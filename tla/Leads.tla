------------------------------- MODULE Leads --------------------------------
(***************************************************************************)
(* A request for a demonstration (leads.service): it is stored and passed  *)
(* on by several channels, each of which may be missing or fail.           *)
(***************************************************************************)
EXTENDS Integers, FiniteSets

VARIABLES channel,   \* each channel: working, "off" (not configured, or answering with an error), or throwing
          leadStep, reached, answer

leadVars == <<channel, leadStep, reached, answer>>

Channels == {"database", "ntfy", "web3forms", "smtp", "telegram"}

States == {"up", "off", "down"}

\* The database is always configured, and its errors are thrown.
LeadInit ==
  /\ channel \in [Channels -> States]
  /\ channel["database"] # "off"
  /\ leadStep = "database" /\ reached = {} /\ answer = {}

\* One channel is tried; a channel that throws may have passed the request on.
Tries(c, then, else, caught) ==
  /\ leadStep = c
  /\ \/ channel[c] = "up" /\ reached' = reached \cup {c} /\ answer' = answer \cup {c} /\ leadStep' = then
     \/ channel[c] = "off" /\ leadStep' = else /\ UNCHANGED <<reached, answer>>
     \/ channel[c] = "down" /\ leadStep' = caught /\ reached' \in {reached, reached \cup {c}} /\ UNCHANGED answer
  /\ UNCHANGED channel

SaveAsTicket == Tries("database", "ntfy", "ntfy", "ntfy")

\* Mutant: an error ends the request.
SendViaNtfyThrows == Tries("ntfy", "web3forms", "web3forms", "done")

SendViaNtfy == Tries("ntfy", "web3forms", "web3forms", "web3forms")

\* SMTP is the second choice; an error of the first skips it.
SendViaWeb3Forms == Tries("web3forms", "telegram", "smtp", "telegram")

SendViaSmtp == Tries("smtp", "telegram", "telegram", "telegram")

SendViaTelegram == Tries("telegram", "done", "done", "done")

SubmitDemoRequest == SaveAsTicket \/ SendViaNtfy \/ SendViaWeb3Forms \/ SendViaSmtp \/ SendViaTelegram

LeadSpec == LeadInit /\ [][SubmitDemoRequest]_leadVars

LeadTypeOK ==
  /\ channel \in [Channels -> States] /\ leadStep \in Channels \cup {"done"}
  /\ reached \subseteq Channels /\ answer \subseteq reached

\* A request reaches every channel that works, whatever happened to the others, and the
\* answer names no channel it did not reach (submitDemoRequest) - but SMTP only where
\* Web3Forms is not configured or refuses.
LeadReaches ==
  leadStep = "done" =>
    /\ answer \subseteq reached
    /\ \A c \in Channels : channel[c] = "up" => c \in reached \/ (c = "smtp" /\ channel["web3forms"] # "off")
=============================================================================
