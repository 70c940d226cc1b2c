------------------------------ MODULE Connect -------------------------------
(***************************************************************************)
(* The connected account of a shop (stripe-connect.service): the provider  *)
(* holds the account, Shop and StripeConnectedAccount hold copies of its   *)
(* capabilities, and account.updated events bring them up to date.  The    *)
(* capabilities are a version number.                                      *)
(***************************************************************************)
EXTENDS Integers, FiniteSets, FiniteSetsExt

CONSTANTS Accounts,         \* accounts 1..n the provider may create
          Connectors,       \* requests and deliveries that may run at once
          MaxChanges,       \* bound on the changes at the provider
          MaxConnectFaults

ASSUME ConnectAssumption == Accounts \subseteq Nat \ {0} /\ MaxChanges \in Nat

VARIABLES provider,   \* version of each account, 0 before its creation
          shopCopy,   \* Shop: account and version
          mirror,     \* StripeConnectedAccount: account and version
          events,     \* account.updated events not yet delivered
          connecting, \* requests in progress
          changes, connectFaults,
          crossed,    \* two requests were in progress at once
          torn        \* a request stopped between its two writes

connectVars == <<provider, shopCopy, mirror, events, connecting, changes, connectFaults, crossed, torn>>

Unconnected == [account |-> 0, version |-> 0]

Request(step, account, event, new) ==
  [step |-> step, account |-> account, version |-> 0, event |-> event, new |-> new]

NoRequest == Request("idle", 0, 0, FALSE)

ConnectInit ==
  /\ provider = [a \in Accounts |-> 0]
  /\ shopCopy = Unconnected /\ mirror = Unconnected
  /\ events = {}
  /\ connecting = [c \in Connectors |-> NoRequest]
  /\ changes = 0 /\ connectFaults = 0
  /\ crossed = FALSE /\ torn = FALSE

-----------------------------------------------------------------------------
Connects(c, request) ==
  /\ connecting[c] = NoRequest
  /\ connecting' = [connecting EXCEPT ![c] = request]
  /\ crossed' = (crossed \/ \E d \in Connectors : connecting[d] # NoRequest)

\* createConnectedAccount, for a shop without an account.
CreateConnectedAccount(c) ==
  /\ shopCopy.account = 0
  /\ Connects(c, Request("create", 0, 0, TRUE))
  /\ UNCHANGED <<provider, shopCopy, mirror, events, changes, connectFaults, torn>>

AccountCreated(c) ==
  /\ connecting[c].step = "create"
  /\ \E a \in Accounts : provider[a] = 0
  /\ LET a == Min({b \in Accounts : provider[b] = 0})
     IN  /\ provider' = [provider EXCEPT ![a] = 1]
         /\ connecting' = [connecting EXCEPT ![c].step = "shop", ![c].account = a, ![c].version = 1]
  /\ UNCHANGED <<shopCopy, mirror, events, changes, connectFaults, crossed, torn>>

\* syncAccountStatus; a shop without an account is left alone.
SyncAccountStatus(c) ==
  /\ shopCopy.account # 0
  /\ Connects(c, Request("retrieve", shopCopy.account, 0, FALSE))
  /\ UNCHANGED <<provider, shopCopy, mirror, events, changes, connectFaults, torn>>

\* handleConnectAccountUpdated: the event only tells which shop to look after, by the
\* account's metadata; while the shop has no account yet nothing is done.
HandleConnectAccountUpdated(c, e) ==
  /\ e \in events
  /\ events' = events \ {e}
  /\ IF shopCopy.account = 0
       THEN /\ crossed' = (crossed \/ \E d \in Connectors : connecting[d] # NoRequest)
            /\ UNCHANGED connecting
       ELSE Connects(c, Request("retrieve", shopCopy.account, e, FALSE))
  /\ UNCHANGED <<provider, shopCopy, mirror, changes, connectFaults, torn>>

\* Mutant: the capabilities come from the event.
RetrieveNot(c) ==
  /\ connecting[c].step = "retrieve"
  /\ connecting' = [connecting EXCEPT ![c].step = "shop",
       ![c].version = IF connecting[c].event # 0 THEN connecting[c].event ELSE provider[connecting[c].account]]
  /\ UNCHANGED <<provider, shopCopy, mirror, events, changes, connectFaults, crossed, torn>>

Retrieve(c) ==
  /\ connecting[c].step = "retrieve"
  /\ connecting' = [connecting EXCEPT ![c].step = "shop", ![c].version = provider[connecting[c].account]]
  /\ UNCHANGED <<provider, shopCopy, mirror, events, changes, connectFaults, crossed, torn>>

\* The account is written by its creation only.
WriteShop(c) ==
  /\ connecting[c].step = "shop"
  /\ shopCopy' = [account |-> IF connecting[c].new THEN connecting[c].account ELSE shopCopy.account,
                  version |-> connecting[c].version]
  /\ connecting' = [connecting EXCEPT ![c].step = "mirror"]
  /\ UNCHANGED <<provider, mirror, events, changes, connectFaults, crossed, torn>>

\* Mutant: an existing copy is left as it is.
WriteMirrorOnce(c) ==
  /\ connecting[c].step = "mirror"
  /\ mirror' = IF mirror.account = 0
                 THEN [account |-> connecting[c].account, version |-> connecting[c].version] ELSE mirror
  /\ connecting' = [connecting EXCEPT ![c] = NoRequest]
  /\ torn' = FALSE
  /\ UNCHANGED <<provider, shopCopy, events, changes, connectFaults, crossed>>

\* upsert: an existing copy keeps its account.
WriteMirror(c) ==
  /\ connecting[c].step = "mirror"
  /\ mirror' = [account |-> IF mirror.account = 0 THEN connecting[c].account ELSE mirror.account,
                version |-> connecting[c].version]
  /\ connecting' = [connecting EXCEPT ![c] = NoRequest]
  /\ torn' = FALSE
  /\ UNCHANGED <<provider, shopCopy, events, changes, connectFaults, crossed>>

\* A call or a write fails; an event whose handling failed is delivered again.
ConnectFails(c) ==
  /\ connecting[c] # NoRequest
  /\ connectFaults < MaxConnectFaults /\ connectFaults' = connectFaults + 1
  /\ events' = IF connecting[c].event = 0 THEN events ELSE events \cup {connecting[c].event}
  /\ torn' = (torn \/ connecting[c].step = "mirror")
  /\ connecting' = [connecting EXCEPT ![c] = NoRequest]
  /\ UNCHANGED <<provider, shopCopy, mirror, changes, crossed>>

\* The provider changes the account's capabilities and sends an event, in any order with others.
AccountChanges(a) ==
  /\ provider[a] > 0 /\ changes < MaxChanges
  /\ changes' = changes + 1
  /\ provider' = [provider EXCEPT ![a] = changes + 2]
  /\ events' = events \cup {changes + 2}
  /\ UNCHANGED <<shopCopy, mirror, connecting, connectFaults, crossed, torn>>

ConnectRoutes(c) == CreateConnectedAccount(c) \/ SyncAccountStatus(c)

ConnectNext ==
  \/ \E c \in Connectors :
       \/ ConnectRoutes(c) \/ AccountCreated(c) \/ Retrieve(c) \/ WriteShop(c) \/ WriteMirror(c) \/ ConnectFails(c)
       \/ \E e \in events : HandleConnectAccountUpdated(c, e)
  \/ \E a \in Accounts : AccountChanges(a)

ConnectSpec == ConnectInit /\ [][ConnectNext]_connectVars

-----------------------------------------------------------------------------
StripeAccounts == [account : Accounts \cup {0}, version : 0..MaxChanges + 1]

ConnectTypeOK ==
  /\ provider \in [Accounts -> 0..MaxChanges + 1]
  /\ shopCopy \in StripeAccounts /\ mirror \in StripeAccounts
  /\ events \subseteq 2..MaxChanges + 1

Settled == events = {} /\ \A c \in Connectors : connecting[c] = NoRequest

\* Once the provider's events are handled, the shop's capabilities are the account's,
\* in whatever order the events came and however often one was delivered: every event
\* has the account retrieved anew (syncAccountStatus) - unless two of them overlapped,
\* or one came before the shop had its account.
CapabilitiesCurrent ==
  Settled /\ ~crossed /\ shopCopy.account # 0 => shopCopy.version = provider[shopCopy.account]

\* The two copies tell the same, unless two requests overlapped or the last one to
\* write them stopped between the two (createConnectedAccount, syncAccountStatus).
CopiesAgree == Settled /\ ~crossed /\ ~torn => mirror = shopCopy

\* Both copies of the provider's account are current when nothing is under way.
AccountHolds == CapabilitiesCurrent /\ CopiesAgree
=============================================================================
