------------------------------- MODULE Outbox -------------------------------
(***************************************************************************)
(* The transactional outbox (common/outbox): entries are stored by command *)
(* handlers, and in every API process a processor lists the pending ones,  *)
(* marks each PROCESSING, publishes it and marks it DONE.  An entry whose  *)
(* attempt fails is PENDING again, or FAILED after the last attempt.       *)
(***************************************************************************)
EXTENDS Integers, FiniteSets

CONSTANTS N,             \* entries 1..N are stored in this order
          Processes,     \* API processes
          MaxAttempts,   \* attempts after which an entry is FAILED (5)
          Limit,         \* entries listed at once
          MaxFaults      \* bound on crashes and failing writes

ASSUME OutboxAssumption ==
  /\ N \in Nat /\ MaxAttempts \in Nat \ {0} /\ Limit \in Nat \ {0} /\ MaxFaults \in Nat

VARIABLES many,       \* whether more than one process runs the processor
          row,        \* the entries' rows
          published,  \* how often each entry was published
          worker,     \* the processor of each process
          stranded,   \* entries a stopped processor left PROCESSING
          faults

outboxVars == <<many, row, published, worker, stranded, faults>>

Entries == 1..N

OutboxStatus == {"none", "PENDING", "PROCESSING", "DONE", "FAILED"}

\* known: rehydrate has a case for the row's eventType.
OutboxRows == [status : OutboxStatus, attempts : Nat, known : BOOLEAN]

\* todo: listed entries not yet handled; seen: their attempts when they were listed;
\* entry: the one at hand.
Workers == [step : {"idle", "claim", "publish", "done", "error"}, todo : SUBSET Entries,
            seen : [Entries -> Nat], entry : Entries \cup {0}]

Running(w) == many \/ w = CHOOSE v \in Processes : TRUE

\* Mutant: the latest first.
LatestOf(S) == {e \in S : \A f \in S : e >= f}

\* createdAt: the earliest first.
EarliestOf(S) == {e \in S : \A f \in S : e <= f}

At(w, s) == worker[w].step = s

Current(w) == worker[w].entry

\* The first of the pending entries, as many as the limit allows.
Listed ==
  LET pending == {e \in Entries : row[e].status = "PENDING"}
  IN  {e \in pending : Cardinality({f \in pending : f < e}) < Limit}

OutboxInit ==
  /\ many \in BOOLEAN
  /\ \E known \in [Entries -> BOOLEAN] :
       row = [e \in Entries |-> [status |-> "none", attempts |-> 0, known |-> known[e]]]
  /\ published = [e \in Entries |-> 0]
  /\ worker = [w \in Processes |-> [step |-> "idle", todo |-> {}, seen |-> [e \in Entries |-> 0], entry |-> 0]]
  /\ stranded = {}
  /\ faults = 0

-----------------------------------------------------------------------------
\* enqueue, addToOutbox
Enqueue(e) ==
  /\ row[e].status = "none"
  /\ \A f \in Entries : f < e => row[f].status # "none"
  /\ row' = [row EXCEPT ![e].status = "PENDING"]
  /\ UNCHANGED <<many, published, worker, stranded, faults>>

\* tick: not while the last one runs.
Tick(w) ==
  /\ Running(w) /\ worker[w].step = "idle" /\ Listed # {}
  /\ worker' = [worker EXCEPT ![w] =
       [step |-> "claim", todo |-> Listed, seen |-> [e \in Entries |-> row[e].attempts], entry |-> 0]]
  /\ UNCHANGED <<many, row, published, stranded, faults>>

Goes(w, s) == worker' = [worker EXCEPT ![w].step = s]

\* On to the next listed entry.
NextEntry(w) ==
  worker' = [worker EXCEPT ![w].step = IF worker[w].todo = {} THEN "idle" ELSE "claim"]

Takes(w, e, s) ==
  /\ e \in EarliestOf(worker[w].todo)
  /\ worker' = [worker EXCEPT ![w].step = s, ![w].todo = @ \ {e}, ![w].entry = e]

Claim(w, e) ==
  /\ At(w, "claim")
  /\ Takes(w, e, "publish")
  /\ row' = [row EXCEPT ![e].status = "PROCESSING", ![e].attempts = @ + 1]
  /\ UNCHANGED <<many, published, stranded, faults>>

\* Mutant: the entry is settled before it is published.
PublishAfterDone(w) ==
  /\ At(w, "publish")
  /\ row' = [row EXCEPT ![Current(w)].status = "DONE"]
  /\ Goes(w, "done")
  /\ UNCHANGED <<many, published, stranded, faults>>

\* rehydrate and eventBus.publish, which does not wait for the handlers.  An eventType
\* that rehydrate does not know is logged, and the entry goes on to DONE all the same.
Publish(w) ==
  /\ At(w, "publish")
  /\ published' = IF row[Current(w)].known THEN [published EXCEPT ![Current(w)] = @ + 1]
                  ELSE published
  /\ Goes(w, "done")
  /\ UNCHANGED <<many, row, stranded, faults>>

\* Mutant: the time is written, the status is the old one.
DoneAsPending(w) ==
  /\ At(w, "done")
  /\ row' = [row EXCEPT ![Current(w)].status = "PENDING"]
  /\ NextEntry(w)
  /\ UNCHANGED <<many, published, stranded, faults>>

Done(w) ==
  /\ At(w, "done")
  /\ row' = [row EXCEPT ![Current(w)].status = "DONE"]
  /\ NextEntry(w)
  /\ UNCHANGED <<many, published, stranded, faults>>

\* Writing PROCESSING or DONE throws.
WriteFails(w) ==
  /\ faults < MaxFaults
  /\ faults' = faults + 1
  /\ \/ At(w, "claim") /\ \E e \in Entries : Takes(w, e, "error")
     \/ At(w, "done") /\ Goes(w, "error")
  /\ UNCHANGED <<many, row, published, stranded>>

\* Mutant: only the error is noted.
RecordErrorOnly(w) ==
  /\ At(w, "error")
  /\ NextEntry(w)
  /\ UNCHANGED <<many, row, published, stranded, faults>>

\* Mutant: a status the schema does not name.
RecordErrorAsRetry(w) ==
  /\ At(w, "error")
  /\ row' = [row EXCEPT ![Current(w)].status = "RETRY"]
  /\ NextEntry(w)
  /\ UNCHANGED <<many, published, stranded, faults>>

\* The attempts counted here are those seen when the entry was listed.
RecordError(w) ==
  /\ At(w, "error")
  /\ row' = [row EXCEPT ![Current(w)].status =
               IF worker[w].seen[Current(w)] + 1 >= MaxAttempts THEN "FAILED" ELSE "PENDING"]
  /\ NextEntry(w)
  /\ UNCHANGED <<many, published, stranded, faults>>

\* The process restarts, or recording an error throws: the rest of the list waits for
\* the next tick, and an entry that is PROCESSING is never listed again.
Stop(w) ==
  /\ worker[w].step # "idle"
  /\ faults < MaxFaults
  /\ faults' = faults + 1
  /\ worker' = [worker EXCEPT ![w] = [step |-> "idle", todo |-> {}, seen |-> @.seen, entry |-> 0]]
  /\ stranded' = stranded \cup {e \in Entries : row[e].status = "PROCESSING"}
  /\ UNCHANGED <<many, row, published>>

ProcessPending(w) ==
  Tick(w) \/ (\E e \in Entries : Claim(w, e)) \/ Publish(w) \/ Done(w) \/ RecordError(w)

OutboxNext ==
  \/ \E e \in Entries : Enqueue(e)
  \/ \E w \in Processes : ProcessPending(w) \/ WriteFails(w) \/ Stop(w)

OutboxSpec == OutboxInit /\ [][OutboxNext]_outboxVars

-----------------------------------------------------------------------------
OutboxTypeOK ==
  /\ many \in BOOLEAN
  /\ row \in [Entries -> OutboxRows]
  /\ published \in [Entries -> Nat]
  /\ worker \in [Processes -> Workers]
  /\ stranded \subseteq Entries
  /\ faults \in Nat

StateOf(status) ==
  CASE status = "none" -> "none"
    [] status \in {"PENDING", "PROCESSING"} -> "waiting"
    [] status = "DONE" -> "settled"
    [] status = "FAILED" -> "given up"

DeliveryState == [e \in Entries |-> StateOf(row[e].status)]

KnownEntries == [e \in Entries |-> row[e].known]

Promise == INSTANCE Delivery
  WITH state <- DeliveryState, known <- KnownEntries, times <- published

\* With one process, the outbox is what Delivery describes: an entry whose event is known
\* is DONE only after it was published and is not published again afterwards; with
\* several, only the first half holds (processPending lists entries without claiming them).
\* An entry of an unknown event is DONE without a publication.
ImplementsDelivery == Promise!Spec
=============================================================================
