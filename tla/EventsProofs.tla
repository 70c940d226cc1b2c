---------------------------- MODULE EventsProofs ----------------------------
(***************************************************************************)
(* The outbox implements Delivery; from a stored event to the rows, pushes *)
(* and mails nothing is lost or told wrongly; and the bell shows what it   *)
(* should: for any number of entries, processes, users and faults.         *)
(***************************************************************************)
EXTENDS MCEvents, SumTheorems, TLAPS

Busy == {"publish", "done", "error"}

\* What a processor knows of its entries: all are stored, and one that is about to be
\* marked DONE was published, if its event is known.
EntriesStored ==
  \A w \in Processes :
    /\ \A e \in worker[w].todo : row[e].status # "none"
    /\ worker[w].step \in Busy =>
         worker[w].entry \in Entries /\ row[worker[w].entry].status # "none"
    /\ (worker[w].step = "done" /\ row[worker[w].entry].known) => published[worker[w].entry] > 0

\* With one process, nobody else touches what its processor has listed.
Alone ==
  ~many =>
    \A w \in Processes :
      /\ worker[w].step # "idle" => Running(w)
      /\ worker[w].todo # {} => worker[w].step # "idle"
      /\ \A e \in worker[w].todo : row[e].status = "PENDING"
      /\ worker[w].step \in Busy =>
           /\ worker[w].entry \notin worker[w].todo
           /\ row[worker[w].entry].status \in {"PENDING", "PROCESSING"}

OutboxInv == OutboxTypeOK /\ EntriesStored /\ Alone

\* Only one processor runs when there is not more than one process.
LEMMA OneRuns ==
  ASSUME NEW v \in Processes, NEW w \in Processes, ~many, Running(v), Running(w)
  PROVE  v = w
  BY DEF Running

LEMMA ListedPending == Listed \subseteq Entries /\ \A e \in Listed : row[e].status = "PENDING"
  BY DEF Listed

LEMMA OutboxInitInv == OutboxInit => OutboxInv
  BY OutboxAssumption DEF OutboxInit, OutboxInv, OutboxTypeOK, OutboxRows, OutboxStatus, Workers, EntriesStored, Alone, Busy, Entries

\* The processor w is now at step s, with the entries t to do and entry e at hand.
Becomes(w, s, t, e) ==
  worker' = [worker EXCEPT ![w] = [step |-> s, todo |-> t, seen |-> worker[w].seen, entry |-> e]]

LEMMA WorkerFields ==
  ASSUME OutboxTypeOK, NEW w \in Processes
  PROVE  /\ worker[w].todo \subseteq Entries
         /\ worker[w].entry \in Entries \cup {0}
         /\ worker[w].seen \in [Entries -> Nat]
         /\ worker[w].step \in {"idle", "claim", "publish", "done", "error"}
         /\ worker[w] = [step |-> worker[w].step, todo |-> worker[w].todo,
                         seen |-> worker[w].seen, entry |-> worker[w].entry]
  BY DEF OutboxTypeOK, Workers

LEMMA GoesBecomes ==
  ASSUME OutboxTypeOK, NEW w \in Processes, NEW s, Goes(w, s)
  PROVE  Becomes(w, s, worker[w].todo, worker[w].entry)
<1>1. [worker[w] EXCEPT !.step = s] =
        [step |-> s, todo |-> worker[w].todo, seen |-> worker[w].seen, entry |-> worker[w].entry]
  <2>1. worker[w] \in Workers
        BY DEF OutboxTypeOK
  <2> QED BY <2>1 DEF Workers
<1>2. worker' = [worker EXCEPT ![w] = [worker[w] EXCEPT !.step = s]]
      BY DEF Goes
<1> QED BY <1>1, <1>2 DEF Becomes

LEMMA NextEntryBecomes ==
  ASSUME OutboxTypeOK, NEW w \in Processes, NextEntry(w)
  PROVE  Becomes(w, IF worker[w].todo = {} THEN "idle" ELSE "claim", worker[w].todo, worker[w].entry)
<1> DEFINE s == IF worker[w].todo = {} THEN "idle" ELSE "claim"
<1>1. Goes(w, s)
      BY DEF NextEntry, Goes
<1> HIDE DEF s
<1>2. Becomes(w, s, worker[w].todo, worker[w].entry)
      BY <1>1, GoesBecomes
<1> QED BY <1>2 DEF s

LEMMA TakesBecomes ==
  ASSUME OutboxTypeOK, NEW w \in Processes, NEW e, NEW s, Takes(w, e, s)
  PROVE  /\ e \in worker[w].todo
         /\ Becomes(w, s, worker[w].todo \ {e}, e)
<1>1. e \in worker[w].todo
      BY DEF Takes, EarliestOf
<1>2. worker' = [worker EXCEPT ![w].step = s, ![w].todo = @ \ {e}, ![w].entry = e]
      BY DEF Takes
<1> QED BY <1>1, <1>2, WorkerFields DEF Becomes, OutboxTypeOK, Workers

LEMMA StopBecomes ==
  ASSUME OutboxTypeOK, NEW w \in Processes, Stop(w)
  PROVE  Becomes(w, "idle", {}, 0)
  BY DEF Stop, Becomes

LEMMA BecomesType ==
  ASSUME OutboxTypeOK, NEW w \in Processes, NEW s \in {"idle", "claim", "publish", "done", "error"},
         NEW t \in SUBSET Entries, NEW e \in Entries \cup {0}, Becomes(w, s, t, e)
  PROVE  worker' \in [Processes -> Workers]
  BY WorkerFields DEF Becomes, OutboxTypeOK, Workers

\* The status of entry e is now s, and no other row changed; what its event is stays.
RowMarked(e, s) ==
  /\ row' \in [Entries -> OutboxRows]
  /\ row'[e].status = s /\ row'[e].known = row[e].known
  /\ \A f \in Entries \ {e} : row'[f] = row[f]

LEMMA KnownKept ==
  ASSUME NEW e \in Entries, NEW s, RowMarked(e, s)
  PROVE  \A f \in Entries : row'[f].known = row[f].known
  BY DEF RowMarked

LEMMA MarkedRow ==
  ASSUME OutboxTypeOK, NEW e \in Entries, NEW s \in OutboxStatus,
         row' = [row EXCEPT ![e].status = s]
  PROVE  RowMarked(e, s)
  BY DEF OutboxTypeOK, OutboxRows, RowMarked

\* What the steps of a processor do to the rows and to the processor.
LEMMA ClaimEffect ==
  ASSUME OutboxInv, NEW w \in Processes, NEW e \in Entries, Claim(w, e)
  PROVE  /\ e \in worker[w].todo
         /\ RowMarked(e, "PROCESSING")
         /\ Becomes(w, "publish", worker[w].todo \ {e}, e)
<1>1. Takes(w, e, "publish")
      BY DEF Claim
<1>2. RowMarked(e, "PROCESSING")
      BY DEF Claim, RowMarked, OutboxInv, OutboxTypeOK, OutboxRows, OutboxStatus
<1> QED BY <1>1, <1>2, TakesBecomes DEF OutboxInv

LEMMA DoneEffect ==
  ASSUME OutboxInv, NEW w \in Processes, Done(w)
  PROVE  /\ Current(w) \in Entries
         /\ RowMarked(Current(w), "DONE")
         /\ Becomes(w, IF worker[w].todo = {} THEN "idle" ELSE "claim", worker[w].todo, worker[w].entry)
<1>1. Current(w) \in Entries
      BY DEF OutboxInv, EntriesStored, Done, At, Busy, Current
<1>2. RowMarked(Current(w), "DONE")
      BY <1>1, MarkedRow DEF Done, OutboxInv, OutboxStatus
<1> QED BY <1>1, <1>2, NextEntryBecomes DEF OutboxInv, Done

LEMMA RecordErrorEffect ==
  ASSUME OutboxInv, NEW w \in Processes, RecordError(w)
  PROVE  /\ Current(w) \in Entries
         /\ RowMarked(Current(w), "FAILED") \/ RowMarked(Current(w), "PENDING")
         /\ Becomes(w, IF worker[w].todo = {} THEN "idle" ELSE "claim", worker[w].todo, worker[w].entry)
<1>1. Current(w) \in Entries
      BY DEF OutboxInv, EntriesStored, RecordError, At, Busy, Current
<1>2. RowMarked(Current(w), "FAILED") \/ RowMarked(Current(w), "PENDING")
      BY <1>1, MarkedRow DEF RecordError, OutboxInv, OutboxStatus
<1> QED BY <1>1, <1>2, NextEntryBecomes DEF OutboxInv, RecordError

\* The rows keep their type in every step.
LEMMA OutboxTypeStep == OutboxInv /\ [OutboxNext]_outboxVars => OutboxTypeOK'
<1> SUFFICES ASSUME OutboxInv, [OutboxNext]_outboxVars PROVE OutboxTypeOK'
    OBVIOUS
<1> USE OutboxAssumption
<1>0. OutboxTypeOK BY DEF OutboxInv
<1>1. ASSUME NEW e \in Entries, Enqueue(e) PROVE OutboxTypeOK'
  <2>1. RowMarked(e, "PENDING")
        BY <1>0, <1>1, MarkedRow DEF Enqueue, OutboxStatus
  <2> QED BY <1>0, <1>1, <2>1 DEF Enqueue, RowMarked, OutboxTypeOK
<1>2. ASSUME NEW w \in Processes, Tick(w) PROVE OutboxTypeOK'
      BY <1>0, <1>2, ListedPending DEF Tick, OutboxTypeOK, OutboxRows, Workers
<1>3. ASSUME NEW w \in Processes, NEW e \in Entries, Claim(w, e) PROVE OutboxTypeOK'
  <2>1. worker' \in [Processes -> Workers]
        BY <1>0, <1>3, ClaimEffect, BecomesType, WorkerFields, ZenonT(60)
  <2> QED BY <1>0, <1>3, <2>1, ClaimEffect DEF Claim, RowMarked, OutboxTypeOK
<1>4. ASSUME NEW w \in Processes, Publish(w) PROVE OutboxTypeOK'
  <2>1. worker[w].entry \in Entries
        BY <1>4 DEF OutboxInv, Publish, At, EntriesStored, Busy
  <2>2. worker' \in [Processes -> Workers]
        BY <1>0, <1>4, GoesBecomes, BecomesType, WorkerFields DEF Publish
  <2>3. published' \in [Entries -> Nat]
        BY <1>0, <1>4, <2>1 DEF Publish, Current, OutboxTypeOK
  <2> QED BY <1>0, <1>4, <2>2, <2>3 DEF Publish, OutboxTypeOK
<1>5. ASSUME NEW w \in Processes, Done(w) PROVE OutboxTypeOK'
  <2>1. worker' \in [Processes -> Workers]
        BY <1>0, <1>5, DoneEffect, BecomesType, WorkerFields
  <2> QED BY <1>0, <1>5, <2>1, DoneEffect DEF Done, RowMarked, OutboxTypeOK
<1>6. ASSUME NEW w \in Processes, RecordError(w) PROVE OutboxTypeOK'
  <2>1. worker' \in [Processes -> Workers]
        BY <1>0, <1>6, RecordErrorEffect, BecomesType, WorkerFields
  <2> QED BY <1>0, <1>6, <2>1, RecordErrorEffect DEF RecordError, RowMarked, OutboxTypeOK
<1>7. ASSUME NEW w \in Processes, WriteFails(w) PROVE OutboxTypeOK'
  <2>1. worker' \in [Processes -> Workers]
    <3>1. ASSUME NEW e \in Entries, Takes(w, e, "error") PROVE worker' \in [Processes -> Workers]
      <4> DEFINE t == worker[w].todo \ {e}
      <4>1. Becomes(w, "error", t, e) /\ t \in SUBSET Entries
            BY <1>0, <3>1, TakesBecomes, WorkerFields
      <4> HIDE DEF t
      <4> QED BY <1>0, <4>1, BecomesType
    <3>2. CASE Goes(w, "error")
      <4> DEFINE t == worker[w].todo
                 e == worker[w].entry
      <4>1. Becomes(w, "error", t, e) /\ t \in SUBSET Entries /\ e \in Entries \cup {0}
            BY <1>0, <3>2, GoesBecomes, WorkerFields
      <4> HIDE DEF t, e
      <4> QED BY <1>0, <4>1, BecomesType
    <3> QED BY <1>7, <3>1, <3>2 DEF WriteFails
  <2> QED BY <1>0, <1>7, <2>1 DEF WriteFails, OutboxTypeOK
<1>8. ASSUME NEW w \in Processes, Stop(w) PROVE OutboxTypeOK'
  <2>1. worker' \in [Processes -> Workers]
        BY <1>0, <1>8, StopBecomes, BecomesType, WorkerFields
  <2> QED BY <1>0, <1>8, <2>1 DEF Stop, OutboxTypeOK
<1>9. CASE UNCHANGED outboxVars
      BY <1>0, <1>9 DEF outboxVars, OutboxTypeOK
<1> QED BY <1>1, <1>2, <1>3, <1>4, <1>5, <1>6, <1>7, <1>8, <1>9 DEF OutboxNext, ProcessPending

\* A processor that is not w: its listed entries stay stored, and with one process it
\* is idle and stays so.
LEMMA OthersIdle ==
  ASSUME OutboxInv, ~many, NEW w \in Processes, worker[w].step # "idle" \/ Running(w),
         NEW v \in Processes, v # w
  PROVE  worker[v].step = "idle" /\ worker[v].todo = {}
<1>1. Running(w)
      BY DEF OutboxInv, Alone
<1>2. ~Running(v)
      BY <1>1, OneRuns
<1> QED BY <1>2 DEF OutboxInv, Alone

LEMMA StoredStep == OutboxInv /\ [OutboxNext]_outboxVars => EntriesStored'
<1> SUFFICES ASSUME OutboxInv, [OutboxNext]_outboxVars PROVE EntriesStored'
    OBVIOUS
<1> USE OutboxAssumption
<1>0. OutboxTypeOK /\ EntriesStored
      BY DEF OutboxInv
<1>1. ASSUME NEW e \in Entries, Enqueue(e) PROVE EntriesStored'
  <2>1. RowMarked(e, "PENDING")
        BY <1>0, <1>1, MarkedRow DEF Enqueue, OutboxStatus
  <2>2. \A f \in Entries : /\ row[f].status # "none" => row'[f].status # "none"
                           /\ row'[f].known = row[f].known
        BY <2>1, KnownKept DEF RowMarked
  <2>3. worker' = worker /\ published' = published
        BY <1>1 DEF Enqueue
  <2> QED BY <1>0, <2>2, <2>3, WorkerFields DEF EntriesStored, Busy
<1>2. ASSUME NEW w \in Processes, Tick(w) PROVE EntriesStored'
      BY <1>0, <1>2, ListedPending DEF Tick, EntriesStored, Busy, OutboxTypeOK
<1>3. ASSUME NEW w \in Processes, NEW e \in Entries, Claim(w, e) PROVE EntriesStored'
  <2>1. RowMarked(e, "PROCESSING") /\ Becomes(w, "publish", worker[w].todo \ {e}, e) /\ published' = published
        BY <1>3, ClaimEffect DEF Claim
  <2>2. \A f \in Entries : /\ row[f].status # "none" => row'[f].status # "none"
                           /\ row'[f].known = row[f].known
        BY <2>1, KnownKept DEF RowMarked
  <2>3. \A v \in Processes : v # w => worker'[v] = worker[v]
        BY <2>1, <1>0 DEF Becomes, OutboxTypeOK
  <2>4. worker'[w].step = "publish" /\ worker'[w].todo = worker[w].todo \ {e} /\ worker'[w].entry = e
        BY <2>1, <1>0 DEF Becomes, OutboxTypeOK
  <2>5. row'[e].status # "none"
        BY <2>1 DEF RowMarked
  <2> QED BY <1>0, <2>1, <2>2, <2>3, <2>4, <2>5, WorkerFields, ZenonT(60) DEF EntriesStored, Busy
<1>4. ASSUME NEW w \in Processes, Publish(w) PROVE EntriesStored'
  <2>1. worker[w].entry \in Entries /\ row[worker[w].entry].status # "none"
        BY <1>0, <1>4 DEF Publish, At, EntriesStored, Busy
  <2>2. Becomes(w, "done", worker[w].todo, worker[w].entry) /\ row' = row
        BY <1>0, <1>4, GoesBecomes DEF Publish
  <2>3. /\ row[worker[w].entry].known => published'[worker[w].entry] > 0
        /\ \A f \in Entries : published[f] > 0 => published'[f] > 0
        BY <1>0, <1>4, <2>1 DEF Publish, Current, OutboxTypeOK
  <2>4. \A v \in Processes : v # w => worker'[v] = worker[v]
        BY <2>2, <1>0 DEF Becomes, OutboxTypeOK
  <2>5. worker'[w].step = "done" /\ worker'[w].todo = worker[w].todo /\ worker'[w].entry = worker[w].entry
        BY <2>2, <1>0 DEF Becomes, OutboxTypeOK
  <2> QED BY <1>0, <2>1, <2>2, <2>3, <2>4, <2>5, WorkerFields DEF EntriesStored, Busy
<1>5. ASSUME NEW w \in Processes, NEW s \in {"DONE", "FAILED", "PENDING"},
             Current(w) \in Entries, RowMarked(Current(w), s), published' = published,
             Becomes(w, IF worker[w].todo = {} THEN "idle" ELSE "claim", worker[w].todo, worker[w].entry)
      PROVE  EntriesStored'
  <2>1. \A f \in Entries : /\ row[f].status # "none" => row'[f].status # "none"
                           /\ row'[f].known = row[f].known
        BY <1>5, KnownKept DEF RowMarked
  <2>2. \A v \in Processes : v # w => worker'[v] = worker[v]
        BY <1>5, <1>0 DEF Becomes, OutboxTypeOK
  <2>3. worker'[w].step \in {"idle", "claim"} /\ worker'[w].todo = worker[w].todo
        BY <1>5, <1>0 DEF Becomes, OutboxTypeOK
  <2>4. ASSUME NEW v \in Processes, v # w
        PROVE  /\ \A e \in worker'[v].todo : row'[e].status # "none"
               /\ worker'[v].step \in Busy =>
                    worker'[v].entry \in Entries /\ row'[worker'[v].entry].status # "none"
               /\ (worker'[v].step = "done" /\ row'[worker'[v].entry].known) => published'[worker'[v].entry] > 0
    <3>1. \A e \in worker[v].todo : e \in Entries /\ row[e].status # "none"
          BY <1>0, WorkerFields DEF EntriesStored
    <3>2. worker[v].step \in Busy => worker[v].entry \in Entries /\ row[worker[v].entry].status # "none"
          BY <1>0 DEF EntriesStored
    <3>3. worker[v].step = "done" =>
            worker[v].step \in Busy /\ (row[worker[v].entry].known => published[worker[v].entry] > 0)
          BY <1>0 DEF EntriesStored, Busy
    <3>4. worker'[v] = worker[v] /\ published' = published
          BY <1>5, <2>2, <2>4
    <3> QED BY <2>1, <3>1, <3>2, <3>3, <3>4
  <2>5. \A e \in worker'[w].todo : row'[e].status # "none"
        BY <1>0, <2>1, <2>3, WorkerFields DEF EntriesStored
  <2> QED BY <2>3, <2>4, <2>5 DEF EntriesStored, Busy
<1>6. ASSUME NEW w \in Processes, Done(w) \/ RecordError(w) PROVE EntriesStored'
  <2>1. CASE Done(w)
        BY <1>5, <2>1, DoneEffect DEF Done
  <2>2. CASE RecordError(w)
    <3>1. published' = published
          BY <2>2 DEF RecordError
    <3> QED BY <1>5, <2>2, <3>1, RecordErrorEffect
  <2> QED BY <1>6, <2>1, <2>2
<1>7. ASSUME NEW w \in Processes, NEW e \in Entries, Takes(w, e, "error"), row' = row, published' = published
      PROVE  EntriesStored'
  <2>1. e \in worker[w].todo /\ Becomes(w, "error", worker[w].todo \ {e}, e)
        BY <1>0, <1>7, TakesBecomes
  <2>2. \A v \in Processes : v # w => worker'[v] = worker[v]
        BY <2>1, <1>0 DEF Becomes, OutboxTypeOK
  <2>3. worker'[w].step = "error" /\ worker'[w].todo = worker[w].todo \ {e} /\ worker'[w].entry = e
        BY <2>1, <1>0 DEF Becomes, OutboxTypeOK
  <2> QED BY <1>0, <1>7, <2>1, <2>2, <2>3, WorkerFields DEF EntriesStored, Busy
<1>8. ASSUME NEW w \in Processes, At(w, "done"), Goes(w, "error"), row' = row, published' = published
      PROVE  EntriesStored'
  <2>1. Becomes(w, "error", worker[w].todo, worker[w].entry)
        BY <1>0, <1>8, GoesBecomes
  <2>2. \A v \in Processes : v # w => worker'[v] = worker[v]
        BY <2>1, <1>0 DEF Becomes, OutboxTypeOK
  <2>3. worker'[w].step = "error" /\ worker'[w].todo = worker[w].todo /\ worker'[w].entry = worker[w].entry
        BY <2>1, <1>0 DEF Becomes, OutboxTypeOK
  <2> QED BY <1>0, <1>8, <2>2, <2>3, WorkerFields DEF EntriesStored, Busy, At
<1>9. ASSUME NEW w \in Processes, Stop(w) PROVE EntriesStored'
  <2>1. Becomes(w, "idle", {}, 0)
        BY <1>0, <1>9, StopBecomes
  <2>2. \A v \in Processes : v # w => worker'[v] = worker[v]
        BY <2>1, <1>0 DEF Becomes, OutboxTypeOK
  <2>3. worker'[w].step = "idle" /\ worker'[w].todo = {}
        BY <2>1, <1>0 DEF Becomes, OutboxTypeOK
  <2> QED BY <1>0, <1>9, <2>2, <2>3, WorkerFields DEF EntriesStored, Busy, Stop
<1>10. CASE UNCHANGED outboxVars
      BY <1>0, <1>10 DEF outboxVars, EntriesStored
<1> QED BY <1>1, <1>2, <1>3, <1>4, <1>6, <1>7, <1>8, <1>9, <1>10
        DEF OutboxNext, ProcessPending, WriteFails

LEMMA AloneStep == OutboxInv /\ [OutboxNext]_outboxVars => Alone'
<1> SUFFICES ASSUME OutboxInv, [OutboxNext]_outboxVars, ~many' PROVE Alone'
    BY DEF Alone
<1> USE OutboxAssumption
<1>0. OutboxTypeOK /\ EntriesStored /\ Alone
      BY DEF OutboxInv
<1>m. ~many
      BY DEF OutboxNext, outboxVars, Enqueue, ProcessPending, Tick, Claim, Publish, Done, RecordError, WriteFails, Stop
<1>r. \A v \in Processes : Running(v)' <=> Running(v)
      BY <1>m DEF Running
\* Enough that the acting processor keeps what Alone says of it: the others are idle.
<1>s. ASSUME NEW w \in Processes, worker[w].step # "idle" \/ Running(w),
             \A v \in Processes : v # w => worker'[v] = worker[v],
             /\ worker'[w].todo # {} => worker'[w].step # "idle"
             /\ \A e \in worker'[w].todo : row'[e].status = "PENDING"
             /\ worker'[w].step \in Busy =>
                  /\ worker'[w].entry \notin worker'[w].todo
                  /\ row'[worker'[w].entry].status \in {"PENDING", "PROCESSING"}
      PROVE  Alone'
  <2>1. Running(w)
        BY <1>0, <1>m, <1>s DEF Alone
  <2>2. \A v \in Processes : v # w => worker'[v].step = "idle" /\ worker'[v].todo = {}
        BY <1>m, <1>s, OthersIdle
  <2> QED BY <1>s, <1>r, <2>1, <2>2 DEF Alone, Busy
<1>1. ASSUME NEW e \in Entries, Enqueue(e) PROVE Alone'
  <2>1. RowMarked(e, "PENDING") /\ row[e].status = "none" /\ worker' = worker
        BY <1>0, <1>1, MarkedRow DEF Enqueue, OutboxStatus
  <2>2. \A f \in Entries : row[f].status # "none" => row'[f] = row[f]
        BY <2>1 DEF RowMarked
  <2>3. ASSUME NEW v \in Processes
        PROVE  /\ \A f \in worker[v].todo : row'[f].status = "PENDING"
               /\ worker[v].step \in Busy => row'[worker[v].entry].status \in {"PENDING", "PROCESSING"}
    <3>1. \A f \in worker[v].todo : f \in Entries /\ row[f].status = "PENDING"
          BY <1>0, <1>m, WorkerFields DEF Alone
    <3>2. worker[v].step \in Busy => /\ worker[v].entry \in Entries
                                     /\ row[worker[v].entry].status \in {"PENDING", "PROCESSING"}
          BY <1>0, <1>m DEF Alone, EntriesStored
    <3> QED BY <2>2, <3>1, <3>2
  <2> QED BY <1>0, <1>m, <1>r, <2>1, <2>3 DEF Alone
<1>2. ASSUME NEW w \in Processes, Tick(w) PROVE Alone'
  <2>1. worker'[w].step = "claim" /\ worker'[w].todo = Listed
        BY <1>0, <1>2 DEF Tick, OutboxTypeOK
  <2>2. (\A v \in Processes : v # w => worker'[v] = worker[v]) /\ row' = row /\ Running(w)
        BY <1>0, <1>2 DEF Tick, OutboxTypeOK
  <2> QED BY <1>s, <2>1, <2>2, ListedPending DEF Busy
<1>3. ASSUME NEW w \in Processes, NEW e \in Entries, Claim(w, e) PROVE Alone'
  <2>1. RowMarked(e, "PROCESSING") /\ Becomes(w, "publish", worker[w].todo \ {e}, e) /\ worker[w].step = "claim"
        BY <1>3, ClaimEffect DEF Claim, At
  <2>3. \A v \in Processes : v # w => worker'[v] = worker[v]
        BY <2>1, <1>0 DEF Becomes, OutboxTypeOK
  <2>4. worker'[w].step = "publish" /\ worker'[w].todo = worker[w].todo \ {e} /\ worker'[w].entry = e
        BY <2>1, <1>0 DEF Becomes, OutboxTypeOK
  <2>5. \A f \in worker'[w].todo : row'[f].status = "PENDING"
    <3>1. \A f \in worker[w].todo : f \in Entries /\ row[f].status = "PENDING"
          BY <1>0, <1>m, WorkerFields DEF Alone
    <3>2. \A f \in Entries \ {e} : row'[f] = row[f]
          BY <2>1 DEF RowMarked
    <3> QED BY <2>4, <3>1, <3>2
  <2> QED BY <1>s, <2>1, <2>3, <2>4, <2>5 DEF Busy, RowMarked
<1>4. ASSUME NEW w \in Processes, Publish(w) PROVE Alone'
  <2>1. worker[w].step = "publish"
        BY <1>4 DEF Publish, At
  <2>2. Becomes(w, "done", worker[w].todo, worker[w].entry) /\ row' = row
        BY <1>0, <1>4, GoesBecomes DEF Publish
  <2>4. \A v \in Processes : v # w => worker'[v] = worker[v]
        BY <2>2, <1>0 DEF Becomes, OutboxTypeOK
  <2>5. worker'[w].step = "done" /\ worker'[w].todo = worker[w].todo /\ worker'[w].entry = worker[w].entry
        BY <2>2, <1>0 DEF Becomes, OutboxTypeOK
  <2> QED BY <1>0, <1>m, <1>s, <2>1, <2>2, <2>4, <2>5 DEF Alone, Busy
<1>5. ASSUME NEW w \in Processes, NEW s, worker[w].step \in {"done", "error"},
             Current(w) \in Entries, RowMarked(Current(w), s),
             Becomes(w, IF worker[w].todo = {} THEN "idle" ELSE "claim", worker[w].todo, worker[w].entry)
      PROVE  Alone'
  <2>2. \A v \in Processes : v # w => worker'[v] = worker[v]
        BY <1>5, <1>0 DEF Becomes, OutboxTypeOK
  <2>3. worker'[w].step = (IF worker[w].todo = {} THEN "idle" ELSE "claim") /\ worker'[w].todo = worker[w].todo
        BY <1>5, <1>0 DEF Becomes, OutboxTypeOK
  <2>4. \A f \in worker[w].todo : row'[f].status = "PENDING"
    <3>1. \A f \in worker[w].todo : f \in Entries /\ row[f].status = "PENDING"
          BY <1>0, <1>m, WorkerFields DEF Alone
    <3>2. Current(w) \notin worker[w].todo
          BY <1>0, <1>m, <1>5 DEF Alone, Busy, Current
    <3>3. \A f \in Entries \ {Current(w)} : row'[f] = row[f]
          BY <1>5 DEF RowMarked
    <3> QED BY <3>1, <3>2, <3>3
  <2> QED BY <1>s, <1>5, <2>2, <2>3, <2>4 DEF Busy
<1>6. ASSUME NEW w \in Processes, Done(w) \/ RecordError(w) PROVE Alone'
  <2>1. CASE Done(w)
    <3>1. worker[w].step = "done"
          BY <2>1 DEF Done, At
    <3> QED BY <1>5, <2>1, <3>1, DoneEffect
  <2>2. CASE RecordError(w)
    <3>1. worker[w].step = "error"
          BY <2>2 DEF RecordError, At
    <3> QED BY <1>5, <2>2, <3>1, RecordErrorEffect
  <2> QED BY <1>6, <2>1, <2>2
<1>7. ASSUME NEW w \in Processes, NEW e \in Entries, At(w, "claim"), Takes(w, e, "error"), row' = row
      PROVE  Alone'
  <2>1. e \in worker[w].todo /\ Becomes(w, "error", worker[w].todo \ {e}, e) /\ worker[w].step = "claim"
        BY <1>0, <1>7, TakesBecomes DEF At
  <2>2. \A v \in Processes : v # w => worker'[v] = worker[v]
        BY <2>1, <1>0 DEF Becomes, OutboxTypeOK
  <2>3. worker'[w].step = "error" /\ worker'[w].todo = worker[w].todo \ {e} /\ worker'[w].entry = e
        BY <2>1, <1>0 DEF Becomes, OutboxTypeOK
  <2>4. \A f \in worker[w].todo : row[f].status = "PENDING"
        BY <1>0, <1>m DEF Alone
  <2> QED BY <1>7, <1>s, <2>1, <2>2, <2>3, <2>4 DEF Busy
<1>8. ASSUME NEW w \in Processes, At(w, "done"), Goes(w, "error"), row' = row
      PROVE  Alone'
  <2>1. Becomes(w, "error", worker[w].todo, worker[w].entry)
        BY <1>0, <1>8, GoesBecomes
  <2>2. \A v \in Processes : v # w => worker'[v] = worker[v]
        BY <2>1, <1>0 DEF Becomes, OutboxTypeOK
  <2>3. worker'[w].step = "error" /\ worker'[w].todo = worker[w].todo /\ worker'[w].entry = worker[w].entry
        BY <2>1, <1>0 DEF Becomes, OutboxTypeOK
  <2> QED BY <1>0, <1>m, <1>s, <1>8, <2>2, <2>3 DEF Alone, Busy, At
<1>9. ASSUME NEW w \in Processes, Stop(w) PROVE Alone'
  <2>1. Becomes(w, "idle", {}, 0) /\ worker[w].step # "idle"
        BY <1>0, <1>9, StopBecomes DEF Stop
  <2>2. \A v \in Processes : v # w => worker'[v] = worker[v]
        BY <2>1, <1>0 DEF Becomes, OutboxTypeOK
  <2>3. worker'[w].step = "idle" /\ worker'[w].todo = {}
        BY <2>1, <1>0 DEF Becomes, OutboxTypeOK
  <2> QED BY <1>s, <2>1, <2>2, <2>3 DEF Busy
<1>10. CASE UNCHANGED outboxVars
      BY <1>0, <1>10, <1>r DEF outboxVars, Alone
<1> QED BY <1>1, <1>2, <1>3, <1>4, <1>6, <1>7, <1>8, <1>9, <1>10
        DEF OutboxNext, ProcessPending, WriteFails

LEMMA OutboxInvStep == OutboxInv /\ [OutboxNext]_outboxVars => OutboxInv'
  BY OutboxTypeStep, StoredStep, AloneStep DEF OutboxInv

\* The invariant of the processors holds in every reachable state: what a processor has
\* listed is stored, what it marks DONE was published, and with one process nobody else
\* has touched what it listed.
THEOREM OutboxInvariant == OutboxSpec => []OutboxInv
<1>1. OutboxInit => OutboxInv
      BY OutboxInitInv
<1>2. OutboxInv /\ [OutboxNext]_outboxVars => OutboxInv'
      BY OutboxInvStep
<1> QED BY <1>1, <1>2, PTL DEF OutboxSpec

-----------------------------------------------------------------------------
LEMMA RefinementInit == OutboxInit => Promise!Init
  BY DEF OutboxInit, Promise!Init, DeliveryState, KnownEntries, StateOf

LEMMA MarkedState ==
  ASSUME OutboxTypeOK, NEW e \in Entries, NEW s \in OutboxStatus, RowMarked(e, s)
  PROVE  DeliveryState' = [DeliveryState EXCEPT ![e] = StateOf(s)] /\ KnownEntries' = KnownEntries
<1>1. DeliveryState' = [DeliveryState EXCEPT ![e] = StateOf(s)]
      BY DEF RowMarked, DeliveryState
<1>2. KnownEntries' = KnownEntries
      BY KnownKept DEF KnownEntries
<1> QED BY <1>1, <1>2

LEMMA SameState ==
  ASSUME row' = row PROVE DeliveryState' = DeliveryState /\ KnownEntries' = KnownEntries
  BY DEF DeliveryState, KnownEntries

LEMMA WaitingState ==
  ASSUME OutboxTypeOK, NEW e \in Entries
  PROVE  /\ row[e].status \in {"PENDING", "PROCESSING"} => DeliveryState[e] = "waiting"
         /\ row[e].status # "none" => DeliveryState[e] # "none"
         /\ row[e].status = "none" => DeliveryState[e] = "none"
  BY DEF DeliveryState, StateOf, OutboxTypeOK, OutboxRows, OutboxStatus

\* Every step is one of Delivery or leaves what Delivery sees alone.
LEMMA RefinementStep == OutboxInv /\ [OutboxNext]_outboxVars => [Promise!Next]_(Promise!vars)
<1> SUFFICES ASSUME OutboxInv, [OutboxNext]_outboxVars PROVE [Promise!Next]_(Promise!vars)
    OBVIOUS
<1>0. OutboxTypeOK /\ EntriesStored /\ Alone
      BY DEF OutboxInv
<1>m. many' = many
      BY DEF OutboxNext, outboxVars, Enqueue, ProcessPending, Tick, Claim, Publish, Done, RecordError, WriteFails, Stop
\* An entry at hand may be taken up, published, settled or given up.
<1>h. ASSUME NEW w \in Processes, worker[w].step \in Busy
      PROVE  /\ worker[w].entry \in Entries
             /\ DeliveryState[worker[w].entry] = "waiting" \/ (many /\ DeliveryState[worker[w].entry] # "none")
  <2>1. worker[w].entry \in Entries /\ row[worker[w].entry].status # "none"
        BY <1>0, <1>h DEF EntriesStored
  <2>2. ~many => row[worker[w].entry].status \in {"PENDING", "PROCESSING"}
        BY <1>0, <1>h DEF Alone
  <2> QED BY <1>0, <2>1, <2>2, WaitingState
<1>v. many \in BOOLEAN
      BY <1>0 DEF OutboxTypeOK
<1>u. ASSUME row' = row, published' = published PROVE UNCHANGED Promise!vars
      BY <1>m, <1>u, SameState DEF Promise!vars
<1>1. ASSUME NEW e \in Entries, Enqueue(e) PROVE Promise!Next
  <2>1. RowMarked(e, "PENDING") /\ row[e].status = "none" /\ published' = published
        BY <1>0, <1>1, MarkedRow DEF Enqueue, OutboxStatus
  <2>2. DeliveryState' = [DeliveryState EXCEPT ![e] = "waiting"] /\ KnownEntries' = KnownEntries
        BY <1>0, <2>1, MarkedState DEF OutboxStatus, StateOf
  <2>3. DeliveryState[e] = "none"
        BY <1>0, <2>1, WaitingState
  <2>4. Promise!Accept(e)
        BY <1>m, <2>1, <2>2, <2>3 DEF Promise!Accept
  <2> QED BY <2>4 DEF Promise!Next
<1>2. ASSUME NEW w \in Processes, Tick(w) PROVE UNCHANGED Promise!vars
      BY <1>2, <1>u DEF Tick
<1>3. ASSUME NEW w \in Processes, NEW e \in Entries, Claim(w, e) PROVE [Promise!Next]_(Promise!vars)
  <2>1. e \in worker[w].todo /\ RowMarked(e, "PROCESSING") /\ published' = published
        BY <1>3, ClaimEffect DEF Claim
  <2>2. DeliveryState' = [DeliveryState EXCEPT ![e] = "waiting"] /\ KnownEntries' = KnownEntries
        BY <1>0, <2>1, MarkedState DEF OutboxStatus, StateOf
  <2>3. row[e].status # "none" /\ (~many => row[e].status = "PENDING")
        BY <1>0, <2>1 DEF EntriesStored, Alone
  <2>4. CASE many
    <3>1. Promise!TakeUpAgain(e)
          BY <1>0, <1>m, <2>1, <2>2, <2>3, <2>4, WaitingState DEF Promise!TakeUpAgain
    <3> QED BY <3>1 DEF Promise!Next
  <2>5. CASE ~many
    <3>1. DeliveryState[e] = "waiting"
          BY <1>0, <2>3, <2>5, WaitingState
    <3>2. DeliveryState' = DeliveryState
          BY <2>2, <3>1 DEF DeliveryState
    <3> QED BY <1>m, <2>1, <2>2, <3>2 DEF Promise!vars
  <2> QED BY <2>4, <2>5
<1>4. ASSUME NEW w \in Processes, Publish(w) PROVE [Promise!Next]_(Promise!vars)
  <2> DEFINE e == worker[w].entry
  <2>1. worker[w].step \in Busy /\ row' = row /\ e \in Entries
        BY <1>4, <1>h DEF Publish, At, Busy
  <2>2. CASE row[e].known
    <3>1. published' = [published EXCEPT ![e] = @ + 1]
          BY <1>4, <2>2 DEF Publish, Current
    <3>2. KnownEntries[e]
          BY <2>1, <2>2 DEF KnownEntries
    <3>3. Promise!Publish(e)
          BY <1>h, <1>m, <2>1, <3>1, <3>2, SameState DEF Promise!Publish
    <3> QED BY <2>1, <3>3 DEF Promise!Next
  <2>3. CASE ~row[e].known
    <3>1. published' = published
          BY <1>4, <2>3 DEF Publish, Current
    <3> QED BY <1>u, <2>1, <3>1
  <2> QED BY <2>2, <2>3
<1>5. ASSUME NEW w \in Processes, Done(w) PROVE Promise!Next
  <2> DEFINE e == worker[w].entry
  <2>1. worker[w].step = "done" /\ RowMarked(e, "DONE") /\ e \in Entries /\ published' = published
        BY <1>5, DoneEffect DEF Done, At, Current
  <2>2. KnownEntries[e] => published[e] > 0
        BY <1>0, <2>1 DEF EntriesStored, KnownEntries
  <2>3. DeliveryState' = [DeliveryState EXCEPT ![e] = "settled"] /\ KnownEntries' = KnownEntries
        BY <1>0, <2>1, MarkedState DEF OutboxStatus, StateOf
  <2>4. Promise!Settle(e)
        BY <1>h, <1>m, <2>1, <2>2, <2>3 DEF Promise!Settle, Busy
  <2> QED BY <2>1, <2>4 DEF Promise!Next
<1>6. ASSUME NEW w \in Processes, RecordError(w) PROVE [Promise!Next]_(Promise!vars)
  <2> DEFINE e == worker[w].entry
  <2>1. worker[w].step = "error" /\ e \in Entries /\ published' = published
        BY <1>6, RecordErrorEffect DEF RecordError, At, Current
  <2>h. DeliveryState[e] = "waiting" \/ (many /\ DeliveryState[e] # "none")
        BY <1>h, <2>1 DEF Busy
  <2>2. CASE RowMarked(e, "FAILED")
    <3>1. DeliveryState' = [DeliveryState EXCEPT ![e] = "given up"] /\ KnownEntries' = KnownEntries
          BY <1>0, <2>1, <2>2, MarkedState DEF OutboxStatus, StateOf
    <3>2. Promise!GiveUp(e)
          BY <1>m, <2>h, <2>1, <3>1 DEF Promise!GiveUp
    <3> QED BY <2>1, <3>2 DEF Promise!Next
  <2>3. CASE RowMarked(e, "PENDING")
    <3>1. DeliveryState' = [DeliveryState EXCEPT ![e] = "waiting"] /\ KnownEntries' = KnownEntries
          BY <1>0, <2>1, <2>3, MarkedState DEF OutboxStatus, StateOf
    <3>2. CASE many
      <4>1. DeliveryState[e] # "none"
            BY <2>h
      <4>2. Promise!TakeUpAgain(e)
            BY <1>m, <2>1, <3>1, <3>2, <4>1 DEF Promise!TakeUpAgain
      <4> QED BY <2>1, <4>2 DEF Promise!Next
    <3>3. CASE ~many
      <4>1. DeliveryState' = DeliveryState
            BY <2>h, <3>1, <3>3 DEF DeliveryState
      <4> QED BY <1>m, <2>1, <3>1, <4>1 DEF Promise!vars
    <3> QED BY <3>2, <3>3
  <2> QED BY <1>6, <2>2, <2>3, RecordErrorEffect DEF Current
<1>7. ASSUME NEW w \in Processes, WriteFails(w) \/ Stop(w) PROVE UNCHANGED Promise!vars
      BY <1>7, <1>u DEF WriteFails, Stop
<1>8. CASE UNCHANGED outboxVars
      BY <1>8, <1>u DEF outboxVars
<1> QED BY <1>1, <1>2, <1>3, <1>4, <1>5, <1>6, <1>7, <1>8 DEF OutboxNext, ProcessPending

\* The outbox keeps the promise of Delivery: an entry is settled only after it was
\* published, and with one process a settled or abandoned entry is never taken up again.
THEOREM OutboxImplementsDelivery == OutboxSpec => ImplementsDelivery
<1>1. OutboxInit => Promise!Init
      BY RefinementInit
<1>2. OutboxInv /\ [OutboxNext]_outboxVars => [Promise!Next]_(Promise!vars)
      BY RefinementStep
<1> QED BY <1>1, <1>2, OutboxInvariant, PTL DEF OutboxSpec, ImplementsDelivery, Promise!Spec

-----------------------------------------------------------------------------
(* How often, and in which order, one process publishes                    *)

\* With one process, an entry that waits was published at most once for each fault, and
\* the one at hand is PROCESSING.
Counted ==
  /\ faults <= MaxFaults
  /\ ~many =>
       /\ \A e \in Entries : published[e] <= 1 + faults
       /\ \A e \in Entries : row[e].status \in {"none", "PENDING"} => published[e] <= faults
       /\ \A w \in Processes :
            /\ worker[w].step \in {"publish", "error"} => published[worker[w].entry] <= faults
            /\ worker[w].step \in {"publish", "done"} => row[worker[w].entry].status = "PROCESSING"

\* With one process and no fault, the entries before one that was taken up are DONE, and
\* no pending entry comes before a listed one.
Orderly ==
  (~many /\ faults = 0) =>
    /\ \A e \in Entries :
         /\ row[e].status # "FAILED"
         /\ row[e].status = "PROCESSING" =>
              \E w \in Processes : worker[w].step \in {"publish", "done"} /\ worker[w].entry = e
         /\ (row[e].status = "DONE" /\ row[e].known) => published[e] > 0
         /\ published[e] > 0 => row[e].status \in {"PROCESSING", "DONE"}
    /\ \A e, f \in Entries : e < f =>
         /\ row[f].status # "none" => row[e].status # "none"
         /\ row[f].status \in {"PROCESSING", "DONE"} => row[e].status = "DONE"
    /\ \A w \in Processes :
         /\ worker[w].step # "error"
         /\ \A f \in worker[w].todo, e \in Entries :
              (e < f /\ row[e].status = "PENDING") => e \in worker[w].todo

-----------------------------------------------------------------------------
(* What handlers have done                                                 *)

Told(h, u) == note[<<h, u>>] # NoRow /\ note[<<h, u>>].inApp = "sent"

Unwritten(h) == \A u \in Users : note[<<h, u>>] = NoRow

\* Nothing is written before the handler starts.  While it runs, everyone was told who is
\* not at hand or still to do; when it is done, everyone was, unless it broke.  A mail
\* that is pending has a job, or the handler is about to queue one.
HandlerOK(h) ==
  /\ ~Started(h) => handler[h] = NoHandler /\ Unwritten(h)
  /\ handler[h] # NoHandler =>
       /\ handler[h].step = "queue" => handler[h].todo = To(h) /\ Unwritten(h)
       /\ handler[h].step # "queue" =>
            \A u \in To(h) : u \in handler[h].todo \/ u = handler[h].user \/ Told(h, u)
       /\ handler[h].step = "inApp" => note[<<h, handler[h].user>>] # NoRow
       /\ handler[h].step = "email" => Told(h, handler[h].user)
  /\ (Started(h) /\ handler[h] = NoHandler /\ h \notin broken) => \A u \in To(h) : Told(h, u)
  /\ \A u \in Users :
       (note[<<h, u>>] # NoRow /\ note[<<h, u>>].email = "pending") =>
         job[<<h, u>>] > 0 \/ h \in broken \/ <<h, u>> \in unwritten \/ (handler[h] # NoHandler /\ handler[h].user = u)

\* What was pushed, mailed or is to be mailed is stored.
RowOK(n) ==
  /\ n \in pushed => note[n] # NoRow
  /\ ("queue" \in uses /\ note[n] # NoRow /\ note[n].email = "sent") => mailed[n] > 0
  /\ job[n] > 0 => note[n] # NoRow

\* A handler starts for a publication only.
Justified ==
  /\ "notify" \in uses => ~many
  /\ \A e \in Entries : started[e] <= published[e]

EventsInv ==
  /\ TypeOK /\ OutboxInv /\ Counted /\ Orderly /\ Justified
  /\ \A h \in Sources : HandlerOK(h)
  /\ \A n \in Sources \X Users : RowOK(n)

-----------------------------------------------------------------------------
(* What the page knows of the marks                                        *)

\* What was marked is read in the database, and in every answer that was asked for since.
MarksKept ==
  /\ settled \subseteq Notes /\ pending \subseteq Notes
  /\ \A n \in settled \cup pending : inbox[n] = "read"
  /\ fetch.step = "answered" => \A n \in settled \cup pending : fetch.rows[n] # "unread"
  /\ mark.step = "done" => \A n \in mark.what : inbox[n] = "read"
  /\ \A n \in settled : loaded[n] # "unread"

BellInv == BellTypeOK /\ MarksKept

LEMMA BellFields ==
  ASSUME BellTypeOK
  PROVE  /\ fetch.step \in {"idle", "asked", "answered"} /\ fetch.rows \in [Notes -> Reads]
         /\ mark.step \in {"idle", "sent", "done"} /\ mark.what \subseteq Notes
  BY DEF BellTypeOK

LEMMA EmptyBell == Empty \in [Notes -> Reads]
  BY DEF Empty, Reads

\* A list that was given up or asked for has not been read.
LEMMA AskedFetch ==
  [NoFetch EXCEPT !.step = "asked"] = [step |-> "asked", rows |-> Empty]
  BY DEF NoFetch

LEMMA BellInitInv == BellInit => BellInv
  BY EmptyBell DEF BellInit, BellInv, BellTypeOK, MarksKept, NoFetch, NoMark

\* StoreNote takes the first notification that is not there yet.
LEMMA FirstIsFree ==
  ASSUME Stored(inbox) # Notes
  PROVE  Min(Notes \ Stored(inbox)) \in Notes /\ inbox[Min(Notes \ Stored(inbox))] = "none"
<1> DEFINE S == Notes \ Stored(inbox)
<1>1. S \subseteq Nat /\ S # {}
      BY BellAssumption DEF Stored
<1>2. \E n \in S : \A m \in S : n <= m
      BY <1>1, NatLeast
<1>3. Min(S) \in S
      BY <1>2 DEF Min
<1> QED BY <1>3 DEF Stored

LEMMA StoreNoteStep == BellInv /\ StoreNote => BellInv'
<1> SUFFICES ASSUME BellInv, StoreNote PROVE BellInv'
    OBVIOUS
<1>1. PICK k \in Notes : inbox[k] = "none" /\ inbox' = [inbox EXCEPT ![k] = "unread"]
      BY FirstIsFree DEF StoreNote
<1>2. UNCHANGED <<loaded, fetch, mark, settled, pending, marks, bellFaults>>
      BY DEF StoreNote
<1>3. inbox \in [Notes -> Reads]
      BY DEF BellInv, BellTypeOK
<1>4. inbox' \in [Notes -> Reads]
      BY <1>1, <1>3 DEF Reads
<1>5. \A n \in Notes : inbox[n] = "read" => inbox'[n] = "read"
      BY <1>1, <1>3
<1>6. BellTypeOK'
      BY <1>2, <1>4 DEF BellInv, BellTypeOK
<1>7. MarksKept'
      BY <1>2, <1>5, BellFields DEF BellInv, MarksKept
<1> QED BY <1>6, <1>7 DEF BellInv

LEMMA FetchStep == BellInv /\ (Poll \/ ListForUser \/ Load \/ FetchFails) => BellInv'
<1> SUFFICES ASSUME BellInv PROVE Poll \/ ListForUser \/ Load \/ FetchFails => BellInv'
    OBVIOUS
<1>0. BellTypeOK /\ MarksKept
      BY DEF BellInv
<1>1. CASE Poll
  <2>1. fetch' = [step |-> "asked", rows |-> Empty]
        BY <1>1, AskedFetch DEF Poll
  <2>2. UNCHANGED <<inbox, loaded, mark, settled, pending>>
        BY <1>1 DEF Poll
  <2> QED BY <1>0, <2>1, <2>2, EmptyBell DEF BellInv, BellTypeOK, MarksKept
<1>2. CASE ListForUser
      BY <1>0, <1>2 DEF ListForUser, BellInv, BellTypeOK, MarksKept
<1>3. CASE Load
  <2>1. fetch' = [step |-> "idle", rows |-> Empty]
        BY <1>3 DEF Load, NoFetch
  <2> QED BY <1>0, <1>3, <2>1, EmptyBell DEF Load, BellInv, BellTypeOK, MarksKept
<1>4. CASE FetchFails
  <2>1. fetch' = [step |-> "idle", rows |-> Empty]
        BY <1>4 DEF FetchFails, NoFetch
  <2> QED BY <1>0, <1>4, <2>1, EmptyBell DEF FetchFails, BellInv, BellTypeOK, MarksKept
<1> QED BY <1>1, <1>2, <1>3, <1>4

LEMMA MarkStep ==
  BellInv /\ ((\E what \in {{n} : n \in Notes} \cup {Notes} : Click(what)) \/ MarkAsRead \/ Marked \/ MarkFails) => BellInv'
<1> SUFFICES ASSUME BellInv
             PROVE  (\E what \in {{n} : n \in Notes} \cup {Notes} : Click(what)) \/ MarkAsRead \/ Marked \/ MarkFails
                      => BellInv'
    OBVIOUS
<1>0. BellTypeOK /\ MarksKept
      BY DEF BellInv
<1>1. ASSUME NEW what \in {{n} : n \in Notes} \cup {Notes}, Click(what) PROVE BellInv'
  <2>1. what \subseteq Notes
        OBVIOUS
  <2> QED BY <1>0, <1>1, <2>1 DEF Click, BellInv, BellTypeOK, MarksKept
<1>2. CASE MarkAsRead
  <2>1. inbox' = [n \in Notes |-> IF n \in mark.what /\ inbox[n] = "unread" THEN "read" ELSE inbox[n]]
        BY <1>2 DEF MarkAsRead
  <2>2. inbox \in [Notes -> Reads]
        BY <1>0 DEF BellTypeOK
  <2>3. inbox' \in [Notes -> Reads]
        BY <2>1, <2>2 DEF Reads
  <2>4. \A n \in Notes : inbox[n] = "read" => inbox'[n] = "read"
        BY <2>1
  <2>5. \A n \in mark.what \cap Stored(inbox) : inbox'[n] = "read"
        BY <2>1, <2>2 DEF Stored, Reads
  <2>6. mark' = [step |-> "done", what |-> mark.what \cap Stored(inbox)]
        BY <1>2 DEF MarkAsRead
  <2>7. UNCHANGED <<loaded, fetch, settled, pending>>
        BY <1>2 DEF MarkAsRead
  <2>8. BellTypeOK'
        BY <1>0, <2>3, <2>6, <2>7, BellFields DEF BellTypeOK
  <2>9. MarksKept'
        BY <1>0, <2>4, <2>5, <2>6, <2>7 DEF MarksKept
  <2> QED BY <2>8, <2>9 DEF BellInv
<1>3. CASE Marked
  <2>1. fetch' = [step |-> "asked", rows |-> Empty] /\ mark' = [step |-> "idle", what |-> {}]
        BY <1>3, AskedFetch DEF Marked, NoMark
  <2>u. UNCHANGED <<inbox, loaded>>
        BY <1>3 DEF Marked
  <2>2. BellTypeOK'
        BY <1>0, <2>u, <2>1, EmptyBell DEF BellTypeOK
  <2>3. MarksKept'
        BY <1>0, <1>3, <2>1, BellFields DEF Marked, MarksKept
  <2> QED BY <2>2, <2>3 DEF BellInv
<1>4. CASE MarkFails
  <2>1. mark' = [step |-> "idle", what |-> {}]
        BY <1>4 DEF MarkFails, NoMark
  <2> QED BY <1>0, <1>4, <2>1 DEF MarkFails, BellInv, BellTypeOK, MarksKept
<1> QED BY <1>1, <1>2, <1>3, <1>4

LEMMA ElsewhereStep == ASSUME BellInv, NEW k \in Notes, MarkElsewhere(k) PROVE BellInv'
<1>1. inbox' = [inbox EXCEPT ![k] = "read"] /\ UNCHANGED <<loaded, fetch, mark, settled, pending>>
      BY DEF MarkElsewhere
<1>2. inbox' \in [Notes -> Reads] /\ \A n \in Notes : inbox[n] = "read" => inbox'[n] = "read"
      BY <1>1 DEF BellInv, BellTypeOK, Reads
<1>3. BellTypeOK'
      BY <1>1, <1>2 DEF BellInv, BellTypeOK
<1>4. MarksKept'
      BY <1>1, <1>2, BellFields DEF BellInv, MarksKept
<1> QED BY <1>3, <1>4 DEF BellInv

LEMMA BellInvStep == BellInv /\ [BellNext]_bellVars => BellInv'
<1>1. BellInv /\ UNCHANGED bellVars => BellInv'
      BY DEF bellVars, BellInv, BellTypeOK, MarksKept
<1> QED BY <1>1, StoreNoteStep, FetchStep, MarkStep, ElsewhereStep DEF BellNext, NotificationRoutes

-----------------------------------------------------------------------------
(* What the bell counts                                                    *)

\* The elements of a finite set of numbers that fewer than p others exceed: all of them, or p.
LEMMA TopOf ==
  ASSUME NEW U, U \subseteq Nat, IsFiniteSet(U), NEW p \in Nat
  PROVE  Cardinality({n \in U : Cardinality({m \in U : m > n}) < p})
           = IF Cardinality(U) < p THEN Cardinality(U) ELSE p
<1> DEFINE Over(n) == {m \in U : m > n}
           rank == [n \in U |-> Cardinality(Over(n))]
           c == Cardinality(U)
           Top == {n \in U : rank[n] < p}
           q == IF c < p THEN c ELSE p
<1>1. c \in Nat
      BY FS_CardinalityType
<1>2. ASSUME NEW n \in U
      PROVE  IsFiniteSet(Over(n)) /\ Cardinality(Over(n)) \in 0..(c - 1)
  <2>1. Over(n) \subseteq U /\ n \notin Over(n)
        OBVIOUS
  <2>2. IsFiniteSet(Over(n)) /\ Cardinality(Over(n)) <= c /\ (c = Cardinality(Over(n)) => U = Over(n))
        BY <2>1, FS_Subset
  <2>3. Cardinality(Over(n)) \in Nat
        BY <2>2, FS_CardinalityType
  <2> QED BY <1>1, <2>1, <2>2, <2>3
<1>3. ASSUME NEW m \in U, NEW n \in U, m < n
      PROVE  rank[n] < rank[m]
  <2>0. m \in Nat /\ n \in Nat /\ \A k \in U : k \in Nat
        OBVIOUS
  <2>1. Over(n) \subseteq Over(m) /\ n \in Over(m) /\ n \notin Over(n)
    <3>1. \A k \in U : k > n => k > m
          BY <1>3, <2>0
    <3>2. n > m /\ ~(n > n)
          BY <1>3, <2>0
    <3> QED BY <3>1, <3>2
  <2>2. Cardinality(Over(n)) <= Cardinality(Over(m)) /\ Cardinality(Over(m)) # Cardinality(Over(n))
        BY <1>2, <2>1, FS_Subset
  <2>3. Cardinality(Over(n)) \in Nat /\ Cardinality(Over(m)) \in Nat
        BY <1>1, <1>2
  <2> QED BY <2>2, <2>3
<1>4. rank \in [U -> 0..(c - 1)]
      BY <1>2
<1> HIDE DEF Over, rank, c
<1>5. rank \in Injection(U, 0..(c - 1))
  <2>1. ASSUME NEW m \in U, NEW n \in U, rank[m] = rank[n] PROVE m = n
    <3>1. rank[m] \in Int /\ m \in Nat /\ n \in Nat
          BY <1>4, <2>1
    <3> QED BY <1>3, <2>1, <3>1
  <2> QED BY <1>4, <2>1 DEF Injection, IsInjective
<1>6. IsFiniteSet(0..(c - 1)) /\ Cardinality(0..(c - 1)) = c
      BY <1>1, FS_Interval
<1>7. rank \in Surjection(U, 0..(c - 1))
  <2>1. Cardinality(U) = Cardinality(0..(c - 1))
        BY <1>6 DEF c
  <2> QED BY <1>5, <1>6, <2>1, FS_Injection
<1>8. q \in Nat /\ \A k \in 0..(c - 1) : k < p <=> k \in 0..(q - 1)
      BY <1>1
<1>q. 0..(q - 1) \subseteq 0..(c - 1)
      BY <1>1
<1> HIDE DEF q
<1>9. IsFiniteSet(0..(q - 1)) /\ Cardinality(0..(q - 1)) = q
  <2>1. 0 \in Int /\ q - 1 \in Int /\ q \in Nat
        BY <1>8
  <2>2. IsFiniteSet(0..(q - 1)) /\ Cardinality(0..(q - 1)) = IF 0 > q - 1 THEN 0 ELSE (q - 1) - 0 + 1
        BY <2>1, FS_Interval
  <2> QED BY <2>1, <2>2
<1>10. [n \in Top |-> rank[n]] \in Bijection(Top, 0..(q - 1))
  <2> DEFINE g == [n \in Top |-> rank[n]]
  <2>1. g \in [Top -> 0..(q - 1)]
        BY <1>4, <1>8
  <2>2. \A m, n \in Top : g[m] = g[n] => m = n
        BY <1>5 DEF Injection, IsInjective
  <2>3. \A k \in 0..(q - 1) : \E n \in Top : g[n] = k
        BY <1>7, <1>8, <1>q DEF Surjection
  <2> HIDE DEF g
  <2>4. g \in Injection(Top, 0..(q - 1))
        BY <2>1, <2>2 DEF Injection, IsInjective
  <2>5. g \in Surjection(Top, 0..(q - 1))
        BY <2>1, <2>3 DEF Surjection
  <2>6. g \in Bijection(Top, 0..(q - 1))
        BY <2>4, <2>5 DEF Bijection
  <2> QED BY <2>6 DEF g
<1>11. IsFiniteSet(Top)
       BY FS_Subset
<1> HIDE DEF Top
<1>12. Cardinality(Top) = q
       BY <1>9, <1>10, <1>11, FS_Bijection DEF ExistsBijection
<1>13. Top = {n \in U : Cardinality({m \in U : m > n}) < p}
       BY DEF Top, rank, Over
<1> QED BY <1>12, <1>13 DEF q, c

LEMMA MinOfTwo ==
  ASSUME NEW a \in Nat, NEW b \in Nat
  PROVE  Min({a, b}) = IF a < b THEN a ELSE b
<1> DEFINE m == IF a < b THEN a ELSE b
<1>1. m \in {a, b} /\ \A y \in {a, b} : m <= y
      OBVIOUS
<1>2. \A x \in {a, b} : (\A y \in {a, b} : x <= y) => x = m
      OBVIOUS
<1> QED BY <1>1, <1>2 DEF Min

\* Of the unread notifications the page leaves out those that a page of newer unread ones
\* precedes: read ones come after them.
LEMMA BadgeIsRight == BellTypeOK => BadgeCounts
<1> SUFFICES ASSUME BellTypeOK PROVE BadgeCounts
    OBVIOUS
<1> DEFINE U == Unread(loaded)
<1>1. U \subseteq Nat /\ IsFiniteSet(U)
      BY BellAssumption, FS_Subset DEF Unread
<1>2. ASSUME NEW n \in U
      PROVE  {m \in Stored(loaded) : Before(loaded, m, n)} = {m \in U : m > n}
      BY DEF Unread, Stored, Before
<1>3. U \subseteq Stored(loaded)
      BY DEF Unread, Stored
<1>4. Page(loaded) \cap U = {n \in U : Cardinality({m \in U : m > n}) < PageSize}
      BY <1>2, <1>3 DEF Page
<1>5. Cardinality(U) \in Nat
      BY <1>1, FS_CardinalityType
<1> HIDE DEF U
<1>6. Cardinality(Page(loaded) \cap U) = IF Cardinality(U) < PageSize THEN Cardinality(U) ELSE PageSize
  <2>1. PageSize \in Nat
        BY BellAssumption
  <2>2. Cardinality({n \in U : Cardinality({m \in U : m > n}) < PageSize})
          = IF Cardinality(U) < PageSize THEN Cardinality(U) ELSE PageSize
        BY <1>1, <2>1, TopOf
  <2> QED BY <1>4, <2>2
<1>7. Min({Cardinality(U), PageSize}) = IF Cardinality(U) < PageSize THEN Cardinality(U) ELSE PageSize
      BY <1>5, BellAssumption, MinOfTwo
<1> QED BY <1>6, <1>7 DEF BadgeCounts, UnreadCount, U

LEMMA BellInvTells == BellInv => BellTells
<1>1. BellInv => MarkedIsShown
      BY DEF BellInv, MarksKept, MarkedIsShown, Unread
<1> QED BY <1>1, BadgeIsRight DEF BellInv, BellTells

-----------------------------------------------------------------------------
LEMMA ManyKept == [OutboxNext]_outboxVars => many' = many
  BY DEF OutboxNext, outboxVars, Enqueue, ProcessPending, Tick, Claim, Publish, Done, RecordError, WriteFails, Stop

\* What a step of processor w leaves alone and what w is afterwards.
LEMMA BecomesOne ==
  ASSUME OutboxTypeOK, NEW w \in Processes, NEW s, NEW t, NEW e, Becomes(w, s, t, e)
  PROVE  /\ worker'[w].step = s /\ worker'[w].todo = t /\ worker'[w].entry = e
         /\ \A v \in Processes : v # w => worker'[v] = worker[v]
  BY DEF Becomes, OutboxTypeOK

LEMMA CountedStep == OutboxInv /\ Counted /\ [OutboxNext]_outboxVars => Counted'
<1> SUFFICES ASSUME OutboxInv, Counted, [OutboxNext]_outboxVars PROVE Counted'
    OBVIOUS
<1> USE OutboxAssumption
<1>0. OutboxTypeOK /\ EntriesStored /\ Alone
      BY DEF OutboxInv
<1>m. many' = many
      BY ManyKept
<1>b. faults' <= MaxFaults /\ faults' \in {faults, faults + 1} /\ faults \in Nat
  <2>1. faults' = faults \/ (faults < MaxFaults /\ faults' = faults + 1)
        BY ZenonT(60) DEF OutboxNext, outboxVars, Enqueue, ProcessPending, Tick, Claim, Publish, Done,
                  RecordError, WriteFails, Stop
  <2> QED BY <1>0, <2>1 DEF Counted, OutboxTypeOK
<1>p. \A e \in Entries : published[e] \in Nat
      BY <1>0 DEF OutboxTypeOK
<1>y. \A e \in Entries : row[e].status \in OutboxStatus
      BY <1>0 DEF OutboxTypeOK, OutboxRows
<1>z. CASE many
      BY <1>b, <1>m, <1>z DEF Counted
<1>n. CASE ~many
  <2>c. /\ \A e \in Entries : published[e] <= 1 + faults
        /\ \A e \in Entries : row[e].status \in {"none", "PENDING"} => published[e] <= faults
        /\ \A w \in Processes :
            /\ worker[w].step \in {"publish", "error"} => published[worker[w].entry] <= faults
            /\ worker[w].step \in {"publish", "done"} => row[worker[w].entry].status = "PROCESSING"
        BY <1>n DEF Counted
  \* Enough that the acting processor keeps what Counted says of it: the others are idle.
  <2>s. ASSUME NEW w \in Processes, worker[w].step # "idle" \/ Running(w),
               \A v \in Processes : v # w => worker'[v] = worker[v],
               worker'[w].step \in {"publish", "error"} => published'[worker'[w].entry] <= faults',
               worker'[w].step \in {"publish", "done"} => row'[worker'[w].entry].status = "PROCESSING",
               \A e \in Entries : published'[e] <= 1 + faults',
               \A e \in Entries : row'[e].status \in {"none", "PENDING"} => published'[e] <= faults'
        PROVE  Counted'
    <3>1. \A v \in Processes : v # w => worker'[v].step = "idle" /\ worker'[v].todo = {}
          BY <1>n, <2>s, OthersIdle
    <3> QED BY <1>b, <2>s, <3>1 DEF Counted
  <2>1. ASSUME NEW e \in Entries, Enqueue(e) PROVE Counted'
    <3>1. RowMarked(e, "PENDING") /\ row[e].status = "none" /\ worker' = worker /\ published' = published /\ faults' = faults
          BY <1>0, <2>1, MarkedRow DEF Enqueue, OutboxStatus
    <3>2. \A w \in Processes : worker[w].step \in {"publish", "done"} => worker[w].entry \in Entries
          BY <1>0 DEF EntriesStored, Busy
    <3>3. \A f \in Entries : row[f].status = "PROCESSING" => row'[f].status = "PROCESSING"
          BY <3>1 DEF RowMarked
    <3>4. \A f \in Entries : row'[f].status \in {"none", "PENDING"} => published[f] <= faults
          BY <2>c, <3>1 DEF RowMarked
    <3> QED BY <1>b, <2>c, <3>1, <3>2, <3>3, <3>4 DEF Counted
  <2>2. ASSUME NEW w \in Processes, Tick(w) PROVE Counted'
    <3>1. worker'[w].step = "claim" /\ \A v \in Processes : v # w => worker'[v] = worker[v]
          BY <1>0, <2>2 DEF Tick, OutboxTypeOK
    <3>2. Running(w) /\ row' = row /\ published' = published /\ faults' = faults
          BY <2>2 DEF Tick
    <3> QED BY <2>c, <2>s, <3>1, <3>2
  <2>3. ASSUME NEW w \in Processes, NEW e \in Entries, Claim(w, e) PROVE Counted'
    <3>1. /\ e \in worker[w].todo /\ RowMarked(e, "PROCESSING") /\ Becomes(w, "publish", worker[w].todo \ {e}, e)
          /\ worker[w].step = "claim" /\ published' = published /\ faults' = faults
          BY <2>3, ClaimEffect DEF Claim, At
    <3>2. row[e].status = "PENDING"
          BY <1>0, <1>n, <3>1 DEF Alone
    <3>3. \A f \in Entries : row'[f].status \in {"none", "PENDING"} => published[f] <= faults
          BY <2>c, <3>1 DEF RowMarked
    <3>4. row'[e].status = "PROCESSING"
          BY <3>1 DEF RowMarked
    <3>5. worker'[w].entry = e /\ worker'[w].step = "publish" /\ \A v \in Processes : v # w => worker'[v] = worker[v]
          BY <1>0, <3>1, BecomesOne
    <3> QED BY <2>c, <2>s, <3>1, <3>2, <3>3, <3>4, <3>5
  <2>4. ASSUME NEW w \in Processes, Publish(w) PROVE Counted'
    <3>1. Becomes(w, "done", worker[w].todo, worker[w].entry) /\ row' = row /\ faults' = faults /\ worker[w].step = "publish"
          BY <1>0, <2>4, GoesBecomes DEF Publish, At
    <3>2. worker[w].entry \in Entries /\ row[worker[w].entry].status = "PROCESSING" /\ published[worker[w].entry] <= faults
          BY <1>0, <2>c, <3>1 DEF EntriesStored, Busy
    <3>3. published' = published \/ published' = [published EXCEPT ![worker[w].entry] = published[worker[w].entry] + 1]
          BY <2>4 DEF Publish, Current
    <3>4. \A f \in Entries : published'[f] <= 1 + faults
          BY <1>0, <1>b, <1>p, <2>c, <3>2, <3>3 DEF OutboxTypeOK
    <3>5. \A f \in Entries : row[f].status \in {"none", "PENDING"} => published'[f] <= faults
          BY <1>0, <2>c, <3>2, <3>3 DEF OutboxTypeOK
    <3>6. worker'[w].entry = worker[w].entry /\ worker'[w].step = "done" /\ \A v \in Processes : v # w => worker'[v] = worker[v]
          BY <1>0, <3>1, BecomesOne
    <3> QED BY <2>s, <3>1, <3>2, <3>4, <3>5, <3>6
  <2>5. ASSUME NEW w \in Processes, Done(w) PROVE Counted'
    <3>1. /\ Current(w) \in Entries /\ RowMarked(Current(w), "DONE")
          /\ Becomes(w, IF worker[w].todo = {} THEN "idle" ELSE "claim", worker[w].todo, worker[w].entry)
          /\ worker[w].step = "done" /\ published' = published /\ faults' = faults
          BY <2>5, DoneEffect DEF Done, At
    <3>2. \A f \in Entries : row'[f].status \in {"none", "PENDING"} => published[f] <= faults
          BY <2>c, <3>1 DEF RowMarked
    <3>3. worker'[w].step \in {"idle", "claim"} /\ \A v \in Processes : v # w => worker'[v] = worker[v]
          BY <1>0, <3>1, BecomesOne
    <3> QED BY <2>c, <2>s, <3>1, <3>2, <3>3
  <2>6. ASSUME NEW w \in Processes, RecordError(w) PROVE Counted'
    <3>1. /\ Current(w) \in Entries /\ (RowMarked(Current(w), "FAILED") \/ RowMarked(Current(w), "PENDING"))
          /\ Becomes(w, IF worker[w].todo = {} THEN "idle" ELSE "claim", worker[w].todo, worker[w].entry)
          /\ worker[w].step = "error" /\ published' = published /\ faults' = faults
          BY <2>6, RecordErrorEffect DEF RecordError, At
    <3>2. published[Current(w)] <= faults
          BY <2>c, <3>1 DEF Current
    <3>3. \A f \in Entries : row'[f].status \in {"none", "PENDING"} => published[f] <= faults
          BY <2>c, <3>1, <3>2 DEF RowMarked
    <3>4. worker'[w].step \in {"idle", "claim"} /\ \A v \in Processes : v # w => worker'[v] = worker[v]
          BY <1>0, <3>1, BecomesOne
    <3> QED BY <2>c, <2>s, <3>1, <3>3, <3>4
  \* A fault allows every entry one more publication.
  <2>f. ASSUME faults' = faults + 1, published' = published, row' = row
        PROVE  /\ \A e \in Entries : published'[e] <= 1 + faults' /\ published'[e] <= faults'
               /\ \A e \in Entries : row'[e].status \in {"none", "PENDING"} => published'[e] <= faults'
        BY <1>b, <1>p, <2>c, <2>f
  <2>7. ASSUME NEW w \in Processes, NEW t \in SUBSET Entries, NEW e \in Entries \cup {0}, NEW s \in {"error", "idle"},
               Becomes(w, s, t, e), s = "error" => e \in Entries, worker[w].step # "idle",
               faults' = faults + 1, published' = published, row' = row
        PROVE  Counted'
    <3>1. worker'[w].step = s /\ worker'[w].entry = e /\ \A v \in Processes : v # w => worker'[v] = worker[v]
          BY <1>0, <2>7, BecomesOne
    <3> QED BY <2>f, <2>s, <2>7, <3>1
  <2>8. ASSUME NEW w \in Processes, WriteFails(w) PROVE Counted'
    <3>1. faults' = faults + 1 /\ published' = published /\ row' = row
          BY <2>8 DEF WriteFails
    <3>2. ASSUME NEW e \in Entries, At(w, "claim"), Takes(w, e, "error") PROVE Counted'
      <4>1. Becomes(w, "error", worker[w].todo \ {e}, e) /\ worker[w].step = "claim" /\ worker[w].todo \ {e} \in SUBSET Entries
            BY <1>0, <3>2, TakesBecomes, WorkerFields DEF At
      <4> QED BY <2>7, <3>1, <4>1
    <3>3. ASSUME At(w, "done"), Goes(w, "error") PROVE Counted'
      <4>1. Becomes(w, "error", worker[w].todo, worker[w].entry) /\ worker[w].step = "done"
            BY <1>0, <3>3, GoesBecomes DEF At
      <4>2. worker[w].entry \in Entries /\ worker[w].todo \in SUBSET Entries
            BY <1>0, <4>1, WorkerFields DEF EntriesStored, Busy
      <4> QED BY <2>7, <3>1, <4>1, <4>2
    <3> QED BY <2>8, <3>2, <3>3 DEF WriteFails
  <2>9. ASSUME NEW w \in Processes, Stop(w) PROVE Counted'
    <3>1. Becomes(w, "idle", {}, 0) /\ worker[w].step # "idle" /\ faults' = faults + 1 /\ published' = published /\ row' = row
          BY <1>0, <2>9, StopBecomes DEF Stop
    <3> QED BY <2>7, <3>1
  <2>10. CASE UNCHANGED outboxVars
        BY <2>10 DEF outboxVars, Counted
  <2> QED BY <2>1, <2>2, <2>3, <2>4, <2>5, <2>6, <2>8, <2>9, <2>10 DEF OutboxNext, ProcessPending
<1> QED BY <1>z, <1>n

\* A list taken from the pending entries has none before it left out.
LEMMA ListedFirst ==
  ASSUME NEW f \in Listed, NEW e \in Entries, e < f, row[e].status = "PENDING"
  PROVE  e \in Listed
<1> USE OutboxAssumption
<1> DEFINE P == {g \in Entries : row[g].status = "PENDING"}
           A == {g \in P : g < e}
           B == {g \in P : g < f}
<1>1. f \in P /\ Cardinality(B) < Limit
      BY DEF Listed
<1>2. A \subseteq B
  <2>1. e \in Int /\ f \in Int /\ \A g \in P : g \in Int
        BY <1>1 DEF Entries
  <2>2. \A g \in P : g < e => g < f
        BY <2>1
  <2> QED BY <2>2
<1>3. IsFiniteSet(B)
  <2>1. IsFiniteSet(1..N)
        BY FS_Interval
  <2> QED BY <2>1, FS_Subset DEF Entries
<1>4. Cardinality(A) <= Cardinality(B) /\ Cardinality(A) \in Nat /\ Cardinality(B) \in Nat
      BY <1>2, <1>3, FS_Subset, FS_CardinalityType
<1>5. Cardinality(A) < Limit
      BY <1>1, <1>4
<1>6. e \in P
      OBVIOUS
<1> QED BY <1>5, <1>6 DEF Listed

LEMMA OrderlyStep ==
  OutboxInv /\ Counted /\ Orderly /\ [OutboxNext]_outboxVars => Orderly'
<1> SUFFICES ASSUME OutboxInv, Counted, Orderly, [OutboxNext]_outboxVars, ~many', faults' = 0 PROVE Orderly'
    BY DEF Orderly
<1> USE OutboxAssumption
<1>0. OutboxTypeOK /\ EntriesStored /\ Alone
      BY DEF OutboxInv
<1>m. ~many
      BY ManyKept
<1>b. faults' \in {faults, faults + 1} /\ faults \in Nat
      BY <1>0 DEF OutboxNext, outboxVars, Enqueue, ProcessPending, Tick, Claim, Publish, Done,
                  RecordError, WriteFails, Stop, OutboxTypeOK
<1>f. faults = 0 /\ ~(faults' = faults + 1)
      BY <1>b
<1>i. \A e \in Entries : e \in Int /\ row[e].status \in OutboxStatus /\ published[e] \in Nat
      BY <1>0 DEF OutboxTypeOK, OutboxRows, Entries
<1>c. /\ \A e \in Entries :
           /\ row[e].status # "FAILED"
           /\ row[e].status = "PROCESSING" =>
                \E w \in Processes : worker[w].step \in {"publish", "done"} /\ worker[w].entry = e
           /\ (row[e].status = "DONE" /\ row[e].known) => published[e] > 0
           /\ published[e] > 0 => row[e].status \in {"PROCESSING", "DONE"}
      /\ \A e, f \in Entries : e < f =>
           /\ row[f].status # "none" => row[e].status # "none"
           /\ row[f].status \in {"PROCESSING", "DONE"} => row[e].status = "DONE"
      /\ \A w \in Processes :
           /\ worker[w].step # "error"
           /\ \A f \in worker[w].todo, e \in Entries :
                (e < f /\ row[e].status = "PENDING") => e \in worker[w].todo
      BY <1>m, <1>f DEF Orderly
\* Only the entry at hand is PROCESSING.
<1>h. ASSUME NEW w \in Processes, worker[w].step # "idle" \/ Running(w), NEW e \in Entries, row[e].status = "PROCESSING"
      PROVE  worker[w].step \in {"publish", "done"} /\ worker[w].entry = e
  <2>1. PICK v \in Processes : worker[v].step \in {"publish", "done"} /\ worker[v].entry = e
        BY <1>c, <1>h
  <2>2. v = w
        BY <1>m, <1>h, <2>1, OthersIdle
  <2> QED BY <2>1, <2>2
<1>1. ASSUME NEW e \in Entries, Enqueue(e) PROVE Orderly'
  <2>1. RowMarked(e, "PENDING") /\ row[e].status = "none" /\ worker' = worker /\ published' = published
        BY <1>0, <1>1, MarkedRow DEF Enqueue, OutboxStatus
  <2>2. row'[e].status = "PENDING" /\ \A f \in Entries : f # e => row'[f] = row[f]
        BY <2>1 DEF RowMarked
  <2>g. \A f \in Entries : f < e => row[f].status # "none"
        BY <1>1 DEF Enqueue
  <2>3. \A f \in Entries : e < f => row[f].status = "none"
        BY <1>c, <2>1
  <2>4. published[e] = 0
        BY <1>c, <1>i, <2>1
  <2>5. \A d \in Entries :
           /\ row'[d].status # "FAILED"
           /\ row'[d].status = "PROCESSING" =>
                \E w \in Processes : worker[w].step \in {"publish", "done"} /\ worker[w].entry = d
           /\ (row'[d].status = "DONE" /\ row'[d].known) => published[d] > 0
           /\ published[d] > 0 => row'[d].status \in {"PROCESSING", "DONE"}
        BY <1>c, <2>2, <2>4
  <2>6. \A d, f \in Entries : d < f =>
           /\ row'[f].status # "none" => row'[d].status # "none"
           /\ row'[f].status \in {"PROCESSING", "DONE"} => row'[d].status = "DONE"
        BY <1>c, <1>i, <2>2, <2>g, <2>3
  <2>7. \A w \in Processes : \A f \in worker[w].todo : f \in Entries /\ row[f].status = "PENDING"
        BY <1>0, <1>m, WorkerFields DEF Alone
  <2>8. \A w \in Processes : \A f \in worker[w].todo, d \in Entries :
                (d < f /\ row'[d].status = "PENDING") => d \in worker[w].todo
        BY <1>c, <2>2, <2>3, <2>7
  <2> QED BY <1>c, <2>1, <2>5, <2>6, <2>8 DEF Orderly
<1>2. ASSUME NEW w \in Processes, Tick(w) PROVE Orderly'
  <2>1. worker'[w].step = "claim" /\ worker'[w].todo = Listed /\ \A v \in Processes : v # w => worker'[v] = worker[v]
        BY <1>0, <1>2 DEF Tick, OutboxTypeOK
  <2>2. Running(w) /\ row' = row /\ published' = published /\ worker[w].step = "idle"
        BY <1>2 DEF Tick
  <2>3. \A e \in Entries : row[e].status # "PROCESSING"
        BY <1>h, <2>2
  <2>4. \A f \in Listed, e \in Entries : (e < f /\ row[e].status = "PENDING") => e \in Listed
        BY ListedFirst
  <2>5. \A v \in Processes :
           /\ worker'[v].step # "error"
           /\ \A f \in worker'[v].todo, e \in Entries :
                (e < f /\ row[e].status = "PENDING") => e \in worker'[v].todo
    <3> SUFFICES ASSUME NEW v \in Processes
                 PROVE  /\ worker'[v].step # "error"
                        /\ \A f \in worker'[v].todo, e \in Entries :
                             (e < f /\ row[e].status = "PENDING") => e \in worker'[v].todo
        OBVIOUS
    <3>1. CASE v = w
          BY <2>1, <2>4, <3>1
    <3>2. CASE v # w
          BY <1>c, <2>1, <3>2
    <3> QED BY <3>1, <3>2
  <2> QED BY <1>c, <2>2, <2>3, <2>5 DEF Orderly
<1>3. ASSUME NEW w \in Processes, NEW e \in Entries, Claim(w, e) PROVE Orderly'
  <2>1. /\ e \in worker[w].todo /\ RowMarked(e, "PROCESSING") /\ Becomes(w, "publish", worker[w].todo \ {e}, e)
        /\ worker[w].step = "claim" /\ published' = published
        BY <1>3, ClaimEffect DEF Claim, At
  <2>2. row[e].status = "PENDING"
        BY <1>0, <1>m, <2>1 DEF Alone
  <2>3. row'[e].status = "PROCESSING" /\ \A f \in Entries : f # e => row'[f] = row[f]
        BY <2>1 DEF RowMarked
  <2>4. /\ worker'[w].entry = e /\ worker'[w].step = "publish" /\ worker'[w].todo = worker[w].todo \ {e}
        /\ \A v \in Processes : v # w => worker'[v] = worker[v]
        BY <1>0, <2>1, BecomesOne
  <2>5. \A f \in worker[w].todo : e <= f
        BY <1>3 DEF Claim, Takes, EarliestOf
  <2>6. \A d \in Entries : d < e => row[d].status = "DONE"
    <3> SUFFICES ASSUME NEW d \in Entries, d < e PROVE row[d].status = "DONE"
        OBVIOUS
    <3>1. row[d].status # "none" /\ row[d].status # "FAILED"
          BY <1>c, <2>2
    <3>2. d \notin worker[w].todo
          BY <1>i, <2>5
    <3>3. row[d].status # "PENDING"
          BY <1>c, <2>1, <3>2
    <3>4. row[d].status # "PROCESSING"
          BY <1>h, <2>1
    <3> QED BY <1>i, <3>1, <3>3, <3>4 DEF OutboxStatus
  <2>7. published[e] = 0
        BY <1>c, <1>i, <2>2
  <2>8. \A d \in Entries : row[d].status # "PROCESSING"
        BY <1>h, <2>1
  <2>9. \A d \in Entries :
           /\ row'[d].status # "FAILED"
           /\ row'[d].status = "PROCESSING" =>
                \E v \in Processes : worker'[v].step \in {"publish", "done"} /\ worker'[v].entry = d
           /\ (row'[d].status = "DONE" /\ row'[d].known) => published[d] > 0
           /\ published[d] > 0 => row'[d].status \in {"PROCESSING", "DONE"}
        BY <1>c, <2>3, <2>4, <2>8
  <2>10. \A d, f \in Entries : d < f =>
           /\ row'[f].status # "none" => row'[d].status # "none"
           /\ row'[f].status \in {"PROCESSING", "DONE"} => row'[d].status = "DONE"
    <3> SUFFICES ASSUME NEW d \in Entries, NEW f \in Entries, d < f
                 PROVE  /\ row'[f].status # "none" => row'[d].status # "none"
                        /\ row'[f].status \in {"PROCESSING", "DONE"} => row'[d].status = "DONE"
        OBVIOUS
    <3>1. d # f
          BY <1>i
    <3>2. CASE f = e
          BY <2>3, <2>6, <3>1, <3>2
    <3>3. CASE f # e
          BY <1>c, <2>2, <2>3, <3>3
    <3> QED BY <3>2, <3>3
  <2>11. \A v \in Processes :
           /\ worker'[v].step # "error"
           /\ \A f \in worker'[v].todo, d \in Entries :
                (d < f /\ row'[d].status = "PENDING") => d \in worker'[v].todo
    <3> SUFFICES ASSUME NEW v \in Processes
                 PROVE  /\ worker'[v].step # "error"
                        /\ \A f \in worker'[v].todo, d \in Entries :
                             (d < f /\ row'[d].status = "PENDING") => d \in worker'[v].todo
        OBVIOUS
    <3>1. CASE v = w
      <4>1. \A d \in Entries : row'[d].status = "PENDING" => d # e /\ row[d].status = "PENDING"
            BY <2>3
      <4> QED BY <1>c, <2>4, <3>1, <4>1
    <3>2. CASE v # w
      <4>1. worker'[v] = worker[v] /\ worker[v].todo = {}
            BY <1>m, <2>1, <2>4, <3>2, OthersIdle
      <4> QED BY <1>c, <4>1
    <3> QED BY <3>1, <3>2
  <2> QED BY <2>1, <2>9, <2>10, <2>11 DEF Orderly
<1>4. ASSUME NEW w \in Processes, Publish(w) PROVE Orderly'
  <2>1. Becomes(w, "done", worker[w].todo, worker[w].entry) /\ row' = row /\ worker[w].step = "publish"
        BY <1>0, <1>4, GoesBecomes DEF Publish, At
  <2>2. worker[w].entry \in Entries /\ row[worker[w].entry].status = "PROCESSING"
        BY <1>0, <1>m, <2>1 DEF EntriesStored, Busy, Counted
  <2>3. published' = published \/ published' = [published EXCEPT ![worker[w].entry] = published[worker[w].entry] + 1]
        BY <1>4 DEF Publish, Current
  <2>4. /\ worker'[w].entry = worker[w].entry /\ worker'[w].step = "done" /\ worker'[w].todo = worker[w].todo
        /\ \A v \in Processes : v # w => worker'[v] = worker[v]
        BY <1>0, <2>1, BecomesOne
  <2>5. \A d \in Entries : d # worker[w].entry => published'[d] = published[d]
        BY <1>0, <2>2, <2>3 DEF OutboxTypeOK
  <2>6. \A d \in Entries :
           /\ row[d].status # "FAILED"
           /\ row[d].status = "PROCESSING" =>
                \E v \in Processes : worker'[v].step \in {"publish", "done"} /\ worker'[v].entry = d
           /\ (row[d].status = "DONE" /\ row[d].known) => published'[d] > 0
           /\ published'[d] > 0 => row[d].status \in {"PROCESSING", "DONE"}
    <3> SUFFICES ASSUME NEW d \in Entries
                 PROVE  /\ row[d].status # "FAILED"
                        /\ row[d].status = "PROCESSING" =>
                             \E v \in Processes : worker'[v].step \in {"publish", "done"} /\ worker'[v].entry = d
                        /\ (row[d].status = "DONE" /\ row[d].known) => published'[d] > 0
                        /\ published'[d] > 0 => row[d].status \in {"PROCESSING", "DONE"}
        OBVIOUS
    <3>1. CASE d = worker[w].entry
          BY <2>2, <2>4, <3>1
    <3>2. CASE d # worker[w].entry
      <4>1. row[d].status # "PROCESSING"
            BY <1>h, <2>1, <3>2
      <4> QED BY <1>c, <2>5, <3>2, <4>1
    <3> QED BY <3>1, <3>2
  <2>7. \A v \in Processes : worker'[v].step # "error" /\ worker'[v].todo = worker[v].todo
        BY <1>c, <2>4
  <2> QED BY <1>c, <2>1, <2>6, <2>7 DEF Orderly
<1>5. ASSUME NEW w \in Processes, Done(w) PROVE Orderly'
  <2>1. /\ Current(w) \in Entries /\ RowMarked(Current(w), "DONE")
        /\ Becomes(w, IF worker[w].todo = {} THEN "idle" ELSE "claim", worker[w].todo, worker[w].entry)
        /\ worker[w].step = "done" /\ published' = published
        BY <1>5, DoneEffect DEF Done, At
  <2>2. PICK e \in Entries : e = worker[w].entry
        BY <2>1 DEF Current
  <2>3. row[e].status = "PROCESSING" /\ (row[e].known => published[e] > 0)
        BY <1>0, <1>m, <2>1, <2>2 DEF EntriesStored, Busy, Counted
  <2>4. row'[e].status = "DONE" /\ row'[e].known = row[e].known /\ \A f \in Entries : f # e => row'[f] = row[f]
        BY <2>1, <2>2 DEF RowMarked, Current
  <2>5. /\ worker'[w].step \in {"idle", "claim"} /\ worker'[w].todo = worker[w].todo
        /\ \A v \in Processes : v # w => worker'[v] = worker[v]
        BY <1>0, <2>1, BecomesOne
  <2>6. \A d \in Entries : d # e => row[d].status # "PROCESSING"
        BY <1>h, <2>1, <2>2
  <2>7. \A d \in Entries :
           /\ row'[d].status # "FAILED" /\ row'[d].status # "PROCESSING"
           /\ (row'[d].status = "DONE" /\ row'[d].known) => published[d] > 0
           /\ published[d] > 0 => row'[d].status \in {"PROCESSING", "DONE"}
        BY <1>c, <2>3, <2>4, <2>6
  <2>8. \A d, f \in Entries : d < f =>
           /\ row'[f].status # "none" => row'[d].status # "none"
           /\ row'[f].status \in {"PROCESSING", "DONE"} => row'[d].status = "DONE"
    <3> SUFFICES ASSUME NEW d \in Entries, NEW f \in Entries, d < f
                 PROVE  /\ row'[f].status # "none" => row'[d].status # "none"
                        /\ row'[f].status \in {"PROCESSING", "DONE"} => row'[d].status = "DONE"
        OBVIOUS
    <3>1. row'[f].status # "none" => row[f].status # "none"
          BY <2>3, <2>4
    <3>2. row'[f].status \in {"PROCESSING", "DONE"} => row[f].status \in {"PROCESSING", "DONE"}
          BY <2>3, <2>4
    <3> QED BY <1>c, <2>4, <3>1, <3>2
  <2>9. \A v \in Processes : worker'[v].step # "error" /\ worker'[v].todo = worker[v].todo
        BY <1>c, <2>5
  <2>10. \A d \in Entries : row'[d].status = "PENDING" => row[d].status = "PENDING"
        BY <2>4
  <2> QED BY <1>c, <2>1, <2>7, <2>8, <2>9, <2>10 DEF Orderly
<1>6. ASSUME NEW w \in Processes, RecordError(w) PROVE FALSE
      BY <1>c, <1>6 DEF RecordError, At
<1>7. ASSUME NEW w \in Processes, WriteFails(w) \/ Stop(w) PROVE FALSE
      BY <1>f, <1>7 DEF WriteFails, Stop
<1>8. CASE UNCHANGED outboxVars
      BY <1>8 DEF outboxVars, Orderly
<1> QED BY <1>1, <1>2, <1>3, <1>4, <1>5, <1>6, <1>7, <1>8 DEF OutboxNext, ProcessPending

LEMMA OrderlyInOrder == OutboxTypeOK /\ Orderly => InOrder
  BY DEF OutboxTypeOK, Orderly, InOrder

-----------------------------------------------------------------------------
(* The handlers' steps                                                     *)

LEMMA ToUsers ==
  ASSUME NEW h \in Sources
  PROVE  To(h) \subseteq Users /\ Announcement(Kind(h)).type \in NotificationType
<1>1. Kind(h) \in EventKinds
  <2>1. h[1] = 0 \/ h[1] \in Entries
        BY DEF Sources
  <2> QED BY <2>1, EventsAssumption DEF Kind
<1>2. ASSUME NEW k \in EventKinds
      PROVE  Announcement(k).to \subseteq Users /\ Announcement(k).type \in NotificationType
      BY <1>2 DEF EventKinds, Announcement, OnOrderPaid, OnRfqAwarded, OnPayoutRequested, OnPayoutCompleted,
             OrderCreated, OrderStatusChanged, TenantInviteCreated, Users, NotificationType
<1> QED BY <1>1, <1>2 DEF To

LEMMA HandlerFields ==
  ASSUME TypeOK, NEW h \in Sources, handler[h] # NoHandler
  PROVE  /\ handler[h] \in Handlers
         /\ handler[h].step \in {"queue", "create", "inApp", "email"}
         /\ handler[h].todo \subseteq Users /\ handler[h].user \in Users
         /\ <<h, handler[h].user>> \in Sources \X Users
  BY DEF TypeOK, Handlers

LEMMA RowFields ==
  ASSUME TypeOK, NEW n \in Sources \X Users, note[n] # NoRow
  PROVE  /\ note[n] \in NotificationRows
         /\ note[n].type \in NotificationType
         /\ note[n].inApp \in DeliveryStatus /\ note[n].email \in DeliveryStatus
  BY DEF TypeOK, NotificationRows

\* A handler is where it was, if what it has written stays and pending mails have their jobs.
LEMMA HandlerKept ==
  ASSUME NEW g \in Sources, HandlerOK(g), handler'[g] = handler[g],
         Started(g)' <=> Started(g), g \in broken' <=> g \in broken, unwritten \subseteq unwritten',
         \A u \in Users :
           /\ note'[<<g, u>>] = NoRow <=> note[<<g, u>>] = NoRow
           /\ note'[<<g, u>>] # NoRow =>
                /\ note'[<<g, u>>].inApp = note[<<g, u>>].inApp
                /\ note'[<<g, u>>].email = "pending" =>
                     note[<<g, u>>].email = "pending" /\
                       (job[<<g, u>>] > 0 => job'[<<g, u>>] > 0 \/ <<g, u>> \in unwritten'),
         handler[g] # NoHandler => handler[g].user \in Users
  PROVE  HandlerOK(g)'
<1>1. To(g) \subseteq Users
      BY ToUsers
<1>2. \A u \in Users : Told(g, u)' <=> Told(g, u)
      BY DEF Told
<1>3. Unwritten(g)' <=> Unwritten(g)
      BY DEF Unwritten
<1>4. /\ ~Started(g)' => handler'[g] = NoHandler /\ Unwritten(g)'
      /\ handler'[g] # NoHandler =>
           /\ handler'[g].step = "queue" => handler'[g].todo = To(g) /\ Unwritten(g)'
           /\ handler'[g].step # "queue" =>
                \A u \in To(g) : u \in handler'[g].todo \/ u = handler'[g].user \/ Told(g, u)'
           /\ handler'[g].step = "inApp" => note'[<<g, handler'[g].user>>] # NoRow
           /\ handler'[g].step = "email" => Told(g, handler[g].user)'
      BY <1>1, <1>2, <1>3 DEF HandlerOK
<1>5. (Started(g)' /\ handler'[g] = NoHandler /\ g \notin broken') => \A u \in To(g) : Told(g, u)'
      BY <1>1, <1>2 DEF HandlerOK
<1>6. \A u \in Users :
       (note'[<<g, u>>] # NoRow /\ note'[<<g, u>>].email = "pending") =>
         job'[<<g, u>>] > 0 \/ g \in broken' \/ <<g, u>> \in unwritten' \/ (handler'[g] # NoHandler /\ handler'[g].user = u)
      BY DEF HandlerOK
<1> QED BY <1>4, <1>5, <1>6 DEF HandlerOK

LEMMA RowKept ==
  ASSUME NEW n, RowOK(n), n \in pushed' <=> n \in pushed, uses' = uses,
         note'[n] = note[n], job'[n] = job[n], mailed'[n] = mailed[n]
  PROVE  RowOK(n)'
  BY DEF RowOK

\* The outbox does not mind what handlers do, but for the faults they share.
LEMMA OutboxQuiet ==
  ASSUME OutboxInv, Counted, Orderly, UNCHANGED <<many, row, published, worker, stranded>>,
         faults' = faults \/ (faults < MaxFaults /\ faults' = faults + 1)
  PROVE  OutboxInv' /\ Counted' /\ Orderly'
<1> USE OutboxAssumption
<1>0. OutboxTypeOK
      BY DEF OutboxInv
<1>1. faults \in Nat /\ faults' \in Nat /\ faults' >= faults /\ faults' <= MaxFaults
      BY <1>0 DEF OutboxTypeOK, Counted
<1>2. OutboxTypeOK'
      BY <1>0, <1>1 DEF OutboxTypeOK
<1>3. EntriesStored'
      BY DEF OutboxInv, EntriesStored
<1>4. Alone'
      BY DEF OutboxInv, Alone, Running
<1>p. \A e \in Entries : published[e] \in Nat
      BY <1>0 DEF OutboxTypeOK
<1>5. Counted'
  <2>1. ~many =>
       /\ \A e \in Entries : published[e] <= 1 + faults'
       /\ \A e \in Entries : row[e].status \in {"none", "PENDING"} => published[e] <= faults'
       /\ \A w \in Processes :
            /\ worker[w].step \in {"publish", "error"} => published[worker[w].entry] <= faults'
            /\ worker[w].step \in {"publish", "done"} => row[worker[w].entry].status = "PROCESSING"
    <3>1. \A w \in Processes : worker[w].step \in {"publish", "error"} => worker[w].entry \in Entries
          BY DEF OutboxInv, EntriesStored, Busy
    <3> QED BY <1>1, <1>p, <3>1 DEF Counted
  <2> QED BY <1>1, <2>1 DEF Counted
<1>6. Orderly'
  <2>1. faults' = 0 => faults = 0
        BY <1>1
  <2> QED BY <2>1 DEF Orderly
<1> QED BY <1>2, <1>3, <1>4, <1>5, <1>6 DEF OutboxInv

LEMMA StartedSame ==
  ASSUME UNCHANGED <<emitted, started>>
  PROVE  \A g \in Sources : Started(g)' <=> Started(g)
  BY DEF Started

\* Every step but the outbox's: what is left to show.
LEMMA EventsKept ==
  ASSUME EventsInv, UNCHANGED <<many, row, published, worker, stranded, uses>>,
         faults' = faults \/ (faults < MaxFaults /\ faults' = faults + 1),
         emitted' \in BOOLEAN, started' \in [Entries -> Nat],
         \A e \in Entries : started'[e] <= published[e],
         handler' \in [Sources -> Handlers \cup {NoHandler}], broken' \subseteq Sources,
         note' \in [Sources \X Users -> NotificationRows \cup {NoRow}],
         online' \subseteq Users, pushed' \subseteq Sources \X Users, unwritten' \subseteq Sources \X Users,
         job' \in [Sources \X Users -> 0..Tries], mailed' \in [Sources \X Users -> Nat],
         \A h \in Sources : HandlerOK(h)',
         \A n \in Sources \X Users : RowOK(n)'
  PROVE  EventsInv'
<1>1. OutboxInv' /\ Counted' /\ Orderly'
      BY OutboxQuiet DEF EventsInv
<1>2. TypeOK'
      BY <1>1 DEF EventsInv, OutboxInv, TypeOK
<1>3. Justified'
      BY DEF EventsInv, Justified
<1> QED BY <1>1, <1>2, <1>3 DEF EventsInv

\* A handler that starts has everyone to tell.
LEMMA StartStep ==
  ASSUME EventsInv, NEW h \in Sources, ~Started(h), Started(h)',
         \A g \in Sources : g # h => (Started(g)' <=> Started(g)),
         Start(h), UNCHANGED <<uses, broken, note, pushed, job, mailed, unwritten>>
  PROVE  /\ handler' \in [Sources -> Handlers \cup {NoHandler}]
         /\ \A g \in Sources : HandlerOK(g)'
         /\ \A n \in Sources \X Users : RowOK(n)'
<1> DEFINE r == [step |-> "queue", todo |-> To(h), user |-> Customer]
<1>1. r \in Handlers
      BY ToUsers DEF Handlers, Users
<1>2. handler' = [handler EXCEPT ![h] = r]
      BY DEF Start
<1>3. r # NoHandler
      BY <1>1, EventsAssumption
<1>4. handler \in [Sources -> Handlers \cup {NoHandler}]
      BY DEF EventsInv, TypeOK
<1>5. handler' \in [Sources -> Handlers \cup {NoHandler}]
      BY <1>1, <1>2, <1>4
<1>6. \A g \in Sources : g # h => handler'[g] = handler[g]
      BY <1>2, <1>4
<1>7. HandlerOK(h)'
  <2>1. Unwritten(h)
        BY DEF EventsInv, HandlerOK
  <2>2. Unwritten(h)'
        BY <2>1 DEF Unwritten
  <2>3. handler'[h] = r
        BY <1>2, <1>4
  <2>4. handler'[h] # NoHandler /\ handler'[h].step = "queue" /\ handler'[h].todo = To(h)
        BY <1>3, <2>3
  <2>5. \A u \in Users : note'[<<h, u>>] = NoRow
        BY <2>1 DEF Unwritten
  <2> HIDE DEF r
  <2> QED BY <2>2, <2>4, <2>5 DEF HandlerOK
<1>8. ASSUME NEW g \in Sources, g # h PROVE HandlerOK(g)'
  <2>1. HandlerOK(g)
        BY DEF EventsInv
  <2>2. handler[g] # NoHandler => handler[g].user \in Users
        BY HandlerFields DEF EventsInv
  <2> QED BY <1>6, <1>8, <2>1, <2>2, HandlerKept
<1>9. ASSUME NEW n \in Sources \X Users PROVE RowOK(n)'
      BY RowKept DEF EventsInv
<1> QED BY <1>5, <1>7, <1>8, <1>9

LEMMA EmitStep == EventsInv /\ Emit => EventsInv'
<1> SUFFICES ASSUME EventsInv, Emit PROVE EventsInv'
    OBVIOUS
<1>0. TypeOK /\ Justified
      BY DEF EventsInv
<1>u. UNCHANGED <<many, row, published, worker, stranded, faults, uses, started, broken, note, online, pushed, job, mailed, unwritten>>
      BY DEF Emit, outboxVars
<1>1. emitted = FALSE /\ emitted' = TRUE /\ Start(<<0, 0>>)
      BY <1>0 DEF Emit, TypeOK
<1>2. <<0, 0>> \in Sources /\ ~Started(<<0, 0>>) /\ Started(<<0, 0>>)'
      BY <1>1 DEF Sources, Started
<1>3. \A g \in Sources : g # <<0, 0>> => (Started(g)' <=> Started(g))
  <2>1. \A g \in Sources : g # <<0, 0>> => g[1] # 0
        BY DEF Sources, Entries
  <2> QED BY <1>u, <2>1 DEF Started
<1>4. /\ handler' \in [Sources -> Handlers \cup {NoHandler}]
      /\ \A g \in Sources : HandlerOK(g)'
      /\ \A n \in Sources \X Users : RowOK(n)'
      BY <1>u, <1>1, <1>2, <1>3, StartStep
<1> QED BY <1>0, <1>u, <1>1, <1>4, EventsKept DEF TypeOK, Justified

LEMMA HandleStep == ASSUME EventsInv, NEW e \in Entries, Handle(e) PROVE EventsInv'
<1> USE OutboxAssumption
<1>0. TypeOK /\ Justified /\ Counted
      BY DEF EventsInv
<1>u. UNCHANGED <<many, row, published, worker, stranded, faults, uses, emitted, broken, note, online, pushed, job, mailed, unwritten>>
      BY DEF Handle, outboxVars
<1>1. started' = [started EXCEPT ![e] = started[e] + 1] /\ started[e] < published[e] /\ Start(<<e, started[e] + 1>>)
      BY DEF Handle
<1>t. started \in [Entries -> Nat] /\ published \in [Entries -> Nat] /\ faults \in Nat
      BY <1>0 DEF TypeOK, OutboxTypeOK
<1>2. started[e] + 1 \in 1..(MaxFaults + 2)
  <2>1. published[e] <= 1 + faults /\ faults <= MaxFaults
        BY <1>0 DEF Handle, Justified, Counted
  <2>2. started[e] \in Nat /\ published[e] \in Nat
        BY <1>t
  <2> QED BY <1>1, <1>t, <2>1, <2>2
<1>3. PICK h \in Sources : h = <<e, started[e] + 1>>
      BY <1>2 DEF Sources
<1>e. e # 0
      BY DEF Entries
<1>4. started'[e] = started[e] + 1 /\ \A d \in Entries : d # e => started'[d] = started[d]
      BY <1>1, <1>t
<1>5. ~Started(h) /\ Started(h)'
  <2>1. h[1] = e /\ h[2] = started[e] + 1 /\ started[e] \in Nat
        BY <1>3, <1>t
  <2> QED BY <1>e, <1>4, <2>1 DEF Started
<1>6. \A g \in Sources : g # h => (Started(g)' <=> Started(g))
  <2> SUFFICES ASSUME NEW g \in Sources, g # h PROVE Started(g)' <=> Started(g)
      OBVIOUS
  <2>1. CASE g[1] = 0
        BY <1>u, <2>1 DEF Started
  <2>2. CASE g[1] # 0
    <3>1. PICK d \in Entries, k \in 1..(MaxFaults + 2) : g = <<d, k>>
          BY <2>2 DEF Sources
    <3>2. CASE d # e
          BY <1>4, <2>2, <3>1, <3>2 DEF Started
    <3>3. CASE d = e
      <4>1. k # started[e] + 1
            BY <1>3, <3>1, <3>3
      <4>2. k \in Int /\ started[e] \in Int
            BY <1>t
      <4>3. k <= started[e] + 1 <=> k <= started[e]
            BY <4>1, <4>2
      <4>4. g[1] = e /\ g[2] = k
            BY <3>1, <3>3
      <4> QED BY <1>e, <1>4, <4>3, <4>4 DEF Started
    <3> QED BY <3>2, <3>3
  <2> QED BY <2>1, <2>2
<1>7. /\ handler' \in [Sources -> Handlers \cup {NoHandler}]
      /\ \A g \in Sources : HandlerOK(g)'
      /\ \A n \in Sources \X Users : RowOK(n)'
      BY <1>u, <1>1, <1>3, <1>5, <1>6, StartStep
<1>8. started' \in [Entries -> Nat] /\ \A d \in Entries : started'[d] <= published[d]
      BY <1>0, <1>1, <1>t DEF Justified
<1> QED BY <1>0, <1>u, <1>7, <1>8, EventsKept DEF TypeOK

\* The next recipient, or the end of the handler.
LEMMA NextRecipientEffect ==
  ASSUME TypeOK, NEW h \in Sources, handler[h] # NoHandler, NextRecipient(h)
  PROVE  /\ handler' \in [Sources -> Handlers \cup {NoHandler}]
         /\ \A g \in Sources : g # h => handler'[g] = handler[g]
         /\ \/ handler[h].todo = {} /\ handler'[h] = NoHandler
            \/ \E u \in handler[h].todo :
                 /\ handler'[h] # NoHandler
                 /\ handler'[h].step = "create" /\ handler'[h].user = u /\ handler'[h].todo = handler[h].todo \ {u}
<1>1. handler \in [Sources -> Handlers \cup {NoHandler}]
      BY DEF TypeOK
<1>2. CASE handler[h].todo = {}
  <2>1. handler' = [handler EXCEPT ![h] = NoHandler]
        BY <1>2 DEF NextRecipient
  <2> QED BY <1>1, <1>2, <2>1
<1>3. CASE handler[h].todo # {}
  <2>1. PICK u \in handler[h].todo :
          handler' = [handler EXCEPT ![h] = [step |-> "create", todo |-> handler[h].todo \ {u}, user |-> u]]
        BY <1>3 DEF NextRecipient
  <2> DEFINE r == [step |-> "create", todo |-> handler[h].todo \ {u}, user |-> u]
  <2>2. r \in Handlers
        BY HandlerFields DEF Handlers
  <2>3. r # NoHandler
        BY <2>2, EventsAssumption
  <2>4. handler' \in [Sources -> Handlers \cup {NoHandler}] /\ \A g \in Sources : g # h => handler'[g] = handler[g]
        BY <1>1, <2>1, <2>2
  <2>5. handler'[h] = r
        BY <1>1, <2>1
  <2>6. handler'[h].step = "create" /\ handler'[h].user = u /\ handler'[h].todo = handler[h].todo \ {u} /\ handler'[h] # NoHandler
        BY <2>3, <2>5
  <2> QED BY <2>4, <2>6
<1> QED BY <1>2, <1>3

\* A handler goes on to the next recipient when everyone before him was told, and the
\* mail for the one at hand is no longer pending or has its job.
LEMMA GoesOn ==
  ASSUME EventsInv, NEW h \in Sources, handler[h] # NoHandler, NextRecipient(h),
         UNCHANGED <<emitted, started, broken, unwritten>>,
         \A u \in To(h) : u \in handler[h].todo \/ Told(h, u)',
         \A u \in Users :
           (note'[<<h, u>>] # NoRow /\ note'[<<h, u>>].email = "pending") => job'[<<h, u>>] > 0 \/ h \in broken \/ <<h, u>> \in unwritten
  PROVE  HandlerOK(h)'
<1>1. /\ handler' \in [Sources -> Handlers \cup {NoHandler}]
      /\ \/ handler[h].todo = {} /\ handler'[h] = NoHandler
         \/ \E u \in handler[h].todo :
              /\ handler'[h] # NoHandler
              /\ handler'[h].step = "create" /\ handler'[h].user = u /\ handler'[h].todo = handler[h].todo \ {u}
      BY NextRecipientEffect DEF EventsInv
<1>2. Started(h) /\ Started(h)'
      BY DEF EventsInv, HandlerOK, Started
<1>3. CASE handler'[h] = NoHandler /\ handler[h].todo = {}
      BY <1>2, <1>3 DEF HandlerOK
<1>4. ASSUME NEW u \in handler[h].todo,
             handler'[h] # NoHandler,
             handler'[h].step = "create", handler'[h].user = u, handler'[h].todo = handler[h].todo \ {u}
      PROVE  HandlerOK(h)'
  <2>1. \A v \in To(h) : v \in handler'[h].todo \/ v = handler'[h].user \/ Told(h, v)'
        BY <1>4
  <2> QED BY <1>2, <1>4, <2>1 DEF HandlerOK
<1> QED BY <1>1, <1>3, <1>4

\* The other handlers, when h and its rows change only.
LEMMA OthersKept ==
  ASSUME EventsInv, NEW h \in Sources, UNCHANGED <<emitted, started, unwritten>>,
         \A g \in Sources : g # h => handler'[g] = handler[g] /\ (g \in broken' <=> g \in broken),
         \A n \in Sources \X Users : n[1] # h => note'[n] = note[n] /\ job'[n] = job[n]
  PROVE  \A g \in Sources : g # h => HandlerOK(g)'
<1> SUFFICES ASSUME NEW g \in Sources, g # h PROVE HandlerOK(g)'
    OBVIOUS
<1>1. HandlerOK(g)
      BY DEF EventsInv
<1>2. handler[g] # NoHandler => handler[g].user \in Users
      BY HandlerFields DEF EventsInv
<1>3. \A u \in Users : note'[<<g, u>>] = note[<<g, u>>] /\ job'[<<g, u>>] = job[<<g, u>>]
  <2>1. \A u \in Users : <<g, u>> \in Sources \X Users /\ <<g, u>>[1] = g
        OBVIOUS
  <2> QED BY <2>1
<1>4. Started(g)' <=> Started(g)
      BY StartedSame
<1> QED BY <1>1, <1>2, <1>3, <1>4, HandlerKept

LEMMA QueueJobStep == ASSUME EventsInv, NEW h \in Sources, QueueJob(h) PROVE EventsInv'
<1>0. TypeOK /\ HandlerOK(h) /\ Justified
      BY DEF EventsInv
<1>u. UNCHANGED <<many, row, published, worker, stranded, faults, uses, emitted, started, broken, note, online, pushed, job, mailed, unwritten>>
      BY DEF QueueJob, outboxVars
<1>1. handler[h] # NoHandler /\ handler[h].step = "queue" /\ NextRecipient(h)
      BY DEF QueueJob, InStep
<1>2. handler[h].todo = To(h) /\ Unwritten(h)
      BY <1>0, <1>1 DEF HandlerOK
<1>3. handler' \in [Sources -> Handlers \cup {NoHandler}] /\ \A g \in Sources : g # h => handler'[g] = handler[g]
      BY <1>0, <1>1, NextRecipientEffect
<1>4. HandlerOK(h)'
  <2>1. \A u \in Users : note'[<<h, u>>] = NoRow
        BY <1>u, <1>2 DEF Unwritten
  <2> QED BY <1>u, <1>1, <1>2, <2>1, GoesOn
<1>5. \A g \in Sources : HandlerOK(g)'
      BY <1>u, <1>3, <1>4, OthersKept
<1>6. \A n \in Sources \X Users : RowOK(n)'
      BY <1>u, RowKept DEF EventsInv
<1> QED BY <1>0, <1>u, <1>3, <1>5, <1>6, EventsKept DEF TypeOK, Justified

\* A handler at hand takes the next step s.
LEMMA StepEffect ==
  ASSUME TypeOK, NEW h \in Sources, handler[h] # NoHandler, NEW s \in {"inApp", "email"},
         handler' = [handler EXCEPT ![h].step = s]
  PROVE  /\ handler' \in [Sources -> Handlers \cup {NoHandler}]
         /\ \A g \in Sources : g # h => handler'[g] = handler[g]
         /\ handler'[h] # NoHandler /\ handler'[h].step = s
         /\ handler'[h].user = handler[h].user /\ handler'[h].todo = handler[h].todo
<1> DEFINE r == [handler[h] EXCEPT !.step = s]
<1>1. handler \in [Sources -> Handlers \cup {NoHandler}] /\ handler[h] \in Handlers
      BY HandlerFields DEF TypeOK
<1>2. r \in Handlers /\ r.step = s /\ r.user = handler[h].user /\ r.todo = handler[h].todo
      BY <1>1 DEF Handlers
<1>3. handler' = [handler EXCEPT ![h] = r]
      OBVIOUS
<1> HIDE DEF r
<1>4. handler'[h] = r
      BY <1>1, <1>3
<1> QED BY <1>1, <1>2, <1>3, <1>4, EventsAssumption

LEMMA NotifyStep == ASSUME EventsInv, NEW h \in Sources, Notify(h) PROVE EventsInv'
<1>0. TypeOK /\ HandlerOK(h) /\ Justified
      BY DEF EventsInv
<1>u. UNCHANGED <<many, row, published, worker, stranded, faults, uses, emitted, started, broken, online, pushed, job, mailed, unwritten>>
      BY DEF Notify, outboxVars
<1>1. handler[h] # NoHandler /\ handler[h].step = "create" /\ handler' = [handler EXCEPT ![h].step = "inApp"]
      BY DEF Notify, InStep
<1>2. PICK n \in Sources \X Users : n = <<h, handler[h].user>>
      BY <1>0, <1>1, HandlerFields
<1>3. PICK r : r = [type |-> Announcement(Kind(h)).type, inApp |-> "pending", email |-> "pending"]
      OBVIOUS
<1>4. r \in NotificationRows /\ r.email = "pending"
      BY <1>3, ToUsers DEF NotificationRows, DeliveryStatus
<1>5. r # NoRow
      BY <1>4, EventsAssumption
<1>6. note' = [note EXCEPT ![n] = r]
      BY <1>2, <1>3 DEF Notify
<1>7. note \in [Sources \X Users -> NotificationRows \cup {NoRow}]
      BY <1>0 DEF TypeOK
<1>8. /\ note' \in [Sources \X Users -> NotificationRows \cup {NoRow}]
      /\ note'[n] = r /\ \A m \in Sources \X Users : m # n => note'[m] = note[m]
      BY <1>4, <1>6, <1>7
<1>9. /\ handler' \in [Sources -> Handlers \cup {NoHandler}]
      /\ \A g \in Sources : g # h => handler'[g] = handler[g]
      /\ handler'[h] # NoHandler /\ handler'[h].step = "inApp"
      /\ handler'[h].user = handler[h].user /\ handler'[h].todo = handler[h].todo
      BY <1>0, <1>1, StepEffect
<1>10. HandlerOK(h)'
  <2>1. Started(h) /\ Started(h)'
        BY <1>0, <1>1, <1>u DEF HandlerOK, Started
  <2>2. \A u \in Users : u # handler[h].user => note'[<<h, u>>] = note[<<h, u>>]
    <3>1. \A u \in Users : u # handler[h].user => <<h, u>> # n /\ <<h, u>> \in Sources \X Users
          BY <1>2
    <3> QED BY <1>8, <3>1
  <2>3. \A u \in To(h) : u \in handler'[h].todo \/ u = handler'[h].user \/ Told(h, u)'
    <3>1. \A u \in To(h) : u \in handler[h].todo \/ u = handler[h].user \/ Told(h, u)
          BY <1>0, <1>1 DEF HandlerOK
    <3>2. To(h) \subseteq Users
          BY ToUsers
    <3> QED BY <1>9, <2>2, <3>1, <3>2 DEF Told
  <2>4. note'[<<h, handler'[h].user>>] # NoRow
        BY <1>2, <1>5, <1>8, <1>9
  <2>5. \A u \in Users :
          (note'[<<h, u>>] # NoRow /\ note'[<<h, u>>].email = "pending") =>
             job'[<<h, u>>] > 0 \/ h \in broken' \/ <<h, u>> \in unwritten' \/ (handler'[h] # NoHandler /\ handler'[h].user = u)
    <3> SUFFICES ASSUME NEW u \in Users, note'[<<h, u>>] # NoRow, note'[<<h, u>>].email = "pending",
                        u # handler[h].user
                 PROVE  job'[<<h, u>>] > 0 \/ h \in broken' \/ <<h, u>> \in unwritten'
        BY <1>9
    <3>1. job[<<h, u>>] > 0 \/ h \in broken \/ <<h, u>> \in unwritten
          BY <1>0, <2>2 DEF HandlerOK
    <3> QED BY <1>u, <3>1
  <2> QED BY <1>9, <2>1, <2>3, <2>4, <2>5 DEF HandlerOK
<1>11. \A g \in Sources : HandlerOK(g)'
  <2>1. \A m \in Sources \X Users : m[1] # h => note'[m] = note[m]
        BY <1>2, <1>8
  <2> QED BY <1>u, <1>9, <1>10, <2>1, OthersKept
<1>12. ASSUME NEW m \in Sources \X Users PROVE RowOK(m)'
  <2>1. CASE m = n
        BY <1>3, <1>5, <1>8, <2>1 DEF RowOK
  <2>2. CASE m # n
        BY <1>u, <1>8, <2>2, RowKept DEF EventsInv
  <2> QED BY <2>1, <2>2
<1> QED BY <1>0, <1>u, <1>8, <1>9, <1>11, <1>12, EventsKept DEF TypeOK, Justified

LEMMA MarkInAppStep == ASSUME EventsInv, NEW h \in Sources, MarkInApp(h) PROVE EventsInv'
<1>0. TypeOK /\ HandlerOK(h) /\ Justified
      BY DEF EventsInv
<1>u. UNCHANGED <<many, row, published, worker, stranded, faults, uses, emitted, started, broken, online, job, mailed, unwritten>>
      BY DEF MarkInApp, outboxVars
<1>1. handler[h] # NoHandler /\ handler[h].step = "inApp" /\ handler' = [handler EXCEPT ![h].step = "email"]
      BY DEF MarkInApp, InStep
<1>2. PICK n \in Sources \X Users : n = <<h, handler[h].user>>
      BY <1>0, <1>1, HandlerFields
<1>3. note[n] # NoRow
      BY <1>0, <1>1, <1>2 DEF HandlerOK
<1>r. PICK r : r = [note[n] EXCEPT !.inApp = "sent"]
      OBVIOUS
<1>4. r \in NotificationRows /\ r.email = note[n].email /\ r.inApp = "sent"
  <2>1. note[n] \in NotificationRows
        BY <1>0, <1>3, RowFields
  <2> QED BY <1>r, <2>1 DEF NotificationRows, DeliveryStatus
<1>5. r # NoRow
      BY <1>4, EventsAssumption
<1>7. note \in [Sources \X Users -> NotificationRows \cup {NoRow}]
      BY <1>0 DEF TypeOK
<1>6. note' = [note EXCEPT ![n] = r]
  <2>1. note' = [note EXCEPT ![n] = IF note[n] = NoRow THEN note[n] ELSE [note[n] EXCEPT !.inApp = "sent"]]
        BY <1>2 DEF MarkInApp
  <2> QED BY <1>3, <1>r, <2>1
<1>8. /\ note' \in [Sources \X Users -> NotificationRows \cup {NoRow}]
      /\ note'[n] = r /\ \A m \in Sources \X Users : m # n => note'[m] = note[m]
      BY <1>4, <1>6, <1>7
<1>p. pushed' \subseteq pushed \cup {n} /\ \A m : m # n => (m \in pushed' <=> m \in pushed)
      BY <1>2 DEF MarkInApp
<1>9. /\ handler' \in [Sources -> Handlers \cup {NoHandler}]
      /\ \A g \in Sources : g # h => handler'[g] = handler[g]
      /\ handler'[h] # NoHandler /\ handler'[h].step = "email"
      /\ handler'[h].user = handler[h].user /\ handler'[h].todo = handler[h].todo
      BY <1>0, <1>1, StepEffect
<1>10. HandlerOK(h)'
  <2>1. Started(h) /\ Started(h)'
        BY <1>0, <1>1, <1>u DEF HandlerOK, Started
  <2>2. \A u \in Users : u # handler[h].user => note'[<<h, u>>] = note[<<h, u>>]
    <3>1. \A u \in Users : u # handler[h].user => <<h, u>> # n /\ <<h, u>> \in Sources \X Users
          BY <1>2
    <3> QED BY <1>8, <3>1
  <2>3. \A u \in To(h) : u \in handler'[h].todo \/ u = handler'[h].user \/ Told(h, u)'
    <3>1. \A u \in To(h) : u \in handler[h].todo \/ u = handler[h].user \/ Told(h, u)
          BY <1>0, <1>1 DEF HandlerOK
    <3>2. To(h) \subseteq Users
          BY ToUsers
    <3> QED BY <1>9, <2>2, <3>1, <3>2 DEF Told
  <2>4. note'[<<h, handler'[h].user>>] # NoRow /\ note'[<<h, handler'[h].user>>].inApp = "sent"
        BY <1>2, <1>4, <1>5, <1>8, <1>9
  <2>5. \A u \in Users :
          (note'[<<h, u>>] # NoRow /\ note'[<<h, u>>].email = "pending") =>
             job'[<<h, u>>] > 0 \/ h \in broken' \/ <<h, u>> \in unwritten' \/ (handler'[h] # NoHandler /\ handler'[h].user = u)
    <3> SUFFICES ASSUME NEW u \in Users, note'[<<h, u>>] # NoRow, note'[<<h, u>>].email = "pending",
                        u # handler[h].user
                 PROVE  job'[<<h, u>>] > 0 \/ h \in broken' \/ <<h, u>> \in unwritten'
        BY <1>9
    <3>1. job[<<h, u>>] > 0 \/ h \in broken \/ <<h, u>> \in unwritten
          BY <1>0, <2>2 DEF HandlerOK
    <3> QED BY <1>u, <3>1
  <2> QED BY <1>9, <2>1, <2>3, <2>4, <2>5 DEF HandlerOK, Told
<1>11. \A g \in Sources : HandlerOK(g)'
  <2>1. \A m \in Sources \X Users : m[1] # h => note'[m] = note[m]
        BY <1>2, <1>8
  <2> QED BY <1>u, <1>9, <1>10, <2>1, OthersKept
<1>12. ASSUME NEW m \in Sources \X Users PROVE RowOK(m)'
  <2>0. RowOK(m)
        BY DEF EventsInv
  <2>1. CASE m = n
    <3>1. ("queue" \in uses /\ note[n].email = "sent") => mailed[n] > 0
          BY <1>3, <2>0, <2>1 DEF RowOK
    <3> QED BY <1>u, <1>4, <1>5, <1>8, <2>1, <3>1 DEF RowOK
  <2>2. CASE m # n
        BY <1>u, <1>p, <1>8, <2>0, <2>2, RowKept
  <2> QED BY <2>1, <2>2
<1>13. pushed' \subseteq Sources \X Users
      BY <1>0, <1>p DEF TypeOK
<1> QED BY <1>0, <1>u, <1>8, <1>9, <1>11, <1>12, <1>13, EventsKept DEF TypeOK, Justified

\* The delivery of a mail is written to a row that is there.
LEMMA MailWritten ==
  ASSUME TypeOK, NEW n \in Sources \X Users, note[n] # NoRow, NEW s \in DeliveryStatus,
         note' = [note EXCEPT ![n].email = s]
  PROVE  /\ note' \in [Sources \X Users -> NotificationRows \cup {NoRow}]
         /\ note'[n] # NoRow /\ note'[n].email = s /\ note'[n].inApp = note[n].inApp
         /\ \A m \in Sources \X Users : m # n => note'[m] = note[m]
<1>1. PICK r : r = [note[n] EXCEPT !.email = s]
      OBVIOUS
<1>2. note[n] \in NotificationRows
      BY RowFields
<1>3. r \in NotificationRows /\ r.email = s /\ r.inApp = note[n].inApp
      BY <1>1, <1>2 DEF NotificationRows
<1>4. r # NoRow
      BY <1>3, EventsAssumption
<1>5. note' = [note EXCEPT ![n] = r] /\ note \in [Sources \X Users -> NotificationRows \cup {NoRow}]
      BY <1>1 DEF TypeOK
<1> QED BY <1>3, <1>4, <1>5

\* A handler at the step "email" goes on: everyone was told but those still to do.
LEMMA EmailTold ==
  ASSUME EventsInv, NEW h \in Sources, InStep(h, "email")
  PROVE  /\ handler[h] # NoHandler /\ <<h, handler[h].user>> \in Sources \X Users
         /\ note[<<h, handler[h].user>>] # NoRow
         /\ \A u \in To(h) : u \in handler[h].todo \/ Told(h, u)
<1>1. handler[h] # NoHandler /\ handler[h].step = "email" /\ HandlerOK(h) /\ TypeOK
      BY DEF InStep, EventsInv
<1>2. \A u \in To(h) : u \in handler[h].todo \/ u = handler[h].user \/ Told(h, u)
      BY <1>1 DEF HandlerOK
<1>3. Told(h, handler[h].user)
      BY <1>1 DEF HandlerOK
<1> QED BY <1>1, <1>2, <1>3, HandlerFields DEF Told

LEMMA QueueMailStep == ASSUME EventsInv, NEW h \in Sources, QueueMail(h) PROVE EventsInv'
<1>0. TypeOK /\ HandlerOK(h) /\ Justified
      BY DEF EventsInv
<1>u. UNCHANGED <<many, row, published, worker, stranded, faults, uses, emitted, started, broken, online, pushed, mailed, unwritten>>
      BY DEF QueueMail, outboxVars
<1>1. InStep(h, "email") /\ NextRecipient(h)
      BY DEF QueueMail
<1>2. PICK n \in Sources \X Users : n = <<h, handler[h].user>>
      BY <1>1, EmailTold
<1>3. job \in [Sources \X Users -> 0..Tries] /\ note \in [Sources \X Users -> NotificationRows \cup {NoRow}]
      BY <1>0 DEF TypeOK
<1>4. Tries \in Nat /\ Tries > 0
      BY EventsAssumption
<1>6. /\ handler[h] # NoHandler /\ note[n] # NoRow
      /\ \A u \in To(h) : u \in handler[h].todo \/ Told(h, u)
      BY <1>1, <1>2, EmailTold
\* With a queue the mail has a job, without one it reads sent.
<1>5. /\ job' \in [Sources \X Users -> 0..Tries]
      /\ note' \in [Sources \X Users -> NotificationRows \cup {NoRow}]
      /\ note'[n] # NoRow /\ note'[n].inApp = note[n].inApp
      /\ note'[n].email = "pending" => job'[n] > 0
      /\ "queue" \in uses => note'[n].email = note[n].email
      /\ \A m \in Sources \X Users : m # n => job'[m] = job[m] /\ note'[m] = note[m]
  <2>1. CASE "queue" \in uses
    <3>1. job' = [job EXCEPT ![n] = Tries] /\ note' = note
          BY <1>2, <2>1 DEF QueueMail
    <3>2. /\ job' \in [Sources \X Users -> 0..Tries] /\ job'[n] > 0
          /\ \A m \in Sources \X Users : m # n => job'[m] = job[m]
          BY <1>3, <1>4, <3>1
    <3> QED BY <1>3, <1>6, <3>1, <3>2
  <2>2. CASE "queue" \notin uses
    <3>1. note' = [note EXCEPT ![n].email = "sent"] /\ job' = job
          BY <1>2, <2>2 DEF QueueMail
    <3>2. /\ note' \in [Sources \X Users -> NotificationRows \cup {NoRow}]
          /\ note'[n] # NoRow /\ note'[n].email = "sent" /\ note'[n].inApp = note[n].inApp
          /\ \A m \in Sources \X Users : m # n => note'[m] = note[m]
          BY <1>0, <1>6, <3>1, MailWritten DEF DeliveryStatus
    <3> QED BY <1>3, <2>2, <3>1, <3>2
  <2> QED BY <2>1, <2>2
<1>7. handler' \in [Sources -> Handlers \cup {NoHandler}] /\ \A g \in Sources : g # h => handler'[g] = handler[g]
      BY <1>0, <1>1, <1>6, NextRecipientEffect
<1>s. \A u \in Users : u # handler[h].user =>
         note'[<<h, u>>] = note[<<h, u>>] /\ job'[<<h, u>>] = job[<<h, u>>]
  <2>1. \A u \in Users : u # handler[h].user => <<h, u>> # n /\ <<h, u>> \in Sources \X Users
        BY <1>2
  <2> QED BY <1>5, <2>1
<1>8. HandlerOK(h)'
  <2>1. \A u \in To(h) : u \in handler[h].todo \/ Told(h, u)'
    <3> SUFFICES ASSUME NEW u \in To(h), u \notin handler[h].todo PROVE Told(h, u)'
        OBVIOUS
    <3>1. u \in Users /\ note[<<h, u>>] # NoRow /\ note[<<h, u>>].inApp = "sent"
          BY <1>6, ToUsers DEF Told
    <3>2. note'[<<h, u>>] # NoRow /\ note'[<<h, u>>].inApp = "sent"
          BY <1>2, <1>5, <1>s, <3>1
    <3> QED BY <3>2 DEF Told
  <2>2. \A u \in Users :
          (note'[<<h, u>>] # NoRow /\ note'[<<h, u>>].email = "pending") =>
             job'[<<h, u>>] > 0 \/ h \in broken \/ <<h, u>> \in unwritten
    <3> SUFFICES ASSUME NEW u \in Users, note'[<<h, u>>] # NoRow, note'[<<h, u>>].email = "pending"
                 PROVE  job'[<<h, u>>] > 0 \/ h \in broken \/ <<h, u>> \in unwritten
        OBVIOUS
    <3>1. CASE u = handler[h].user
          BY <1>2, <1>5, <3>1
    <3>2. CASE u # handler[h].user
      <4>1. job[<<h, u>>] > 0 \/ h \in broken \/ <<h, u>> \in unwritten
            BY <1>0, <1>s, <3>2 DEF HandlerOK
      <4> QED BY <1>s, <3>2, <4>1
    <3> QED BY <3>1, <3>2
  <2> QED BY <1>u, <1>1, <1>6, <2>1, <2>2, GoesOn
<1>9. \A g \in Sources : HandlerOK(g)'
  <2>1. \A m \in Sources \X Users : m[1] # h => note'[m] = note[m] /\ job'[m] = job[m]
        BY <1>2, <1>5
  <2> QED BY <1>u, <1>7, <1>8, <2>1, OthersKept
<1>10. ASSUME NEW m \in Sources \X Users PROVE RowOK(m)'
  <2>0. RowOK(m)
        BY DEF EventsInv
  <2>1. CASE m = n
        BY <1>u, <1>5, <1>6, <2>0, <2>1 DEF RowOK
  <2>2. CASE m # n
        BY <1>u, <1>5, <2>0, <2>2, RowKept
  <2> QED BY <2>1, <2>2
<1> QED BY <1>0, <1>u, <1>5, <1>7, <1>9, <1>10, EventsKept DEF TypeOK, Justified

LEMMA QueueMailFailsStep == ASSUME EventsInv, NEW h \in Sources, QueueMailFails(h) PROVE EventsInv'
<1>0. TypeOK /\ HandlerOK(h) /\ Justified
      BY DEF EventsInv
<1>u. UNCHANGED <<many, row, published, worker, stranded, uses, emitted, started, broken, online, pushed, job, mailed, unwritten>>
      BY DEF QueueMailFails
<1>1. InStep(h, "email") /\ NextRecipient(h) /\ faults < MaxFaults /\ faults' = faults + 1
      BY DEF QueueMailFails
<1>2. PICK n \in Sources \X Users : n = <<h, handler[h].user>>
      BY <1>1, EmailTold
<1>3. note' = [note EXCEPT ![n].email = "failed"]
      BY <1>2 DEF QueueMailFails
<1>6. /\ handler[h] # NoHandler /\ note[n] # NoRow
      /\ \A u \in To(h) : u \in handler[h].todo \/ Told(h, u)
      BY <1>1, <1>2, EmailTold
<1>5. /\ note' \in [Sources \X Users -> NotificationRows \cup {NoRow}]
      /\ note'[n] # NoRow /\ note'[n].email = "failed" /\ note'[n].inApp = note[n].inApp
      /\ \A m \in Sources \X Users : m # n => note'[m] = note[m]
      BY <1>0, <1>3, <1>6, MailWritten DEF DeliveryStatus
<1>7. handler' \in [Sources -> Handlers \cup {NoHandler}] /\ \A g \in Sources : g # h => handler'[g] = handler[g]
      BY <1>0, <1>1, <1>6, NextRecipientEffect
<1>s. \A u \in Users : u # handler[h].user => note'[<<h, u>>] = note[<<h, u>>]
  <2>1. \A u \in Users : u # handler[h].user => <<h, u>> # n /\ <<h, u>> \in Sources \X Users
        BY <1>2
  <2> QED BY <1>5, <2>1
<1>8. HandlerOK(h)'
  <2>1. \A u \in To(h) : u \in handler[h].todo \/ Told(h, u)'
    <3> SUFFICES ASSUME NEW u \in To(h), u \notin handler[h].todo PROVE Told(h, u)'
        OBVIOUS
    <3>1. u \in Users /\ note[<<h, u>>] # NoRow /\ note[<<h, u>>].inApp = "sent"
          BY <1>6, ToUsers DEF Told
    <3>2. note'[<<h, u>>] # NoRow /\ note'[<<h, u>>].inApp = "sent"
          BY <1>2, <1>5, <1>s, <3>1
    <3> QED BY <3>2 DEF Told
  <2>2. \A u \in Users :
          (note'[<<h, u>>] # NoRow /\ note'[<<h, u>>].email = "pending") => job'[<<h, u>>] > 0 \/ h \in broken \/ <<h, u>> \in unwritten
    <3> SUFFICES ASSUME NEW u \in Users, note'[<<h, u>>] # NoRow, note'[<<h, u>>].email = "pending"
                 PROVE  job'[<<h, u>>] > 0 \/ h \in broken \/ <<h, u>> \in unwritten
        OBVIOUS
    <3>1. u # handler[h].user
          BY <1>2, <1>5
    <3>2. job[<<h, u>>] > 0 \/ h \in broken \/ <<h, u>> \in unwritten
          BY <1>0, <1>s, <3>1 DEF HandlerOK
    <3> QED BY <1>u, <3>2
  <2> QED BY <1>u, <1>1, <1>6, <2>1, <2>2, GoesOn
<1>9. \A g \in Sources : HandlerOK(g)'
  <2>1. \A m \in Sources \X Users : m[1] # h => note'[m] = note[m]
        BY <1>2, <1>5
  <2> QED BY <1>u, <1>7, <1>8, <2>1, OthersKept
<1>10. ASSUME NEW m \in Sources \X Users PROVE RowOK(m)'
  <2>0. RowOK(m)
        BY DEF EventsInv
  <2>1. CASE m = n
        BY <1>u, <1>5, <2>1 DEF RowOK
  <2>2. CASE m # n
        BY <1>u, <1>5, <2>0, <2>2, RowKept
  <2> QED BY <2>1, <2>2
<1> QED BY <1>0, <1>u, <1>1, <1>5, <1>7, <1>9, <1>10, EventsKept DEF TypeOK, Justified

LEMMA HandlerBreaksStep == ASSUME EventsInv, NEW h \in Sources, HandlerBreaks(h) PROVE EventsInv'
<1>0. TypeOK /\ HandlerOK(h) /\ Justified
      BY DEF EventsInv
<1>u. UNCHANGED <<many, row, published, worker, stranded, uses, emitted, started, note, online, pushed, job, mailed, unwritten>>
      BY DEF HandlerBreaks
<1>1. handler[h] # NoHandler /\ faults < MaxFaults /\ faults' = faults + 1 /\ broken' = broken \cup {h}
      BY DEF HandlerBreaks
<1>2. handler' = [handler EXCEPT ![h] = NoHandler] /\ handler \in [Sources -> Handlers \cup {NoHandler}]
      BY <1>0 DEF HandlerBreaks, TypeOK
<1>3. /\ handler' \in [Sources -> Handlers \cup {NoHandler}] /\ handler'[h] = NoHandler
      /\ \A g \in Sources : g # h => handler'[g] = handler[g]
      BY <1>2
<1>4. HandlerOK(h)'
  <2>1. Started(h) /\ Started(h)'
        BY <1>0, <1>1, <1>u DEF HandlerOK, Started
  <2> QED BY <1>1, <1>3, <2>1 DEF HandlerOK
<1>5. \A g \in Sources : HandlerOK(g)'
      BY <1>u, <1>1, <1>3, <1>4, OthersKept
<1>6. \A n \in Sources \X Users : RowOK(n)'
      BY <1>u, RowKept DEF EventsInv
<1>7. broken' \subseteq Sources
      BY <1>0, <1>1 DEF TypeOK
<1> QED BY <1>0, <1>u, <1>1, <1>3, <1>5, <1>6, <1>7, EventsKept DEF TypeOK, Justified

-----------------------------------------------------------------------------
(* The mail worker, sockets and the outbox                                 *)

\* A worker touches only the row of its mail.
LEMMA MailKept ==
  ASSUME EventsInv, NEW n \in Sources \X Users, note[n] # NoRow,
         UNCHANGED <<handler, emitted, started, broken>>,
         \A m \in Sources \X Users : m # n => note'[m] = note[m] /\ job'[m] = job[m],
         note'[n] # NoRow, note'[n].inApp = note[n].inApp,
         note'[n].email = "pending" => note[n].email = "pending" /\ (job'[n] > 0 \/ n \in unwritten'),
         unwritten \subseteq unwritten'
  PROVE  \A g \in Sources : HandlerOK(g)'
<1> SUFFICES ASSUME NEW g \in Sources PROVE HandlerOK(g)'
    OBVIOUS
<1>1. HandlerOK(g) /\ (Started(g)' <=> Started(g))
      BY StartedSame DEF EventsInv
<1>2. handler[g] # NoHandler => handler[g].user \in Users
      BY HandlerFields DEF EventsInv
<1>3. ASSUME NEW u \in Users
      PROVE  /\ note'[<<g, u>>] = NoRow <=> note[<<g, u>>] = NoRow
             /\ note'[<<g, u>>] # NoRow =>
                  /\ note'[<<g, u>>].inApp = note[<<g, u>>].inApp
                  /\ note'[<<g, u>>].email = "pending" =>
                       note[<<g, u>>].email = "pending" /\
                       (job[<<g, u>>] > 0 => job'[<<g, u>>] > 0 \/ <<g, u>> \in unwritten')
  <2>1. <<g, u>> \in Sources \X Users
        OBVIOUS
  <2>2. CASE <<g, u>> = n
        BY <2>2
  <2>3. CASE <<g, u>> # n
        BY <2>1, <2>3
  <2> QED BY <2>2, <2>3
<1> QED BY <1>1, <1>2, <1>3, HandlerKept

\* A mail went out and its job is done; the delivery reads sent, or could not be written.
LEMMA MailSentStep ==
  ASSUME EventsInv, NEW n \in Sources \X Users, job[n] > 0,
         UNCHANGED <<many, row, published, worker, stranded, uses, emitted, started, handler, broken, online, pushed>>,
         faults' = faults \/ (faults < MaxFaults /\ faults' = faults + 1),
         mailed' = [mailed EXCEPT ![n] = mailed[n] + 1], job' = [job EXCEPT ![n] = 0],
         \/ note' = [note EXCEPT ![n].email = "sent"] /\ unwritten' = unwritten
         \/ note' = note /\ unwritten' = unwritten \cup {n}
  PROVE  EventsInv'
<1>0. TypeOK /\ Justified
      BY DEF EventsInv
<1>2. note[n] # NoRow
      BY DEF EventsInv, RowOK
<1>3. /\ note' \in [Sources \X Users -> NotificationRows \cup {NoRow}]
      /\ note'[n] # NoRow /\ note'[n].inApp = note[n].inApp
      /\ note'[n].email = "pending" => note[n].email = "pending" /\ n \in unwritten'
      /\ \A m \in Sources \X Users : m # n => note'[m] = note[m]
      /\ unwritten \subseteq unwritten' /\ unwritten' \subseteq Sources \X Users
  <2>1. unwritten \subseteq Sources \X Users
        BY <1>0 DEF TypeOK
  <2>2. CASE note' = [note EXCEPT ![n].email = "sent"] /\ unwritten' = unwritten
    <3>1. /\ note' \in [Sources \X Users -> NotificationRows \cup {NoRow}]
          /\ note'[n] # NoRow /\ note'[n].email = "sent" /\ note'[n].inApp = note[n].inApp
          /\ \A m \in Sources \X Users : m # n => note'[m] = note[m]
          BY <1>0, <1>2, <2>2, MailWritten DEF DeliveryStatus
    <3> QED BY <2>1, <2>2, <3>1
  <2>3. CASE note' = note /\ unwritten' = unwritten \cup {n}
        BY <1>0, <1>2, <2>1, <2>3 DEF TypeOK
  <2> QED BY <2>2, <2>3
<1>4. job \in [Sources \X Users -> 0..Tries] /\ mailed \in [Sources \X Users -> Nat]
      BY <1>0 DEF TypeOK
<1>5. /\ job' \in [Sources \X Users -> 0..Tries] /\ job'[n] = 0
      /\ \A m \in Sources \X Users : m # n => job'[m] = job[m]
      BY <1>4, EventsAssumption
<1>6. /\ mailed' \in [Sources \X Users -> Nat] /\ mailed'[n] > 0
      /\ \A m \in Sources \X Users : m # n => mailed'[m] = mailed[m]
      BY <1>4
<1>7. \A g \in Sources : HandlerOK(g)'
      BY <1>2, <1>3, <1>5, MailKept
<1>8. ASSUME NEW m \in Sources \X Users PROVE RowOK(m)'
  <2>0. RowOK(m)
        BY DEF EventsInv
  <2>1. CASE m = n
        BY <1>3, <1>6, <2>1 DEF RowOK
  <2>2. CASE m # n
        BY <1>3, <1>5, <1>6, <2>0, <2>2, RowKept
  <2> QED BY <2>1, <2>2
<1> QED BY <1>0, <1>3, <1>5, <1>6, <1>7, <1>8, EventsKept DEF TypeOK, Justified

LEMMA ProcessMailStep ==
  ASSUME EventsInv, NEW n \in Sources \X Users, ProcessMail(n) \/ ProcessMailUnwritten(n) PROVE EventsInv'
<1>1. CASE ProcessMail(n)
  <2>1. /\ UNCHANGED <<many, row, published, worker, stranded, uses, emitted, started, handler, broken, online, pushed>>
        /\ faults' = faults /\ job[n] > 0
        /\ mailed' = [mailed EXCEPT ![n] = mailed[n] + 1] /\ job' = [job EXCEPT ![n] = 0]
        /\ note' = [note EXCEPT ![n].email = "sent"] /\ unwritten' = unwritten
        BY <1>1 DEF ProcessMail, outboxVars
  <2> QED BY <2>1, MailSentStep
<1>2. CASE ProcessMailUnwritten(n)
  <2>1. /\ UNCHANGED <<many, row, published, worker, stranded, uses, emitted, started, handler, broken, online, pushed>>
        /\ faults < MaxFaults /\ faults' = faults + 1 /\ job[n] > 0
        /\ mailed' = [mailed EXCEPT ![n] = mailed[n] + 1] /\ job' = [job EXCEPT ![n] = 0]
        /\ note' = note /\ unwritten' = unwritten \cup {n}
        BY <1>2 DEF ProcessMailUnwritten
  <2> QED BY <2>1, MailSentStep
<1> QED BY <1>1, <1>2

LEMMA MailFailsStep == ASSUME EventsInv, NEW n \in Sources \X Users, MailFails(n) PROVE EventsInv'
<1>0. TypeOK /\ Justified
      BY DEF EventsInv
<1>u. UNCHANGED <<many, row, published, worker, stranded, uses, emitted, started, handler, broken, online, pushed>>
      BY DEF MailFails
<1>1. /\ job[n] > 0 /\ faults < MaxFaults /\ faults' = faults + 1
      /\ job' = [job EXCEPT ![n] = job[n] - 1]
      /\ IF job[n] = 1 THEN WriteFailure(n) ELSE UNCHANGED <<note, unwritten>>
      BY DEF MailFails
<1>m. PICK out \in {0, 1} : mailed' = [mailed EXCEPT ![n] = mailed[n] + out]
      BY DEF MailFails
<1>2. note[n] # NoRow /\ RowOK(n)
      BY <1>1 DEF EventsInv, RowOK
<1>4. job \in [Sources \X Users -> 0..Tries] /\ mailed \in [Sources \X Users -> Nat] /\ Tries \in Nat
      BY <1>0, EventsAssumption DEF TypeOK
<1>3. /\ note' \in [Sources \X Users -> NotificationRows \cup {NoRow}]
      /\ note'[n] # NoRow /\ note'[n].inApp = note[n].inApp
      /\ note'[n].email = note[n].email \/ note'[n].email = "failed"
      /\ job[n] = 1 => note'[n].email = "failed" \/ n \in unwritten'
      /\ \A m \in Sources \X Users : m # n => note'[m] = note[m]
      /\ unwritten \subseteq unwritten' /\ unwritten' \subseteq Sources \X Users
  <2>0. unwritten \subseteq Sources \X Users /\ note \in [Sources \X Users -> NotificationRows \cup {NoRow}]
        BY <1>0 DEF TypeOK
  <2>1. CASE note' = [note EXCEPT ![n].email = "failed"] /\ unwritten' = unwritten
    <3>1. /\ note' \in [Sources \X Users -> NotificationRows \cup {NoRow}]
          /\ note'[n] # NoRow /\ note'[n].email = "failed" /\ note'[n].inApp = note[n].inApp
          /\ \A m \in Sources \X Users : m # n => note'[m] = note[m]
          BY <1>0, <1>2, <2>1, MailWritten DEF DeliveryStatus
    <3> QED BY <2>0, <2>1, <3>1
  <2>2. CASE note' = note /\ unwritten' = unwritten \cup {n}
        BY <1>2, <2>0, <2>2
  <2>3. CASE job[n] # 1 /\ UNCHANGED <<note, unwritten>>
        BY <1>2, <2>0, <2>3
  <2> QED BY <1>1, <2>1, <2>2, <2>3 DEF WriteFailure
<1>5. /\ job' \in [Sources \X Users -> 0..Tries] /\ job'[n] = job[n] - 1
      /\ job[n] # 1 => job'[n] > 0
      /\ \A m \in Sources \X Users : m # n => job'[m] = job[m]
  <2>1. job[n] \in 0..Tries
        BY <1>4
  <2>2. job[n] - 1 \in 0..Tries /\ (job[n] # 1 => job[n] - 1 > 0)
        BY <1>1, <1>4, <2>1
  <2> QED BY <1>1, <1>4, <2>2
<1>6. /\ mailed' \in [Sources \X Users -> Nat] /\ mailed'[n] >= mailed[n] /\ mailed[n] \in Nat /\ mailed'[n] \in Nat
      /\ \A m \in Sources \X Users : m # n => mailed'[m] = mailed[m]
  <2>1. mailed[n] \in Nat /\ mailed[n] + out \in Nat /\ mailed[n] + out >= mailed[n]
        BY <1>4
  <2> QED BY <1>m, <1>4, <2>1
<1>7. \A g \in Sources : HandlerOK(g)'
  <2>1. note'[n].email = "pending" => note[n].email = "pending" /\ (job'[n] > 0 \/ n \in unwritten')
        BY <1>3, <1>5
  <2> QED BY <1>u, <1>2, <1>3, <1>5, <2>1, MailKept
<1>8. ASSUME NEW m \in Sources \X Users PROVE RowOK(m)'
  <2>0. RowOK(m)
        BY DEF EventsInv
  <2>1. CASE m = n
    <3>1. ("queue" \in uses /\ note'[n].email = "sent") => mailed'[n] > 0
          BY <1>2, <1>3, <1>6 DEF RowOK
    <3> QED BY <1>u, <1>3, <2>1, <3>1 DEF RowOK
  <2>2. CASE m # n
        BY <1>u, <1>3, <1>5, <1>6, <2>0, <2>2, RowKept
  <2> QED BY <2>1, <2>2
<1> QED BY <1>0, <1>u, <1>1, <1>3, <1>5, <1>6, <1>7, <1>8, EventsKept DEF TypeOK, Justified

LEMMA SubscribeStep == ASSUME EventsInv, NEW u \in Users, HandleSubscribeUser(u) PROVE EventsInv'
<1>0. TypeOK /\ Justified
      BY DEF EventsInv
<1>u. UNCHANGED <<many, row, published, worker, stranded, faults, uses, emitted, started, handler, broken, note, pushed, job, mailed, unwritten>>
      BY DEF HandleSubscribeUser, outboxVars
<1>1. online' \subseteq Users
      BY <1>0 DEF HandleSubscribeUser, TypeOK
<1>2. ASSUME NEW h \in Sources PROVE HandlerOK(h)'
  <2>1. handler[h] # NoHandler => handler[h].user \in Users
        BY <1>0, HandlerFields
  <2> QED BY <1>u, <2>1, HandlerKept, StartedSame DEF EventsInv
<1>3. \A n \in Sources \X Users : RowOK(n)'
      BY <1>u, RowKept DEF EventsInv
<1> QED BY <1>0, <1>u, <1>1, <1>2, <1>3, EventsKept DEF TypeOK, Justified

LEMMA PublishedGrows ==
  ASSUME OutboxInv, [OutboxNext]_outboxVars
  PROVE  \A e \in Entries : published'[e] >= published[e]
<1>0. published \in [Entries -> Nat]
      BY DEF OutboxInv, OutboxTypeOK
<1>1. \A e \in Entries : published[e] \in Nat
      BY <1>0
<1>2. ASSUME NEW w \in Processes, Publish(w) PROVE \A e \in Entries : published'[e] >= published[e]
  <2>1. published' = published \/ published' = [published EXCEPT ![Current(w)] = published[Current(w)] + 1]
        BY <1>2 DEF Publish
  <2> QED BY <1>0, <1>1, <2>1
<1>3. published' = published \/ \E w \in Processes : Publish(w)
      BY DEF OutboxNext, outboxVars, Enqueue, ProcessPending, Tick, Claim, Done, RecordError, WriteFails, Stop
<1> QED BY <1>1, <1>2, <1>3

LEMMA OutboxStep == EventsInv /\ [OutboxNext]_outboxVars /\ UNCHANGED eventVars => EventsInv'
<1> SUFFICES ASSUME EventsInv, [OutboxNext]_outboxVars, UNCHANGED eventVars PROVE EventsInv'
    OBVIOUS
<1>0. TypeOK /\ OutboxInv /\ Counted /\ Orderly /\ Justified
      BY DEF EventsInv
<1>u. UNCHANGED <<uses, emitted, started, handler, broken, note, online, pushed, job, mailed, unwritten>>
      BY DEF eventVars
<1>1. OutboxInv' /\ Counted' /\ Orderly'
      BY <1>0, OutboxInvStep, CountedStep, OrderlyStep
<1>2. TypeOK'
      BY <1>0, <1>u, <1>1 DEF TypeOK, OutboxInv
<1>3. Justified'
  <2>1. \A e \in Entries : published[e] \in Nat /\ published'[e] \in Nat /\ started[e] \in Nat
        BY <1>0, <1>2 DEF TypeOK, OutboxTypeOK
  <2>2. \A e \in Entries : started'[e] <= published'[e]
        BY <1>0, <1>u, <2>1, PublishedGrows DEF Justified
  <2> QED BY <1>0, <1>u, <2>2, ManyKept DEF Justified
<1>4. ASSUME NEW h \in Sources PROVE HandlerOK(h)'
  <2>1. handler[h] # NoHandler => handler[h].user \in Users
        BY <1>0, HandlerFields
  <2> QED BY <1>u, <2>1, HandlerKept, StartedSame DEF EventsInv
<1>5. \A n \in Sources \X Users : RowOK(n)'
      BY <1>u, RowKept DEF EventsInv
<1> QED BY <1>1, <1>2, <1>3, <1>4, <1>5 DEF EventsInv

LEMMA EventsStep == EventsInv /\ [Next]_vars => EventsInv'
<1> SUFFICES ASSUME EventsInv, [Next]_vars PROVE EventsInv'
    OBVIOUS
<1>1. CASE UNCHANGED vars
      BY <1>1, OutboxStep DEF vars
<1>2. CASE OutboxNext /\ UNCHANGED eventVars
      BY <1>2, OutboxStep
<1>3. ASSUME NEW h \in Sources, HandlerSteps(h) \/ QueueMailFails(h) \/ HandlerBreaks(h) PROVE EventsInv'
      BY <1>3, QueueJobStep, NotifyStep, MarkInAppStep, QueueMailStep, QueueMailFailsStep, HandlerBreaksStep
         DEF HandlerSteps
<1>4. ASSUME NEW n \in Sources \X Users, ProcessMail(n) \/ ProcessMailUnwritten(n) \/ MailFails(n) PROVE EventsInv'
      BY <1>4, ProcessMailStep, MailFailsStep
<1> QED BY <1>1, <1>2, <1>3, <1>4, EmitStep, HandleStep, SubscribeStep DEF Next

LEMMA EventsInit == Init => EventsInv
<1> SUFFICES ASSUME Init PROVE EventsInv
    OBVIOUS
<1> USE OutboxAssumption
<1>0. OutboxInit
      BY DEF Init
<1>1. OutboxInv
      BY <1>0, OutboxInitInv
<1>2. Counted
      BY <1>0 DEF OutboxInit, Counted
<1>3. Orderly
      BY <1>0 DEF OutboxInit, Orderly
<1>4. TypeOK
  <2>1. 0 \in 0..Tries
        BY EventsAssumption
  <2>2. /\ uses \in Scenarios /\ emitted \in BOOLEAN /\ started \in [Entries -> Nat]
        /\ handler \in [Sources -> Handlers \cup {NoHandler}] /\ broken \subseteq Sources
        /\ online \subseteq Users /\ pushed \subseteq Sources \X Users
        BY DEF Init
  <2>3. note \in [Sources \X Users -> NotificationRows \cup {NoRow}]
        BY DEF Init
  <2>4. job \in [Sources \X Users -> 0..Tries] /\ mailed \in [Sources \X Users -> Nat] /\ unwritten = {}
        BY <2>1 DEF Init
  <2> QED BY <1>1, <2>2, <2>3, <2>4 DEF TypeOK, OutboxInv
<1>5. Justified
      BY <1>0 DEF Init, OutboxInit, Justified
<1>6. ASSUME NEW h \in Sources PROVE HandlerOK(h)
  <2>1. handler[h] = NoHandler /\ \A u \in Users : note[<<h, u>>] = NoRow
        BY DEF Init
  <2>2. ~Started(h)
    <3>1. CASE h[1] = 0
          BY <3>1 DEF Init, Started
    <3>2. CASE h[1] # 0
      <4>1. PICK d \in Entries, k \in 1..(MaxFaults + 2) : h = <<d, k>>
            BY <3>2 DEF Sources
      <4>2. started[d] = 0 /\ h[1] = d /\ h[2] = k
            BY <4>1 DEF Init
      <4> QED BY <3>2, <4>2 DEF Started
    <3> QED BY <3>1, <3>2
  <2> QED BY <2>1, <2>2 DEF HandlerOK, Unwritten
<1>7. ASSUME NEW n \in Sources \X Users PROVE RowOK(n)
      BY DEF Init, RowOK
<1> QED BY <1>1, <1>2, <1>3, <1>4, <1>5, <1>6, <1>7 DEF EventsInv

LEMMA EventsInvReach == EventsInv /\ BellInv => EventsReach
<1> SUFFICES ASSUME EventsInv, BellInv PROVE EventsReach
    OBVIOUS
<1>1. MCTypeOK
      BY DEF EventsInv, BellInv, MCTypeOK
<1>2. OncePerFault /\ InOrder
      BY OrderlyInOrder DEF EventsInv, OutboxInv, Counted, OncePerFault
<1>3. PushedIsListed /\ SentWasMailed
  <2>1. \A n \in Sources \X Users : RowOK(n)
        BY DEF EventsInv
  <2>2. pushed \subseteq Sources \X Users
        BY DEF EventsInv, TypeOK
  <2> QED BY <2>1, <2>2 DEF RowOK, PushedIsListed, SentWasMailed
<1>4. EveryoneIsTold
      BY DEF EventsInv, HandlerOK, Told, EveryoneIsTold
<1>5. NoMailForgotten
      BY DEF EventsInv, HandlerOK, NoMailForgotten
<1> QED BY <1>1, <1>2, <1>3, <1>4, <1>5 DEF EventsReach

-----------------------------------------------------------------------------
\* From the stored event to the rows, pushes and mails, for any entries, processes, users
\* and number of faults: an event is published again only for a fault or by another
\* process, in the stored order while nothing fails, everyone it is for is told unless the
\* handler broke, what was pushed can be listed, and no mail is forgotten or called sent
\* before it was handed over (processPending, notify, EmailJobProcessor).
THEOREM EventsAlwaysReach == MCSpec => []EventsReach
<1>1. MCInit => EventsInv /\ BellInv
      BY EventsInit, BellInitInv DEF MCInit
<1>2. EventsInv /\ BellInv /\ [MCNext]_<<vars, bellVars>> => EventsInv' /\ BellInv'
      BY EventsStep, BellInvStep DEF MCNext, BellStep
<1>3. EventsInv /\ BellInv => EventsReach
      BY EventsInvReach
<1> QED BY <1>1, <1>2, <1>3, PTL DEF MCSpec

\* The bell, for any number of notifications and any page size: it counts the unread ones
\* up to a page of them, and what the user has marked does not come back as unread, however
\* the answers of lists and marks overtake each other (notification-bell, listForUser).
THEOREM BellAlwaysTells == MCSpec => []BellTells
<1>1. MCInit => BellInv
      BY BellInitInv DEF MCInit
<1>2. BellInv /\ [MCNext]_<<vars, bellVars>> => BellInv'
      BY BellInvStep DEF MCNext, BellStep
<1>3. BellInv => BellTells
      BY BellInvTells
<1> QED BY <1>1, <1>2, <1>3, PTL DEF MCSpec

\* What handlers, workers and the page do is nothing to Delivery.
LEMMA EventsRefine ==
  EventsInv /\ [MCNext]_<<vars, bellVars>> => [Promise!Next]_(Promise!vars)
<1> SUFFICES ASSUME EventsInv, [MCNext]_<<vars, bellVars>> PROVE [Promise!Next]_(Promise!vars)
    OBVIOUS
<1>0. OutboxInv
      BY DEF EventsInv
<1>1. CASE [OutboxNext]_outboxVars
      BY <1>0, <1>1, RefinementStep
<1>2. ASSUME UNCHANGED <<many, row, published>> PROVE UNCHANGED Promise!vars
      BY <1>2, SameState DEF Promise!vars
<1>3. [OutboxNext]_outboxVars \/ UNCHANGED <<many, row, published>>
  <2>1. ASSUME NEW h \in Sources, HandlerSteps(h) \/ QueueMailFails(h) \/ HandlerBreaks(h)
        PROVE  UNCHANGED <<many, row, published>>
        BY <2>1 DEF HandlerSteps, QueueJob, Notify, MarkInApp, QueueMail, QueueMailFails, HandlerBreaks, outboxVars
  <2>2. ASSUME NEW n \in Sources \X Users, ProcessMail(n) \/ ProcessMailUnwritten(n) \/ MailFails(n) PROVE UNCHANGED <<many, row, published>>
        BY <2>2 DEF ProcessMail, ProcessMailUnwritten, MailFails, outboxVars
  <2>3. ASSUME Emit \/ (\E e \in Entries : Handle(e)) \/ (\E u \in Users : HandleSubscribeUser(u))
        PROVE  UNCHANGED <<many, row, published>>
        BY <2>3 DEF Emit, Handle, HandleSubscribeUser, outboxVars
  <2>4. CASE UNCHANGED vars
        BY <2>4 DEF vars
  <2> QED BY <2>1, <2>2, <2>3, <2>4 DEF MCNext, BellStep, Next
<1> QED BY <1>1, <1>2, <1>3

\* The same refinement with everything attached that the events start: handlers, mails and
\* the page leave the promise of the outbox alone.
THEOREM EventsImplementDelivery == MCSpec => ImplementsDelivery
<1>1. MCInit => EventsInv /\ BellInv
      BY EventsInit, BellInitInv DEF MCInit
<1>2. EventsInv /\ BellInv /\ [MCNext]_<<vars, bellVars>> => EventsInv' /\ BellInv'
      BY EventsStep, BellInvStep DEF MCNext, BellStep
<1>3. MCInit => Promise!Init
      BY RefinementInit DEF MCInit, Init
<1>4. EventsInv /\ [MCNext]_<<vars, bellVars>> => [Promise!Next]_(Promise!vars)
      BY EventsRefine
<1> QED BY <1>1, <1>2, <1>3, <1>4, PTL DEF MCSpec, ImplementsDelivery, Promise!Spec
=============================================================================
