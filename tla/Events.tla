------------------------------- MODULE Events -------------------------------
(***************************************************************************)
(* From an event to its readers: the outbox (module Outbox) or an event    *)
(* emitted in the process (events/domain-event.listener.ts) starts a       *)
(* handler, which stores a notification for each recipient, pushes it to   *)
(* his socket and queues a mail that a worker sends.                       *)
(*                                                                         *)
(* Nobody waits for a handler: when it throws or its process stops, the    *)
(* entry is DONE already and the recipients left are not told.             *)
(***************************************************************************)
EXTENDS Outbox, Sequences

CONSTANTS Customer, Owners, NoHandler, NoRow,
          KindOf,        \* the event of each outbox entry
          Emitted,       \* the event emitted in the process
          Tries,         \* attempts of a mail job (2)
          Scenarios      \* which parts of the model move, see Init

VARIABLES uses,
          emitted,       \* whether the in-process event was emitted
          started,       \* handlers started for each entry
          handler,       \* the handler at work, by what started it
          broken,        \* handlers that threw or were stopped
          note,          \* notifications, by handler and recipient
          online,        \* users with a socket in their room
          pushed,        \* what sockets received: <<handler, user>>
          job,           \* mail jobs
          mailed,        \* mails handed to the provider
          unwritten      \* mails whose outcome could not be written

eventVars == <<uses, emitted, started, handler, broken, note, online, pushed, job, mailed, unwritten>>

vars == <<outboxVars, eventVars>>

Users == {Customer} \cup Owners

NotificationType == {"ORDER_CREATED", "ORDER_PAID", "ORDER_STATUS", "RFQ_AWARDED",
                     "PAYOUT_REQUESTED", "PAYOUT_COMPLETED", "INVITE"}

DeliveryStatus == {"pending", "sent", "failed"}

NotificationRows == [type : NotificationType, inApp : DeliveryStatus, email : DeliveryStatus]

\* A handler runs for a publication of an entry, or for the emitted event.
Sources == (Entries \X (1..(MaxFaults + 2))) \cup {<<0, 0>>}

-----------------------------------------------------------------------------
(* Who is told, by event                                                   *)

OnOrderPaid == [type |-> "ORDER_PAID", to |-> {Customer} \cup Owners]

OnRfqAwarded == [type |-> "RFQ_AWARDED", to |-> {Customer} \cup Owners]

OnPayoutRequested == [type |-> "PAYOUT_REQUESTED", to |-> Owners]

OnPayoutCompleted == [type |-> "PAYOUT_COMPLETED", to |-> Owners]

\* OrderCreatedHandler stores nothing: it queues jobs that are logged, and pushes.
OrderCreated == [type |-> "ORDER_CREATED", to |-> {}]

\* The type follows the new status.
OrderStatusChanged == [type |-> "ORDER_STATUS", to |-> {Customer} \cup Owners]

\* An invited address that has an account already.
TenantInviteCreated == [type |-> "INVITE", to |-> {Customer}]

Announcement(kind) ==
  CASE kind = "order.paid" -> OnOrderPaid
    [] kind = "rfq.awarded" -> OnRfqAwarded
    [] kind = "payout.requested" -> OnPayoutRequested
    [] kind = "payout.completed" -> OnPayoutCompleted
    [] kind = "OrderCreatedEvent" -> OrderCreated
    [] kind = "OrderStatusChangedEvent" -> OrderStatusChanged
    [] kind = "TenantInviteCreatedEvent" -> TenantInviteCreated

\* The events that have a handler which tells users.
EventKinds == {"order.paid", "rfq.awarded", "payout.requested", "payout.completed",
               "OrderCreatedEvent", "OrderStatusChangedEvent", "TenantInviteCreatedEvent"}

Kind(h) == IF h[1] = 0 THEN Emitted ELSE KindOf[h[1]]

To(h) == Announcement(Kind(h)).to

Handlers == [step : {"queue", "create", "inApp", "email"}, todo : SUBSET Users, user : Users]

ASSUME EventsAssumption ==
  /\ KindOf \in [Entries -> EventKinds] /\ Emitted \in EventKinds
  /\ Tries \in Nat \ {0}
  /\ NoHandler \notin Handlers /\ NoRow \notin NotificationRows

Init ==
  /\ OutboxInit
  /\ uses \in Scenarios /\ ("notify" \in uses => ~many)
  /\ "outbox" \notin uses => \A e \in Entries : row[e].known
  /\ emitted = FALSE
  /\ started = [e \in Entries |-> 0]
  /\ handler = [h \in Sources |-> NoHandler]
  /\ broken = {}
  /\ note = [n \in Sources \X Users |-> NoRow]
  /\ online = {}
  /\ pushed = {}
  /\ job = [n \in Sources \X Users |-> 0]
  /\ mailed = [n \in Sources \X Users |-> 0]
  /\ unwritten = {}

-----------------------------------------------------------------------------
(* Handlers                                                                *)

Started(h) == IF h[1] = 0 THEN emitted ELSE h[2] <= started[h[1]]

Start(h) ==
  handler' = [handler EXCEPT ![h] = [step |-> "queue", todo |-> To(h), user |-> Customer]]

\* The event bus calls the handler of a published entry.
Handle(e) ==
  /\ started[e] < published[e] /\ "notify" \in uses
  /\ started' = [started EXCEPT ![e] = @ + 1]
  /\ Start(<<e, started[e] + 1>>)
  /\ UNCHANGED <<outboxVars, uses, emitted, broken, note, online, pushed, job, mailed, unwritten>>

\* DomainEventService.emit
Emit ==
  /\ ~emitted /\ "emit" \in uses
  /\ emitted' = TRUE
  /\ Start(<<0, 0>>)
  /\ UNCHANGED <<outboxVars, uses, started, broken, note, online, pushed, job, mailed, unwritten>>

InStep(h, s) == handler[h] # NoHandler /\ handler[h].step = s

\* The customer comes first, then the shop's owners one by one.
NextRecipient(h) ==
  IF handler[h].todo = {} THEN handler' = [handler EXCEPT ![h] = NoHandler]
  ELSE \E u \in handler[h].todo :
         /\ Customer \in handler[h].todo => u = Customer
         /\ handler' = [handler EXCEPT ![h] =
              [step |-> "create", todo |-> handler[h].todo \ {u}, user |-> u]]

\* A job for the notifications queue, which its worker only logs.
QueueJob(h) ==
  /\ InStep(h, "queue")
  /\ NextRecipient(h)
  /\ UNCHANGED <<outboxVars, uses, emitted, started, broken, note, online, pushed, job, mailed, unwritten>>

\* Mutant: the push comes before the row.
NotifyPushesFirst(h) ==
  LET n == <<h, handler[h].user>> IN
  /\ InStep(h, "create")
  /\ pushed' = IF handler[h].user \in online THEN pushed \cup {n} ELSE pushed
  /\ handler' = [handler EXCEPT ![h].step = "inApp"]
  /\ UNCHANGED <<outboxVars, uses, emitted, started, broken, note, online, job, mailed, unwritten>>

\* notify: the row with a pending delivery for each channel.
Notify(h) ==
  LET n == <<h, handler[h].user>> IN
  /\ InStep(h, "create")
  /\ note' = [note EXCEPT ![n] =
       [type |-> Announcement(Kind(h)).type, inApp |-> "pending", email |-> "pending"]]
  /\ handler' = [handler EXCEPT ![h].step = "inApp"]
  /\ UNCHANGED <<outboxVars, uses, emitted, started, broken, online, pushed, job, mailed, unwritten>>

\* Mutant: the delivery is left as it is.
MarkInAppNot(h) ==
  LET n == <<h, handler[h].user>> IN
  /\ InStep(h, "inApp")
  /\ pushed' = IF handler[h].user \in online THEN pushed \cup {n} ELSE pushed
  /\ handler' = [handler EXCEPT ![h].step = "email"]
  /\ UNCHANGED <<outboxVars, uses, emitted, started, broken, note, online, job, mailed, unwritten>>

\* IN_APP is sent once it is stored; a socket in the room user:<id> gets it.
MarkInApp(h) ==
  LET n == <<h, handler[h].user>> IN
  /\ InStep(h, "inApp")
  /\ note' = [note EXCEPT ![n] = IF @ = NoRow THEN @ ELSE [@ EXCEPT !.inApp = "sent"]]
  /\ pushed' = IF handler[h].user \in online THEN pushed \cup {n} ELSE pushed
  /\ handler' = [handler EXCEPT ![h].step = "email"]
  /\ UNCHANGED <<outboxVars, uses, emitted, started, broken, online, job, mailed, unwritten>>

\* Mutant: the mail counts as sent when it is queued.
QueueMailAsSent(h) ==
  LET n == <<h, handler[h].user>> IN
  /\ InStep(h, "email")
  /\ job' = [job EXCEPT ![n] = Tries]
  /\ note' = [note EXCEPT ![n].email = "sent"]
  /\ NextRecipient(h)
  /\ UNCHANGED <<outboxVars, uses, emitted, started, broken, online, pushed, mailed, unwritten>>

\* Without REDIS_URL there is no queue: the mail is logged and reads sent at once.
QueueMail(h) ==
  LET n == <<h, handler[h].user>> IN
  /\ InStep(h, "email")
  /\ job' = IF "queue" \in uses THEN [job EXCEPT ![n] = Tries] ELSE job
  /\ note' = IF "queue" \in uses THEN note ELSE [note EXCEPT ![n].email = "sent"]
  /\ NextRecipient(h)
  /\ UNCHANGED <<outboxVars, uses, emitted, started, broken, online, pushed, mailed, unwritten>>

\* The user has no address, or the queue does not answer: the error is stored.
QueueMailFails(h) ==
  LET n == <<h, handler[h].user>> IN
  /\ InStep(h, "email") /\ faults < MaxFaults
  /\ faults' = faults + 1
  /\ note' = [note EXCEPT ![n].email = "failed"]
  /\ NextRecipient(h)
  /\ UNCHANGED <<many, row, published, worker, stranded, uses, emitted, started, broken,
                 online, pushed, job, mailed, unwritten>>

\* Any other error, or the end of the process: nobody starts the handler again.
HandlerBreaks(h) ==
  /\ handler[h] # NoHandler /\ faults < MaxFaults
  /\ faults' = faults + 1
  /\ handler' = [handler EXCEPT ![h] = NoHandler]
  /\ broken' = broken \cup {h}
  /\ UNCHANGED <<many, row, published, worker, stranded, uses, emitted, started, note,
                 online, pushed, job, mailed, unwritten>>

-----------------------------------------------------------------------------
(* EmailJobProcessor                                                       *)

\* process: the mail goes out, then the delivery is written.
ProcessMail(n) ==
  /\ job[n] > 0
  /\ mailed' = [mailed EXCEPT ![n] = @ + 1]
  /\ note' = [note EXCEPT ![n].email = "sent"]
  /\ job' = [job EXCEPT ![n] = 0]
  /\ UNCHANGED <<outboxVars, uses, emitted, started, handler, broken, online, pushed, unwritten>>

\* The same, when the write of the delivery throws: that is logged, and the job is done.
ProcessMailUnwritten(n) ==
  /\ job[n] > 0 /\ faults < MaxFaults
  /\ faults' = faults + 1
  /\ mailed' = [mailed EXCEPT ![n] = @ + 1]
  /\ unwritten' = unwritten \cup {n}
  /\ job' = [job EXCEPT ![n] = 0]
  /\ UNCHANGED <<many, row, published, worker, stranded, uses, emitted, started, handler,
                 broken, note, online, pushed>>

\* Mutant: the last failure writes nothing.
MailFailsSilently(n) ==
  /\ job[n] > 0 /\ faults < MaxFaults
  /\ faults' = faults + 1
  /\ \E out \in {0, 1} : mailed' = [mailed EXCEPT ![n] = @ + out]
  /\ job' = [job EXCEPT ![n] = @ - 1]
  /\ note' = note
  /\ UNCHANGED <<many, row, published, worker, stranded, uses, emitted, started, handler,
                 broken, online, pushed, unwritten>>

\* The last failure is written, unless that throws too, which onFailed swallows.
WriteFailure(n) ==
  \/ note' = [note EXCEPT ![n].email = "failed"] /\ unwritten' = unwritten
  \/ note' = note /\ unwritten' = unwritten \cup {n}

\* onFailed, before or after the mail went out: failed only after the last attempt.
MailFails(n) ==
  /\ job[n] > 0 /\ faults < MaxFaults
  /\ faults' = faults + 1
  /\ \E out \in {0, 1} : mailed' = [mailed EXCEPT ![n] = @ + out]
  /\ job' = [job EXCEPT ![n] = @ - 1]
  /\ IF job[n] = 1 THEN WriteFailure(n) ELSE UNCHANGED <<note, unwritten>>
  /\ UNCHANGED <<many, row, published, worker, stranded, uses, emitted, started, handler,
                 broken, online, pushed>>

\* subscribe-user, and the end of a connection.
HandleSubscribeUser(u) ==
  /\ "sockets" \in uses
  /\ online' = IF u \in online THEN online \ {u} ELSE online \cup {u}
  /\ UNCHANGED <<outboxVars, uses, emitted, started, handler, broken, note, pushed, job, mailed, unwritten>>

HandlerSteps(h) ==
  QueueJob(h) \/ Notify(h) \/ MarkInApp(h) \/ QueueMail(h)

Next ==
  \/ "outbox" \in uses /\ OutboxNext /\ UNCHANGED eventVars
  \/ Emit
  \/ \E e \in Entries : Handle(e)
  \/ \E h \in Sources : HandlerSteps(h) \/ QueueMailFails(h) \/ HandlerBreaks(h)
  \/ \E n \in Sources \X Users : ProcessMail(n) \/ ProcessMailUnwritten(n) \/ MailFails(n)
  \/ \E u \in Users : HandleSubscribeUser(u)

Spec == Init /\ [][Next]_vars

\* The processor's timer goes on in every process.
Fairness == \A w \in Processes : WF_vars(ProcessPending(w) /\ UNCHANGED eventVars)

FairSpec == Spec /\ Fairness

-----------------------------------------------------------------------------
(* Properties                                                              *)

\* What the rows of the outbox and of the notifications hold.
TypeOK ==
  /\ OutboxTypeOK
  /\ uses \in Scenarios /\ emitted \in BOOLEAN /\ started \in [Entries -> Nat]
  /\ handler \in [Sources -> Handlers \cup {NoHandler}] /\ broken \subseteq Sources
  /\ note \in [Sources \X Users -> NotificationRows \cup {NoRow}]
  /\ online \subseteq Users /\ pushed \subseteq Sources \X Users
  /\ job \in [Sources \X Users -> 0..Tries] /\ mailed \in [Sources \X Users -> Nat]
  /\ unwritten \subseteq Sources \X Users

\* An entry is published again only because of a fault, or by another process
\* (OutboxProcessor.isRunning and the claim).
OncePerFault == ~many => \A e \in Entries : published[e] <= 1 + faults

\* The first publications of known entries come in the order they were stored in, as long as
\* one process runs and nothing fails (orderBy createdAt).
InOrder ==
  (~many /\ faults = 0) =>
    \A e, f \in Entries : (e < f /\ published[f] > 0 /\ row[e].known) => published[e] > 0

\* Every stored entry is DONE or FAILED in the end, unless a processor stopped and
\* left it PROCESSING.
EntriesSettle ==
  \A e \in Entries :
    (row[e].status = "PENDING") ~> (row[e].status \in {"DONE", "FAILED"} \/ e \in stranded)

\* What a socket receives can be listed: its row was stored before the push.
PushedIsListed == \A n \in pushed : note[n] # NoRow

\* Where there is a queue, a mail that reads sent was handed to the provider; without
\* one notify calls it sent and nobody was given it.
SentWasMailed ==
  "queue" \in uses =>
    \A n \in Sources \X Users : (note[n] # NoRow /\ note[n].email = "sent") => mailed[n] > 0

\* When a handler is done, everyone its event is for has been told in the application,
\* unless it broke.
EveryoneIsTold ==
  \A h \in Sources :
    (Started(h) /\ handler[h] = NoHandler /\ h \notin broken) =>
      \A u \in To(h) : note[<<h, u>>] # NoRow /\ note[<<h, u>>].inApp = "sent"

\* A mail that is still pending has a job, or a handler about to queue it, unless that
\* broke or the write of the outcome threw: after the last attempt it reads failed.
NoMailForgotten ==
  \A h \in Sources, u \in Users :
    (note[<<h, u>>] # NoRow /\ note[<<h, u>>].email = "pending") =>
      \/ job[<<h, u>>] > 0 \/ h \in broken \/ <<h, u>> \in unwritten
      \/ handler[h] # NoHandler /\ handler[h].user = u
=============================================================================
