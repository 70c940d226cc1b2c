-------------------------------- MODULE Bell --------------------------------
(***************************************************************************)
(* The notifications of one user on his page: notification-bell.tsx, which *)
(* asks for the list every 30 seconds and after each change of its own,    *)
(* and the routes it calls (notifications.service).  Pushes to the socket  *)
(* do not reach the bell.                                                  *)
(***************************************************************************)
EXTENDS Integers, FiniteSets, FiniteSetsExt

CONSTANTS Notes,          \* notifications 1..n, in the order of their creation
          PageSize,       \* length of a page (50)
          MaxMarks,       \* bound on the clicks
          MaxBellFaults   \* bound on the requests that fail

ASSUME BellAssumption ==
  PageSize \in Nat \ {0} /\ Notes \subseteq Nat /\ IsFiniteSet(Notes)

VARIABLES inbox,     \* Notification rows: isRead
          loaded,    \* what the rows were when the list on the page was read
          fetch,     \* the query: idle, asked, or answered with what it has read
          mark,      \* a click under way: 0 for all, a note, or none
          settled,   \* notes whose mark was answered, and the list asked for since then came
          pending,   \* notes whose mark was answered since the list was last asked for
          marks, bellFaults

bellVars == <<inbox, loaded, fetch, mark, settled, pending, marks, bellFaults>>

Reads == {"none", "unread", "read"}

Empty == [n \in Notes |-> "none"]

NoFetch == [step |-> "idle", rows |-> Empty]

NoMark == [step |-> "idle", what |-> {}]

BellInit ==
  /\ inbox = Empty /\ loaded = Empty
  /\ fetch = NoFetch /\ mark = NoMark
  /\ settled = {} /\ pending = {} /\ marks = 0 /\ bellFaults = 0

-----------------------------------------------------------------------------
Stored(rows) == {n \in Notes : rows[n] # "none"}

Unread(rows) == {n \in Notes : rows[n] = "unread"}

\* Mutant: newest first.
BeforeNewest(rows, m, n) == m > n

\* The order of listForUser: unread first, then newest.
Before(rows, m, n) == IF rows[m] = rows[n] THEN m > n ELSE rows[m] = "unread"

\* The first page of the list.
Page(rows) ==
  {n \in Stored(rows) : Cardinality({m \in Stored(rows) : Before(rows, m, n)}) < PageSize}

\* What the bell counts.
UnreadCount == Cardinality(Page(loaded) \cap Unread(loaded))

\* A notification is stored (notify).
StoreNote ==
  /\ Stored(inbox) # Notes
  /\ inbox' = [inbox EXCEPT ![Min(Notes \ Stored(inbox))] = "unread"]
  /\ UNCHANGED <<loaded, fetch, mark, settled, pending, marks, bellFaults>>

\* Mutant: the list is asked for once.
PollOnce ==
  /\ fetch.step = "idle" /\ loaded = Empty
  /\ fetch' = [NoFetch EXCEPT !.step = "asked"]
  /\ UNCHANGED <<inbox, loaded, mark, settled, pending, marks, bellFaults>>

\* refetchInterval, unless a request is under way.
Poll ==
  /\ fetch.step = "idle"
  /\ fetch' = [NoFetch EXCEPT !.step = "asked"]
  /\ UNCHANGED <<inbox, loaded, mark, settled, pending, marks, bellFaults>>

ListForUser ==
  /\ fetch.step = "asked"
  /\ fetch' = [step |-> "answered", rows |-> inbox]
  /\ UNCHANGED <<inbox, loaded, mark, settled, pending, marks, bellFaults>>

\* The answer replaces the list.
Load ==
  /\ fetch.step = "answered"
  /\ loaded' = fetch.rows /\ fetch' = NoFetch
  /\ settled' = settled \cup pending /\ pending' = {}
  /\ UNCHANGED <<inbox, mark, marks, bellFaults>>

\* The list stays as it was until the next answer.
FetchFails ==
  /\ fetch.step # "idle" /\ bellFaults < MaxBellFaults
  /\ fetch' = NoFetch /\ bellFaults' = bellFaults + 1
  /\ UNCHANGED <<inbox, loaded, mark, settled, pending, marks>>

\* A click on one unread notification of the page, or on "mark all".
Click(what) ==
  /\ mark = NoMark /\ marks < MaxMarks
  /\ UnreadCount > 0
  /\ what = Notes \/ what \subseteq Page(loaded) \cap Unread(loaded)
  /\ mark' = [step |-> "sent", what |-> what] /\ marks' = marks + 1
  /\ UNCHANGED <<inbox, loaded, fetch, settled, pending, bellFaults>>

\* markAsRead and markAllAsRead: all that are there by now, on the page or not.
MarkAsRead ==
  /\ mark.step = "sent"
  /\ inbox' = [n \in Notes |-> IF n \in mark.what /\ inbox[n] = "unread" THEN "read" ELSE inbox[n]]
  /\ mark' = [step |-> "done", what |-> mark.what \cap Stored(inbox)]
  /\ UNCHANGED <<loaded, fetch, settled, pending, marks, bellFaults>>

\* The same routes, called by another device of the user.
MarkElsewhere(n) ==
  /\ inbox[n] = "unread"
  /\ inbox' = [inbox EXCEPT ![n] = "read"]
  /\ UNCHANGED <<loaded, fetch, mark, settled, pending, marks, bellFaults>>

\* Mutant: a request under way is left to bring the list.
MarkedNoRefetch ==
  /\ mark.step = "done"
  /\ fetch' = IF fetch.step = "idle" THEN [NoFetch EXCEPT !.step = "asked"] ELSE fetch
  /\ pending' = pending \cup mark.what
  /\ mark' = NoMark
  /\ UNCHANGED <<inbox, loaded, settled, marks, bellFaults>>

\* onSuccess: invalidateQueries gives up the request under way and asks anew.
Marked ==
  /\ mark.step = "done"
  /\ fetch' = [NoFetch EXCEPT !.step = "asked"]
  /\ pending' = pending \cup mark.what
  /\ mark' = NoMark
  /\ UNCHANGED <<inbox, loaded, settled, marks, bellFaults>>

\* Without onSuccess the list is not asked for.
MarkFails ==
  /\ mark # NoMark /\ bellFaults < MaxBellFaults
  /\ mark' = NoMark /\ bellFaults' = bellFaults + 1
  /\ UNCHANGED <<inbox, loaded, fetch, settled, pending, marks>>

NotificationRoutes == ListForUser \/ MarkAsRead \/ \E n \in Notes : MarkElsewhere(n)

BellNext ==
  \/ StoreNote \/ Poll \/ Load \/ FetchFails \/ Marked \/ MarkFails \/ NotificationRoutes
  \/ \E what \in {{n} : n \in Notes} \cup {Notes} : Click(what)

-----------------------------------------------------------------------------
BellTypeOK ==
  /\ inbox \in [Notes -> Reads] /\ loaded \in [Notes -> Reads]
  /\ fetch \in [step : {"idle", "asked", "answered"}, rows : [Notes -> Reads]]
  /\ mark \in [step : {"idle", "sent", "done"}, what : SUBSET Notes]

\* The bell counts every unread notification there was when its list was read, up to a
\* page of them, however many newer ones have been read (the order of listForUser).
BadgeCounts == UnreadCount = Min({Cardinality(Unread(loaded)), PageSize})

\* What the user has marked, and was told so, is not shown as unread once the list is
\* there again, although a list read before the mark may have been under way
\* (markAsRead and markAllAsRead with invalidateQueries).
MarkedIsShown == settled \cap Unread(loaded) = {}

\* Every notification is shown in the end, or read elsewhere, unless more than a page
\* of them is unread (refetchInterval).
NoteIsShown ==
  \A n \in Notes :
    (inbox[n] = "unread") ~> (n \in Page(loaded) \/ inbox[n] = "read" \/ Cardinality(Unread(inbox)) > PageSize)

\* The bell shows what there was to show, and nothing the user has marked.
BellTells == BadgeCounts /\ MarkedIsShown
=============================================================================
