------------------------------- MODULE Import -------------------------------
(***************************************************************************)
(* Import of products from a file (merchant-products.service): upload and  *)
(* preview, confirmation, and the run that creates one product per valid   *)
(* row - a job of the imports queue, or inline in the request that         *)
(* confirms where there is no Redis.                                       *)
(***************************************************************************)
EXTENDS Integers, FiniteSetsExt, Functions

CONSTANTS Rows,          \* function from row numbers to [sku, good]; sku 0: none
          Clients,       \* requests that may confirm at once
          ImportTries,   \* attempts of an import job (2)
          MaxPreviews,   \* bound on previews after the first
          MaxImportFaults

\* A file has finitely many rows, read in the order of their numbers.
ASSUME ImportAssumption ==
  /\ IsFiniteSet(DOMAIN Rows) /\ DOMAIN Rows \subseteq Nat
  /\ \A r \in DOMAIN Rows : Rows[r].sku \in Nat /\ Rows[r].good \in BOOLEAN
  /\ "worker" \notin Clients

VARIABLES offline,   \* no Redis
          importStatus,    \* of the ProductImportJob, "none" before the upload
          made,      \* products created from each row
          taken,     \* SKUs the merchant has used for other products
          importJob, \* the queue's job for this import, by its id
          confirming,\* step of each request that confirms
          run,       \* the run of each request and of the worker
          previews, troubles,
          raced,     \* two runs, or a run and the merchant, were at it at once
          rowsLost,  \* rows whose creation failed
          forgotten  \* how often the queue removed the finished job

importVars == <<offline, importStatus, made, taken, importJob, confirming, run, previews, troubles, raced, rowsLost, forgotten>>

RowNumbers == DOMAIN Rows

ImportStatus == {"none", "uploaded", "validated", "queued", "processing", "completed", "failed"}

Runners == Clients \cup {"worker"}

Skus == {Rows[r].sku : r \in RowNumbers} \ {0}

Existing == taken \cup {Rows[r].sku : r \in {q \in RowNumbers : made[q] > 0}}

\* Mutant: only the rows of the file are compared.
ValidRowsOfFile(existing) ==
  {r \in RowNumbers : Rows[r].good /\ \A q \in RowNumbers : q < r => Rows[q].sku # Rows[r].sku}

\* parseAndValidateCsv: a row needs a name and a price, and a SKU no product and no
\* earlier row of the file has, not even one that is refused itself.
ValidRows(existing) ==
  {r \in RowNumbers :
     /\ Rows[r].good
     /\ \/ Rows[r].sku = 0
        \/ /\ Rows[r].sku \notin existing
           /\ \A q \in RowNumbers : q < r => Rows[q].sku # Rows[r].sku}

Idle == [step |-> "idle", left |-> {}]

ImportInit ==
  /\ offline \in BOOLEAN
  /\ importStatus = "none"
  /\ made = [r \in RowNumbers |-> 0]
  /\ taken = {}
  /\ importJob = [state |-> "none", tries |-> 0]
  /\ confirming = [c \in Clients |-> "idle"]
  /\ run = [r \in Runners |-> Idle]
  /\ previews = 0 /\ troubles = 0
  /\ raced = FALSE /\ rowsLost = {} /\ forgotten = 0

-----------------------------------------------------------------------------
\* uploadImport, which previews at once.
UploadImport ==
  /\ importStatus = "none"
  /\ importStatus' = "validated"
  /\ UNCHANGED <<offline, made, taken, importJob, confirming, run, previews, troubles, raced, rowsLost, forgotten>>

\* previewImport: "validated" whatever its status is.
PreviewImport ==
  /\ importStatus # "none"
  /\ previews < MaxPreviews /\ previews' = previews + 1
  /\ importStatus' = "validated"
  /\ UNCHANGED <<offline, made, taken, importJob, confirming, run, troubles, raced, rowsLost, forgotten>>

\* confirmImport: the status is read, "queued" is written, the job is added.
ConfirmImport(c) ==
  /\ confirming[c] = "idle" /\ run[c] = Idle
  /\ importStatus \in {"validated", "uploaded"}
  /\ confirming' = [confirming EXCEPT ![c] = "write"]
  /\ UNCHANGED <<offline, importStatus, made, taken, importJob, run, previews, troubles, raced, rowsLost, forgotten>>

ConfirmWrites(c) ==
  /\ confirming[c] = "write"
  /\ importStatus' = "queued"
  /\ confirming' = [confirming EXCEPT ![c] = "add"]
  /\ UNCHANGED <<offline, made, taken, importJob, run, previews, troubles, raced, rowsLost, forgotten>>

\* Mutant: the request answers before it adds the job.
EnqueueImportNever(c) ==
  /\ confirming[c] = "add"
  /\ confirming' = [confirming EXCEPT ![c] = "idle"]
  /\ UNCHANGED <<offline, importStatus, made, taken, importJob, run, previews, troubles, raced, rowsLost, forgotten>>

\* Mutant: every confirmation adds a job.
AddedAnew == [state |-> "waiting", tries |-> 0]

\* add does nothing while the queue has a job of that id, finished ones it keeps included.
Added == IF importJob.state = "none" THEN [state |-> "waiting", tries |-> 0] ELSE importJob

EnqueueImport(c) ==
  /\ confirming[c] = "add"
  /\ confirming' = [confirming EXCEPT ![c] = IF offline THEN "run" ELSE "idle"]
  /\ importJob' = IF offline THEN importJob ELSE Added
  /\ UNCHANGED <<offline, importStatus, made, taken, run, previews, troubles, raced, rowsLost, forgotten>>

\* The process stops, or Redis does not answer, between the two writes of a confirmation:
\* the import is queued and has no job, and cannot be confirmed again.
ConfirmStops(c) ==
  /\ confirming[c] # "idle"
  /\ troubles < MaxImportFaults /\ troubles' = troubles + 1
  /\ confirming' = [confirming EXCEPT ![c] = "idle"]
  /\ UNCHANGED <<offline, importStatus, made, taken, importJob, run, previews, raced, rowsLost, forgotten>>

\* removeOnComplete, removeOnFail: of the finished jobs the queue keeps the last ones.
ForgetJob ==
  /\ importJob.state \in {"completed", "failed"}
  /\ importJob' = [state |-> "none", tries |-> 0]
  /\ forgotten' = forgotten + 1
  /\ UNCHANGED <<offline, importStatus, made, taken, confirming, run, previews, troubles, raced, rowsLost>>

-----------------------------------------------------------------------------
InRun(r) == run[r] # Idle

\* processImportJob: reads the job, the file and the SKUs in use.
Parses(r) ==
  /\ ~InRun(r)
  /\ run' = [run EXCEPT ![r] = IF importStatus = "completed" THEN [step |-> "end", left |-> {}]
                                ELSE [step |-> "mark", left |-> ValidRows(Existing)]]
  /\ raced' = (raced \/ \E q \in Runners \ {r} : InRun(q))

StartInline(c) ==
  /\ confirming[c] = "run"
  /\ Parses(c)
  /\ confirming' = [confirming EXCEPT ![c] = "idle"]
  /\ UNCHANGED <<offline, importStatus, made, taken, importJob, previews, troubles, rowsLost, forgotten>>

TakeImport ==
  /\ importJob.state \in {"waiting", "delayed"}
  /\ importJob' = [importJob EXCEPT !.state = "active"]
  /\ Parses("worker")
  /\ UNCHANGED <<offline, importStatus, made, taken, confirming, previews, troubles, rowsLost, forgotten>>

MarkProcessing(r) ==
  /\ run[r].step = "mark"
  /\ importStatus' = "processing"
  /\ run' = [run EXCEPT ![r].step = "rows"]
  /\ UNCHANGED <<offline, made, taken, importJob, confirming, previews, troubles, raced, rowsLost, forgotten>>

NextRow(r) == Min(run[r].left)

\* A product of the next row, ACTIVE whatever the shop is, and its search job.
CreateRow(r) ==
  /\ run[r].step = "rows" /\ run[r].left # {}
  /\ made' = [made EXCEPT ![NextRow(r)] = @ + 1]
  /\ run' = [run EXCEPT ![r].left = @ \ {NextRow(r)}]
  /\ UNCHANGED <<offline, importStatus, taken, importJob, confirming, previews, troubles, raced, rowsLost, forgotten>>

\* The creation of a row throws: the error is noted, the next row follows.
RowFails(r) ==
  /\ run[r].step = "rows" /\ run[r].left # {}
  /\ troubles < MaxImportFaults /\ troubles' = troubles + 1
  /\ rowsLost' = rowsLost \cup {NextRow(r)}
  /\ run' = [run EXCEPT ![r].left = @ \ {NextRow(r)}]
  /\ UNCHANGED <<offline, importStatus, made, taken, importJob, confirming, previews, raced, forgotten>>

EndRun(r, state) ==
  /\ run' = [run EXCEPT ![r] = Idle]
  /\ importJob' = IF r = "worker" THEN [importJob EXCEPT !.state = state] ELSE importJob

\* Mutant: the job is complete after a row.
CompletesEarly(r) ==
  /\ run[r].step = "rows"
  /\ importStatus' = "completed"
  /\ EndRun(r, "completed")
  /\ UNCHANGED <<offline, made, taken, confirming, previews, troubles, raced, rowsLost, forgotten>>

Completes(r) ==
  /\ run[r].step = "rows" /\ run[r].left = {}
  /\ importStatus' = "completed"
  /\ EndRun(r, "completed")
  /\ UNCHANGED <<offline, made, taken, confirming, previews, troubles, raced, rowsLost, forgotten>>

\* The job was complete already.
Ends(r) ==
  /\ run[r].step = "end"
  /\ EndRun(r, "completed")
  /\ UNCHANGED <<offline, importStatus, made, taken, confirming, previews, troubles, raced, rowsLost, forgotten>>

Retried == IF importJob.tries + 1 < ImportTries THEN "delayed" ELSE "failed"

\* A write throws or the process stops; the queue tries the job again.
Interrupted(r) ==
  /\ InRun(r)
  /\ troubles < MaxImportFaults /\ troubles' = troubles + 1
  /\ run' = [run EXCEPT ![r] = Idle]
  /\ importJob' = IF r = "worker" THEN [state |-> Retried, tries |-> importJob.tries + 1] ELSE importJob
  /\ UNCHANGED <<offline, importStatus, made, taken, confirming, previews, raced, rowsLost, forgotten>>

\* The file is not on this process's disk.
FileMissing ==
  /\ importJob.state \in {"waiting", "delayed"} /\ importStatus # "completed"
  /\ troubles < MaxImportFaults /\ troubles' = troubles + 1
  /\ importStatus' = "failed"
  /\ importJob' = [state |-> Retried, tries |-> importJob.tries + 1]
  /\ UNCHANGED <<offline, made, taken, confirming, run, previews, raced, rowsLost, forgotten>>

\* The same in the request that confirms, which answers with the error.
FileMissingInline(c) ==
  /\ confirming[c] = "run" /\ importStatus # "completed"
  /\ troubles < MaxImportFaults /\ troubles' = troubles + 1
  /\ importStatus' = "failed"
  /\ confirming' = [confirming EXCEPT ![c] = "idle"]
  /\ UNCHANGED <<offline, made, taken, importJob, run, previews, raced, rowsLost, forgotten>>

\* create with a SKU: refused when a product has it.
CreateWithSku(k) ==
  /\ k \notin Existing
  /\ taken' = taken \cup {k}
  /\ raced' = (raced \/ \E r \in Runners : \E q \in run[r].left : Rows[q].sku = k)
  /\ UNCHANGED <<offline, importStatus, made, importJob, confirming, run, previews, troubles, rowsLost, forgotten>>

ImportRun(r) == MarkProcessing(r) \/ CreateRow(r) \/ Completes(r) \/ Ends(r)

ImportNext ==
  \/ UploadImport \/ PreviewImport
  \/ \E c \in Clients : ConfirmImport(c) \/ ConfirmWrites(c) \/ EnqueueImport(c) \/ StartInline(c)
                       \/ FileMissingInline(c) \/ ConfirmStops(c)
  \/ ForgetJob \/ TakeImport \/ FileMissing
  \/ \E r \in Runners : ImportRun(r) \/ RowFails(r) \/ Interrupted(r)
  \/ \E k \in Skus : CreateWithSku(k)

ImportSpec == ImportInit /\ [][ImportNext]_importVars

\* The worker takes what waits and goes on; requests that confirm finish their calls.
ImportFairness ==
  /\ WF_importVars(TakeImport)
  /\ \A r \in Runners : WF_importVars(ImportRun(r))
  /\ \A c \in Clients : WF_importVars(ConfirmWrites(c) \/ EnqueueImport(c) \/ StartInline(c))

-----------------------------------------------------------------------------
ImportTypeOK ==
  /\ offline \in BOOLEAN /\ raced \in BOOLEAN
  /\ importStatus \in ImportStatus
  /\ made \in [RowNumbers -> Nat]
  /\ taken \subseteq Skus /\ rowsLost \subseteq RowNumbers
  /\ run \in [Runners -> [step : {"idle", "mark", "rows", "end"}, left : SUBSET RowNumbers]]
  /\ importJob.state \in {"none", "waiting", "delayed", "active", "completed", "failed"}

ProductsWithSku(k) ==
  Cardinality(taken \cap {k}) + SumFunctionOnSet(made, {r \in RowNumbers : Rows[r].sku = k})

\* A SKU is given to one product, however often the import is interrupted, retried,
\* previewed and confirmed again (parseAndValidateCsv reads the SKUs in use at every
\* run) - unless two runs, or a run and the merchant, are at it at once.
SkuOnce == ~raced => \A k \in Skus : ProductsWithSku(k) <= 1

\* With the queue, an import that nothing interrupts creates each row once for as long as
\* the queue keeps its job, even when it is confirmed twice or again while it runs (the
\* job's id in enqueueImport).  Confirmed again after the queue has removed the finished
\* job, it creates the rows without a SKU once more.
RowsOnce == ~offline /\ troubles = 0 => \A r \in RowNumbers : made[r] <= forgotten + 1

\* A completed import has a product for every valid row (processImportJob), but for rows
\* whose creation failed.
CompletedIsWhole ==
  importStatus = "completed" => \A r \in ValidRows(taken) : made[r] > 0 \/ r \in rowsLost

\* After a fault there is neither a job nor a request that would add one.
CutOff == troubles > 0 /\ importJob.state = "none" /\ \A c \in Clients : confirming[c] = "idle"

\* Once an import is confirmed, its valid rows get their products (confirmImport): the
\* job runs, and runs again after an interruption - unless the queue has given it up, it
\* ran in the request itself and nothing tries it again, or the confirmation was cut off
\* between its two writes.
RowsArrive ==
  importStatus = "queued" ~>
    \/ \A r \in ValidRows(taken) : made[r] > 0 \/ r \in rowsLost
    \/ importJob.state = "failed" \/ (offline /\ troubles > 0) \/ CutOff

\* An import makes each product once and is complete when it says so.
ImportedOnce == SkuOnce /\ RowsOnce /\ CompletedIsWhole
=============================================================================
