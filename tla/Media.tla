------------------------------- MODULE Media --------------------------------
(***************************************************************************)
(* Uploaded files: what is accepted (file-security, virus-scan), where an  *)
(* object is put (storage.service), and the rows that own it: MediaAsset   *)
(* (media.service), ProductDocument (catalog.service), and the branding of *)
(* one Tenant (update-tenant-branding).  A row is named by the storage key *)
(* it holds.                                                               *)
(***************************************************************************)
EXTENDS Integers, FiniteSets, FiniteSetsExt

CONSTANTS Keys,            \* storage keys 1..n, drawn in order (randomUUID)
          Files,           \* files that clients send
          Uploaders,       \* requests that may run at once
          MaxMediaFaults   \* bound on crashes and failing deletions

Contents == {"jpeg", "gif", "svg", "pdf", "text", "exe"}

\* A file has a name, a type that its client declares, and contents that a scan judges.
FileRows == [ext : STRING, declared : STRING, content : Contents, size : Nat, scan : STRING]

\* Key 0 is none.
ASSUME MediaAssumption == Keys \subseteq Nat \ {0} /\ Files \subseteq FileRows

VARIABLES object,   \* storage
          media,    \* row of each key: a MediaAsset's visibility, "document", or a column of the tenant
          task,     \* requests in progress; kyc is the KycDocument they are about, or 0
          spent,    \* keys drawn so far
          broken,   \* keys left behind: an upload or deletion was cut short, a logo was replaced
          mediaFaults

mediaVars == <<object, media, task, spent, broken, mediaFaults>>

Images == {"jpeg", "gif"}

\* MAX_SIZES, in half megabytes, and the limits of the branding's two files.
MaxSizes == [image |-> 10, document |-> 20, kyc |-> 20, csv |-> 40, media |-> 20, logo |-> 4, favicon |-> 1]

\* ALLOWED_MIME: what the content may be.
Allowed(kind) ==
  CASE kind = "image"             -> Images
    [] kind \in {"document", "kyc"} -> {"jpeg", "pdf"}
    [] kind = "csv"               -> {"text"}
    [] OTHER                      -> Images \cup {"pdf"}

Dangerous == {"exe", "html"}

\* The extensions a kind may have; a name without one is judged by its content.
Extensions(kind) == {"none"} \cup IF kind = "csv" THEN {"text"} ELSE Allowed(kind)

\* What the first bytes tell: nothing for text.
DetectMagicMime(f) == IF f.content = "text" THEN "none" ELSE f.content

\* clamd answers OK; an unexpected answer, or none, refuses the file.
ScanBuffer(f) == f.scan \in {"OK", "disabled"}

\* validateUploadedFile and assertSafe
AssertSafe(f, kind) ==
  /\ f.size > 0 /\ f.size <= MaxSizes[kind]
  /\ f.ext \notin Dangerous
  /\ f.ext \in Extensions(kind)
  /\ IF kind = "csv" THEN DetectMagicMime(f) = "none"
     ELSE DetectMagicMime(f) \in Allowed(kind) /\ f.declared \notin Dangerous
  /\ ScanBuffer(f)

\* Mutant: the declared type stays.
ApplySafeMetaNot(f) == f

\* applySafeMeta: from here on the file has the type of its content.
ApplySafeMeta(f) == [f EXCEPT !.declared = f.content]

Visibility == {"PUBLIC", "PRIVATE", "KYC"}

\* create of media.service: visibility, and the kind of check.
VisibilityOf(entity, asked) ==
  CASE entity = "kyc"                       -> "KYC"
    [] entity = "product" /\ asked = "none" -> "PUBLIC"
    [] entity \notin {"kyc", "product"} /\ asked = "none" -> "PRIVATE"
    [] OTHER                                -> asked

KindOf(visibility, f) ==
  IF visibility = "KYC" THEN "kyc" ELSE IF f.declared \in Images \cup {"svg"} THEN "image" ELSE "media"

NoObject == [area |-> "none", content |-> "none", ext |-> "none"]

\* uploadImage, and the images of uploadPrivate: converted to WebP.
WebP(area) == [area |-> area, content |-> "webp", ext |-> "webp"]

\* Mutant: the prefix is forgotten.
UploadPrivateUnprefixed(f) ==
  IF f.declared \in Images THEN WebP("public")
  ELSE [area |-> "public", content |-> f.content, ext |-> IF f.declared = "pdf" THEN "pdf" ELSE f.ext]

\* uploadPrivate: an image is converted; otherwise the extension follows the type, then the name.
UploadPrivate(f) ==
  IF f.declared \in Images THEN WebP("private")
  ELSE [area |-> "private", content |-> f.content, ext |-> IF f.declared = "pdf" THEN "pdf" ELSE f.ext]

\* uploadFile: the extension of a PDF, or the one in the name if it is among those known.
UploadFile(f, area) ==
  [area |-> area, content |-> f.content,
   ext |-> IF f.declared = "pdf" THEN "pdf" ELSE IF f.ext \in {"pdf", "text", "webp"} \cup Images THEN f.ext ELSE "none"]

\* isImage, by the content.
UploadPublic(f, content) == IF content \in Images THEN WebP("public") ELSE UploadFile(f, "public")

\* toPublicUrl: none for a private key.
ToPublicUrl(k) == IF object[k].area \in {"public", "branding"} THEN "url" ELSE "none"

\* The objects a file becomes are among these; branding is a folder of the public ones.
Objects == [area : {"public", "private", "branding"}, content : {"webp"} \cup Contents,
            ext : {"webp", "pdf", "none", "text"} \cup Images]

\* The columns of the tenant's row that hold the address of a file.
Branding == {"logo", "favicon"}

Idle == [step |-> "idle", key |-> 0, put |-> NoObject, row |-> "none", kyc |-> 0]

MediaInit ==
  /\ object = [k \in Keys |-> NoObject]
  /\ media = [k \in Keys |-> "none"]
  /\ task = [u \in Uploaders |-> Idle]
  /\ spent = {} /\ broken = {} /\ mediaFaults = 0

-----------------------------------------------------------------------------
\* A request with an accepted file: first the object, then the row.
Uploads(u, put, row, kyc) ==
  /\ task[u] = Idle /\ spent # Keys
  /\ LET k == Min(Keys \ spent)
     IN  /\ spent' = spent \cup {k}
         /\ task' = [task EXCEPT ![u] = [step |-> "put", key |-> k, put |-> put, row |-> row, kyc |-> kyc]]
  /\ UNCHANGED <<object, media, broken, mediaFaults>>

\* POST /media, and the legacy upload by folder.
Create(u, f, entity, asked) ==
  LET visibility == VisibilityOf(entity, asked)
      safe       == ApplySafeMeta(f)
  IN  /\ AssertSafe(f, KindOf(visibility, f))
      /\ Uploads(u, IF visibility = "PUBLIC" THEN UploadPublic(safe, f.content) ELSE UploadPrivate(safe),
                 visibility, 0)

AddProductDocument(u, f) ==
  /\ AssertSafe(f, "document")
  /\ Uploads(u, UploadPublic(ApplySafeMeta(f), f.content), "document", 0)

\* The files of update-tenant-branding, one in a request.  Their names and contents are not
\* checked, only the declared type: an image is converted, which fails when it is none; a
\* favicon declared as an SVG or an ICO (svg) is kept as it was sent.
UploadBranding(u, f, column) ==
  /\ f.declared \in {"jpeg", "svg"} /\ f.size > 0 /\ f.size <= MaxSizes[column]
  /\ \/ column = "favicon" /\ f.declared = "svg" /\ Uploads(u, UploadFile(f, "branding"), column, 0)
     \/ /\ ~(column = "favicon" /\ f.declared = "svg")
        /\ f.content \in Images \cup {"svg"} /\ Uploads(u, WebP("branding"), column, 0)

\* The tenant's row without a file in this column: what it held stays in storage.
Replaced(column) == {k \in Keys : media[k] = column}

\* An address given as text takes a file's place.
SetBrandingUrl(u, column) ==
  /\ task[u] = Idle /\ Replaced(column) # {}
  /\ media' = [k \in Keys |-> IF k \in Replaced(column) THEN "none" ELSE media[k]]
  /\ broken' = broken \cup Replaced(column)
  /\ UNCHANGED <<object, task, spent, mediaFaults>>

\* Mutant: the row comes first.
PutObjectLater(u) ==
  /\ task[u].step = "put"
  /\ task' = [task EXCEPT ![u].step = "row"]
  /\ UNCHANGED <<object, media, spent, broken, mediaFaults>>

\* putLocal, or PutObjectCommand.
PutObject(u) ==
  /\ task[u].step = "put"
  /\ object' = [object EXCEPT ![task[u].key] = task[u].put]
  /\ task' = [task EXCEPT ![u].step = "row"]
  /\ UNCHANGED <<media, spent, broken, mediaFaults>>

CreateRow(u) ==
  /\ task[u].step = "row" /\ task[u].row \notin Branding
  /\ media' = [media EXCEPT ![task[u].key] = task[u].row]
  /\ task' = [task EXCEPT ![u] = IF @.kyc # 0 THEN [@ EXCEPT !.step = "doc"] ELSE Idle]
  /\ UNCHANGED <<object, spent, broken, mediaFaults>>

\* The tenant's row takes the new address.
WriteBranding(u) ==
  /\ task[u].step = "row" /\ task[u].row \in Branding
  /\ media' = [k \in Keys |-> IF k = task[u].key THEN task[u].row
                             ELSE IF k \in Replaced(task[u].row) THEN "none" ELSE media[k]]
  /\ broken' = broken \cup Replaced(task[u].row)
  /\ task' = [task EXCEPT ![u] = Idle]
  /\ UNCHANGED <<object, spent, mediaFaults>>

\* The favicon beside a stored logo is unfit, or the domain is taken: the object stays.
RefuseBranding(u) ==
  /\ task[u].step = "row" /\ task[u].row \in Branding
  /\ broken' = broken \cup {task[u].key}
  /\ task' = [task EXCEPT ![u] = Idle]
  /\ UNCHANGED <<object, media, spent, mediaFaults>>

\* delete of media.service, or deleteProductDocument: the row is read, the object goes first.
Delete(u, k) ==
  /\ task[u] = Idle /\ media[k] \notin {"none"} \cup Branding
  /\ task' = [task EXCEPT ![u] = [Idle EXCEPT !.step = "remove", !.key = k]]
  /\ UNCHANGED <<object, media, spent, broken, mediaFaults>>

\* deleteImage only logs an error: the object may stay.
DeleteImage(u) ==
  /\ task[u].step = "remove"
  /\ task' = [task EXCEPT ![u].step = IF task[u].kyc # 0 THEN "unlink" ELSE "drop"]
  /\ \/ object' = [object EXCEPT ![task[u].key] = NoObject] /\ UNCHANGED <<broken, mediaFaults>>
     \/ /\ mediaFaults < MaxMediaFaults /\ mediaFaults' = mediaFaults + 1
        /\ broken' = broken \cup {task[u].key}
        /\ UNCHANGED object
  /\ UNCHANGED <<media, spent>>

\* A row that another request has deleted meanwhile ends the request with an error.
DropRow(u) ==
  /\ task[u].step = "drop"
  /\ media' = [media EXCEPT ![task[u].key] = "none"]
  /\ task' = [task EXCEPT ![u] = IF @.kyc # 0 THEN [@ EXCEPT !.step = "dropdoc"] ELSE Idle]
  /\ UNCHANGED <<object, spent, broken, mediaFaults>>

\* The process stops, or a write throws, in the middle of a request.
Stops(u) ==
  /\ task[u] # Idle
  /\ mediaFaults < MaxMediaFaults /\ mediaFaults' = mediaFaults + 1
  /\ broken' = broken \cup ({task[u].key} \ {0})
  /\ task' = [task EXCEPT ![u] = Idle]
  /\ UNCHANGED <<object, media, spent>>

MediaRoutes(u) ==
  \/ \E f \in Files : \E entity \in {"kyc", "product", "other"}, asked \in Visibility \cup {"none"} :
       Create(u, f, entity, asked)
  \/ \E f \in Files : AddProductDocument(u, f)
  \/ \E k \in Keys : Delete(u, k)

BrandingRoutes(u) ==
  \E column \in Branding : SetBrandingUrl(u, column) \/ \E f \in Files : UploadBranding(u, f, column)

TaskSteps(u) ==
  \/ PutObject(u) \/ CreateRow(u) \/ DeleteImage(u) \/ DropRow(u) \/ Stops(u)
  \/ WriteBranding(u) \/ RefuseBranding(u)

-----------------------------------------------------------------------------
MediaTypeOK ==
  /\ object \in [Keys -> Objects \cup {NoObject}]
  /\ media \in [Keys -> Visibility \cup Branding \cup {"none", "document"}]
  /\ task \in [Uploaders -> [step : {"idle", "put", "row", "doc", "remove", "unlink", "drop", "dropdoc"},
                             key : Keys \cup {0}, put : Objects \cup {NoObject},
                             row : Visibility \cup Branding \cup {"none", "document"}, kyc : Nat]]
  /\ spent \subseteq Keys /\ broken \subseteq spent

AtWork(k) == \E u \in Uploaders : task[u].key = k

\* Rows and objects come and go together (create, delete, addProductDocument and
\* deleteProductDocument): when no request is at work on a key, it has both or neither,
\* however uploads and deletions overlap - but for those a crash cut short, and for the files
\* of the branding that was replaced or refused, which nothing deletes.
RowsMatchObjects ==
  \A k \in spent \ broken : ~AtWork(k) => ((media[k] # "none") <=> (object[k] # NoObject))

\* The rows that show their file to everyone.
PublicRows == {"PUBLIC", "document"} \cup Branding

\* A file has a public address exactly when its row is PUBLIC, a product's document or a
\* tenant's, by whichever route it came (the private prefix of uploadPrivate, toPublicUrl).
AddressMatchesVisibility ==
  \A k \in Keys : media[k] # "none" /\ object[k] # NoObject =>
    ((ToPublicUrl(k) = "url") <=> (media[k] \in PublicRows))

\* A key's extension tells what the object holds, whatever name and type the client gave the
\* file (validateUploadedFile, applySafeMeta, uploadFile and uploadPrivate, and uploadImage
\* for a logo).  It need not for the favicon of a tenant, which no route checks.
StoredAsNamed ==
  \A k \in Keys : object[k].area # "branding" \/ media[k] = "logo" => object[k].ext = object[k].content

\* Every file has its row, the address its row calls for, and the content it is named for.
FilesHold == RowsMatchObjects /\ AddressMatchesVisibility /\ StoredAsNamed
=============================================================================
