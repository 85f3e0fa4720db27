------------------------------ MODULE ImportPage ------------------------------
(***************************************************************************)
(* Bulk import: the page that uploads a file in three steps, the API that  *)
(* imports it chunk by chunk under a job row, and the page that shows a    *)
(* job.  The page may be left, and the answer lost, while the server goes  *)
(* on; the server may crash between two chunks.  A retry-safe import has a *)
(* key, and the job row is its memory of what the key has been used for.   *)
(*                                                                         *)
(* A file is its extension, whether it fits the page's limit, whether the  *)
(* server can read it, and its number of chunks.  Of the rows of a chunk   *)
(* some land, some fail: how many, and why, is left out.                   *)
(***************************************************************************)
EXTENDS Naturals, Sequences, ConsoleCommon

CONSTANTS
    Files,        \* the files on the user's disk
    ImportKeys,   \* the keys that can be drawn
    MaxImports,   \* bound: POSTs the server works on at once
    MaxJobs       \* bound: job rows

Formats == {"csv", "json"}

ASSUME ImportAssumption ==
    /\ Files \subseteq [ext : Formats, fits : BOOLEAN, readable : BOOLEAN, chunks : Nat]
    /\ {MaxImports, MaxJobs} \subseteq Nat \ {0}

VARIABLES
    upload,    \* the import page
    imports,   \* the POSTs the server works on, or Null
    jobs,      \* import_jobs
    landed,    \* the jobs that have rows in the catalog
    jobView    \* the page of one job, or Null

importVars == <<upload, imports, jobs, landed, jobView>>

-----------------------------------------------------------------------------
(* The server *)

At(i, stage) == imports[i] # Null /\ imports[i].stage = stage

NewPost(key, file) ==
    [stage |-> "sent", key |-> key, file |-> file, job |-> Null, left |-> 0,
     ok |-> FALSE, bad |-> FALSE, answer |-> Null]

\* A result, whatever it says of the rows, or a refusal.
Answered(i, answer) ==
    imports' = [imports EXCEPT ![i] =
        [NewPost(Null, Null) EXCEPT !.stage = "answered", !.answer = answer]]

ServerOnly == UNCHANGED <<upload, jobView>>

KeyUsed(key) == key # Null /\ \E j \in DOMAIN jobs : jobs[j].key = key

\* The key is looked up before any work is done; a job in any state, pending
\* too, is made into a result.
lookupIdempotentReplay(i) ==
    /\ At(i, "sent")
    /\ \/ KeyUsed(imports[i].key) /\ Answered(i, "result")
       \/ ~KeyUsed(imports[i].key) /\ imports' = [imports EXCEPT ![i].stage = "parse"]
       \/ Answered(i, "refusal")
    /\ ServerOnly /\ UNCHANGED <<jobs, landed>>

\* A file that cannot be read, or has no rows, leaves no job.
ParseFile(i) ==
    /\ At(i, "parse")
    /\ ~imports[i].file.readable \/ imports[i].file.chunks = 0
    /\ Answered(i, IF imports[i].file.readable THEN "result" ELSE "refusal")
    /\ ServerOnly /\ UNCHANGED <<jobs, landed>>

createJobUnindexed(i) ==
    /\ At(i, "parse")
    /\ imports[i].file.readable /\ imports[i].file.chunks > 0
    /\ Len(jobs) < MaxJobs
    /\ jobs' = Append(jobs, [key |-> imports[i].key, status |-> "pending",
                             ok |-> FALSE, bad |-> FALSE])
    /\ imports' = [imports EXCEPT ![i].stage = "chunks", ![i].job = Len(jobs'),
                                  ![i].left = imports[i].file.chunks, ![i].file = Null]
    /\ ServerOnly /\ UNCHANGED landed

\* The unique index on the key is the last word.
createJob(i) ==
    /\ At(i, "parse")
    /\ imports[i].file.readable /\ imports[i].file.chunks > 0
    /\ \/ /\ ~KeyUsed(imports[i].key)
          /\ Len(jobs) < MaxJobs
          /\ jobs' = Append(jobs, [key |-> imports[i].key, status |-> "pending",
                                   ok |-> FALSE, bad |-> FALSE])
          /\ imports' = [imports EXCEPT ![i].stage = "chunks", ![i].job = Len(jobs'),
                                           ![i].left = imports[i].file.chunks, ![i].file = Null]
       \/ /\ Answered(i, "refusal")
          /\ UNCHANGED jobs
    /\ ServerOnly /\ UNCHANGED landed

\* One transaction, a savepoint for each row; what cannot be committed has failed.
processChunk(i) ==
    /\ At(i, "chunks") /\ imports[i].left > 0
    /\ \E outcome \in [ok : BOOLEAN, bad : BOOLEAN] :
          /\ outcome.ok \/ outcome.bad
          /\ imports' = [imports EXCEPT ![i].left = @ - 1, ![i].ok = @ \/ outcome.ok,
                                        ![i].bad = @ \/ outcome.bad]
          /\ landed' = IF outcome.ok THEN landed \cup {imports[i].job} ELSE landed
    /\ ServerOnly /\ UNCHANGED jobs

\* If the job cannot be written, the rows stay and the job stays pending.
finaliseJob(i) ==
    /\ At(i, "chunks") /\ imports[i].left = 0
    /\ LET ok == imports[i].ok
           bad == imports[i].bad
           job == imports[i].job
       IN  \/ /\ jobs' = [jobs EXCEPT ![job].status = IF ok THEN "completed" ELSE "failed",
                                      ![job].ok = ok, ![job].bad = bad]
              /\ Answered(i, "result")
           \/ Answered(i, "refusal") /\ UNCHANGED jobs
    /\ ServerOnly /\ UNCHANGED landed

BulkImportCatalog(i) ==
    \/ lookupIdempotentReplay(i) \/ ParseFile(i) \/ createJob(i)
    \/ processChunk(i) \/ finaliseJob(i)

\* The server dies: what it was working on is not gone on with.
ImportCrash ==
    /\ \E i \in DOMAIN imports : imports[i] # Null
    /\ imports' = [i \in DOMAIN imports |-> Null]
    /\ upload' = [upload EXCEPT !.post = Null]
    /\ UNCHANGED <<jobs, landed, jobView>>

\* After 24 hours, which no request takes.  The counters are left at zero.
SweepCrashedImportJobs ==
    \E j \in DOMAIN jobs :
        /\ jobs[j].status = "pending"
        /\ \A i \in DOMAIN imports : imports[i] # Null => imports[i].job # j
        /\ jobs' = [jobs EXCEPT ![j].status = "failed"]
        /\ UNCHANGED <<upload, imports, landed, jobView>>

-----------------------------------------------------------------------------
(* The import page.  Retry-safe is on when the page has a key.  What it says of a
   file or an answer it cannot use is left out. *)

NewUpload == [step |-> 1, entity |-> FALSE, format |-> "csv", file |-> Null,
              key |-> Null, post |-> Null, result |-> FALSE]

Page(u) == upload' = u /\ UNCHANGED <<imports, jobs, landed, jobView>>

\* Leaving it does not stop the POST.
UploadNavigate == Page(NewUpload)

validateFile(file) == file.fits /\ file.ext = upload.format

\* By drag and drop or from the file dialog.
handleFileChosen ==
    \E file \in Files :
        Page([upload EXCEPT !.file = IF validateFile(file) THEN file ELSE Null])

FormatToggle ==
    \E format \in Formats \ {upload.format} :
        Page([upload EXCEPT !.format = format, !.file = Null])

RemoveFile == upload.file # Null /\ Page([upload EXCEPT !.file = Null])

FreshKeys ==
    {key \in ImportKeys : key # upload.key /\ ~KeyUsed(key)
        /\ \A i \in DOMAIN imports : imports[i] # Null => imports[i].key # key}

\* A click of the checkbox turns the key on or off.  A click of its label comes
\* twice, the second time through the checkbox: off stays off, and on is given
\* another key.
handleIdempotencyToggle ==
    \/ upload.key # Null /\ Page([upload EXCEPT !.key = Null])
    \/ \E key \in FreshKeys : Page([upload EXCEPT !.key = key])

stepNext ==
    \/ upload.step = 1 /\ upload.entity /\ Page([upload EXCEPT !.step = 2])
    \/ upload.step = 2 /\ upload.file # Null /\ Page([upload EXCEPT !.step = 3])

stepBack == upload.step > 1 /\ Page([upload EXCEPT !.step = @ - 1])

doImport ==
    \E i \in DOMAIN imports :
        /\ imports[i] = Null
        /\ \A k \in DOMAIN imports : k < i => imports[k] # Null
        /\ imports' = [imports EXCEPT ![i] = NewPost(upload.key, upload.file)]
        /\ upload' = [upload EXCEPT !.post = i]
        /\ UNCHANGED <<jobs, landed, jobView>>

\* The answer reaches the page if it still waits for it; it has no import_id,
\* and is shown in place.
importCatalog(i) ==
    /\ At(i, "answered")
    /\ imports' = [imports EXCEPT ![i] = Null]
    /\ upload' = IF upload.post # i THEN upload
                 ELSE [upload EXCEPT !.post = Null, !.result = imports[i].answer = "result"]
    /\ UNCHANGED <<jobs, landed, jobView>>

\* The connection breaks before the answer; the server works on.
ConnectionLost ==
    /\ upload.post # Null
    /\ Page([upload EXCEPT !.post = Null])

renderStep1 ==
    /\ upload.step = 1
    /\ Page([upload EXCEPT !.entity = TRUE]) \/ stepNext

renderStep2 ==
    /\ upload.step = 2
    /\ \/ upload.file = Null /\ handleFileChosen
       \/ FormatToggle \/ RemoveFile \/ handleIdempotencyToggle \/ stepBack \/ stepNext

renderStep3 ==
    /\ upload.step = 3 /\ upload.post = Null
    /\ stepBack \/ doImport

\* The key, and with it Retry-safe, survives into the next import.
renderInlineResult ==
    \/ Page([NewUpload EXCEPT !.key = upload.key, !.format = upload.format])
    \/ UploadNavigate

ImportScreen ==
    /\ jobView = Null
    /\ IF upload.result THEN renderInlineResult
       ELSE UploadNavigate \/ renderStep1 \/ renderStep2 \/ renderStep3

-----------------------------------------------------------------------------
(* The page of one job, which is loaded once and not again: opened from nowhere,
   or in place of the import page. *)

JobBanner(job) ==
    CASE ~job.bad /\ job.ok -> "complete"
      [] ~job.ok -> "failed"
      [] OTHER -> "partial"

\* A 404 is a job that is not there; any other refusal is an error.
GetImportJob ==
    \/ jobView' = "missing"
    \/ jobView' = "error"
    \/ \E j \in DOMAIN jobs : jobView' = JobBanner(jobs[j])

ImportResultScreen ==
    /\ upload = NewUpload
    /\ IF jobView = Null THEN GetImportJob ELSE jobView' = Null
    /\ UNCHANGED <<upload, imports, jobs, landed>>

-----------------------------------------------------------------------------
ImportInit ==
    /\ upload = NewUpload
    /\ imports = [i \in 1..MaxImports |-> Null]
    /\ jobs = <<>>
    /\ landed = {}
    /\ jobView = Null

ImportNext ==
    \/ ImportScreen \/ ImportResultScreen \/ ConnectionLost
    \/ \E i \in DOMAIN imports : BulkImportCatalog(i) \/ importCatalog(i)
    \/ ImportCrash \/ SweepCrashedImportJobs

ImportSpec == ImportInit /\ [][ImportNext]_importVars

-----------------------------------------------------------------------------
(* Properties *)

\* With a key, a retry imports nothing twice: whatever is lost on the way, and
\* even while the first POST is still at work or has died on the way, the rows
\* of at most one POST reach the catalog under one key.
KeyImportsOnce ==
    \A i, j \in landed : jobs[i].key # Null /\ jobs[i].key = jobs[j].key => i = j

=============================================================================
