---------------------------- MODULE DocumentJobs ----------------------------
(***************************************************************************)
(* The document jobs of the RQ workers: batch import, analysis and the     *)
(* clean-up of expired documents (job_handlers.py).                        *)
(*                                                                         *)
(* An import commits a document with its AI job, then runs the analysis,   *)
(* which any worker may also be given by itself.  An analysis commits      *)
(* "running", reads the document's file without a lock on anything, and    *)
(* commits how it ended.  The clean-up deletes the file of one expired     *)
(* document after the other and all their rows in one commit at the end.   *)
(* Nothing in Redis or in the rows says that a worker is gone.             *)
(*                                                                         *)
(* A document's processing_status is written with its job's status, in the *)
(* same commits, and an owner's PATCH may set it to anything: only the     *)
(* job's status is kept here.  Documents have one job, and a storage path. *)
(***************************************************************************)
CONSTANTS
    Documents,   \* the documents that may be imported
    Paths,       \* the files they are imported from
    Workers,     \* the worker processes
    Cleaners     \* the clean-ups that may run at the same time

VARIABLES
    documents,   \* the row of each document and its storage path
    jobs,        \* the status of its AI job
    files,       \* the paths where a file is
    work,        \* what each worker is doing, with which document
    sweep,       \* what each clean-up has selected and has yet to delete
    cutOff,      \* history: documents whose last analysis ended without a status
    abandoned    \* history: those whose file a clean-up deleted before it failed

documentVars == <<documents, jobs, files, work, sweep, cutOff, abandoned>>

NoDocument == [state |-> "none"]
Idle == [step |-> "idle"]
NoSweep == [selected |-> {}, left |-> {}]

DocumentTypeOK ==
    /\ documents \in [Documents ->
          {NoDocument} \cup [state : {"live", "expired", "gone"}, path : Paths]]
    /\ jobs \in [Documents -> {"none", "queued", "running", "completed", "failed"}]
    /\ files \subseteq Paths
    /\ work \in [Workers -> {Idle} \cup
          [step : {"imported", "loaded", "reading", "extracted"}, document : Documents]]
    /\ sweep \in [Cleaners -> [selected : SUBSET Documents, left : SUBSET Documents]]
    /\ cutOff \subseteq Documents /\ abandoned \subseteq Documents

DocumentInit ==
    /\ documents = [d \in Documents |-> NoDocument]
    /\ jobs = [d \in Documents |-> "none"]
    /\ files = Paths
    /\ work = [w \in Workers |-> Idle]
    /\ sweep = [c \in Cleaners |-> NoSweep]
    /\ cutOff = {} /\ abandoned = {}

Present(d) == documents[d].state \in {"live", "expired"}
On(w, step) == work[w].step = step
Step(w, step) == work' = [work EXCEPT ![w].step = step]
Done(w) == work' = [work EXCEPT ![w] = Idle]

\* The commit of a status; for rows that are gone it fails, here as in the handler
\* of the failure, and nothing is written.  What was cut off before is written over.
SetStatus(d, status) ==
    IF Present(d) THEN jobs' = [jobs EXCEPT ![d] = status] /\ cutOff' = cutOff \ {d}
    ELSE UNCHANGED <<jobs, cutOff>>

\* An analysis is over, and no status says so.
NoStatus(d) == cutOff' = IF Present(d) THEN cutOff \cup {d} ELSE cutOff

-----------------------------------------------------------------------------
\* One entry of a batch: its file is there, and a document and a job are committed.
Import(w, d, p) ==
    /\ On(w, "idle")
    /\ documents[d] = NoDocument
    /\ p \in files
    /\ documents' = [documents EXCEPT ![d] = [state |-> "live", path |-> p]]
    /\ jobs' = [jobs EXCEPT ![d] = "queued"]
    /\ work' = [work EXCEPT ![w] = [step |-> "imported", document |-> d]]
    /\ UNCHANGED <<files, sweep, cutOff, abandoned>>

\* The analysis loads the job, whatever its status, and the document.
Load(w, d) ==
    /\ \/ On(w, "idle")
       \/ On(w, "imported") /\ work[w].document = d
    /\ Present(d)
    /\ work' = [work EXCEPT ![w] = [step |-> "loaded", document |-> d]]
    /\ UNCHANGED <<documents, jobs, files, sweep, cutOff, abandoned>>

MarkRunning(w) ==
    LET d == work[w].document IN
    /\ On(w, "loaded")
    /\ SetStatus(d, "running")
    /\ IF Present(d) THEN Step(w, "reading") ELSE Done(w)
    /\ UNCHANGED <<documents, files, sweep, abandoned>>

ReadSource(w) ==
    /\ On(w, "reading")
    /\ documents[work[w].document].path \in files
    /\ Step(w, "extracted")
    /\ UNCHANGED <<documents, jobs, files, sweep, cutOff, abandoned>>

Complete(w) ==
    /\ On(w, "extracted")
    /\ SetStatus(work[w].document, "completed")
    /\ Done(w)
    /\ UNCHANGED <<documents, files, sweep, abandoned>>

\* Mutant: an exception is logged and the worker goes on to the next job.
AnalysisSwallowed(w) ==
    /\ On(w, "reading") \/ On(w, "extracted")
    /\ Done(w)
    /\ UNCHANGED <<documents, jobs, files, sweep, cutOff, abandoned>>

\* No file, nothing to extract, any exception that leaves the session as it was:
\* _set_job_failed.
AnalysisFailed(w) ==
    /\ On(w, "reading") \/ On(w, "extracted")
    /\ SetStatus(work[w].document, "failed")
    /\ Done(w)
    /\ UNCHANGED <<documents, files, sweep, abandoned>>

\* The database refuses the result, or the failure.  The handler does not roll back, so
\* its own commit raises PendingRollbackError: nothing is written, and the worker goes on
\* to the next job.
AnalysisUnsaved(w) ==
    /\ On(w, "reading") \/ On(w, "extracted")
    /\ NoStatus(work[w].document)
    /\ Done(w)
    /\ UNCHANGED <<documents, jobs, files, sweep, abandoned>>

\* The process is killed, or its connection to the database is lost.
LoseWorker(w) ==
    /\ ~ On(w, "idle")
    /\ \/ (On(w, "reading") \/ On(w, "extracted")) /\ NoStatus(work[w].document)
       \/ (On(w, "imported") \/ On(w, "loaded")) /\ UNCHANGED cutOff
    /\ Done(w)
    /\ UNCHANGED <<documents, jobs, files, sweep, abandoned>>

\* The retention date comes, or thirty days after the owner deleted the document.
Expire(d) ==
    /\ documents[d].state = "live"
    /\ documents' = [documents EXCEPT ![d].state = "expired"]
    /\ UNCHANGED <<jobs, files, work, sweep, cutOff, abandoned>>

\* Mutant: the clean-up takes deleted and retained documents alike.
SelectAll(c) ==
    /\ sweep[c] = NoSweep
    /\ LET all == {d \in Documents : Present(d)} IN
          sweep' = [sweep EXCEPT ![c] = [selected |-> all, left |-> all]]
    /\ UNCHANGED <<documents, jobs, files, work, cutOff, abandoned>>

SelectExpired(c) ==
    /\ sweep[c] = NoSweep
    /\ LET expired == {d \in Documents : documents[d].state = "expired"} IN
          sweep' = [sweep EXCEPT ![c] = [selected |-> expired, left |-> expired]]
    /\ UNCHANGED <<documents, jobs, files, work, cutOff, abandoned>>

\* The file is deleted at once, whoever else has its path; a failure is logged.
DeleteFile(c, d) ==
    /\ d \in sweep[c].left
    /\ sweep' = [sweep EXCEPT ![c].left = @ \ {d}]
    /\ \/ files' = files \ {documents[d].path}
       \/ UNCHANGED files
    /\ UNCHANGED <<documents, jobs, work, cutOff, abandoned>>

DeleteRows(c) ==
    /\ sweep[c] # NoSweep
    /\ sweep[c].left = {}
    /\ documents' = [d \in Documents |-> IF d \in sweep[c].selected
                                         THEN [documents[d] EXCEPT !.state = "gone"]
                                         ELSE documents[d]]
    /\ jobs' = [d \in Documents |-> IF d \in sweep[c].selected THEN "none" ELSE jobs[d]]
    /\ sweep' = [sweep EXCEPT ![c] = NoSweep]
    /\ cutOff' = cutOff \ sweep[c].selected
    /\ abandoned' = abandoned \ sweep[c].selected
    /\ UNCHANGED <<files, work>>

\* A statement fails or the worker is lost: the rows stay, the files are gone.
SweepFail(c) ==
    /\ sweep[c] # NoSweep
    /\ sweep' = [sweep EXCEPT ![c] = NoSweep]
    /\ abandoned' = abandoned \cup (sweep[c].selected \ sweep[c].left)
    /\ UNCHANGED <<documents, jobs, files, work, cutOff>>

DocumentNext ==
    \/ \E w \in Workers :
          \/ \E d \in Documents, p \in Paths : Import(w, d, p)
          \/ \E d \in Documents : Load(w, d)
          \/ MarkRunning(w) \/ ReadSource(w) \/ Complete(w) \/ AnalysisFailed(w)
          \/ AnalysisUnsaved(w) \/ LoseWorker(w)
    \/ \E d \in Documents : Expire(d)
    \/ \E c \in Cleaners :
          \/ SelectExpired(c) \/ DeleteRows(c) \/ SweepFail(c)
          \/ \E d \in Documents : DeleteFile(c, d)

DocumentSpec == DocumentInit /\ [][DocumentNext]_documentVars

-----------------------------------------------------------------------------
(* Properties                                                              *)

\* A job that says "running" is being analysed by some worker, or its last analysis was
\* cut off: its worker was lost, or the database refused how it ended.  Nothing else that
\* fails, and no overlap of two analyses with each other and with the clean-up, leaves a
\* job running.
RunningHasWorker ==
    \A d \in Documents : jobs[d] = "running" =>
       \/ d \in cutOff
       \/ \E w \in Workers : (On(w, "reading") \/ On(w, "extracted")) /\ work[w].document = d

\* A clean-up has deleted the file of a document that had expired, and has its row in
\* hand, has deleted it as well, or failed before it did.
FileDeleted(d) ==
    \/ documents[d].state = "gone"
    \/ /\ documents[d].state = "expired"
       /\ d \in abandoned \/ \E c \in Cleaners : d \in sweep[c].selected \ sweep[c].left

\* The file of a document that has its row is there, unless a clean-up has deleted it as
\* that of an expired document with the same path, maybe another one, or as its own in a
\* run that is not over or failed: files go before the commit, and by path.
FileLostOnlyToSharedPath ==
    \A d \in Documents : Present(d) =>
       \/ documents[d].path \in files
       \/ \E e \in Documents : FileDeleted(e) /\ documents[e].path = documents[d].path
=============================================================================
