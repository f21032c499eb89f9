--------------------------- MODULE UploadPipeline ---------------------------
(***************************************************************************)
(* A job's membership upload: the requests of several tabs that upload or  *)
(* delete the membership file, the upload task that downloads the road     *)
(* network of its area, the status poll, the submits of the job, and the   *)
(* places files live in: the pods' disks and the object storage.           *)
(*                                                                         *)
(* An upload is named by the task id its request draws; the file it brings *)
(* and the network downloaded for that file carry the same name, so that   *)
(* a file's content tells which upload it came from.  rclone copies never  *)
(* delete: a pull or a push overlays the files its source has.             *)
(*                                                                         *)
(* A submit saves the whole row as it loaded it before its guard, and a    *)
(* page that adopts a download writes the whole column: both may put an    *)
(* older state of the column back.                                         *)
(***************************************************************************)
EXTENDS Naturals, FiniteSets

CONSTANTS
    Handler,      \* uploads and deletions that can be in flight at the same time
    Saver,        \* requests in flight that write the column as they loaded it
    Worker,       \* worker processes of the one worker pod
    Upload,       \* uploads, by task id
    None,         \* no file, no checksum
    WebDisk,      \* where the web pod keeps its work dirs
    WorkerDisk,   \* where the worker pod keeps them: another disk, or the same
    MaxRetries,   \* UPLOAD_MAX_RETRIES
    MayCrash,     \* whether requests and worker processes can be killed
    MaxRequests   \* bound: uploads, deletions and submits

Remote == "remote"
SpState == {"PENDING", "COMPLETED", "FAILED"}

\* A task id is drawn at random, so it is no state.
ASSUME UploadAssumption ==
    /\ None \notin Upload
    /\ Upload \cap SpState = {}
    /\ Remote \notin {WebDisk, WorkerDisk}
    /\ MaxRetries \in Nat
    /\ MayCrash \in BOOLEAN
    /\ MaxRequests \in Nat

VARIABLES
    row,      \* status and membership_upload of the job's row
    store,    \* place -> the files of the job there
    web,      \* the uploads and deletions
    saver,    \* the submits, and the pages that adopt a download
    polls,    \* task ids that polls in flight loaded
    queue,    \* upload messages no worker took
    retries,  \* task id -> retries so far
    revoked,  \* task ids the workers were told to drop or kill
    celery,   \* task id -> what Celery says of it
    wrk,      \* the worker processes
    requests, \* uploads, deletions and submits so far (bound)
    revived   \* history: the uploads whose task id a save has put back

vars == <<row, store, web, saver, polls, queue, retries, revoked, celery, wrk,
          requests, revived>>

Place == {Remote, WebDisk, WorkerDisk}
FileOrNone == Upload \cup {None}
Terminal == {"SUCCESS", "FAILURE", "REVOKED"}

\* file: the upload the row describes; sp: street_processing, a state or the id
\* of the task at work; sha: download_sha256.
\* FAILED: a run that is over (a COMPLETED one can only be reset).
Row == [status : {"PENDING", "RUNNING", "FAILED"}, file : FileOrNone,
        sp : SpState \cup Upload, sha : FileOrNone]
Column == [file : FileOrNone, sp : SpState \cup Upload, sha : FileOrNone]
ColumnOf(r) == [file |-> r.file, sp |-> r.sp, sha |-> r.sha]
Files == [mem : FileOrNone, net : FileOrNone]
Request == [pc : {"idle", "revoke", "wipe", "reset", "stage", "push", "save",
                  "plots", "own", "submit", "fail"},
            up : FileOrNone, seen : SpState \cup Upload]
\* seen: the column as loaded; net: the download that was pulled.
Save == [pc : {"idle", "queue", "pull", "push", "save", "adopt", "record"},
         seen : Column, net : FileOrNone]
Process == [pc : {"idle", "pull", "download", "hash", "push", "finish", "fail",
                  "returned", "raised"},
            task : FileOrNone, mem : FileOrNone, sha : FileOrNone]

NoFiles == [mem |-> None, net |-> None]
IdleRequest == [pc |-> "idle", up |-> None, seen |-> "PENDING"]
NoColumn == [file |-> None, sp |-> "PENDING", sha |-> None]
IdleSave == [pc |-> "idle", seen |-> NoColumn, net |-> None]
IdleProcess == [pc |-> "idle", task |-> None, mem |-> None, sha |-> None]

TypeOK ==
    /\ row \in Row
    /\ store \in [Place -> Files]
    /\ web \in [Handler -> Request]
    /\ saver \in [Saver -> Save]
    /\ polls \subseteq Upload
    /\ queue \subseteq Upload
    /\ retries \in [Upload -> 0..MaxRetries]
    /\ revoked \subseteq Upload
    /\ celery \in [Upload -> {"unused", "drawn", "PENDING"} \cup Terminal]
    /\ wrk \in [Worker -> Process]
    /\ requests \in 0..MaxRequests
    /\ revived \subseteq Upload

Init ==
    /\ row = [status |-> "PENDING", file |-> None, sp |-> "PENDING", sha |-> None]
    /\ store = [p \in Place |-> NoFiles]
    /\ web = [h \in Handler |-> IdleRequest]
    /\ saver = [s \in Saver |-> IdleSave]
    /\ polls = {}
    /\ queue = {}
    /\ retries = [u \in Upload |-> 0]
    /\ revoked = {}
    /\ celery = [u \in Upload |-> "unused"]
    /\ wrk = [w \in Worker |-> IdleProcess]
    /\ requests = 0
    /\ revived = {}

\* rclone copy: the files src has replace those of dst.
Overlaid(src, dst) ==
    [f \in {"mem", "net"} |-> IF store[src][f] = None THEN store[dst][f]
                              ELSE store[src][f]]
Copy(src, dst) == store' = [store EXCEPT ![dst] = Overlaid(src, dst)]

-----------------------------------------------------------------------------
(* Uploads, deletions and polls *)

At(h, pc) == web[h].pc = pc
Goto(h, pc) == web' = [web EXCEPT ![h].pc = pc]
Done(h) == web' = [web EXCEPT ![h] = IdleRequest]
Broker == <<queue, retries, celery, revoked>>
Saves == <<saver, requests, revived>>
OtherThanWeb == <<polls, Broker, wrk, Saves>>
Counted == requests < MaxRequests /\ requests' = requests + 1


\* The row as this request's job object has it, with street_processing = sp.
OwnColumn(h, sp) == [row EXCEPT !.file = web[h].up, !.sp = sp, !.sha = None]

\* _handle_membership_upload: the loaded job is PENDING, or the upload is refused.
StartUpload(h) ==
    /\ At(h, "idle")
    /\ row.status = "PENDING"
    /\ \E u \in Upload :
        /\ celery[u] = "unused"
        /\ celery' = [celery EXCEPT ![u] = "drawn"]
        /\ web' = [web EXCEPT ![h] = [pc |-> "revoke", up |-> u, seen |-> row.sp]]
    /\ Counted
    /\ UNCHANGED <<row, store, polls, queue, retries, revoked, wrk, saver, revived>>

\* delete_membership_file: the same, without a new file.
StartDelete(h) ==
    /\ At(h, "idle")
    /\ row.status = "PENDING"
    /\ web' = [web EXCEPT ![h] = [pc |-> "revoke", up |-> None, seen |-> row.sp]]
    /\ Counted
    /\ UNCHANGED <<row, store, polls, Broker, wrk, saver, revived>>

\* Mutant: the state is taken for a task id whatever it is.
RevokeAnything(h) ==
    /\ At(h, "revoke")
    /\ revoked' = revoked \cup {web[h].seen}
    /\ web' = [web EXCEPT ![h].pc = "wipe", ![h].seen = "PENDING"]
    /\ UNCHANGED <<row, store, polls, queue, retries, celery, wrk, Saves>>

\* delete_membership: the task the loaded row names is revoked.
RevokeSeen(h) ==
    /\ At(h, "revoke")
    /\ revoked' = revoked \cup ({web[h].seen} \ SpState)
    /\ web' = [web EXCEPT ![h].pc = "wipe", ![h].seen = "PENDING"]
    /\ UNCHANGED <<row, store, polls, queue, retries, celery, wrk, Saves>>

\* delete_membership: the files go, on this pod and in the storage.
WipeFiles(h) ==
    /\ At(h, "wipe")
    /\ store' = [store EXCEPT ![Remote] = NoFiles, ![WebDisk] = NoFiles]
    /\ Goto(h, "reset")
    /\ UNCHANGED <<row, OtherThanWeb>>

\* delete_membership: the row follows, while it is PENDING; else JobNotPending.
ResetRow(h) ==
    /\ At(h, "reset")
    /\ \/ /\ row.status = "PENDING"
          /\ row' = [row EXCEPT !.file = None, !.sp = "PENDING", !.sha = None]
          /\ IF web[h].up = None THEN Done(h) ELSE Goto(h, "stage")
       \/ /\ row.status # "PENDING"
          /\ Done(h)
          /\ UNCHANGED row
    /\ UNCHANGED <<store, OtherThanWeb>>

\* upload_membership: pull, write the file here, check it; a bad file is
\* removed again and the request ends.
StageFile(h) ==
    /\ At(h, "stage")
    /\ LET pulled == Overlaid(Remote, WebDisk)
       IN \/ /\ store' = [store EXCEPT ![WebDisk] = [pulled EXCEPT !.mem = web[h].up]]
             /\ Goto(h, "push")
          \/ /\ store' = [store EXCEPT ![WebDisk] = [pulled EXCEPT !.mem = None]]
             /\ Done(h)
    /\ UNCHANGED <<row, OtherThanWeb>>

\* save_input: the work dir first ...
PushInput(h) ==
    /\ At(h, "push")
    /\ Copy(WebDisk, Remote)
    /\ Goto(h, "save")
    /\ UNCHANGED <<row, OtherThanWeb>>

\* ... then the row, while it is PENDING.
SaveInput(h) ==
    /\ At(h, "save")
    /\ \/ /\ row.status = "PENDING"
          /\ row' = OwnColumn(h, "PENDING")
          /\ Goto(h, "plots")
       \/ /\ row.status # "PENDING"
          /\ Done(h)
          /\ UNCHANGED row
    /\ UNCHANGED <<store, OtherThanWeb>>

PushPlots(h) ==
    /\ At(h, "plots")
    /\ Copy(WebDisk, Remote)
    /\ Goto(h, "own")
    /\ UNCHANGED <<row, OtherThanWeb>>

\* The task id goes into the row before the task exists.
WriteTaskId(h) ==
    /\ At(h, "own")
    /\ row' = OwnColumn(h, web[h].up)
    /\ Goto(h, "submit")
    /\ UNCHANGED <<store, OtherThanWeb>>

SubmitUpload(h) ==
    /\ At(h, "submit")
    /\ \/ /\ queue' = queue \cup {web[h].up}
          /\ celery' = [celery EXCEPT ![web[h].up] = "PENDING"]
          /\ Done(h)
       \/ /\ Goto(h, "fail")
          /\ UNCHANGED <<queue, celery>>
    /\ UNCHANGED <<row, store, polls, retries, revoked, wrk, Saves>>

\* Mutant: a submission that failed leaves the row as it is.
EndUploadSilently(h) ==
    /\ At(h, "fail")
    /\ Done(h)
    /\ UNCHANGED <<row, store, OtherThanWeb>>

\* _end_upload_failed: a submission that failed leaves no task id behind.
EndUploadFailed(h) ==
    /\ At(h, "fail")
    /\ row' = OwnColumn(h, "FAILED")
    /\ Done(h)
    /\ UNCHANGED <<store, OtherThanWeb>>

WebCrash(h) ==
    /\ MayCrash
    /\ ~At(h, "idle")
    /\ Done(h)
    /\ UNCHANGED <<row, store, OtherThanWeb>>

\* poll_street_processing loads the row; a task id there is asked about.
StartPoll ==
    /\ row.sp \in Upload
    /\ polls' = polls \cup {row.sp}
    /\ UNCHANGED <<row, store, web, Broker, wrk, Saves>>

\* Mutant: the poll writes the end it saw without asking who owns the upload.
AnswerPollUnowned(u) ==
    /\ u \in polls
    /\ polls' = polls \ {u}
    /\ LET end == IF celery[u] = "SUCCESS" THEN "COMPLETED" ELSE "FAILED"
       IN row' = IF celery[u] \in Terminal THEN [row EXCEPT !.sp = end] ELSE row
    /\ UNCHANGED <<store, web, Broker, wrk, Saves>>

\* get_street_processing_status: Celery's final state ends the upload in the
\* row, if the row still names the task.
AnswerPoll(u) ==
    /\ u \in polls
    /\ polls' = polls \ {u}
    /\ LET end == IF celery[u] = "SUCCESS" THEN "COMPLETED" ELSE "FAILED"
       IN row' = IF celery[u] \in Terminal /\ row.sp = u
                 THEN [row EXCEPT !.sp = end] ELSE row
    /\ UNCHANGED <<store, web, Broker, wrk, Saves>>

-----------------------------------------------------------------------------
(* Requests that write the column as they loaded it *)

AtSave(s, pc) == saver[s].pc = pc
GotoSave(s, pc) == saver' = [saver EXCEPT ![s].pc = pc]
Saved(s) == saver' = [saver EXCEPT ![s] = IdleSave]
OtherThanSaves == <<web, polls, Broker, wrk>>

Loads(s, pc) ==
    saver' = [saver EXCEPT ![s] = [pc |-> pc, seen |-> ColumnOf(row), net |-> None]]

\* start_computation, restart_computation: the job is loaded, any but a RUNNING one.
LoadForRun(s) ==
    /\ AtSave(s, "idle")
    /\ row.status # "RUNNING"
    /\ Counted
    /\ Loads(s, "queue")
    /\ UNCHANGED <<row, store, OtherThanSaves, revived>>

\* submit's guard, mark_queued: PENDING or FAILED, of the row as it is now.
QueueRun(s) ==
    /\ AtSave(s, "queue")
    /\ \/ /\ row.status # "RUNNING"
          /\ row' = [row EXCEPT !.status = "RUNNING"]
          /\ GotoSave(s, "pull")
       \/ /\ row.status = "RUNNING"
          /\ Saved(s)
          /\ UNCHANGED row
    /\ UNCHANGED <<store, OtherThanSaves, requests, revived>>

PullForRun(s) ==
    /\ AtSave(s, "pull")
    /\ Copy(Remote, WebDisk)
    /\ GotoSave(s, "push")
    /\ UNCHANGED <<row, OtherThanSaves, requests, revived>>

\* save: the work dir first ...
PushForRun(s) ==
    /\ AtSave(s, "push")
    /\ Copy(WebDisk, Remote)
    /\ GotoSave(s, "save")
    /\ UNCHANGED <<row, OtherThanSaves, requests, revived>>

Written(column) ==
    row' = [row EXCEPT !.file = column.file, !.sp = column.sp, !.sha = column.sha]

\* ... then every column a run does not own, as it was loaded before the guard.
SaveForRun(s) ==
    LET seen == saver[s].seen IN
    /\ AtSave(s, "save")
    /\ Written(seen)
    /\ revived' = revived \cup ({seen.sp} \ (SpState \cup {row.sp}))
    /\ Saved(s)
    /\ UNCHANGED <<store, OtherThanSaves, requests>>

\* A submit whose pull or upload fails, or that is killed: _fail_to_start ends
\* the run FAILED if it is still queued and the request lives.
FailToStart(s) ==
    /\ saver[s].pc \in {"pull", "push", "save"}
    /\ Saved(s)
    /\ \/ UNCHANGED row
       \/ row.status = "RUNNING" /\ row' = [row EXCEPT !.status = "FAILED"]
    /\ UNCHANGED <<store, OtherThanSaves, requests, revived>>

\* The run is over, or cancelled; reset makes the job PENDING again.
EndRun ==
    /\ row.status = "RUNNING"
    /\ row' = [row EXCEPT !.status = "FAILED"]
    /\ UNCHANGED <<store, OtherThanSaves, Saves>>

ResetRun ==
    /\ row.status = "FAILED"
    /\ row' = [row EXCEPT !.status = "PENDING"]
    /\ UNCHANGED <<store, OtherThanSaves, Saves>>

\* adopt_stored_download: a page or a run of a finished upload whose download
\* the row does not name pulls the stored download ...
LoadForDownload(s) ==
    /\ AtSave(s, "idle")
    /\ row.sp = "COMPLETED" /\ row.sha = None
    /\ Loads(s, "adopt")
    /\ UNCHANGED <<row, store, OtherThanSaves, requests, revived>>

PullDownload(s) ==
    /\ AtSave(s, "adopt")
    /\ \E disk \in {WebDisk, WorkerDisk} : LET pulled == Overlaid(Remote, disk).net IN
        /\ store' = [store EXCEPT ![disk].net = pulled]
        /\ IF pulled = None THEN Saved(s)
           ELSE saver' = [saver EXCEPT ![s].pc = "record", ![s].net = pulled]
    /\ UNCHANGED <<row, OtherThanSaves, requests, revived>>

\* ... and writes the column, as it was loaded, with the checksum of that.
AdoptDownload(s) ==
    /\ AtSave(s, "record")
    /\ Written([saver[s].seen EXCEPT !.sha = saver[s].net])
    /\ Saved(s)
    /\ UNCHANGED <<store, OtherThanSaves, requests, revived>>

-----------------------------------------------------------------------------
(* The upload task *)

AtTask(w, pc) == wrk[w].pc = pc
Step(w, pc) == wrk' = [wrk EXCEPT ![w].pc = pc]
Rest(w) == wrk' = [wrk EXCEPT ![w] = IdleProcess]
Aside == <<web, polls, Saves>>

Receive(w) ==
    /\ AtTask(w, "idle")
    /\ \E u \in queue :
        /\ queue' = queue \ {u}
        /\ \/ /\ u \notin revoked
              /\ wrk' = [wrk EXCEPT ![w].pc = "pull", ![w].task = u]
              /\ UNCHANGED celery
           \/ /\ u \in revoked
              /\ celery' = [celery EXCEPT ![u] = "REVOKED"]
              /\ UNCHANGED wrk
    /\ UNCHANGED <<row, store, retries, revoked, Aside>>

\* work_dir, then the membership file is read; without one the task fails.
PullWorkDir(w) ==
    /\ AtTask(w, "pull")
    /\ \/ /\ Copy(Remote, WorkerDisk)
          /\ LET mem == store'[WorkerDisk].mem
             IN wrk' = [wrk EXCEPT ![w].pc = IF mem = None THEN "fail" ELSE "download",
                                   ![w].mem = mem]
       \/ /\ Step(w, "fail")
          /\ UNCHANGED store
    /\ UNCHANGED <<row, Broker, Aside>>

\* run_osm_query: the network of the membership's area replaces the file here;
\* a transient error is retried while retries are left; any other fails.
Download(w) ==
    /\ AtTask(w, "download")
    /\ \/ /\ store' = [store EXCEPT ![WorkerDisk].net = wrk[w].mem]
          /\ wrk' = [wrk EXCEPT ![w].pc = "hash", ![w].mem = None]
          /\ UNCHANGED <<queue, retries>>
       \/ /\ retries[wrk[w].task] < MaxRetries
          /\ retries' = [retries EXCEPT ![wrk[w].task] = @ + 1]
          /\ queue' = queue \cup {wrk[w].task}
          /\ Rest(w)
          /\ UNCHANGED store
       \/ /\ wrk' = [wrk EXCEPT ![w].pc = "fail", ![w].mem = None]
          /\ UNCHANGED <<store, queue, retries>>
    /\ UNCHANGED <<row, celery, revoked, Aside>>

\* file_sha256 of the file that is on the disk now.
HashDownload(w) ==
    /\ AtTask(w, "hash")
    /\ LET net == store[WorkerDisk].net
       IN wrk' = [wrk EXCEPT ![w].pc = IF net = None THEN "fail" ELSE "push",
                             ![w].sha = net]
    /\ UNCHANGED <<row, store, Broker, Aside>>

PushWorkDir(w) ==
    /\ AtTask(w, "push")
    /\ Copy(WorkerDisk, Remote)
    /\ Step(w, "finish")
    /\ UNCHANGED <<row, Broker, Aside>>

\* Mutant: the task asks whether its file is still named.
WriteCompletedOfFile(w) ==
    /\ AtTask(w, "finish")
    /\ row' = IF row.file = wrk[w].task
              THEN [row EXCEPT !.sp = "COMPLETED", !.sha = wrk[w].sha] ELSE row
    /\ wrk' = [wrk EXCEPT ![w].pc = "returned", ![w].sha = None]
    /\ UNCHANGED <<store, Broker, Aside>>

\* The job is loaded again and its column written, while the task owns it.
WriteCompleted(w) ==
    /\ AtTask(w, "finish")
    /\ row' = IF row.sp = wrk[w].task
              THEN [row EXCEPT !.sp = "COMPLETED", !.sha = wrk[w].sha] ELSE row
    /\ wrk' = [wrk EXCEPT ![w].pc = "returned", ![w].sha = None]
    /\ UNCHANGED <<store, Broker, Aside>>

\* Mutant: a failing task writes FAILED without asking who owns the upload.
FailUploadUnowned(w) ==
    /\ AtTask(w, "fail")
    /\ row' = [row EXCEPT !.sp = "FAILED"]
    /\ Step(w, "raised")
    /\ UNCHANGED <<store, Broker, Aside>>

FailUpload(w) ==
    /\ AtTask(w, "fail")
    /\ row' = IF row.sp = wrk[w].task THEN [row EXCEPT !.sp = "FAILED"] ELSE row
    /\ Step(w, "raised")
    /\ UNCHANGED <<store, Broker, Aside>>

\* Celery's state of the task follows its return or its exception.
ReportEnd(w) ==
    /\ wrk[w].pc \in {"returned", "raised"}
    /\ celery' = [celery EXCEPT ![wrk[w].task] =
                    IF AtTask(w, "returned") THEN "SUCCESS" ELSE "FAILURE"]
    /\ Rest(w)
    /\ UNCHANGED <<row, store, queue, retries, revoked, Aside>>

\* revoke(terminate=True) kills the process that runs the task, some time later.
TerminateWorker(w) ==
    /\ wrk[w].pc # "idle"
    /\ wrk[w].task \in revoked
    /\ celery' = [celery EXCEPT ![wrk[w].task] = "REVOKED"]
    /\ Rest(w)
    /\ UNCHANGED <<row, store, queue, retries, revoked, Aside>>

\* A process is killed hard; the broker delivers its message again or not.
WorkerDies(w) ==
    /\ MayCrash
    /\ wrk[w].pc # "idle"
    /\ queue' \in {queue, queue \cup {wrk[w].task}}
    /\ Rest(w)
    /\ UNCHANGED <<row, store, retries, revoked, celery, Aside>>

-----------------------------------------------------------------------------
WebStep(h) ==
    \/ RevokeSeen(h) \/ WipeFiles(h) \/ ResetRow(h) \/ StageFile(h)
    \/ PushInput(h) \/ SaveInput(h) \/ PushPlots(h) \/ WriteTaskId(h)
    \/ SubmitUpload(h) \/ EndUploadFailed(h)

TaskStep(w) ==
    \/ PullWorkDir(w) \/ Download(w) \/ HashDownload(w) \/ PushWorkDir(w)
    \/ WriteCompleted(w) \/ FailUpload(w) \/ ReportEnd(w)

SaveStep(s) ==
    \/ LoadForRun(s) \/ QueueRun(s) \/ PullForRun(s) \/ PushForRun(s) \/ SaveForRun(s)
    \/ FailToStart(s) \/ LoadForDownload(s) \/ PullDownload(s) \/ AdoptDownload(s)

Next ==
    \/ \E h \in Handler : StartUpload(h) \/ StartDelete(h) \/ WebStep(h) \/ WebCrash(h)
    \/ StartPoll
    \/ \E u \in Upload : AnswerPoll(u)
    \/ \E s \in Saver : SaveStep(s)
    \/ EndRun \/ ResetRun
    \/ \E w \in Worker : Receive(w) \/ TaskStep(w) \/ TerminateWorker(w) \/ WorkerDies(w)

Spec == Init /\ [][Next]_vars

\* Fair: a request's own steps, the workers, and the poll of the open upload
\* page, which repeats while it shows the upload as running.
Fairness ==
    /\ \A h \in Handler : WF_vars(WebStep(h))
    /\ WF_vars(StartPoll)
    /\ \A u \in Upload : WF_vars(AnswerPoll(u))
    /\ \A w \in Worker : WF_vars(Receive(w)) /\ WF_vars(TaskStep(w))

FairSpec == Spec /\ Fairness
-----------------------------------------------------------------------------
(* Properties *)

\* A finished upload names its download: street edits and derived files are
\* checked against that checksum.  (The upload task's final write against polls,
\* re-uploads and redeliveries.)  The one exception is an upload whose ended
\* task a submit's save has put back: a poll then ends it without a checksum,
\* and adopt_stored_download exists to name one later.
CompletedHasChecksum ==
    row.sp = "COMPLETED" /\ row.sha = None => row.file \in revived

\* Once an upload ended in the row, no late task, redelivered task or late poll
\* changes it: only a request that replaces or deletes the upload does, and one
\* that writes the column as it had loaded it.
EndedUploadIsLeftAlone ==
    [][(row.sp \in {"COMPLETED", "FAILED"} /\ ColumnOf(row)' # ColumnOf(row))
        => \/ \E h \in Handler :
                web[h].pc \in {"reset", "save", "own", "fail"} /\ web'[h] # web[h]
           \/ \E s \in Saver :
                saver[s].pc \in {"save", "record"} /\ saver'[s] # saver[s]]_vars

\* What the column promises: the tasks that had their turn are those no request
\* is about to start.
Before == {"revoke", "wipe", "reset", "stage", "push", "save", "plots", "own"}
Promise == INSTANCE MembershipColumn WITH
    file <- row.file, sp <- row.sp, sha <- row.sha,
    spent <- {u \in Upload : /\ celery[u] # "unused"
                             /\ \A h \in Handler : web[h].up = u => web[h].pc \notin Before},
    held <- {saver[s].seen : s \in {t \in Saver : saver[t].pc # "idle"}}

\* The column describes one upload at a time, a task owns it once, and only the
\* owner completes it, naming its download: requests of several tabs, late and
\* redelivered tasks, retries and polls keep the promise of MembershipColumn,
\* which says what the saves of whole rows may put back.
KeepsColumnPromise == Promise!Spec

\* An upload at work ends, whatever fails, is retried, revoked, polled late or
\* put back, as long as nothing is killed: its task id does not stay in the row,
\* unless it is the id of a task that could not be sent, which a submit that
\* had loaded it has put back.
UploadEnds ==
    row.sp \in Upload ~>
        \/ row.sp \notin Upload
        \/ row.sp \in revived /\ celery[row.sp] = "drawn"

-----------------------------------------------------------------------------
(* What the sources say and the code does not keep: both are violated;     *)
(* UploadPipelineRefused.cfg shows the second.                             *)

\* _write_if_owner says a superseded task finishes without touching the newer
\* upload's state: neither the row nor the stored files.
SupersededTaskTouchesNothing ==
    [][\A w \in Worker :
        wrk[w].pc \in {"push", "finish", "fail"} /\ wrk'[w] # wrk[w]
            /\ row.sp \in Upload \ {wrk[w].task}
            => store'[Remote] = store[Remote] /\ row' = row]_vars

\* _handle_membership_upload says a stale tab is refused before anything is
\* deleted or uploaded: the files of a job that is not PENDING are not wiped.
RefusedBeforeAnythingIsDeleted ==
    [][row.status # "PENDING" =>
        \A h \in Handler : At(h, "wipe") => web'[h].pc # "reset"]_vars
=============================================================================
