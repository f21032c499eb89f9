---------------------------- MODULE RouteOutputs ----------------------------
(***************************************************************************)
(* The outputs of a job: the route a run computed, the GPX file made from  *)
(* it and the direction of travel, on every disk and in the object         *)
(* storage.  The download page and its switch, the map, the GPX route, the *)
(* reset and the uploads of the web pods meet the runs and the upload      *)
(* tasks of the worker pod.                                                *)
(*                                                                         *)
(* A route is named by the run that computed it, a GPX file by its route   *)
(* and direction.  The QR code holds one and the same address for all GPX  *)
(* files of a job and is left out.                                         *)
(***************************************************************************)
EXTENDS Naturals, FiniteSets

CONSTANTS
    Handler,     \* web requests in flight at the same time, with the upload
                 \* tasks they start
    WebDisk,     \* disks of the web pods: any pod may serve a request
    WorkerDisk,  \* disk of the worker pod, one of the web pods' or its own
    None,        \* no file
    OneAtATime,  \* whether users wait for runs, uploads and answers
    MaxRuns,     \* bound: runs
    MaxRequests  \* bound: requests of users

Remote == "remote"
Disk == WebDisk \cup {WorkerDisk}
Place == Disk \cup {Remote}
Run == 1..MaxRuns
Direction == {"forward", "reversed"}
Gpx == [route : Run, direction : Direction]

\* One worker process serves the routing queue.
Worker == "worker"
Actor == Handler \cup {Worker}

ASSUME OutputsAssumption ==
    /\ None \notin Run /\ None \notin Direction /\ None \notin Gpx
    /\ Remote \notin Disk
    /\ Worker \notin Handler
    /\ OneAtATime \in BOOLEAN
    /\ MaxRuns \in Nat /\ MaxRequests \in Nat

VARIABLES
    row,      \* the job's row: its status, and the run it was queued for last
    store,    \* place -> its files
    act,      \* requests and the run at work
    queued,   \* whether a message for the worker waits
    requests  \* requests so far (bound)

vars == <<row, store, act, queued, requests>>

FileName == {"route", "options", "gpx"}
Files == [route : Run \cup {None}, options : Direction \cup {None},
          gpx : Gpx \cup {None}]
NoFiles == [f \in FileName |-> None]

Status == {"PENDING", "RUNNING", "COMPLETED", "FAILED"}
Row == [status : Status, run : 0..MaxRuns]

\* run: of the row a request loaded, or the one at work; want: the switch of the
\* download page; route, direction: what is read for the GPX file or the map.
Process == [pc : {"idle", "reset", "queue", "pull", "push", "send", "turn", "mark",
                  "drop", "direction", "route", "gpx", "mapRoute", "mapOptions",
                  "fetch", "serve", "delete", "write", "hand", "compute", "end"},
            kind : {"page", "toggle", "map", "download", "reset", "submit",
                    "restart", "upload", "plots", "task", "run"},
            disk : Disk, run : 0..MaxRuns, want : Direction,
            route : Run \cup {None}, direction : Direction]

Idle == [pc |-> "idle", kind |-> "page", disk |-> WorkerDisk, run |-> 0,
         want |-> "forward", route |-> None, direction |-> "forward"]

TypeOK ==
    /\ row \in Row
    /\ store \in [Place -> Files]
    /\ act \in [Actor -> Process]
    /\ queued \in BOOLEAN
    /\ requests \in 0..MaxRequests

Init ==
    /\ row = [status |-> "PENDING", run |-> 0]
    /\ store = [p \in Place |-> NoFiles]
    /\ act = [a \in Actor |-> Idle]
    /\ queued = FALSE
    /\ requests = 0

-----------------------------------------------------------------------------
(* Steps that requests and runs share *)

At(a, pc) == act[a].pc = pc
Goto(a, pc) == act' = [act EXCEPT ![a].pc = pc]
Done(a) == act' = [act EXCEPT ![a] = Idle]
Here(a) == store[act[a].disk]
WriteHere(a, f, c) == store' = [store EXCEPT ![act[a].disk][f] = c]

AtRest == \A a \in Actor : At(a, "idle")

\* delete_files: on this disk and in the object storage.
DeleteFiles(a, files) ==
    store' = [p \in Place |->
        IF p \in {act[a].disk, Remote}
        THEN [f \in FileName |-> IF f \in files THEN None ELSE store[p][f]]
        ELSE store[p]]

\* rclone copy: the files of src replace those of dst; nothing is deleted.
Copy(src, dst, files) ==
    store' = [store EXCEPT ![dst] = [f \in FileName |->
        IF f \in files /\ store[src][f] # None THEN store[src][f] ELSE store[dst][f]]]

\* work_dir: the remote copy wins.
Pull(a) ==
    /\ At(a, "pull")
    /\ Copy(Remote, act[a].disk, FileName)
    /\ Goto(a, CASE act[a].kind = "page" -> "direction"
                 [] act[a].kind = "toggle" -> "turn"
                 [] act[a].kind \in {"submit", "restart", "upload", "task"} -> "push"
                 [] act[a].kind = "run" -> "compute")
    /\ UNCHANGED <<row, queued, requests>>

\* upload_work_dir: the whole of it, outputs of runs before a reset included.  A
\* run then writes its end, a submit sends its message, an upload writes its row.
Push(a) ==
    /\ At(a, "push")
    /\ Copy(act[a].disk, Remote, FileName)
    /\ CASE act[a].kind \in {"page", "toggle", "task"} -> Done(a)
         [] act[a].kind \in {"submit", "restart"} -> Goto(a, "send")
         [] act[a].kind = "upload" -> Goto(a, "write")
         [] act[a].kind = "plots" -> Goto(a, "hand")
         [] act[a].kind = "run" -> Goto(a, "end")
    /\ UNCHANGED <<row, queued, requests>>

\* Mutant: no file with options is not read as forward.
StoredDirection(files) == files.options

\* is_route_reversed of the files at a place.
IsReversed(files) == IF files.options = None THEN "forward" ELSE files.options

\* Mutant: the direction is not asked for.
ForgetDirection(a) ==
    /\ At(a, "direction")
    /\ act' = [act EXCEPT ![a].pc = "route", ![a].direction = "forward"]
    /\ UNCHANGED <<row, store, queued, requests>>

\* create_qr_code_routing asks for the direction first ...
ReadDirection(a) ==
    /\ At(a, "direction")
    /\ act' = [act EXCEPT ![a].pc = "route", ![a].direction = IsReversed(Here(a))]
    /\ UNCHANGED <<row, store, queued, requests>>

\* ... and create_gpx reads the route, unless there is a GPX file already.  No
\* route raises: a request shows an error, a run fails.
ReadRoute(a) ==
    /\ At(a, "route")
    /\ IF Here(a).gpx # None THEN Goto(a, "push") /\ UNCHANGED row
       ELSE IF Here(a).route # None
       THEN act' = [act EXCEPT ![a].pc = "gpx", ![a].route = Here(a).route]
            /\ UNCHANGED row
       ELSE /\ Done(a)
            /\ row' = IF act[a].kind = "run" THEN [row EXCEPT !.status = "FAILED"]
                      ELSE row
    /\ UNCHANGED <<store, queued, requests>>

\* Mutant: a change of direction is not pushed.
WriteGpxHere(a) ==
    /\ At(a, "gpx")
    /\ WriteHere(a, "gpx", [route |-> act[a].route, direction |-> act[a].direction])
    /\ IF act[a].kind = "toggle" THEN Done(a) ELSE Goto(a, "push")
    /\ UNCHANGED <<row, queued, requests>>

\* The GPX file is written on this disk; what made it pushes it.
WriteGpx(a) ==
    /\ At(a, "gpx")
    /\ WriteHere(a, "gpx", [route |-> act[a].route, direction |-> act[a].direction])
    /\ Goto(a, "push")
    /\ UNCHANGED <<row, queued, requests>>

-----------------------------------------------------------------------------
(* Requests *)

\* Any pod serves the request.
Begin(h, kind, pc) ==
    /\ At(h, "idle")
    /\ OneAtATime => AtRest
    /\ requests < MaxRequests
    /\ requests' = requests + 1
    /\ \E d \in WebDisk, want \in Direction :
        act' = [act EXCEPT ![h] = [Idle EXCEPT !.pc = pc, !.kind = kind, !.disk = d,
                    !.run = row.run,
                    !.want = IF kind = "toggle" THEN want ELSE "forward"]]
    /\ UNCHANGED <<row, store, queued>>

\* route_download.layout: whatever the status; with one request at a time it is
\* opened by the Next button of a job that is COMPLETED.
OpenDownloadPage(h) ==
    /\ OneAtATime => row.status = "COMPLETED"
    /\ Begin(h, "page", "pull")

\* The switch of the download page.
ToggleDirection(h) ==
    /\ OneAtATime => row.status = "COMPLETED"
    /\ Begin(h, "toggle", "pull")

\* The value the switch has already is a no-op.
KeepDirection(h) ==
    /\ At(h, "turn")
    /\ IF IsReversed(Here(h)) = act[h].want THEN Done(h) ELSE Goto(h, "mark")
    /\ UNCHANGED <<row, store, queued, requests>>

\* set_route_reversed: the direction, ...
MarkDirection(h) ==
    /\ At(h, "mark")
    /\ WriteHere(h, "options", act[h].want)
    /\ Goto(h, "drop")
    /\ UNCHANGED <<row, queued, requests>>

\* Mutant: the GPX file is deleted in the storage only.
DropStoredGpx(h) ==
    /\ At(h, "drop")
    /\ store' = [store EXCEPT ![Remote].gpx = None]
    /\ Goto(h, "direction")
    /\ UNCHANGED <<row, queued, requests>>

\* ... then the GPX file goes, so that it is made again, and is stored.
DropGpx(h) ==
    /\ At(h, "drop")
    /\ DeleteFiles(h, {"gpx"})
    /\ Goto(h, "direction")
    /\ UNCHANGED <<row, queued, requests>>

\* map_layer_data: the route and its direction of a COMPLETED job only.
OpenMap(h) ==
    /\ row.status = "COMPLETED"
    /\ Begin(h, "map", "mapRoute")

PullRoute(h) ==
    /\ At(h, "mapRoute")
    /\ Copy(Remote, act[h].disk, {"route"})
    /\ Goto(h, "mapOptions")
    /\ UNCHANGED <<row, queued, requests>>

\* Mutant: the direction is taken from this pod's disk.
TrustOptions(h) ==
    /\ At(h, "mapOptions")
    /\ act' = [act EXCEPT ![h].pc = "serve", ![h].route = Here(h).route,
                          ![h].direction = IsReversed(Here(h))]
    /\ UNCHANGED <<row, store, queued, requests>>

PullOptions(h) ==
    /\ At(h, "mapOptions")
    /\ Copy(Remote, act[h].disk, {"options"})
    /\ LET options == IF store[Remote].options # None THEN store[Remote].options
                      ELSE Here(h).options
       IN act' = [act EXCEPT ![h].pc = "serve", ![h].route = Here(h).route,
                    ![h].direction = IF options = None THEN "forward" ELSE options]
    /\ UNCHANGED <<row, queued, requests>>

\* download_gpx: the one file is pulled and sent.
DownloadGpx(h) ==
    /\ OneAtATime => row.status = "COMPLETED"
    /\ Begin(h, "download", "fetch")

PullGpx(h) ==
    /\ At(h, "fetch")
    /\ Copy(Remote, act[h].disk, {"gpx"})
    /\ LET gpx == IF store[Remote].gpx # None THEN store[Remote].gpx ELSE Here(h).gpx
       IN IF gpx = None THEN Done(h)
          ELSE act' = [act EXCEPT ![h].pc = "serve", ![h].route = gpx.route,
                                  ![h].direction = gpx.direction]
    /\ UNCHANGED <<row, queued, requests>>

\* The answer reaches the browser.
Serve(h) == At(h, "serve") /\ Done(h) /\ UNCHANGED <<row, store, queued, requests>>

\* perform_reset, and Restart, which goes on to the submit.
ResetJob(h) == Begin(h, "reset", "reset")

RestartComputation(h) ==
    /\ OneAtATime => row.status \in {"COMPLETED", "FAILED"}
    /\ Begin(h, "restart", "reset")

\* reset: refused while a run is on.
MarkPending(h) ==
    /\ At(h, "reset")
    /\ IF row.status = "RUNNING" THEN Done(h) /\ UNCHANGED row
       ELSE row' = [row EXCEPT !.status = "PENDING"] /\ Goto(h, "delete")
    /\ UNCHANGED <<store, queued, requests>>

AfterReset(h) == IF act[h].kind = "restart" THEN Goto(h, "queue") ELSE Done(h)

\* The direction stays: it is a choice of the user.
DeleteOutputs(h) ==
    /\ At(h, "delete")
    /\ DeleteFiles(h, {"route", "gpx"})
    /\ AfterReset(h)
    /\ UNCHANGED <<row, queued, requests>>

\* submit: the page offers Start to a PENDING job.
StartComputation(h) ==
    /\ OneAtATime => row.status = "PENDING"
    /\ Begin(h, "submit", "queue")

MarkQueued(h) ==
    /\ At(h, "queue")
    /\ IF row.status \in {"PENDING", "FAILED"} /\ row.run < MaxRuns
       THEN row' = [status |-> "RUNNING", run |-> row.run + 1] /\ Goto(h, "pull")
       ELSE Done(h) /\ UNCHANGED row
    /\ UNCHANGED <<store, queued, requests>>

Enqueue(h) ==
    /\ At(h, "send")
    /\ queued' = TRUE
    /\ Done(h)
    /\ UNCHANGED <<row, store, requests>>

\* cancel: the row fails, the message and the worker process go.
CancelComputation ==
    /\ OneAtATime => \A h \in Handler : At(h, "idle")
    /\ requests < MaxRequests
    /\ row.status = "RUNNING"
    /\ row' = [row EXCEPT !.status = "FAILED"]
    /\ queued' = FALSE
    /\ Done(Worker)
    /\ requests' = requests + 1
    /\ UNCHANGED store

-----------------------------------------------------------------------------
(* Uploads *)

\* upload_file and the upload of a predictor: offered while the job is PENDING.
UploadInput(h) ==
    /\ row.status = "PENDING"
    /\ Begin(h, "upload", "pull")

\* A file that is not valid, a task that fails or is revoked: nothing is pushed.
\* A task that is retried pulls again.
FailUpload(h) ==
    /\ At(h, "push")
    /\ \/ act[h].kind \in {"upload", "task"} /\ Done(h)
       \/ act[h].kind = "task" /\ Goto(h, "pull")
    /\ UNCHANGED <<row, store, queued, requests>>

\* save_input writes the row after its push, of a PENDING job only.  A predictor
\* is then uploaded; for a membership file the plots are pushed ...
WriteInput(h) ==
    /\ At(h, "write")
    /\ \/ Done(h)
       \/ /\ row.status = "PENDING"
          /\ act' = [act EXCEPT ![h].pc = "push", ![h].kind = "plots"]
    /\ UNCHANGED <<row, store, queued, requests>>

\* ... and its task goes on, on the worker pod.
StartTask(h) ==
    /\ At(h, "hand")
    /\ act' = [act EXCEPT ![h].pc = "pull", ![h].kind = "task", ![h].disk = WorkerDisk]
    /\ UNCHANGED <<row, store, queued, requests>>

-----------------------------------------------------------------------------
(* The run *)

\* A message whose run was cancelled is dropped.
Deliver ==
    /\ queued /\ At(Worker, "idle")
    /\ queued' = FALSE
    /\ IF row.status = "RUNNING"
       THEN act' = [act EXCEPT ![Worker] =
                        [Idle EXCEPT !.pc = "pull", !.kind = "run", !.run = row.run]]
       ELSE UNCHANGED act
    /\ UNCHANGED <<row, store, requests>>

\* The pipeline writes its solution over the last one.
ComputeRoute ==
    /\ At(Worker, "compute")
    /\ WriteHere(Worker, "route", act[Worker].run)
    /\ Goto(Worker, "direction")
    /\ UNCHANGED <<row, queued, requests>>

\* The pipeline or the push raises.
RunFails ==
    /\ act[Worker].pc \in {"compute", "push"}
    /\ row' = [row EXCEPT !.status = "FAILED"]
    /\ Done(Worker)
    /\ UNCHANGED <<store, queued, requests>>

FinishRun ==
    /\ At(Worker, "end")
    /\ row' = [row EXCEPT !.status = "COMPLETED"]
    /\ Done(Worker)
    /\ UNCHANGED <<store, queued, requests>>

-----------------------------------------------------------------------------
RequestStep(h) ==
    \/ OpenDownloadPage(h) \/ ToggleDirection(h) \/ KeepDirection(h)
    \/ MarkDirection(h) \/ DropGpx(h)
    \/ OpenMap(h) \/ PullRoute(h) \/ PullOptions(h)
    \/ DownloadGpx(h) \/ PullGpx(h) \/ Serve(h)
    \/ ResetJob(h) \/ RestartComputation(h) \/ MarkPending(h) \/ DeleteOutputs(h)
    \/ StartComputation(h) \/ MarkQueued(h) \/ Enqueue(h)
    \/ UploadInput(h) \/ FailUpload(h) \/ WriteInput(h) \/ StartTask(h)

SharedStep(a) == Pull(a) \/ Push(a) \/ ReadDirection(a) \/ ReadRoute(a) \/ WriteGpx(a)

Next ==
    \/ \E h \in Handler : RequestStep(h)
    \/ \E a \in Actor : SharedStep(a)
    \/ CancelComputation \/ Deliver \/ ComputeRoute \/ RunFails \/ FinishRun

Spec == Init /\ [][Next]_vars

-----------------------------------------------------------------------------
(* Properties *)

\* The map of a completed job shows the route of its last run in the direction
\* that was chosen, and a downloaded GPX file is the stored one, whatever the
\* serving pod's disk holds: map_layer_data and download_gpx pull what they show
\* first, so files that another pod deleted or replaced do not reappear.
AnswersShowTheStorage ==
    \A h \in Handler :
        At(h, "serve") /\ row.status = "COMPLETED" =>
            CASE act[h].kind = "map" ->
                    /\ act[h].route = row.run
                    /\ act[h].direction = IsReversed(store[Remote])
              [] act[h].kind = "download" ->
                    store[Remote].gpx = [route |-> act[h].route,
                                         direction |-> act[h].direction]

\* Between requests the stored GPX file of the stored route runs in the stored
\* direction: create_gpx keeps a file it finds, so every change of direction has
\* to delete it first, and every regeneration, on any pod or by a run, has to ask
\* for the direction again.
GpxHasTheDirection ==
    LET files == store[Remote] IN
    AtRest /\ row.status = "COMPLETED" /\ files.gpx # None =>
        (files.gpx.route = files.route => files.gpx.direction = IsReversed(files))

\* Between requests a completed job has the route of its last run and a GPX file in
\* the storage, to which its QR code points: a run writes its end after its push,
\* a change of direction makes and pushes the file it deletes, and no page or
\* upload pushes an older route of its pod's disk over it.
CompletedHasItsOutputs ==
    AtRest /\ row.status = "COMPLETED" =>
        store[Remote].route = row.run /\ store[Remote].gpx # None

\* A job that was reset has neither a route nor a GPX file in the storage.  The
\* code does not keep it: an upload, or its task, pushes what another disk still
\* has of them (README.md).  No run of this project checks it.
ResetForgetsTheRoute ==
    AtRest /\ row.status = "PENDING" =>
        store[Remote].route = None /\ store[Remote].gpx = None

\* The stored GPX file of a completed job is made of the route its run computed.
\* The code does not keep it (README.md), so no run of this project checks it.
GpxFollowsTheRun ==
    AtRest /\ row.status = "COMPLETED" =>
        /\ store[Remote].gpx # None
        /\ store[Remote].gpx.route = row.run
=============================================================================
