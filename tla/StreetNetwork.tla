--------------------------- MODULE StreetNetwork ---------------------------
(***************************************************************************)
(* The street network of a job: the downloaded network, the two files      *)
(* derived from it (edited, projected) and their record, on every disk and *)
(* in the object storage, next to the row that names what they must be     *)
(* built from.  Web pods view, edit, submit and delete; the worker pod     *)
(* computes runs and stores a newly downloaded network.                    *)
(*                                                                         *)
(* A file's content is the source it was built from, so two files with the *)
(* same checksum are the same content; Torn is a file that was opened for  *)
(* writing and not written yet.                                            *)
(***************************************************************************)
EXTENDS Naturals, FiniteSets

CONSTANTS
    Handler,     \* web requests that can be in flight at the same time
    Worker,      \* worker processes that compute runs
    WebDisk,     \* disks of the web pods: any pod may serve a request
    WorkerDisk,  \* disk of the worker pod, one of the web pods' or its own
    Intent,      \* what a user may want of the network (the street edits)
    NoEdits,     \* the default intent
    Net,         \* downloads, by checksum
    None,        \* no file, no checksum, no record
    MaxRequests, \* bound: requests of users
    MaxCrashes   \* bound: requests and runs killed half way

Remote == "remote"
Disk == WebDisk \cup {WorkerDisk}
Place == Disk \cup {Remote}

VARIABLES
    row,     \* the job's row
    store,   \* place -> its files
    act,     \* requests and worker processes
    tasks,   \* upload tasks, each named by the network it will download
    message, \* whether a routing message waits
    requests, \* requests so far (bound)
    crashes  \* processes killed so far (bound)

vars == <<row, store, act, tasks, message, requests, crashes>>

Actor == Handler \cup Worker

NetOrNone == Net \cup {None}
Source == [intent : Intent, net : Net]
Torn == [intent |-> NoEdits, net |-> None]
Content == Source \cup {Torn}
Derived == {"edited", "projected"}
FileName == {"net", "record"} \cup Derived

\* The record of a derived file: its source, and the checksum of the file.
Entry == [source : Source, sha : Content]

Record == [Derived -> Entry \cup {None}]

ASSUME StreetAssumption ==
    /\ NoEdits \in Intent
    /\ None \notin Net \cup Source \cup Entry \cup Record
    /\ Remote \notin Disk /\ None \notin Disk
    /\ Handler \cap Worker = {}
    /\ MaxRequests \in Nat /\ MaxCrashes \in Nat

NoEntries == [f \in Derived |-> None]
Files == [net : NetOrNone, edited : Content \cup {None},
          projected : Content \cup {None}, record : Record \cup {None}]
NoFiles == [f \in FileName |-> None]

\* intent: street_edits; net: download_sha256; upload: the task at work, if any.
Job == [intent : Intent, net : NetOrNone, upload : NetOrNone]
Row == [status : {"PENDING", "RUNNING"}, job : Job]

\* disk: where the pod works; job: the row as loaded; owner: whether a run still
\* owns the row; stored: whether the download the job names was to be had when
\* it was needed; the others belong to the file that is being rewritten.
Process == [pc : {"idle", "edit", "queue", "pull", "push", "save", "wipe", "clear",
                  "check", "fetch", "read", "drop", "open", "write", "record",
                  "serve", "project", "compute"},
            kind : {"page", "edit", "submit", "delete", "run"},
            disk : Disk \cup {None}, job : Job, file : Derived,
            source : Source \cup {None}, content : Source \cup {None},
            entries : Record, owner : {"no", "yes"}, stored : {"no", "yes"}]

NoJob == [intent |-> NoEdits, net |-> None, upload |-> None]
Idle == [pc |-> "idle", kind |-> "page", disk |-> None, job |-> NoJob,
         file |-> "edited", source |-> None, content |-> None,
         entries |-> NoEntries, owner |-> "no", stored |-> "yes"]

TypeOK ==
    /\ row \in Row
    /\ store \in [Place -> Files]
    /\ act \in [Actor -> Process]
    /\ tasks \in [Net -> {"unused", "begun", "stored", "over"}]
    /\ message \in {"none", "waits"}
    /\ requests \in 0..MaxRequests
    /\ crashes \in 0..MaxCrashes

Init ==
    /\ row = [status |-> "PENDING", job |-> NoJob]
    /\ store = [p \in Place |-> NoFiles]
    /\ act = [a \in Actor |-> Idle]
    /\ tasks = [n \in Net |-> "unused"]
    /\ message = "none"
    /\ requests = 0
    /\ crashes = 0

-----------------------------------------------------------------------------
(* Steps that requests and runs share *)

At(a, pc) == act[a].pc = pc
Goto(a, pc) == act' = [act EXCEPT ![a].pc = pc]
Done(a) == act' = [act EXCEPT ![a] = Idle]
Here(a) == store[act[a].disk]
WriteHere(a, f, c) == store' = [store EXCEPT ![act[a].disk][f] = c]

\* Any pod serves the request, which keeps the row as it is now.
Load(h, pc, kind) ==
    \E d \in WebDisk :
        act' = [act EXCEPT ![h] = [Idle EXCEPT !.pc = pc, !.kind = kind, !.disk = d,
                                   !.job = row.job]]

\* A process is killed half way; its message is not delivered again.
Crash(a) ==
    /\ crashes < MaxCrashes
    /\ crashes' = crashes + 1
    /\ Done(a)

Killed(a) ==
    /\ ~At(a, "idle")
    /\ Crash(a)
    /\ UNCHANGED <<row, store, tasks, message, requests>>

\* bound: a copy that is killed half way has copied the record only, or
\* everything but the record.
Cuts == {FileName, {"record"}, FileName \ {"record"}}

\* rclone copy: the files of src replace those of dst; nothing is deleted.
Overlay(src, dst, files) ==
    [f \in FileName |-> IF f \in files /\ store[src][f] # None THEN store[src][f]
                        ELSE store[dst][f]]

\* work_dir: the remote copy wins.  A submit pushes next; a page, and a run that
\* loads its job only then, make the derived files current.  The process may be
\* killed with some of the files copied.
Pull(a) ==
    /\ At(a, "pull")
    /\ \E files \in Cuts :
        /\ store' = [store EXCEPT ![act[a].disk] = Overlay(Remote, act[a].disk, files)]
        /\ \/ /\ files = FileName
              /\ \/ act[a].kind = "submit" /\ Goto(a, "push")
                 \/ act[a].kind = "page" /\ Goto(a, "check")
                 \/ /\ act[a].kind = "run"
                    /\ act' = [act EXCEPT ![a].pc = "check", ![a].job = row.job]
              /\ UNCHANGED crashes
           \/ Crash(a)
    /\ UNCHANGED <<row, tasks, message, requests>>

\* upload_work_dir, by a submit and at the end of a run: likewise.
Push(a) ==
    /\ At(a, "push")
    /\ \E files \in Cuts :
        /\ store' = [store EXCEPT ![Remote] = Overlay(act[a].disk, Remote, files)]
        /\ \/ /\ files = FileName
              /\ \/ act[a].kind = "submit" /\ Goto(a, "save")
                 \/ act[a].kind = "run" /\ Done(a)
              /\ UNCHANGED crashes
           \/ Crash(a)
    /\ UNCHANGED <<row, tasks, message, requests>>

EntriesHere(a) == IF Here(a).record = None THEN NoEntries ELSE Here(a).record

\* _source of a job that names a download.
SourceOf(job) == [intent |-> job.intent, net |-> job.net]

\* Mutant: the record is trusted without the checksum of the file.
LooksCurrent(d, f, source) ==
    /\ store[d][f] # None
    /\ store[d].record # None
    /\ store[d].record[f] # None
    /\ store[d].record[f].source = source

\* The file is there, and its record names this source and these very bytes.
IsCurrent(d, f, source) ==
    /\ store[d][f] # None
    /\ store[d].record # None
    /\ store[d].record[f] = [source |-> source, sha |-> store[d][f]]

\* After refresh: a run goes on to project, a page reads the edited network.
Refreshed(a) == Goto(a, IF act[a].kind = "run" THEN "project" ELSE "serve")

\* Mutant: an edited file that is here is current.
CheckIfPresent(a) ==
    /\ At(a, "check")
    /\ IF act[a].job.net = None
       THEN IF act[a].kind = "run" THEN Goto(a, "compute") ELSE Done(a)
       ELSE IF Here(a).edited # None THEN Refreshed(a)
       ELSE Goto(a, "fetch")
    /\ UNCHANGED <<row, store, tasks, message, requests, crashes>>

\* refresh: nothing to do without a download, or while the file is current.
Check(a) ==
    /\ At(a, "check")
    /\ IF act[a].job.net = None
       THEN IF act[a].kind = "run" THEN Goto(a, "compute") ELSE Done(a)
       ELSE IF IsCurrent(act[a].disk, "edited", SourceOf(act[a].job)) THEN Refreshed(a)
       ELSE Goto(a, "fetch")
    /\ UNCHANGED <<row, store, tasks, message, requests, crashes>>

Stored(a) ==
    IF act[a].job.net \in {None, Here(a).net, store[Remote].net} THEN "yes" ELSE "no"

\* Mutant: a download that is here is used, whichever it is.
FetchIfMissing(a) ==
    /\ At(a, "fetch")
    /\ LET net == IF Here(a).net = None THEN store[Remote].net ELSE Here(a).net
       IN /\ WriteHere(a, "net", net)
          /\ IF net # None
             THEN act' = [act EXCEPT ![a].pc = "read", ![a].stored = Stored(a),
                            ![a].source = [intent |-> act[a].job.intent, net |-> net]]
             ELSE IF act[a].kind = "run" THEN Goto(a, "compute") ELSE Done(a)
    /\ UNCHANGED <<row, tasks, message, requests, crashes>>

\* Mutant: the pull is taken to have brought a download.
FetchUnchecked(a) ==
    /\ At(a, "fetch")
    /\ LET net == IF Here(a).net # act[a].job.net /\ store[Remote].net # None
                  THEN store[Remote].net ELSE Here(a).net
       IN /\ WriteHere(a, "net", net)
          /\ act' = [act EXCEPT ![a].pc = "read", ![a].stored = Stored(a),
                        ![a].source = [intent |-> act[a].job.intent, net |-> net]]
    /\ UNCHANGED <<row, tasks, message, requests, crashes>>

\* _pull_download_if_other: the local download is made the one the row names;
\* the source names the download that is here afterwards, if there is one.
Fetch(a) ==
    /\ At(a, "fetch")
    /\ LET net == IF Here(a).net # act[a].job.net /\ store[Remote].net # None
                  THEN store[Remote].net ELSE Here(a).net
       IN /\ WriteHere(a, "net", net)
          /\ IF net # None
             THEN act' = [act EXCEPT ![a].pc = "read", ![a].stored = Stored(a),
                            ![a].source = [intent |-> act[a].job.intent, net |-> net]]
             ELSE IF act[a].kind = "run" THEN Goto(a, "compute") ELSE Done(a)
    /\ UNCHANGED <<row, tasks, message, requests, crashes>>

\* _derive: the features of the local download, by the intent.
ReadDownload(a) ==
    /\ At(a, "read")
    /\ IF Here(a).net = None THEN Done(a)
       ELSE act' = [act EXCEPT ![a].pc = "drop",
                    ![a].content = [intent |-> act[a].job.intent, net |-> Here(a).net]]
    /\ UNCHANGED <<row, store, tasks, message, requests, crashes>>

\* _rewriting: the file's record is dropped before the file is written.
DropRecord(a) ==
    /\ At(a, "drop")
    /\ LET rest == [EntriesHere(a) EXCEPT ![act[a].file] = None]
       IN /\ act' = [act EXCEPT ![a].pc = "open", ![a].entries = rest]
          /\ IF EntriesHere(a) # rest THEN WriteHere(a, "record", rest)
             ELSE UNCHANGED store
    /\ UNCHANGED <<row, tasks, message, requests, crashes>>

OpenFile(a) ==
    /\ At(a, "open")
    /\ WriteHere(a, act[a].file, Torn)
    /\ Goto(a, "write")
    /\ UNCHANGED <<row, tasks, message, requests, crashes>>

WriteFile(a) ==
    /\ At(a, "write")
    /\ WriteHere(a, act[a].file, act[a].content)
    /\ act' = [act EXCEPT ![a].pc = "record", ![a].content = None]
    /\ UNCHANGED <<row, tasks, message, requests, crashes>>

\* The record as it was read before, with the checksum of the file on the disk.
WriteRecord(a) ==
    /\ At(a, "record")
    /\ LET sha == Here(a)[act[a].file]
           entry == [source |-> act[a].source, sha |-> sha]
           rewritten == [act EXCEPT ![a].source = None, ![a].entries = NoEntries]
       IN IF sha = None
          THEN Done(a) /\ UNCHANGED store
          ELSE /\ WriteHere(a, "record", [act[a].entries EXCEPT ![act[a].file] = entry])
               /\ act' = [rewritten EXCEPT ![a].file = "edited",
                    ![a].pc = IF act[a].kind # "run" THEN "serve"
                              ELSE IF act[a].file = "edited" THEN "project"
                              ELSE "compute"]
    /\ UNCHANGED <<row, tasks, message, requests, crashes>>

-----------------------------------------------------------------------------
(* Requests *)

Request ==
    /\ requests < MaxRequests
    /\ requests' = requests + 1
    /\ UNCHANGED <<row, store, tasks, message, crashes>>

\* viewport_fc reads at once; the layout of the page pulls first.
OpenPage(h) ==
    /\ At(h, "idle")
    /\ \/ Load(h, "check", "page")
       \/ Load(h, "pull", "page")
    /\ Request

\* An edit callback of a job that is PENDING, with another intent.
StartEdit(h) ==
    /\ At(h, "idle")
    /\ row.status = "PENDING"
    /\ \E i \in Intent \ {row.job.intent}, d \in WebDisk :
        act' = [act EXCEPT ![h] = [Idle EXCEPT !.pc = "edit", !.kind = "edit", !.disk = d,
                                   !.job = [row.job EXCEPT !.intent = i]]]
    /\ Request

\* apply_edits: the row first, while it is PENDING; then the file is derived.
ApplyEdits(h) ==
    /\ At(h, "edit")
    /\ \/ /\ row.status = "PENDING"
          /\ row' = [row EXCEPT !.job.intent = act[h].job.intent]
          /\ Goto(h, "fetch")
       \/ /\ row.status # "PENDING"
          /\ Done(h)
          /\ UNCHANGED row
    /\ UNCHANGED <<store, tasks, message, requests, crashes>>

\* The page gets the features of the edited network.
ServePage(h) ==
    /\ At(h, "serve")
    /\ Done(h)
    /\ UNCHANGED <<row, store, tasks, message, requests, crashes>>

\* submit: the row is queued, the work dir pulled and pushed, the row saved as
\* the request loaded it before, the message sent.
StartSubmit(h) ==
    /\ At(h, "idle")
    /\ row.status = "PENDING"
    /\ Load(h, "queue", "submit")
    /\ Request

MarkQueued(h) ==
    /\ At(h, "queue")
    /\ \/ /\ row.status = "PENDING"
          /\ row' = [row EXCEPT !.status = "RUNNING"]
          /\ Goto(h, "pull")
       \/ /\ row.status # "PENDING"
          /\ Done(h)
          /\ UNCHANGED row
    /\ UNCHANGED <<store, tasks, message, requests, crashes>>

SaveAndEnqueue(h) ==
    /\ At(h, "save")
    /\ row' = [row EXCEPT !.job = act[h].job]
    /\ message' = "waits"
    /\ Done(h)
    /\ UNCHANGED <<store, tasks, requests, crashes>>

\* delete_membership, alone or before an upload: the task the loaded row names
\* is revoked, the files go here and in the storage, then the row follows.
StartDelete(h) ==
    /\ At(h, "idle")
    /\ row.status = "PENDING"
    /\ Load(h, "wipe", "delete")
    /\ Request

WipeFiles(h) ==
    /\ At(h, "wipe")
    /\ tasks' = [n \in Net |-> IF n = act[h].job.upload THEN "over" ELSE tasks[n]]
    /\ store' = [store EXCEPT ![act[h].disk] = NoFiles, ![Remote] = NoFiles]
    /\ Goto(h, "clear")
    /\ UNCHANGED <<row, message, requests, crashes>>

\* While the row is PENDING; an upload then names its task in the row.
ClearRow(h) ==
    /\ At(h, "clear")
    /\ Done(h)
    /\ \/ /\ row.status = "PENDING"
          /\ row' = [row EXCEPT !.job = NoJob]
          /\ UNCHANGED tasks
       \/ /\ row.status = "PENDING"
          /\ \E n \in Net :
                /\ tasks[n] = "unused"
                /\ tasks' = [tasks EXCEPT ![n] = "begun"]
                /\ row' = [row EXCEPT !.job = [NoJob EXCEPT !.upload = n]]
       \/ /\ row.status # "PENDING"
          /\ UNCHANGED <<row, tasks>>
    /\ UNCHANGED <<store, message, requests, crashes>>

-----------------------------------------------------------------------------
(* The worker pod *)

\* A run claims the row, or drops the message, and pulls the work dir.
StartRun(w) ==
    /\ At(w, "idle")
    /\ message = "waits"
    /\ message' = "none"
    /\ act' = IF row.status = "RUNNING"
              THEN [act EXCEPT ![w] = [Idle EXCEPT !.pc = "pull", !.kind = "run",
                                       !.disk = WorkerDisk, !.owner = "yes"]]
              ELSE act
    /\ UNCHANGED <<row, store, tasks, requests, crashes>>

\* ensure_projected: the projected file shares the edited file's source; a
\* missing record, or an edited file that cannot be parsed, raises.
Project(w) ==
    /\ At(w, "project")
    /\ LET entry == EntriesHere(w)["edited"]
       IN IF entry = None THEN Done(w)
          ELSE IF IsCurrent(act[w].disk, "projected", entry.source)
          THEN Goto(w, "compute")
          ELSE IF Here(w).edited \in {None, Torn} THEN Done(w)
          ELSE act' = [act EXCEPT ![w].pc = "drop", ![w].file = "projected",
                        ![w].source = entry.source, ![w].content = Here(w).edited]
    /\ UNCHANGED <<row, store, tasks, message, requests, crashes>>

\* The pipeline reads the projected file; the run then pushes the work dir.
ComputeRoute(w) ==
    /\ At(w, "compute")
    /\ IF Here(w).projected \in {None, Torn} THEN Done(w)
       ELSE act' = [act EXCEPT ![w] = [Idle EXCEPT !.pc = "push", !.kind = "run",
                                                   !.disk = WorkerDisk]]
    /\ UNCHANGED <<row, store, tasks, message, requests, crashes>>

\* A run is over (its own end, a cancel, the sweep) and the job was reset; the
\* process that computed it may not know.
RunIsOver ==
    /\ row.status = "RUNNING"
    /\ row' = [row EXCEPT !.status = "PENDING"]
    /\ act' = [a \in Actor |-> [act[a] EXCEPT !.owner = "no"]]
    /\ UNCHANGED <<store, tasks, message, requests, crashes>>

\* The upload task: the work dir is pulled, the network replaces the one there,
\* the work dir is pushed ...
StoreNetwork(n) ==
    /\ tasks[n] = "begun"
    /\ tasks' = [tasks EXCEPT ![n] = "stored"]
    /\ LET files == [f \in FileName |->
                        IF f = "net" THEN n
                        ELSE IF store[Remote][f] = None THEN store[WorkerDisk][f]
                        ELSE store[Remote][f]]
       IN store' = [store EXCEPT ![WorkerDisk] = files, ![Remote] = files]
    /\ UNCHANGED <<row, act, message, requests, crashes>>

\* ... and the row names it, while the task owns the upload.
NameNetwork(n) ==
    /\ tasks[n] = "stored"
    /\ tasks' = [tasks EXCEPT ![n] = "over"]
    /\ row' = IF row.job.upload = n
              THEN [row EXCEPT !.job.net = n, !.job.upload = None] ELSE row
    /\ UNCHANGED <<store, act, message, requests, crashes>>

-----------------------------------------------------------------------------
Rewriting(a) ==
    \/ Check(a) \/ Fetch(a) \/ ReadDownload(a) \/ DropRecord(a) \/ OpenFile(a)
    \/ WriteFile(a) \/ WriteRecord(a)

RequestStep(h) ==
    \/ OpenPage(h) \/ StartEdit(h) \/ ApplyEdits(h) \/ ServePage(h)
    \/ StartSubmit(h) \/ MarkQueued(h) \/ SaveAndEnqueue(h)
    \/ StartDelete(h) \/ WipeFiles(h) \/ ClearRow(h)

Next ==
    \/ \E a \in Actor : Pull(a) \/ Push(a) \/ Rewriting(a) \/ Killed(a)
    \/ \E h \in Handler : RequestStep(h)
    \/ \E w \in Worker : StartRun(w) \/ Project(w) \/ ComputeRoute(w)
    \/ RunIsOver
    \/ \E n \in Net : StoreNetwork(n) \/ NameNetwork(n)

Spec == Init /\ [][Next]_vars
-----------------------------------------------------------------------------
(* Properties *)

\* The row is the authority: a derived file that looks current for the intent
\* and the download the row names was built from them, on every disk, whatever
\* was pulled over it, left half written or left over from a deleted network.
CurrentFilesAreTrue ==
    \A d \in Disk, f \in Derived :
        /\ row.job.net # None
        /\ IsCurrent(d, f, SourceOf(row.job))
        => store[d][f] = SourceOf(row.job)

\* Whenever the download the row named was to be had, no page shows a network
\* derived from another download or from an older intent, on whichever pod.
PagesShowTheRow ==
    \A h \in Handler :
        /\ At(h, "serve")
        /\ act[h].job.net # None /\ act[h].stored = "yes"
        => Here(h).edited = SourceOf(act[h].job)

\* Under the same condition, a run that still owns the row computes on the
\* projection of the download and the intent it loaded, whatever the web pods
\* pushed and its own disk held before.
RunComputesItsInput ==
    \A w \in Worker :
        /\ At(w, "compute") /\ act[w].owner = "yes"
        /\ act[w].job.net # None /\ act[w].stored = "yes"
        /\ Here(w).projected # None
        => Here(w).projected = SourceOf(act[w].job)

-----------------------------------------------------------------------------
(* What the sources say and the code does not keep (the violation run) *)

\* street_selector.py says a half-written file never looks current: no record
\* of any source vouches for the bytes of a file that is being written.
HalfWrittenIsNeverCurrent ==
    \A d \in Disk, f \in Derived :
        store[d][f] = Torn => \A source \in Source : ~IsCurrent(d, f, source)
=============================================================================
