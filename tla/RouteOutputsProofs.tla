------------------------- MODULE RouteOutputsProofs -------------------------
(***************************************************************************)
(* Proofs about RouteOutputs: its types for any number of requests at      *)
(* once, and its safety properties for users who wait for their answers    *)
(* and runs (OneAtATime), for any pods, requests and runs.                 *)
(***************************************************************************)
EXTENDS RouteOutputs, TLAPS

\* The steps of each kind of request, and of a run.
Steps ==
    [page     |-> {"pull", "direction", "route", "gpx", "push"},
     toggle   |-> {"pull", "turn", "mark", "drop", "direction", "route", "gpx", "push"},
     map      |-> {"mapRoute", "mapOptions", "serve"},
     download |-> {"fetch", "serve"},
     reset    |-> {"reset", "delete"},
     submit   |-> {"queue", "pull", "push", "send"},
     restart  |-> {"reset", "delete", "queue", "pull", "push", "send"},
     upload   |-> {"pull", "push", "write"},
     plots    |-> {"push", "hand"},
     task     |-> {"pull", "push"},
     run      |-> {"pull", "compute", "direction", "route", "gpx", "push", "end"}]

\* A process p of a is at a step of its kind, and has a route to make a GPX file
\* of; a run has a number.
Proper(a, p) ==
    /\ p.pc # "idle" =>
        /\ p.pc \in Steps[p.kind]
        /\ a = Worker <=> p.kind = "run"
        /\ a = Worker => p.run \in Run
    /\ p.pc = "gpx" => p.route \in Run

\* The types that are kept: a run at work has a number.
TypeInv ==
    /\ TypeOK
    /\ row.status = "RUNNING" => row.run \in Run
    /\ \A a \in Actor : Proper(a, act[a])

Busy(a) == ~At(a, "idle")

\* An upload, from the file that is sent to the end of its task.
Uploading == {"upload", "plots", "task"}

-----------------------------------------------------------------------------
(* Users who wait *)

\* Who is at work, in which status of the row.
TurnInv ==
    /\ \A h, g \in Handler : Busy(h) /\ Busy(g) => h = g
    /\ queued => ~Busy(Worker)
    /\ queued \/ Busy(Worker) =>
        /\ row.status = "RUNNING"
        /\ \A h \in Handler : Busy(h) => At(h, "reset")
    /\ Busy(Worker) => act[Worker].run = row.run
    /\ \A h \in Handler : Busy(h) =>
        /\ act[h].kind \in {"page", "toggle", "map", "download"} => row.status = "COMPLETED"
        /\ act[h].pc \in {"delete", "queue"} => row.status = "PENDING"
        /\ act[h].kind \in Uploading => row.status = "PENDING"
        /\ act[h].kind \in {"submit", "restart"} /\ act[h].pc \in {"pull", "push", "send"}
            => row.status = "RUNNING"

\* The files have a GPX file of this run in their own direction, or none of it.
RightWay(files, run) ==
    files.gpx # None /\ files.gpx.route = run => files.gpx.direction = IsReversed(files)

\* What a process p relies on between its steps: its disk's files and the
\* storage's.
Work(p, files, remote, run) ==
    LET makes == \/ p.pc \in {"direction", "route", "gpx"}
                 \/ p.pc = "push" /\ p.kind \in {"page", "toggle", "run"}
    IN /\ \/ p.pc \in {"turn", "mark", "compute", "write"}
          \/ p.pc = "push" /\ p.kind # "toggle"
          \/ makes /\ p.kind # "toggle"
          => files.options = remote.options
       /\ p.pc = "drop" \/ (makes /\ p.kind = "toggle") => files.options # None
       /\ makes \/ p.pc \in {"turn", "mark", "drop", "mapOptions"} => files.route = run
       /\ makes => RightWay(files, run)
       /\ p.pc \in {"route", "gpx"} => p.direction = IsReversed(files)
       /\ p.pc = "gpx" => p.route = run
       /\ makes /\ p.pc = "push" => files.gpx # None
       /\ p.pc = "end" => remote.route = run /\ remote.gpx # None
       /\ p.pc = "serve" =>
            \/ p.kind = "map" /\ p.route = run /\ p.direction = IsReversed(remote)
            \/ /\ p.kind = "download"
               /\ remote.gpx = [route |-> p.route, direction |-> p.direction]

WorkInv == \A a \in Actor : Work(act[a], Here(a), store[Remote], row.run)

\* Until a run has made its GPX file there is none of it, on any disk.
GpxAge == \A p \in Place : store[p].gpx # None =>
    /\ store[p].gpx.route <= row.run
    /\ row.status = "RUNNING" /\ act[Worker].pc \notin {"push", "end"}
        => store[p].gpx.route < row.run

\* A job that has run has a route and a GPX file in the storage, but for a GPX file
\* that is made again.
Turning(h, pcs) == act[h].kind = "toggle" /\ act[h].pc \in pcs
Changed == {"drop", "direction", "route", "gpx", "push"}
Kept ==
    row.status = "COMPLETED" =>
        /\ row.run \in Run /\ store[Remote].route = row.run
        /\ store[Remote].gpx # None \/ \E h \in Handler : Turning(h, Changed \ {"drop"})

\* No disk has a direction that the storage lacks, but for one that is changed.
OptionsStored ==
    store[Remote].options = None =>
        \A d \in Disk : \/ store[d].options = None
                        \/ \E h \in Handler : Turning(h, Changed) /\ act[h].disk = d

\* An upload can bring an old GPX file back, before the next run.
StoredRightWay == row.status # "PENDING" => RightWay(store[Remote], row.run)

StorageInv == GpxAge /\ Kept /\ OptionsStored /\ StoredRightWay

OutputsInv == TurnInv /\ WorkInv /\ StorageInv

-----------------------------------------------------------------------------
(* Files *)

\* A transfer leaves files, changes one place, and replaces what the source has.
LEMMA CopyIs ==
    ASSUME store \in [Place -> Files], NEW src \in Place, NEW dst \in Place, NEW files,
           Copy(src, dst, files)
    PROVE  /\ store' \in [Place -> Files]
           /\ \A p \in Place : p # dst => store'[p] = store[p]
           /\ \A f \in FileName : store'[dst][f] =
                IF f \in files /\ store[src][f] # None THEN store[src][f] ELSE store[dst][f]
           /\ store'[dst] \in Files
<1> DEFINE new == [f \in FileName |->
        IF f \in files /\ store[src][f] # None THEN store[src][f] ELSE store[dst][f]]
<1>1. new \in Files
  BY DEF Files, FileName
<1>2. store' = [store EXCEPT ![dst] = new]
  BY DEF Copy
<1>3. \A f \in FileName : new[f] =
        IF f \in files /\ store[src][f] # None THEN store[src][f] ELSE store[dst][f]
  OBVIOUS
<1> HIDE DEF new
<1> QED BY <1>1, <1>2, <1>3

\* One file of a process's disk is written.
LEMMA WriteIs ==
    ASSUME store \in [Place -> Files], NEW a, act[a].disk \in Place,
           NEW f \in FileName, NEW c, WriteHere(a, f, c),
           CASE f = "route" -> c \in Run \cup {None}
             [] f = "options" -> c \in Direction \cup {None}
             [] f = "gpx" -> c \in Gpx \cup {None}
    PROVE  /\ store' \in [Place -> Files]
           /\ \A p \in Place : p # act[a].disk => store'[p] = store[p]
           /\ \A g \in FileName :
                store'[act[a].disk][g] = IF g = f THEN c ELSE store[act[a].disk][g]
<1> DEFINE d == act[a].disk
           new == [store[d] EXCEPT ![f] = c]
<1>1. new \in Files /\ \A g \in FileName : new[g] = IF g = f THEN c ELSE store[d][g]
  BY DEF Files, FileName
<1>2. store' = [store EXCEPT ![d] = new]
  BY DEF WriteHere
<1> HIDE DEF new
<1> QED BY <1>1, <1>2

\* Files are deleted on the disk of a process and in the storage.
LEMMA DeleteIs ==
    ASSUME store \in [Place -> Files], NEW a, NEW files, DeleteFiles(a, files)
    PROVE  /\ store' \in [Place -> Files]
           /\ \A p \in Place, f \in FileName : store'[p][f] =
                IF p \in {act[a].disk, Remote} /\ f \in files THEN None ELSE store[p][f]
<1> DEFINE gone(p) == [f \in FileName |-> IF f \in files THEN None ELSE store[p][f]]
<1>1. \A p \in Place : gone(p) \in Files
  BY DEF Files, FileName
<1>2. \A p \in Place : store'[p] = IF p \in {act[a].disk, Remote} THEN gone(p) ELSE store[p]
  BY DEF DeleteFiles
<1>3. \A p \in Place, f \in FileName :
        gone(p)[f] = IF f \in files THEN None ELSE store[p][f]
  OBVIOUS
<1>4. store' = [p \in Place |-> store'[p]]
  BY DEF DeleteFiles
<1> HIDE DEF gone
<1> QED BY <1>1, <1>2, <1>3, <1>4

-----------------------------------------------------------------------------
(* Types *)

\* It holds at first.
LEMMA TypeInit == Init => TypeInv
<1> SUFFICES ASSUME Init PROVE TypeInv
  OBVIOUS
<1>1. Idle \in Process /\ Idle.pc = "idle"
  BY OutputsAssumption DEF Idle, Process, Disk, Direction
<1>2. NoFiles \in Files
  BY DEF NoFiles, Files, FileName
<1>3. row \in Row /\ row.status = "PENDING" /\ requests \in 0..MaxRequests
  BY OutputsAssumption DEF Init, Row, Status
<1>4. \A a \in Actor : act[a] = Idle
  BY DEF Init
<1>5. \A a \in Actor : Proper(a, act[a])
  BY <1>1, <1>4 DEF Proper
<1> QED BY <1>1, <1>2, <1>3, <1>5 DEF Init, TypeInv, TypeOK

ActTypes == act \in [Actor -> Process] /\ \A a \in Actor : Proper(a, act[a])

\* A process that goes on as another proper one.
LEMMA ActMoves ==
    ASSUME TypeInv, NEW a \in Actor, NEW new \in Process, Proper(a, new),
           act' = [act EXCEPT ![a] = new]
    PROVE  ActTypes'
BY DEF ActTypes, TypeInv, TypeOK, Proper

\* A process that ends.
LEMMA DoneTypes ==
    ASSUME TypeInv, NEW a \in Actor, Done(a)
    PROVE  ActTypes' /\ act' = [act EXCEPT ![a] = Idle] /\ Idle.pc = "idle"
<1>1. Idle \in Process /\ Idle.pc = "idle"
  BY OutputsAssumption DEF Idle, Process, Disk, Direction
<1>2. Proper(a, Idle)
  BY <1>1 DEF Proper
<1> QED BY <1>1, <1>2, ActMoves DEF Done

\* The steps of a kind are steps of a process.
LEMMA StepsAre ==
    ASSUME NEW p \in Process, NEW pc \in Steps[p.kind]
    PROVE  /\ pc # "idle" /\ [p EXCEPT !.pc = pc] \in Process
           /\ [p EXCEPT !.pc = pc] = [pc |-> pc, kind |-> p.kind, disk |-> p.disk,
                    run |-> p.run, want |-> p.want, route |-> p.route,
                    direction |-> p.direction]
BY DEF Process, Steps

\* A process that goes on to a step of its kind.
LEMMA GotoTypes ==
    ASSUME TypeInv, NEW a \in Actor, Busy(a), NEW pc \in Steps[act[a].kind], pc # "gpx",
           Goto(a, pc)
    PROVE  ActTypes'
<1> DEFINE new == [act[a] EXCEPT !.pc = pc]
<1>1. act[a] \in Process /\ Proper(a, act[a]) /\ act' = [act EXCEPT ![a] = new]
  BY DEF TypeInv, TypeOK, Goto
<1>2. /\ new \in Process /\ new.kind = act[a].kind /\ new.run = act[a].run
      /\ new.pc = pc
  BY <1>1, StepsAre
<1>3. Proper(a, new)
  BY <1>1, <1>2 DEF Proper, Busy, At
<1> HIDE DEF new
<1> QED BY <1>1, <1>2, <1>3, ActMoves

\* Only requests and the run of their kind are at these steps.
LEMMA KindsAt ==
    ASSUME NEW a, NEW p \in Process, Proper(a, p)
    PROVE  /\ p.pc = "pull" =>
                p.kind \in {"page", "toggle", "submit", "restart", "upload", "task", "run"}
           /\ p.pc = "push" =>
                p.kind \in {"page", "toggle", "submit", "restart", "run"} \cup Uploading
           /\ p.pc \in {"direction", "route", "gpx"} => p.kind \in {"page", "toggle", "run"}
           /\ p.pc \in {"turn", "mark", "drop"} => p.kind = "toggle"
           /\ p.pc \in {"mapRoute", "mapOptions"} => p.kind = "map"
           /\ p.pc = "fetch" => p.kind = "download"
           /\ p.pc = "serve" => p.kind \in {"map", "download"}
           /\ p.pc \in {"reset", "delete"} => p.kind \in {"reset", "restart"}
           /\ p.pc \in {"queue", "send"} => p.kind \in {"submit", "restart"}
           /\ p.pc \in {"compute", "end"} => p.kind = "run"
           /\ p.pc = "write" => p.kind = "upload"
           /\ p.pc = "hand" => p.kind = "plots"
BY DEF Process, Steps, Proper, Uploading

\* A request begins at the first step of its kind.
LEMMA BeginTypes ==
    ASSUME TypeInv, NEW h \in Handler, NEW kind, NEW pc, Begin(h, kind, pc),
           <<kind, pc>> \in {<<"page", "pull">>, <<"toggle", "pull">>, <<"map", "mapRoute">>,
                <<"download", "fetch">>, <<"reset", "reset">>, <<"restart", "reset">>,
                <<"submit", "queue">>, <<"upload", "pull">>}
    PROVE  TypeInv'
<1>1. Idle \in Process /\ Idle.route = None /\ h \in Actor /\ h # Worker
  BY OutputsAssumption DEF Idle, Process, Disk, Direction, Actor
<1>2. PICK d \in WebDisk, want \in Direction :
        act' = [act EXCEPT ![h] = [Idle EXCEPT !.pc = pc, !.kind = kind, !.disk = d,
                    !.run = row.run,
                    !.want = IF kind = "toggle" THEN want ELSE "forward"]]
  BY DEF Begin
<1> DEFINE wish == IF kind = "toggle" THEN want ELSE "forward"
           new == [Idle EXCEPT !.pc = pc, !.kind = kind, !.disk = d,
                    !.run = row.run, !.want = wish]
<1>3. row.run \in 0..MaxRuns /\ d \in Disk /\ wish \in Direction
  BY DEF TypeInv, TypeOK, Row, Disk, Direction
<1> HIDE DEF wish
<1>4. new \in Process /\ new.pc = pc /\ new.kind = kind
  BY <1>1, <1>3 DEF Process
<1>5. pc # "gpx" /\ kind # "run" /\ pc \in Steps[kind]
  BY DEF Steps
<1>6. Proper(h, new)
  BY <1>1, <1>4, <1>5 DEF Proper
<1>7. act' = [act EXCEPT ![h] = new]
  BY <1>2 DEF wish
<1> HIDE DEF new
<1>8. ActTypes'
  BY <1>1, <1>4, <1>6, <1>7, ActMoves
<1>9. requests' \in 0..MaxRequests
  BY OutputsAssumption DEF Begin, TypeInv, TypeOK
<1> QED BY <1>8, <1>9 DEF Begin, TypeInv, TypeOK, ActTypes

\* A process that has read a route, or its direction.
LEMMA ReadTypes ==
    ASSUME TypeInv, NEW a \in Actor, Busy(a), NEW pc \in Steps[act[a].kind],
           NEW route \in Run \cup {None}, NEW direction \in Direction,
           pc = "gpx" => route \in Run,
           act' = [act EXCEPT ![a] = [act[a] EXCEPT !.pc = pc, !.route = route,
                                                    !.direction = direction]]
    PROVE  ActTypes'
<1> DEFINE new == [act[a] EXCEPT !.pc = pc, !.route = route, !.direction = direction]
<1>1. act[a] \in Process /\ Proper(a, act[a])
  BY DEF TypeInv, TypeOK
<1>2. pc # "idle" /\ [act[a] EXCEPT !.pc = pc] \in Process
  BY <1>1, StepsAre
<1>3. /\ new \in Process /\ new.kind = act[a].kind /\ new.run = act[a].run
      /\ new.pc = pc /\ new.route = route
  BY <1>1, <1>2 DEF Process
<1>4. Proper(a, new)
  BY <1>1, <1>2, <1>3 DEF Proper, Busy, At
<1>5. act' = [act EXCEPT ![a] = new]
  OBVIOUS
<1> HIDE DEF new
<1> QED BY <1>3, <1>4, <1>5, ActMoves

\* What is read on a disk, and the direction it stands for.
LEMMA FilesAre ==
    ASSUME store \in [Place -> Files]
    PROVE  \A p \in Place :
            /\ store[p].route \in Run \cup {None} /\ store[p].gpx \in Gpx \cup {None}
            /\ store[p].options \in Direction \cup {None}
            /\ IsReversed(store[p]) \in Direction
            /\ store[p].gpx # None => store[p].gpx.route \in Run
            /\ store[p].gpx # None => store[p].gpx.direction \in Direction
BY DEF Files, IsReversed, Direction, Gpx

\* Every step of a request.
LEMMA TypeRequestStep ==
    ASSUME TypeInv, NEW h \in Handler, RequestStep(h)
    PROVE  TypeInv'
<1>T. /\ h \in Actor /\ h # Worker /\ act[h] \in Process /\ Proper(h, act[h])
      /\ act[h].disk \in Disk /\ Disk \subseteq Place /\ Remote \in Place
      /\ row \in Row /\ store \in [Place -> Files]
  BY OutputsAssumption DEF Actor, TypeInv, TypeOK, Process, Place
<1>K. /\ At(h, "turn") \/ At(h, "mark") \/ At(h, "drop") => act[h].kind = "toggle"
      /\ At(h, "mapRoute") \/ At(h, "mapOptions") => act[h].kind = "map"
      /\ At(h, "fetch") => act[h].kind = "download"
      /\ At(h, "reset") \/ At(h, "delete") => act[h].kind \in {"reset", "restart"}
      /\ At(h, "queue") \/ At(h, "send") => act[h].kind \in {"submit", "restart"}
  BY <1>T, KindsAt DEF At
<1>A. ASSUME ActTypes', store' \in [Place -> Files],
             UNCHANGED <<row, queued, requests>>
      PROVE  TypeInv'
  BY <1>A DEF ActTypes, TypeInv, TypeOK
<1>G. ASSUME NEW pc, pc # "gpx", pc \in Steps[act[h].kind], Goto(h, pc), Busy(h)
      PROVE  ActTypes'
  BY <1>T, <1>G, GotoTypes
<1>1. CASE \/ OpenDownloadPage(h) \/ ToggleDirection(h) \/ OpenMap(h)
           \/ DownloadGpx(h) \/ ResetJob(h) \/ RestartComputation(h) \/ StartComputation(h)
           \/ UploadInput(h)
  BY <1>1, BeginTypes DEF OpenDownloadPage, ToggleDirection, OpenMap, DownloadGpx,
        ResetJob, RestartComputation, StartComputation, UploadInput
<1>2. CASE KeepDirection(h)
  <2>1. "mark" \in Steps[act[h].kind] /\ Busy(h)
    BY <1>2, <1>K DEF KeepDirection, Steps, Busy, At
  <2>2. ActTypes'
    BY <1>2, <1>T, <1>G, <2>1, DoneTypes DEF KeepDirection
  <2> QED BY <1>2, <1>A, <1>T, <2>2 DEF KeepDirection
<1>3. CASE MarkDirection(h)
  <2>1. "drop" \in Steps[act[h].kind] /\ Busy(h) /\ act[h].want \in Direction
    BY <1>3, <1>T, <1>K DEF MarkDirection, Steps, Busy, At, Process
  <2>2. ActTypes'
    BY <1>3, <1>G, <2>1 DEF MarkDirection
  <2>3. store' \in [Place -> Files]
    BY <1>3, <1>T, <2>1, WriteIs DEF MarkDirection, FileName
  <2> QED BY <1>3, <1>A, <2>2, <2>3 DEF MarkDirection
<1>4. CASE DropGpx(h)
  <2>1. "direction" \in Steps[act[h].kind] /\ Busy(h)
    BY <1>4, <1>K DEF DropGpx, Steps, Busy, At
  <2>2. ActTypes'
    BY <1>4, <1>G, <2>1 DEF DropGpx
  <2> QED BY <1>4, <1>A, <1>T, <2>2, DeleteIs DEF DropGpx
<1>5. CASE PullRoute(h)
  <2>1. "mapOptions" \in Steps[act[h].kind] /\ Busy(h)
    BY <1>5, <1>K DEF PullRoute, Steps, Busy, At
  <2>2. ActTypes'
    BY <1>5, <1>G, <2>1 DEF PullRoute
  <2>3. store' \in [Place -> Files]
    BY <1>5, <1>T, CopyIs DEF PullRoute
  <2> QED BY <1>5, <1>A, <2>2, <2>3 DEF PullRoute
<1>6. CASE PullOptions(h)
  <2> DEFINE options == IF store[Remote].options # None THEN store[Remote].options
                        ELSE Here(h).options
             direction == IF options = None THEN "forward" ELSE options
             route == Here(h).route
  <2>1. "serve" \in Steps[act[h].kind] /\ Busy(h)
    BY <1>6, <1>K DEF PullOptions, Steps, Busy, At
  <2>2. route \in Run \cup {None} /\ direction \in Direction
    BY <1>T, FilesAre DEF Here, Direction
  <2>3. act' = [act EXCEPT ![h] = [act[h] EXCEPT !.pc = "serve", !.route = route,
                                                 !.direction = direction]]
    BY <1>6 DEF PullOptions
  <2> HIDE DEF direction, route
  <2>4. ActTypes'
    BY <1>T, <2>1, <2>2, <2>3, ReadTypes
  <2>5. store' \in [Place -> Files]
    BY <1>6, <1>T, CopyIs DEF PullOptions
  <2> QED BY <1>6, <1>A, <2>4, <2>5 DEF PullOptions
<1>7. CASE PullGpx(h)
  <2> DEFINE gpx == IF store[Remote].gpx # None THEN store[Remote].gpx ELSE Here(h).gpx
  <2>1. "serve" \in Steps[act[h].kind] /\ Busy(h)
    BY <1>7, <1>K DEF PullGpx, Steps, Busy, At
  <2>2. gpx # None => gpx.route \in Run /\ gpx.direction \in Direction
    BY <1>T, FilesAre DEF Here
  <2>3. IF gpx = None THEN Done(h)
        ELSE act' = [act EXCEPT ![h] = [act[h] EXCEPT !.pc = "serve", !.route = gpx.route,
                                                      !.direction = gpx.direction]]
    BY <1>7 DEF PullGpx
  <2> HIDE DEF gpx
  <2>4. ActTypes'
    BY <1>T, <2>1, <2>2, <2>3, ReadTypes, DoneTypes
  <2>5. store' \in [Place -> Files]
    BY <1>7, <1>T, CopyIs DEF PullGpx
  <2> QED BY <1>7, <1>A, <2>4, <2>5 DEF PullGpx
<1>8. CASE Serve(h)
  BY <1>8, <1>A, <1>T, DoneTypes DEF Serve
<1>9. CASE MarkPending(h)
  <2>1. "delete" \in Steps[act[h].kind] /\ Busy(h)
    BY <1>9, <1>K DEF MarkPending, Steps, Busy, At
  <2>2. ActTypes'
    BY <1>9, <1>T, <1>G, <2>1, DoneTypes DEF MarkPending
  <2>3. row' \in Row /\ (row'.status = "RUNNING" => row'.run \in Run)
    BY <1>9, <1>T DEF MarkPending, Row, Status, TypeInv
  <2> QED BY <1>9, <1>T, <2>2, <2>3 DEF MarkPending, TypeInv, TypeOK, ActTypes
<1>10. CASE DeleteOutputs(h)
  <2>1. act[h].kind = "restart" => "queue" \in Steps[act[h].kind] /\ Busy(h)
    BY <1>10, <1>K DEF DeleteOutputs, Steps, Busy, At
  <2>2. ActTypes'
    BY <1>10, <1>T, <1>G, <2>1, DoneTypes DEF DeleteOutputs, AfterReset
  <2> QED BY <1>10, <1>A, <1>T, <2>2, DeleteIs DEF DeleteOutputs
<1>11. CASE MarkQueued(h)
  <2>1. "pull" \in Steps[act[h].kind] /\ Busy(h)
    BY <1>11, <1>K DEF MarkQueued, Steps, Busy, At
  <2>2. ActTypes'
    BY <1>11, <1>T, <1>G, <2>1, DoneTypes DEF MarkQueued
  <2>3. row' \in Row /\ (row'.status = "RUNNING" => row'.run \in Run)
    BY <1>11, <1>T, OutputsAssumption DEF MarkQueued, Row, Status, Run, TypeInv
  <2> QED BY <1>11, <1>T, <2>2, <2>3 DEF MarkQueued, TypeInv, TypeOK, ActTypes
<1>12. CASE Enqueue(h)
  <2>1. ActTypes'
    BY <1>12, <1>T, DoneTypes DEF Enqueue
  <2> QED BY <1>12, <2>1 DEF Enqueue, TypeInv, TypeOK, ActTypes
<1>13. CASE FailUpload(h)
  <2>1. act[h].kind = "task" => "pull" \in Steps[act[h].kind] /\ Busy(h)
    BY <1>13 DEF FailUpload, Steps, Busy, At
  <2>2. ActTypes'
    BY <1>13, <1>T, <1>G, <2>1, DoneTypes DEF FailUpload
  <2> QED BY <1>13, <1>A, <1>T, <2>2 DEF FailUpload
<1>14. CASE WriteInput(h)
  <2> DEFINE new == [act[h] EXCEPT !.pc = "push", !.kind = "plots"]
  <2>1. Done(h) \/ act' = [act EXCEPT ![h] = new]
    BY <1>14 DEF WriteInput
  <2>2. new \in Process /\ new.pc = "push" /\ new.kind = "plots"
    BY <1>T DEF Process
  <2>3. Proper(h, new)
    BY <1>T, <2>2 DEF Proper, Steps
  <2> HIDE DEF new
  <2>4. ActTypes'
    BY <1>T, <2>1, <2>2, <2>3, ActMoves, DoneTypes
  <2> QED BY <1>14, <1>A, <1>T, <2>4 DEF WriteInput
<1>15. CASE StartTask(h)
  <2> DEFINE new == [act[h] EXCEPT !.pc = "pull", !.kind = "task", !.disk = WorkerDisk]
  <2>1. act' = [act EXCEPT ![h] = new]
    BY <1>15 DEF StartTask
  <2>2. new \in Process /\ new.pc = "pull" /\ new.kind = "task"
    BY <1>T DEF Process, Disk
  <2>3. Proper(h, new)
    BY <1>T, <2>2 DEF Proper, Steps
  <2> HIDE DEF new
  <2>4. ActTypes'
    BY <1>T, <2>1, <2>2, <2>3, ActMoves
  <2> QED BY <1>15, <1>A, <1>T, <2>4 DEF StartTask
<1> QED BY <1>1, <1>2, <1>3, <1>4, <1>5, <1>6, <1>7, <1>8, <1>9, <1>10, <1>11, <1>12,
        <1>13, <1>14, <1>15 DEF RequestStep

\* Every step that requests and the run share.
LEMMA TypeSharedStep ==
    ASSUME TypeInv, NEW a \in Actor, SharedStep(a)
    PROVE  TypeInv'
<1>T. /\ act[a] \in Process /\ Proper(a, act[a])
      /\ act[a].disk \in Disk /\ Disk \subseteq Place /\ Remote \in Place
      /\ row \in Row /\ store \in [Place -> Files]
  BY DEF TypeInv, TypeOK, Process, Place
<1>K. /\ At(a, "pull") =>
            act[a].kind \in {"page", "toggle", "submit", "restart", "upload", "task", "run"}
      /\ At(a, "push") =>
            act[a].kind \in {"page", "toggle", "submit", "restart", "run"} \cup Uploading
      /\ At(a, "direction") \/ At(a, "route") \/ At(a, "gpx") =>
            act[a].kind \in {"page", "toggle", "run"}
  BY <1>T, KindsAt DEF At
<1>A. ASSUME ActTypes', store' \in [Place -> Files],
             UNCHANGED <<row, queued, requests>>
      PROVE  TypeInv'
  BY <1>A DEF ActTypes, TypeInv, TypeOK
<1>G. ASSUME NEW pc, pc # "gpx", pc \in Steps[act[a].kind], Goto(a, pc), Busy(a)
      PROVE  ActTypes'
  BY <1>T, <1>G, GotoTypes
<1>1. CASE Pull(a)
  <2> DEFINE pc == CASE act[a].kind = "page" -> "direction"
                     [] act[a].kind = "toggle" -> "turn"
                     [] act[a].kind \in {"submit", "restart", "upload", "task"} -> "push"
                     [] act[a].kind = "run" -> "compute"
  <2>1. pc \in Steps[act[a].kind] /\ pc # "gpx"
    BY <1>1, <1>K DEF Pull, Steps
  <2>2. Busy(a) /\ Goto(a, pc)
    BY <1>1 DEF Pull, Busy, At
  <2> HIDE DEF pc
  <2>3. store' \in [Place -> Files]
    BY <1>1, <1>T, CopyIs DEF Pull
  <2> QED BY <1>1, <1>A, <1>G, <2>1, <2>2, <2>3 DEF Pull
<1>2. CASE Push(a)
  <2>1. /\ act[a].kind \in {"submit", "restart"} => "send" \in Steps[act[a].kind]
        /\ act[a].kind = "run" => "end" \in Steps[act[a].kind]
        /\ act[a].kind = "upload" => "write" \in Steps[act[a].kind]
        /\ act[a].kind = "plots" => "hand" \in Steps[act[a].kind]
        /\ Busy(a)
    BY <1>2 DEF Push, Steps, Busy, At
  <2>2. ActTypes'
    BY <1>2, <1>K, <1>G, <2>1, DoneTypes DEF Push, Uploading
  <2>3. store' \in [Place -> Files]
    BY <1>2, <1>T, CopyIs DEF Push
  <2> QED BY <1>2, <1>A, <2>2, <2>3 DEF Push
<1>3. CASE ReadDirection(a)
  <2> DEFINE route == act[a].route
             direction == IsReversed(Here(a))
  <2>1. "route" \in Steps[act[a].kind] /\ Busy(a)
    BY <1>3, <1>K DEF ReadDirection, Steps, Busy, At
  <2>2. route \in Run \cup {None} /\ direction \in Direction
    BY <1>T, FilesAre DEF Here, Process
  <2>3. act' = [act EXCEPT ![a] = [act[a] EXCEPT !.pc = "route", !.route = route,
                                                 !.direction = direction]]
    <3>1. act' = [act EXCEPT ![a] = [act[a] EXCEPT !.pc = "route", !.direction = direction]]
      BY <1>3 DEF ReadDirection
    <3>2. [act[a] EXCEPT !.pc = "route", !.direction = direction]
            = [act[a] EXCEPT !.pc = "route", !.route = route, !.direction = direction]
      <4> HIDE DEF direction
      <4> QED BY <1>T DEF Process
    <3> QED BY <3>1, <3>2
  <2> HIDE DEF direction, route
  <2>4. ActTypes'
    BY <1>T, <2>1, <2>2, <2>3, ReadTypes
  <2> QED BY <1>3, <1>A, <1>T, <2>4 DEF ReadDirection
<1>4. CASE ReadRoute(a)
  <2> DEFINE route == Here(a).route
             direction == act[a].direction
  <2>1. "push" \in Steps[act[a].kind] /\ "gpx" \in Steps[act[a].kind] /\ Busy(a)
    BY <1>4, <1>K DEF ReadRoute, Steps, Busy, At
  <2>2. route \in Run \cup {None} /\ direction \in Direction
    BY <1>T, FilesAre DEF Here, Process
  <2>3. [act[a] EXCEPT !.pc = "gpx", !.route = route]
            = [act[a] EXCEPT !.pc = "gpx", !.route = route, !.direction = direction]
    <3> HIDE DEF route
    <3> QED BY <1>T DEF Process
  <2>4. \/ Goto(a, "push")
        \/ route # None /\ act' = [act EXCEPT ![a] = [act[a] EXCEPT !.pc = "gpx",
                                            !.route = route, !.direction = direction]]
        \/ Done(a)
    BY <1>4, <2>3 DEF ReadRoute
  <2> HIDE DEF direction, route
  <2>5. ActTypes'
    BY <1>T, <1>G, <2>1, <2>2, <2>4, ReadTypes, DoneTypes
  <2>6. row' \in Row /\ (row'.status = "RUNNING" => row'.run \in Run)
    BY <1>4, <1>T DEF ReadRoute, Row, Status, TypeInv
  <2> QED BY <1>4, <1>T, <2>5, <2>6 DEF ReadRoute, TypeInv, TypeOK, ActTypes
<1>5. CASE WriteGpx(a)
  <2> DEFINE gpx == [route |-> act[a].route, direction |-> act[a].direction]
  <2>1. "push" \in Steps[act[a].kind] /\ Busy(a)
    BY <1>5, <1>K DEF WriteGpx, Steps, Busy, At
  <2>2. gpx \in Gpx
    BY <1>5, <1>T DEF WriteGpx, At, Proper, Process, Gpx
  <2>3. WriteHere(a, "gpx", gpx)
    BY <1>5 DEF WriteGpx
  <2> HIDE DEF gpx
  <2>4. store' \in [Place -> Files]
    BY <1>T, <2>2, <2>3, WriteIs DEF FileName
  <2>5. ActTypes'
    BY <1>5, <1>G, <2>1 DEF WriteGpx
  <2> QED BY <1>5, <1>A, <2>4, <2>5 DEF WriteGpx
<1> QED BY <1>1, <1>2, <1>3, <1>4, <1>5 DEF SharedStep

\* Every step keeps the types.
LEMMA TypeStep == TypeInv /\ [Next]_vars => TypeInv'
<1> SUFFICES ASSUME TypeInv, [Next]_vars PROVE TypeInv'
  OBVIOUS
<1>T. /\ Worker \in Actor /\ act[Worker] \in Process /\ Proper(Worker, act[Worker])
      /\ act[Worker].disk \in Disk /\ Disk \subseteq Place
      /\ row \in Row /\ store \in [Place -> Files] /\ requests \in 0..MaxRequests
      /\ (row.status = "RUNNING" => row.run \in Run)
  BY DEF TypeInv, TypeOK, Process, Place, Actor
<1>R. ASSUME NEW status \in Status \ {"RUNNING"}, row' = [row EXCEPT !.status = status]
      PROVE  row' \in Row /\ (row'.status = "RUNNING" => row'.run \in Run)
  BY <1>T, <1>R DEF Row
<1>1. CASE CancelComputation
  <2>1. ActTypes'
    BY <1>1, <1>T, DoneTypes DEF CancelComputation
  <2>2. requests' \in 0..MaxRequests
    BY <1>1, <1>T, OutputsAssumption DEF CancelComputation
  <2> QED BY <1>1, <1>R, <1>T, <2>1, <2>2 DEF CancelComputation, TypeInv, TypeOK, ActTypes, Status
<1>2. CASE Deliver
  <2>1. ActTypes'
    <3>1. CASE UNCHANGED act
      BY <3>1 DEF ActTypes, TypeInv, TypeOK
    <3>2. CASE row.status = "RUNNING"
      <4> DEFINE new == [Idle EXCEPT !.pc = "pull", !.kind = "run", !.run = row.run]
      <4>1. Idle \in Process
        BY OutputsAssumption DEF Idle, Process, Disk, Direction
      <4>2. row.run \in Run /\ row.run \in 0..MaxRuns
        BY <1>T, <3>2 DEF Row
      <4>3. new \in Process /\ new.pc = "pull" /\ new.kind = "run" /\ new.run = row.run
        BY <4>1, <4>2 DEF Process
      <4>4. Proper(Worker, new)
        BY <4>2, <4>3 DEF Proper, Steps
      <4>5. act' = [act EXCEPT ![Worker] = new]
        BY <1>2, <3>2 DEF Deliver
      <4> HIDE DEF new
      <4> QED BY <1>T, <4>3, <4>4, <4>5, ActMoves
    <3> QED BY <1>2, <3>1, <3>2 DEF Deliver
  <2> QED BY <1>2, <2>1 DEF Deliver, TypeInv, TypeOK, ActTypes
<1>3. CASE ComputeRoute
  <2>1. act[Worker].kind = "run" /\ Busy(Worker) /\ act[Worker].run \in Run
    BY <1>3, <1>T, KindsAt DEF ComputeRoute, Busy, At, Proper
  <2>2. ActTypes'
    BY <1>3, <1>T, <2>1, GotoTypes DEF ComputeRoute, Steps
  <2>3. store' \in [Place -> Files]
    BY <1>3, <1>T, <2>1, WriteIs DEF ComputeRoute, FileName
  <2> QED BY <1>3, <2>2, <2>3 DEF ComputeRoute, TypeInv, TypeOK, ActTypes
<1>4. CASE RunFails
  <2>1. ActTypes'
    BY <1>4, <1>T, DoneTypes DEF RunFails
  <2> QED BY <1>4, <1>R, <1>T, <2>1 DEF RunFails, TypeInv, TypeOK, ActTypes, Status
<1>5. CASE FinishRun
  <2>1. ActTypes'
    BY <1>5, <1>T, DoneTypes DEF FinishRun
  <2> QED BY <1>5, <1>R, <1>T, <2>1 DEF FinishRun, TypeInv, TypeOK, ActTypes, Status
<1>6. CASE UNCHANGED vars
  BY <1>6 DEF vars, TypeInv, TypeOK
<1> QED BY <1>1, <1>2, <1>3, <1>4, <1>5, <1>6, TypeRequestStep, TypeSharedStep DEF Next

\* Whatever requests and runs are at work at the same time, a run writes routes
\* that have its number, a GPX file is made of a route that was read, and every
\* process is at a step of its kind.
THEOREM TypeCorrect == Spec => []TypeOK
<1>1. TypeInv => TypeOK
  BY DEF TypeInv
<1> QED BY <1>1, TypeInit, TypeStep, PTL DEF Spec

-----------------------------------------------------------------------------
(* Users who wait: whose turn it is *)

Others(a) == \A b \in Actor : b # a => act'[b] = act[b]

\* Where a process goes; what else it holds it keeps.
LEMMA GotoIs ==
    ASSUME TypeInv, NEW a \in Actor, NEW pc, Goto(a, pc)
    PROVE  /\ Others(a)
           /\ act'[a].pc = pc /\ act'[a].kind = act[a].kind /\ act'[a].disk = act[a].disk
           /\ act'[a].run = act[a].run /\ act'[a].want = act[a].want
           /\ act'[a].route = act[a].route /\ act'[a].direction = act[a].direction
<1>1. act[a] \in Process /\ act' = [act EXCEPT ![a] = [act[a] EXCEPT !.pc = pc]]
  BY DEF Goto, TypeInv, TypeOK
<1>2. act \in [Actor -> Process]
  BY DEF TypeInv, TypeOK
<1>3. act'[a] = [act[a] EXCEPT !.pc = pc] /\ Others(a)
  BY <1>1, <1>2 DEF Others
<1> QED BY <1>1, <1>3 DEF Process

\* A process that ends is idle.
LEMMA DoneIs ==
    ASSUME TypeInv, NEW a \in Actor, Done(a)
    PROVE  Others(a) /\ act'[a].pc = "idle"
BY DEF Done, Idle, Others, TypeInv, TypeOK

\* A request that is past the check of a reset is alone.
LEMMA Alone ==
    ASSUME TurnInv, NEW h \in Handler, Busy(h), ~At(h, "reset")
    PROVE  /\ ~queued /\ \A a \in Actor : a # h => ~Busy(a)
BY DEF TurnInv, Actor

\* Steps of the one request at work.
LEMMA HandlerMoves ==
    ASSUME TypeInv, TurnInv, NEW h \in Handler, Busy(h), ~At(h, "reset"),
           UNCHANGED <<row, queued>>, Others(h),
           \/ act'[h].pc = "idle"
           \/ /\ \/ act'[h].kind = act[h].kind
                 \/ act[h].kind \in Uploading /\ act'[h].kind \in Uploading
              /\ act'[h].pc \notin {"delete", "queue"}
              /\ act[h].kind \in {"submit", "restart"} => row.status = "RUNNING"
    PROVE  TurnInv'
<1>1. /\ h \in Actor /\ h # Worker /\ ~queued /\ ~Busy(Worker)
      /\ \A g \in Handler : g # h => ~Busy(g)
  BY OutputsAssumption, Alone DEF Actor
<1>2. ~Busy(Worker)' /\ \A g \in Handler : g # h => ~Busy(g)'
  BY <1>1 DEF Others, Actor, Busy, At
<1>3. Busy(h)' => /\ \/ act'[h].kind = act[h].kind
                     \/ act[h].kind \in Uploading /\ act'[h].kind \in Uploading
                  /\ act'[h].pc \notin {"delete", "queue"}
                  /\ (act[h].kind \in {"submit", "restart"} => row.status = "RUNNING")
  BY DEF Busy, At
<1>4. Busy(h)' /\ act'[h].kind \in {"page", "toggle", "map", "download"}
        => row'.status = "COMPLETED"
  BY <1>3 DEF TurnInv, Uploading
<1>5. Busy(h)' /\ act'[h].kind \in Uploading => row'.status = "PENDING"
  BY <1>3 DEF TurnInv
<1>6. Busy(h)' /\ act'[h].kind \in {"submit", "restart"} => row'.status = "RUNNING"
  BY <1>3 DEF Uploading
<1> QED BY <1>1, <1>2, <1>3, <1>4, <1>5, <1>6 DEF TurnInv

\* Steps of the run at work.
LEMMA WorkerMoves ==
    ASSUME TypeInv, TurnInv, Busy(Worker), UNCHANGED <<row, queued>>, Others(Worker),
           act'[Worker].pc = "idle" \/ act'[Worker].run = act[Worker].run
    PROVE  TurnInv'
<1>1. \A h \in Handler : h \in Actor /\ h # Worker /\ act'[h] = act[h]
  BY OutputsAssumption DEF Others, Actor
<1>2. \A h \in Handler : (Busy(h)' <=> Busy(h)) /\ (At(h, "reset")' <=> At(h, "reset"))
  BY <1>1 DEF Busy, At
<1>3. ~queued' /\ (Busy(Worker)' => act'[Worker].run = row.run)
  BY DEF TurnInv, Busy, At
<1> QED BY <1>1, <1>2, <1>3 DEF TurnInv

\* The end of the run at work, of either kind.
LEMMA WorkerEnds ==
    ASSUME TypeInv, TurnInv, Busy(Worker), Done(Worker),
           NEW status \in {"COMPLETED", "FAILED"},
           row' = [row EXCEPT !.status = status], queued' = queued
    PROVE  TurnInv'
<1>1. \A h \in Handler : h \in Actor /\ h # Worker /\ act'[h] = act[h]
  BY OutputsAssumption, DoneIs DEF Others, Actor
<1>2. \A h \in Handler : (Busy(h)' <=> Busy(h)) /\ (At(h, "reset")' <=> At(h, "reset"))
  BY <1>1 DEF Busy, At
<1>3. ~queued' /\ ~Busy(Worker)'
  BY DoneIs DEF TurnInv, Busy, At, Actor
<1>4. \A h \in Handler : Busy(h) => act[h].pc = "reset" /\ act[h] \in Process /\ Proper(h, act[h])
  BY <1>1 DEF TurnInv, At, TypeInv, TypeOK
<1>5. \A h \in Handler : Busy(h) => act[h].kind \in {"reset", "restart"}
  BY <1>4, KindsAt
<1> QED BY <1>1, <1>2, <1>3, <1>4, <1>5 DEF TurnInv, Uploading

\* A request begins: nobody else is at work.
LEMMA BeginIs ==
    ASSUME OneAtATime, TypeInv, NEW h \in Handler, NEW kind, NEW pc, Begin(h, kind, pc)
    PROVE  /\ \A a \in Actor : ~Busy(a)
           /\ Others(h) /\ act'[h].pc = pc /\ act'[h].kind = kind
           /\ act'[h].disk \in Disk
           /\ UNCHANGED <<row, store, queued>>
<1>1. Idle \in Process /\ h \in Actor
  BY OutputsAssumption DEF Idle, Process, Disk, Direction, Actor
<1>2. PICK d \in WebDisk, want \in Direction :
        act' = [act EXCEPT ![h] = [Idle EXCEPT !.pc = pc, !.kind = kind, !.disk = d,
                    !.run = row.run,
                    !.want = IF kind = "toggle" THEN want ELSE "forward"]]
  BY DEF Begin
<1> DEFINE new == [Idle EXCEPT !.pc = pc, !.kind = kind, !.disk = d, !.run = row.run,
                    !.want = IF kind = "toggle" THEN want ELSE "forward"]
<1>3. new.pc = pc /\ new.kind = kind /\ new.disk = d
  BY <1>1 DEF Process
<1>4. act \in [Actor -> Process] /\ act' = [act EXCEPT ![h] = new]
  BY <1>2 DEF TypeInv, TypeOK
<1> HIDE DEF new
<1> QED BY <1>1, <1>3, <1>4 DEF Begin, AtRest, Busy, Others, Disk

\* Where a request begins in which status.
LEMMA TurnBegins ==
    ASSUME OneAtATime, TypeInv, TurnInv, NEW h \in Handler, NEW kind, NEW pc,
           Begin(h, kind, pc), pc \notin {"delete", "push", "send"},
           \/ kind \in {"reset", "restart"} /\ pc = "reset"
           \/ kind = "submit" /\ pc = "queue" /\ row.status = "PENDING"
           \/ kind \in {"page", "toggle", "map", "download"} /\ pc # "queue"
              /\ row.status = "COMPLETED"
           \/ kind = "upload" /\ pc = "pull" /\ row.status = "PENDING"
    PROVE  TurnInv'
<1>1. /\ \A a \in Actor : ~Busy(a)
      /\ Others(h) /\ act'[h].pc = pc /\ act'[h].kind = kind
      /\ UNCHANGED <<row, store, queued>> /\ h # Worker
  BY BeginIs, OutputsAssumption
<1>2. \A a \in Actor : a # h => ~Busy(a)'
  BY <1>1 DEF Others, Busy, At
<1>3. ~Busy(Worker)' /\ \A g \in Handler : g # h => ~Busy(g)'
  BY <1>1, <1>2 DEF Actor
<1>4. queued => row.status = "RUNNING"
  BY DEF TurnInv
<1> QED BY <1>1, <1>3, <1>4 DEF TurnInv, Busy, At, Uploading

\* Requests keep to their turn.
LEMMA TurnRequestStep ==
    ASSUME OneAtATime, TypeInv, TurnInv, NEW h \in Handler, RequestStep(h)
    PROVE  TurnInv'
<1>T. /\ h \in Actor /\ h # Worker /\ act[h] \in Process /\ Proper(h, act[h])
      /\ act \in [Actor -> Process] /\ row \in Row
  BY OutputsAssumption DEF Actor, TypeInv, TypeOK
<1>K. /\ At(h, "turn") \/ At(h, "mark") \/ At(h, "drop") => act[h].kind = "toggle"
      /\ At(h, "mapRoute") \/ At(h, "mapOptions") => act[h].kind = "map"
      /\ At(h, "fetch") => act[h].kind = "download"
      /\ At(h, "reset") \/ At(h, "delete") => act[h].kind \in {"reset", "restart"}
      /\ At(h, "queue") \/ At(h, "send") => act[h].kind \in {"submit", "restart"}
  BY <1>T, KindsAt DEF At
<1>1. CASE \/ OpenDownloadPage(h) \/ ToggleDirection(h) \/ OpenMap(h)
           \/ DownloadGpx(h) \/ ResetJob(h) \/ RestartComputation(h) \/ StartComputation(h)
           \/ UploadInput(h)
  BY <1>1, TurnBegins DEF OpenDownloadPage, ToggleDirection, OpenMap, DownloadGpx,
        ResetJob, RestartComputation, StartComputation, UploadInput
<1>2. CASE KeepDirection(h) \/ MarkDirection(h) \/ DropGpx(h) \/ PullRoute(h)
  <2>1. /\ UNCHANGED <<row, queued>> /\ Busy(h) /\ ~At(h, "reset")
        /\ Done(h) \/ Goto(h, "mark") \/ Goto(h, "drop") \/ Goto(h, "direction")
           \/ Goto(h, "mapOptions")
        /\ act[h].kind \in {"toggle", "map"}
    BY <1>2, <1>K DEF KeepDirection, MarkDirection, DropGpx, PullRoute, Busy, At
  <2> QED BY <1>T, <2>1, GotoIs, DoneIs, HandlerMoves
<1>3. CASE PullOptions(h) \/ PullGpx(h) \/ Serve(h)
  <2>1. /\ UNCHANGED <<row, queued>> /\ Busy(h) /\ ~At(h, "reset")
        /\ At(h, "mapOptions") \/ At(h, "fetch") \/ At(h, "serve")
        /\ \/ Done(h)
           \/ \E r, d : act' = [act EXCEPT ![h] = [act[h] EXCEPT !.pc = "serve",
                                        !.route = r, !.direction = d]]
    <3> DEFINE Served == \E r, d : act' = [act EXCEPT ![h] = [act[h] EXCEPT !.pc = "serve",
                                                        !.route = r, !.direction = d]]
    <3>1. CASE PullOptions(h)
      <4>1. PICK d : act' = [act EXCEPT ![h].pc = "serve", ![h].route = Here(h).route,
                                        ![h].direction = d]
        BY <3>1 DEF PullOptions
      <4>2. Served
        BY <4>1
      <4> QED BY <3>1, <4>2 DEF PullOptions, Busy, At
    <3>2. CASE PullGpx(h)
      <4> DEFINE gpx == IF store[Remote].gpx # None THEN store[Remote].gpx ELSE Here(h).gpx
      <4>1. Done(h) \/ act' = [act EXCEPT ![h].pc = "serve", ![h].route = gpx.route,
                                        ![h].direction = gpx.direction]
        BY <3>2 DEF PullGpx
      <4> HIDE DEF gpx
      <4>2. Done(h) \/ Served
        <5> DEFINE r == gpx.route
                   d == gpx.direction
        <5>1. Done(h) \/ act' = [act EXCEPT ![h] = [act[h] EXCEPT !.pc = "serve",
                                                        !.route = r, !.direction = d]]
          BY <4>1
        <5> HIDE DEF r, d
        <5> QED BY <5>1
      <4> QED BY <3>2, <4>2 DEF PullGpx, Busy, At
    <3> QED BY <1>3, <3>1, <3>2 DEF Serve, Busy, At
  <2>2. act[h].kind \in {"map", "download"}
    BY <1>T, <2>1, KindsAt DEF At
  <2>3. CASE Done(h)
    BY <1>T, <2>1, <2>3, DoneIs, HandlerMoves
  <2>4. ASSUME NEW r, NEW d, act' = [act EXCEPT ![h] = [act[h] EXCEPT !.pc = "serve",
                                        !.route = r, !.direction = d]]
        PROVE  TurnInv'
    <3>1. act'[h] = [act[h] EXCEPT !.pc = "serve", !.route = r, !.direction = d] /\ Others(h)
      BY <1>T, <2>4 DEF Others
    <3>2. act'[h].pc = "serve" /\ act'[h].kind = act[h].kind
      BY <1>T, <3>1 DEF Process
    <3> QED BY <2>1, <2>2, <3>1, <3>2, HandlerMoves
  <2> QED BY <2>1, <2>3, <2>4
<1>4. CASE MarkPending(h)
  <2>1. CASE row.status = "RUNNING"
    <3>1. Others(h) /\ act'[h].pc = "idle" /\ UNCHANGED <<row, queued>>
      BY <1>4, <1>T, <2>1, DoneIs DEF MarkPending
    <3>2. \A g \in Actor : Busy(g)' => act'[g] = act[g] /\ Busy(g) /\ g # h
      BY <3>1 DEF Others, Busy, At
    <3> QED BY <1>T, <3>1, <3>2 DEF TurnInv, Actor, Busy, At
  <2>2. CASE row.status # "RUNNING"
    <3>1. /\ Others(h) /\ act'[h].pc = "delete" /\ act'[h].kind \in {"reset", "restart"}
          /\ row' = [row EXCEPT !.status = "PENDING"] /\ queued' = queued
      BY <1>4, <1>K, <1>T, <2>2, GotoIs DEF MarkPending
    <3>2. row'.status = "PENDING"
      BY <1>T, <3>1 DEF Row
    <3>3. ~queued /\ ~Busy(Worker) /\ Busy(h) /\ Worker \in Actor
      BY <1>4, <2>2 DEF TurnInv, MarkPending, Busy, At, Actor
    <3>4. ~queued' /\ ~Busy(Worker)'
      BY <1>T, <3>1, <3>3 DEF Others, Busy, At
    <3>5. \A g \in Handler : g # h => ~Busy(g)'
      BY <3>1, <3>3 DEF TurnInv, Others, Busy, At, Actor
    <3> QED BY <3>1, <3>2, <3>4, <3>5 DEF TurnInv, Busy, At, Uploading
  <2> QED BY <2>1, <2>2
<1>5. CASE DeleteOutputs(h)
  <2>1. /\ UNCHANGED <<row, queued>> /\ Busy(h) /\ ~At(h, "reset") /\ row.status = "PENDING"
        /\ Done(h) \/ (Goto(h, "queue") /\ act[h].kind = "restart")
    BY <1>5 DEF DeleteOutputs, AfterReset, Busy, At, TurnInv
  <2>2. CASE Done(h)
    BY <1>T, <2>1, <2>2, DoneIs, HandlerMoves
  <2>3. CASE Goto(h, "queue") /\ act[h].kind = "restart"
    <3>1. Others(h) /\ act'[h].pc = "queue" /\ act'[h].kind = "restart"
      BY <1>T, <2>3, GotoIs
    <3>2. ~queued /\ \A a \in Actor : a # h => ~Busy(a)
      BY <2>1, Alone
    <3>3. ~queued' /\ ~Busy(Worker)' /\ \A g \in Handler : g # h => ~Busy(g)'
      BY <1>T, <2>1, <3>1, <3>2 DEF Others, Busy, At, Actor
    <3> QED BY <2>1, <3>1, <3>3 DEF TurnInv, Busy, At, Uploading
  <2> QED BY <2>1, <2>2, <2>3
<1>6. CASE MarkQueued(h)
  <2>1. Busy(h) /\ ~At(h, "reset") /\ queued' = queued
    BY <1>6 DEF MarkQueued, Busy, At
  <2>2. CASE Done(h) /\ UNCHANGED row
    BY <1>T, <2>1, <2>2, DoneIs, HandlerMoves
  <2>3. CASE row' = [status |-> "RUNNING", run |-> row.run + 1] /\ Goto(h, "pull")
    <3>1. Others(h) /\ act'[h].pc = "pull" /\ act'[h].kind = act[h].kind
      BY <1>T, <2>3, GotoIs
    <3>2. ~queued /\ \A a \in Actor : a # h => ~Busy(a)
      BY <2>1, Alone
    <3>3. ~queued' /\ ~Busy(Worker)' /\ \A g \in Handler : g # h => ~Busy(g)'
      BY <1>T, <2>1, <3>1, <3>2 DEF Others, Busy, At, Actor
    <3>4. act[h].kind \in {"submit", "restart"} /\ row'.status = "RUNNING"
      BY <1>6, <1>K, <2>3 DEF MarkQueued
    <3> QED BY <3>1, <3>3, <3>4 DEF TurnInv, Busy, At, Uploading
  <2> QED BY <1>6, <2>2, <2>3 DEF MarkQueued
<1>7. CASE Enqueue(h)
  <2>1. Busy(h) /\ ~At(h, "reset") /\ row' = row /\ Others(h) /\ act'[h].pc = "idle"
    BY <1>7, <1>T, DoneIs DEF Enqueue, Busy, At
  <2>2. \A a \in Actor : a # h => ~Busy(a)
    BY <2>1, Alone
  <2>3. \A a \in Actor : ~Busy(a)'
    BY <2>1, <2>2 DEF Others, Busy, At
  <2>4. row.status = "RUNNING"
    BY <1>7, <1>K, <2>1 DEF Enqueue, TurnInv, At
  <2> QED BY <2>1, <2>3, <2>4 DEF TurnInv, Actor
<1>8. CASE FailUpload(h) \/ WriteInput(h) \/ StartTask(h)
  <2>1. /\ UNCHANGED <<row, queued>> /\ Busy(h) /\ ~At(h, "reset")
        /\ \/ At(h, "push") /\ act[h].kind \in Uploading
           \/ At(h, "write") \/ At(h, "hand")
    BY <1>8 DEF FailUpload, WriteInput, StartTask, Busy, At, Uploading
  <2>2. act[h].kind \in Uploading
    BY <1>T, <2>1, KindsAt DEF At, Uploading
  <2>3. /\ Others(h)
        /\ \/ act'[h].pc = "idle"
           \/ act'[h].kind \in Uploading /\ act'[h].pc \in {"pull", "push"}
    <3>1. CASE Done(h)
      BY <1>T, <3>1, DoneIs
    <3>2. CASE Goto(h, "pull")
      BY <1>T, <2>2, <3>2, GotoIs
    <3>3. CASE act' = [act EXCEPT ![h].pc = "push", ![h].kind = "plots"]
      <4>1. act'[h] = [act[h] EXCEPT !.pc = "push", !.kind = "plots"] /\ Others(h)
        BY <1>T, <3>3 DEF Others
      <4> QED BY <1>T, <4>1 DEF Process, Uploading
    <3>4. CASE StartTask(h)
      <4>1. /\ act'[h] = [act[h] EXCEPT !.pc = "pull", !.kind = "task", !.disk = WorkerDisk]
            /\ Others(h)
        BY <1>T, <3>4 DEF StartTask, Others
      <4> QED BY <1>T, <4>1 DEF Process, Uploading
    <3> QED BY <1>8, <3>1, <3>2, <3>3, <3>4 DEF FailUpload, WriteInput
  <2>4. act[h].kind \notin {"submit", "restart"}
    BY <2>2 DEF Uploading
  <2> QED BY <1>T, <2>1, <2>2, <2>3, <2>4, HandlerMoves
<1> QED BY <1>1, <1>2, <1>3, <1>4, <1>5, <1>6, <1>7, <1>8 DEF RequestStep

\* So do the steps that requests and the run share ...
LEMMA TurnSharedStep ==
    ASSUME TypeInv, TurnInv, NEW a \in Actor, SharedStep(a)
    PROVE  TurnInv'
<1>T. act[a] \in Process /\ Proper(a, act[a]) /\ act \in [Actor -> Process]
  BY DEF TypeInv, TypeOK
<1>1. Busy(a) /\ ~At(a, "reset") /\ queued' = queued
  BY DEF SharedStep, Pull, Push, ReadDirection, ReadRoute, WriteGpx, Busy, At
<1>M. ASSUME UNCHANGED row, Others(a),
             \/ act'[a].pc = "idle"
             \/ /\ act'[a].kind = act[a].kind /\ act'[a].run = act[a].run
                /\ act'[a].pc \notin {"delete", "queue"}
                /\ act[a].kind \in {"submit", "restart"} =>
                    act[a].pc \in {"pull", "push", "send"}
      PROVE  TurnInv'
  <2>1. CASE a = Worker
    BY <1>1, <1>M, <2>1, WorkerMoves
  <2>2. CASE a \in Handler
    <3>1. act[a].kind \in {"submit", "restart"} /\ act[a].pc \in {"pull", "push", "send"}
            => row.status = "RUNNING"
      BY <1>1, <2>2 DEF TurnInv
    <3> QED BY <1>1, <1>M, <2>2, <3>1, HandlerMoves
  <2> QED BY <2>1, <2>2 DEF Actor
<1>G. ASSUME NEW pc, pc \notin {"delete", "queue"}, Goto(a, pc), UNCHANGED row,
             act[a].kind \in {"submit", "restart"} => act[a].pc \in {"pull", "push", "send"}
      PROVE  TurnInv'
  BY <1>G, <1>M, GotoIs
<1>D. ASSUME Done(a), UNCHANGED row PROVE TurnInv'
  BY <1>D, <1>M, DoneIs
<1>2. CASE Pull(a)
  <2> DEFINE pc == CASE act[a].kind = "page" -> "direction"
                     [] act[a].kind = "toggle" -> "turn"
                     [] act[a].kind \in {"submit", "restart", "upload", "task"} -> "push"
                     [] act[a].kind = "run" -> "compute"
  <2>1. pc \notin {"delete", "queue"}
    BY <1>2, <1>T, KindsAt DEF Pull, At
  <2>2. Goto(a, pc) /\ UNCHANGED row /\ act[a].pc = "pull"
    BY <1>2 DEF Pull, At
  <2> HIDE DEF pc
  <2> QED BY <1>G, <2>1, <2>2
<1>3. CASE Push(a)
  <2>1. /\ act[a].kind \in {"page", "toggle", "submit", "restart", "run"} \cup Uploading
        /\ act[a].pc = "push"
    BY <1>3, <1>T, KindsAt DEF Push, At
  <2>2. UNCHANGED row /\ (\/ Done(a) \/ Goto(a, "send") \/ Goto(a, "end")
                         \/ Goto(a, "write") \/ Goto(a, "hand"))
    BY <1>3, <2>1 DEF Push, Uploading
  <2> QED BY <1>D, <1>G, <2>1, <2>2
<1>4. CASE ReadDirection(a)
  <2>1. PICK d : act' = [act EXCEPT ![a] = [act[a] EXCEPT !.pc = "route", !.direction = d]]
    BY <1>4 DEF ReadDirection
  <2>2. act'[a] = [act[a] EXCEPT !.pc = "route", !.direction = d] /\ Others(a)
    BY <1>T, <2>1 DEF Others
  <2>3. act'[a].pc = "route" /\ act'[a].kind = act[a].kind /\ act'[a].run = act[a].run
    BY <1>T, <2>2 DEF Process
  <2>4. act[a].kind \notin {"submit", "restart"} /\ UNCHANGED row
    BY <1>4, <1>T, KindsAt DEF ReadDirection, At
  <2> QED BY <1>M, <2>2, <2>3, <2>4
<1>5. CASE ReadRoute(a)
  <2>1. act[a].kind \in {"page", "toggle", "run"}
    BY <1>5, <1>T, KindsAt DEF ReadRoute, At
  <2>2. CASE Goto(a, "push") /\ UNCHANGED row
    BY <1>G, <2>1, <2>2
  <2>3. CASE UNCHANGED row /\ act' = [act EXCEPT ![a].pc = "gpx", ![a].route = Here(a).route]
    <3>1. PICK r : act' = [act EXCEPT ![a] = [act[a] EXCEPT !.pc = "gpx", !.route = r]]
      BY <2>3
    <3>2. act'[a] = [act[a] EXCEPT !.pc = "gpx", !.route = r] /\ Others(a)
      BY <1>T, <3>1 DEF Others
    <3>3. act'[a].pc = "gpx" /\ act'[a].kind = act[a].kind /\ act'[a].run = act[a].run
      BY <1>T, <3>2 DEF Process
    <3> QED BY <1>M, <2>1, <2>3, <3>2, <3>3
  <2>4. CASE Done(a) /\ act[a].kind # "run" /\ UNCHANGED row
    BY <1>D, <2>4
  <2>5. CASE Done(a) /\ act[a].kind = "run" /\ row' = [row EXCEPT !.status = "FAILED"]
    <3>1. a = Worker
      BY <1>1, <1>T, <2>5 DEF Proper, Busy, At
    <3> QED BY <1>1, <2>5, <3>1, WorkerEnds
  <2> QED BY <1>5, <2>2, <2>3, <2>4, <2>5 DEF ReadRoute
<1>6. CASE WriteGpx(a)
  <2>1. act[a].kind \in {"page", "toggle", "run"}
    BY <1>6, <1>T, KindsAt DEF WriteGpx, At
  <2> QED BY <1>6, <1>G, <2>1 DEF WriteGpx
<1> QED BY <1>2, <1>3, <1>4, <1>5, <1>6 DEF SharedStep

\* ... and those of the run.
LEMMA TurnStep ==
    ASSUME OneAtATime, TypeInv, TurnInv, [Next]_vars
    PROVE  TurnInv'
<1>T. Worker \in Actor /\ act \in [Actor -> Process] /\ row \in Row
  BY DEF TypeInv, TypeOK, Actor
<1>1. CASE CancelComputation
  <2>1. ~queued' /\ Others(Worker) /\ act'[Worker].pc = "idle"
    BY <1>1, <1>T, DoneIs DEF CancelComputation
  <2>2. \A a \in Actor : ~Busy(a)'
    BY <1>1, <2>1 DEF CancelComputation, Others, Busy, At, Actor
  <2> QED BY <2>1, <2>2 DEF TurnInv, Actor
<1>2. CASE Deliver
  <2>1. row.status = "RUNNING" /\ ~queued' /\ UNCHANGED row
        /\ \A h \in Handler : Busy(h) => At(h, "reset")
    BY <1>2 DEF Deliver, TurnInv
  <2>2. act' = [act EXCEPT ![Worker] =
                        [Idle EXCEPT !.pc = "pull", !.kind = "run", !.run = row.run]]
    BY <1>2, <2>1 DEF Deliver
  <2>3. Idle \in Process
    BY OutputsAssumption DEF Idle, Process, Disk, Direction
  <2>4. act'[Worker].run = row.run
    <3>1. act'[Worker] = [Idle EXCEPT !.pc = "pull", !.kind = "run", !.run = row.run]
      BY <1>T, <2>2
    <3> QED BY <2>3, <3>1 DEF Process
  <2>5. \A h \in Handler : act'[h] = act[h]
    BY <1>T, <2>2, OutputsAssumption DEF Actor
  <2> QED BY <2>1, <2>4, <2>5 DEF TurnInv, Busy, At
<1>3. CASE ComputeRoute
  BY <1>3, <1>T, GotoIs, WorkerMoves DEF ComputeRoute, Busy, At
<1>4. CASE RunFails
  BY <1>4, WorkerEnds DEF RunFails, Busy, At
<1>5. CASE FinishRun
  BY <1>5, WorkerEnds DEF FinishRun, Busy, At
<1>6. CASE UNCHANGED vars
  BY <1>6 DEF vars, TurnInv, Busy, At
<1> QED BY <1>1, <1>2, <1>3, <1>4, <1>5, <1>6, TurnRequestStep, TurnSharedStep DEF Next

-----------------------------------------------------------------------------
(* Users who wait: what the disks and the storage hold *)

\* At these steps a process relies on nothing.
Free == {"idle", "reset", "delete", "queue", "send", "pull", "fetch", "mapRoute", "hand"}

\* So files may change under it.
LEMMA FreeWork ==
    ASSUME NEW p, p.pc \in Free, NEW files, NEW remote, NEW run
    PROVE  Work(p, files, remote, run)
BY DEF Work, Free

\* While one is at work the others have not begun to.
LEMMA OthersAreFree ==
    ASSUME TypeInv, TurnInv, NEW a \in Actor, Busy(a), a \in Handler => ~At(a, "reset")
    PROVE  \A b \in Actor : b # a => act[b].pc \in {"idle", "reset"}
<1>1. CASE a = Worker
  BY <1>1 DEF TurnInv, Actor, Busy, At
<1>2. CASE a \in Handler
  BY <1>2, Alone DEF Busy, At
<1> QED BY <1>1, <1>2 DEF Actor

\* One process has moved: the others rely on nothing still.
LEMMA WorkMoves ==
    ASSUME TypeInv, TurnInv, NEW a \in Actor, Busy(a), a \in Handler => ~At(a, "reset"),
           Others(a), Work(act'[a], Here(a)', store'[Remote], row'.run)
    PROVE  WorkInv'
<1>1. \A b \in Actor : b # a => act'[b].pc \in Free
  BY OthersAreFree DEF Others, Free
<1> QED BY <1>1, FreeWork DEF WorkInv

\* A step that leaves the row as it is: GPX files are copied, deleted, or made
\* by the run; and what the storage has of a completed job it keeps.
LEMMA StorageMoves ==
    ASSUME TypeInv, TurnInv, StorageInv,
           NEW a \in Actor, Busy(a), a \in Handler => ~At(a, "reset"), Others(a),
           UNCHANGED row,
           a = Worker /\ act[a].pc \in {"push", "end"} => act'[a].pc \in {"push", "end"},
           \A p \in Place : store'[p].gpx # None =>
                \/ \E q \in Place : store[q].gpx = store'[p].gpx
                \/ /\ store'[p].gpx.route = row.run
                   /\ row.status = "RUNNING" => a = Worker /\ act'[a].pc = "push",
           row.status = "COMPLETED" =>
                /\ store'[Remote].route = row.run
                /\ \/ store'[Remote].gpx # None
                   \/ a \in Handler /\ Turning(a, Changed \ {"drop"})',
           StoredRightWay',
           store'[Remote].options = None =>
                \A d \in Disk : \/ store'[d].options = None
                                \/ a \in Handler /\ Turning(a, Changed)' /\ act'[a].disk = d
    PROVE  StorageInv'
<1>1. \A b \in Actor : b # a => act[b].pc \in {"idle", "reset"}
  BY OthersAreFree
<1>T. row \in Row /\ Worker \in Actor /\ (row.status = "RUNNING" => row.run \in Run)
  BY DEF TypeInv, TypeOK, Actor
<1>2. GpxAge'
  <2>1. row.status = "RUNNING" /\ act'[Worker].pc \notin {"push", "end"}
            => act[Worker].pc \notin {"push", "end"}
    BY <1>1, <1>T DEF Others
  <2> SUFFICES ASSUME NEW p \in Place, store'[p].gpx # None
               PROVE  /\ store'[p].gpx.route <= row.run
                      /\ row.status = "RUNNING" /\ act'[Worker].pc \notin {"push", "end"}
                            => store'[p].gpx.route < row.run
    BY DEF GpxAge
  <2>2. CASE \E q \in Place : store[q].gpx = store'[p].gpx
    BY <2>1, <2>2 DEF StorageInv, GpxAge
  <2>3. CASE /\ store'[p].gpx.route = row.run
             /\ row.status = "RUNNING" => a = Worker /\ act'[a].pc = "push"
    BY <1>T, <2>3 DEF Row
  <2> QED BY <2>2, <2>3
<1>4. Kept'
  BY DEF StorageInv, Kept
<1>5. OptionsStored'
  BY DEF OptionsStored
<1> QED BY <1>2, <1>4, <1>5 DEF StorageInv

\* Who changes the direction is the one at work.
LEMMA WhoTurns ==
    ASSUME TypeInv, TurnInv, StorageInv, NEW a \in Actor, Busy(a),
           a \in Handler => ~At(a, "reset")
    PROVE  /\ row.status = "COMPLETED" =>
                /\ row.run \in Run /\ row.run # None /\ store[Remote].route = row.run
                /\ \/ store[Remote].gpx # None
                   \/ a \in Handler /\ Turning(a, Changed \ {"drop"})
           /\ store[Remote].options = None =>
                \A d \in Disk : \/ store[d].options = None
                                \/ a \in Handler /\ Turning(a, Changed) /\ act[a].disk = d
<1>1. \A h \in Handler : h # a => act[h].pc \in {"idle", "reset"}
  BY OthersAreFree DEF Actor
<1>2. \A h \in Handler : Turning(h, Changed) \/ Turning(h, Changed \ {"drop"}) => h = a
  BY <1>1 DEF Turning, Changed
<1>3. row.run \in Run => row.run # None
  BY OutputsAssumption
<1> QED BY <1>2, <1>3 DEF StorageInv, Kept, OptionsStored

\* The steps of a request that leave row and files as they are.
LEMMA OutputsQuiet ==
    ASSUME TypeInv, OutputsInv, NEW a \in Actor, Busy(a), a \in Handler => ~At(a, "reset"),
           Others(a), UNCHANGED <<row, store>>,
           a = Worker => act[a].pc \notin {"push", "end"},
           Turning(a, Changed) =>
                Turning(a, Changed \ {"drop"})' /\ act'[a].disk = act[a].disk,
           Work(act'[a], Here(a)', store[Remote], row.run)
    PROVE  WorkInv' /\ StorageInv'
<1>1. TurnInv /\ StorageInv
  BY DEF OutputsInv
<1>2. WorkInv'
  BY <1>1, WorkMoves
<1>3. Turning(a, Changed \ {"drop"}) => Turning(a, Changed)
  BY DEF Turning
<1>4. Turning(a, Changed \ {"drop"})' => Turning(a, Changed)'
  BY DEF Turning
<1>5. StorageInv'
  <2>1. /\ row.status = "COMPLETED" =>
                /\ store[Remote].route = row.run
                /\ \/ store[Remote].gpx # None
                   \/ a \in Handler /\ Turning(a, Changed \ {"drop"})'
        /\ store[Remote].options = None =>
                \A d \in Disk : \/ store[d].options = None
                                \/ a \in Handler /\ Turning(a, Changed)' /\ act'[a].disk = d
    BY <1>1, <1>3, <1>4, WhoTurns
  <2>2. StoredRightWay'
    BY <1>1 DEF StorageInv, StoredRightWay
  <2> QED BY <1>1, <2>1, <2>2, StorageMoves
<1> QED BY <1>2, <1>5

\* The switch of the download page.
LEMMA OutputsToggle ==
    ASSUME TypeInv, OutputsInv, NEW h \in Handler,
           KeepDirection(h) \/ MarkDirection(h) \/ DropGpx(h)
    PROVE  WorkInv' /\ StorageInv'
<1>T. /\ h \in Actor /\ h # Worker /\ act[h] \in Process /\ Proper(h, act[h])
      /\ act[h].disk \in Disk /\ Disk \subseteq Place /\ Remote \in Place
      /\ act[h].disk # Remote /\ store \in [Place -> Files]
      /\ act[h].kind = "toggle" /\ act[h].want \in Direction /\ act[h].want # None
  <2>1. act[h] \in Process /\ Proper(h, act[h])
    BY DEF Actor, TypeInv, TypeOK
  <2>2. act[h].kind = "toggle"
    BY <2>1, KindsAt DEF KeepDirection, MarkDirection, DropGpx, At
  <2> QED BY <2>1, <2>2, OutputsAssumption DEF Actor, TypeInv, TypeOK, Process, Place
<1>I. TurnInv /\ StorageInv /\ Work(act[h], Here(h), store[Remote], row.run)
  BY <1>T DEF OutputsInv, WorkInv
<1>S. row.status = "COMPLETED" /\ Busy(h) /\ ~At(h, "reset") /\ ~At(h, "delete")
  BY <1>I, <1>T DEF KeepDirection, MarkDirection, DropGpx, Busy, At, TurnInv
<1>1. CASE KeepDirection(h)
  <2>1. UNCHANGED <<row, store>> /\ act[h].pc = "turn" /\ (Done(h) \/ Goto(h, "mark"))
    BY <1>1 DEF KeepDirection, At
  <2>2. ~Turning(h, Changed)
    BY <2>1 DEF Turning, Changed
  <2>3. CASE Done(h)
    <3>1. Others(h) /\ act'[h].pc = "idle"
      BY <1>T, <2>3, DoneIs
    <3> QED BY <1>S, <1>T, <2>1, <2>2, <3>1, FreeWork, OutputsQuiet DEF Free
  <2>4. CASE Goto(h, "mark")
    <3>1. Others(h) /\ act'[h].pc = "mark" /\ act'[h].kind = "toggle"
          /\ act'[h].disk = act[h].disk
      BY <1>T, <2>4, GotoIs
    <3>2. Work(act'[h], Here(h)', store[Remote], row.run)
      BY <1>I, <2>1, <3>1 DEF Work, Here
    <3> QED BY <1>S, <1>T, <2>1, <2>2, <3>1, <3>2, OutputsQuiet
  <2> QED BY <2>1, <2>3, <2>4
<1>2. CASE MarkDirection(h)
  <2>1. act[h].pc = "mark" /\ Goto(h, "drop") /\ UNCHANGED row
        /\ WriteHere(h, "options", act[h].want)
    BY <1>2 DEF MarkDirection, At
  <2>2. /\ Others(h) /\ act'[h].pc = "drop" /\ act'[h].kind = "toggle"
        /\ act'[h].disk = act[h].disk
    BY <1>T, <2>1, GotoIs
  <2>3. /\ \A p \in Place : p # act[h].disk => store'[p] = store[p]
        /\ \A g \in FileName : store'[act[h].disk][g]
                = IF g = "options" THEN act[h].want ELSE store[act[h].disk][g]
    BY <1>T, <2>1, WriteIs DEF FileName
  <2>4. /\ store'[Remote] = store[Remote]
        /\ store'[act[h].disk].options = act[h].want
        /\ store'[act[h].disk].route = store[act[h].disk].route
        /\ store'[act[h].disk].gpx = store[act[h].disk].gpx
    BY <1>T, <2>3 DEF FileName
  <2>5. Here(h)'.options # None /\ Here(h)'.route = row.run
    BY <1>I, <1>T, <2>1, <2>2, <2>4 DEF Work, Here
  <2>6. Work(act'[h], Here(h)', store'[Remote], row'.run)
    BY <2>1, <2>2, <2>5 DEF Work
  <2>7. WorkInv'
    BY <1>I, <1>S, <1>T, <2>2, <2>6, WorkMoves
  <2>8. \A p \in Place : store'[p].gpx = store[p].gpx
    BY <2>3, <2>4
  <2>9. ~Turning(h, Changed) /\ Turning(h, Changed)'
    BY <2>1, <2>2 DEF Turning, Changed
  <2>10. store[Remote].gpx # None /\ store[Remote].route = row.run
    BY <1>I, <1>S, <1>T, <2>9, WhoTurns DEF Turning
  <2>11. store'[Remote].options = None =>
                \A d \in Disk : store'[d].options = None \/ act'[h].disk = d
    BY <1>I, <1>S, <1>T, <2>2, <2>3, <2>4, <2>9, WhoTurns
  <2>12. StoredRightWay'
    BY <1>I, <2>1, <2>4 DEF StorageInv, StoredRightWay
  <2>13. StorageInv'
    BY <1>I, <1>S, <1>T, <2>1, <2>2, <2>4, <2>8, <2>9, <2>10, <2>11, <2>12, StorageMoves
  <2> QED BY <2>7, <2>13
<1>3. CASE DropGpx(h)
  <2>1. act[h].pc = "drop" /\ Goto(h, "direction") /\ UNCHANGED row
        /\ DeleteFiles(h, {"gpx"})
    BY <1>3 DEF DropGpx, At
  <2>2. /\ Others(h) /\ act'[h].pc = "direction" /\ act'[h].kind = "toggle"
        /\ act'[h].disk = act[h].disk
    BY <1>T, <2>1, GotoIs
  <2>3. \A p \in Place, f \in FileName : store'[p][f] =
                IF p \in {act[h].disk, Remote} /\ f \in {"gpx"} THEN None ELSE store[p][f]
    BY <1>T, <2>1, DeleteIs
  <2>4. \A p \in Place :
            /\ store'[p].options = store[p].options /\ store'[p].route = store[p].route
            /\ store'[p].gpx \in {None, store[p].gpx}
            /\ p \in {act[h].disk, Remote} => store'[p].gpx = None
    BY <2>3 DEF FileName
  <2>5. Here(h)'.options # None /\ Here(h)'.route = row.run /\ Here(h)'.gpx = None
    BY <1>I, <1>T, <2>1, <2>2, <2>4 DEF Work, Here
  <2>6. Work(act'[h], Here(h)', store'[Remote], row'.run)
    BY <2>1, <2>2, <2>5 DEF Work, RightWay
  <2>7. WorkInv'
    BY <1>I, <1>S, <1>T, <2>2, <2>6, WorkMoves
  <2>8. Turning(h, Changed \ {"drop"})' /\ Turning(h, Changed)'
    BY <2>2 DEF Turning, Changed
  <2>9. store[Remote].route = row.run
    BY <1>I, <1>S, <1>T, WhoTurns
  <2>10. store'[Remote].options = None =>
                \A d \in Disk : store'[d].options = None \/ act'[h].disk = d
    BY <1>I, <1>S, <1>T, <2>2, <2>4, WhoTurns
  <2>11. StoredRightWay'
    BY <1>T, <2>4 DEF RightWay, StoredRightWay
  <2>12. StorageInv'
    BY <1>I, <1>S, <1>T, <2>1, <2>2, <2>4, <2>8, <2>9, <2>10, <2>11, StorageMoves
  <2> QED BY <2>7, <2>12
<1> QED BY <1>1, <1>2, <1>3

\* The map and the GPX route of a completed job.
LEMMA OutputsAnswer ==
    ASSUME TypeInv, OutputsInv, NEW h \in Handler,
           PullRoute(h) \/ PullOptions(h) \/ PullGpx(h) \/ Serve(h)
    PROVE  WorkInv' /\ StorageInv'
<1>T. /\ h \in Actor /\ h # Worker /\ act[h] \in Process /\ Proper(h, act[h])
      /\ act[h].disk \in Disk /\ act[h].disk \in Place /\ Disk \subseteq Place
      /\ Remote \in Place /\ act[h].disk # Remote
      /\ store \in [Place -> Files] /\ act \in [Actor -> Process]
  BY OutputsAssumption DEF Actor, TypeInv, TypeOK, Process, Place
<1>I. TurnInv /\ StorageInv /\ Work(act[h], Here(h), store[Remote], row.run)
  BY <1>T DEF OutputsInv, WorkInv
<1>K. act[h].kind \in {"map", "download"} /\ Busy(h) /\ ~At(h, "reset") /\ ~At(h, "delete")
  BY <1>T, KindsAt DEF PullRoute, PullOptions, PullGpx, Serve, Busy, At
<1>S. row.status = "COMPLETED"
  BY <1>I, <1>K DEF TurnInv
<1>W. /\ row.run \in Run /\ row.run # None /\ store[Remote].route = row.run
      /\ store[Remote].gpx # None
      /\ store[Remote].options = None => \A d \in Disk : store[d].options = None
      /\ RightWay(store[Remote], row.run)
  BY <1>I, <1>K, <1>S, <1>T, WhoTurns DEF Turning, StorageInv, StoredRightWay
\* A file of the storage replaces this disk's.
<1>C. ASSUME NEW f \in FileName, Copy(Remote, act[h].disk, {f}), UNCHANGED row,
             Others(h), Work(act'[h], Here(h)', store[Remote], row.run)
      PROVE  WorkInv' /\ StorageInv'
  <2>1. /\ \A p \in Place : p # act[h].disk => store'[p] = store[p]
        /\ \A g \in FileName : store'[act[h].disk][g] =
             IF g = f /\ store[Remote][g] # None THEN store[Remote][g]
             ELSE store[act[h].disk][g]
    BY <1>C, <1>T, CopyIs
  <2>2. /\ store'[Remote] = store[Remote]
        /\ \A p \in Place : store'[p].gpx \in {store[p].gpx, store[Remote].gpx}
        /\ \A p \in Place : store'[p].options = store[p].options
                            \/ store[Remote].options # None
    BY <1>T, <2>1 DEF FileName
  <2>3. WorkInv'
    BY <1>C, <1>I, <1>K, <1>T, <2>2, WorkMoves
  <2>4. StorageInv'
    <3>1. \A p \in Place : \E q \in Place : store[q].gpx = store'[p].gpx
      BY <1>T, <2>2
    <3>2. store'[Remote].options = None => \A d \in Disk : store'[d].options = None
      BY <1>T, <1>W, <2>2
    <3>3. StoredRightWay'
      BY <1>C, <1>W, <2>2 DEF StoredRightWay
    <3> QED BY <1>C, <1>I, <1>K, <1>S, <1>T, <1>W, <2>2, <3>1, <3>2, <3>3, StorageMoves
  <2> QED BY <2>3, <2>4
<1>1. CASE PullRoute(h)
  <2>1. Copy(Remote, act[h].disk, {"route"}) /\ UNCHANGED row /\ Goto(h, "mapOptions")
    BY <1>1 DEF PullRoute
  <2>2. Others(h) /\ act'[h].pc = "mapOptions" /\ act'[h].disk = act[h].disk
    BY <1>T, <2>1, GotoIs
  <2>3. Here(h)'.route = row.run
    BY <1>T, <1>W, <2>1, <2>2, CopyIs DEF Here, FileName
  <2>4. Work(act'[h], Here(h)', store[Remote], row.run)
    BY <2>2, <2>3 DEF Work
  <2> QED BY <1>C, <2>1, <2>2, <2>4 DEF FileName
<1>2. CASE PullOptions(h)
  <2> DEFINE options == IF store[Remote].options # None THEN store[Remote].options
                        ELSE Here(h).options
             direction == IF options = None THEN "forward" ELSE options
             route == Here(h).route
  <2>1. Copy(Remote, act[h].disk, {"options"}) /\ UNCHANGED row /\ act[h].pc = "mapOptions"
    BY <1>2 DEF PullOptions, At
  <2>2. act' = [act EXCEPT ![h] = [act[h] EXCEPT !.pc = "serve", !.route = route,
                                                 !.direction = direction]]
    BY <1>2 DEF PullOptions
  <2>3. route = row.run /\ act[h].kind = "map"
    BY <1>I, <1>T, <2>1, KindsAt DEF Work
  <2>4. direction = IsReversed(store[Remote])
    BY <1>T, <1>W DEF IsReversed, Here
  <2> HIDE DEF route, direction
  <2>5. act'[h] = [act[h] EXCEPT !.pc = "serve", !.route = route, !.direction = direction]
        /\ Others(h)
    BY <1>T, <2>2 DEF Others
  <2>6. /\ act'[h].pc = "serve" /\ act'[h].kind = "map" /\ act'[h].route = row.run
        /\ act'[h].direction = IsReversed(store[Remote])
    BY <1>T, <2>3, <2>4, <2>5 DEF Process
  <2>7. Work(act'[h], Here(h)', store[Remote], row.run)
    BY <2>6 DEF Work
  <2> QED BY <1>C, <2>1, <2>5, <2>7 DEF FileName
<1>3. CASE PullGpx(h)
  <2> DEFINE gpx == store[Remote].gpx
  <2>1. Copy(Remote, act[h].disk, {"gpx"}) /\ UNCHANGED row /\ act[h].pc = "fetch"
    BY <1>3 DEF PullGpx, At
  <2>2. act' = [act EXCEPT ![h] = [act[h] EXCEPT !.pc = "serve", !.route = gpx.route,
                                                 !.direction = gpx.direction]]
    BY <1>3, <1>W DEF PullGpx
  <2>3. gpx = [route |-> gpx.route, direction |-> gpx.direction] /\ act[h].kind = "download"
    <3>1. gpx \in Gpx
      BY <1>T, <1>W, FilesAre
    <3>2. act[h].kind = "download"
      BY <1>T, <2>1, KindsAt
    <3> QED BY <3>1, <3>2 DEF Gpx
  <2> HIDE DEF gpx
  <2>5. act'[h] = [act[h] EXCEPT !.pc = "serve", !.route = gpx.route,
                                 !.direction = gpx.direction] /\ Others(h)
    BY <1>T, <2>2 DEF Others
  <2>6. /\ act'[h].pc = "serve" /\ act'[h].kind = "download" /\ act'[h].route = gpx.route
        /\ act'[h].direction = gpx.direction
    BY <1>T, <2>3, <2>5 DEF Process
  <2>7. Work(act'[h], Here(h)', store[Remote], row.run)
    BY <2>3, <2>6 DEF Work, gpx
  <2> QED BY <1>C, <2>1, <2>5, <2>7 DEF FileName
<1>4. CASE Serve(h)
  <2>1. Others(h) /\ act'[h].pc = "idle" /\ UNCHANGED <<row, store>>
    BY <1>4, <1>T, DoneIs DEF Serve
  <2>2. ~Turning(h, Changed)
    BY <1>K DEF Turning
  <2> QED BY <1>K, <1>T, <2>1, <2>2, FreeWork, OutputsQuiet DEF Free
<1> QED BY <1>1, <1>2, <1>3, <1>4

\* An upload's steps between its pushes.
LEMMA OutputsUpload ==
    ASSUME TypeInv, OutputsInv, NEW h \in Handler,
           FailUpload(h) \/ WriteInput(h) \/ StartTask(h)
    PROVE  WorkInv' /\ StorageInv'
<1>T. /\ h \in Actor /\ h # Worker /\ act[h] \in Process /\ Proper(h, act[h])
      /\ act \in [Actor -> Process]
  BY OutputsAssumption DEF Actor, TypeInv, TypeOK
<1>I. Work(act[h], Here(h), store[Remote], row.run)
  BY <1>T DEF OutputsInv, WorkInv
<1>K. /\ UNCHANGED <<row, store>> /\ Busy(h) /\ ~At(h, "reset")
      /\ act[h].kind \in Uploading /\ ~Turning(h, Changed)
  BY <1>T, KindsAt DEF FailUpload, WriteInput, StartTask, Busy, At, Turning, Uploading
<1>1. CASE Done(h)
  <2>1. Others(h) /\ act'[h].pc = "idle"
    BY <1>1, <1>T, DoneIs
  <2> QED BY <1>K, <1>T, <2>1, FreeWork, OutputsQuiet DEF Free
<1>2. CASE Goto(h, "pull") \/ StartTask(h)
  <2>1. CASE Goto(h, "pull")
    <3>1. Others(h) /\ act'[h].pc = "pull"
      BY <1>T, <2>1, GotoIs
    <3> QED BY <1>K, <1>T, <3>1, FreeWork, OutputsQuiet DEF Free
  <2>2. CASE StartTask(h)
    <3>1. /\ act'[h] = [act[h] EXCEPT !.pc = "pull", !.kind = "task", !.disk = WorkerDisk]
          /\ Others(h)
      BY <1>T, <2>2 DEF StartTask, Others
    <3>2. act'[h].pc = "pull"
      BY <1>T, <3>1 DEF Process
    <3>3. Others(h)
      BY <3>1
    <3>4. Work(act'[h], Here(h)', store[Remote], row.run)
      BY <3>2, FreeWork DEF Free
    <3> QED BY <1>K, <1>T, <3>3, <3>4, OutputsQuiet
  <2> QED BY <1>2, <2>1, <2>2
<1>3. CASE WriteInput(h) /\ act' = [act EXCEPT ![h].pc = "push", ![h].kind = "plots"]
  <2>1. act'[h] = [act[h] EXCEPT !.pc = "push", !.kind = "plots"] /\ Others(h)
    BY <1>3, <1>T DEF Others
  <2>2. act'[h].pc = "push" /\ act'[h].kind = "plots" /\ act'[h].disk = act[h].disk
    BY <1>T, <2>1 DEF Process
  <2>3. Here(h).options = store[Remote].options
    BY <1>3, <1>I DEF WriteInput, At, Work
  <2>4. Work(act'[h], Here(h)', store[Remote], row.run)
    BY <1>K, <2>2, <2>3 DEF Work, Here
  <2> QED BY <1>K, <1>T, <2>1, <2>4, OutputsQuiet
<1> QED BY <1>1, <1>2, <1>3 DEF FailUpload, WriteInput

\* A reset deletes what there is in the storage.
LEMMA OutputsDelete ==
    ASSUME TypeInv, OutputsInv, NEW h \in Handler, DeleteOutputs(h)
    PROVE  WorkInv' /\ StorageInv'
<1>T. /\ h \in Actor /\ h # Worker /\ act[h] \in Process /\ Proper(h, act[h])
      /\ act[h].disk \in Disk /\ Disk \subseteq Place /\ Remote \in Place
      /\ store \in [Place -> Files]
  BY OutputsAssumption DEF Actor, TypeInv, TypeOK, Process, Place
<1>I. TurnInv /\ StorageInv
  BY DEF OutputsInv
<1>K. act[h].kind \in {"reset", "restart"} /\ Busy(h) /\ ~At(h, "reset")
  BY <1>T, KindsAt DEF DeleteOutputs, Busy, At
<1>S. row.status = "PENDING" /\ UNCHANGED row
  BY <1>I, <1>K DEF DeleteOutputs, At, TurnInv
<1>1. Others(h) /\ act'[h].pc \in {"idle", "queue"}
  BY <1>T, DoneIs, GotoIs DEF DeleteOutputs, AfterReset
<1>2. \A p \in Place :
            /\ store'[p].options = store[p].options
            /\ store'[p].gpx \in {None, store[p].gpx}
            /\ p = Remote => store'[p].route = None /\ store'[p].gpx = None
  BY <1>T, DeleteIs DEF DeleteOutputs, FileName
<1>3. WorkInv'
  BY <1>1, <1>I, <1>K, <1>S, <1>T, FreeWork, WorkMoves DEF Free
<1>4. store'[Remote].options = None => \A d \in Disk : store'[d].options = None
  BY <1>2, <1>I, <1>K, <1>T, WhoTurns DEF Turning
<1>5. StoredRightWay'
  BY <1>2, <1>S, <1>T DEF StoredRightWay
<1>6. StorageInv'
  BY <1>1, <1>2, <1>4, <1>5, <1>I, <1>K, <1>S, <1>T, StorageMoves
<1> QED BY <1>3, <1>6

\* What is pulled into a disk is what the storage has.
LEMMA OutputsPull ==
    ASSUME TypeInv, OutputsInv, NEW a \in Actor, Pull(a)
    PROVE  WorkInv' /\ StorageInv'
<1>T. /\ act[a] \in Process /\ Proper(a, act[a])
      /\ act[a].disk \in Disk /\ act[a].disk \in Place /\ Disk \subseteq Place
      /\ Remote \in Place /\ act[a].disk # Remote /\ store \in [Place -> Files]
  BY OutputsAssumption DEF TypeInv, TypeOK, Process, Place
<1>I. TurnInv /\ StorageInv
  BY DEF OutputsInv
<1>K. /\ act[a].pc = "pull" /\ Busy(a) /\ ~At(a, "reset") /\ ~At(a, "delete")
      /\ act[a].kind \in {"page", "toggle", "submit", "restart", "upload", "task", "run"}
      /\ UNCHANGED row
  BY <1>T, KindsAt DEF Pull, Busy, At
<1>W. /\ row.status = "COMPLETED" =>
            /\ row.run \in Run /\ row.run # None /\ store[Remote].route = row.run
            /\ store[Remote].gpx # None
      /\ store[Remote].options = None => \A d \in Disk : store[d].options = None
      /\ StoredRightWay
  BY <1>I, <1>K, <1>T, WhoTurns DEF Turning, StorageInv, Changed
<1> DEFINE pc == CASE act[a].kind = "page" -> "direction"
                   [] act[a].kind = "toggle" -> "turn"
                   [] act[a].kind \in {"submit", "restart", "upload", "task"} -> "push"
                   [] act[a].kind = "run" -> "compute"
<1>1. Goto(a, pc) /\ Copy(Remote, act[a].disk, FileName)
  BY DEF Pull
<1>2. /\ act[a].kind = "page" => pc = "direction"
      /\ act[a].kind = "toggle" => pc = "turn"
      /\ act[a].kind \in {"submit", "restart", "upload", "task"} => pc = "push"
      /\ act[a].kind = "run" => pc = "compute"
  OBVIOUS
<1> HIDE DEF pc
<1>3. /\ Others(a) /\ act'[a].pc = pc /\ act'[a].kind = act[a].kind
      /\ act'[a].disk = act[a].disk
  BY <1>1, <1>T, GotoIs
<1>4. /\ \A p \in Place : p # act[a].disk => store'[p] = store[p]
      /\ \A g \in FileName : store'[act[a].disk][g] =
            IF store[Remote][g] # None THEN store[Remote][g] ELSE store[act[a].disk][g]
  BY <1>1, <1>T, CopyIs
<1>5. /\ store'[Remote] = store[Remote]
      /\ \A p \in Place : store'[p].gpx \in {store[p].gpx, store[Remote].gpx}
      /\ \A p \in Place : store'[p].options = store[p].options
                            \/ store[Remote].options # None
  BY <1>T, <1>4 DEF FileName
<1>6. /\ Here(a)'.options = store[Remote].options
      /\ row.status = "COMPLETED" => /\ Here(a)'.route = row.run
                                     /\ Here(a)'.gpx = store[Remote].gpx
  BY <1>3, <1>4, <1>T, <1>W DEF Here, FileName
<1>7. row.status = "COMPLETED" => RightWay(Here(a)', row.run)
  BY <1>6, <1>W DEF StoredRightWay, RightWay, IsReversed
<1>8. act[a].kind \in {"page", "toggle"} => row.status = "COMPLETED"
  <2>1. a = Worker => act[a].kind = "run"
    BY <1>K DEF Proper, Busy, At, TypeInv
  <2> QED BY <1>I, <1>K, <2>1 DEF TurnInv, Actor
<1>9. Work(act'[a], Here(a)', store'[Remote], row'.run)
  BY <1>2, <1>3, <1>5, <1>6, <1>7, <1>8, <1>K DEF Work
<1>10. WorkInv'
  BY <1>3, <1>9, <1>I, <1>K, WorkMoves
<1>11. StorageInv'
  <2>1. \A p \in Place : \E q \in Place : store[q].gpx = store'[p].gpx
    BY <1>5, <1>T
  <2>2. store'[Remote].options = None => \A d \in Disk : store'[d].options = None
    BY <1>5, <1>T, <1>W
  <2>3. StoredRightWay'
    BY <1>5, <1>K, <1>W DEF StoredRightWay
  <2> QED BY <1>3, <1>5, <1>I, <1>K, <1>W, <2>1, <2>2, <2>3, StorageMoves
<1> QED BY <1>10, <1>11

\* What is pushed is what was made, in the direction it was made in.
LEMMA OutputsPush ==
    ASSUME TypeInv, OutputsInv, NEW a \in Actor, Push(a)
    PROVE  WorkInv' /\ StorageInv'
<1>T. /\ act[a] \in Process /\ Proper(a, act[a])
      /\ act[a].disk \in Disk /\ act[a].disk \in Place /\ Disk \subseteq Place
      /\ Remote \in Place /\ act[a].disk # Remote /\ store \in [Place -> Files]
      /\ row \in Row
  BY OutputsAssumption DEF TypeInv, TypeOK, Process, Place
<1>I. TurnInv /\ StorageInv /\ Work(act[a], Here(a), store[Remote], row.run)
  BY DEF OutputsInv, WorkInv
<1>K. /\ act[a].pc = "push" /\ Busy(a) /\ ~At(a, "reset") /\ ~At(a, "delete")
      /\ act[a].kind \in {"page", "toggle", "submit", "restart", "run"} \cup Uploading
      /\ UNCHANGED row
      /\ (a = Worker <=> act[a].kind = "run")
  BY <1>T, KindsAt DEF Push, Busy, At, Proper
<1>S. /\ act[a].kind \in {"page", "toggle"} => row.status = "COMPLETED"
      /\ act[a].kind \in {"submit", "restart", "run"} => row.status = "RUNNING"
      /\ row.status \in {"COMPLETED", "RUNNING"} => row.run \in Run /\ row.run # None
      /\ act[a].kind \in {"submit", "restart"} => act[Worker].pc = "idle"
      /\ act[a].kind \in Uploading => row.status = "PENDING"
  <2>1. row.status = "COMPLETED" => row.run \in Run
    BY <1>I DEF StorageInv, Kept
  <2>2. row.status = "RUNNING" => row.run \in Run
    BY DEF TypeInv
  <2>3. act[a].kind \in Uploading => a \in Handler
    BY <1>K DEF Actor, Uploading
  <2> QED BY <1>I, <1>K, <2>1, <2>2, <2>3, OutputsAssumption DEF TurnInv, Actor, Busy, At
<1>1. Copy(act[a].disk, Remote, FileName)
      /\ CASE act[a].kind \in {"page", "toggle", "task"} -> Done(a)
           [] act[a].kind \in {"submit", "restart"} -> Goto(a, "send")
           [] act[a].kind = "upload" -> Goto(a, "write")
           [] act[a].kind = "plots" -> Goto(a, "hand")
           [] act[a].kind = "run" -> Goto(a, "end")
  BY DEF Push
<1>2. /\ Others(a)
      /\ act'[a].pc # "idle" => act'[a].disk = act[a].disk
      /\ act[a].kind \in {"page", "toggle"} => act'[a].pc = "idle"
      /\ act[a].kind \in {"submit", "restart"} => act'[a].pc = "send"
      /\ act[a].kind = "run" => act'[a].pc = "end"
      /\ act[a].kind \in Uploading => act'[a].pc \in {"idle", "write", "hand"}
  BY <1>1, <1>K, GotoIs, DoneIs DEF Uploading
<1>3. /\ \A p \in Place : p # Remote => store'[p] = store[p]
      /\ \A g \in FileName : store'[Remote][g] =
            IF store[act[a].disk][g] # None THEN store[act[a].disk][g] ELSE store[Remote][g]
  BY <1>1, <1>T, CopyIs
<1>4. \A p \in Place : store'[p].gpx \in {store[p].gpx, store[act[a].disk].gpx}
  BY <1>T, <1>3 DEF FileName
<1>5. CASE act[a].kind \in {"page", "toggle", "run"}
  <2>1. /\ Here(a).route = row.run /\ RightWay(Here(a), row.run) /\ Here(a).gpx # None
        /\ Here(a).options = store[Remote].options \/ Here(a).options # None
    BY <1>5, <1>I, <1>K DEF Work
  <2>2. /\ store'[Remote].route = row.run /\ store'[Remote].gpx = Here(a).gpx
        /\ store'[Remote].gpx # None /\ store'[Remote].options = Here(a).options
    BY <1>3, <1>5, <1>S, <2>1 DEF Here, FileName
  <2>3. StoredRightWay'
    BY <1>K, <2>1, <2>2 DEF StoredRightWay, RightWay, IsReversed
  <2>4. Work(act'[a], Here(a)', store'[Remote], row'.run)
    BY <1>2, <1>5, <1>K, <2>2 DEF Work
  <2>5. WorkInv'
    BY <1>2, <1>I, <1>K, <2>4, WorkMoves
  <2>6. store'[Remote].options = None => \A d \in Disk : store'[d].options = None
    <3>1. ASSUME store'[Remote].options = None PROVE \A d \in Disk : store[d].options = None
      <4>1. Here(a).options = None /\ store[Remote].options = None
        BY <2>1, <2>2, <3>1
      <4>2. \A d \in Disk : store[d].options = None \/ act[a].disk = d
        BY <1>I, <1>K, <4>1, WhoTurns
      <4> QED BY <4>1, <4>2 DEF Here
    <3>2. \A d \in Disk : store'[d] = store[d]
      BY <1>3, <1>T, OutputsAssumption
    <3> QED BY <3>1, <3>2
  <2>7. \A p \in Place : \E q \in Place : store[q].gpx = store'[p].gpx
    BY <1>4, <1>T
  <2>8. StorageInv'
    BY <1>2, <1>5, <1>I, <1>K, <2>2, <2>3, <2>6, <2>7, StorageMoves
  <2> QED BY <2>5, <2>8
<1>6. CASE act[a].kind \in {"submit", "restart"} \cup Uploading
  <2>1. Here(a).options = store[Remote].options
    BY <1>6, <1>I, <1>K DEF Work, Uploading
  <2>2. store'[Remote].options = store[Remote].options
    BY <1>3, <2>1 DEF Here, FileName
  <2>3. \A p \in Place : \E q \in Place : store[q].gpx = store'[p].gpx
    BY <1>4, <1>T
  <2>4. StoredRightWay'
    <3> SUFFICES ASSUME row.status # "PENDING", store'[Remote].gpx # None
                 PROVE  store'[Remote].gpx.route # row.run
      BY <1>K DEF StoredRightWay, RightWay
    <3>1. PICK q \in Place : store[q].gpx = store'[Remote].gpx
      BY <1>T, <2>3
    <3>2. store[q].gpx.route < row.run /\ store[q].gpx.route \in Run
      BY <1>6, <1>I, <1>S, <1>T, <3>1, FilesAre DEF StorageInv, GpxAge
    <3>3. row.run \in Nat /\ store[q].gpx.route \in Nat
      BY <1>T, <3>2, OutputsAssumption DEF Row, Run
    <3> QED BY <3>1, <3>2, <3>3
  <2>5. WorkInv'
    <3>1. CASE act'[a].pc = "write"
      <4>1. Here(a)'.options = store'[Remote].options
        BY <3>1, <1>3, <1>T, <1>2, <2>1, <2>2 DEF Here
      <4>2. Work(act'[a], Here(a)', store'[Remote], row'.run)
        BY <3>1, <4>1 DEF Work
      <4> QED BY <1>2, <1>I, <1>K, <4>2, WorkMoves
    <3>2. CASE act'[a].pc # "write"
      BY <1>2, <1>6, <1>I, <1>K, <3>2, FreeWork, WorkMoves DEF Free
    <3> QED BY <3>1, <3>2
  <2>6. store'[Remote].options = None => \A d \in Disk : store'[d].options = None
    <3>1. \A d \in Disk : store'[d] = store[d]
      BY <1>3, <1>T, OutputsAssumption
    <3> QED BY <1>6, <1>I, <1>K, <2>2, <3>1, WhoTurns DEF Turning, Uploading
  <2>7. StorageInv'
    BY <1>2, <1>6, <1>I, <1>K, <1>S, <2>3, <2>4, <2>6, StorageMoves DEF Uploading
  <2> QED BY <2>5, <2>7
<1> QED BY <1>5, <1>6, <1>K

\* A GPX file is made of the route of the row's run, in the direction of the disk.
LEMMA OutputsMake ==
    ASSUME TypeInv, OutputsInv, NEW a \in Actor,
           ReadDirection(a) \/ ReadRoute(a) \/ WriteGpx(a)
    PROVE  WorkInv' /\ StorageInv'
<1>T. /\ act[a] \in Process /\ Proper(a, act[a])
      /\ act[a].disk \in Disk /\ act[a].disk \in Place /\ Disk \subseteq Place
      /\ Remote \in Place /\ act[a].disk # Remote /\ store \in [Place -> Files]
      /\ row \in Row /\ act \in [Actor -> Process] /\ Worker \in Actor
  BY OutputsAssumption DEF TypeInv, TypeOK, Process, Place, Actor
<1>I. TurnInv /\ StorageInv /\ Work(act[a], Here(a), store[Remote], row.run)
  BY DEF OutputsInv, WorkInv
<1>K. /\ act[a].pc \in {"direction", "route", "gpx"} /\ Busy(a)
      /\ ~At(a, "reset") /\ ~At(a, "delete")
      /\ act[a].kind \in {"page", "toggle", "run"}
      /\ (a = Worker <=> act[a].kind = "run")
  BY <1>T, KindsAt DEF ReadDirection, ReadRoute, WriteGpx, Busy, At, Proper
<1>S. /\ act[a].kind \in {"page", "toggle"} => row.status = "COMPLETED"
      /\ act[a].kind = "run" => row.status = "RUNNING"
      /\ row.run \in Run /\ row.run # None
  <2>1. row.status = "COMPLETED" => row.run \in Run
    BY <1>I DEF StorageInv, Kept
  <2>2. row.status = "RUNNING" => row.run \in Run
    BY DEF TypeInv
  <2> QED BY <1>I, <1>K, <2>1, <2>2, OutputsAssumption DEF TurnInv, Actor
<1>W. /\ Here(a).route = row.run /\ RightWay(Here(a), row.run)
      /\ act[a].kind = "toggle" => Here(a).options # None
      /\ act[a].kind # "toggle" => Here(a).options = store[Remote].options
      /\ act[a].pc \in {"route", "gpx"} => act[a].direction = IsReversed(Here(a))
      /\ act[a].pc = "gpx" => act[a].route = row.run
  BY <1>I, <1>K DEF Work
<1>H. Turning(a, Changed) => act[a].kind = "toggle"
  BY DEF Turning
\* It is still the one that changes the direction.
<1>Q. ASSUME Others(a), UNCHANGED <<row, store>>, act'[a].kind = act[a].kind,
             act'[a].disk = act[a].disk, act'[a].pc \in {"route", "gpx", "push"},
             act'[a].pc \in {"route", "gpx"} => act'[a].direction = IsReversed(Here(a)),
             act'[a].pc = "gpx" => act'[a].route = row.run,
             act'[a].pc = "push" => Here(a).gpx # None
      PROVE  WorkInv' /\ StorageInv'
  <2>1. Here(a)' = Here(a)
    BY <1>Q DEF Here
  <2>2. Work(act'[a], Here(a)', store[Remote], row.run)
    BY <1>K, <1>Q, <1>W, <2>1 DEF Work
  <2>3. Turning(a, Changed) => Turning(a, Changed \ {"drop"})'
    BY <1>Q DEF Turning, Changed
  <2> QED BY <1>K, <1>Q, <2>2, <2>3, OutputsQuiet
<1>1. CASE ReadDirection(a)
  <2> DEFINE direction == IsReversed(Here(a))
  <2>1. act' = [act EXCEPT ![a] = [act[a] EXCEPT !.pc = "route", !.direction = direction]]
        /\ UNCHANGED <<row, store>>
    BY <1>1 DEF ReadDirection
  <2>2. act'[a] = [act[a] EXCEPT !.pc = "route", !.direction = direction] /\ Others(a)
    BY <1>T, <2>1 DEF Others
  <2>3. /\ act'[a].pc = "route" /\ act'[a].kind = act[a].kind
        /\ act'[a].disk = act[a].disk /\ act'[a].direction = direction
    <3> HIDE DEF direction
    <3> QED BY <1>T, <2>2 DEF Process
  <2> QED BY <1>Q, <2>1, <2>2, <2>3
<1>2. CASE ReadRoute(a)
  <2> DEFINE route == Here(a).route
  <2>1. UNCHANGED <<row, store>> /\ act[a].pc = "route"
        /\ \/ Here(a).gpx # None /\ Goto(a, "push")
           \/ act' = [act EXCEPT ![a] = [act[a] EXCEPT !.pc = "gpx", !.route = route]]
    BY <1>2, <1>S, <1>W DEF ReadRoute, At
  <2>2. CASE Here(a).gpx # None /\ Goto(a, "push")
    BY <1>Q, <2>1, <2>2, GotoIs
  <2>3. CASE act' = [act EXCEPT ![a] = [act[a] EXCEPT !.pc = "gpx", !.route = route]]
    <3>1. act'[a] = [act[a] EXCEPT !.pc = "gpx", !.route = route] /\ Others(a)
      BY <1>T, <2>3 DEF Others
    <3>2. /\ act'[a].pc = "gpx" /\ act'[a].kind = act[a].kind
          /\ act'[a].disk = act[a].disk /\ act'[a].direction = act[a].direction
          /\ act'[a].route = route
      <4> HIDE DEF route
      <4> QED BY <1>T, <3>1 DEF Process
    <3> QED BY <1>Q, <1>W, <2>1, <3>1, <3>2
  <2> QED BY <2>1, <2>2, <2>3
<1>3. CASE WriteGpx(a)
  <2> DEFINE gpx == [route |-> act[a].route, direction |-> act[a].direction]
  <2>1. act[a].pc = "gpx" /\ Goto(a, "push") /\ UNCHANGED row /\ WriteHere(a, "gpx", gpx)
    BY <1>3 DEF WriteGpx, At
  <2>2. gpx \in Gpx /\ gpx # None
    BY <1>T, <2>1, OutputsAssumption DEF Proper, Process, Gpx
  <2>3. gpx.route = row.run /\ gpx.direction = IsReversed(Here(a))
    BY <1>W, <2>1
  <2> HIDE DEF gpx
  <2>4. /\ Others(a) /\ act'[a].pc = "push" /\ act'[a].kind = act[a].kind
        /\ act'[a].disk = act[a].disk
    BY <2>1, GotoIs
  <2>5. /\ \A p \in Place : p # act[a].disk => store'[p] = store[p]
        /\ \A g \in FileName : store'[act[a].disk][g]
                = IF g = "gpx" THEN gpx ELSE store[act[a].disk][g]
    BY <1>T, <2>1, <2>2, WriteIs DEF FileName
  <2>6. /\ store'[Remote] = store[Remote]
        /\ \A p \in Place : store'[p].options = store[p].options
        /\ Here(a)'.route = Here(a).route /\ Here(a)'.options = Here(a).options
        /\ Here(a)'.gpx = gpx
    BY <1>T, <2>4, <2>5 DEF FileName, Here
  <2>7. Work(act'[a], Here(a)', store'[Remote], row'.run)
    BY <1>K, <1>W, <2>1, <2>2, <2>3, <2>4, <2>6 DEF Work, RightWay, IsReversed
  <2>8. WorkInv'
    BY <1>I, <1>K, <2>4, <2>7, WorkMoves
  <2>9. \A p \in Place : store'[p].gpx # None =>
                \/ \E q \in Place : store[q].gpx = store'[p].gpx
                \/ /\ store'[p].gpx.route = row.run
                   /\ row.status = "RUNNING" => a = Worker /\ act'[a].pc = "push"
    BY <1>K, <1>S, <2>3, <2>4, <2>5, <2>6 DEF Here
  <2>10. Turning(a, Changed) => Turning(a, Changed)' /\ Turning(a, Changed \ {"drop"})'
    BY <2>4 DEF Turning, Changed
  <2>11. row.status = "COMPLETED" =>
                /\ store'[Remote].route = row.run
                /\ \/ store'[Remote].gpx # None
                   \/ a \in Handler /\ Turning(a, Changed \ {"drop"})'
    <3>1. Turning(a, Changed \ {"drop"}) => Turning(a, Changed)
      BY DEF Turning
    <3> QED BY <1>I, <1>K, <2>6, <2>10, <3>1, WhoTurns
  <2>12. store'[Remote].options = None =>
                \A d \in Disk : \/ store'[d].options = None
                                \/ a \in Handler /\ Turning(a, Changed)' /\ act'[a].disk = d
    BY <1>I, <1>K, <1>T, <2>4, <2>6, <2>10, WhoTurns
  <2>13. StoredRightWay'
    BY <1>I, <2>1, <2>6 DEF StorageInv, StoredRightWay
  <2>14. StorageInv'
    BY <1>I, <1>K, <1>S, <2>1, <2>4, <2>6, <2>9, <2>11, <2>12, <2>13, StorageMoves
  <2> QED BY <2>8, <2>14
<1> QED BY <1>1, <1>2, <1>3

\* The pipeline's solution is the row's run's, and no GPX file is of it yet.
LEMMA OutputsCompute ==
    ASSUME TypeInv, OutputsInv, ComputeRoute
    PROVE  WorkInv' /\ StorageInv'
<1> DEFINE a == Worker
<1>T. /\ act[a] \in Process /\ Proper(a, act[a])
      /\ act[a].disk \in Disk /\ act[a].disk \in Place /\ Disk \subseteq Place
      /\ Remote \in Place /\ act[a].disk # Remote /\ store \in [Place -> Files]
      /\ row \in Row /\ a \in Actor /\ a \notin Handler
  BY OutputsAssumption DEF TypeInv, TypeOK, Process, Place, Actor
<1>I. TurnInv /\ StorageInv /\ Work(act[a], Here(a), store[Remote], row.run)
  BY <1>T DEF OutputsInv, WorkInv
<1>K. /\ act[a].pc = "compute" /\ Busy(a) /\ ~At(a, "reset") /\ ~At(a, "delete")
      /\ act[a].kind = "run" /\ UNCHANGED row
      /\ row.status = "RUNNING" /\ act[a].run = row.run /\ row.run \in Run
  BY <1>I, <1>T DEF ComputeRoute, Busy, At, Proper, TurnInv
<1>1. WriteHere(a, "route", row.run) /\ Goto(a, "direction")
  BY <1>K DEF ComputeRoute
<1>2. /\ Others(a) /\ act'[a].pc = "direction" /\ act'[a].kind = "run"
      /\ act'[a].disk = act[a].disk
  BY <1>1, <1>K, <1>T, GotoIs
<1>3. /\ \A p \in Place : p # act[a].disk => store'[p] = store[p]
      /\ \A g \in FileName : store'[act[a].disk][g]
                = IF g = "route" THEN row.run ELSE store[act[a].disk][g]
  BY <1>1, <1>K, <1>T, WriteIs DEF FileName
<1>4. /\ store'[Remote] = store[Remote]
      /\ \A p \in Place : store'[p].options = store[p].options /\ store'[p].gpx = store[p].gpx
      /\ Here(a)'.route = row.run /\ Here(a)'.options = store[Remote].options
  BY <1>2, <1>3, <1>I, <1>K, <1>T DEF FileName, Here, Work
<1>5. RightWay(Here(a)', row.run)
  <2> SUFFICES ASSUME Here(a)'.gpx # None PROVE Here(a)'.gpx.route # row.run
    BY DEF RightWay
  <2>1. Here(a)'.gpx = store[act[a].disk].gpx
    BY <1>2, <1>4, <1>T DEF Here
  <2>2. store[act[a].disk].gpx.route < row.run /\ store[act[a].disk].gpx.route \in Run
    BY <1>I, <1>K, <1>T, <2>1, FilesAre DEF StorageInv, GpxAge
  <2>3. row.run \in Nat /\ store[act[a].disk].gpx.route \in Nat
    BY <1>T, <2>2, OutputsAssumption DEF Row, Run
  <2> QED BY <2>1, <2>2, <2>3
<1>6. Work(act'[a], Here(a)', store'[Remote], row'.run)
  BY <1>2, <1>4, <1>5, <1>K DEF Work
<1>7. WorkInv'
  BY <1>2, <1>6, <1>I, <1>K, <1>T, WorkMoves
<1>8. store'[Remote].options = None => \A d \in Disk : store'[d].options = None
  BY <1>4, <1>I, <1>K, <1>T, WhoTurns
<1>9. StoredRightWay'
  BY <1>4, <1>I, <1>K DEF StorageInv, StoredRightWay
<1>10. \A p \in Place : \E q \in Place : store[q].gpx = store'[p].gpx
  BY <1>4
<1>11. StorageInv'
  BY <1>2, <1>4, <1>8, <1>9, <1>10, <1>I, <1>K, <1>T, StorageMoves
<1> QED BY <1>7, <1>11

\* A step of the row, while nobody changes the direction.
LEMMA OutputsRow ==
    ASSUME TypeInv, OutputsInv, row' \in Row, store' = store,
           \A h \in Handler : ~Turning(h, Changed),
           \A a \in Actor : \/ act'[a].pc \in Free
                            \/ act'[a] = act[a] /\ row'.run = row.run,
           row'.run = row.run \/ row'.run > row.run,
           row'.status = "RUNNING" /\ act'[Worker].pc \notin {"push", "end"} =>
                \/ row.status = "RUNNING" /\ act[Worker].pc \notin {"push", "end"}
                \/ row'.run > row.run,
           row.status = "PENDING" => row'.status = "PENDING" \/ row'.run > row.run,
           row'.status = "COMPLETED" =>
                /\ row'.run \in Run /\ store[Remote].route = row'.run
                /\ store[Remote].gpx # None
    PROVE  WorkInv' /\ StorageInv'
<1>T. /\ store \in [Place -> Files] /\ row.run \in Nat /\ row'.run \in Nat /\ Remote \in Place
  BY OutputsAssumption DEF TypeInv, TypeOK, Row, Place
<1>G. \A p \in Place : store[p].gpx # None =>
        /\ store[p].gpx.route \in Nat /\ store[p].gpx.route <= row.run
        /\ row.status = "RUNNING" /\ act[Worker].pc \notin {"push", "end"}
             => store[p].gpx.route < row.run
  BY <1>T, FilesAre, OutputsAssumption DEF Run, OutputsInv, StorageInv, GpxAge
<1>1. WorkInv'
  <2> SUFFICES ASSUME NEW a \in Actor
               PROVE  Work(act'[a], Here(a)', store'[Remote], row'.run)
    BY DEF WorkInv
  <2>1. CASE act'[a].pc \in Free
    BY <2>1, FreeWork
  <2>2. CASE act'[a] = act[a] /\ row'.run = row.run
    BY <2>2 DEF OutputsInv, WorkInv, Here
  <2> QED BY <2>1, <2>2
<1>2. GpxAge'
  BY <1>G, <1>T DEF GpxAge
<1>4. Kept'
  BY DEF Kept
<1>5. OptionsStored'
  BY DEF OutputsInv, StorageInv, OptionsStored
<1>6. StoredRightWay'
  BY <1>G, <1>T DEF OutputsInv, StorageInv, StoredRightWay, RightWay
<1> QED BY <1>1, <1>2, <1>4, <1>5, <1>6 DEF StorageInv

\* The row's and the message's part of a request.
LEMMA OutputsRequest ==
    ASSUME OneAtATime, TypeInv, TypeInv', OutputsInv, NEW h \in Handler,
           \/ OpenDownloadPage(h) \/ ToggleDirection(h) \/ OpenMap(h) \/ DownloadGpx(h)
           \/ ResetJob(h) \/ RestartComputation(h) \/ StartComputation(h)
           \/ MarkPending(h) \/ MarkQueued(h) \/ Enqueue(h)
           \/ UploadInput(h)
    PROVE  WorkInv' /\ StorageInv'
<1>T. /\ h \in Actor /\ h # Worker /\ act[h] \in Process /\ Proper(h, act[h])
      /\ row \in Row /\ row' \in Row /\ Worker \in Actor
  BY OutputsAssumption DEF Actor, TypeInv, TypeOK
<1>I. TurnInv /\ StorageInv
  BY DEF OutputsInv
<1>1. ASSUME NEW kind, NEW pc \in Free \ {"delete"}, Begin(h, kind, pc) PROVE WorkInv' /\ StorageInv'
  <2>1. /\ \A a \in Actor : ~Busy(a)
        /\ Others(h) /\ act'[h].pc = pc /\ UNCHANGED <<row, store>>
    BY <1>1, BeginIs
  <2>2. \A a \in Actor : act'[a].pc \in Free /\ act[a].pc = "idle"
    BY <1>1, <2>1 DEF Others, Busy, At, Free
  <2>3. /\ \A g \in Handler : ~Turning(g, Changed) /\ ~At(g, "delete")
    BY <2>2 DEF Turning, Changed, At, Actor
  <2>4. /\ act'[Worker].pc = act[Worker].pc
        /\ row.status = "COMPLETED" =>
            row.run \in Run /\ store[Remote].route = row.run /\ store[Remote].gpx # None
    BY <1>I, <1>T, <2>1, <2>3 DEF Others, StorageInv, Kept, Turning, Changed
  <2> QED BY <1>T, <2>1, <2>2, <2>3, <2>4, OutputsRow
<1>2. CASE \/ OpenDownloadPage(h) \/ ToggleDirection(h) \/ OpenMap(h) \/ DownloadGpx(h)
           \/ ResetJob(h) \/ RestartComputation(h) \/ StartComputation(h) \/ UploadInput(h)
  BY <1>1, <1>2 DEF OpenDownloadPage, ToggleDirection, OpenMap, DownloadGpx, ResetJob,
        RestartComputation, StartComputation, UploadInput, Free
<1>3. CASE MarkPending(h)
  <2>1. /\ act[h].pc = "reset" /\ store' = store
        /\ act[h].kind \in {"reset", "restart"}
    BY <1>3, <1>T, KindsAt DEF MarkPending, At
  <2>2. \A g \in Handler : act[g].pc \in {"idle", "reset"}
    BY <1>I, <2>1 DEF TurnInv, Busy, At
  <2>3. \A g \in Handler : ~Turning(g, Changed) /\ ~At(g, "delete")
    BY <2>2 DEF Turning, Changed, At
  <2>4. CASE row.status = "RUNNING"
    <3>1. UNCHANGED row /\ Others(h) /\ act'[h].pc = "idle"
      BY <1>3, <1>T, <2>4, DoneIs DEF MarkPending
    <3>2. \A a \in Actor : act'[a].pc \in Free \/ act'[a] = act[a]
      BY <3>1 DEF Others, Free
    <3>3. act'[Worker] = act[Worker]
      BY <1>T, <3>1 DEF Others
    <3> QED BY <1>T, <2>1, <2>3, <2>4, <3>1, <3>2, <3>3, OutputsRow
  <2>5. CASE row.status # "RUNNING"
    <3>1. row' = [row EXCEPT !.status = "PENDING"] /\ Others(h) /\ act'[h].pc = "delete"
      BY <1>3, <1>T, <2>5, GotoIs DEF MarkPending
    <3>2. row'.status = "PENDING" /\ row'.run = row.run
      BY <1>T, <3>1 DEF Row
    <3>3. \A a \in Actor : a # h => act'[a] = act[a]
      BY <3>1 DEF Others
    <3>4. \A a \in Actor : act'[a].pc \in Free \/ act'[a] = act[a]
      BY <3>1, <3>3 DEF Free
    <3>5. \E g \in Handler : At(g, "delete")'
      BY <3>1 DEF At
    <3> QED BY <1>T, <2>1, <2>3, <3>2, <3>4, <3>5, OutputsRow
  <2> QED BY <2>4, <2>5
<1>4. CASE MarkQueued(h) \/ Enqueue(h)
  <2>1. /\ Busy(h) /\ ~At(h, "reset") /\ ~At(h, "delete") /\ store' = store
        /\ act[h].pc \in {"queue", "send"} /\ act[h].kind \in {"submit", "restart"}
    BY <1>4, <1>T, KindsAt DEF MarkQueued, Enqueue, Busy, At
  <2>2. \A a \in Actor : a # h => act[a].pc = "idle"
    BY <1>I, <2>1, Alone DEF Busy, At
  <2>3. \A g \in Handler : ~Turning(g, Changed) /\ ~At(g, "delete")
    BY <1>T, <2>1, <2>2 DEF Turning, Changed, At, Actor
  <2>4. Others(h) /\ act'[h].pc \in Free
    BY <1>4, <1>T, DoneIs, GotoIs DEF MarkQueued, Enqueue, Free
  <2>5. \A a \in Actor : act'[a].pc \in Free
    BY <2>2, <2>4 DEF Others, Free
  <2>6. act'[Worker].pc = "idle" /\ act[Worker].pc = "idle"
    BY <1>T, <2>2, <2>4 DEF Others
  <2>7. \/ UNCHANGED row
        \/ row' = [status |-> "RUNNING", run |-> row.run + 1]
    BY <1>4 DEF MarkQueued, Enqueue
  <2>8. row.status # "COMPLETED"
    BY <1>4, <1>I, <2>1 DEF TurnInv, At, MarkQueued, Enqueue
  <2>9. CASE UNCHANGED row
    BY <1>T, <2>1, <2>3, <2>5, <2>6, <2>8, <2>9, OutputsRow
  <2>10. CASE row' = [status |-> "RUNNING", run |-> row.run + 1]
    <3>1. row'.status = "RUNNING" /\ row'.run = row.run + 1 /\ row.run \in Nat
      BY <1>T, <2>10, OutputsAssumption DEF Row
    <3>2. row'.run > row.run
      BY <3>1
    <3> QED BY <1>T, <2>1, <2>3, <2>5, <3>1, <3>2, OutputsRow
  <2> QED BY <2>7, <2>9, <2>10
<1> QED BY <1>2, <1>3, <1>4

\* Every step of users who wait.
LEMMA OutputsStep ==
    ASSUME OneAtATime, TypeInv, OutputsInv, [Next]_vars
    PROVE  OutputsInv'
<1>T. /\ TypeInv' /\ Worker \in Actor /\ Worker \notin Handler /\ row \in Row /\ row' \in Row
      /\ act[Worker] \in Process /\ Proper(Worker, act[Worker])
      /\ act \in [Actor -> Process]
  BY TypeStep, OutputsAssumption DEF Actor, TypeInv, TypeOK
<1>I. TurnInv /\ StorageInv /\ WorkInv
  BY DEF OutputsInv
<1> SUFFICES WorkInv' /\ StorageInv'
  BY <1>I, TurnStep DEF OutputsInv
\* The end of the run, or of its message.
<1>E. ASSUME Done(Worker) \/ Deliver, store' = store, row'.run = row.run,
             \A h \in Handler : act[h].pc \in {"idle", "reset"}, row.status = "RUNNING",
             row'.status = "FAILED" \/ (row'.status = "COMPLETED" /\ At(Worker, "end"))
                \/ (Deliver /\ row' = row)
      PROVE  WorkInv' /\ StorageInv'
  <2>1. \A h \in Handler : ~Turning(h, Changed) /\ ~At(h, "delete")
    BY <1>E DEF Turning, Changed, At
  <2>2. /\ Others(Worker) /\ act'[Worker].pc \in Free
        /\ Deliver => row.status = "RUNNING" /\ act[Worker].pc = "idle"
    <3>1. CASE Done(Worker) /\ ~Deliver
      BY <1>T, <3>1, DoneIs DEF Free
    <3>2. CASE Deliver
      <4>1. row.status = "RUNNING" /\ act[Worker].pc = "idle"
        BY <1>I, <3>2 DEF Deliver, TurnInv, At
      <4>2. act' = [act EXCEPT ![Worker] =
                        [Idle EXCEPT !.pc = "pull", !.kind = "run", !.run = row.run]]
        BY <3>2, <4>1 DEF Deliver
      <4>3. Idle \in Process
        BY OutputsAssumption DEF Idle, Process, Disk, Direction
      <4>4. act'[Worker] = [Idle EXCEPT !.pc = "pull", !.kind = "run", !.run = row.run]
            /\ Others(Worker)
        BY <1>T, <4>2 DEF Others
      <4>5. act'[Worker].pc = "pull"
        BY <4>3, <4>4 DEF Process
      <4> QED BY <4>1, <4>4, <4>5 DEF Free
    <3> QED BY <1>E, <3>1, <3>2
  <2>3. \A a \in Actor : act'[a].pc \in Free
    BY <1>E, <2>2 DEF Others, Actor, Free
  <2>4. At(Worker, "end") =>
            row.run \in Run /\ store[Remote].route = row.run /\ store[Remote].gpx # None
    BY <1>I, <1>T DEF WorkInv, Work, At, TurnInv, Busy, TypeInv
  <2> QED BY <1>E, <1>T, <2>1, <2>2, <2>3, <2>4, OutputsRow
<1>1. ASSUME NEW h \in Handler, RequestStep(h) PROVE WorkInv' /\ StorageInv'
  BY <1>1, <1>T, OutputsToggle, OutputsAnswer, OutputsUpload, OutputsDelete, OutputsRequest
     DEF RequestStep
<1>2. ASSUME NEW a \in Actor, SharedStep(a) PROVE WorkInv' /\ StorageInv'
  BY <1>2, OutputsPull, OutputsPush, OutputsMake DEF SharedStep
<1>3. CASE CancelComputation
  <2>1. row'.status = "FAILED" /\ row'.run = row.run
    BY <1>3, <1>T DEF CancelComputation, Row
  <2> QED BY <1>3, <1>E, <2>1 DEF CancelComputation, At
<1>4. CASE Deliver
  <2>1. /\ row' = row /\ store' = store /\ \A h \in Handler : act[h].pc \in {"idle", "reset"}
        /\ row.status = "RUNNING"
    BY <1>4, <1>I DEF Deliver, TurnInv, Busy, At
  <2> QED BY <1>4, <1>E, <2>1
<1>5. CASE ComputeRoute
  BY <1>5, OutputsCompute
<1>6. CASE RunFails \/ FinishRun
  <2>1. row.status = "RUNNING" /\ \A h \in Handler : act[h].pc \in {"idle", "reset"}
    BY <1>6, <1>I DEF RunFails, FinishRun, TurnInv, Busy, At
  <2>2. row'.run = row.run /\ (RunFails => row'.status = "FAILED")
        /\ (FinishRun => row'.status = "COMPLETED")
    BY <1>6, <1>T DEF RunFails, FinishRun, Row
  <2> QED BY <1>6, <1>E, <2>1, <2>2 DEF RunFails, FinishRun
<1>7. CASE UNCHANGED vars
  BY <1>7, <1>I DEF vars, WorkInv, Here, StorageInv, GpxAge, StoredRightWay, Kept, OptionsStored,
        RightWay, Turning, At
<1> QED BY <1>1, <1>2, <1>3, <1>4, <1>5, <1>6, <1>7 DEF Next

\* The first state.
LEMMA OutputsInit == Init => OutputsInv
<1> SUFFICES ASSUME Init PROVE OutputsInv
  OBVIOUS
<1>1. \A a \in Actor : act[a].pc = "idle"
  BY DEF Init, Idle
<1>2. \A p \in Place : store[p].route = None /\ store[p].options = None /\ store[p].gpx = None
  BY DEF Init, NoFiles, FileName
<1>3. row.status = "PENDING" /\ ~queued /\ Remote \in Place /\ Disk \subseteq Place
  BY DEF Init, Place
<1>4. TurnInv
  BY <1>1, <1>3 DEF TurnInv, Busy, At, Actor
<1>5. WorkInv
  BY <1>1, FreeWork DEF WorkInv, Free
<1>6. StorageInv
  BY <1>2, <1>3 DEF StorageInv, GpxAge, StoredRightWay, Kept, OptionsStored, RightWay
<1> QED BY <1>4, <1>5, <1>6 DEF OutputsInv

\* OneAtATime is a constant: the invariant of users who wait.
LEMMA OutputsInvHolds == ASSUME OneAtATime PROVE Spec => [](TypeInv /\ OutputsInv)
<1>1. Init => TypeInv /\ OutputsInv
  BY TypeInit, OutputsInit
<1>2. TypeInv /\ OutputsInv /\ [Next]_vars => (TypeInv /\ OutputsInv)'
  BY TypeStep, OutputsStep
<1> QED BY <1>1, <1>2, PTL DEF Spec

\* With users who wait, the map of a completed job shows the route of its last run
\* in the direction that was chosen, and the GPX file that is downloaded is the
\* stored one, whichever web pod serves the request and whatever its disk holds:
\* map_layer_data and download_gpx pull first.
THEOREM AnswersAreStored == ASSUME OneAtATime PROVE Spec => []AnswersShowTheStorage
<1>1. TypeInv /\ OutputsInv => AnswersShowTheStorage
  <2> SUFFICES ASSUME TypeInv, OutputsInv, NEW h \in Handler, At(h, "serve")
               PROVE  CASE act[h].kind = "map" ->
                            /\ act[h].route = row.run
                            /\ act[h].direction = IsReversed(store[Remote])
                        [] act[h].kind = "download" ->
                             store[Remote].gpx = [route |-> act[h].route,
                                                  direction |-> act[h].direction]
    BY DEF AnswersShowTheStorage
  <2>1. Work(act[h], Here(h), store[Remote], row.run)
    BY DEF OutputsInv, WorkInv, Actor
  <2> QED BY <2>1 DEF Work, At
<1> QED BY <1>1, OutputsInvHolds, PTL

\* With users who wait, the stored GPX file of the stored route runs in the stored
\* direction: no pod's old file is pushed in place of it, and every one that is
\* made asks for the direction first.
THEOREM GpxTurnsWithTheSwitch == ASSUME OneAtATime PROVE Spec => []GpxHasTheDirection
<1>1. OutputsInv => GpxHasTheDirection
  BY DEF OutputsInv, StorageInv, Kept, StoredRightWay, RightWay, GpxHasTheDirection
<1> QED BY <1>1, OutputsInvHolds, PTL

\* With users who wait, a completed job has the route of its last run and a GPX file
\* in the storage: no page, change of direction or upload takes them from it, and a
\* run that ends has pushed them.
THEOREM OutputsAreKept == ASSUME OneAtATime PROVE Spec => []CompletedHasItsOutputs
<1>1. OutputsInv => CompletedHasItsOutputs
  BY DEF OutputsInv, StorageInv, Kept, Turning, Changed, CompletedHasItsOutputs, AtRest, Actor,
        At
<1> QED BY <1>1, OutputsInvHolds, PTL
=============================================================================
