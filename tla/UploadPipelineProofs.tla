------------------------ MODULE UploadPipelineProofs ------------------------
(***************************************************************************)
(* Proofs about UploadPipeline, for any number of requests, workers and    *)
(* uploads, on one disk or two, whatever is killed, revoked, retried or    *)
(* polled late or put back by a submit: the column's types, that an ended  *)
(* upload is left alone by tasks and polls, that a completed one names a   *)
(* checksum unless its id was put back, and that the column keeps the      *)
(* promise of MembershipColumn.                                            *)
(***************************************************************************)
EXTENDS UploadPipeline, TLAPS

\* A request past its checks is about an upload; a process at work is on the
\* task of one, and about to complete it only with a checksum at hand.
Shape ==
    /\ \A h \in Handler :
        web[h].pc \in {"stage", "push", "save", "plots", "own", "submit", "fail"}
            => web[h].up \in Upload
    /\ \A w \in Worker :
        /\ wrk[w].pc # "idle" => wrk[w].task \in Upload
        /\ wrk[w].pc = "idle" => wrk[w] = IdleProcess
        /\ wrk[w].pc = "download" => wrk[w].mem \in Upload
        /\ wrk[w].pc \in {"push", "finish"} => wrk[w].sha \in Upload
    /\ \A s \in Saver :
        /\ saver[s].pc = "record" => saver[s].net \in Upload
        /\ saver[s].pc \in {"adopt", "record"} =>
                saver[s].seen.sp = "COMPLETED" /\ saver[s].seen.sha = None

TypeInv == TypeOK /\ Shape

\* The uploads whose task had its turn: what MembershipColumn calls spent.
Spent == {u \in Upload : /\ celery[u] # "unused"
                         /\ \A h \in Handler : web[h].up = u => web[h].pc \notin Before}

\* An upload whose task did not have its turn is unknown to row, saves, polls,
\* broker and workers.
FreshIsUnknown ==
    \A u \in Upload \ Spent :
        /\ row.sp # u
        /\ \A s \in Saver : saver[s].seen.sp # u
        /\ u \notin polls /\ u \notin queue
        /\ \A w \in Worker : wrk[w].task # u
        /\ celery[u] \in {"unused", "drawn"}

\* No two requests are about one upload, and none is about an undrawn one.
OneRequestPerUpload ==
    \A h \in Handler : web[h].up \in Upload =>
        /\ celery[web[h].up] # "unused"
        /\ \A g \in Handler \ {h} : web[g].up # web[h].up

\* A task that returned has written its end: the row does not name it any more,
\* unless a save has put it back.
ReturnedIsWritten ==
    /\ \A u \in Upload : celery[u] = "SUCCESS" => row.sp # u \/ u \in revived
    /\ \A w \in Worker : wrk[w].pc = "returned" =>
            row.sp # wrk[w].task \/ wrk[w].task \in revived

\* A state of the column names the file of the task at work, and a completed
\* upload's download unless its id was put back.
Sound(c) ==
    /\ c.sp \in Upload => c.file = c.sp
    /\ c.sp = "COMPLETED" /\ c.sha = None => c.file \in revived

\* So do the row and what saves have loaded of it.
ColumnsAreSound == Sound(row) /\ \A s \in Saver : Sound(saver[s].seen)

UploadInv ==
    /\ TypeInv
    /\ FreshIsUnknown
    /\ OneRequestPerUpload
    /\ ReturnedIsWritten
    /\ ColumnsAreSound

\* The steps that are no upload's, deletion's, poll's or task's.
RunStep == EndRun \/ ResetRun \/ \E s \in Saver : SaveStep(s)
-----------------------------------------------------------------------------
(* Types *)

\* A transfer leaves files or none in every place.
LEMMA CopyTypes ==
    ASSUME TypeOK, NEW src \in Place, NEW dst \in Place
    PROVE  /\ Overlaid(src, dst) \in Files
           /\ Copy(src, dst) => store' \in [Place -> Files]
BY DEF Copy, Overlaid, TypeOK, Files

\* An idle request and an idle process are typed.
LEMMA IdleTypes ==
    /\ IdleRequest \in Request /\ IdleRequest.pc = "idle"
    /\ IdleProcess \in Process /\ IdleProcess.pc = "idle"
    /\ IdleSave \in Save /\ IdleSave.pc = "idle" /\ IdleSave.seen = NoColumn
    /\ NoFiles \in Files
BY DEF IdleSave, NoColumn, Save, Column, IdleRequest, IdleProcess, NoFiles, Request, Process, Files, FileOrNone, SpState

\* The types hold at first.
LEMMA TypeInit == Init => TypeInv
BY IdleTypes, UploadAssumption
   DEF Init, TypeInv, TypeOK, Shape, Row, FileOrNone, SpState

Late == {"stage", "push", "save", "plots", "own", "submit", "fail"}

\* A request that moves on to p, or ends, keeps the shape of the requests.
LEMMA RequestMoves ==
    ASSUME TypeInv, NEW h \in Handler,
           \/ Done(h)
           \/ \E p \in Late \cup {"wipe", "reset"} :
                    Goto(h, p) /\ (p \in Late => web[h].up \in Upload)
    PROVE  /\ web' \in [Handler -> Request]
           /\ \A g \in Handler : web'[g].pc \in Late => web'[g].up \in Upload
<1> USE IdleTypes DEF TypeInv, TypeOK, Shape, Late
<1>1. CASE Done(h)
  BY <1>1 DEF Done
<1>2. ASSUME NEW p \in Late \cup {"wipe", "reset"}, Goto(h, p),
             p \in Late => web[h].up \in Upload
      PROVE  /\ web' \in [Handler -> Request]
             /\ \A g \in Handler : web'[g].pc \in Late => web'[g].up \in Upload
  BY <1>2 DEF Goto, Request
<1> QED BY <1>1, <1>2

\* The steps of requests, and of the runs the row is started for.
LEMMA TypeWebStep ==
    ASSUME TypeInv, NEW h \in Handler,
           StartUpload(h) \/ StartDelete(h) \/ WebStep(h) \/ WebCrash(h)
    PROVE  TypeInv'
<1> USE IdleTypes DEF TypeInv, TypeOK, Shape, Saves
<1>1. CASE StartUpload(h)
  BY <1>1, UploadAssumption DEF StartUpload, Counted, Row, Request, FileOrNone
<1>2. CASE StartDelete(h)
  BY <1>2, UploadAssumption DEF StartDelete, Counted, Broker, Row, Request, FileOrNone
<1>3. CASE RevokeSeen(h)
  <2>1. web[h].seen \in SpState \cup Upload
    BY DEF Request
  <2>2. revoked' \subseteq Upload
    BY <1>3, <2>1 DEF RevokeSeen
  <2>3. web' \in [Handler -> Request]
    BY <1>3 DEF RevokeSeen, Request, SpState
  <2>4. \A g \in Handler : web'[g].pc \in Late => web'[g].up \in Upload
    BY <1>3 DEF RevokeSeen, Request, Late
  <2> QED BY <1>3, <2>2, <2>3, <2>4 DEF RevokeSeen, Late
<1>4. CASE WipeFiles(h)
  BY <1>4 DEF WipeFiles, Goto, OtherThanWeb, Broker, Request
<1>5. CASE ResetRow(h)
  <2>1. row' \in Row
    BY <1>5 DEF ResetRow, Row, FileOrNone, SpState
  <2>2. Done(h) \/ (Goto(h, "stage") /\ web[h].up \in Upload)
    BY <1>5 DEF ResetRow, Request, FileOrNone
  <2>3. /\ web' \in [Handler -> Request]
        /\ \A g \in Handler : web'[g].pc \in Late => web'[g].up \in Upload
    BY <2>2, RequestMoves DEF Late
  <2> QED BY <1>5, <2>1, <2>3 DEF ResetRow, OtherThanWeb, Broker, Late
<1>6. CASE StageFile(h)
  <2>1. web[h].up \in Upload
    BY <1>6 DEF StageFile, At
  <2>2. Done(h) \/ Goto(h, "push")
    BY <1>6 DEF StageFile
  <2>3. /\ web' \in [Handler -> Request]
        /\ \A g \in Handler : web'[g].pc \in Late => web'[g].up \in Upload
    BY <2>1, <2>2, RequestMoves DEF Late
  <2>4. Overlaid(Remote, WebDisk) \in Files
    BY CopyTypes DEF Place
  <2>5. store' \in [Place -> Files]
    BY <1>6, <2>1, <2>4 DEF StageFile, Files, FileOrNone
  <2> QED BY <1>6, <2>3, <2>5 DEF StageFile, OtherThanWeb, Broker, Late
<1>7. CASE PushInput(h)
  BY <1>7, CopyTypes DEF PushInput, At, Goto, OtherThanWeb, Broker, Request, Place
<1>8. CASE SaveInput(h)
  <2>1. web[h].up \in Upload
    BY <1>8 DEF SaveInput, At
  <2>2. row' \in Row
    BY <1>8, <2>1 DEF SaveInput, OwnColumn, Row, FileOrNone, SpState
  <2>3. /\ web' \in [Handler -> Request]
        /\ \A g \in Handler : web'[g].pc \in Late => web'[g].up \in Upload
    BY <1>8, <2>1, RequestMoves DEF SaveInput, Late
  <2> QED BY <1>8, <2>2, <2>3 DEF SaveInput, OtherThanWeb, Broker, Late
<1>9. CASE PushPlots(h)
  BY <1>9, CopyTypes DEF PushPlots, At, Goto, OtherThanWeb, Broker, Request, Place
<1>10. CASE WriteTaskId(h)
  BY <1>10 DEF WriteTaskId, OwnColumn, At, Goto, OtherThanWeb, Broker, Request, Row, FileOrNone
<1>11. CASE SubmitUpload(h)
  <2>1. /\ web' \in [Handler -> Request]
        /\ \A g \in Handler : web'[g].pc \in Late => web'[g].up \in Upload
    BY <1>11, RequestMoves DEF SubmitUpload, At, Late
  <2> QED BY <1>11, <2>1 DEF SubmitUpload, At, Late
<1>12. CASE EndUploadFailed(h)
  BY <1>12 DEF EndUploadFailed, OwnColumn, At, Done, OtherThanWeb, Broker, Row, FileOrNone, SpState
<1>13. CASE WebCrash(h)
  BY <1>13 DEF WebCrash, Done, OtherThanWeb, Broker
<1> QED
  BY <1>1, <1>2, <1>3, <1>4, <1>5, <1>6, <1>7, <1>8, <1>9, <1>10, <1>11, <1>12, <1>13
     DEF WebStep

\* What a request loads of the row is a column.
LEMMA LoadedColumn ==
    ASSUME row \in Row
    PROVE  ColumnOf(row) \in Column
BY DEF Row, Column, ColumnOf

\* Writing back a column, or another status, leaves a row.
LEMMA RowWrites ==
    ASSUME row \in Row
    PROVE  /\ \A c \in Column : Written(c) => row' \in Row
           /\ \A st \in {"PENDING", "RUNNING", "FAILED"} : [row EXCEPT !.status = st] \in Row
BY DEF Row, Column, Written

\* The steps of submits and adoptions keep the types.
LEMMA TypeSaveStep ==
    ASSUME TypeInv, NEW s \in Saver, SaveStep(s)
    PROVE  TypeInv'
<1> USE IdleTypes DEF TypeInv, TypeOK, Shape, OtherThanSaves, Broker
<1>0. /\ saver[s] \in Save /\ saver[s].seen \in Column
      /\ row \in Row
  BY DEF Save
<1> DEFINE SaverKept ==
        /\ saver' \in [Saver -> Save]
        /\ \A t \in Saver :
            /\ saver'[t].pc = "record" => saver'[t].net \in Upload
            /\ saver'[t].pc \in {"adopt", "record"} =>
                    saver'[t].seen.sp = "COMPLETED" /\ saver'[t].seen.sha = None
<1>1. ASSUME Saved(s)
      PROVE  SaverKept
  BY <1>1 DEF Saved
<1>2. ASSUME NEW p \in {"pull", "push", "save"}, GotoSave(s, p)
      PROVE  SaverKept
  BY <1>2 DEF GotoSave, Save
<1>3. ASSUME NEW p \in {"queue", "adopt"}, Loads(s, p),
             p = "adopt" => row.sp = "COMPLETED" /\ row.sha = None
      PROVE  SaverKept
  <2>1. [pc |-> p, seen |-> ColumnOf(row), net |-> None] \in Save
    BY <1>0, LoadedColumn DEF Save, FileOrNone
  <2> QED BY <1>3, <2>1 DEF Loads, ColumnOf
<1>4. CASE LoadForRun(s)
  <2>1. SaverKept
    BY <1>3, <1>4 DEF LoadForRun
  <2>2. requests' \in 0..MaxRequests
    BY <1>4, UploadAssumption DEF LoadForRun, Counted
  <2> QED BY <1>4, <2>1, <2>2 DEF LoadForRun
<1>5. CASE QueueRun(s)
  <2>1. SaverKept
    BY <1>1, <1>2, <1>5 DEF QueueRun
  <2>2. row' \in Row
    BY <1>0, <1>5, RowWrites DEF QueueRun
  <2> QED BY <1>5, <2>1, <2>2 DEF QueueRun
<1>6. CASE PullForRun(s) \/ PushForRun(s)
  <2>1. SaverKept
    BY <1>2, <1>6 DEF PullForRun, PushForRun
  <2>2. store' \in [Place -> Files]
    BY <1>6, CopyTypes DEF PullForRun, PushForRun, Place
  <2> QED BY <1>6, <2>1, <2>2 DEF PullForRun, PushForRun
<1>7. CASE SaveForRun(s)
  <2>1. SaverKept
    BY <1>1, <1>7 DEF SaveForRun
  <2>2. row' \in Row
    BY <1>0, <1>7, RowWrites DEF SaveForRun
  <2>3. revived' \subseteq Upload
    BY <1>0, <1>7 DEF SaveForRun, Column
  <2> QED BY <1>7, <2>1, <2>2, <2>3 DEF SaveForRun
<1>8. CASE FailToStart(s)
  <2>1. SaverKept
    BY <1>1, <1>8 DEF FailToStart
  <2>2. row' \in Row
    BY <1>0, <1>8, RowWrites DEF FailToStart
  <2> QED BY <1>8, <2>1, <2>2 DEF FailToStart
<1>9. CASE LoadForDownload(s)
  <2>1. SaverKept
    BY <1>3, <1>9 DEF LoadForDownload
  <2> QED BY <1>9, <2>1 DEF LoadForDownload
<1>10. CASE PullDownload(s)
  <2>1. PICK disk \in {WebDisk, WorkerDisk} :
          LET pulled == Overlaid(Remote, disk).net IN
          /\ store' = [store EXCEPT ![disk].net = pulled]
          /\ IF pulled = None THEN Saved(s)
             ELSE saver' = [saver EXCEPT ![s].pc = "record", ![s].net = pulled]
    BY <1>10 DEF PullDownload
  <2>2. PICK pulled \in FileOrNone : pulled = Overlaid(Remote, disk).net
    BY CopyTypes DEF Files, Place
  <2>3. store' \in [Place -> Files]
    BY <2>1, <2>2 DEF Files
  <2>4. CASE pulled = None
    BY <1>1, <1>10, <2>1, <2>2, <2>3, <2>4 DEF PullDownload
  <2>5. CASE pulled # None
    <3>1. saver' = [saver EXCEPT ![s].pc = "record", ![s].net = pulled] /\ pulled \in Upload
      BY <2>1, <2>2, <2>5 DEF FileOrNone
    <3>2. saver[s].seen.sp = "COMPLETED" /\ saver[s].seen.sha = None
      BY <1>10 DEF PullDownload, AtSave
    <3>3. SaverKept
      BY <3>1, <3>2 DEF Save, FileOrNone
    <3> QED BY <1>10, <2>3, <3>3 DEF PullDownload
  <2> QED BY <2>4, <2>5
<1>11. CASE AdoptDownload(s)
  <2>1. SaverKept
    BY <1>1, <1>11 DEF AdoptDownload
  <2>2. [saver[s].seen EXCEPT !.sha = saver[s].net] \in Column
    BY <1>0 DEF Save, Column
  <2>3. row' \in Row
    BY <1>0, <1>11, <2>2, RowWrites DEF AdoptDownload
  <2> QED BY <1>11, <2>1, <2>3 DEF AdoptDownload
<1> QED BY <1>4, <1>5, <1>6, <1>7, <1>8, <1>9, <1>10, <1>11 DEF SaveStep

\* The steps of the poll and of other parts keep the types.
LEMMA TypeRowStep ==
    ASSUME TypeInv, StartPoll \/ RunStep \/ \E u \in Upload : AnswerPoll(u)
    PROVE  TypeInv'
<1> USE DEF TypeInv, TypeOK, Shape, Broker, Saves
<1>1. CASE StartPoll
  BY <1>1 DEF StartPoll
<1>2. CASE EndRun \/ ResetRun
  BY <1>2, RowWrites DEF EndRun, ResetRun, OtherThanSaves
<1>3. ASSUME NEW u \in Upload, AnswerPoll(u)
      PROVE  TypeInv'
  BY <1>3 DEF AnswerPoll, Row, SpState
<1> QED BY <1>1, <1>2, <1>3, TypeSaveStep DEF RunStep

\* The steps of the upload task and its worker keep the types.
LEMMA TypeTaskStep ==
    ASSUME TypeInv, NEW w \in Worker,
           Receive(w) \/ TaskStep(w) \/ TerminateWorker(w) \/ WorkerDies(w)
    PROVE  TypeInv'
<1> USE IdleTypes DEF TypeInv, TypeOK, Shape, Broker, Aside, Saves, AtTask
<1>1. CASE Receive(w)
  <2>1. PICK u \in queue :
          /\ queue' = queue \ {u}
          /\ \/ /\ wrk' = [wrk EXCEPT ![w].pc = "pull", ![w].task = u]
                /\ UNCHANGED celery
             \/ /\ celery' = [celery EXCEPT ![u] = "REVOKED"]
                /\ UNCHANGED wrk
    BY <1>1 DEF Receive
  <2>2. CASE UNCHANGED wrk
    BY <1>1, <2>1, <2>2 DEF Receive, Terminal
  <2>3. CASE wrk' = [wrk EXCEPT ![w].pc = "pull", ![w].task = u]
    <3>1. wrk' \in [Worker -> Process]
      BY <2>3 DEF Process, FileOrNone
    <3>2. Shape'
      BY <1>1, <2>3 DEF Receive, Process
    <3>3. celery' \in [Upload -> {"unused", "drawn", "PENDING"} \cup Terminal]
      BY <2>1 DEF Terminal
    <3> QED BY <1>1, <2>1, <3>1, <3>2, <3>3 DEF Receive
  <2> QED BY <2>1, <2>2, <2>3
<1>2. CASE PullWorkDir(w)
  <2>1. store' \in [Place -> Files]
    BY <1>2, CopyTypes DEF PullWorkDir, Place
  <2>2. /\ wrk' \in [Worker -> Process]
        /\ wrk' \in [Worker -> Process] => Shape'
    BY <1>2, <2>1 DEF PullWorkDir, Step, Process, FileOrNone, Files, Place
  <2> QED BY <1>2, <2>1, <2>2 DEF PullWorkDir
<1>3. CASE Download(w)
  <2>1. wrk' \in [Worker -> Process] /\ store' \in [Place -> Files]
    BY <1>3 DEF Download, Rest, Process, FileOrNone, Files
  <2>2. retries' \in [Upload -> 0..MaxRetries] /\ queue' \subseteq Upload
    BY <1>3, UploadAssumption DEF Download, Process, FileOrNone
  <2>3. Shape'
    BY <1>3 DEF Download, Rest, Process
  <2> QED BY <1>3, <2>1, <2>2, <2>3 DEF Download
<1>4. CASE HashDownload(w)
  BY <1>4 DEF HashDownload, Process, FileOrNone, Files, Place
<1>5. CASE PushWorkDir(w)
  BY <1>5, CopyTypes DEF PushWorkDir, Step, Process, Place
<1>6. CASE WriteCompleted(w)
  BY <1>6 DEF WriteCompleted, Process, Row, FileOrNone, SpState
<1>7. CASE FailUpload(w)
  BY <1>7 DEF FailUpload, Step, Process, Row, SpState
<1>8. CASE ReportEnd(w)
  BY <1>8 DEF ReportEnd, Rest, Terminal
<1>9. CASE TerminateWorker(w)
  BY <1>9 DEF TerminateWorker, Rest, Terminal
<1>10. CASE WorkerDies(w)
  BY <1>10 DEF WorkerDies, Rest
<1> QED
  BY <1>1, <1>2, <1>3, <1>4, <1>5, <1>6, <1>7, <1>8, <1>9, <1>10 DEF TaskStep

\* Every step keeps the types.
LEMMA TypeStep == TypeInv /\ [Next]_vars => TypeInv'
<1> SUFFICES ASSUME TypeInv, [Next]_vars
             PROVE  TypeInv'
  OBVIOUS
<1>1. CASE UNCHANGED vars
  BY <1>1 DEF vars, TypeInv, TypeOK, Shape
<1> QED BY <1>1, TypeWebStep, TypeRowStep, TypeTaskStep DEF Next, RunStep

\* Type correctness: the row, the files of every place, the requests, the broker
\* and the workers keep their shape in every reachable state.
THEOREM TypeCorrect == Spec => []TypeOK
<1>1. TypeInv => TypeOK
  BY DEF TypeInv
<1> QED BY <1>1, TypeInit, TypeStep, PTL DEF Spec

-----------------------------------------------------------------------------
(* The turn of a task *)

\* A step of request h that is about no other upload than before, and not
\* about to start one whose turn is over.
MovesOn(h) ==
    /\ \A g \in Handler \ {h} : web'[g] = web[g]
    /\ web'[h].up = None \/ /\ web'[h].up = web[h].up
                            /\ web'[h].pc \in Before => web[h].pc \in Before

\* A request draws upload u.
Draws(h, u) ==
    /\ celery[u] = "unused" /\ web[h].pc \notin Before
    /\ celery' = [celery EXCEPT ![u] = "drawn"]
    /\ \A g \in Handler \ {h} : web'[g] = web[g]
    /\ web'[h].up = u /\ web'[h].pc \in Before

\* A request either draws an upload or moves on with the one it has.
LEMMA RequestKinds ==
    ASSUME UploadInv, NEW h \in Handler,
           StartUpload(h) \/ StartDelete(h) \/ WebStep(h) \/ WebCrash(h)
    PROVE  \/ \E u \in Upload : Draws(h, u)
           \/ MovesOn(h)
<1> USE DEF UploadInv, TypeInv, TypeOK, Request, MovesOn, Before
<1>1. CASE StartUpload(h)
  <2>1. PICK u \in Upload :
          /\ celery[u] = "unused"
          /\ celery' = [celery EXCEPT ![u] = "drawn"]
          /\ web' = [web EXCEPT ![h] = [pc |-> "revoke", up |-> u, seen |-> row.sp]]
    BY <1>1 DEF StartUpload
  <2> QED BY <1>1, <2>1 DEF Draws, StartUpload, At
<1>2. CASE StartDelete(h)
  BY <1>2 DEF StartDelete
<1>3. CASE Done(h)
  BY <1>3 DEF Done, IdleRequest
<1>4. CASE RevokeSeen(h)
  BY <1>4 DEF RevokeSeen, At
<1>5. ASSUME NEW p \in {"reset", "stage", "push", "save", "plots", "own", "submit", "fail"},
             Goto(h, p), p \in Before => web[h].pc \in Before
      PROVE  MovesOn(h)
  BY <1>5 DEF Goto
<1> QED
  BY <1>1, <1>2, <1>3, <1>4, <1>5
     DEF WebStep, WebCrash, WipeFiles, ResetRow, StageFile, PushInput, SaveInput, PushPlots,
         WriteTaskId, SubmitUpload, EndUploadFailed, At

\* Submits, adoptions and the ends of runs concern the row, the files and
\* themselves only.
LEMMA RunStepFrame ==
    ASSUME RunStep
    PROVE  UNCHANGED <<web, polls, queue, retries, celery, revoked, wrk>>
BY DEF RunStep, EndRun, ResetRun, SaveStep, LoadForRun, QueueRun, PullForRun, PushForRun,
       SaveForRun, FailToStart, LoadForDownload, PullDownload, AdoptDownload, OtherThanSaves,
       Broker

\* The other steps leave the saves alone.
LEMMA OthersLeaveSaves ==
    ASSUME [Next]_vars, ~ RunStep
    PROVE  UNCHANGED <<saver, revived>>
<1> USE DEF Saves, Aside, OtherThanWeb
<1>1. ASSUME NEW h \in Handler,
             StartUpload(h) \/ StartDelete(h) \/ WebStep(h) \/ WebCrash(h)
      PROVE  UNCHANGED <<saver, revived>>
  BY <1>1 DEF StartUpload, StartDelete, WebStep, WebCrash, RevokeSeen, WipeFiles, ResetRow,
              StageFile, PushInput, SaveInput, PushPlots, WriteTaskId, SubmitUpload,
              EndUploadFailed
<1>2. ASSUME NEW w \in Worker,
             Receive(w) \/ TaskStep(w) \/ TerminateWorker(w) \/ WorkerDies(w)
      PROVE  UNCHANGED <<saver, revived>>
  BY <1>2 DEF Receive, TaskStep, PullWorkDir, Download, HashDownload, PushWorkDir,
              WriteCompleted, FailUpload, ReportEnd, TerminateWorker, WorkerDies
<1>3. StartPoll \/ (\E u \in Upload : AnswerPoll(u)) => UNCHANGED <<saver, revived>>
  BY DEF StartPoll, AnswerPoll
<1> QED BY <1>1, <1>2, <1>3 DEF Next, vars, RunStep

\* Only requests move requests.
LEMMA OthersLeaveRequests ==
    ASSUME [Next]_vars, web' # web
    PROVE  \E h \in Handler :
                StartUpload(h) \/ StartDelete(h) \/ WebStep(h) \/ WebCrash(h)
<1>1. ~ UNCHANGED vars
  BY DEF vars
<1> USE DEF Aside, OtherThanWeb
<1>2. ASSUME NEW w \in Worker,
             Receive(w) \/ TaskStep(w) \/ TerminateWorker(w) \/ WorkerDies(w)
      PROVE  UNCHANGED web
  BY <1>2 DEF Receive, TaskStep, PullWorkDir, Download, HashDownload, PushWorkDir,
              WriteCompleted, FailUpload, ReportEnd, TerminateWorker, WorkerDies
<1>3. StartPoll \/ RunStep \/ (\E u \in Upload : AnswerPoll(u)) => UNCHANGED web
  BY RunStepFrame DEF StartPoll, AnswerPoll
<1> QED BY <1>1, <1>2, <1>3 DEF Next, RunStep

\* Celery never forgets a task id.
LEMMA DrawnStaysDrawn ==
    ASSUME UploadInv, [Next]_vars
    PROVE  \A u \in Upload : celery[u] # "unused" => celery'[u] # "unused"
<1> USE DEF UploadInv, TypeInv, TypeOK, Broker, Aside, OtherThanWeb, Terminal
<1>1. ASSUME NEW h \in Handler,
             StartUpload(h) \/ StartDelete(h) \/ WebStep(h) \/ WebCrash(h)
      PROVE  \A u \in Upload : celery[u] # "unused" => celery'[u] # "unused"
  BY <1>1 DEF StartUpload, StartDelete, WebStep, WebCrash, RevokeSeen, WipeFiles, ResetRow,
              StageFile, PushInput, SaveInput, PushPlots, WriteTaskId, SubmitUpload,
              EndUploadFailed
<1>2. ASSUME NEW w \in Worker,
             Receive(w) \/ TaskStep(w) \/ TerminateWorker(w) \/ WorkerDies(w)
      PROVE  \A u \in Upload : celery[u] # "unused" => celery'[u] # "unused"
  BY <1>2 DEF Receive, TaskStep, PullWorkDir, Download, HashDownload, PushWorkDir,
              WriteCompleted, FailUpload, ReportEnd, TerminateWorker, WorkerDies
<1>3. StartPoll \/ RunStep \/ (\E u \in Upload : AnswerPoll(u)) => UNCHANGED celery
  BY RunStepFrame DEF StartPoll, AnswerPoll
<1> QED BY <1>1, <1>2, <1>3 DEF Next, RunStep, vars

\* A task that had its turn never gets another.
LEMMA SpentGrows ==
    ASSUME UploadInv, [Next]_vars
    PROVE  Spent \subseteq Spent'
<1>1. CASE web' = web
  BY <1>1, DrawnStaysDrawn DEF Spent
<1>2. ASSUME NEW h \in Handler, MovesOn(h)
      PROVE  Spent \subseteq Spent'
  BY <1>2, DrawnStaysDrawn, UploadAssumption DEF Spent, MovesOn
<1>3. ASSUME NEW h \in Handler, NEW u \in Upload, Draws(h, u)
      PROVE  Spent \subseteq Spent'
  BY <1>3, DrawnStaysDrawn DEF Spent, Draws
<1> QED BY <1>1, <1>2, <1>3, OthersLeaveRequests, RequestKinds

\* A request about to send its task, or to give it up, has used the task's turn.
LEMMA SubmittedIsSpent ==
    ASSUME UploadInv, NEW h \in Handler, web[h].pc \in {"submit", "fail"}
    PROVE  web[h].up \in Upload /\ web[h].up \in Spent
<1>1. web[h].up \in Upload
  BY DEF UploadInv, TypeInv, Shape
<1> QED BY <1>1 DEF UploadInv, OneRequestPerUpload, Spent, Before

\* The id that WriteTaskId puts into the row had no turn, and has it now.
LEMMA OwnerTakesItsTurn ==
    ASSUME UploadInv, NEW h \in Handler, WriteTaskId(h)
    PROVE  /\ web[h].up \in Upload
           /\ web[h].up \notin Spent
           /\ Spent' = Spent \cup {web[h].up}
<1>1. web[h].up \in Upload
  BY DEF UploadInv, TypeInv, Shape, WriteTaskId, At
<1>2. web' = [web EXCEPT ![h].pc = "submit"] /\ celery' = celery /\ web[h].pc = "own"
  BY DEF WriteTaskId, Goto, At, OtherThanWeb, Broker
<1>3. web \in [Handler -> Request]
  BY DEF UploadInv, TypeInv, TypeOK
<1>4. \A g \in Handler : /\ web'[g].up = web[g].up
                         /\ web'[g].pc = IF g = h THEN "submit" ELSE web[g].pc
  BY <1>2, <1>3 DEF Request
<1> QED BY <1>1, <1>2, <1>4 DEF UploadInv, OneRequestPerUpload, Spent, Before

\* A worker's step is about one task: the one it takes from the queue, or has.
LEMMA WorkerSteps ==
    ASSUME UploadInv, NEW w \in Worker,
           Receive(w) \/ TaskStep(w) \/ TerminateWorker(w) \/ WorkerDies(w)
    PROVE  /\ UNCHANGED <<polls, web>>
           /\ row.sp' = row.sp \/ row.sp' \in SpState
           /\ queue' \subseteq queue \cup {wrk[w].task}
           /\ \A v \in Worker \ {w} : wrk'[v] = wrk[v]
           /\ wrk'[w].task \in queue \cup {wrk[w].task, None}
           /\ \A v \in Upload : v \notin queue \cup {wrk[w].task} => celery'[v] = celery[v]
<1> USE DEF UploadInv, TypeInv, TypeOK, Aside, Broker, Process, IdleProcess, Row, SpState, Step, Rest
<1>1. CASE Receive(w)
  BY <1>1 DEF Receive
<1>2. CASE TaskStep(w)
  <2>1. CASE PullWorkDir(w) \/ HashDownload(w) \/ PushWorkDir(w)
    BY <2>1 DEF PullWorkDir, HashDownload, PushWorkDir
  <2>2. CASE Download(w) \/ ReportEnd(w)
    BY <2>2 DEF Download, ReportEnd
  <2>3. CASE WriteCompleted(w) \/ FailUpload(w)
    <3>1. row.sp' = row.sp \/ row.sp' \in SpState
      BY <2>3 DEF WriteCompleted, FailUpload
    <3>2. /\ UNCHANGED <<polls, web, queue, celery>>
          /\ \A v \in Worker : wrk'[v].task = wrk[v].task
          /\ \A v \in Worker \ {w} : wrk'[v] = wrk[v]
      BY <2>3 DEF WriteCompleted, FailUpload
    <3> QED BY <3>1, <3>2
  <2> QED BY <1>2, <2>1, <2>2, <2>3 DEF TaskStep
<1>3. CASE TerminateWorker(w) \/ WorkerDies(w)
  BY <1>3 DEF TerminateWorker, WorkerDies
<1> QED BY <1>1, <1>2, <1>3

\* What a save has loaded is the row's column, until it is done.
LEMMA SavesHoldTheRow ==
    ASSUME UploadInv, [Next]_vars
    PROVE  \A s \in Saver : saver'[s].seen \in {saver[s].seen, ColumnOf(row), NoColumn}
<1> USE DEF UploadInv, TypeInv, TypeOK
<1>1. CASE UNCHANGED saver
  BY <1>1
<1>2. ASSUME NEW s \in Saver, SaveStep(s)
      PROVE  \A t \in Saver : saver'[t].seen \in {saver[t].seen, ColumnOf(row), NoColumn}
  <2> USE DEF Save
  <2>1. CASE LoadForRun(s) \/ LoadForDownload(s)
    BY <2>1 DEF LoadForRun, LoadForDownload, Loads
  <2>2. CASE Saved(s)
    BY <2>2 DEF Saved, IdleSave
  <2>3. CASE \E p \in {"pull", "push", "save"} : GotoSave(s, p)
    BY <2>3 DEF GotoSave
  <2>4. CASE PullDownload(s)
    <3>1. \/ Saved(s)
          \/ \E pulled \in {Overlaid(Remote, WebDisk).net, Overlaid(Remote, WorkerDisk).net} :
                saver' = [saver EXCEPT ![s].pc = "record", ![s].net = pulled]
      BY <2>4 DEF PullDownload
    <3> QED BY <2>2, <3>1
  <2> QED
    BY <1>2, <2>1, <2>2, <2>3, <2>4
       DEF SaveStep, QueueRun, PullForRun, PushForRun, SaveForRun, FailToStart, AdoptDownload
<1>3. EndRun \/ ResetRun => UNCHANGED saver
  BY DEF EndRun, ResetRun, Saves
<1> QED BY <1>1, <1>2, <1>3, OthersLeaveSaves DEF RunStep, Saves

ColumnStays == UNCHANGED <<row.file, row.sp, row.sha>>

\* Save s puts column c into the row.
Puts(c) == row'.file = c.file /\ row'.sp = c.sp /\ row'.sha = c.sha

\* A submit puts its column back, and an adoption its column with the download's
\* checksum; the other steps of runs leave the column.
LEMMA RunColumns ==
    ASSUME UploadInv, RunStep
    PROVE  \/ ColumnStays /\ revived' = revived
           \/ \E s \in Saver :
                /\ SaveForRun(s) /\ Puts(saver[s].seen) /\ saver[s].seen \in Column
                /\ revived' = revived \cup ({saver[s].seen.sp} \cap (Upload \ {row.sp}))
           \/ \E s \in Saver :
                /\ AdoptDownload(s) /\ revived' = revived
                /\ Puts([saver[s].seen EXCEPT !.sha = saver[s].net])
                /\ saver[s].seen \in Column /\ saver[s].net \in Upload
                /\ saver[s].seen.sp = "COMPLETED" /\ saver[s].seen.sha = None
<1> USE DEF UploadInv, TypeInv, TypeOK, ColumnStays
<1>1. CASE EndRun \/ ResetRun
  BY <1>1 DEF EndRun, ResetRun, Row, Saves
<1>2. ASSUME NEW s \in Saver,
             \/ LoadForRun(s) \/ QueueRun(s) \/ PullForRun(s) \/ PushForRun(s) \/ FailToStart(s)
             \/ LoadForDownload(s) \/ PullDownload(s)
      PROVE  ColumnStays /\ revived' = revived
  BY <1>2 DEF LoadForRun, QueueRun, PullForRun, PushForRun, FailToStart, LoadForDownload,
              PullDownload, Row
<1>3. ASSUME NEW s \in Saver, SaveForRun(s)
      PROVE  /\ Puts(saver[s].seen) /\ saver[s].seen \in Column
             /\ revived' = revived \cup ({saver[s].seen.sp} \cap (Upload \ {row.sp}))
  <2>1. saver[s].seen \in Column
    BY DEF Save
  <2>2. saver[s].seen.sp \in SpState \cup Upload
    BY <2>1 DEF Column
  <2> QED BY <1>3, <2>1, <2>2, UploadAssumption DEF SaveForRun, Written, Puts, Row
<1>4. ASSUME NEW s \in Saver, AdoptDownload(s)
      PROVE  /\ Puts([saver[s].seen EXCEPT !.sha = saver[s].net]) /\ revived' = revived
             /\ saver[s].seen \in Column /\ saver[s].net \in Upload
             /\ saver[s].seen.sp = "COMPLETED" /\ saver[s].seen.sha = None
  <2>1. saver[s].seen \in Column
    BY DEF Save
  <2>2. Puts([saver[s].seen EXCEPT !.sha = saver[s].net]) /\ revived' = revived
    BY <1>4 DEF AdoptDownload, Written, Puts, Row
  <2>3. /\ saver[s].net \in Upload
        /\ saver[s].seen.sp = "COMPLETED" /\ saver[s].seen.sha = None
    BY <1>4 DEF AdoptDownload, AtSave, Shape
  <2> QED BY <2>1, <2>2, <2>3
<1> QED BY <1>1, <1>2, <1>3, <1>4 DEF RunStep, SaveStep

\* What no task had its turn for stays unknown to row, saves, polls, broker and
\* workers.
LEMMA FreshIsUnknownStep ==
    ASSUME UploadInv, [Next]_vars
    PROVE  FreshIsUnknown'
<1> SUFFICES ASSUME NEW u \in Upload, u \notin Spent'
             PROVE  /\ row.sp' # u
                    /\ \A s \in Saver : saver'[s].seen.sp # u
                    /\ u \notin polls' /\ u \notin queue'
                    /\ \A w \in Worker : wrk'[w].task # u
                    /\ celery'[u] \in {"unused", "drawn"}
  BY DEF FreshIsUnknown
<1>1. /\ row.sp # u
      /\ \A s \in Saver : saver[s].seen.sp # u
      /\ u \notin polls /\ u \notin queue
      /\ \A w \in Worker : wrk[w].task # u
      /\ celery[u] \in {"unused", "drawn"}
  BY SpentGrows DEF UploadInv, FreshIsUnknown
<1>2. u \notin SpState /\ u # None
  BY UploadAssumption
<1>3. TypeOK
  BY DEF UploadInv, TypeInv
<1> USE <1>1 DEF Broker, Aside, OtherThanWeb
<1>0. \A s \in Saver : saver'[s].seen.sp # u
  BY <1>1, <1>2, SavesHoldTheRow DEF ColumnOf, NoColumn, SpState
<1>4. CASE UNCHANGED vars
  BY <1>0, <1>4 DEF vars
<1>5. ASSUME NEW h \in Handler, StartUpload(h)
      PROVE  /\ row.sp' # u
             /\ u \notin polls' /\ u \notin queue'
             /\ \A w \in Worker : wrk'[w].task # u
             /\ celery'[u] \in {"unused", "drawn"}
  BY <1>3, <1>5 DEF StartUpload, TypeOK
<1>6. ASSUME NEW h \in Handler,
             \/ StartDelete(h) \/ RevokeSeen(h) \/ WipeFiles(h) \/ ResetRow(h) \/ StageFile(h)
             \/ PushInput(h) \/ SaveInput(h) \/ PushPlots(h) \/ EndUploadFailed(h)
             \/ WebCrash(h)
      PROVE  /\ UNCHANGED <<polls, queue, wrk, celery>>
             /\ row.sp' = row.sp \/ row.sp' \in SpState
  BY <1>3, <1>6 DEF StartDelete, RevokeSeen, WipeFiles, ResetRow, StageFile, PushInput, SaveInput,
              PushPlots, EndUploadFailed, WebCrash, OwnColumn, SpState, TypeOK, Row
<1>7. ASSUME NEW h \in Handler, WriteTaskId(h)
      PROVE  UNCHANGED <<polls, queue, wrk, celery>> /\ row.sp' # u
  <2>1. web[h].up # u
    BY <1>7, OwnerTakesItsTurn
  <2> QED BY <1>3, <1>7, <2>1 DEF WriteTaskId, OwnColumn, TypeOK, Row
<1>8. ASSUME NEW h \in Handler, SubmitUpload(h)
      PROVE  /\ row.sp' # u
             /\ u \notin polls' /\ u \notin queue'
             /\ \A w \in Worker : wrk'[w].task # u
             /\ celery'[u] \in {"unused", "drawn"}
  <2>1. web[h].up # u /\ web[h].up \in Upload
    BY <1>8, SubmittedIsSpent, SpentGrows DEF SubmitUpload, At
  <2> QED BY <1>3, <1>8, <2>1 DEF SubmitUpload, TypeOK
<1>9. ASSUME StartPoll \/ \E v \in Upload : AnswerPoll(v)
      PROVE  /\ UNCHANGED <<queue, wrk, celery>>
             /\ polls' \subseteq polls \cup {row.sp}
             /\ row.sp' = row.sp \/ row.sp' \in SpState
  BY <1>3, <1>9 DEF StartPoll, AnswerPoll, SpState, TypeOK, Row
<1>13. ASSUME RunStep
       PROVE  row.sp' # u
  BY <1>1, <1>2, <1>13, RunColumns DEF ColumnStays, Puts, SpState
<1>10. CASE \E h \in Handler : StartUpload(h) \/ StartDelete(h) \/ WebStep(h) \/ WebCrash(h)
  BY <1>0, <1>2, <1>5, <1>6, <1>7, <1>8, <1>10 DEF WebStep
<1>11. CASE \E w \in Worker :
              Receive(w) \/ TaskStep(w) \/ TerminateWorker(w) \/ WorkerDies(w)
  BY <1>0, <1>2, <1>11, WorkerSteps
<1>12. CASE StartPoll \/ \E v \in Upload : AnswerPoll(v)
  BY <1>0, <1>2, <1>9, <1>12
<1>14. CASE RunStep
  BY <1>0, <1>13, <1>14, RunStepFrame
<1> QED BY <1>4, <1>10, <1>11, <1>12, <1>14 DEF Next, RunStep

\* A drawn id is new, and requests only move on or let their upload go.
LEMMA OneRequestPerUploadStep ==
    ASSUME UploadInv, [Next]_vars
    PROVE  OneRequestPerUpload'
<1>1. CASE web' = web
  BY <1>1, DrawnStaysDrawn DEF UploadInv, OneRequestPerUpload
<1>2. ASSUME NEW h \in Handler, MovesOn(h)
      PROVE  OneRequestPerUpload'
  BY <1>2, DrawnStaysDrawn, UploadAssumption DEF UploadInv, OneRequestPerUpload, MovesOn
<1>3. ASSUME NEW h \in Handler, NEW u \in Upload, Draws(h, u)
      PROVE  OneRequestPerUpload'
  <2>1. celery'[u] = "drawn"
    BY <1>3 DEF Draws, UploadInv, TypeInv, TypeOK
  <2> QED BY <1>3, <2>1, DrawnStaysDrawn DEF UploadInv, OneRequestPerUpload, Draws
<1> QED BY <1>1, <1>2, <1>3, OthersLeaveRequests, RequestKinds

-----------------------------------------------------------------------------
(* The column *)

\* The owner ends the upload, in its task or through a poll.
Ends ==
    /\ row.sp \in Upload /\ row'.file = row.file
    /\ \/ row'.sp = "COMPLETED" /\ row'.sha \in Upload
       \/ row'.sp = "COMPLETED" /\ row.sp \in revived /\ row'.sha = row.sha
       \/ row'.sp = "FAILED" /\ row'.sha = row.sha

\* Every write of the column but those of saves, with the request that does it.
ColumnStep ==
    \/ ColumnStays
    \/ Ends /\ UNCHANGED <<web, celery>>
    \/ \E h \in Handler :
        \/ ResetRow(h) /\ Promise!Column(None, "PENDING")
        \/ SaveInput(h) /\ Promise!Column(web[h].up, "PENDING")
        \/ WriteTaskId(h) /\ Promise!Column(web[h].up, web[h].up)
        \/ EndUploadFailed(h) /\ Promise!Column(web[h].up, "FAILED")

\* Every step of a request, poll or task either leaves the column alone or ends
\* or replaces an upload.
LEMMA ColumnSteps ==
    ASSUME UploadInv, [Next]_vars, ~ RunStep
    PROVE  ColumnStep
<1> USE DEF UploadInv, TypeInv, TypeOK, Row, ColumnStep, ColumnStays, Ends,
            Promise!Column, Broker, Aside, OtherThanWeb
<1>1. CASE UNCHANGED vars
  BY <1>1 DEF vars
<1>2. ASSUME NEW h \in Handler,
             \/ StartUpload(h) \/ StartDelete(h) \/ RevokeSeen(h) \/ WipeFiles(h) \/ StageFile(h)
             \/ PushInput(h) \/ PushPlots(h) \/ SubmitUpload(h) \/ WebCrash(h)
      PROVE  ColumnStays
  BY <1>2 DEF StartUpload, StartDelete, RevokeSeen, WipeFiles, StageFile, PushInput, PushPlots,
              SubmitUpload, WebCrash
<1>3. ASSUME NEW h \in Handler, ResetRow(h)
      PROVE  ColumnStays \/ Promise!Column(None, "PENDING")
  BY <1>3 DEF ResetRow
<1>4. ASSUME NEW h \in Handler, SaveInput(h)
      PROVE  ColumnStays \/ Promise!Column(web[h].up, "PENDING")
  BY <1>4 DEF SaveInput, OwnColumn
<1>5. ASSUME NEW h \in Handler, WriteTaskId(h)
      PROVE  Promise!Column(web[h].up, web[h].up)
  BY <1>5 DEF WriteTaskId, OwnColumn
<1>6. ASSUME NEW h \in Handler, EndUploadFailed(h)
      PROVE  Promise!Column(web[h].up, "FAILED")
  BY <1>6 DEF EndUploadFailed, OwnColumn
<1>7. ASSUME NEW u \in Upload, AnswerPoll(u)
      PROVE  ColumnStays \/ (Ends /\ UNCHANGED <<web, celery>>)
  <2>1. CASE celery[u] \in Terminal /\ row.sp = u
    <3>1. CASE celery[u] # "SUCCESS"
      <4>1. row' = [row EXCEPT !.sp = "FAILED"]
        BY <1>7, <2>1, <3>1 DEF AnswerPoll
      <4> QED BY <1>7, <2>1, <4>1 DEF AnswerPoll
    <3>2. CASE celery[u] = "SUCCESS"
      <4>1. row.sp \in revived
        BY <2>1, <3>2 DEF ReturnedIsWritten
      <4>2. row' = [row EXCEPT !.sp = "COMPLETED"]
        BY <1>7, <2>1, <3>2 DEF AnswerPoll
      <4> QED BY <1>7, <2>1, <4>1, <4>2 DEF AnswerPoll
    <3> QED BY <3>1, <3>2
  <2>2. CASE ~ (celery[u] \in Terminal /\ row.sp = u)
    BY <1>7, <2>2 DEF AnswerPoll
  <2> QED BY <2>1, <2>2
<1>8. StartPoll => ColumnStays
  BY DEF StartPoll
<1>9. ASSUME NEW w \in Worker,
             \/ Receive(w) \/ PullWorkDir(w) \/ Download(w) \/ HashDownload(w) \/ PushWorkDir(w)
             \/ ReportEnd(w) \/ TerminateWorker(w) \/ WorkerDies(w)
      PROVE  ColumnStays
  BY <1>9 DEF Receive, PullWorkDir, Download, HashDownload, PushWorkDir, ReportEnd,
              TerminateWorker, WorkerDies
<1>10. ASSUME NEW w \in Worker, WriteCompleted(w)
       PROVE  ColumnStays \/ (Ends /\ UNCHANGED <<web, celery>>)
  <2>1. wrk[w].task \in Upload /\ wrk[w].sha \in Upload
    BY <1>10 DEF WriteCompleted, AtTask, Shape
  <2> QED BY <1>10, <2>1 DEF WriteCompleted
<1>11. ASSUME NEW w \in Worker, FailUpload(w)
       PROVE  ColumnStays \/ (Ends /\ UNCHANGED <<web, celery>>)
  <2>1. wrk[w].task \in Upload
    BY <1>11 DEF FailUpload, AtTask, Shape
  <2> QED BY <1>11, <2>1 DEF FailUpload
<1> HIDE DEF UploadInv, TypeInv, TypeOK, Row, ColumnStays, Ends, Promise!Column
<1>12. CASE \E h \in Handler : StartUpload(h) \/ StartDelete(h) \/ WebStep(h) \/ WebCrash(h)
  BY <1>2, <1>3, <1>4, <1>5, <1>6, <1>12 DEF WebStep
<1>13. CASE \E w \in Worker :
              Receive(w) \/ TaskStep(w) \/ TerminateWorker(w) \/ WorkerDies(w)
  BY <1>9, <1>10, <1>11, <1>13 DEF TaskStep
<1> QED BY <1>1, <1>7, <1>8, <1>12, <1>13 DEF Next, RunStep

\* The row is given a task id only by the request that drew it, for its turn, or
\* by a save.
LEMMA RowNamesOnlyOwners ==
    ASSUME UploadInv, [Next]_vars, ~ RunStep
    PROVE  \/ row.sp' \in SpState \cup {row.sp}
           \/ UNCHANGED <<wrk, celery>> /\ row.sp' \notin Spent
<1>1. ASSUME NEW h \in Handler, WriteTaskId(h), Promise!Column(web[h].up, web[h].up)
      PROVE  UNCHANGED <<wrk, celery>> /\ row.sp' \notin Spent
  BY <1>1, OwnerTakesItsTurn DEF WriteTaskId, OtherThanWeb, Broker, Promise!Column
<1> QED
  BY <1>1, ColumnSteps DEF ColumnStep, ColumnStays, Ends, Promise!Column, SpState

\* The worker writes before it returns, and what it wrote about does not return.
LEMMA ReturnedIsWrittenStep ==
    ASSUME UploadInv, [Next]_vars
    PROVE  ReturnedIsWritten'
<1> USE DEF UploadInv, ReturnedIsWritten
<1>1. \A u \in Upload : celery[u] = "SUCCESS" => u \in Spent
  BY DEF FreshIsUnknown
<1>2. \A w \in Worker : wrk[w].pc = "returned" => wrk[w].task \in Upload /\ wrk[w].task \in Spent
  BY DEF FreshIsUnknown, TypeInv, Shape
<1>3. ASSUME NEW u \in Upload \cap Spent, row.sp # u \/ u \in revived
      PROVE  row.sp' # u \/ u \in revived'
  <2>1. CASE RunStep
    BY <1>3, <2>1, RunColumns, UploadAssumption DEF ColumnStays, Puts, SpState
  <2>2. CASE ~ RunStep
    BY <1>3, <2>2, RowNamesOnlyOwners, OthersLeaveSaves, UploadAssumption
  <2> QED BY <2>1, <2>2
<1> USE DEF TypeInv, TypeOK, Shape, Process, Terminal
<1>4. ASSUME NEW u \in Upload, celery'[u] = "SUCCESS", celery[u] # "SUCCESS"
      PROVE  \E w \in Worker : wrk[w].pc = "returned" /\ wrk[w].task = u
  <2>1. ASSUME NEW w \in Worker, ReportEnd(w)
        PROVE  wrk[w].pc = "returned" /\ wrk[w].task = u
    BY <1>4, <2>1 DEF ReportEnd, AtTask
  <2>2. ASSUME NEW w \in Worker,
               \/ Receive(w) \/ PullWorkDir(w) \/ Download(w) \/ HashDownload(w) \/ PushWorkDir(w)
               \/ WriteCompleted(w) \/ FailUpload(w) \/ TerminateWorker(w) \/ WorkerDies(w)
        PROVE  FALSE
    BY <1>4, <2>2 DEF Receive, PullWorkDir, Download, HashDownload, PushWorkDir, WriteCompleted,
                      FailUpload, TerminateWorker, WorkerDies, Broker
  <2>3. ASSUME NEW h \in Handler,
               StartUpload(h) \/ StartDelete(h) \/ WebStep(h) \/ WebCrash(h)
        PROVE  FALSE
    BY <1>4, <2>3 DEF StartUpload, StartDelete, WebStep, WebCrash, RevokeSeen, WipeFiles, ResetRow,
              StageFile, PushInput, SaveInput, PushPlots, WriteTaskId, SubmitUpload,
              EndUploadFailed, OtherThanWeb, Broker
  <2>4. StartPoll \/ RunStep \/ (\E v \in Upload : AnswerPoll(v)) => UNCHANGED celery
    BY RunStepFrame DEF StartPoll, AnswerPoll, OtherThanWeb, Broker
  <2> QED BY <1>4, <2>1, <2>2, <2>3, <2>4 DEF Next, RunStep, vars, TaskStep
<1>5. ASSUME NEW w \in Worker, wrk'[w].pc = "returned"
      PROVE  \/ wrk[w].pc = "returned" /\ wrk'[w].task = wrk[w].task
             \/ WriteCompleted(w) /\ wrk'[w].task = wrk[w].task
  <2> USE <1>5
  <2>1. CASE wrk'[w] = wrk[w]
    BY <2>1
  <2>2. ASSUME NEW v \in Worker,
               Receive(v) \/ TaskStep(v) \/ TerminateWorker(v) \/ WorkerDies(v), v # w
        PROVE  wrk'[w] = wrk[w]
    BY <2>2, WorkerSteps
  <2>3. CASE \/ Receive(w) \/ PullWorkDir(w) \/ Download(w) \/ HashDownload(w)
             \/ PushWorkDir(w) \/ FailUpload(w) \/ ReportEnd(w) \/ TerminateWorker(w)
             \/ WorkerDies(w)
    BY <2>3 DEF Receive, PullWorkDir, Download, HashDownload, PushWorkDir, FailUpload, ReportEnd,
                TerminateWorker, WorkerDies, Step, Rest, IdleProcess
  <2>4. CASE WriteCompleted(w)
    BY <2>4 DEF WriteCompleted
  <2>5. ASSUME NEW h \in Handler,
               StartUpload(h) \/ StartDelete(h) \/ WebStep(h) \/ WebCrash(h)
        PROVE  wrk' = wrk
    BY <2>5 DEF StartUpload, StartDelete, WebStep, WebCrash, RevokeSeen, WipeFiles, ResetRow,
              StageFile, PushInput, SaveInput, PushPlots, WriteTaskId, SubmitUpload,
              EndUploadFailed, OtherThanWeb
  <2>6. StartPoll \/ RunStep \/ (\E v \in Upload : AnswerPoll(v)) => UNCHANGED wrk
    BY RunStepFrame DEF StartPoll, AnswerPoll, OtherThanWeb
  <2> QED BY <2>1, <2>2, <2>3, <2>4, <2>5, <2>6 DEF Next, RunStep, vars, TaskStep
<1>6. ASSUME NEW w \in Worker, WriteCompleted(w)
      PROVE  row.sp' # wrk[w].task
  <2>1. wrk[w].task \in Upload /\ "COMPLETED" \notin Upload
    BY <1>6, UploadAssumption DEF WriteCompleted, AtTask, SpState
  <2> QED BY <1>6, <2>1 DEF WriteCompleted, Row
<1> HIDE DEF TypeInv, TypeOK, Shape, Process, Terminal
<1> QED BY <1>1, <1>2, <1>3, <1>4, <1>5, <1>6

\* No step completes an upload without a checksum but one that was put back, and
\* saves load and put back sound columns only.
LEMMA ColumnsAreSoundStep ==
    ASSUME UploadInv, [Next]_vars
    PROVE  ColumnsAreSound'
<1> USE DEF UploadInv, ColumnsAreSound
<1>1. revived \subseteq revived'
  <2>1. CASE RunStep
    BY <2>1, RunColumns
  <2> QED BY <2>1, OthersLeaveSaves
<1>2. (\A s \in Saver : Sound(saver[s].seen))'
  BY <1>1, SavesHoldTheRow, UploadAssumption DEF Sound, ColumnOf, NoColumn, SpState
<1>3. CASE RunStep
  <2>1. ASSUME ColumnStays
        PROVE  Sound(row)'
    BY <1>1, <2>1 DEF ColumnStays, Sound
  <2>2. ASSUME NEW s \in Saver, Puts(saver[s].seen)
        PROVE  Sound(row)'
    BY <1>1, <2>2 DEF Puts, Sound
  <2>3. ASSUME NEW s \in Saver, Puts([saver[s].seen EXCEPT !.sha = saver[s].net]),
               saver[s].seen \in Column, saver[s].seen.sp = "COMPLETED", saver[s].net \in Upload
        PROVE  Sound(row)'
    BY <2>3, UploadAssumption DEF Puts, Sound, Column, SpState
  <2>4. Sound(row)'
    BY <1>3, <2>1, <2>2, <2>3, RunColumns
  <2> QED BY <1>2, <2>4
<1>4. CASE ~ RunStep
  <2>1. ASSUME ColumnStays
        PROVE  Sound(row)'
    BY <1>1, <2>1 DEF ColumnStays, Sound
  <2>2. ASSUME Ends
        PROVE  Sound(row)'
    BY <1>1, <2>2, UploadAssumption DEF Ends, Sound, SpState
  <2>3. ASSUME NEW u, NEW st, Promise!Column(u, st), st \in {u} \cap Upload \/ st \in {"PENDING", "FAILED"}
        PROVE  Sound(row)'
    BY <2>3, UploadAssumption DEF Promise!Column, Sound, SpState
  <2>4. Sound(row)'
    BY <1>4, <2>1, <2>2, <2>3, ColumnSteps, OwnerTakesItsTurn DEF ColumnStep
  <2> QED BY <1>2, <2>4
<1> QED BY <1>3, <1>4

\* The invariant holds in every reachable state.
LEMMA UploadInvHolds == Spec => []UploadInv
<1>1. Init => UploadInv
  <2>1. Init => FreshIsUnknown
    BY UploadAssumption DEF Init, FreshIsUnknown, IdleProcess, IdleSave, NoColumn, SpState
  <2>2. Init => OneRequestPerUpload
    BY UploadAssumption DEF Init, OneRequestPerUpload, IdleRequest
  <2>3. Init => ReturnedIsWritten
    BY DEF Init, ReturnedIsWritten, IdleProcess
  <2>4. Init => ColumnsAreSound
    BY UploadAssumption DEF Init, ColumnsAreSound, Sound, IdleSave, NoColumn, SpState
  <2> QED BY <2>1, <2>2, <2>3, <2>4, TypeInit DEF UploadInv
<1>2. UploadInv /\ [Next]_vars => UploadInv'
  BY TypeStep, FreshIsUnknownStep, OneRequestPerUploadStep, ReturnedIsWrittenStep,
     ColumnsAreSoundStep DEF UploadInv
<1> QED BY <1>1, <1>2, PTL DEF Spec

\* No upload is ever shown as finished without the checksum of its download,
\* unless a submit's save has put the id of its ended task back.
THEOREM CompletedNamesItsDownload == Spec => []CompletedHasChecksum
<1>1. UploadInv => CompletedHasChecksum
  BY DEF UploadInv, ColumnsAreSound, Sound, CompletedHasChecksum
<1> QED BY <1>1, UploadInvHolds, PTL

\* Writing the column is a step of the request's own.
LEMMA WritersMove ==
    ASSUME UploadInv, NEW h \in Handler,
           ResetRow(h) \/ SaveInput(h) \/ WriteTaskId(h) \/ EndUploadFailed(h)
    PROVE  web[h].pc \in {"reset", "save", "own", "fail"} /\ web'[h] # web[h]
BY DEF UploadInv, TypeInv, TypeOK, Request, IdleRequest, ResetRow, SaveInput, WriteTaskId,
       EndUploadFailed, At, Goto, Done

\* An upload that ended in the row is changed by requests and saves only: no
\* late task, redelivered task or late poll does, in any state of any instance.
THEOREM EndedStaysEnded == Spec => EndedUploadIsLeftAlone
<1> DEFINE ByRequest ==
        \E h \in Handler :
            web[h].pc \in {"reset", "save", "own", "fail"} /\ web'[h] # web[h]
           BySave ==
        \E s \in Saver :
            saver[s].pc \in {"save", "record"} /\ saver'[s] # saver[s]
<1>1. ASSUME UploadInv, [Next]_vars, row.sp \in {"COMPLETED", "FAILED"}, ~ ColumnStays
      PROVE  ByRequest \/ BySave
  <2>1. ~ Ends
    BY <1>1, UploadAssumption DEF Ends, SpState
  <2>2. CASE ~ RunStep
    BY <1>1, <2>1, <2>2, ColumnSteps, WritersMove DEF ColumnStep
  <2>3. ASSUME NEW s \in Saver, SaveForRun(s) \/ AdoptDownload(s)
        PROVE  saver[s].pc \in {"save", "record"} /\ saver'[s] # saver[s]
    BY <1>1, <2>3 DEF UploadInv, TypeInv, TypeOK, SaveForRun, AdoptDownload, AtSave, Saved, IdleSave
  <2>4. CASE RunStep
    BY <1>1, <2>3, <2>4, RunColumns
  <2> QED BY <2>2, <2>4
<1>2. ColumnStays => ColumnOf(row)' = ColumnOf(row)
  BY DEF ColumnStays, ColumnOf
<1>3. UploadInv /\ [Next]_vars =>
        [(row.sp \in {"COMPLETED", "FAILED"} /\ ColumnOf(row)' # ColumnOf(row))
            => \/ \E h \in Handler :
                    web[h].pc \in {"reset", "save", "own", "fail"} /\ web'[h] # web[h]
               \/ \E s \in Saver :
                    saver[s].pc \in {"save", "record"} /\ saver'[s] # saver[s]]_vars
  BY <1>1, <1>2
<1> QED BY <1>3, UploadInvHolds, PTL DEF Spec, EndedUploadIsLeftAlone

-----------------------------------------------------------------------------
(* Step simulation: UploadPipeline implements MembershipColumn *)

\* Only requests give a task its turn, or the turn up.
LEMMA OthersLeaveSpent ==
    ASSUME UploadInv, [Next]_vars, web' = web
    PROVE  Spent' = Spent
<1> SUFFICES ASSUME NEW u \in Upload, u \notin Spent, celery[u] = "unused", celery'[u] # "unused"
             PROVE  FALSE
  BY SpentGrows DEF Spent
<1>1. u \notin queue /\ \A w \in Worker : wrk[w].task # u
  BY DEF UploadInv, FreshIsUnknown
<1>2. ASSUME NEW w \in Worker,
             Receive(w) \/ TaskStep(w) \/ TerminateWorker(w) \/ WorkerDies(w)
      PROVE  celery'[u] = celery[u]
  BY <1>1, <1>2, WorkerSteps
<1>3. ASSUME NEW h \in Handler,
             StartUpload(h) \/ StartDelete(h) \/ WebStep(h) \/ WebCrash(h)
      PROVE  web'[h] # web[h]
  <2> USE DEF UploadInv, TypeInv, TypeOK, Request, IdleRequest, At, Goto, Done
  <2>1. CASE StartUpload(h)
    BY <2>1 DEF StartUpload
  <2>2. CASE StartDelete(h)
    BY <2>2 DEF StartDelete
  <2>3. CASE WebCrash(h)
    BY <2>3 DEF WebCrash
  <2>4. CASE RevokeSeen(h) \/ WipeFiles(h) \/ PushInput(h) \/ PushPlots(h)
    BY <2>4 DEF RevokeSeen, WipeFiles, PushInput, PushPlots
  <2>5. CASE StageFile(h) \/ SubmitUpload(h)
    BY <2>5 DEF StageFile, SubmitUpload
  <2> QED BY <1>3, <2>1, <2>2, <2>3, <2>4, <2>5, WritersMove DEF WebStep
<1>4. StartPoll \/ RunStep \/ (\E v \in Upload : AnswerPoll(v)) => UNCHANGED celery
  BY RunStepFrame DEF StartPoll, AnswerPoll, OtherThanWeb, Broker
<1> QED BY <1>2, <1>3, <1>4 DEF Next, RunStep, vars

\* A request's step gives up the turn of its own upload at most.
LEMMA RequestsSpendTheirOwn ==
    ASSUME UploadInv, NEW h \in Handler,
           StartUpload(h) \/ StartDelete(h) \/ WebStep(h) \/ WebCrash(h)
    PROVE  \/ Spent' = Spent
           \/ /\ web[h].up \in Upload /\ web[h].pc \in Before
              /\ ~ (web'[h].up = web[h].up /\ web'[h].pc \in Before)
              /\ Spent' = Spent \cup {web[h].up}
<1>0. [Next]_vars
  BY DEF Next
<1>1. ASSUME NEW u \in Upload, Draws(h, u)
      PROVE  Spent' = Spent
  <2> SUFFICES ASSUME NEW v \in Upload, v \in Spent', v \notin Spent
               PROVE  FALSE
    BY <1>0, SpentGrows DEF Spent
  <2>1. v # u /\ celery'[v] = celery[v]
    BY <1>1 DEF Draws, Spent, UploadInv, TypeInv, TypeOK
  <2> QED BY <1>1, <2>1 DEF Draws, Spent
<1>2. ASSUME NEW u \in Upload, u \in Spent', u \notin Spent, MovesOn(h)
      PROVE  /\ u = web[h].up /\ web[h].pc \in Before
             /\ ~ (web'[h].up = web[h].up /\ web'[h].pc \in Before)
  <2>1. celery[u] # "unused"
    <3>1. CASE SubmitUpload(h)
      <4>1. u # web[h].up
        BY <1>2, <3>1, SubmittedIsSpent DEF SubmitUpload, At
      <4> QED BY <1>2, <3>1, <4>1 DEF SubmitUpload, Spent, UploadInv, TypeInv, TypeOK
    <3>2. CASE UNCHANGED celery
      BY <1>2, <3>2 DEF Spent
    <3>3. CASE StartUpload(h)
      <4>1. web'[h].up \in Upload /\ web'[h].up # web[h].up
        BY <3>3 DEF StartUpload, UploadInv, TypeInv, TypeOK, OneRequestPerUpload
      <4> QED BY <1>2, <4>1, UploadAssumption DEF MovesOn
    <3> QED
      BY <3>1, <3>2, <3>3 DEF StartDelete, WebStep, WebCrash, RevokeSeen, WipeFiles, ResetRow,
         StageFile, PushInput, SaveInput, PushPlots, WriteTaskId, EndUploadFailed, OtherThanWeb,
         Broker
  <2>2. PICK g \in Handler : web[g].up = u /\ web[g].pc \in Before
    BY <1>2, <2>1 DEF Spent
  <2>3. ~ (web'[g].up = u /\ web'[g].pc \in Before)
    BY <1>2, <2>2 DEF Spent
  <2> QED BY <1>2, <2>2, <2>3 DEF MovesOn
<1> QED BY <1>0, <1>1, <1>2, SpentGrows, RequestKinds DEF Spent

\* What saves in flight have loaded: what MembershipColumn calls held.
Held == {saver[s].seen : s \in {t \in Saver : saver[t].pc # "idle"}}

\* A save loads the column, or what is held becomes no more.
LEMMA HeldSteps ==
    ASSUME UploadInv, RunStep
    PROVE  \/ Held' \subseteq Held
           \/ Held' = Held \cup {ColumnOf(row)} /\ ColumnStays /\ revived' = revived
<1> USE DEF UploadInv, TypeInv, TypeOK, Save, Held
<1>1. CASE EndRun \/ ResetRun
  BY <1>1 DEF EndRun, ResetRun, Saves
<1>2. ASSUME NEW s \in Saver, Saved(s)
      PROVE  Held' \subseteq Held
  BY <1>2 DEF Saved, IdleSave
<1>3. ASSUME NEW s \in Saver, saver[s].pc # "idle", saver'[s].seen = saver[s].seen,
             \A t \in Saver \ {s} : saver'[t] = saver[t]
      PROVE  Held' \subseteq Held
  BY <1>3
<1>4. ASSUME NEW s \in Saver, saver[s].pc = "idle", NEW p \in {"queue", "adopt"}, Loads(s, p)
      PROVE  Held' = Held \cup {ColumnOf(row)}
  <2>1. saver'[s].seen = ColumnOf(row) /\ saver'[s].pc # "idle"
    BY <1>4 DEF Loads
  <2>2. \A t \in Saver \ {s} : saver'[t] = saver[t]
    BY <1>4 DEF Loads
  <2> QED BY <1>4, <2>1, <2>2
<1>5. ASSUME NEW s \in Saver, LoadForRun(s) \/ LoadForDownload(s)
      PROVE  Held' = Held \cup {ColumnOf(row)} /\ ColumnStays /\ revived' = revived
  BY <1>4, <1>5 DEF LoadForRun, LoadForDownload, AtSave, ColumnStays
<1>6. ASSUME NEW s \in Saver,
             \/ QueueRun(s) \/ PullForRun(s) \/ PushForRun(s) \/ SaveForRun(s) \/ FailToStart(s)
             \/ PullDownload(s) \/ AdoptDownload(s)
      PROVE  Held' \subseteq Held
  <2>1. ASSUME NEW p, saver[s].pc # "idle", GotoSave(s, p)
        PROVE  Held' \subseteq Held
    BY <1>3, <2>1 DEF GotoSave
  <2>2. CASE PullDownload(s)
    <3>1. \/ Saved(s)
          \/ \E pulled \in {Overlaid(Remote, WebDisk).net, Overlaid(Remote, WorkerDisk).net} :
                saver' = [saver EXCEPT ![s].pc = "record", ![s].net = pulled]
      BY <2>2 DEF PullDownload
    <3>2. CASE Saved(s)
      BY <1>2, <3>2
    <3>3. ASSUME NEW pulled, saver' = [saver EXCEPT ![s].pc = "record", ![s].net = pulled]
          PROVE  Held' \subseteq Held
      BY <1>3, <2>2, <3>3 DEF PullDownload, AtSave
    <3> QED BY <3>1, <3>2, <3>3
  <2> QED
    BY <1>2, <1>6, <2>1, <2>2
       DEF QueueRun, PullForRun, PushForRun, SaveForRun, FailToStart, AdoptDownload, AtSave
<1> HIDE DEF UploadInv, TypeInv, TypeOK, Save, Held
<1> QED BY <1>1, <1>5, <1>6 DEF RunStep, SaveStep, Held, Saves

\* The steps of submits and adoptions hold, let go of, put back or adopt.
LEMMA RunStepsAreColumnSteps ==
    ASSUME UploadInv, RunStep
    PROVE  [Promise!Next]_(Promise!vars)
<1>1. Spent' = Spent
  BY RunStepFrame DEF Spent
<1>2. CASE Held' = Held \cup {ColumnOf(row)} /\ ColumnStays /\ revived' = revived
  <2>1. Promise!Hold
    BY <1>1, <1>2 DEF Promise!Hold, ColumnStays, ColumnOf, Spent, Held
  <2> QED BY <2>1 DEF Promise!Next
<1>3. CASE Held' \subseteq Held
  <2>1. ASSUME ColumnStays, revived' = revived
        PROVE  Promise!LetGo
    BY <1>1, <1>3, <2>1 DEF Promise!LetGo, ColumnStays, Spent, Held
  <2>2. ASSUME NEW s \in Saver, SaveForRun(s), Puts(saver[s].seen),
               revived' = revived \cup ({saver[s].seen.sp} \cap (Upload \ {row.sp}))
        PROVE  saver[s].seen \in Held /\ Promise!PutBack(saver[s].seen)
    BY <1>1, <1>3, <2>2 DEF Promise!PutBack, Puts, Spent, Held, SaveForRun, AtSave
  <2>3. ASSUME NEW s \in Saver, AdoptDownload(s), revived' = revived,
               Puts([saver[s].seen EXCEPT !.sha = saver[s].net]),
               saver[s].seen \in Column, saver[s].net \in Upload,
               saver[s].seen.sp = "COMPLETED", saver[s].seen.sha = None
        PROVE  saver[s].seen \in Held /\ Promise!Adopt(saver[s].seen)
    BY <1>1, <1>3, <2>3 DEF Promise!Adopt, Puts, Spent, Held, AdoptDownload, AtSave, Column
  <2>4. Promise!LetGo => Promise!Next
    BY DEF Promise!Next
  <2>5. ASSUME NEW s \in Saver, saver[s].seen \in Held,
               Promise!PutBack(saver[s].seen) \/ Promise!Adopt(saver[s].seen)
        PROVE  Promise!Next
    <3>1. PICK c \in Held : c = saver[s].seen
      BY <2>5
    <3>2. Promise!PutBack(c) \/ Promise!Adopt(c)
      BY <2>5, <3>1 DEF Promise!PutBack, Promise!Adopt
    <3> QED BY <3>1, <3>2 DEF Promise!Next, Held
  <2> QED BY <2>1, <2>2, <2>3, <2>4, <2>5, RunColumns
<1> QED BY <1>2, <1>3, HeldSteps

\* Every step is one of the column's, or leaves it alone.
LEMMA StepsAreColumnSteps ==
    ASSUME UploadInv, [Next]_vars
    PROVE  [Promise!Next]_(Promise!vars)
<1>a. SUFFICES ASSUME ~ RunStep
               PROVE  [Promise!Next]_(Promise!vars)
  BY RunStepsAreColumnSteps
<1>b. Promise!Saves' = Promise!Saves /\ revived' = revived
  BY <1>a, OthersLeaveSaves DEF Promise!Saves
<1> DEFINE Simulated == [Promise!Next]_(Promise!vars)
<1>1. ASSUME Spent' = Spent, ColumnStays
      PROVE  Simulated
  BY <1>b, <1>1 DEF ColumnStays, Promise!vars, Promise!Saves, Spent
<1>2. ASSUME NEW u \in Upload, Spent' = Spent \cup {u}, ColumnStays
      PROVE  Simulated
  <2>1. Promise!Abandon(u)
    BY <1>b, <1>2 DEF ColumnStays, Promise!Abandon, Spent
  <2> QED BY <2>1 DEF Promise!Next
<1>3. ASSUME Spent' = Spent, Ends
      PROVE  Simulated
  <2>1. Promise!Complete \/ Promise!CompleteUnnamed \/ Promise!Fail
    BY <1>b, <1>3 DEF Ends, Promise!Complete, Promise!CompleteUnnamed, Promise!Fail, Spent
  <2> QED BY <2>1 DEF Promise!Next
<1>4. ASSUME NEW h \in Handler, WriteTaskId(h), Promise!Column(web[h].up, web[h].up)
      PROVE  Simulated
  <2>1. PICK u \in Upload : u = web[h].up
    BY <1>4, OwnerTakesItsTurn
  <2>2. Promise!Own(u)
    BY <1>b, <1>4, <2>1, OwnerTakesItsTurn DEF Promise!Own, Promise!Column, Spent
  <2> QED BY <2>2 DEF Promise!Next
<1>5. ASSUME NEW h \in Handler, Spent' = Spent,
             ResetRow(h) /\ Promise!Column(None, "PENDING")
      PROVE  Simulated
  <2>1. Promise!Delete
    BY <1>b, <1>5 DEF Promise!Delete, Spent
  <2> QED BY <2>1 DEF Promise!Next
<1>6. ASSUME NEW h \in Handler, Spent' = Spent,
             SaveInput(h) /\ Promise!Column(web[h].up, "PENDING")
      PROVE  Simulated
  <2>1. PICK u \in Upload : u = web[h].up
    BY <1>6 DEF UploadInv, TypeInv, Shape, SaveInput, At
  <2>2. u \notin Spent
    BY <1>6, <2>1 DEF Spent, Before, SaveInput, At
  <2>3. Promise!Save(u)
    BY <1>b, <1>6, <2>1, <2>2 DEF Promise!Save, Promise!Column, Spent
  <2> QED BY <2>3 DEF Promise!Next
<1>7. ASSUME NEW h \in Handler, Spent' = Spent,
             EndUploadFailed(h) /\ Promise!Column(web[h].up, "FAILED")
      PROVE  Simulated
  <2>1. PICK u \in Upload : u = web[h].up /\ u \in Spent
    BY <1>7, SubmittedIsSpent DEF EndUploadFailed, At
  <2>2. Promise!Refuse(u)
    BY <1>b, <1>7, <2>1 DEF Promise!Refuse, Promise!Column, Spent
  <2> QED BY <2>2 DEF Promise!Next
<1>8. CASE Spent' = Spent
  BY <1>a, <1>1, <1>3, <1>4, <1>5, <1>6, <1>7, <1>8, ColumnSteps DEF ColumnStep
<1>9. CASE Spent' # Spent
  <2>1. PICK h \in Handler :
          /\ StartUpload(h) \/ StartDelete(h) \/ WebStep(h) \/ WebCrash(h)
          /\ web[h].up \in Upload
          /\ ~ (web'[h].up = web[h].up /\ web'[h].pc \in Before)
          /\ Spent' = Spent \cup {web[h].up}
    BY <1>9, OthersLeaveSpent, OthersLeaveRequests, RequestsSpendTheirOwn
  <2>2. \A g \in Handler \ {h} : web'[g] = web[g]
    BY <2>1, RequestKinds DEF MovesOn, Draws
  <2>3. ASSUME NEW g \in Handler, ResetRow(g) \/ SaveInput(g) \/ EndUploadFailed(g), ~ ColumnStays
        PROVE  FALSE
    <3>1. g = h
      BY <2>2, <2>3, WritersMove
    <3>2. CASE ResetRow(h)
      BY <2>1, <2>3, <3>2, UploadAssumption
         DEF ResetRow, Goto, Before, ColumnStays, UploadInv, TypeInv, TypeOK, Request
    <3>3. CASE SaveInput(h)
      BY <2>1, <2>3, <3>3
         DEF SaveInput, Goto, Before, ColumnStays, UploadInv, TypeInv, TypeOK, Request
    <3>4. CASE EndUploadFailed(h)
      BY <1>9, <2>1, <3>4, SubmittedIsSpent DEF EndUploadFailed, At
    <3> QED BY <2>3, <3>1, <3>2, <3>3, <3>4
  <2>4. CASE ColumnStays
    <3>1. PICK u \in Upload : u = web[h].up
      BY <2>1
    <3> QED BY <1>2, <2>1, <2>4, <3>1
  <2>5. CASE ~ ColumnStays
    <3>1. ~ UNCHANGED <<web, celery>>
      BY <1>9 DEF Spent
    <3> QED BY <1>a, <1>4, <2>3, <2>5, <3>1, ColumnSteps DEF ColumnStep
  <2> QED BY <2>4, <2>5
<1> QED BY <1>8, <1>9

\* The column keeps its promise for any number of tabs, workers and uploads: an
\* upload owns it once, and only the owner completes it, naming its download.
THEOREM ColumnKeepsItsPromise == Spec => KeepsColumnPromise
<1>1. Init => Promise!Init
  BY DEF Init, Promise!Init, IdleSave
<1>2. UploadInv /\ [Next]_vars => [Promise!Next]_(Promise!vars)
  BY StepsAreColumnSteps
<1> QED BY <1>1, <1>2, UploadInvHolds, PTL DEF Spec, KeepsColumnPromise, Promise!Spec
=============================================================================
