------------------------- MODULE RunLifecycleProofs -------------------------
(***************************************************************************)
(* Proofs about RunLifecycle, for any number of requests, workers, task    *)
(* ids, clicks and restarts: type correctness; that it implements JobRun,  *)
(* one claim per attempt included; and that no queued run is orphaned as   *)
(* long as requests are not killed half way.                               *)
(***************************************************************************)
EXTENDS RunLifecycle, TLAPS

USE DEF Status, WebPc, WorkerPc

\* The shape of an idle request and of an idle worker process.
LEMMA IdleTypes ==
    /\ IdleRequest \in Request /\ IdleRequest.pc = "idle"
    /\ IdleProcess \in Process /\ IdleProcess.pc = "idle"
BY DEF IdleRequest, IdleProcess, Request, Process, NoRun

\* What a delivery that claims the row does to the row and the worker.
ClaimBy(w, t) ==
    /\ Queued
    /\ row' = [row EXCEPT !.beat = "set", !.run = Len(claims) + 1]
    /\ claims' = Append(claims, attempt)
    /\ wrk' = [wrk EXCEPT ![w] = [pc |-> "compute", task |-> t,
                                  run |-> Len(claims) + 1]]

\* A busy worker that moves on keeps its task and its run.
LEMMA WorkerMoves ==
    ASSUME TypeOK, NEW w \in Worker, NEW p \in WorkerPc, wrk[w].pc # "idle",
           wrk' = [wrk EXCEPT ![w].pc = p], claims' = claims
    PROVE  /\ wrk' \in [Worker -> Process]
           /\ \A v \in Worker : wrk'[v].pc # "idle" =>
                /\ wrk'[v].task \in Task
                /\ wrk'[v].run \in DOMAIN claims'
<1>1. wrk' \in [Worker -> Process]
  BY DEF TypeOK, Process
<1>2. ASSUME NEW v \in Worker, wrk'[v].pc # "idle"
      PROVE  wrk'[v].task \in Task /\ wrk'[v].run \in DOMAIN claims'
  <2>1. wrk'[v].task = wrk[v].task /\ wrk'[v].run = wrk[v].run /\ wrk[v].pc # "idle"
    BY <1>2 DEF TypeOK, Process
  <2> QED BY <2>1 DEF TypeOK
<1> QED BY <1>1, <1>2

\* The run of a busy worker claimed an attempt.
LEMMA ClaimedAttempt ==
    ASSUME TypeOK, NEW w \in Worker, wrk[w].pc # "idle"
    PROVE  claims[wrk[w].run] \in Nat
BY DEF TypeOK

\* The types hold at first.
LEMMA TypeInit == Init => TypeOK
BY IdleTypes DEF Init, TypeOK, Row, NoRun

\* Every step keeps the types, one action at a time.
LEMMA TypeStep == TypeOK /\ [Next]_vars => TypeOK'
<1> SUFFICES ASSUME TypeOK, [Next]_vars
             PROVE  TypeOK'
  OBVIOUS
<1> USE IdleTypes
<1>1. ASSUME NEW h \in Handler, StartComputation(h)
      PROVE  TypeOK'
  BY <1>1 DEF StartComputation, Load, Click, BrokerAndWorkers, TypeOK, Row,
              Request
<1>2. ASSUME NEW h \in Handler, RestartComputation(h)
      PROVE  TypeOK'
  BY <1>2 DEF RestartComputation, Load, Click, BrokerAndWorkers, TypeOK, Row,
              Request
<1>3. ASSUME NEW h \in Handler, ResetJob(h)
      PROVE  TypeOK'
  BY <1>3 DEF ResetJob, Load, BrokerAndWorkers, historyVars, TypeOK, Row,
              Request
<1>4. ASSUME NEW h \in Handler, CancelComputation(h)
      PROVE  TypeOK'
  BY <1>4 DEF CancelComputation, Load, BrokerAndWorkers, historyVars, TypeOK,
              Row, Request
<1>5. ASSUME UpdateInput
      PROVE  TypeOK'
  <2>1. row.input + 1 \in Nat
    BY DEF TypeOK, Row
  <2>2. row' \in Row
    BY <1>5, <2>1 DEF UpdateInput, TypeOK, Row
  <2> QED BY <1>5, <2>2 DEF UpdateInput, BrokerAndWorkers, historyVars, TypeOK
<1>6. ASSUME NEW h \in Handler, MarkQueued(h)
      PROVE  TypeOK'
  <2>1. CASE row.status \in {"PENDING", "FAILED"}
    <3>1. row' = [row EXCEPT !.status = "RUNNING", !.beat = "none", !.run = NoRun]
      BY <1>6, <2>1 DEF MarkQueued
    <3>2. row' \in Row
      BY <3>1 DEF TypeOK, Row, NoRun
    <3>3. attempt' = attempt + 1 /\ attempt' \in Nat
      BY <1>6, <2>1 DEF MarkQueued, TypeOK
    <3>4. web' = [web EXCEPT ![h].pc = "unnotify", ![h].attempt = attempt + 1]
      BY <1>6, <2>1 DEF MarkQueued
    <3>5. web' \in [Handler -> Request]
      BY <3>3, <3>4 DEF TypeOK, Request
    <3> QED BY <1>6, <3>2, <3>3, <3>5 DEF MarkQueued, BrokerAndWorkers, TypeOK
  <2>2. CASE row.status \notin {"PENDING", "FAILED"}
    BY <1>6, <2>2 DEF MarkQueued, Done, BrokerAndWorkers, TypeOK
  <2> QED BY <2>1, <2>2
<1>7. ASSUME NEW h \in Handler, ClearNotifiedEnd(h)
      PROVE  TypeOK'
  BY <1>7 DEF ClearNotifiedEnd, Goto, BrokerAndWorkers, historyVars, TypeOK,
              Row, Request
<1>8. ASSUME NEW h \in Handler, SaveRow(h)
      PROVE  TypeOK'
  BY <1>8 DEF SaveRow, Goto, BrokerAndWorkers, historyVars, TypeOK, Row,
              Request
<1>9. ASSUME NEW h \in Handler, Enqueue(h)
      PROVE  TypeOK'
  <2>1. PICK t \in Task :
          /\ queue' = queue \cup {t}
          /\ sentFor' = [sentFor EXCEPT ![t] = web[h].attempt]
          /\ web' = [web EXCEPT ![h].pc = "storeId", ![h].task = t]
    BY <1>9 DEF Enqueue
  <2>2. web' \in [Handler -> Request]
    BY <2>1 DEF TypeOK, Request
  <2>3. sentFor' \in [Task -> Nat]
    BY <2>1 DEF TypeOK, Request
  <2>4. queue' \subseteq Task
    BY <2>1 DEF TypeOK
  <2> QED BY <1>9, <2>2, <2>3, <2>4 DEF Enqueue, historyVars, TypeOK
<1>10. ASSUME NEW h \in Handler, StoreTaskId(h)
       PROVE  TypeOK'
  BY <1>10 DEF StoreTaskId, Done, BrokerAndWorkers, historyVars, TypeOK, Row,
               Request
<1>11. ASSUME NEW h \in Handler, StartFails(h)
       PROVE  TypeOK'
  BY <1>11 DEF StartFails, Goto, BrokerAndWorkers, historyVars, TypeOK, Request
<1>12. ASSUME NEW h \in Handler, FailToStart(h)
       PROVE  TypeOK'
  BY <1>12 DEF FailToStart, Done, BrokerAndWorkers, historyVars, TypeOK, Row
<1>13. ASSUME NEW h \in Handler, RevokeTask(h)
       PROVE  TypeOK'
  BY <1>13 DEF RevokeTask, Goto, historyVars, TypeOK, Request
<1>14. ASSUME NEW h \in Handler, MarkCancelled(h)
       PROVE  TypeOK'
  BY <1>14 DEF MarkCancelled, Done, BrokerAndWorkers, historyVars, TypeOK, Row
<1>15. ASSUME NEW h \in Handler, MarkPending(h)
       PROVE  TypeOK'
  <2>1. CASE row.status # "RUNNING"
    <3>1. row' = [row EXCEPT !.status = "PENDING", !.beat = "none"]
      BY <1>15, <2>1 DEF MarkPending
    <3>2. row' \in Row
      BY <3>1 DEF TypeOK, Row
    <3>3. web' = [web EXCEPT ![h].pc = "forget"]
      BY <1>15, <2>1 DEF MarkPending, Goto
    <3>4. web' \in [Handler -> Request]
      BY <3>3 DEF TypeOK, Request
    <3> QED BY <1>15, <3>2, <3>4 DEF MarkPending, BrokerAndWorkers,
                                     historyVars, TypeOK
  <2>2. CASE row.status = "RUNNING"
    BY <1>15, <2>2 DEF MarkPending, Done, BrokerAndWorkers, historyVars, TypeOK
  <2> QED BY <2>1, <2>2
<1>16. ASSUME NEW h \in Handler, ForgetTask(h)
       PROVE  TypeOK'
  <2>1. row' \in Row
    BY <1>16 DEF ForgetTask, TypeOK, Row
  <2>2. web' = [web EXCEPT ![h].pc = "guard", ![h].task = NoTask] \/ Done(h)
    BY <1>16 DEF ForgetTask
  <2>3. web' \in [Handler -> Request]
    <3>1. CASE web' = [web EXCEPT ![h].pc = "guard", ![h].task = NoTask]
      BY <3>1 DEF TypeOK, Request
    <3>2. CASE Done(h)
      BY <3>2 DEF Done, TypeOK
    <3> QED BY <2>2, <3>1, <3>2
  <2> QED BY <1>16, <2>1, <2>3 DEF ForgetTask, BrokerAndWorkers, historyVars,
                                   TypeOK
<1>17. ASSUME NEW h \in Handler, WebCrash(h)
       PROVE  TypeOK'
  BY <1>17 DEF WebCrash, Done, BrokerAndWorkers, historyVars, TypeOK
<1>18. ASSUME NEW w \in Worker, Deliver(w)
       PROVE  TypeOK'
  <2>1. PICK t \in queue :
          /\ queue' = queue \ {t}
          /\ \/ ClaimBy(w, t)
             \/ UNCHANGED <<row, claims, wrk>>
    BY <1>18 DEF Deliver, ClaimBy
  <2>2. CASE ClaimBy(w, t)
    <3> DEFINE new == Len(claims) + 1
    <3>1. new \in Nat
      BY DEF TypeOK
    <3>2. row' \in Row
      BY <2>2, <3>1 DEF ClaimBy, TypeOK, Row
    <3>3. wrk' \in [Worker -> Process]
      BY <2>2, <3>1 DEF ClaimBy, TypeOK, Process
    <3>4. claims' \in Seq(Nat) /\ DOMAIN claims' = 1..new
      BY <2>2, <3>1 DEF ClaimBy, TypeOK
    <3>5. DOMAIN claims = 1..Len(claims)
      BY DEF TypeOK
    <3>6. \A v \in Worker : wrk'[v].pc # "idle" => /\ wrk'[v].task \in Task
                                                  /\ wrk'[v].run \in DOMAIN claims'
      BY <2>2, <3>1, <3>4, <3>5 DEF ClaimBy, TypeOK
    <3> QED BY <1>18, <2>1, <3>2, <3>3, <3>4, <3>6 DEF Deliver, TypeOK
  <2>3. CASE UNCHANGED <<row, claims, wrk>>
    BY <1>18, <2>1, <2>3 DEF Deliver, TypeOK
  <2> QED BY <2>1, <2>2, <2>3
<1>19. ASSUME NEW w \in Worker, FinishRun(w)
       PROVE  TypeOK'
  <2>1. CASE row.status = "RUNNING" /\ row.run = wrk[w].run
    <3>1. row' \in Row
      BY <1>19, <2>1 DEF FinishRun, TypeOK, Row
    <3>2. ended' \subseteq Nat
      BY <1>19, <2>1, ClaimedAttempt DEF FinishRun, TypeOK
    <3>3. /\ wrk[w].pc # "idle" /\ "load" \in WorkerPc
          /\ wrk' = [wrk EXCEPT ![w].pc = "load"] /\ claims' = claims
      BY <1>19, <2>1 DEF FinishRun
    <3> QED BY <1>19, <3>1, <3>2, <3>3, WorkerMoves DEF FinishRun, TypeOK
  <2>2. CASE ~(row.status = "RUNNING" /\ row.run = wrk[w].run)
    BY <1>19, <2>2 DEF FinishRun, Rest, TypeOK
  <2> QED BY <2>1, <2>2
<1>20. ASSUME NEW w \in Worker, LoadForEndMail(w)
       PROVE  TypeOK'
  <2>1. wrk[w].pc # "idle" /\ claims' = claims
    BY <1>20 DEF LoadForEndMail
  <2>2. CASE Rest(w) /\ silenced' = silenced \cup {claims[wrk[w].run]}
    BY <1>20, <2>1, <2>2, ClaimedAttempt DEF LoadForEndMail, Rest, TypeOK
  <2>3. CASE wrk' = [wrk EXCEPT ![w].pc = "mail"] /\ UNCHANGED silenced
    <3>1. "mail" \in WorkerPc
      OBVIOUS
    <3> QED BY <1>20, <2>1, <2>3, <3>1, WorkerMoves DEF LoadForEndMail, TypeOK
  <2> QED BY <1>20, <2>2, <2>3 DEF LoadForEndMail
<1>21. ASSUME NEW w \in Worker, SendEndMail(w)
       PROVE  TypeOK'
  <2>1. wrk[w].pc # "idle" /\ claims' = claims
    BY <1>21 DEF SendEndMail
  <2>2. CASE Rest(w) /\ UNCHANGED mails
    BY <1>21, <2>1, <2>2 DEF SendEndMail, Rest, TypeOK
  <2>3. CASE /\ mails' = Append(mails, claims[wrk[w].run])
             /\ wrk' = [wrk EXCEPT ![w].pc = "flag"]
    <3>1. "flag" \in WorkerPc
      OBVIOUS
    <3>2. mails' \in Seq(Nat)
      BY <2>1, <2>3, ClaimedAttempt DEF TypeOK
    <3> QED BY <1>21, <2>1, <2>3, <3>1, <3>2, WorkerMoves DEF SendEndMail, TypeOK
  <2> QED BY <1>21, <2>2, <2>3 DEF SendEndMail
<1>22. ASSUME NEW w \in Worker, MarkEndNotified(w)
       PROVE  TypeOK'
  BY <1>22 DEF MarkEndNotified, Rest, historyVars, TypeOK, Row
<1>23. ASSUME NEW w \in Worker, WorkerFailure(w)
       PROVE  TypeOK'
  BY <1>23 DEF WorkerFailure, TerminateWorker, WorkerDies, Rest, historyVars,
               TypeOK
<1>24. ASSUME PodRestart
       PROVE  TypeOK'
  BY <1>24 DEF PodRestart, TypeOK, Process
<1>25. ASSUME SweepLostRun
       PROVE  TypeOK'
  BY <1>25 DEF SweepLostRun, BrokerAndWorkers, historyVars, TypeOK, Row
<1>26. ASSUME UNCHANGED vars
       PROVE  TypeOK'
  BY <1>26 DEF vars, historyVars, TypeOK
<1> QED
  BY <1>1, <1>2, <1>3, <1>4, <1>5, <1>6, <1>7, <1>8, <1>9, <1>10, <1>11,
     <1>12, <1>13, <1>14, <1>15, <1>16, <1>17, <1>18, <1>19, <1>20, <1>21,
     <1>22, <1>23, <1>24, <1>25, <1>26
     DEF Next, UserStep, WebStep, TaskStep

\* Type correctness: the row, the requests, the broker and the workers keep
\* their shape in every reachable state.
THEOREM TypeCorrect == Spec => []TypeOK
BY TypeInit, TypeStep, PTL DEF Spec

-----------------------------------------------------------------------------
(***************************************************************************)
(* RunLifecycle implements JobRun.  Every step is one of seven kinds, each *)
(* of which is a step of JobRun or changes nothing JobRun sees; the        *)
(* invariant RunInv says what the guards of those steps rest on.           *)
(***************************************************************************)

(* The kinds of steps, by what they do to the run columns and the history *)

SameRun == /\ row'.status = row.status
           /\ row'.beat = row.beat
           /\ row'.run = row.run

OthersStay(w) == \A v \in Worker : v # w => wrk'[v] = wrk[v]

Opened ==
    /\ row.status \in {"PENDING", "FAILED"}
    /\ row'.status = "RUNNING" /\ row'.beat = "none" /\ row'.run = NoRun
    /\ attempt' = attempt + 1
    /\ UNCHANGED <<claims, ended, mails, wrk>>

Claimed(w) ==
    /\ Queued
    /\ row'.status = "RUNNING" /\ row'.beat = "set"
    /\ row'.run = Len(claims) + 1
    /\ claims' = Append(claims, attempt)
    /\ wrk[w].pc = "idle"
    /\ wrk'[w].pc = "compute" /\ wrk'[w].run = Len(claims) + 1
    /\ OthersStay(w)
    /\ UNCHANGED <<attempt, ended, mails>>

Ended(w) ==
    /\ row.status = "RUNNING" /\ row.run = wrk[w].run
    /\ row'.status \in {"COMPLETED", "FAILED"}
    /\ row'.beat = row.beat /\ row'.run = row.run
    /\ ended' = ended \cup {claims[wrk[w].run]}
    /\ wrk[w].pc = "compute"
    /\ wrk'[w].pc = "load" /\ wrk'[w].run = wrk[w].run
    /\ OthersStay(w)
    /\ UNCHANGED <<attempt, claims, mails>>

Aborted ==
    /\ row.status = "RUNNING"
    /\ row'.status = "FAILED" /\ row'.beat = row.beat /\ row'.run = row.run
    /\ UNCHANGED <<attempt, claims, ended, mails, wrk>>

WasReset ==
    /\ row.status # "RUNNING"
    /\ row'.status = "PENDING" /\ row'.beat = "none"
    /\ UNCHANGED <<attempt, claims, ended, mails, wrk>>

Mailed(w) ==
    /\ SameRun
    /\ mails' = Append(mails, claims[wrk[w].run])
    /\ wrk[w].pc = "mail"
    /\ wrk'[w].pc = "flag" /\ wrk'[w].run = wrk[w].run
    /\ OthersStay(w)
    /\ UNCHANGED <<attempt, claims, ended>>

\* A step no reader of the row's run columns sees; a worker may go on to its
\* mail, or rest.
Quiet ==
    /\ SameRun
    /\ \A v \in Worker :
        \/ wrk'[v] = wrk[v]
        \/ wrk'[v].pc = "idle"
        \/ wrk[v].pc = "load" /\ wrk'[v].pc = "mail" /\ wrk'[v].run = wrk[v].run
    /\ UNCHANGED <<attempt, claims, ended, mails>>

Kind ==
    \/ Opened \/ Aborted \/ WasReset \/ Quiet
    \/ \E w \in Worker : Claimed(w) \/ Ended(w) \/ Mailed(w)

\* A step that only lets a worker rest.
LEMMA Resting ==
    ASSUME TypeOK, NEW w \in Worker, Rest(w), SameRun,
           UNCHANGED <<attempt, claims, ended, mails>>
    PROVE  Quiet
<1>1. \A v \in Worker : wrk'[v] = wrk[v] \/ wrk'[v].pc = "idle"
  BY IdleTypes DEF Rest, TypeOK
<1> QED BY <1>1 DEF Quiet

\* A step that leaves the workers and the run columns alone.
LEMMA Unseen ==
    ASSUME SameRun, UNCHANGED <<attempt, claims, ended, mails, wrk>>
    PROVE  Quiet
BY DEF Quiet

\* The kinds of a user's clicks.
LEMMA UserKinds ==
    ASSUME TypeOK, NEW h \in Handler, UserStep(h) \/ WebCrash(h)
    PROVE  Quiet
<1>1. UNCHANGED <<row, attempt, claims, ended, mails, wrk>>
  BY DEF UserStep, StartComputation, RestartComputation, ResetJob,
         CancelComputation, Click, WebCrash, BrokerAndWorkers, historyVars
<1> QED BY <1>1, Unseen DEF SameRun

\* The kinds of a request's own steps.
LEMMA WebKinds ==
    ASSUME TypeOK, NEW h \in Handler, WebStep(h)
    PROVE  Opened \/ Aborted \/ WasReset \/ Quiet
<1> USE DEF BrokerAndWorkers, historyVars
<1>1. CASE MarkQueued(h)
  <2>1. CASE row.status \in {"PENDING", "FAILED"}
    BY <1>1, <2>1 DEF MarkQueued, Opened, TypeOK, Row
  <2>2. CASE row.status \notin {"PENDING", "FAILED"}
    <3>1. SameRun /\ UNCHANGED <<attempt, claims, ended, mails, wrk>>
      BY <1>1, <2>2 DEF MarkQueued, SameRun
    <3> QED BY <3>1, Unseen
  <2> QED BY <2>1, <2>2
<1>2. CASE ClearNotifiedEnd(h) \/ SaveRow(h) \/ StoreTaskId(h) \/ ForgetTask(h)
  <2>1. UNCHANGED <<attempt, claims, ended, mails, wrk>>
    BY <1>2 DEF ClearNotifiedEnd, SaveRow, StoreTaskId, ForgetTask
  <2>2. SameRun
    BY <1>2 DEF ClearNotifiedEnd, SaveRow, StoreTaskId, ForgetTask, SameRun,
                TypeOK, Row
  <2> QED BY <2>1, <2>2, Unseen
<1>3. CASE Enqueue(h) \/ StartFails(h) \/ RevokeTask(h)
  <2>1. UNCHANGED <<row, attempt, claims, ended, mails, wrk>>
    BY <1>3 DEF Enqueue, StartFails, RevokeTask
  <2> QED BY <2>1, Unseen DEF SameRun
<1>4. CASE FailToStart(h)
  <2>1. CASE Queued
    BY <1>4, <2>1 DEF FailToStart, Queued, Aborted, TypeOK, Row
  <2>2. CASE ~Queued
    BY <1>4, <2>2, Unseen DEF FailToStart, SameRun
  <2> QED BY <2>1, <2>2
<1>5. CASE MarkCancelled(h)
  <2>1. CASE row.status = "RUNNING"
    BY <1>5, <2>1 DEF MarkCancelled, Aborted, TypeOK, Row
  <2>2. CASE row.status # "RUNNING"
    BY <1>5, <2>2, Unseen DEF MarkCancelled, SameRun
  <2> QED BY <2>1, <2>2
<1>6. CASE MarkPending(h)
  <2>1. CASE row.status # "RUNNING"
    BY <1>6, <2>1 DEF MarkPending, WasReset, TypeOK, Row
  <2>2. CASE row.status = "RUNNING"
    BY <1>6, <2>2, Unseen DEF MarkPending, SameRun
  <2> QED BY <2>1, <2>2
<1> QED BY <1>1, <1>2, <1>3, <1>4, <1>5, <1>6 DEF WebStep

\* The kinds of a worker's steps.
LEMMA TaskKinds ==
    ASSUME TypeOK, NEW w \in Worker,
           Deliver(w) \/ TaskStep(w) \/ WorkerFailure(w)
    PROVE  Quiet \/ Claimed(w) \/ Ended(w) \/ Mailed(w)
<1>1. CASE Deliver(w)
  <2>1. CASE UNCHANGED <<row, claims, wrk>>
    BY <1>1, <2>1, Unseen DEF Deliver, SameRun
  <2>2. CASE \E t \in queue : ClaimBy(w, t)
    <3>1. PICK t \in queue : ClaimBy(w, t)
      BY <2>2
    <3>2. /\ row'.status = "RUNNING" /\ row'.beat = "set"
          /\ row'.run = Len(claims) + 1
      BY <3>1 DEF ClaimBy, Queued, TypeOK, Row
    <3>3. /\ wrk'[w].pc = "compute" /\ wrk'[w].run = Len(claims) + 1
          /\ OthersStay(w)
      BY <3>1 DEF ClaimBy, OthersStay, TypeOK
    <3> QED BY <1>1, <3>1, <3>2, <3>3 DEF Deliver, ClaimBy, Claimed
  <2> QED BY <1>1, <2>1, <2>2 DEF Deliver, ClaimBy
<1>2. CASE FinishRun(w)
  <2>1. CASE row.status = "RUNNING" /\ row.run = wrk[w].run
    <3>1. /\ row'.status \in {"COMPLETED", "FAILED"}
          /\ row'.beat = row.beat /\ row'.run = row.run
      BY <1>2, <2>1 DEF FinishRun, TypeOK, Row
    <3>2. /\ wrk'[w].pc = "load" /\ wrk'[w].run = wrk[w].run /\ OthersStay(w)
      BY <1>2, <2>1 DEF FinishRun, OthersStay, TypeOK, Process
    <3> QED BY <1>2, <2>1, <3>1, <3>2 DEF FinishRun, Ended
  <2>2. CASE ~(row.status = "RUNNING" /\ row.run = wrk[w].run)
    BY <1>2, <2>2, Resting DEF FinishRun, SameRun
  <2> QED BY <2>1, <2>2
<1>3. CASE LoadForEndMail(w)
  <2>1. SameRun /\ UNCHANGED <<attempt, claims, ended, mails>>
    BY <1>3 DEF LoadForEndMail, SameRun
  <2>2. CASE wrk' = [wrk EXCEPT ![w].pc = "mail"]
    <3>1. \A v \in Worker :
            \/ wrk'[v] = wrk[v]
            \/ wrk[v].pc = "load" /\ wrk'[v].pc = "mail" /\ wrk'[v].run = wrk[v].run
      BY <1>3, <2>2 DEF LoadForEndMail, TypeOK, Process
    <3> QED BY <2>1, <3>1 DEF Quiet
  <2> QED BY <1>3, <2>1, <2>2, Resting DEF LoadForEndMail
<1>4. CASE SendEndMail(w)
  <2>1. SameRun /\ UNCHANGED <<attempt, claims, ended>>
    BY <1>4 DEF SendEndMail, SameRun
  <2>2. CASE /\ mails' = Append(mails, claims[wrk[w].run])
             /\ wrk' = [wrk EXCEPT ![w].pc = "flag"]
    <3>1. wrk'[w].pc = "flag" /\ wrk'[w].run = wrk[w].run /\ OthersStay(w)
      BY <2>2 DEF OthersStay, TypeOK, Process
    <3> QED BY <1>4, <2>1, <2>2, <3>1 DEF SendEndMail, Mailed
  <2> QED BY <1>4, <2>1, <2>2, Resting DEF SendEndMail
<1>5. CASE MarkEndNotified(w)
  <2>1. SameRun
    BY <1>5 DEF MarkEndNotified, SameRun, TypeOK, Row
  <2> QED BY <1>5, <2>1, Resting DEF MarkEndNotified, historyVars
<1>6. CASE WorkerFailure(w)
  BY <1>6, Resting DEF WorkerFailure, TerminateWorker, WorkerDies, SameRun,
                       historyVars
<1> QED BY <1>1, <1>2, <1>3, <1>4, <1>5, <1>6 DEF TaskStep

\* Every step is of one of the kinds.
LEMMA StepKinds == TypeOK /\ [Next]_vars => Kind
<1> SUFFICES ASSUME TypeOK, [Next]_vars
             PROVE  Kind
  OBVIOUS
<1>1. CASE \E h \in Handler : UserStep(h) \/ WebStep(h) \/ WebCrash(h)
  BY <1>1, UserKinds, WebKinds DEF Kind
<1>2. CASE \E w \in Worker : Deliver(w) \/ TaskStep(w) \/ WorkerFailure(w)
  BY <1>2, TaskKinds DEF Kind
<1>3. CASE UpdateInput
  <2>1. SameRun
    BY <1>3 DEF UpdateInput, SameRun, TypeOK, Row
  <2> QED BY <1>3, <2>1, Unseen DEF UpdateInput, Kind, BrokerAndWorkers,
                                    historyVars
<1>4. CASE PodRestart
  <2>1. SameRun /\ UNCHANGED <<attempt, claims, ended, mails>>
    BY <1>4 DEF PodRestart, SameRun
  <2>2. \A v \in Worker : wrk'[v].pc = "idle"
    BY <1>4, IdleTypes DEF PodRestart
  <2> QED BY <2>1, <2>2 DEF Quiet, Kind
<1>5. CASE SweepLostRun
  BY <1>5 DEF SweepLostRun, Aborted, Kind, TypeOK, Row, BrokerAndWorkers,
              historyVars
<1>6. CASE UNCHANGED vars
  BY <1>6, Unseen DEF vars, historyVars, SameRun, Kind
<1> QED BY <1>1, <1>2, <1>3, <1>4, <1>5, <1>6 DEF Next

-----------------------------------------------------------------------------
(* The inductive invariant *)

\* No claim is of a later attempt than the current one, none is of the current
\* one while it is queued, and no two are of the same attempt.
ClaimsInOrder ==
    /\ \A i \in DOMAIN claims : claims[i] <= attempt
    /\ Queued => \A i \in DOMAIN claims : claims[i] # attempt
    /\ AttemptClaimedOnce

\* A RUNNING row names the run that claimed the current attempt, or no run.
RowNamesItsRun ==
    row.status = "RUNNING" =>
        \/ row.beat = "none" /\ row.run = NoRun
        \/ /\ row.beat = "set"
           /\ row.run \in DOMAIN claims
           /\ claims[row.run] = attempt

OneWorkerPerRun ==
    \A v, w \in Worker :
        wrk[v].pc # "idle" /\ wrk[w].pc # "idle" /\ wrk[v].run = wrk[w].run
            => v = w

\* A mail is of a claimed attempt, and leaves after the run's own end, and only
\* once.
MailsFollowTheirRun ==
    /\ \A i \in DOMAIN mails : \E j \in DOMAIN claims : mails[i] = claims[j]
    /\ \A w \in Worker :
        /\ wrk[w].pc \in {"load", "mail"} => claims[wrk[w].run] \in ended
        /\ wrk[w].pc \in {"compute", "load", "mail"} =>
              \A i \in DOMAIN mails : mails[i] # claims[wrk[w].run]

RunInv ==
    TypeOK /\ ClaimsInOrder /\ RowNamesItsRun /\ OneWorkerPerRun
           /\ MailsFollowTheirRun

\* What a claim appends.
LEMMA ClaimAppends ==
    ASSUME TypeOK, NEW w \in Worker, Claimed(w)
    PROVE  /\ DOMAIN claims = 1..Len(claims)
           /\ Len(claims) \in Nat
           /\ DOMAIN claims' = 1..(Len(claims) + 1)
           /\ \A i \in DOMAIN claims : claims'[i] = claims[i]
           /\ claims'[Len(claims) + 1] = attempt
BY DEF Claimed, TypeOK

\* The invariant holds at first.
LEMMA RunInvInit == Init => RunInv
<1> SUFFICES ASSUME Init
             PROVE  RunInv
  OBVIOUS
<1>1. TypeOK
  BY TypeInit
<1>2. DOMAIN claims = {} /\ DOMAIN mails = {}
  BY DEF Init
<1>3. \A w \in Worker : wrk[w].pc = "idle"
  BY IdleTypes DEF Init
<1>4. row.status = "PENDING"
  BY DEF Init
<1> QED BY <1>1, <1>2, <1>3, <1>4
        DEF RunInv, ClaimsInOrder, AttemptClaimedOnce, RowNamesItsRun,
            OneWorkerPerRun, MailsFollowTheirRun, Queued

\* Each part of the invariant is kept by every kind of step: the order of claims;
LEMMA ClaimsInOrderStep == RunInv /\ Kind => ClaimsInOrder'
<1> SUFFICES ASSUME RunInv, Kind
             PROVE  ClaimsInOrder'
  OBVIOUS
<1> USE DEF RunInv
<1>1. attempt \in Nat /\ \A i \in DOMAIN claims : claims[i] \in Nat
  BY DEF TypeOK
<1>2. CASE Opened
  BY <1>1, <1>2 DEF Opened, ClaimsInOrder, AttemptClaimedOnce
<1>3. ASSUME NEW w \in Worker, Claimed(w)
      PROVE  ClaimsInOrder'
  <2>1. ~Queued'
    BY <1>3 DEF Claimed, Queued
  <2>2. \A i \in DOMAIN claims : claims[i] <= attempt /\ claims[i] # attempt
    BY <1>3 DEF Claimed, ClaimsInOrder
  <2>3. \A i \in DOMAIN claims' : claims'[i] <= attempt
    BY <1>1, <1>3, <2>2, ClaimAppends
  <2>4. AttemptClaimedOnce'
    BY <1>3, <2>2, ClaimAppends DEF ClaimsInOrder, AttemptClaimedOnce
  <2> QED BY <1>3, <2>1, <2>3, <2>4 DEF Claimed, ClaimsInOrder
<1>4. CASE Aborted \/ WasReset
  BY <1>4 DEF Aborted, WasReset, ClaimsInOrder, AttemptClaimedOnce, Queued
<1>5. CASE Quiet \/ \E w \in Worker : Mailed(w)
  BY <1>5 DEF Quiet, Mailed, SameRun, ClaimsInOrder, AttemptClaimedOnce, Queued
<1>6. CASE \E w \in Worker : Ended(w)
  BY <1>6 DEF Ended, ClaimsInOrder, AttemptClaimedOnce, Queued
<1> QED BY <1>2, <1>3, <1>4, <1>5, <1>6 DEF Kind

\* the run that a RUNNING row names;
LEMMA RowNamesItsRunStep == RunInv /\ Kind => RowNamesItsRun'
<1> SUFFICES ASSUME RunInv, Kind
             PROVE  RowNamesItsRun'
  OBVIOUS
<1> USE DEF RunInv
<1>1. CASE Opened
  BY <1>1 DEF Opened, RowNamesItsRun
<1>2. ASSUME NEW w \in Worker, Claimed(w)
      PROVE  RowNamesItsRun'
  BY <1>2, ClaimAppends DEF Claimed, RowNamesItsRun
<1>3. CASE Aborted \/ WasReset \/ \E w \in Worker : Ended(w)
  BY <1>3 DEF Aborted, WasReset, Ended, RowNamesItsRun
<1>4. CASE Quiet \/ \E w \in Worker : Mailed(w)
  BY <1>4 DEF Quiet, Mailed, SameRun, RowNamesItsRun
<1> QED BY <1>1, <1>2, <1>3, <1>4 DEF Kind

\* the worker of a run;
LEMMA OneWorkerPerRunStep == RunInv /\ Kind => OneWorkerPerRun'
<1> SUFFICES ASSUME RunInv, Kind
             PROVE  OneWorkerPerRun'
  OBVIOUS
<1> USE DEF RunInv
<1>1. ASSUME NEW w \in Worker, Claimed(w)
      PROVE  OneWorkerPerRun'
  <2>1. \A v \in Worker : wrk[v].pc # "idle" => wrk[v].run # Len(claims) + 1
    BY <1>1, ClaimAppends DEF TypeOK
  <2> QED BY <1>1, <2>1 DEF Claimed, OthersStay, OneWorkerPerRun
<1>2. CASE Opened \/ Aborted \/ WasReset
  BY <1>2 DEF Opened, Aborted, WasReset, OneWorkerPerRun
<1>3. ASSUME NEW w \in Worker, Ended(w) \/ Mailed(w)
      PROVE  OneWorkerPerRun'
  BY <1>3 DEF Ended, Mailed, OthersStay, OneWorkerPerRun
<1>4. CASE Quiet
  BY <1>4 DEF Quiet, OneWorkerPerRun
<1> QED BY <1>1, <1>2, <1>3, <1>4 DEF Kind

\* and the mails.
LEMMA MailsFollowTheirRunStep == RunInv /\ Kind => MailsFollowTheirRun'
<1> SUFFICES ASSUME RunInv, Kind
             PROVE  MailsFollowTheirRun'
  OBVIOUS
<1> USE DEF RunInv
<1>1. ASSUME NEW w \in Worker, Claimed(w)
      PROVE  MailsFollowTheirRun'
  <2>1. \A v \in Worker : wrk[v].pc # "idle" => claims'[wrk[v].run] = claims[wrk[v].run]
    BY <1>1, ClaimAppends DEF TypeOK
  <2>2. \A i \in DOMAIN mails : mails[i] # attempt
    BY <1>1 DEF Claimed, ClaimsInOrder, MailsFollowTheirRun
  <2>3. \A i \in DOMAIN mails' : \E j \in DOMAIN claims' : mails'[i] = claims'[j]
    BY <1>1, ClaimAppends DEF Claimed, MailsFollowTheirRun
  <2>4. ASSUME NEW v \in Worker
        PROVE  /\ wrk'[v].pc \in {"load", "mail"} => claims'[wrk'[v].run] \in ended'
               /\ wrk'[v].pc \in {"compute", "load", "mail"} =>
                     \A i \in DOMAIN mails' : mails'[i] # claims'[wrk'[v].run]
    <3>1. CASE v = w
      BY <1>1, <2>2, <3>1, ClaimAppends DEF Claimed
    <3>2. CASE v # w
      <4>1. wrk'[v] = wrk[v] /\ mails' = mails /\ ended' = ended
        BY <1>1, <3>2 DEF Claimed, OthersStay
      <4> QED BY <2>1, <4>1 DEF MailsFollowTheirRun
    <3> QED BY <3>1, <3>2
  <2> QED BY <2>3, <2>4 DEF MailsFollowTheirRun
<1>2. ASSUME NEW w \in Worker, Ended(w)
      PROVE  MailsFollowTheirRun'
  BY <1>2 DEF Ended, OthersStay, MailsFollowTheirRun
<1>3. ASSUME NEW w \in Worker, Mailed(w)
      PROVE  MailsFollowTheirRun'
  <2>1. /\ DOMAIN mails' = 1..(Len(mails) + 1) /\ DOMAIN mails = 1..Len(mails)
        /\ Len(mails) \in Nat
        /\ \A i \in DOMAIN mails : mails'[i] = mails[i]
        /\ mails'[Len(mails) + 1] = claims[wrk[w].run]
    BY <1>3 DEF Mailed, TypeOK
  <2>2. wrk[w].run \in DOMAIN claims
    BY <1>3 DEF Mailed, TypeOK
  <2>3. \A i \in DOMAIN mails' : \E j \in DOMAIN claims' : mails'[i] = claims'[j]
    BY <1>3, <2>1, <2>2 DEF Mailed, MailsFollowTheirRun
  <2>4. ASSUME NEW v \in Worker
        PROVE  /\ wrk'[v].pc \in {"load", "mail"} => claims'[wrk'[v].run] \in ended'
               /\ wrk'[v].pc \in {"compute", "load", "mail"} =>
                     \A i \in DOMAIN mails' : mails'[i] # claims'[wrk'[v].run]
    <3>1. CASE v = w
      BY <1>3, <3>1 DEF Mailed
    <3>2. CASE v # w /\ wrk[v].pc # "idle"
      <4>1. wrk'[v] = wrk[v] /\ claims' = claims /\ ended' = ended
        BY <1>3, <3>2 DEF Mailed, OthersStay
      <4>2. wrk[v].run # wrk[w].run
        BY <1>3, <3>2 DEF Mailed, OneWorkerPerRun
      <4>3. wrk[v].run \in DOMAIN claims
        BY <3>2 DEF TypeOK
      <4>4. claims[wrk[v].run] # claims[wrk[w].run]
        BY <2>2, <4>2, <4>3 DEF ClaimsInOrder, AttemptClaimedOnce
      <4> QED BY <2>1, <4>1, <4>4 DEF MailsFollowTheirRun
    <3>3. CASE v # w /\ wrk[v].pc = "idle"
      BY <1>3, <3>3 DEF Mailed, OthersStay
    <3> QED BY <3>1, <3>2, <3>3
  <2> QED BY <2>3, <2>4 DEF MailsFollowTheirRun
<1>4. CASE Opened \/ Aborted \/ WasReset
  BY <1>4 DEF Opened, Aborted, WasReset, MailsFollowTheirRun
<1>5. CASE Quiet
  BY <1>5 DEF Quiet, MailsFollowTheirRun
<1> QED BY <1>1, <1>2, <1>3, <1>4, <1>5 DEF Kind

\* The invariant holds in every reachable state.
LEMMA RunInvHolds == Spec => []RunInv
<1>1. RunInv /\ [Next]_vars => RunInv'
  BY TypeStep, StepKinds, ClaimsInOrderStep, RowNamesItsRunStep,
     OneWorkerPerRunStep, MailsFollowTheirRunStep DEF RunInv
<1> QED BY <1>1, RunInvInit, PTL DEF Spec

\* No attempt is ever computed by two runs, whatever is redelivered, revoked,
\* reset or restarted: the claim of job_run.run is exclusive.
THEOREM ClaimIsExclusive == Spec => []AttemptClaimedOnce
<1>1. RunInv => AttemptClaimedOnce
  BY DEF RunInv, ClaimsInOrder
<1> QED BY <1>1, RunInvHolds, PTL

-----------------------------------------------------------------------------
(* Step simulation *)

\* Every kind of step is a step of JobRun, or leaves its variables alone.
LEMMA KindsAreJobRunSteps ==
    RunInv /\ RunInv' /\ Kind =>
        JobRunSpec!Next \/ UNCHANGED <<row.status, attempt, row.beat = "set",
                                       ended, mails>>
<1> SUFFICES ASSUME RunInv, Kind
             PROVE  JobRunSpec!Next \/ UNCHANGED <<row.status, attempt,
                                       row.beat = "set", ended, mails>>
  OBVIOUS
<1> USE DEF JobRunSpec!Next
<1>1. CASE Opened
  <2>1. JobRunSpec!Open
    BY <1>1 DEF Opened, JobRunSpec!Open
  <2> QED BY <2>1
<1>2. ASSUME NEW w \in Worker, Claimed(w)
      PROVE  JobRunSpec!Claim
  BY <1>2 DEF Claimed, Queued, JobRunSpec!Claim
<1>3. ASSUME NEW w \in Worker, Ended(w)
      PROVE  JobRunSpec!End
  <2>1. wrk[w].run \in DOMAIN claims /\ DOMAIN claims = 1..Len(claims)
    BY <1>3 DEF Ended, RunInv, TypeOK
  <2>2. row.beat = "set" /\ claims[row.run] = attempt
    BY <1>3, <2>1 DEF Ended, RunInv, RowNamesItsRun, NoRun
  <2> QED BY <1>3, <2>2 DEF Ended, JobRunSpec!End
<1>4. CASE Aborted
  <2>1. JobRunSpec!Abort
    BY <1>4 DEF Aborted, JobRunSpec!Abort
  <2> QED BY <2>1
<1>5. CASE WasReset
  <2>1. JobRunSpec!Reset
    BY <1>5 DEF WasReset, JobRunSpec!Reset
  <2> QED BY <2>1
<1>6. ASSUME NEW w \in Worker, Mailed(w)
      PROVE  JobRunSpec!Mail
  <2>1. /\ claims[wrk[w].run] \in ended
        /\ \A i \in DOMAIN mails : mails[i] # claims[wrk[w].run]
    BY <1>6 DEF Mailed, RunInv, MailsFollowTheirRun
  <2> QED BY <1>6, <2>1 DEF Mailed, SameRun, JobRunSpec!Mail
<1>7. CASE Quiet
  BY <1>7 DEF Quiet, SameRun
<1> QED BY <1>1, <1>2, <1>3, <1>4, <1>5, <1>6, <1>7 DEF Kind

\* The job row keeps the promise JobRun states: attempts open, are claimed
\* once, end and are mailed in that order.
THEOREM RowKeepsItsPromise == Spec => ImplementsJobRun
<1>1. Init => JobRunSpec!Init
  BY DEF Init, JobRunSpec!Init
<1>2. RunInv /\ RunInv' /\ [Next]_vars => [JobRunSpec!Next]_(JobRunSpec!vars)
  BY StepKinds, KindsAreJobRunSteps DEF RunInv, JobRunSpec!vars
<1> QED BY <1>1, <1>2, RunInvHolds, PTL DEF Spec, ImplementsJobRun, JobRunSpec!Spec

-----------------------------------------------------------------------------
(***************************************************************************)
(* No queued run is orphaned.  The hard case is the message a worker       *)
(* discards because it was revoked: the cancel that revoked it must still  *)
(* be on its way to the row.  It is, because a task id is sent for one     *)
(* attempt only (AttemptsBehind) and never reused once anything knows it   *)
(* (TasksWereSent).                                                        *)
(***************************************************************************)

Starting == {"unnotify", "save", "enqueue", "fail"}

\* No request and no message is of an attempt that was not opened yet.
AttemptsBehind ==
    /\ \A h \in Handler :
        /\ web[h].attempt <= attempt
        /\ web[h].pc \in Starting => web[h].attempt # 0
    /\ \A t \in Task : sentFor[t] <= attempt

\* Every task id that anything holds was sent for some attempt.
TasksWereSent ==
    /\ \A t \in revoked \cup queue : sentFor[t] # 0
    /\ row.task # NoTask => sentFor[row.task] # 0
    /\ \A h \in Handler : web[h].task # NoTask => sentFor[web[h].task] # 0
    /\ \A w \in Worker : wrk[w].pc # "idle" => sentFor[wrk[w].task] # 0

\* A revoked message of a queued run leaves a cancel about to end the row.
CancelFollowsRevoke ==
    \A t \in revoked :
        sentFor[t] = attempt /\ Queued => \E h \in Handler : web[h].pc = "cancel"

BackInv ==
    TypeOK /\ AttemptsBehind /\ TasksWereSent /\ CancelFollowsRevoke
           /\ QueuedRunIsBacked

\* A request that waits for a click holds nothing.
LEMMA IdleRequestIsEmpty == IdleRequest.task = NoTask /\ IdleRequest.attempt = 0
BY DEF IdleRequest

\* The invariant holds at first.
LEMMA BackInvInit == Init => BackInv
<1> SUFFICES ASSUME Init
             PROVE  BackInv
  OBVIOUS
<1>1. TypeOK
  BY TypeInit
<1>2. row.status = "PENDING" /\ row.task = NoTask /\ attempt = 0
  BY DEF Init
<1>3. \A h \in Handler : web[h].pc = "idle" /\ web[h].task = NoTask /\ web[h].attempt = 0
  BY IdleTypes, IdleRequestIsEmpty DEF Init
<1>4. \A w \in Worker : wrk[w].pc = "idle"
  BY IdleTypes DEF Init
<1>5. queue = {} /\ revoked = {} /\ \A t \in Task : sentFor[t] = 0
  BY DEF Init
<1> QED BY <1>1, <1>2, <1>3, <1>4, <1>5
        DEF BackInv, AttemptsBehind, TasksWereSent, CancelFollowsRevoke,
            QueuedRunIsBacked, Queued, Starting

-----------------------------------------------------------------------------
(* The requests *)

\* A click loads the row into an idle request.
LEMMA ClickStep ==
    ASSUME BackInv, NEW h \in Handler, UserStep(h)
    PROVE  /\ AttemptsBehind' /\ TasksWereSent' /\ CancelFollowsRevoke'
           /\ QueuedRunIsBacked'
<1>1. /\ web[h].pc = "idle"
      /\ \E pc \in {"guard", "pend", "revoke"}, next \in {"stop", "submit"} :
            Load(h, pc, next)
      /\ UNCHANGED <<row, BrokerAndWorkers, attempt>>
  BY DEF UserStep, StartComputation, RestartComputation, ResetJob,
         CancelComputation, Click, historyVars
<1>2. /\ web'[h].pc \in {"guard", "pend", "revoke"}
      /\ web'[h].task = row.task /\ web'[h].attempt = 0
      /\ \A g \in Handler : g # h => web'[g] = web[g]
  BY <1>1 DEF Load, BackInv, TypeOK
<1>3. AttemptsBehind'
  <2>1. attempt' = attempt /\ sentFor' = sentFor /\ 0 <= attempt
    BY <1>1 DEF BrokerAndWorkers, BackInv, TypeOK
  <2>2. ASSUME NEW g \in Handler
        PROVE  /\ web'[g].attempt <= attempt
               /\ web'[g].pc \in Starting => web'[g].attempt # 0
    BY <1>2, <2>1 DEF AttemptsBehind, Starting, BackInv
  <2> QED BY <2>1, <2>2 DEF AttemptsBehind, BackInv
<1>4. TasksWereSent'
  BY <1>1, <1>2 DEF BrokerAndWorkers, TasksWereSent, BackInv
<1>5. CancelFollowsRevoke'
  BY <1>1, <1>2 DEF BrokerAndWorkers, CancelFollowsRevoke, Queued, BackInv
<1>6. QueuedRunIsBacked'
  BY <1>1, <1>2 DEF BrokerAndWorkers, QueuedRunIsBacked, OnTheWay, Queued, BackInv
<1> QED BY <1>3, <1>4, <1>5, <1>6

\* A request that returns, or goes on to submit after a reset, drops its task id.
LEMMA ReturnStep ==
    ASSUME BackInv, NEW h \in Handler, NEW p \in {"idle", "guard"},
           web'[h].pc = p, web'[h].task = NoTask,
           web'[h].attempt \in {0, web[h].attempt},
           \A g \in Handler : g # h => web'[g] = web[g],
           web[h].pc \in Starting \cup {"cancel"} => ~Queued',
           Queued' => Queued,
           row'.task \in {row.task, NoTask, web[h].task},
           UNCHANGED <<attempt, BrokerAndWorkers>>
    PROVE  /\ AttemptsBehind' /\ TasksWereSent' /\ CancelFollowsRevoke'
           /\ QueuedRunIsBacked'
<1> USE DEF BrokerAndWorkers
<1>1. AttemptsBehind'
  BY DEF AttemptsBehind, Starting, BackInv, TypeOK
<1>2. TasksWereSent'
  BY DEF TasksWereSent, BackInv
<1>3. CancelFollowsRevoke'
  BY DEF CancelFollowsRevoke, BackInv
<1>4. QueuedRunIsBacked'
  BY DEF QueuedRunIsBacked, OnTheWay, Starting, BackInv
<1> QED BY <1>1, <1>2, <1>3, <1>4

\* A request that goes on to its next write.
GoesTo(h, pc) ==
    /\ web'[h].pc = pc
    /\ web'[h].task = web[h].task /\ web'[h].attempt = web[h].attempt
    /\ \A g \in Handler : g # h => web'[g] = web[g]

\* Moving a request changes that request only.
LEMMA GotoGoes ==
    ASSUME BackInv, NEW h \in Handler, NEW p \in WebPc, Goto(h, p)
    PROVE  GoesTo(h, p)
BY DEF Goto, GoesTo, BackInv, TypeOK, Request

\* A request that moves on without touching the broker keeps the invariant.
LEMMA ProceedStep ==
    ASSUME BackInv, NEW h \in Handler, NEW p \in WebPc,
           GoesTo(h, p),
           p \in Starting <=> web[h].pc \in Starting,
           web[h].pc # "cancel",
           Queued' => Queued,
           row'.task \in {row.task, web[h].task},
           UNCHANGED <<attempt, BrokerAndWorkers>>
    PROVE  /\ AttemptsBehind' /\ TasksWereSent' /\ CancelFollowsRevoke'
           /\ QueuedRunIsBacked'
<1> USE DEF BrokerAndWorkers, GoesTo
<1>1. AttemptsBehind'
  BY DEF AttemptsBehind, BackInv
<1>2. TasksWereSent'
  BY DEF TasksWereSent, BackInv
<1>3. CancelFollowsRevoke'
  BY DEF CancelFollowsRevoke, BackInv
<1>4. QueuedRunIsBacked'
  BY DEF QueuedRunIsBacked, OnTheWay, Starting, BackInv
<1> QED BY <1>1, <1>2, <1>3, <1>4

\* submit's guard: the request that wins it is on its way with the new attempt.
LEMMA GuardStep ==
    ASSUME BackInv, NEW h \in Handler, MarkQueued(h)
    PROVE  /\ AttemptsBehind' /\ TasksWereSent' /\ CancelFollowsRevoke'
           /\ QueuedRunIsBacked'
<1>1. CASE row.status \in {"PENDING", "FAILED"}
  <2>1. /\ attempt' = attempt + 1 /\ UNCHANGED BrokerAndWorkers
        /\ web' = [web EXCEPT ![h].pc = "unnotify", ![h].attempt = attempt + 1]
        /\ row' = [row EXCEPT !.status = "RUNNING", !.beat = "none", !.run = NoRun]
    BY <1>1 DEF MarkQueued
  <2>2. /\ web'[h].pc = "unnotify" /\ web'[h].task = web[h].task
        /\ web'[h].attempt = attempt + 1
        /\ \A g \in Handler : g # h => web'[g] = web[g]
    BY <2>1 DEF BackInv, TypeOK, Request
  <2>3. row'.task = row.task
    BY <2>1 DEF BackInv, TypeOK, Row
  <2>4. /\ attempt \in Nat
        /\ \A g \in Handler : web[g].attempt \in Nat
        /\ \A t \in Task : sentFor[t] \in Nat
    BY DEF BackInv, TypeOK, Request
  <2>5. AttemptsBehind'
    <3>1. ASSUME NEW g \in Handler
          PROVE  web'[g].attempt <= attempt'
      <4>1. web[g].attempt <= attempt /\ attempt' = attempt + 1
        BY <2>1 DEF AttemptsBehind, BackInv
      <4>2. web'[g].attempt = attempt + 1 \/ web'[g].attempt = web[g].attempt
        BY <2>2
      <4> QED BY <2>4, <4>1, <4>2
    <3>2. \A g \in Handler : web'[g].pc \in Starting => web'[g].attempt # 0
      BY <2>2, <2>4 DEF AttemptsBehind, BackInv
    <3>3. \A t \in Task : sentFor'[t] <= attempt'
      BY <2>1, <2>4 DEF BrokerAndWorkers, AttemptsBehind, BackInv
    <3> QED BY <3>1, <3>2, <3>3 DEF AttemptsBehind
  <2>6. TasksWereSent'
    BY <2>1, <2>2, <2>3 DEF BrokerAndWorkers, TasksWereSent, BackInv
  <2>7. CancelFollowsRevoke'
    <3>1. \A t \in Task : sentFor[t] # attempt + 1
      BY <2>4 DEF AttemptsBehind, BackInv
    <3>2. revoked' \subseteq Task /\ sentFor' = sentFor
      BY <2>1 DEF BrokerAndWorkers, BackInv, TypeOK
    <3> QED BY <2>1, <3>1, <3>2 DEF CancelFollowsRevoke
  <2>8. QueuedRunIsBacked'
    BY <2>1, <2>2 DEF QueuedRunIsBacked, OnTheWay
  <2> QED BY <2>5, <2>6, <2>7, <2>8
<1>2. CASE row.status \notin {"PENDING", "FAILED"}
  <2>1. /\ web[h].pc = "guard" /\ Done(h)
        /\ UNCHANGED <<row, attempt, BrokerAndWorkers>>
    BY <1>2 DEF MarkQueued
  <2>2. /\ web'[h].pc = "idle" /\ web'[h].task = NoTask /\ web'[h].attempt = 0
        /\ \A g \in Handler : g # h => web'[g] = web[g]
    BY <2>1, IdleTypes, IdleRequestIsEmpty DEF Done, BackInv, TypeOK
  <2> QED BY <2>1, <2>2, ReturnStep DEF Starting, Queued
<1> QED BY <1>1, <1>2

\* The message of the new attempt replaces the request that sends it.
LEMMA EnqueueStep ==
    ASSUME BackInv, NEW h \in Handler, Enqueue(h)
    PROVE  /\ AttemptsBehind' /\ TasksWereSent' /\ CancelFollowsRevoke'
           /\ QueuedRunIsBacked'
<1>1. PICK t \in Task :
        /\ sentFor[t] = 0
        /\ queue' = queue \cup {t}
        /\ sentFor' = [sentFor EXCEPT ![t] = web[h].attempt]
        /\ web' = [web EXCEPT ![h].pc = "storeId", ![h].task = t]
  BY DEF Enqueue
<1>2. web[h].pc = "enqueue" /\ UNCHANGED <<row, revoked, wrk, attempt>>
  BY DEF Enqueue, historyVars
<1>3. /\ web'[h].pc = "storeId" /\ web'[h].task = t
      /\ web'[h].attempt = web[h].attempt
      /\ \A g \in Handler : g # h => web'[g] = web[g]
  BY <1>1 DEF BackInv, TypeOK, Request
<1>4. /\ sentFor'[t] = web[h].attempt
      /\ \A u \in Task : u # t => sentFor'[u] = sentFor[u]
  BY <1>1 DEF BackInv, TypeOK
<1>5. web[h].attempt # 0 /\ web[h].attempt <= attempt
  BY <1>2 DEF AttemptsBehind, Starting, BackInv
<1>6. AttemptsBehind'
  BY <1>2, <1>3, <1>4, <1>5 DEF AttemptsBehind, Starting, BackInv
<1>7. /\ queue \cup revoked \subseteq Task
      /\ row.task # NoTask => row.task \in Task
      /\ \A g \in Handler : web[g].task # NoTask => web[g].task \in Task
      /\ \A w \in Worker : wrk[w].pc # "idle" => wrk[w].task \in Task
  BY DEF BackInv, TypeOK, Row, Request
<1>8. TasksWereSent'
  <2>1. \A u \in Task : sentFor[u] # 0 => sentFor'[u] # 0
    BY <1>1, <1>4
  <2>2. \A u \in revoked' \cup queue' : sentFor'[u] # 0
    BY <1>1, <1>2, <1>4, <1>5, <1>7, <2>1 DEF TasksWereSent, BackInv
  <2>3. row'.task # NoTask => sentFor'[row'.task] # 0
    BY <1>2, <1>7, <2>1 DEF TasksWereSent, BackInv
  <2>4. \A g \in Handler : web'[g].task # NoTask => sentFor'[web'[g].task] # 0
    BY <1>3, <1>4, <1>5, <1>7, <2>1 DEF TasksWereSent, BackInv
  <2>5. \A w \in Worker : wrk'[w].pc # "idle" => sentFor'[wrk'[w].task] # 0
    BY <1>2, <1>7, <2>1 DEF TasksWereSent, BackInv
  <2> QED BY <2>2, <2>3, <2>4, <2>5 DEF TasksWereSent
<1>9. t \notin revoked
  BY <1>1 DEF TasksWereSent, BackInv
<1>10. CancelFollowsRevoke'
  BY <1>2, <1>3, <1>4, <1>7, <1>9 DEF CancelFollowsRevoke, Queued, BackInv
<1>11. QueuedRunIsBacked'
  <2>1. CASE OnTheWay(h)
    BY <1>1, <1>2, <1>4, <2>1 DEF QueuedRunIsBacked, OnTheWay
  <2>2. CASE ~OnTheWay(h)
    BY <1>1, <1>2, <1>3, <1>4, <1>7, <2>2
       DEF QueuedRunIsBacked, OnTheWay, Queued, TasksWereSent, BackInv
  <2> QED BY <2>1, <2>2
<1> QED BY <1>6, <1>8, <1>10, <1>11

\* A revoke is followed by the end of the run it revokes.
LEMMA RevokeStep ==
    ASSUME BackInv, NEW h \in Handler, RevokeTask(h)
    PROVE  /\ AttemptsBehind' /\ TasksWereSent' /\ CancelFollowsRevoke'
           /\ QueuedRunIsBacked'
<1>1. /\ web[h].pc = "revoke" /\ web' = [web EXCEPT ![h].pc = "cancel"]
      /\ UNCHANGED <<row, queue, sentFor, wrk, attempt>>
      /\ \A t \in revoked' : t \in revoked \/ (t = web[h].task /\ t # NoTask)
  BY DEF RevokeTask, Goto, historyVars
<1>2. /\ web'[h].pc = "cancel" /\ web'[h].task = web[h].task
      /\ web'[h].attempt = web[h].attempt
      /\ \A g \in Handler : g # h => web'[g] = web[g]
  BY <1>1 DEF BackInv, TypeOK, Request
<1>3. AttemptsBehind'
  BY <1>1, <1>2 DEF AttemptsBehind, Starting, BackInv
<1>4. TasksWereSent'
  BY <1>1, <1>2 DEF TasksWereSent, BackInv
<1>5. CancelFollowsRevoke' /\ QueuedRunIsBacked'
  BY <1>2 DEF CancelFollowsRevoke, QueuedRunIsBacked
<1> QED BY <1>3, <1>4, <1>5

\* The steps of a request.
LEMMA RequestStep ==
    ASSUME BackInv, NEW h \in Handler, WebStep(h)
    PROVE  /\ AttemptsBehind' /\ TasksWereSent' /\ CancelFollowsRevoke'
           /\ QueuedRunIsBacked'
<1> USE DEF historyVars
<1>1. CASE ClearNotifiedEnd(h) \/ SaveRow(h) \/ StartFails(h)
  <2>1. PICK p \in Starting : Goto(h, p)
    BY <1>1 DEF ClearNotifiedEnd, SaveRow, StartFails, Starting
  <2>2. web[h].pc \in Starting /\ UNCHANGED <<attempt, BrokerAndWorkers>>
    BY <1>1 DEF ClearNotifiedEnd, SaveRow, StartFails, Starting
  <2>3. (Queued' <=> Queued) /\ row'.task \in {row.task, web[h].task}
    BY <1>1 DEF ClearNotifiedEnd, SaveRow, StartFails, Queued, BackInv, TypeOK, Row
  <2>4. p \in WebPc /\ (p \in Starting <=> web[h].pc \in Starting)
        /\ web[h].pc # "cancel"
    BY <2>2 DEF Starting, WebPc
  <2>5. GoesTo(h, p)
    BY <2>1, <2>4, GotoGoes
  <2> QED BY <2>2, <2>3, <2>4, <2>5, ProceedStep
<1>2. CASE StoreTaskId(h)
  <2>1. (Queued' <=> Queued) /\ row'.task = web[h].task
    BY <1>2 DEF StoreTaskId, Queued, BackInv, TypeOK, Row
  <2>2. /\ web'[h].pc = "idle" /\ web'[h].task = NoTask /\ web'[h].attempt = 0
        /\ \A g \in Handler : g # h => web'[g] = web[g]
    BY <1>2, IdleTypes, IdleRequestIsEmpty DEF StoreTaskId, Done, BackInv, TypeOK
  <2> QED BY <1>2, <2>1, <2>2, ReturnStep DEF StoreTaskId, Starting
<1>3. CASE FailToStart(h) \/ MarkCancelled(h)
  <2>1. ~Queued' /\ row'.task = row.task
    BY <1>3 DEF FailToStart, MarkCancelled, Queued, BackInv, TypeOK, Row
  <2>2. /\ web'[h].pc = "idle" /\ web'[h].task = NoTask /\ web'[h].attempt = 0
        /\ \A g \in Handler : g # h => web'[g] = web[g]
    BY <1>3, IdleTypes, IdleRequestIsEmpty
       DEF FailToStart, MarkCancelled, Done, BackInv, TypeOK
  <2>3. UNCHANGED <<attempt, BrokerAndWorkers>>
    BY <1>3 DEF FailToStart, MarkCancelled
  <2> QED BY <2>1, <2>2, <2>3, ReturnStep
<1>4. CASE MarkPending(h)
  <2>1. CASE row.status # "RUNNING"
    <3>1. ~Queued' /\ row'.task = row.task
      BY <1>4, <2>1 DEF MarkPending, Queued, BackInv, TypeOK, Row
    <3>2. /\ web[h].pc = "pend" /\ Goto(h, "forget")
          /\ UNCHANGED <<attempt, BrokerAndWorkers>>
      BY <1>4, <2>1 DEF MarkPending
    <3>3. "forget" \in WebPc /\ "forget" \notin Starting
          /\ web[h].pc \notin Starting
      BY <3>2 DEF Starting, WebPc
    <3>4. GoesTo(h, "forget")
      BY <3>2, <3>3, GotoGoes
    <3> QED BY <3>1, <3>2, <3>3, <3>4, ProceedStep
  <2>2. CASE row.status = "RUNNING"
    <3>1. /\ web'[h].pc = "idle" /\ web'[h].task = NoTask /\ web'[h].attempt = 0
          /\ \A g \in Handler : g # h => web'[g] = web[g]
      BY <1>4, <2>2, IdleTypes, IdleRequestIsEmpty
         DEF MarkPending, Done, BackInv, TypeOK
    <3>2. web[h].pc = "pend" /\ UNCHANGED <<row, attempt, BrokerAndWorkers>>
      BY <1>4, <2>2 DEF MarkPending
    <3> QED BY <3>1, <3>2, ReturnStep DEF Starting, Queued
  <2> QED BY <2>1, <2>2
<1>5. CASE ForgetTask(h)
  <2>1. (Queued' <=> Queued) /\ row'.task = NoTask
    BY <1>5 DEF ForgetTask, Queued, BackInv, TypeOK, Row
  <2>2. web[h].pc = "forget" /\ UNCHANGED <<attempt, BrokerAndWorkers>>
    BY <1>5 DEF ForgetTask
  <2>3. CASE web' = [web EXCEPT ![h].pc = "guard", ![h].task = NoTask]
    <3>1. /\ web'[h].pc = "guard" /\ web'[h].task = NoTask
          /\ web'[h].attempt = web[h].attempt
          /\ \A g \in Handler : g # h => web'[g] = web[g]
      BY <2>3 DEF BackInv, TypeOK, Request
    <3> QED BY <2>1, <2>2, <3>1, ReturnStep DEF Starting
  <2>4. CASE Done(h)
    <3>1. /\ web'[h].pc = "idle" /\ web'[h].task = NoTask /\ web'[h].attempt = 0
          /\ \A g \in Handler : g # h => web'[g] = web[g]
      BY <2>4, IdleTypes, IdleRequestIsEmpty DEF Done, BackInv, TypeOK
    <3> QED BY <2>1, <2>2, <3>1, ReturnStep DEF Starting
  <2> QED BY <1>5, <2>3, <2>4 DEF ForgetTask
<1> QED BY <1>1, <1>2, <1>3, <1>4, <1>5, GuardStep, EnqueueStep, RevokeStep
        DEF WebStep

-----------------------------------------------------------------------------
(* The worker pod *)

\* A delivery of the current attempt's message claims the row, unless the
\* message was revoked: then the cancel is still on its way.
LEMMA DeliverStep ==
    ASSUME BackInv, NEW w \in Worker, Deliver(w)
    PROVE  /\ AttemptsBehind' /\ TasksWereSent' /\ CancelFollowsRevoke'
           /\ QueuedRunIsBacked'
<1>1. UNCHANGED <<web, revoked, sentFor, attempt>>
  BY DEF Deliver
<1>2. PICK t \in queue :
        /\ queue' = queue \ {t}
        /\ \/ t \notin revoked /\ ClaimBy(w, t)
           \/ (t \in revoked \/ ~Queued) /\ UNCHANGED <<row, claims, wrk>>
  BY DEF Deliver, ClaimBy
<1>3. AttemptsBehind'
  BY <1>1 DEF AttemptsBehind, BackInv
<1>4. CASE ClaimBy(w, t)
  <2>1. ~Queued' /\ row'.task = row.task
    BY <1>4 DEF ClaimBy, Queued, BackInv, TypeOK, Row
  <2>2. /\ wrk'[w].task = t
        /\ \A v \in Worker : v # w => wrk'[v] = wrk[v]
    BY <1>4 DEF ClaimBy, BackInv, TypeOK
  <2>3. TasksWereSent'
    BY <1>1, <1>2, <2>1, <2>2 DEF TasksWereSent, BackInv
  <2> QED BY <1>3, <2>1, <2>3 DEF CancelFollowsRevoke, QueuedRunIsBacked
<1>5. CASE (t \in revoked \/ ~Queued) /\ UNCHANGED <<row, claims, wrk>>
  <2>1. TasksWereSent' /\ CancelFollowsRevoke'
    BY <1>1, <1>2, <1>5 DEF TasksWereSent, CancelFollowsRevoke, Queued, BackInv
  <2>2. QueuedRunIsBacked'
    <3>1. CASE t \in revoked /\ sentFor[t] = attempt
      BY <1>1, <1>5, <3>1
         DEF QueuedRunIsBacked, CancelFollowsRevoke, Queued, BackInv
    <3>2. CASE ~(t \in revoked /\ sentFor[t] = attempt)
      BY <1>1, <1>2, <1>5, <3>2
         DEF QueuedRunIsBacked, OnTheWay, Queued, BackInv
    <3> QED BY <3>1, <3>2
  <2> QED BY <1>3, <2>1, <2>2
<1> QED BY <1>2, <1>3, <1>4, <1>5

\* Steps that leave the requests and the broker alone and queue no run.
LEMMA AsideStep ==
    ASSUME BackInv, UNCHANGED <<web, queue, revoked, sentFor, attempt>>,
           Queued' => Queued, row'.task = row.task,
           \A v \in Worker : wrk'[v].pc # "idle" =>
                wrk[v].pc # "idle" /\ wrk'[v].task = wrk[v].task
    PROVE  /\ AttemptsBehind' /\ TasksWereSent' /\ CancelFollowsRevoke'
           /\ QueuedRunIsBacked'
<1>1. AttemptsBehind' /\ TasksWereSent' /\ CancelFollowsRevoke'
  BY DEF AttemptsBehind, TasksWereSent, CancelFollowsRevoke, BackInv
<1>2. QueuedRunIsBacked'
  BY DEF QueuedRunIsBacked, OnTheWay, BackInv
<1> QED BY <1>1, <1>2

\* The steps of a worker, deliveries included.
LEMMA WorkerStep ==
    ASSUME BackInv, NEW w \in Worker, TaskStep(w) \/ WorkerFailure(w)
    PROVE  /\ AttemptsBehind' /\ TasksWereSent' /\ CancelFollowsRevoke'
           /\ QueuedRunIsBacked'
<1> USE DEF TaskStep, WorkerFailure, FinishRun, LoadForEndMail, SendEndMail,
            MarkEndNotified, TerminateWorker, WorkerDies, historyVars
<1>1. UNCHANGED <<web, queue, revoked, sentFor, attempt>>
  OBVIOUS
<1>2. (Queued' => Queued) /\ row'.task = row.task
  <2>1. CASE FinishRun(w)
    BY <2>1 DEF Queued, BackInv, TypeOK, Row
  <2>2. CASE MarkEndNotified(w)
    BY <2>2 DEF Queued, BackInv, TypeOK, Row
  <2>3. CASE LoadForEndMail(w) \/ SendEndMail(w) \/ WorkerFailure(w)
    BY <2>3 DEF Queued
  <2> QED BY <2>1, <2>2, <2>3
<1>3. wrk[w].pc # "idle"
  OBVIOUS
<1>4. Rest(w) \/ \E p \in WorkerPc : wrk' = [wrk EXCEPT ![w].pc = p]
  BY DEF WorkerPc
<1>5. \A v \in Worker : wrk'[v].pc # "idle" =>
        wrk[v].pc # "idle" /\ wrk'[v].task = wrk[v].task
  <2>1. CASE Rest(w)
    BY <2>1, IdleTypes DEF Rest, BackInv, TypeOK
  <2>2. ASSUME NEW p \in WorkerPc, wrk' = [wrk EXCEPT ![w].pc = p]
        PROVE  \A v \in Worker : wrk'[v].pc # "idle" =>
                  wrk[v].pc # "idle" /\ wrk'[v].task = wrk[v].task
    BY <1>3, <2>2 DEF BackInv, TypeOK, Process
  <2> QED BY <1>4, <2>1, <2>2
<1> HIDE DEF TaskStep, WorkerFailure, FinishRun, LoadForEndMail, SendEndMail,
            MarkEndNotified, TerminateWorker, WorkerDies, historyVars
<1> QED BY <1>1, <1>2, <1>5, AsideStep

\* The messages a restarted pod gets again are of tasks that were sent.
LEMMA RestartStep ==
    ASSUME BackInv, PodRestart
    PROVE  /\ AttemptsBehind' /\ TasksWereSent' /\ CancelFollowsRevoke'
           /\ QueuedRunIsBacked'
<1>1. UNCHANGED <<row, web, sentFor, attempt>> /\ revoked' = {}
  BY DEF PodRestart
<1>2. queue \subseteq queue'
      /\ \A t \in queue' : t \in queue \/ \E w \in Worker : wrk[w].pc # "idle" /\ t = wrk[w].task
  BY DEF PodRestart
<1>3. \A w \in Worker : wrk'[w].pc = "idle"
  BY IdleTypes DEF PodRestart
<1>4. AttemptsBehind' /\ CancelFollowsRevoke'
  BY <1>1 DEF AttemptsBehind, CancelFollowsRevoke, BackInv
<1>5. TasksWereSent'
  BY <1>1, <1>2, <1>3 DEF TasksWereSent, BackInv
<1>6. QueuedRunIsBacked'
  BY <1>1, <1>2 DEF QueuedRunIsBacked, OnTheWay, Queued, BackInv
<1> QED BY <1>4, <1>5, <1>6

-----------------------------------------------------------------------------
\* Every step keeps the invariant.
LEMMA BackInvStep ==
    ASSUME ~WebMayCrash
    PROVE  BackInv /\ [Next]_vars => BackInv'
<1> SUFFICES ASSUME BackInv, [Next]_vars
             PROVE  BackInv'
  OBVIOUS
<1>1. TypeOK'
  BY TypeStep DEF BackInv
<1>2. /\ AttemptsBehind' /\ TasksWereSent' /\ CancelFollowsRevoke'
      /\ QueuedRunIsBacked'
  <2>1. CASE \E h \in Handler : UserStep(h) \/ WebStep(h) \/ WebCrash(h)
    BY <2>1, ClickStep, RequestStep DEF WebCrash
  <2>2. CASE \E w \in Worker : Deliver(w) \/ TaskStep(w) \/ WorkerFailure(w)
    BY <2>2, DeliverStep, WorkerStep
  <2>3. CASE UpdateInput
    <3>1. (Queued' => Queued) /\ row'.task = row.task
      BY <2>3 DEF UpdateInput, Queued, BackInv, TypeOK, Row
    <3> QED BY <2>3, <3>1, AsideStep DEF UpdateInput, BrokerAndWorkers, historyVars
  <2>4. CASE PodRestart
    BY <2>4, RestartStep
  <2>5. CASE SweepLostRun
    <3>1. ~Queued' /\ row'.task = row.task
      BY <2>5 DEF SweepLostRun, Queued, BackInv, TypeOK, Row
    <3> QED BY <2>5, <3>1, AsideStep DEF SweepLostRun, BrokerAndWorkers, historyVars
  <2>6. CASE UNCHANGED vars
    BY <2>6, AsideStep DEF vars, historyVars, Queued
  <2> QED BY <2>1, <2>2, <2>3, <2>4, <2>5, <2>6 DEF Next
<1> QED BY <1>1, <1>2 DEF BackInv

\* Without killed requests, a queued run always has the request that queued it,
\* its message, or a cancel about to end it (submit and _fail_to_start).
THEOREM QueuedRunsAreBacked ==
    ASSUME ~WebMayCrash
    PROVE  Spec => []QueuedRunIsBacked
<1>1. BackInv => QueuedRunIsBacked
  BY DEF BackInv
<1>2. BackInv /\ [Next]_vars => BackInv'
  BY BackInvStep
<1> QED BY <1>1, <1>2, BackInvInit, PTL DEF Spec
=============================================================================
