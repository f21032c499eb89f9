---------------------------- MODULE RunLifecycle ----------------------------
(***************************************************************************)
(* The runs of one job: the row's run-owned columns, the requests of       *)
(* several browser tabs (Start, Cancel, Restart, Reset, an input edit),    *)
(* the broker with the routing messages, the worker processes and the      *)
(* sweep of lost runs.  Every request and every task is cut where the code *)
(* leaves the database: another actor may run between two of its writes.   *)
(*                                                                         *)
(* The conditional updates mark_queued, mark_cancelled, mark_pending,      *)
(* mark_start_failed, the claim and final write of run and the sweep are   *)
(* cosmo_ecosystem's; they are modelled from what src/ says of them.       *)
(***************************************************************************)
EXTENDS Naturals, Sequences, FiniteSets

CONSTANTS
    Handler,      \* web requests that can be in flight at the same time
    Worker,       \* worker processes of the one worker pod
    Task,         \* Celery task ids
    NoTask,       \* celery_task_id = None
    WebMayCrash,  \* whether a web request can be killed half way
    MaxClicks,    \* bound: Start and Restart clicks
    MaxEdits,     \* bound: accepted input edits
    MaxRestarts   \* bound: restarts of the worker pod

ASSUME RunAssumption ==
    /\ NoTask \notin Task
    /\ WebMayCrash \in BOOLEAN
    /\ MaxClicks \in Nat /\ MaxEdits \in Nat /\ MaxRestarts \in Nat

VARIABLES
    row,       \* the job's row
    web,       \* the requests: where they are, and the job they loaded
    queue,     \* routing messages no worker took yet
    revoked,   \* task ids the worker pod was told to drop or kill
    sentFor,   \* task id -> the attempt it was enqueued for, 0 if unused
    wrk,       \* the worker processes
    \* History of the runs, read by the properties and by bounds only.
    attempt,   \* number of won submits
    claims,    \* run id -> the attempt it claimed; run ids are 1..Len(claims)
    ended,     \* attempts whose own run wrote the final status
    mails,     \* attempts an end mail was sent for, in order
    silenced,  \* attempts whose run found the mail already flagged as sent
    clicks, restarts

historyVars == <<attempt, claims, ended, mails, silenced, clicks, restarts>>
vars == <<row, web, queue, revoked, sentFor, wrk, historyVars>>

Status == {"PENDING", "RUNNING", "COMPLETED", "FAILED"}

\* No run id: the row of an attempt nobody claimed.
NoRun == 0

WebPc == {"idle", "guard", "unnotify", "save", "enqueue", "fail", "storeId",
          "revoke", "cancel", "pend", "forget"}
WorkerPc == {"idle", "compute", "load", "mail", "flag"}

Row == [status : Status, beat : {"none", "set"}, run : Nat,
        notified : {"no", "yes"}, task : Task \cup {NoTask}, input : Nat]
Request == [pc : WebPc, task : Task \cup {NoTask}, input : Nat,
            attempt : Nat, next : {"stop", "submit"}]
Process == [pc : WorkerPc, task : Task \cup {NoTask}, run : Nat]

IdleRequest == [pc |-> "idle", task |-> NoTask, input |-> 0, attempt |-> 0,
                next |-> "stop"]
IdleProcess == [pc |-> "idle", task |-> NoTask, run |-> NoRun]

\* A queued run: RUNNING, and no worker has given it a heartbeat yet.
Queued == row.status = "RUNNING" /\ row.beat = "none"

TypeOK ==
    /\ row \in Row
    /\ web \in [Handler -> Request]
    /\ queue \subseteq Task
    /\ revoked \subseteq Task
    /\ sentFor \in [Task -> Nat]
    /\ wrk \in [Worker -> Process]
    /\ attempt \in Nat
    /\ claims \in Seq(Nat)
    /\ \A w \in Worker : wrk[w].pc # "idle" => /\ wrk[w].task \in Task
                                              /\ wrk[w].run \in DOMAIN claims
    /\ ended \subseteq Nat
    /\ mails \in Seq(Nat)
    /\ silenced \subseteq Nat
    /\ clicks \in Nat
    /\ restarts \in Nat

\* A new job's row: PENDING, never submitted.
Init ==
    /\ row = [status |-> "PENDING", beat |-> "none", run |-> NoRun,
              notified |-> "no", task |-> NoTask, input |-> 0]
    /\ web = [h \in Handler |-> IdleRequest]
    /\ queue = {}
    /\ revoked = {}
    /\ sentFor = [t \in Task |-> 0]
    /\ wrk = [w \in Worker |-> IdleProcess]
    /\ attempt = 0
    /\ claims = <<>>
    /\ ended = {}
    /\ mails = <<>>
    /\ silenced = {}
    /\ clicks = 0
    /\ restarts = 0

-----------------------------------------------------------------------------
(* The web requests *)

Goto(h, pc) == web' = [web EXCEPT ![h].pc = pc]
Done(h) == web' = [web EXCEPT ![h] = IdleRequest]

\* CosmonautJob(job_id): the request keeps the row as it is now.
Load(h, pc, next) ==
    web' = [web EXCEPT ![h] = [pc |-> pc, task |-> row.task,
                               input |-> row.input, attempt |-> 0,
                               next |-> next]]

BrokerAndWorkers == <<queue, revoked, sentFor, wrk>>

Click ==
    /\ clicks < MaxClicks
    /\ clicks' = clicks + 1
    /\ UNCHANGED <<row, BrokerAndWorkers, attempt, claims, ended, mails,
                   silenced, restarts>>

\* Start: a tab that sees a job to be started goes on to submit it.
StartComputation(h) ==
    /\ web[h].pc = "idle"
    /\ row.status \in {"PENDING", "FAILED"}
    /\ Load(h, "guard", "stop")
    /\ Click

\* Restart: refused while the row is RUNNING, else a reset, then a submit.
RestartComputation(h) ==
    /\ web[h].pc = "idle"
    /\ row.status # "RUNNING"
    /\ Load(h, "pend", "submit")
    /\ Click

\* The navbar's reset looks at no status; mark_pending decides.
ResetJob(h) ==
    /\ web[h].pc = "idle"
    /\ Load(h, "pend", "stop")
    /\ UNCHANGED <<row, BrokerAndWorkers, historyVars>>

CancelComputation(h) ==
    /\ web[h].pc = "idle"
    /\ row.status = "RUNNING"
    /\ Load(h, "revoke", "stop")
    /\ UNCHANGED <<row, BrokerAndWorkers, historyVars>>

\* An input write of any page: accepted only while the row is PENDING.
UpdateInput ==
    /\ row.status = "PENDING"
    /\ row.input < MaxEdits
    /\ row' = [row EXCEPT !.input = @ + 1]
    /\ UNCHANGED <<web, BrokerAndWorkers, historyVars>>

\* submit, its guard: PENDING or FAILED becomes a queued run.
MarkQueued(h) ==
    /\ web[h].pc = "guard"
    /\ \/ /\ row.status \in {"PENDING", "FAILED"}
          /\ row' = [row EXCEPT !.status = "RUNNING", !.beat = "none",
                                !.run = NoRun]
          /\ attempt' = attempt + 1
          /\ web' = [web EXCEPT ![h].pc = "unnotify",
                                ![h].attempt = attempt + 1]
       \/ /\ row.status \notin {"PENDING", "FAILED"}
          /\ Done(h)
          /\ UNCHANGED <<row, attempt>>
    /\ UNCHANGED <<BrokerAndWorkers, claims, ended, mails, silenced, clicks,
                   restarts>>

\* submit: the new run owes its own end mail.
ClearNotifiedEnd(h) ==
    /\ web[h].pc = "unnotify"
    /\ row' = [row EXCEPT !.notified = "no"]
    /\ Goto(h, "save")
    /\ UNCHANGED <<BrokerAndWorkers, historyVars>>

\* submit: save() writes every column that is not run-owned, from the job the
\* request loaded before the guard.
SaveRow(h) ==
    /\ web[h].pc = "save"
    /\ row' = [row EXCEPT !.input = web[h].input, !.task = web[h].task,
                          !.notified = "no"]
    /\ Goto(h, "enqueue")
    /\ UNCHANGED <<BrokerAndWorkers, historyVars>>

Enqueue(h) ==
    /\ web[h].pc = "enqueue"
    /\ \E t \in Task :
        /\ sentFor[t] = 0
        /\ queue' = queue \cup {t}
        /\ sentFor' = [sentFor EXCEPT ![t] = web[h].attempt]
        /\ web' = [web EXCEPT ![h].pc = "storeId", ![h].task = t]
    /\ UNCHANGED <<row, revoked, wrk, historyVars>>

StoreTaskId(h) ==
    /\ web[h].pc = "storeId"
    /\ row' = [row EXCEPT !.task = web[h].task]
    /\ Done(h)
    /\ UNCHANGED <<BrokerAndWorkers, historyVars>>

\* The pull, a write or the enqueue raises, or the enqueue reports a failure.
StartFails(h) ==
    /\ web[h].pc \in {"unnotify", "save", "enqueue"}
    /\ Goto(h, "fail")
    /\ UNCHANGED <<row, BrokerAndWorkers, historyVars>>

\* Mutant: the failure path forgets the row it queued.
FailToStartSilently(h) ==
    /\ web[h].pc = "fail"
    /\ Done(h)
    /\ UNCHANGED <<row, BrokerAndWorkers, historyVars>>

\* _fail_to_start: mark_start_failed ends the row while it is a queued run.
FailToStart(h) ==
    /\ web[h].pc = "fail"
    /\ row' = IF Queued THEN [row EXCEPT !.status = "FAILED"] ELSE row
    /\ Done(h)
    /\ UNCHANGED <<BrokerAndWorkers, historyVars>>

\* Mutant: cancel revokes whatever the task id column holds, None included.
RevokeAnyTask(h) ==
    /\ web[h].pc = "revoke"
    /\ revoked' = revoked \cup {web[h].task}
    /\ Goto(h, "cancel")
    /\ UNCHANGED <<row, queue, sentFor, wrk, historyVars>>

\* cancel: the task id of the loaded job is revoked first, if it has one.
RevokeTask(h) ==
    /\ web[h].pc = "revoke"
    /\ revoked' = IF web[h].task = NoTask THEN revoked
                  ELSE revoked \cup {web[h].task}
    /\ Goto(h, "cancel")
    /\ UNCHANGED <<row, queue, sentFor, wrk, historyVars>>

MarkCancelled(h) ==
    /\ web[h].pc = "cancel"
    /\ row' = IF row.status = "RUNNING" THEN [row EXCEPT !.status = "FAILED"]
              ELSE row
    /\ Done(h)
    /\ UNCHANGED <<BrokerAndWorkers, historyVars>>

\* reset: PENDING without a heartbeat in one write, unless the row is RUNNING.
MarkPending(h) ==
    /\ web[h].pc = "pend"
    /\ \/ /\ row.status # "RUNNING"
          /\ row' = [row EXCEPT !.status = "PENDING", !.beat = "none"]
          /\ Goto(h, "forget")
       \/ /\ row.status = "RUNNING"
          /\ Done(h)
          /\ UNCHANGED row
    /\ UNCHANGED <<BrokerAndWorkers, historyVars>>

\* reset: after the output files and the job log, the task id is cleared, by an
\* unconditional column write; a restart then submits the same job object.
ForgetTask(h) ==
    /\ web[h].pc = "forget"
    /\ row' = [row EXCEPT !.task = NoTask]
    /\ \/ /\ web[h].next = "submit"
          /\ web' = [web EXCEPT ![h].pc = "guard", ![h].task = NoTask]
       \/ /\ web[h].next = "stop"
          /\ Done(h)
    /\ UNCHANGED <<BrokerAndWorkers, historyVars>>

\* The web server kills a request that runs too long, or its pod goes away.
WebCrash(h) ==
    /\ WebMayCrash
    /\ web[h].pc # "idle"
    /\ Done(h)
    /\ UNCHANGED <<row, BrokerAndWorkers, historyVars>>

-----------------------------------------------------------------------------
(* The worker pod *)

Rest(w) == wrk' = [wrk EXCEPT ![w] = IdleProcess]

\* Mutant: a claim that looks at the status only, not at the heartbeat.
DeliverToAnyRunningRow(w) ==
    /\ wrk[w].pc = "idle"
    /\ \E t \in queue :
        /\ queue' = queue \ {t}
        /\ \/ /\ t \notin revoked
              /\ row.status = "RUNNING"
              /\ row' = [row EXCEPT !.beat = "set", !.run = Len(claims) + 1]
              /\ claims' = Append(claims, attempt)
              /\ wrk' = [wrk EXCEPT ![w] = [pc |-> "compute", task |-> t,
                                            run |-> Len(claims) + 1]]
           \/ /\ t \in revoked \/ row.status # "RUNNING"
              /\ UNCHANGED <<row, claims, wrk>>
    /\ UNCHANGED <<web, revoked, sentFor, attempt, ended, mails, silenced,
                   clicks, restarts>>

\* A worker takes a message.  A revoked one is discarded; run claims a queued
\* row and drops every other delivery.
Deliver(w) ==
    /\ wrk[w].pc = "idle"
    /\ \E t \in queue :
        /\ queue' = queue \ {t}
        /\ \/ /\ t \notin revoked
              /\ Queued
              /\ row' = [row EXCEPT !.beat = "set", !.run = Len(claims) + 1]
              /\ claims' = Append(claims, attempt)
              /\ wrk' = [wrk EXCEPT ![w] = [pc |-> "compute", task |-> t,
                                            run |-> Len(claims) + 1]]
           \/ /\ t \in revoked \/ ~Queued
              /\ UNCHANGED <<row, claims, wrk>>
    /\ UNCHANGED <<web, revoked, sentFor, attempt, ended, mails, silenced,
                   clicks, restarts>>

\* Mutant: the final write looks at the status only, not at the run id.
FinishAnyRun(w) ==
    /\ wrk[w].pc = "compute"
    /\ \/ /\ row.status = "RUNNING"
          /\ \E outcome \in {"COMPLETED", "FAILED"} :
                row' = [row EXCEPT !.status = outcome]
          /\ ended' = ended \cup {claims[wrk[w].run]}
          /\ wrk' = [wrk EXCEPT ![w].pc = "load"]
       \/ /\ row.status # "RUNNING"
          /\ Rest(w)
          /\ UNCHANGED <<row, ended>>
    /\ UNCHANGED <<web, queue, revoked, sentFor, attempt, claims, mails,
                   silenced, clicks, restarts>>

\* run, at the end of the computation: the final status is written only over
\* the run's own RUNNING row; an overtaken run writes nothing.
FinishRun(w) ==
    /\ wrk[w].pc = "compute"
    /\ \/ /\ row.status = "RUNNING"
          /\ row.run = wrk[w].run
          /\ \E outcome \in {"COMPLETED", "FAILED"} :
                row' = [row EXCEPT !.status = outcome]
          /\ ended' = ended \cup {claims[wrk[w].run]}
          /\ wrk' = [wrk EXCEPT ![w].pc = "load"]
       \/ /\ ~(row.status = "RUNNING" /\ row.run = wrk[w].run)
          /\ Rest(w)
          /\ UNCHANGED <<row, ended>>
    /\ UNCHANGED <<web, queue, revoked, sentFor, attempt, claims, mails,
                   silenced, clicks, restarts>>

\* The job is loaded again; a row that says notified gets no mail.
LoadForEndMail(w) ==
    /\ wrk[w].pc = "load"
    /\ \/ /\ row.notified = "yes"
          /\ silenced' = silenced \cup {claims[wrk[w].run]}
          /\ Rest(w)
       \/ /\ row.notified = "no"
          /\ wrk' = [wrk EXCEPT ![w].pc = "mail"]
          /\ UNCHANGED silenced
    /\ UNCHANGED <<row, web, queue, revoked, sentFor, attempt, claims, ended,
                   mails, clicks, restarts>>

\* send_mail never raises; a mail that was not sent stays due.
SendEndMail(w) ==
    /\ wrk[w].pc = "mail"
    /\ \/ /\ mails' = Append(mails, claims[wrk[w].run])
          /\ wrk' = [wrk EXCEPT ![w].pc = "flag"]
       \/ /\ Rest(w)
          /\ UNCHANGED mails
    /\ UNCHANGED <<row, web, queue, revoked, sentFor, attempt, claims, ended,
                   silenced, clicks, restarts>>

MarkEndNotified(w) ==
    /\ wrk[w].pc = "flag"
    /\ row' = IF row.status \in {"COMPLETED", "FAILED"}
              THEN [row EXCEPT !.notified = "yes"] ELSE row
    /\ Rest(w)
    /\ UNCHANGED <<web, queue, revoked, sentFor, historyVars>>

\* revoke(terminate=True) reaches the process that runs the task.
TerminateWorker(w) ==
    /\ wrk[w].pc # "idle"
    /\ wrk[w].task \in revoked
    /\ Rest(w)
    /\ UNCHANGED <<row, web, queue, revoked, sentFor, historyVars>>

\* A process is killed hard (out of memory); its message is gone.
WorkerDies(w) ==
    /\ wrk[w].pc # "idle"
    /\ Rest(w)
    /\ UNCHANGED <<row, web, queue, revoked, sentFor, historyVars>>

\* The one worker pod restarts: every process dies, the broker delivers the
\* messages they held again or not, and the revoked ids are forgotten.
PodRestart ==
    /\ restarts < MaxRestarts
    /\ restarts' = restarts + 1
    /\ wrk' = [w \in Worker |-> IdleProcess]
    /\ revoked' = {}
    /\ \E again \in SUBSET {wrk[w].task : w \in {v \in Worker : wrk[v].pc # "idle"}} :
            queue' = queue \cup again
    /\ UNCHANGED <<row, web, sentFor, attempt, claims, ended, mails, silenced,
                   clicks>>

\* Mutant: the sweep skips a run whose task id the row does not hold.
SweepKnownTask ==
    /\ row.status = "RUNNING"
    /\ row.beat = "set"
    /\ row.task # NoTask
    /\ row' = [row EXCEPT !.status = "FAILED"]
    /\ UNCHANGED <<web, BrokerAndWorkers, historyVars>>

\* sweep_lost_runs: a RUNNING row whose heartbeat went stale.  The heartbeat of
\* a dead worker does; that of a live but suspended one may.
SweepLostRun ==
    /\ row.status = "RUNNING"
    /\ row.beat = "set"
    /\ row' = [row EXCEPT !.status = "FAILED"]
    /\ UNCHANGED <<web, BrokerAndWorkers, historyVars>>

-----------------------------------------------------------------------------
UserStep(h) ==
    \/ StartComputation(h) \/ RestartComputation(h) \/ ResetJob(h)
    \/ CancelComputation(h)

\* What a request does by itself once it was clicked.
WebStep(h) ==
    \/ MarkQueued(h) \/ ClearNotifiedEnd(h) \/ SaveRow(h) \/ Enqueue(h)
    \/ StoreTaskId(h) \/ StartFails(h) \/ FailToStart(h)
    \/ RevokeTask(h) \/ MarkCancelled(h) \/ MarkPending(h) \/ ForgetTask(h)

TaskStep(w) ==
    \/ FinishRun(w) \/ LoadForEndMail(w) \/ SendEndMail(w) \/ MarkEndNotified(w)

WorkerFailure(w) == TerminateWorker(w) \/ WorkerDies(w)

Next ==
    \/ \E h \in Handler : UserStep(h) \/ WebStep(h) \/ WebCrash(h)
    \/ UpdateInput
    \/ \E w \in Worker : Deliver(w) \/ TaskStep(w) \/ WorkerFailure(w)
    \/ PodRestart
    \/ SweepLostRun

Spec == Init /\ [][Next]_vars

\* No worker is left that computes the run the row names.
OwnerIsGone ==
    \A w \in Worker : ~(wrk[w].pc = "compute" /\ wrk[w].run = row.run)

\* Fair: a request's own steps (the request is served until it returns), a
\* worker's own steps (there is no time limit, and a computation returns),
\* taking messages, and the sweep of a run no worker computes any more.  Users,
\* failures and the sweep of a live run owe nothing.
Fairness ==
    /\ \A h \in Handler : WF_vars(WebStep(h))
    /\ \A w \in Worker : WF_vars(TaskStep(w)) /\ WF_vars(Deliver(w))
    /\ WF_vars(OwnerIsGone /\ SweepLostRun)

FairSpec == Spec /\ Fairness
-----------------------------------------------------------------------------
(* Properties *)

\* One claim at most per won submit, over redelivered messages, messages of
\* cancelled attempts and worker restarts: no attempt is computed by two runs
\* that both believe to own the row (the claim of job_run.run).
AttemptClaimedOnce ==
    \A i, j \in DOMAIN claims : claims[i] = claims[j] => i = j

\* A queued run always has someone who will move it: the request that queued
\* it is still on its way, its message waits in the broker, or a cancel that
\* revoked the message is about to end the row (the comment in submit: nothing
\* recovers a queued run no message will ever claim).
OnTheWay(h) ==
    /\ web[h].pc \in {"unnotify", "save", "enqueue", "fail"}
    /\ web[h].attempt = attempt

QueuedRunIsBacked ==
    Queued => \/ \E h \in Handler : OnTheWay(h)
              \/ \E t \in queue : sentFor[t] = attempt
              \/ \E h \in Handler : web[h].pc = "cancel"

\* Every run ends: a row never stays RUNNING, whatever workers die, whatever
\* messages are dropped, as long as requests are not killed half way.
RunEnds == row.status = "RUNNING" ~> row.status # "RUNNING"

\* The promise of the row, and the mapping that shows it is kept.
JobRunSpec == INSTANCE JobRun WITH
    status <- row.status, attempt <- attempt, claimed <- row.beat = "set",
    ended <- ended, mailed <- mails

ImplementsJobRun == JobRunSpec!Spec

-----------------------------------------------------------------------------
(* What the sources say and the code does not keep: each is violated;     *)
(* RunLifecycleStaleInput.cfg shows the last, README.md how to run others. *)

\* routing_tasks.py says the flag is set only while the row still holds this
\* run's end, so a resubmitted run still sends its mail: no run ever finds the
\* flag set before its own mail went out.
NoRunIsSilenced == silenced = {}

\* _fail_to_start says a row cancelled meanwhile is left alone: a request whose
\* start failed ends the attempt it queued, no other.
FailedStartEndsItsOwnAttempt ==
    [][\A h \in Handler :
        web[h].pc = "fail" /\ web'[h].pc = "idle" /\ row'.status # row.status
            => web[h].attempt = attempt]_vars

\* update_input says a page that loaded the job earlier cannot change the input
\* of a job that started: the input of a RUNNING job does not change.
RunningInputIsFrozen ==
    [][row.status = "RUNNING" => row'.input = row.input]_vars
=============================================================================
