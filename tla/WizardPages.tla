----------------------------- MODULE WizardPages -----------------------------
(***************************************************************************)
(* The wizard's pages as several browser tabs of one job show them, and    *)
(* the two things of the job's row they follow: its status and its stage,  *)
(* the furthest step reached.                                              *)
(*                                                                         *)
(* A tab shows what its page rendered from the row as it was loaded.  Only *)
(* the route computation page looks again: it polls while it shows a run,  *)
(* and once more when a click of its own asks it to.  Every click is a     *)
(* request that loads the row, checks the copy, and writes later, when     *)
(* other tabs and the run may have changed the row.                        *)
(***************************************************************************)
EXTENDS Naturals

CONSTANTS
    Tab,         \* open browser tabs of the job
    FirstStage,  \* stages the job may be at when the tabs are opened
    MaxClicks    \* bound: clicks and page openings of all tabs

ASSUME WizardAssumption == FirstStage \subseteq 0..4 /\ MaxClicks \in Nat

VARIABLES
    job,    \* status and stage of the job's row
    tab,    \* tab -> what it shows
    req,    \* tab -> its request in flight: a click or a page being opened
    upd,    \* tab -> its status update in flight (update_status)
    clicks  \* clicks so far (bound)

vars == <<job, tab, req, upd, clicks>>

Status == {"PENDING", "RUNNING", "COMPLETED", "FAILED"}
Page == {"user_info", "data_upload", "street_selection", "routing_params",
         "route_computation", "route_download"}
Later(a, b) == IF a > b THEN a ELSE b
Sooner(a, b) == IF a < b THEN a ELSE b

Row == [status : Status, stage : 0..5]

\* seen: the row as the request loaded it.
Request == [do : {"none", "goto", "open", "email", "params", "raise", "start",
                  "submit", "save", "cancel", "restart", "restage", "reset", "unstage"},
            page : Page, seen : Row]
NoRow == [status |-> "PENDING", stage |-> 0]
NoRequest == [do |-> "none", page |-> "user_info", seen |-> NoRow]

-----------------------------------------------------------------------------
(* What a page renders *)

\* The steps the stepper ticks and links.
CompletedSteps(row) ==
    {p \in {"user_info", "data_upload", "street_selection", "routing_params"} :
        row.stage >= [user_info |-> 1, data_upload |-> 2,
                      street_selection |-> 3, routing_params |-> 4][p]}
    \cup (IF row.status = "COMPLETED" THEN {"route_computation"} ELSE {})

\* The stage a page raises the job to when it is opened.
StageOf(page, status) ==
    CASE page = "street_selection" -> 2
      [] page = "routing_params" -> 3
      [] page = "route_computation" -> 4
      [] page = "route_download" /\ status = "COMPLETED" -> 5
      [] OTHER -> 0

StageToPage == <<"data_upload", "street_selection", "routing_params",
                 "route_computation">>

\* Mutant: the page of the stage, which rows at stage 5 do not have.
ResumePageOfStage(row) ==
    CASE row.status = "COMPLETED" -> "route_download"
      [] row.status \in {"RUNNING", "FAILED"} -> "route_computation"
      [] row.status = "PENDING" /\ row.stage = 0 -> "user_info"
      [] row.status = "PENDING" /\ row.stage \in DOMAIN StageToPage ->
            StageToPage[row.stage]
      [] OTHER -> "none"

\* resolve_reload_url: where the job table's link takes the user.
ResumePage(row) ==
    CASE row.status = "COMPLETED" -> "route_download"
      [] row.status \in {"RUNNING", "FAILED"} -> "route_computation"
      [] row.status = "PENDING" /\ row.stage = 0 -> "user_info"
      [] OTHER -> StageToPage[Sooner(row.stage, 4)]

PollOn(status) == IF status = "RUNNING" THEN "on" ELSE "off"

\* The route computation page and the pages before and after it.
RunPage(row) ==
    [page |-> "route_computation", status |-> row.status,
     steps |-> CompletedSteps(row), poll |-> PollOn(row.status)]
FormPage(page, row) ==
    [page |-> page, status |-> row.status,
     steps |-> CompletedSteps(row), poll |-> "off"]

Rendered(page, row) ==
    IF page = "route_computation" THEN RunPage(row) ELSE FormPage(page, row)

Closed == [page |-> "closed", status |-> "PENDING", steps |-> {}, poll |-> "off"]

\* The pages with the banner that offers a reset, unless they show PENDING.
ResetOffered(t) ==
    /\ tab[t].page \in {"user_info", "data_upload", "street_selection", "routing_params"}
    /\ tab[t].status # "PENDING"

\* The one of Start, Cancel and Restart that is visible.
ButtonOffered(t, button) ==
    /\ tab[t].page = "route_computation"
    /\ tab[t].status \in CASE button = "start" -> {"PENDING"}
                           [] button = "cancel" -> {"RUNNING"}
                           [] button = "restart" -> {"COMPLETED", "FAILED"}

TypeOK ==
    /\ job \in Row
    /\ tab \in [Tab -> [page : Page \cup {"closed"}, status : Status,
                        steps : SUBSET Page, poll : {"on", "off"}]]
    /\ req \in [Tab -> Request]
    /\ upd \in [Tab -> {"none", "asked"} \cup Status]
    /\ clicks \in 0..MaxClicks

Init ==
    /\ job \in [status : {"PENDING"}, stage : FirstStage]
    /\ tab = [t \in Tab |-> Closed]
    /\ req = [t \in Tab |-> NoRequest]
    /\ upd = [t \in Tab |-> "none"]
    /\ clicks = 0

-----------------------------------------------------------------------------
(* Clicks: the request starts and loads the row *)

Click(t, do, page) ==
    /\ req[t].do = "none"
    /\ clicks < MaxClicks
    /\ clicks' = clicks + 1
    /\ req' = [req EXCEPT ![t] = [do |-> do, page |-> page, seen |-> job]]
    /\ UNCHANGED <<job, tab, upd>>

\* A link of the page or of the job table, Back, or a bookmark.
Open(t) == \E p \in Page : Click(t, "goto", p)

\* The email may be any valid one, so Next is a click away.
NextOfUserInfo(t) ==
    tab[t].page = "user_info" /\ Click(t, "email", "data_upload")
NextOfParams(t) ==
    tab[t].page = "routing_params" /\ Click(t, "params", "route_computation")
Start(t) == ButtonOffered(t, "start") /\ Click(t, "start", "route_computation")
Cancel(t) == ButtonOffered(t, "cancel") /\ Click(t, "cancel", "route_computation")
Restart(t) == ButtonOffered(t, "restart") /\ Click(t, "restart", "route_computation")

\* The banner's button and the dialog that asks again.
Reset(t) == ResetOffered(t) /\ Click(t, "reset", tab[t].page)

-----------------------------------------------------------------------------
(* The requests *)

Does(t, do) == req[t].do = do
Continue(t, do) == req' = [req EXCEPT ![t].do = do]
Answer(t) == req' = [req EXCEPT ![t] = NoRequest]
Shown == <<tab, upd>>

\* Mutant: the stage is written as the page has it.
SetStage(stage) == job' = [job EXCEPT !.stage = IF stage = 0 THEN @ ELSE stage]

\* DbManager.raise_stage: one GREATEST, never lower.
RaiseStage(stage) == job' = [job EXCEPT !.stage = Later(@, stage)]

LoadPage(t) ==
    /\ Does(t, "goto")
    /\ req' = [req EXCEPT ![t].do = "open", ![t].seen = job]
    /\ UNCHANGED <<job, Shown, clicks>>

\* The layouts: the stage goes up in the row, the page shows the copy.  A route
\* computation page asks for an update as soon as it is there.
RenderPage(t) ==
    LET seen == req[t].seen
        raised == StageOf(req[t].page, seen.status)
    IN /\ Does(t, "open")
       /\ RaiseStage(raised)
       /\ tab' = [tab EXCEPT ![t] = Rendered(req[t].page,
                                        [seen EXCEPT !.stage = Later(@, raised)])]
       /\ upd' = [upd EXCEPT ![t] =
                    IF req[t].page = "route_computation" THEN "asked" ELSE "none"]
       /\ Answer(t)
       /\ UNCHANGED clicks

\* go_to_upload_page: the row takes the email while it is PENDING; else
\* JobNotPending and the page stays.
StoreEmail(t) ==
    /\ Does(t, "email")
    /\ IF job.status = "PENDING" THEN Continue(t, "raise") ELSE Answer(t)
    /\ UNCHANGED <<job, Shown, clicks>>

\* update_routing_params: a page of a started job only moves on.
StoreParams(t) ==
    /\ Does(t, "params")
    /\ CASE req[t].seen.status # "PENDING" -> Continue(t, "goto")
         [] req[t].seen.status = "PENDING" /\ job.status = "PENDING" -> Continue(t, "raise")
         [] OTHER -> Answer(t)
    /\ UNCHANGED <<job, Shown, clicks>>

\* What Next has reached, once the row has taken the input: whatever another
\* tab has done to the job since.
RaiseReached(t) ==
    /\ Does(t, "raise")
    /\ RaiseStage(IF req[t].page = "data_upload" THEN 1 ELSE 3)
    /\ Continue(t, "goto")
    /\ UNCHANGED <<Shown, clicks>>

\* start_computation: a job seen running or completed is left alone, and the
\* tab as it is.
CheckStart(t) ==
    /\ Does(t, "start")
    /\ IF req[t].seen.status \in {"PENDING", "FAILED"}
       THEN Continue(t, "submit") ELSE Answer(t)
    /\ UNCHANGED <<job, Shown, clicks>>

\* The answer of a submit: the poll goes on and an update is asked for.
AnswerSubmit(t) ==
    /\ tab' = [tab EXCEPT ![t].poll = "on"]
    /\ upd' = [upd EXCEPT ![t] = "asked"]
    /\ Answer(t)

\* submit, mark_queued; a guard lost is answered all the same.
Submit(t) ==
    /\ Does(t, "submit")
    /\ \/ /\ job.status \in {"PENDING", "FAILED"}
          /\ job' = [job EXCEPT !.status = "RUNNING"]
          /\ Continue(t, "save")
          /\ UNCHANGED Shown
       \/ /\ job.status \notin {"PENDING", "FAILED"}
          /\ AnswerSubmit(t)
          /\ UNCHANGED job
    /\ UNCHANGED clicks

\* submit, the rest: the job as loaded is saved, its stage at least 4.  What
\* raises ends a run that is still queued, and gives the tab no answer; an
\* enqueue that reports its failure gives one.
SaveSubmitted(t) ==
    LET saved == [job EXCEPT !.stage = Later(req[t].seen.stage, 4)]
        Failed(row) == IF row.status = "RUNNING"
                       THEN {row, [row EXCEPT !.status = "FAILED"]} ELSE {row}
    IN /\ Does(t, "save")
       /\ \/ /\ job' \in {saved} \cup Failed(saved)
             /\ AnswerSubmit(t)
          \/ /\ job' \in Failed(job) \cup Failed(saved)
             /\ Answer(t)
             /\ UNCHANGED Shown
       /\ UNCHANGED clicks

\* cancel_computation; JobNotRunning leaves everything as it is.
CancelRun(t) ==
    /\ Does(t, "cancel")
    /\ \/ /\ req[t].seen.status = "RUNNING"
          /\ job.status = "RUNNING"
          /\ job' = [job EXCEPT !.status = "FAILED"]
          /\ upd' = [upd EXCEPT ![t] = "asked"]
       \/ /\ "RUNNING" \notin {req[t].seen.status} \cap {job.status}
          /\ UNCHANGED <<job, upd>>
    /\ Answer(t)
    /\ UNCHANGED <<tab, clicks>>

\* mark_pending: PENDING unless the row is RUNNING (JobRunning).
MarkPending(t) ==
    /\ Does(t, "reset") \/ Does(t, "restart")
    /\ IF \/ job.status = "RUNNING"
          \/ Does(t, "restart") /\ req[t].seen.status = "RUNNING"
       THEN /\ Answer(t)
            /\ UNCHANGED job
       ELSE /\ job' = [job EXCEPT !.status = "PENDING"]
            /\ Continue(t, IF Does(t, "reset") THEN "unstage" ELSE "restage")
    /\ UNCHANGED <<Shown, clicks>>

\* reset, its last write: the stage as loaded, at most 4.  Then the page is
\* loaded again, or the restart submits.
ResetStage(t) ==
    LET stage == Sooner(req[t].seen.stage, 4)
    IN /\ Does(t, "unstage") \/ Does(t, "restage")
       /\ job' = [job EXCEPT !.stage = stage]
       /\ req' = [req EXCEPT ![t].seen.stage = stage,
                    ![t].do = IF Does(t, "unstage") THEN "goto" ELSE "submit"]
       /\ UNCHANGED <<Shown, clicks>>

-----------------------------------------------------------------------------
(* Status updates of the route computation page, and the run *)

\* A tick of the interval, or the trigger a click has set.
LoadUpdate(t) ==
    /\ tab[t].page = "route_computation"
    /\ \/ upd[t] = "asked"
       \/ upd[t] = "none" /\ tab[t].poll = "on"
    /\ upd' = [upd EXCEPT ![t] = job.status]
    /\ UNCHANGED <<job, tab, req, clicks>>

\* Mutant: the update switches the poll off.
ShowUpdateOnce(t) ==
    /\ upd[t] \in Status
    /\ tab' = [tab EXCEPT ![t].status = upd[t], ![t].poll = "off"]
    /\ upd' = [upd EXCEPT ![t] = "none"]
    /\ UNCHANGED <<job, req, clicks>>

\* Mutant: the answer is shown before the row was read.
ShowUnloaded(t) ==
    /\ upd[t] # "none"
    /\ tab' = [tab EXCEPT ![t].status = upd[t], ![t].poll = PollOn(upd[t])]
    /\ upd' = [upd EXCEPT ![t] = "none"]
    /\ UNCHANGED <<job, req, clicks>>

\* The badge, the visible button, Next and the poll follow the status.
ShowUpdate(t) ==
    /\ upd[t] \in Status
    /\ tab' = [tab EXCEPT ![t].status = upd[t], ![t].poll = PollOn(upd[t])]
    /\ upd' = [upd EXCEPT ![t] = "none"]
    /\ UNCHANGED <<job, req, clicks>>

\* The worker's end of the run, or the sweep's.
RunEnds ==
    /\ job.status = "RUNNING"
    /\ \E s \in {"COMPLETED", "FAILED"} : job' = [job EXCEPT !.status = s]
    /\ UNCHANGED <<tab, req, upd, clicks>>

-----------------------------------------------------------------------------
UserStep(t) ==
    \/ Open(t) \/ NextOfUserInfo(t) \/ NextOfParams(t)
    \/ Start(t) \/ Cancel(t) \/ Restart(t) \/ Reset(t)

RequestStep(t) ==
    \/ LoadPage(t) \/ RenderPage(t) \/ StoreEmail(t) \/ StoreParams(t)
    \/ RaiseReached(t) \/ CheckStart(t) \/ Submit(t) \/ SaveSubmitted(t) \/ CancelRun(t)
    \/ MarkPending(t) \/ ResetStage(t)

Next ==
    \/ \E t \in Tab : UserStep(t) \/ RequestStep(t) \/ LoadUpdate(t) \/ ShowUpdate(t)
    \/ RunEnds

\* Fair: requests are answered, the interval ticks.  Users and runs are not.
Fairness ==
    \A t \in Tab : WF_vars(RequestStep(t)) /\ WF_vars(LoadUpdate(t)) /\ WF_vars(ShowUpdate(t))

Spec == Init /\ [][Next]_vars /\ Fairness
-----------------------------------------------------------------------------
(* Properties *)

\* A step that a tab ticks and links as done is done in the row, whatever the
\* pages, submits and resets of other tabs have written since (raise_stage,
\* submit and reset all write the stage).
TicksStayTrue ==
    \A t \in Tab : tab[t].steps \ {"route_computation"} \subseteq CompletedSteps(job)

\* The job table's link always leads to a page, and never past the step the
\* job has reached (resolve_reload_url, in every row the tabs can produce: a
\* download page opened while a reset is at work leaves a PENDING row at 5).
ResumeOpensAStepReached ==
    /\ ResumePage(job) \in Page
    /\ job.status # "COMPLETED" => StageOf(ResumePage(job), job.status) <= job.stage

\* A route computation page that shows a run, or polls for one, does not do so
\* for ever once the run is over: whichever way it ended, and also after a
\* cancel or a start it was refused ("The page shows its current status",
\* error_handling.py).
RunPageSeesTheEnd ==
    \A t \in Tab :
        (/\ tab[t].page = "route_computation"
         /\ \/ tab[t].status = "RUNNING"
            \/ tab[t].poll = "on"
         /\ job.status # "RUNNING")
        ~> (\/ tab[t].page # "route_computation"
            \/ (tab[t].status # "RUNNING" /\ tab[t].poll = "off")
            \/ job.status = "RUNNING")
=============================================================================
