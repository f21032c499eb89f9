-------------------------- MODULE WizardPagesProofs --------------------------
(***************************************************************************)
(* Proofs about WizardPages, for any number of tabs, clicks and first      *)
(* stages: the types, that a step a tab ticks stays done, and that the job *)
(* table's link opens a step the job has reached.                          *)
(*                                                                         *)
(* Three places write the stage, and two of them write a copy loaded       *)
(* before.  They do no harm because only a job that has reached the route  *)
(* computation is ever submitted, restarted or reset, and because no tick  *)
(* needs more than that.                                                   *)
(***************************************************************************)
EXTENDS WizardPages, TLAPS

Reached == job.stage >= 4

\* Whatever shows or remembers a started job, or the page that starts one, has
\* seen the job at the route computation, which it has not gone back behind.
StartedIsReached ==
    /\ job.status # "PENDING" => Reached
    /\ \A t \in Tab :
        /\ tab[t].page = "route_computation" \/ tab[t].status # "PENDING" => Reached
        /\ req[t].seen.status # "PENDING" => Reached
        /\ upd[t] \in Status \ {"PENDING"} => Reached

\* The requests that will write the stage as they have loaded it.
WritesItsCopy == {"start", "submit", "save", "cancel", "restart", "restage", "reset", "unstage"}

CopiesAreReached ==
    \A t \in Tab : req[t].do \in WritesItsCopy => req[t].seen.stage >= 4

\* No request has seen the job further than it is, up to the route computation.
CopiesAreBehind == \A t \in Tab : Sooner(req[t].seen.stage, 4) <= job.stage

WizardInv ==
    /\ TypeOK
    /\ StartedIsReached
    /\ CopiesAreReached
    /\ CopiesAreBehind
    /\ TicksStayTrue

-----------------------------------------------------------------------------
(* What pages render *)

\* A rendered page is typed.
LEMMA RenderedTypes ==
    ASSUME NEW r \in Row, NEW p \in Page
    PROVE  /\ CompletedSteps(r) \subseteq Page
           /\ StageOf(p, r.status) \in 0..5
           /\ PollOn(r.status) \in {"on", "off"}
           /\ Rendered(p, r) \in [page : Page \cup {"closed"}, status : Status,
                                  steps : SUBSET Page, poll : {"on", "off"}]
<1>1. CompletedSteps(r) \subseteq Page
  BY DEF CompletedSteps, Page
<1>2. StageOf(p, r.status) \in 0..5
  BY DEF StageOf
<1>3. PollOn(r.status) \in {"on", "off"}
  BY DEF PollOn
<1> QED BY <1>1, <1>2, <1>3 DEF Rendered, RunPage, FormPage, Row, Page

\* The steps done depend on the stage up to the route computation only.
LEMMA TicksFollowTheStage ==
    ASSUME NEW r \in Row, NEW s \in Row, Sooner(r.stage, 4) <= s.stage
    PROVE  CompletedSteps(r) \ {"route_computation"} \subseteq CompletedSteps(s)
<1> SUFFICES ASSUME NEW p \in {"user_info", "data_upload", "street_selection", "routing_params"},
                    r.stage >= [user_info |-> 1, data_upload |-> 2,
                                street_selection |-> 3, routing_params |-> 4][p]
             PROVE  s.stage >= [user_info |-> 1, data_upload |-> 2,
                                street_selection |-> 3, routing_params |-> 4][p]
  BY DEF CompletedSteps
<1> QED BY DEF Sooner, Row

\* A raised stage is a stage.
LEMMA RaiseTypes ==
    ASSUME TypeOK, NEW stage \in 0..5, RaiseStage(stage)
    PROVE  /\ job' \in Row /\ job'.status = job.status
           /\ job'.stage = Later(job.stage, stage)
BY DEF TypeOK, RaiseStage, Row, Later

-----------------------------------------------------------------------------
(* Types *)

\* A tab without a request is typed.
LEMMA IdleTypes ==
    /\ NoRow \in Row /\ NoRequest \in Request
    /\ Closed \in [page : Page \cup {"closed"}, status : Status,
                   steps : SUBSET Page, poll : {"on", "off"}]
<1>1. NoRow \in Row
  BY DEF NoRow, Row, Status
<1>2. NoRequest \in Request
  BY <1>1 DEF NoRequest, Request, Page
<1> QED BY <1>1, <1>2 DEF Closed, Status

\* The types hold at first.
LEMMA TypeInit == Init => TypeOK
<1> SUFFICES ASSUME Init
             PROVE  TypeOK
  OBVIOUS
<1>1. job \in Row
  <2>1. FirstStage \subseteq 0..5
    BY WizardAssumption
  <2>2. \A s \in 0..5 : [status |-> "PENDING", stage |-> s] \in Row
    BY DEF Row, Status
  <2>3. PICK s \in FirstStage : job = [status |-> "PENDING", stage |-> s]
    BY DEF Init
  <2> QED BY <2>1, <2>2, <2>3
<1>2. /\ tab \in [Tab -> [page : Page \cup {"closed"}, status : Status,
                        steps : SUBSET Page, poll : {"on", "off"}]]
      /\ req \in [Tab -> Request]
  BY IdleTypes DEF Init
<1> QED BY <1>1, <1>2, WizardAssumption DEF Init, TypeOK

\* A click starts a typed request.
LEMMA ClickTypes ==
    ASSUME TypeOK, NEW t \in Tab, UserStep(t)
    PROVE  TypeOK'
<1>1. PICK do \in {"goto", "email", "params", "start", "cancel", "restart", "reset"},
           page \in Page : Click(t, do, page)
  BY DEF UserStep, Open, NextOfUserInfo, NextOfParams, Start, Cancel, Restart, Reset, ResetOffered,
         Page
<1>2. [do |-> do, page |-> page, seen |-> job] \in Request
  BY DEF TypeOK, Request
<1> QED BY <1>1, <1>2, WizardAssumption DEF Click, TypeOK

\* A request goes on with what it is, or is answered.
LEMMA RequestTypes ==
    ASSUME TypeOK, NEW t \in Tab,
           \/ Answer(t)
           \/ \E do \in {"goto", "raise", "submit", "save", "restage", "unstage"} : Continue(t, do)
    PROVE  req' \in [Tab -> Request]
<1>1. req \in [Tab -> Request] /\ NoRequest \in Request
  BY IdleTypes DEF TypeOK
<1>2. CASE Answer(t)
  BY <1>1, <1>2 DEF Answer
<1>3. ASSUME NEW do \in {"goto", "raise", "submit", "save", "restage", "unstage"}, Continue(t, do)
      PROVE  req' \in [Tab -> Request]
  BY <1>1, <1>3 DEF Continue, Request
<1> QED BY <1>2, <1>3

\* The steps of a request keep the types.
LEMMA TypeRequestStep ==
    ASSUME TypeOK, NEW t \in Tab, RequestStep(t)
    PROVE  TypeOK'
<1> USE DEF TypeOK, Shown, Does
<1>1. CASE LoadPage(t)
  BY <1>1 DEF LoadPage, Request
<1>2. CASE RenderPage(t)
  <2> DEFINE seen == req[t].seen
             raised == StageOf(req[t].page, seen.status)
             shown == [seen EXCEPT !.stage = Later(@, raised)]
  <2>1. seen \in Row /\ req[t].page \in Page
    BY DEF Request
  <2>2. raised \in 0..5
    BY <2>1, RenderedTypes
  <2>3. shown \in Row
    BY <2>1, <2>2 DEF Row, Later
  <2>4. Rendered(req[t].page, shown) \in [page : Page \cup {"closed"}, status : Status,
                                          steps : SUBSET Page, poll : {"on", "off"}]
    BY <2>1, <2>3, RenderedTypes
  <2>5. RaiseStage(raised) /\ tab' = [tab EXCEPT ![t] = Rendered(req[t].page, shown)]
    BY <1>2 DEF RenderPage
  <2>6. job' \in Row
    BY <2>2, <2>5, RaiseTypes
  <2> HIDE DEF shown, raised, seen
  <2> QED BY <1>2, <2>4, <2>5, <2>6, RequestTypes DEF RenderPage
<1>3. CASE StoreEmail(t)
  BY <1>3, RequestTypes DEF StoreEmail
<1>4. CASE StoreParams(t)
  BY <1>4, RequestTypes DEF StoreParams
<1>5. CASE RaiseReached(t)
  <2>1. job' \in Row
    BY <1>5, RaiseTypes DEF RaiseReached
  <2> QED BY <1>5, <2>1, RequestTypes DEF RaiseReached
<1>6. CASE CheckStart(t)
  BY <1>6, RequestTypes DEF CheckStart
<1>7. CASE Submit(t)
  <2>1. job' \in Row
    BY <1>7 DEF Submit, Row, Status
  <2>2. req' \in [Tab -> Request]
    BY <1>7, RequestTypes DEF Submit, AnswerSubmit
  <2>3. /\ tab' \in [Tab -> [page : Page \cup {"closed"}, status : Status,
                            steps : SUBSET Page, poll : {"on", "off"}]]
        /\ upd' \in [Tab -> {"none", "asked"} \cup Status]
    BY <1>7 DEF Submit, AnswerSubmit
  <2> QED BY <1>7, <2>1, <2>2, <2>3 DEF Submit
<1>8. CASE SaveSubmitted(t)
  <2>1. job' \in Row
    <3> DEFINE saved == [job EXCEPT !.stage = Later(req[t].seen.stage, 4)]
    <3>1. saved \in Row
      BY DEF Row, Request, Later
    <3>2. \A row \in Row : [row EXCEPT !.status = "FAILED"] \in Row
      BY DEF Row, Status
    <3>3. job' \in {saved, [saved EXCEPT !.status = "FAILED"], job, [job EXCEPT !.status = "FAILED"]}
      BY <1>8 DEF SaveSubmitted
    <3> HIDE DEF saved
    <3> QED BY <3>1, <3>2, <3>3
  <2> QED BY <1>8, <2>1, RequestTypes DEF SaveSubmitted, AnswerSubmit
<1>9. CASE CancelRun(t)
  <2>1. job' \in Row
    BY <1>9 DEF CancelRun, Row, Status
  <2> QED BY <1>9, <2>1, RequestTypes DEF CancelRun
<1>10. CASE MarkPending(t)
  <2>1. job' \in Row
    BY <1>10 DEF MarkPending, Row, Status
  <2> QED BY <1>10, <2>1, RequestTypes DEF MarkPending
<1>11. CASE ResetStage(t)
  <2>1. Sooner(req[t].seen.stage, 4) \in 0..5
    BY DEF Request, Row, Sooner
  <2>2. job' \in Row
    BY <1>11, <2>1 DEF ResetStage, Row
  <2>3. req' \in [Tab -> Request]
    BY <1>11, <2>1 DEF ResetStage, Request, Row
  <2> QED BY <1>11, <2>2, <2>3 DEF ResetStage
<1> QED
  BY <1>1, <1>2, <1>3, <1>4, <1>5, <1>6, <1>7, <1>8, <1>9, <1>10, <1>11 DEF RequestStep

\* Every step keeps the types.
LEMMA TypeStep == TypeOK /\ [Next]_vars => TypeOK'
<1> SUFFICES ASSUME TypeOK, [Next]_vars
             PROVE  TypeOK'
  OBVIOUS
<1>1. ASSUME NEW t \in Tab, LoadUpdate(t) \/ ShowUpdate(t)
      PROVE  TypeOK'
  BY <1>1 DEF LoadUpdate, ShowUpdate, TypeOK, Row, PollOn
<1>2. CASE RunEnds
  BY <1>2 DEF RunEnds, TypeOK, Row, Status
<1>3. CASE UNCHANGED vars
  BY <1>3 DEF vars, TypeOK
<1> QED BY <1>1, <1>2, <1>3, ClickTypes, TypeRequestStep DEF Next

\* Type correctness: tabs show pages, statuses and steps there are.
THEOREM TypeCorrect == Spec => []TypeOK
BY TypeInit, TypeStep, PTL DEF Spec

-----------------------------------------------------------------------------
(* Stages and the copies of them *)

\* What a request loaded at the route computation, the row has reached.
LEMMA CopyReached ==
    ASSUME WizardInv, NEW t \in Tab, req[t].do \in WritesItsCopy
    PROVE  req[t].seen.stage >= 4 /\ Reached
BY DEF WizardInv, CopiesAreReached, CopiesAreBehind, Reached, Sooner, TypeOK, Row, Request

\* The row's stage never falls below what it was, up to the route computation.
LEMMA StageStays ==
    ASSUME WizardInv, [Next]_vars
    PROVE  Sooner(job.stage, 4) <= job'.stage /\ (Reached => Reached')
<1> SUFFICES Sooner(job.stage, 4) <= job'.stage
  BY TypeStep DEF WizardInv, TypeOK, Row, Sooner, Reached
<1> USE DEF WizardInv, TypeOK, Row, Sooner
<1>1. CASE job'.stage = job.stage
  BY <1>1
<1>2. ASSUME NEW t \in Tab, RenderPage(t)
      PROVE  Sooner(job.stage, 4) <= job'.stage
  <2>1. req[t].seen \in Row /\ req[t].page \in Page
    BY DEF Request
  <2>2. StageOf(req[t].page, req[t].seen.status) \in 0..5
    BY <2>1, RenderedTypes
  <2>3. job'.stage = Later(job.stage, StageOf(req[t].page, req[t].seen.status))
    BY <1>2, <2>2, RaiseTypes DEF RenderPage
  <2> QED BY <2>2, <2>3 DEF Later
<1>3. ASSUME NEW t \in Tab, RaiseReached(t)
      PROVE  Sooner(job.stage, 4) <= job'.stage
  BY <1>3 DEF RaiseReached, RaiseStage, Later
<1>4. ASSUME NEW t \in Tab, SaveSubmitted(t)
      PROVE  Sooner(job.stage, 4) <= job'.stage
  <2>1. job'.stage \in {Later(req[t].seen.stage, 4), job.stage}
    BY <1>4 DEF SaveSubmitted
  <2> QED BY <2>1 DEF Later, Request
<1>5. ASSUME NEW t \in Tab, ResetStage(t)
      PROVE  Sooner(job.stage, 4) <= job'.stage
  <2>1. req[t].seen.stage >= 4
    BY <1>5, CopyReached DEF ResetStage, Does, WritesItsCopy
  <2>2. job'.stage = Sooner(req[t].seen.stage, 4)
    BY <1>5 DEF ResetStage, Request
  <2> QED BY <2>1, <2>2 DEF Request
<1>6. ASSUME NEW t \in Tab,
             \/ UserStep(t) \/ LoadPage(t) \/ StoreEmail(t) \/ StoreParams(t) \/ CheckStart(t)
             \/ Submit(t) \/ CancelRun(t) \/ MarkPending(t) \/ LoadUpdate(t) \/ ShowUpdate(t)
      PROVE  job'.stage = job.stage
  BY <1>6 DEF UserStep, Open, NextOfUserInfo, NextOfParams, Start, Cancel, Restart, Reset, Click,
              LoadPage, StoreEmail, StoreParams, CheckStart, Submit, CancelRun, MarkPending,
              LoadUpdate, ShowUpdate
<1>7. RunEnds => job'.stage = job.stage
  BY DEF RunEnds
<1>8. UNCHANGED vars => job'.stage = job.stage
  BY DEF vars
<1> HIDE DEF WizardInv, TypeOK, Row, Sooner
<1> QED
  BY <1>1, <1>2, <1>3, <1>4, <1>5, <1>6, <1>7, <1>8 DEF Next, RequestStep

\* A request keeps the row it loaded, loads it now, or has just written it; it
\* goes on to write its copy only if that was what it was for.
LEMMA CopySteps ==
    ASSUME WizardInv, [Next]_vars, NEW t \in Tab
    PROVE  \/ req'[t] = NoRequest
           \/ req'[t].seen = job /\ (req'[t].do \in WritesItsCopy => Reached)
           \/ /\ req'[t].seen.status = req[t].seen.status
              /\ req'[t].do \in WritesItsCopy => req[t].do \in WritesItsCopy
              /\ \/ req'[t].seen.stage = req[t].seen.stage
                 \/ /\ req[t].do \in WritesItsCopy
                    /\ req'[t].seen.stage = Sooner(req[t].seen.stage, 4)
<1> DEFINE Goal == \/ req'[t] = NoRequest
                   \/ req'[t].seen = job /\ (req'[t].do \in WritesItsCopy => Reached)
                   \/ /\ req'[t].seen.status = req[t].seen.status
                      /\ req'[t].do \in WritesItsCopy => req[t].do \in WritesItsCopy
                      /\ \/ req'[t].seen.stage = req[t].seen.stage
                         \/ /\ req[t].do \in WritesItsCopy
                            /\ req'[t].seen.stage = Sooner(req[t].seen.stage, 4)
<1> SUFFICES Goal
  OBVIOUS
<1>0. req \in [Tab -> Request]
  BY DEF WizardInv, TypeOK
<1>1. CASE req'[t] = req[t]
  BY <1>1
<1>2. ASSUME NEW s \in Tab, UserStep(s)
      PROVE  Goal
  <2>1. PICK do \in {"goto", "email", "params", "start", "cancel", "restart", "reset"},
             page \in Page : Click(s, do, page) /\ (do \in WritesItsCopy => Reached)
    <3> USE DEF WizardInv, StartedIsReached, WritesItsCopy
    <3>1. CASE Open(s) \/ NextOfUserInfo(s) \/ NextOfParams(s)
      BY <3>1 DEF Open, NextOfUserInfo, NextOfParams, Page
    <3>2. CASE Start(s) \/ Cancel(s) \/ Restart(s)
      BY <3>2 DEF Start, Cancel, Restart, ButtonOffered, Page
    <3>3. CASE Reset(s)
      BY <3>3 DEF Reset, ResetOffered, Page
    <3> QED BY <1>2, <3>1, <3>2, <3>3 DEF UserStep
  <2>2. CASE s = t
    BY <1>0, <2>1, <2>2 DEF Click
  <2>3. CASE s # t
    BY <1>0, <1>1, <2>1, <2>3 DEF Click
  <2> QED BY <2>2, <2>3
<1>3. ASSUME NEW s \in Tab,
             \/ Answer(s)
             \/ \E do \in {"goto", "raise"} : Continue(s, do)
             \/ req[s].do \in WritesItsCopy /\ \E do \in WritesItsCopy : Continue(s, do)
      PROVE  Goal
  BY <1>0, <1>3 DEF Answer, Continue, Request, WritesItsCopy
<1>4. ASSUME NEW s \in Tab, LoadPage(s)
      PROVE  Goal
  BY <1>0, <1>4 DEF LoadPage, Request, WritesItsCopy
<1>5. ASSUME NEW s \in Tab, ResetStage(s)
      PROVE  Goal
  BY <1>0, <1>5 DEF ResetStage, Request, Row, Does, WritesItsCopy
<1>6. ASSUME NEW s \in Tab,
             \/ RenderPage(s) \/ StoreEmail(s) \/ StoreParams(s) \/ RaiseReached(s) \/ CheckStart(s)
             \/ Submit(s) \/ SaveSubmitted(s) \/ CancelRun(s) \/ MarkPending(s)
      PROVE  \/ Answer(s)
             \/ \E do \in {"goto", "raise"} : Continue(s, do)
             \/ req[s].do \in WritesItsCopy /\ \E do \in WritesItsCopy : Continue(s, do)
  BY <1>6 DEF RenderPage, StoreEmail, StoreParams, RaiseReached, CheckStart, Submit, AnswerSubmit,
              SaveSubmitted, CancelRun, MarkPending, Does, WritesItsCopy
<1>7. ASSUME NEW s \in Tab, LoadUpdate(s) \/ ShowUpdate(s)
      PROVE  Goal
  BY <1>1, <1>7 DEF LoadUpdate, ShowUpdate
<1>8. RunEnds \/ UNCHANGED vars => Goal
  BY <1>1 DEF RunEnds, vars
<1> HIDE DEF Goal
<1> QED BY <1>2, <1>3, <1>4, <1>5, <1>6, <1>7, <1>8 DEF Next, RequestStep

\* Whoever will write the stage as loaded has loaded one of at least 4.
LEMMA CopiesStep ==
    ASSUME WizardInv, [Next]_vars
    PROVE  CopiesAreReached' /\ CopiesAreBehind'
<1>1. /\ job \in Row /\ job' \in Row
      /\ \A t \in Tab : req[t] \in Request /\ req'[t] \in Request
      /\ \A t \in Tab : req[t].seen.stage \in 0..5 /\ req'[t].seen.stage \in 0..5
  BY TypeStep DEF WizardInv, TypeOK, Request, Row
<1>2. NoRequest.do \notin WritesItsCopy /\ NoRequest.seen.stage = 0
  BY DEF NoRequest, NoRow, WritesItsCopy
<1>3. ASSUME NEW t \in Tab, req'[t].do \in WritesItsCopy
      PROVE  req'[t].seen.stage >= 4
  BY <1>1, <1>2, <1>3, CopySteps, CopyReached DEF Reached, Sooner, Row
<1>4. ASSUME NEW t \in Tab
      PROVE  Sooner(req'[t].seen.stage, 4) <= job'.stage
  <2>1. CASE req'[t] = NoRequest
    BY <1>1, <1>2, <2>1 DEF Sooner, Row
  <2>2. CASE req'[t].seen = job
    BY <2>2, StageStays
  <2>3. CASE req'[t].seen.stage \in {req[t].seen.stage, Sooner(req[t].seen.stage, 4)}
    <3>1. Sooner(req[t].seen.stage, 4) <= job.stage
      BY DEF WizardInv, CopiesAreBehind
    <3> QED BY <1>1, <2>3, <3>1, StageStays DEF Sooner, Row
  <2> QED BY <2>1, <2>2, <2>3, CopySteps
<1> QED BY <1>3, <1>4 DEF CopiesAreReached, CopiesAreBehind

\* A tab shows another page, and ticks other steps, only when a page is rendered.
LEMMA TabSteps ==
    ASSUME WizardInv, [Next]_vars, NEW t \in Tab
    PROVE  \/ RenderPage(t)
           \/ /\ tab'[t].page = tab[t].page /\ tab'[t].steps = tab[t].steps
              /\ \/ tab'[t].status = tab[t].status
                 \/ upd[t] \in Status /\ tab'[t].status = upd[t]
<1> DEFINE Same(s) == /\ tab'[t].page = tab[t].page /\ tab'[t].steps = tab[t].steps
                      /\ \/ tab'[t].status = tab[t].status
                         \/ upd[t] \in Status /\ tab'[t].status = upd[t]
<1> USE DEF WizardInv, TypeOK, Shown
<1>1. ASSUME NEW s \in Tab, UserStep(s) \/ LoadUpdate(s)
      PROVE  tab' = tab
  BY <1>1 DEF UserStep, Open, NextOfUserInfo, NextOfParams, Start, Cancel, Restart, Reset, Click,
              LoadUpdate
<1>2. ASSUME NEW s \in Tab,
             \/ LoadPage(s) \/ StoreEmail(s) \/ StoreParams(s) \/ RaiseReached(s) \/ CheckStart(s)
             \/ CancelRun(s) \/ MarkPending(s) \/ ResetStage(s)
      PROVE  tab' = tab
  BY <1>2 DEF LoadPage, StoreEmail, StoreParams, RaiseReached, CheckStart, CancelRun, MarkPending,
              ResetStage
<1>3. ASSUME NEW s \in Tab, Submit(s) \/ SaveSubmitted(s)
      PROVE  tab' = tab \/ tab' = [tab EXCEPT ![s].poll = "on"]
  BY <1>3 DEF Submit, SaveSubmitted, AnswerSubmit
<1>4. ASSUME NEW s \in Tab, RenderPage(s), s # t
      PROVE  tab'[t] = tab[t]
  BY <1>4 DEF RenderPage
<1>5. ASSUME NEW s \in Tab, ShowUpdate(s)
      PROVE  Same(s)
  BY <1>5 DEF ShowUpdate
<1>6. RunEnds \/ UNCHANGED vars => tab' = tab
  BY DEF RunEnds, vars
<1>7. ASSUME NEW s \in Tab, tab' = [tab EXCEPT ![s].poll = "on"]
      PROVE  Same(s)
  BY <1>7
<1> HIDE DEF WizardInv, TypeOK
<1> QED BY <1>1, <1>2, <1>3, <1>4, <1>5, <1>6, <1>7 DEF Next, RequestStep

\* What a rendered page shows is the loaded row, its stage raised with the row's.
LEMMA RenderedRow ==
    ASSUME WizardInv, NEW t \in Tab, RenderPage(t)
    PROVE  \E r \in Row :
                /\ r.status = req[t].seen.status /\ Sooner(r.stage, 4) <= job'.stage
                /\ tab'[t] = Rendered(req[t].page, r) /\ req[t].page \in Page
                /\ req[t].page = "route_computation" => job'.stage >= 4
<1> DEFINE raised == StageOf(req[t].page, req[t].seen.status)
           r == [req[t].seen EXCEPT !.stage = Later(@, raised)]
<1>1. req[t].seen \in Row /\ req[t].page \in Page
  BY DEF WizardInv, TypeOK, Request
<1>2. raised \in 0..5 /\ (req[t].page = "route_computation" => raised = 4)
  <2>1. req[t].page = "route_computation" => raised = 4
    BY DEF StageOf
  <2> QED BY <1>1, <2>1, RenderedTypes
<1>3. job'.stage = Later(job.stage, raised) /\ job.stage \in 0..5
  <2>1. RaiseStage(raised)
    BY DEF RenderPage
  <2> QED BY <1>2, <2>1, RaiseTypes DEF WizardInv, TypeOK, Row
<1>4. Sooner(req[t].seen.stage, 4) <= job.stage
  BY DEF WizardInv, CopiesAreBehind
<1>5. tab'[t] = Rendered(req[t].page, r)
  BY DEF RenderPage, WizardInv, TypeOK
<1> HIDE DEF raised
<1>6. r \in Row /\ r.status = req[t].seen.status /\ r.stage = Later(req[t].seen.stage, raised)
  BY <1>1, <1>2 DEF Row, Later
<1>7. Sooner(r.stage, 4) <= job'.stage
  BY <1>1, <1>2, <1>3, <1>4, <1>6 DEF Row, Later, Sooner
<1>8. req[t].page = "route_computation" => job'.stage >= 4
  BY <1>2, <1>3 DEF Later
<1> HIDE DEF r
<1> QED BY <1>1, <1>5, <1>6, <1>7, <1>8

\* The status starts to run only where the job has reached the route computation.
LEMMA StartedIsReachedStep ==
    ASSUME WizardInv, [Next]_vars
    PROVE  StartedIsReached'
<1> USE DEF WizardInv, StartedIsReached
<1>1. ASSUME job'.status # "PENDING", ~ Reached
      PROVE  FALSE
  <2>1. job.status = "PENDING"
    BY <1>1
  <2>2. ASSUME NEW t \in Tab, Submit(t)
        PROVE  FALSE
    BY <1>1, <2>2, CopyReached DEF Submit, Does, WritesItsCopy
  <2>3. ASSUME NEW t \in Tab,
               \/ UserStep(t) \/ LoadPage(t) \/ RenderPage(t) \/ StoreEmail(t) \/ StoreParams(t)
               \/ RaiseReached(t) \/ CheckStart(t) \/ SaveSubmitted(t) \/ CancelRun(t)
               \/ MarkPending(t) \/ ResetStage(t) \/ LoadUpdate(t) \/ ShowUpdate(t)
        PROVE  job'.status = "PENDING"
    <3> USE <2>1 DEF TypeOK, Row
    <3>1. CASE RenderPage(t) \/ RaiseReached(t)
      BY <3>1 DEF RenderPage, RaiseReached, RaiseStage
    <3>2. CASE SaveSubmitted(t)
      BY <3>2 DEF SaveSubmitted
    <3>3. CASE MarkPending(t) \/ ResetStage(t) \/ CancelRun(t)
      BY <3>3 DEF MarkPending, ResetStage, CancelRun
    <3>4. CASE \/ UserStep(t) \/ LoadPage(t) \/ StoreEmail(t) \/ StoreParams(t) \/ CheckStart(t)
               \/ LoadUpdate(t) \/ ShowUpdate(t)
      BY <3>4 DEF UserStep, Open, NextOfUserInfo, NextOfParams, Start, Cancel, Restart, Reset,
                  Click, LoadPage, StoreEmail, StoreParams, CheckStart, LoadUpdate, ShowUpdate
    <3> QED BY <2>3, <3>1, <3>2, <3>3, <3>4
  <2> QED BY <1>1, <2>1, <2>2, <2>3 DEF Next, RequestStep, RunEnds, vars
<1>2. ASSUME NEW t \in Tab, req'[t].seen.status # "PENDING"
      PROVE  Reached
  BY <1>2, CopySteps DEF NoRequest, NoRow
<1>3. ASSUME NEW t \in Tab, upd'[t] \in Status \ {"PENDING"}
      PROVE  Reached
  <2>1. upd'[t] \in {upd[t], "none", "asked", job.status}
    <3> USE DEF TypeOK, Shown
    <3>1. ASSUME NEW s \in Tab, UserStep(s) \/ RequestStep(s)
          PROVE  upd'[t] \in {upd[t], "none", "asked"}
      BY <3>1 DEF UserStep, Open, NextOfUserInfo, NextOfParams, Start, Cancel, Restart, Reset,
                  Click, RequestStep, LoadPage, RenderPage, StoreEmail, StoreParams, RaiseReached,
                  CheckStart, Submit, AnswerSubmit, SaveSubmitted, CancelRun, MarkPending,
                  ResetStage
    <3>2. ASSUME NEW s \in Tab, LoadUpdate(s) \/ ShowUpdate(s)
          PROVE  upd'[t] \in {upd[t], "none", job.status}
      BY <3>2 DEF LoadUpdate, ShowUpdate
    <3> QED BY <3>1, <3>2 DEF Next, RunEnds, vars
  <2> QED BY <1>3, <2>1 DEF Status
<1>4. ASSUME NEW t \in Tab, tab'[t].page = "route_computation" \/ tab'[t].status # "PENDING"
      PROVE  Reached'
  <2>1. CASE RenderPage(t)
    <3>1. PICK r \in Row :
            /\ r.status = req[t].seen.status
            /\ tab'[t] = Rendered(req[t].page, r) /\ req[t].page \in Page
            /\ req[t].page = "route_computation" => job'.stage >= 4
      BY <2>1, RenderedRow
    <3>2. tab'[t].page = req[t].page /\ tab'[t].status = r.status
      BY <3>1 DEF Rendered, RunPage, FormPage
    <3> QED BY <1>4, <3>1, <3>2, StageStays DEF Reached
  <2>2. CASE ~ RenderPage(t)
    BY <1>4, <2>2, TabSteps, StageStays DEF Status
  <2> QED BY <2>1, <2>2
<1> QED BY <1>1, <1>2, <1>3, <1>4, StageStays DEF StartedIsReached

\* No step takes a tick's ground away.
LEMMA TicksStayTrueStep ==
    ASSUME WizardInv, [Next]_vars
    PROVE  TicksStayTrue'
<1> SUFFICES ASSUME NEW t \in Tab
             PROVE  tab'[t].steps \ {"route_computation"} \subseteq CompletedSteps(job')
  BY DEF TicksStayTrue, CompletedSteps
<1>1. job \in Row /\ job' \in Row
  BY TypeStep DEF WizardInv, TypeOK
<1>2. CASE RenderPage(t)
  <2>1. PICK r \in Row : /\ Sooner(r.stage, 4) <= job'.stage
                         /\ tab'[t] = Rendered(req[t].page, r)
    BY <1>2, RenderedRow
  <2>2. tab'[t].steps = CompletedSteps(r)
    BY <2>1 DEF Rendered, RunPage, FormPage
  <2> QED BY <1>1, <2>1, <2>2, TicksFollowTheStage
<1>3. CASE ~ RenderPage(t)
  <2>1. tab[t].steps \ {"route_computation"} \subseteq CompletedSteps(job) \ {"route_computation"}
    BY DEF WizardInv, TicksStayTrue
  <2> QED BY <1>1, <1>3, <2>1, TabSteps, StageStays, TicksFollowTheStage
<1> QED BY <1>2, <1>3

\* The invariant holds in every reachable state.
LEMMA WizardInvHolds == Spec => []WizardInv
<1>1. Init => WizardInv
  BY TypeInit DEF Init, WizardInv, StartedIsReached, CopiesAreReached, CopiesAreBehind,
         TicksStayTrue, NoRequest, NoRow, Closed, WritesItsCopy, Sooner, Status, TypeOK, Row
<1>2. WizardInv /\ [Next]_vars => WizardInv'
  BY TypeStep, StartedIsReachedStep, CopiesStep, TicksStayTrueStep DEF WizardInv
<1> QED BY <1>1, <1>2, PTL DEF Spec

-----------------------------------------------------------------------------
\* A step that any tab ticks and links stays done in the row, whatever pages,
\* submits and resets of other tabs write of the stage they once loaded.
THEOREM TicksAreTrue == Spec => []TicksStayTrue
<1>1. WizardInv => TicksStayTrue
  BY DEF WizardInv
<1> QED BY <1>1, WizardInvHolds, PTL

\* The job table's link leads to a page, and to none the job has not reached.
THEOREM ResumeIsReached == Spec => []ResumeOpensAStepReached
<1>1. WizardInv => ResumeOpensAStepReached
  <2> SUFFICES ASSUME WizardInv
               PROVE  ResumeOpensAStepReached
    OBVIOUS
  <2>1. job \in Row /\ (job.status # "PENDING" => job.stage >= 4)
    BY DEF WizardInv, TypeOK, StartedIsReached, Reached
  <2>2. CASE job.status = "COMPLETED"
    BY <2>2 DEF ResumeOpensAStepReached, ResumePage, Page
  <2>3. CASE job.status \in {"RUNNING", "FAILED"}
    BY <2>1, <2>3 DEF ResumeOpensAStepReached, ResumePage, Page, StageOf
  <2>4. CASE job.status = "PENDING" /\ job.stage = 0
    BY <2>4 DEF ResumeOpensAStepReached, ResumePage, Page, StageOf
  <2>5. CASE job.status = "PENDING" /\ job.stage # 0
    <3>1. ResumePage(job) = StageToPage[Sooner(job.stage, 4)]
      BY <2>5 DEF ResumePage
    <3>2. job.stage \in 1..5 /\ Sooner(job.stage, 4) \in 1..4 /\ Sooner(job.stage, 4) <= job.stage
      BY <2>1, <2>5 DEF Row, Sooner
    <3>3. \A i \in 1..4 : StageToPage[i] \in Page /\ StageOf(StageToPage[i], "PENDING") <= i
      <4>1. /\ StageToPage[1] = "data_upload" /\ StageToPage[2] = "street_selection"
            /\ StageToPage[3] = "routing_params" /\ StageToPage[4] = "route_computation"
        BY DEF StageToPage
      <4>2. /\ StageOf("data_upload", "PENDING") = 0
            /\ StageOf("street_selection", "PENDING") = 2
            /\ StageOf("routing_params", "PENDING") = 3
            /\ StageOf("route_computation", "PENDING") = 4
        BY DEF StageOf
      <4>3. \A i \in 1..4 : i = 1 \/ i = 2 \/ i = 3 \/ i = 4
        OBVIOUS
      <4> QED BY <4>1, <4>2, <4>3 DEF Page
    <3>4. PICK i \in 1..4 : i = Sooner(job.stage, 4) /\ i <= job.stage
      BY <3>2
    <3>5. ResumePage(job) \in Page /\ StageOf(ResumePage(job), job.status) <= i
      BY <2>5, <3>1, <3>3, <3>4
    <3>6. StageOf(ResumePage(job), job.status) \in 0..5
      BY <2>1, <3>5, RenderedTypes
    <3> QED BY <3>2, <3>4, <3>5, <3>6 DEF ResumeOpensAStepReached
  <2> QED BY <2>1, <2>2, <2>3, <2>4, <2>5 DEF Row, Status
<1> QED BY <1>1, WizardInvHolds, PTL
=============================================================================
