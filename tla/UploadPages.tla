----------------------------- MODULE UploadPages -----------------------------
(***************************************************************************)
(* The data upload page and the gate of the street selection page, open in *)
(* several tabs, against the job's row and the state of the upload task in *)
(* Celery.                                                                 *)
(*                                                                         *)
(* A page is rendered once from the row; from then on only the answers to  *)
(* the tab's own callbacks change it, each of them a handful of components *)
(* chosen by hand.  Meanwhile the row is changed by the other tabs, the    *)
(* upload task and the runs.                                               *)
(***************************************************************************)
EXTENDS Naturals

CONSTANTS
    Tab,     \* open browser tabs of the job
    Upload,  \* membership uploads; each one also names its upload task
    None,    \* no upload
    MaxMoves  \* bound: pages opened and runs started

Ended == {"COMPLETED", "FAILED"}
SP == {"PENDING"} \cup Ended \cup Upload

ASSUME UploadPagesAssumption ==
    /\ Upload \cap ({None, "PENDING"} \cup Ended) = {}
    /\ MaxMoves \in Nat

VARIABLES
    row,     \* the job's row
    celery,  \* upload -> its task as Celery reports it
    tab,     \* tab -> what it shows
    req,     \* tab -> its request in flight: a page, an upload or a delete
    poll,    \* tab -> its poll in flight
    moves,  \* pages opened and runs started so far (bound)
    calm     \* history: the tabs nothing has happened behind the back of

vars == <<row, celery, tab, req, poll, moves, calm>>

\* mem, pred: the row names a file.  sp: membership_upload["street_processing"].
File == {"none", "uploaded"}
Row == [status : {"PENDING", "RUNNING"}, mem : File, pred : File, sp : SP]

\* mem, pred: shown as uploaded.  The others are controls that are enabled.
Control == {"mem", "pred", "next", "delMem", "delPred", "upMem", "upPred", "poll"}

View == [page : {"closed", "data_upload", "wait", "failed", "streets"},
         on : SUBSET Control, sp : {"PENDING", "RUNNING"} \cup Ended]

Request == [do : {"none", "open", "gate", "upload", "save", "name", "submit",
                  "predictor", "keep", "delmem", "delpred"},
            up : Upload \cup {None}, seen : Row]

Blank == [status |-> "PENDING", mem |-> "none", pred |-> "none", sp |-> "PENDING"]
NoRequest == [do |-> "none", up |-> None, seen |-> Blank]
NoPoll == [page |-> "none", sp |-> "PENDING"]

-----------------------------------------------------------------------------
(* What the pages show of a row *)

\* get_street_processing_status, the answer: a task id is looked up in Celery.
StatusOf(sp) ==
    CASE sp \notin Upload -> sp
      [] sp \in Upload /\ celery[sp] = "ok" -> "COMPLETED"
      [] sp \in Upload /\ celery[sp] = "failed" -> "FAILED"
      [] OTHER -> "RUNNING"

\* ... and the write: the end goes into the row if the task still owns it.
Synced(sp) ==
    IF sp \in Upload /\ row.sp = sp /\ StatusOf(sp) \in Ended
    THEN [row EXCEPT !.sp = StatusOf(sp)] ELSE row

\* Mutant: the page is given what the row stores.
ShownAsStored(sp) == sp

\* data_upload.layout: a task id is shown as running without a look at Celery.
Shown(sp) == IF sp \in Upload THEN "RUNNING" ELSE sp

Controls(seen) ==
    LET mem == seen.mem = "uploaded"
        pred == seen.pred = "uploaded"
        active == seen.status = "PENDING"
        enabled == [mem |-> mem, pred |-> pred, next |-> mem /\ pred,
                    delMem |-> mem /\ active, delPred |-> pred /\ active,
                    upMem |-> ~mem, upPred |-> mem /\ ~pred,
                    poll |-> seen.sp \in Upload]
    IN {c \in Control : enabled[c]}

DataUploadPage(seen) ==
    [page |-> "data_upload", on |-> Controls(seen), sp |-> Shown(seen.sp)]

WaitPage == [page |-> "wait", on |-> {"poll"}, sp |-> "RUNNING"]
FailedPage == [page |-> "failed", on |-> {}, sp |-> "FAILED"]

\* street_selection.layout waits while the network is built; a row without an
\* upload passes.
StreetPage(status) ==
    CASE status = "RUNNING" -> WaitPage
      [] status = "FAILED" -> FailedPage
      [] OTHER -> [page |-> "streets", on |-> {"next"}, sp |-> status]

TypeOK ==
    /\ row \in Row
    /\ celery \in [Upload -> {"none", "running", "ok", "failed"}]
    /\ tab \in [Tab -> View]
    /\ req \in [Tab -> Request]
    /\ poll \in [Tab -> [page : {"none", "data_upload", "wait"}, sp : SP]]
    /\ moves \in 0..MaxMoves
    /\ calm \subseteq Tab

Init ==
    /\ row = Blank
    /\ celery = [u \in Upload |-> "none"]
    /\ tab = [t \in Tab |-> [page |-> "closed", on |-> {}, sp |-> "PENDING"]]
    /\ req = [t \in Tab |-> NoRequest]
    /\ poll = [t \in Tab |-> NoPoll]
    /\ moves = 0
    /\ calm = {}

-----------------------------------------------------------------------------
(* A tab is calm when, since its page was rendered, nothing but the end of *)
(* an upload was written to the row except by the tab's own answered       *)
(* requests, and none of these was answered while a poll of the tab was    *)
(* under way; nor was the page rendered from a row whose predictor has     *)
(* lost its membership.                                                    *)

\* The row as a page was rendered from it, except that the upload may be over.
Unchanged(seen) ==
    row \in {seen} \cup {[seen EXCEPT !.sp = IF @ \in Upload THEN e ELSE @] : e \in Ended}

\* Tab t's step; kept: unless it breaks t's own calm.
StillCalm(t, kept) ==
    calm' = {s \in IF kept THEN calm ELSE calm \ {t} : s = t \/ row' = row}

-----------------------------------------------------------------------------
(* Requests: they load the row when they start, and keep what they look at *)

Needed(do) ==
    IF do \in {"open", "gate"} THEN row
    ELSE [Blank EXCEPT !.status = row.status, !.sp = row.sp]

Send(t, do, u) ==
    /\ req[t] = NoRequest
    /\ req' = [req EXCEPT ![t] = [do |-> do, up |-> u, seen |-> Needed(do)]]
    /\ UNCHANGED <<row, tab, poll, calm>>

OpenPage(t, do) ==
    /\ moves < MaxMoves
    /\ moves' = moves + 1
    /\ Send(t, do, None)
    /\ UNCHANGED celery

\* A task id nothing refers to any more stands for a new one.
InUse(u) ==
    \/ row.sp = u
    \/ celery[u] = "running"
    \/ \E t \in Tab : u \in {req[t].up, req[t].seen.sp, poll[t].sp}

ChooseMembership(t) ==
    /\ "upMem" \in tab[t].on
    /\ \E u \in Upload :
        /\ ~InUse(u)
        /\ celery' = [celery EXCEPT ![u] = "none"]
        /\ Send(t, "upload", u)
    /\ UNCHANGED moves

Press(t, control, do) ==
    /\ control \in tab[t].on
    /\ Send(t, do, None)
    /\ UNCHANGED <<celery, moves>>

UserStep(t) ==
    \/ OpenPage(t, "open") \/ OpenPage(t, "gate")
    \/ ChooseMembership(t)
    \/ Press(t, "upPred", "predictor")
    \/ Press(t, "delMem", "delmem")
    \/ Press(t, "delPred", "delpred")

-----------------------------------------------------------------------------
(* What the requests do *)

Does(t, do) == req[t].do = do
Goes(t, do) ==
    /\ req' = [req EXCEPT ![t].do = do, ![t].seen = Blank]
    /\ StillCalm(t, TRUE)

\* An answer: what it shows and enables, and what it hides and disables.
Show(t, view) ==
    /\ req' = [req EXCEPT ![t] = NoRequest]
    /\ tab' = [tab EXCEPT ![t] = view]
    /\ StillCalm(t, poll[t] = NoPoll)
Answer(t, plus, minus) ==
    Show(t, [tab[t] EXCEPT !.on = (@ \ minus) \cup plus])
AnswerSp(t, plus, minus, sp) ==
    Show(t, [tab[t] EXCEPT !.on = (@ \ minus) \cup plus, !.sp = sp])

\* No answer: PreventUpdate, or an error that only the error modal shows.
Drop(t, kept) ==
    /\ req' = [req EXCEPT ![t] = NoRequest]
    /\ StillCalm(t, kept)
    /\ UNCHANGED tab

\* data_upload.layout and street_selection.layout.
RenderPage(t) ==
    LET seen == req[t].seen IN
    /\ \/ /\ Does(t, "open")
          /\ tab' = [tab EXCEPT ![t] = DataUploadPage(seen)]
          /\ UNCHANGED row
       \/ /\ Does(t, "gate")
          /\ tab' = [tab EXCEPT ![t] = StreetPage(StatusOf(seen.sp))]
          /\ row' = Synced(seen.sp)
    /\ req' = [req EXCEPT ![t] = NoRequest]
    /\ calm' = IF /\ Unchanged(seen)
                  /\ poll[t] = NoPoll
                  /\ seen.pred = "uploaded" => seen.mem = "uploaded"
               THEN calm \cup {t} ELSE calm \ {t}
    /\ UNCHANGED <<celery, poll, moves>>

\* Mutant: the predictor of the deleted membership stays.
ForgetMembership ==
    row' = [row EXCEPT !.mem = "none", !.sp = "PENDING"]

\* delete_membership's row write.
ForgetUploads ==
    row' = [row EXCEPT !.mem = "none", !.pred = "none", !.sp = "PENDING"]

\* It revokes the task the request has seen in the row first.
Revoked(sp) ==
    [u \in Upload |-> IF u = sp /\ celery[u] = "running" THEN "failed" ELSE celery[u]]

\* delete_membership, for an upload and for the delete button; refused unless
\* the row is still PENDING (JobNotPending).
DeleteMembership(t) ==
    LET seen == req[t].seen IN
    /\ Does(t, "upload") \/ Does(t, "delmem")
    /\ IF seen.status # "PENDING"
       THEN UNCHANGED <<row, celery, tab>> /\ Drop(t, TRUE)
       ELSE /\ celery' = Revoked(seen.sp)
            /\ \/ /\ row.status # "PENDING"
                  /\ UNCHANGED row
                  /\ Drop(t, TRUE)
               \/ /\ row.status = "PENDING"
                  /\ ForgetUploads
                  /\ IF Does(t, "upload")
                     THEN Goes(t, "save") /\ UNCHANGED tab
                     ELSE AnswerSp(t, {"upMem"}, Control, "PENDING")
    /\ UNCHANGED <<poll, moves>>

\* upload_membership: the file is checked, stored, and named in the row.  The
\* plots that follow may fail, and with them the request.
SaveMembership(t) ==
    /\ Does(t, "save")
    /\ \/ /\ UNCHANGED row
          /\ Answer(t, {}, {"next"})
       \/ /\ row.status = "PENDING"
          /\ row' = [row EXCEPT !.mem = "uploaded", !.sp = "PENDING"]
          /\ \/ Goes(t, "name") /\ UNCHANGED tab
             \/ Drop(t, FALSE)
       \/ /\ row.status # "PENDING"
          /\ UNCHANGED row
          /\ Drop(t, FALSE)
    /\ UNCHANGED <<celery, poll, moves>>

\* update_columns: the whole membership_upload column, whatever the row holds.
WriteColumn(sp) == row' = [row EXCEPT !.mem = "uploaded", !.sp = sp]

NameTask(t) ==
    /\ Does(t, "name")
    /\ WriteColumn(req[t].up)
    /\ Goes(t, "submit")
    /\ UNCHANGED <<celery, tab, poll, moves>>

\* The answer to an upload.
AnswerUpload(t, sp) ==
    AnswerSp(t, {"mem", "delMem", "upPred"} \cup (IF sp = "RUNNING" THEN {"poll"} ELSE {}),
             {"next", "upMem", "pred", "delPred", "poll"}, sp)

\* The task is sent; a failure ends the upload in the row, and one that raises
\* leaves the page without an answer.
SubmitTask(t) ==
    /\ Does(t, "submit")
    /\ \/ /\ celery' = [celery EXCEPT ![req[t].up] = "running"]
          /\ UNCHANGED row
          /\ AnswerUpload(t, "RUNNING")
       \/ /\ WriteColumn("FAILED")
          /\ AnswerUpload(t, "FAILED") \/ Drop(t, FALSE)
          /\ UNCHANGED celery
    /\ UNCHANGED <<poll, moves>>

\* _handle_predictor_upload: the file is checked by itself and against the
\* stored membership.
CheckPredictor(t) ==
    /\ Does(t, "predictor")
    /\ UNCHANGED <<row, celery, poll, moves>>
    /\ \/ /\ req[t].seen.status # "PENDING"
          /\ Drop(t, TRUE)
          /\ UNCHANGED tab
       \/ /\ req[t].seen.status = "PENDING"
          /\ Answer(t, {}, {"next", "pred", "delPred"})
       \/ /\ req[t].seen.status = "PENDING"
          /\ row.mem = "uploaded"
          /\ Goes(t, "keep")
          /\ UNCHANGED tab

KeepPredictor(t) ==
    /\ Does(t, "keep")
    /\ \/ /\ row.status = "PENDING"
          /\ row' = [row EXCEPT !.pred = "uploaded"]
          /\ Answer(t, {"next", "pred", "delPred"}, {"upPred"})
       \/ /\ row.status # "PENDING"
          /\ UNCHANGED row
          /\ Drop(t, TRUE)
    /\ UNCHANGED <<celery, poll, moves>>

\* delete_predictor_file: after a delete another file may be uploaded.
DeletePredictor(t) ==
    /\ Does(t, "delpred")
    /\ \/ /\ "PENDING" \in {req[t].seen.status} \cap {row.status}
          /\ row' = [row EXCEPT !.pred = "none"]
          /\ Answer(t, {"upPred"}, {"next", "pred", "delPred"})
       \/ /\ "PENDING" \notin {req[t].seen.status} \cap {row.status}
          /\ UNCHANGED row
          /\ Drop(t, TRUE)
    /\ UNCHANGED <<celery, poll, moves>>

RequestStep(t) ==
    \/ RenderPage(t) \/ DeleteMembership(t) \/ SaveMembership(t) \/ NameTask(t)
    \/ SubmitTask(t) \/ CheckPredictor(t) \/ KeepPredictor(t) \/ DeletePredictor(t)

-----------------------------------------------------------------------------
(* Polls *)

\* A tick of the page's interval loads the row.
StartPoll(t) ==
    /\ "poll" \in tab[t].on
    /\ poll[t] = NoPoll
    /\ poll' = [poll EXCEPT ![t] = [page |-> tab[t].page, sp |-> row.sp]]
    /\ UNCHANGED <<row, celery, tab, req, moves, calm>>

\* Mutant: a failed upload is shown, and polled for, as a running one.
PollAnswerOfCompleted(page, status) ==
    CASE page = "wait" /\ status = "COMPLETED" -> StreetPage("COMPLETED")
      [] page = "data_upload" /\ status = "COMPLETED" -> [on |-> {}, sp |-> status]
      [] OTHER -> [on |-> {"poll"}, sp |-> "RUNNING"]

\* poll_street_processing and poll_street_processing_status: what is neither
\* COMPLETED nor FAILED is shown as still running.
PollAnswer(page, status) ==
    CASE page = "wait" /\ status = "COMPLETED" -> StreetPage("COMPLETED")
      [] page = "data_upload" /\ status = "COMPLETED" -> [on |-> {}, sp |-> status]
      [] status = "FAILED" -> [on |-> {}, sp |-> status]
      [] OTHER -> [on |-> {"poll"}, sp |-> "RUNNING"]

\* The answer is lost when the tab shows another page by then.
EndPoll(t) ==
    LET status == StatusOf(poll[t].sp)
        answer == PollAnswer(poll[t].page, status)
    IN /\ poll[t] # NoPoll
       /\ poll' = [poll EXCEPT ![t] = NoPoll]
       /\ row' = Synced(poll[t].sp)
       /\ tab' = [tab EXCEPT ![t] =
                    CASE tab[t].page # poll[t].page -> tab[t]
                      [] tab[t].page = poll[t].page /\ "page" \in DOMAIN answer -> answer
                      [] OTHER -> [tab[t] EXCEPT !.on = (@ \ {"poll"}) \cup answer.on,
                                                 !.sp = answer.sp]]
       /\ UNCHANGED <<celery, req, moves, calm>>

-----------------------------------------------------------------------------
(* The upload task, and the runs other pages start and reset *)

\* The task ends, in the row if it still owns it and was not lost.
EndTask(u) ==
    /\ celery[u] = "running"
    /\ \E end \in {"ok", "failed"} :
        /\ celery' = [celery EXCEPT ![u] = end]
        /\ row' \in {row} \cup
            (IF row.sp = u
             THEN {[row EXCEPT !.sp = IF end = "ok" THEN "COMPLETED" ELSE "FAILED"]}
             ELSE {})
    /\ UNCHANGED <<tab, req, poll, moves, calm>>

\* The run page's Start button; it does not ask for uploads, and its page has an
\* address of its own.
StartRun ==
    /\ row.status = "PENDING"
    /\ moves < MaxMoves
    /\ moves' = moves + 1
    /\ row' = [row EXCEPT !.status = "RUNNING"]
    /\ calm' = {}
    /\ UNCHANGED <<celery, tab, req, poll>>

\* The reset dialog, once the run is no longer at work.
ResetRun ==
    /\ row.status = "RUNNING"
    /\ row' = [row EXCEPT !.status = "PENDING"]
    /\ calm' = {}
    /\ UNCHANGED <<celery, tab, req, poll, moves>>

Next ==
    \/ \E t \in Tab : UserStep(t) \/ RequestStep(t) \/ StartPoll(t) \/ EndPoll(t)
    \/ \E u \in Upload : EndTask(u)
    \/ StartRun \/ ResetRun

\* Fair: the intervals tick and every request is answered.  Users, tasks and
\* runs are not.
Fairness == \A t \in Tab :
    WF_vars(RequestStep(t)) /\ WF_vars(StartPoll(t)) /\ WF_vars(EndPoll(t))

Spec == Init /\ [][Next]_vars /\ Fairness
-----------------------------------------------------------------------------
(* Properties *)

IdleCalm(t) == t \in calm /\ tab[t].page = "data_upload" /\ req[t] = NoRequest

\* A data upload page that nothing has interfered with shows what it would show
\* if it were loaded again: the uploads, the controls that are enabled, and how
\* the network's construction stands unless it still polls for that.  (The
\* answers of five callbacks name their components one by one;
\* layout computes them from the row.)
AnswersAgreeWithLayout ==
    \A t \in Tab : IdleCalm(t) =>
        /\ tab[t].on \ {"poll"} = Controls(row) \ {"poll"}
        /\ "poll" \in tab[t].on \/ tab[t].sp = Shown(row.sp)

\* The upload the row names is over, in the row or in Celery.
UploadOver == StatusOf(row.sp) \in Ended

\* A page that waits for the construction of the network stops waiting once it
\* is over, also when the task was lost before it wrote its end to the row.
PagesSeeTheUploadEnd ==
    \A t \in Tab : ("poll" \in tab[t].on /\ UploadOver)
                        ~> ("poll" \notin tab[t].on \/ ~UploadOver)
=============================================================================
