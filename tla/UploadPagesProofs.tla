-------------------------- MODULE UploadPagesProofs --------------------------
(***************************************************************************)
(* Proofs about UploadPages, for any number of tabs, uploads, pages opened *)
(* and runs: the types, and that the answers of the callbacks put a calm   *)
(* page where its layout would.                                            *)
(***************************************************************************)
EXTENDS UploadPages, TLAPS

Uploading == {"upload", "save", "name", "submit"}

\* Requests about files come from the data upload page, and an upload has a
\* task id; the other pages have at most a poll or a Next.
PageShape(view, request, polled) ==
    /\ request.do \notin {"none", "open", "gate"} => view.page = "data_upload"
    /\ request.do \in Uploading => request.up \in Upload
    /\ view.page # "data_upload" => view.on \subseteq {"poll", "next"}
    /\ "poll" \in view.on => view.page \in {"data_upload", "wait"}
    /\ polled # NoPoll => polled.page \in {"data_upload", "wait"}

Shape == \A t \in Tab : PageShape(tab[t], req[t], poll[t])

TypeInv == TypeOK /\ Shape

\* Where the steps of a tab leave the rest.
Poll == [page : {"none", "data_upload", "wait"}, sp : SP]
Stored ==
    /\ row \in Row
    /\ celery \in [Upload -> {"none", "running", "ok", "failed"}]
    /\ moves \in 0..MaxMoves

\* A row without a membership names no upload.
RowInv == row.mem = "none" => row.sp = "PENDING"

\* A task id that is not sent yet is known to one request only.
UnsentInv ==
    \A t \in Tab : req[t].do \in Uploading =>
        /\ celery[req[t].up] = "none"
        /\ \A s \in Tab : req[s].up = req[t].up => s = t

\* Page v shows r as its layout would, but for a poll that is still on.
Agrees(v, r) ==
    /\ \A c \in Control \ {"poll"} : c \in v.on <=> c \in Controls(r)
    /\ "poll" \in v.on \/ v.sp = Shown(r.sp)
    /\ r.sp \in Upload => "poll" \in v.on

\* What a poll that is under way has loaded is what the row says, or has ended
\* since and been written to the row.
PollAgrees(p, r) ==
    \/ r.sp = p.sp
    \/ /\ p.sp \in Upload
       /\ StatusOf(p.sp) \in Ended
       /\ r.sp = StatusOf(p.sp)

\* A calm data upload page agrees with the row until its own request has
\* written there, and then has what the answer needs.
CalmPage(t) ==
    /\ row.pred = "uploaded" => row.mem = "uploaded"
    /\ IF req[t].do \in {"name", "submit"}
       THEN /\ row.status = "PENDING" /\ row.mem = "uploaded" /\ row.pred = "none"
            /\ tab[t].on \ {"poll"} = {"upMem"}
       ELSE /\ Agrees(tab[t], row)
            /\ poll[t] # NoPoll => PollAgrees(poll[t], row)
            /\ req[t].do \in {"upload", "save"} => "upMem" \in tab[t].on
            /\ req[t].do \in {"predictor", "keep"} => "upPred" \in tab[t].on
            /\ req[t].do = "delpred" => "delPred" \in tab[t].on

CalmInv == \A t \in calm : tab[t].page = "data_upload" => CalmPage(t)

PagesInv == RowInv /\ UnsentInv /\ CalmInv

-----------------------------------------------------------------------------
(* Type correctness *)

\* The controls of a row, one by one.
LEMMA ControlsAre ==
    ASSUME NEW r
    PROVE  /\ Controls(r) \subseteq Control
           /\ "mem" \in Controls(r) <=> r.mem = "uploaded"
           /\ "pred" \in Controls(r) <=> r.pred = "uploaded"
           /\ "next" \in Controls(r) <=> r.mem = "uploaded" /\ r.pred = "uploaded"
           /\ "delMem" \in Controls(r) <=> r.mem = "uploaded" /\ r.status = "PENDING"
           /\ "delPred" \in Controls(r) <=> r.pred = "uploaded" /\ r.status = "PENDING"
           /\ "upMem" \in Controls(r) <=> r.mem # "uploaded"
           /\ "upPred" \in Controls(r) <=> r.mem = "uploaded" /\ r.pred # "uploaded"
           /\ "poll" \in Controls(r) <=> r.sp \in Upload
BY DEF Controls, Control

\* What Celery says of an upload, and what is written of it.
LEMMA StatusIs ==
    ASSUME TypeOK, NEW sp \in SP
    PROVE  /\ StatusOf(sp) \in {"PENDING", "RUNNING"} \cup Ended
           /\ sp \notin Upload => StatusOf(sp) = sp
           /\ sp \in Upload => StatusOf(sp) # "PENDING"
           /\ Synced(sp) \in Row
           /\ \/ Synced(sp) = row
              \/ /\ row.sp \in Upload /\ row.sp = sp /\ StatusOf(sp) \in Ended
                 /\ Synced(sp) = [row EXCEPT !.sp = StatusOf(sp)]
<1>1. CASE sp \notin Upload
  BY <1>1 DEF StatusOf, Synced, SP, TypeOK
<1>2. CASE sp \in Upload
  <2>1. StatusOf(sp) \in {"RUNNING"} \cup Ended
    BY <1>2 DEF StatusOf, Ended
  <2> QED BY <1>2, <2>1 DEF Synced, TypeOK, Row, SP, Ended
<1> QED BY <1>1, <1>2

\* The shapes of what is shown, asked and loaded at first.
LEMMA FixedTypes ==
    /\ Blank \in Row
    /\ NoRequest \in Request /\ NoRequest.do = "none" /\ NoRequest.up = None
    /\ NoPoll \in [page : {"none", "data_upload", "wait"}, sp : SP]
    /\ [page |-> "closed", on |-> {}, sp |-> "PENDING"] \in View
    /\ {"poll", "next"} \subseteq Control
BY DEF Blank, NoRequest, NoPoll, Row, File, SP, Request, View, Control

\* The pages that are rendered.
LEMMA PageTypes ==
    /\ \A r \in Row : /\ DataUploadPage(r) \in View
                      /\ DataUploadPage(r).page = "data_upload"
    /\ \A status \in {"PENDING", "RUNNING"} \cup Ended :
        /\ StreetPage(status) \in View
        /\ StreetPage(status).page \in {"wait", "failed", "streets"}
        /\ StreetPage(status).on \subseteq {"poll", "next"}
        /\ "poll" \in StreetPage(status).on => StreetPage(status).page = "wait"
<1>1. ASSUME NEW r \in Row
      PROVE  DataUploadPage(r) \in View /\ DataUploadPage(r).page = "data_upload"
  <2>1. Controls(r) \subseteq Control
    BY ControlsAre
  <2>2. Shown(r.sp) \in {"PENDING", "RUNNING"} \cup Ended
    BY DEF Row, SP, Shown
  <2> QED BY <2>1, <2>2 DEF DataUploadPage, View
<1>2. ASSUME NEW status \in {"PENDING", "RUNNING"} \cup Ended
      PROVE  /\ StreetPage(status) \in View
             /\ StreetPage(status).page \in {"wait", "failed", "streets"}
             /\ StreetPage(status).on \subseteq {"poll", "next"}
             /\ "poll" \in StreetPage(status).on => StreetPage(status).page = "wait"
  <2>1. CASE status = "RUNNING"
    BY <2>1 DEF StreetPage, WaitPage, View, Control
  <2>2. CASE status = "FAILED"
    BY <2>2 DEF StreetPage, FailedPage, View, Control, Ended
  <2>3. CASE status \notin {"RUNNING", "FAILED"}
    <3>1. StreetPage(status) = [page |-> "streets", on |-> {"next"}, sp |-> status]
      BY <2>3 DEF StreetPage
    <3> QED BY <3>1 DEF View, Control
  <2> QED BY <2>1, <2>2, <2>3
<1> QED BY <1>1, <1>2

\* The types hold at first.
LEMMA TypeInit == Init => TypeInv
<1> SUFFICES ASSUME Init PROVE TypeInv
  OBVIOUS
<1>1. TypeOK
  BY FixedTypes, UploadPagesAssumption DEF Init, TypeOK
<1>2. ASSUME NEW t \in Tab PROVE PageShape(tab[t], req[t], poll[t])
  <2>1. /\ tab[t] = [page |-> "closed", on |-> {}, sp |-> "PENDING"]
        /\ req[t] = NoRequest /\ poll[t] = NoPoll
    BY DEF Init
  <2> QED BY <2>1, FixedTypes DEF PageShape, Uploading
<1> QED BY <1>1, <1>2 DEF TypeInv, Shape

\* What a tab has: types, and that writing it again changes nothing.
LEMMA TabTypes ==
    ASSUME TypeInv, NEW t \in Tab
    PROVE  /\ tab[t] \in View /\ req[t] \in Request /\ poll[t] \in Poll
           /\ PageShape(tab[t], req[t], poll[t])
           /\ Stored
           /\ tab = [tab EXCEPT ![t] = tab[t]]
           /\ req = [req EXCEPT ![t] = req[t]]
           /\ poll = [poll EXCEPT ![t] = poll[t]]
BY DEF TypeInv, TypeOK, Shape, Poll, Stored

\* A step of one tab, by what it leaves there.
LEMMA OneTab ==
    ASSUME TypeInv, NEW t \in Tab, Stored',
           NEW view \in View, NEW request \in Request, NEW polled \in Poll,
           PageShape(view, request, polled),
           tab' = [tab EXCEPT ![t] = view],
           req' = [req EXCEPT ![t] = request],
           poll' = [poll EXCEPT ![t] = polled],
           calm' \subseteq Tab
    PROVE  TypeInv'
<1>1. TypeOK'
  BY DEF TypeInv, TypeOK, Stored, Poll
<1>2. ASSUME NEW s \in Tab PROVE PageShape(tab[s], req[s], poll[s])'
  <2>1. CASE s = t
    <3>1. tab'[s] = view /\ req'[s] = request /\ poll'[s] = polled
      BY <2>1 DEF TypeInv, TypeOK
    <3> QED BY <3>1 DEF PageShape
  <2>2. CASE s # t
    <3>1. tab'[s] = tab[s] /\ req'[s] = req[s] /\ poll'[s] = poll[s]
      BY <2>2 DEF TypeInv, TypeOK
    <3> QED BY <3>1 DEF PageShape, TypeInv, Shape
  <2> QED BY <2>1, <2>2
<1> QED BY <1>1, <1>2 DEF TypeInv, Shape

\* A request of t that was sent: what it does and what it was sent from.
LEMMA SendTypes ==
    ASSUME TypeInv, NEW t \in Tab, NEW u \in Upload \cup {None},
           NEW do \in {"open", "gate", "upload", "predictor", "delmem", "delpred"},
           do \notin {"open", "gate"} => tab[t].page = "data_upload",
           do = "upload" => u \in Upload,
           Send(t, do, u), Stored'
    PROVE  TypeInv'
<1> DEFINE request == [do |-> do, up |-> u, seen |-> Needed(do)]
<1>1. Needed(do) \in Row
  BY DEF Needed, TypeInv, TypeOK, Row, Blank, File
<1>2. request \in Request /\ request.do = do /\ request.up = u
  BY <1>1 DEF Request
<1>3. /\ req' = [req EXCEPT ![t] = request]
      /\ tab' = tab /\ poll' = poll /\ calm' = calm
  BY DEF Send
<1>4. PageShape(tab[t], request, poll[t])
  BY <1>2, TabTypes DEF PageShape, Uploading
<1>5.  /\ tab[t] \in View /\ poll[t] \in Poll
      /\ tab' = [tab EXCEPT ![t] = tab[t]]
      /\ poll' = [poll EXCEPT ![t] = poll[t]]
  BY <1>3, TabTypes
<1>6. calm' \subseteq Tab
  BY <1>3 DEF TypeInv, TypeOK
<1> HIDE DEF request
<1> QED BY <1>2, <1>3, <1>4, <1>5, <1>6, OneTab

\* What a user does keeps the types,
LEMMA UserTypes ==
    ASSUME TypeInv, NEW t \in Tab, UserStep(t)
    PROVE  TypeInv'
<1>1. ASSUME NEW do \in {"open", "gate"}, OpenPage(t, do)
      PROVE  TypeInv'
  <2>1. Send(t, do, None) /\ UNCHANGED celery /\ moves' = moves + 1 /\ moves < MaxMoves
    BY <1>1 DEF OpenPage
  <2>2. Stored'
    BY <2>1, UploadPagesAssumption DEF TypeInv, TypeOK, Stored, Send
  <2> QED BY <2>1, <2>2, SendTypes
<1>2. CASE ChooseMembership(t)
  <2>1. PICK u \in Upload : /\ celery' = [celery EXCEPT ![u] = "none"]
                            /\ Send(t, "upload", u)
    BY <1>2 DEF ChooseMembership
  <2>2. tab[t].page = "data_upload" /\ UNCHANGED moves
    BY <1>2 DEF ChooseMembership, TypeInv, Shape, PageShape
  <2>3. Stored'
    BY <2>1, <2>2 DEF TypeInv, TypeOK, Stored, Send
  <2> QED BY <2>1, <2>2, <2>3, SendTypes
<1>3. ASSUME NEW do \in {"predictor", "delmem", "delpred"},
             NEW control \in {"upPred", "delMem", "delPred"}, Press(t, control, do)
      PROVE  TypeInv'
  <2>1. Send(t, do, None) /\ UNCHANGED <<celery, moves>> /\ tab[t].page = "data_upload"
    BY <1>3 DEF Press, TypeInv, Shape, PageShape
  <2>2. Stored'
    BY <2>1 DEF TypeInv, TypeOK, Stored, Send
  <2> QED BY <2>1, <2>2, SendTypes
<1> QED BY <1>1, <1>2, <1>3 DEF UserStep

\* An answer, a request that goes on, and a request that has no answer.
LEMMA ShowTypes ==
    ASSUME TypeInv, NEW t \in Tab, NEW view \in View, Stored', UNCHANGED poll,
           view.page # "data_upload" => view.on \subseteq {"poll", "next"},
           "poll" \in view.on => view.page \in {"data_upload", "wait"},
           req' = [req EXCEPT ![t] = NoRequest],
           tab' = [tab EXCEPT ![t] = view],
           calm' \subseteq Tab
    PROVE  TypeInv'
<1>1. PageShape(view, NoRequest, poll[t])
  BY FixedTypes, TabTypes DEF PageShape, Uploading
<1> QED BY <1>1, TabTypes, FixedTypes, OneTab

\* so does a page that shows an answer,
LEMMA AnswerTypes ==
    ASSUME TypeInv, NEW t \in Tab, Stored', UNCHANGED poll,
           tab[t].page = "data_upload",
           NEW plus \in SUBSET Control, NEW minus,
           \/ Answer(t, plus, minus)
           \/ \E sp \in {"PENDING", "RUNNING"} \cup Ended : AnswerSp(t, plus, minus, sp)
    PROVE  TypeInv'
<1>1. CASE Answer(t, plus, minus)
  <2>1. [tab[t] EXCEPT !.on = (@ \ minus) \cup plus] \in View
    BY TabTypes DEF View
  <2>2. [tab[t] EXCEPT !.on = (@ \ minus) \cup plus].page = "data_upload"
    BY TabTypes DEF View
  <2> QED BY <1>1, <2>1, <2>2, ShowTypes DEF Answer, Show, StillCalm, TypeInv, TypeOK
<1>2. ASSUME NEW sp \in {"PENDING", "RUNNING"} \cup Ended, AnswerSp(t, plus, minus, sp)
      PROVE  TypeInv'
  <2>1. [tab[t] EXCEPT !.on = (@ \ minus) \cup plus, !.sp = sp] \in View
    BY TabTypes DEF View
  <2>2. [tab[t] EXCEPT !.on = (@ \ minus) \cup plus, !.sp = sp].page = "data_upload"
    BY TabTypes DEF View
  <2> QED BY <1>2, <2>1, <2>2, ShowTypes DEF AnswerSp, Show, StillCalm, TypeInv, TypeOK
<1> QED BY <1>1, <1>2

\* a callback that moves on,
LEMMA GoesTypes ==
    ASSUME TypeInv, NEW t \in Tab, Stored', UNCHANGED <<tab, poll>>,
           \/ /\ req[t].do \in Uploading
              /\ \E do \in {"save", "name", "submit"} : Goes(t, do)
           \/ req[t].do = "predictor" /\ Goes(t, "keep")
    PROVE  TypeInv'
<1>1. PICK do \in {"save", "name", "submit", "keep"} :
        /\ Goes(t, do)
        /\ do # "keep" => req[t].do \in Uploading
        /\ req[t].do \in Uploading \cup {"predictor"}
  BY DEF Uploading
<1> DEFINE request == [req[t] EXCEPT !.do = do, !.seen = Blank]
<1>2. request \in Request /\ request.do = do /\ request.up = req[t].up
  BY FixedTypes, TabTypes DEF Request
<1>3. req' = [req EXCEPT ![t] = request] /\ calm' \subseteq Tab
  BY <1>1 DEF Goes, StillCalm, TypeInv, TypeOK
<1>4. PageShape(tab[t], request, poll[t])
  BY <1>1, <1>2, TabTypes DEF PageShape, Uploading
<1>5.  /\ tab[t] \in View /\ poll[t] \in Poll
      /\ tab' = [tab EXCEPT ![t] = tab[t]]
      /\ poll' = [poll EXCEPT ![t] = poll[t]]
  BY TabTypes
<1> HIDE DEF request
<1> QED BY <1>2, <1>3, <1>4, <1>5, OneTab

\* one that is dropped,
LEMMA DropTypes ==
    ASSUME TypeInv, NEW t \in Tab, Stored', UNCHANGED poll,
           \E kept \in BOOLEAN : Drop(t, kept)
    PROVE  TypeInv'
<1>1. PageShape(tab[t], NoRequest, poll[t])
  BY FixedTypes, TabTypes DEF PageShape, Uploading
<1>2. PICK kept \in BOOLEAN : Drop(t, kept)
  OBVIOUS
<1>3. /\ req' = [req EXCEPT ![t] = NoRequest] /\ UNCHANGED tab
      /\ calm' \subseteq Tab
  BY <1>2 DEF Drop, StillCalm, TypeInv, TypeOK
<1>4.  /\ tab[t] \in View /\ poll[t] \in Poll
      /\ tab' = [tab EXCEPT ![t] = tab[t]]
      /\ poll' = [poll EXCEPT ![t] = poll[t]]
  BY <1>3, TabTypes
<1> QED BY <1>1, <1>3, <1>4, FixedTypes, OneTab

\* a page that is rendered.
LEMMA RenderTypes ==
    ASSUME TypeInv, NEW t \in Tab, RenderPage(t)
    PROVE  TypeInv'
<1> DEFINE seen == req[t].seen
<1>1. seen \in Row /\ seen.sp \in SP
  BY TabTypes DEF Request, Row
<1>2. StatusOf(seen.sp) \in {"PENDING", "RUNNING"} \cup Ended /\ Synced(seen.sp) \in Row
  BY <1>1, StatusIs DEF TypeInv
<1>3. /\ req' = [req EXCEPT ![t] = NoRequest]
      /\ UNCHANGED <<celery, poll, moves>> /\ calm' \subseteq Tab
  BY DEF RenderPage, TypeInv, TypeOK
<1>4. PICK view : /\ tab' = [tab EXCEPT ![t] = view]
                  /\ \/ view = DataUploadPage(seen) /\ UNCHANGED row
                     \/ view = StreetPage(StatusOf(seen.sp)) /\ row' = Synced(seen.sp)
  BY DEF RenderPage
<1>5. Stored'
  BY <1>2, <1>3, <1>4 DEF Stored, TypeInv, TypeOK
<1>6. /\ view \in View
      /\ view.page # "data_upload" => view.on \subseteq {"poll", "next"}
      /\ "poll" \in view.on => view.page \in {"data_upload", "wait"}
  BY <1>1, <1>2, <1>4, PageTypes
<1> QED BY <1>3, <1>4, <1>5, <1>6, ShowTypes

\* The callback that deletes a membership keeps the types,
LEMMA DeleteMembershipTypes ==
    ASSUME TypeInv, NEW t \in Tab, DeleteMembership(t)
    PROVE  TypeInv'
<1>1. UNCHANGED <<poll, moves>> /\ tab[t].page = "data_upload"
  BY TabTypes DEF DeleteMembership, Does, PageShape
<1>2. /\ celery' \in [Upload -> {"none", "running", "ok", "failed"}]
      /\ row' \in Row
  BY DEF DeleteMembership, Revoked, ForgetUploads, Row, File, SP, TypeInv, TypeOK
<1>3. Stored'
  BY <1>1, <1>2 DEF Stored, TypeInv, TypeOK
<1>4. CASE \E kept \in BOOLEAN : Drop(t, kept)
  BY <1>1, <1>3, <1>4, DropTypes
<1>5. CASE Does(t, "upload") /\ Goes(t, "save") /\ UNCHANGED tab
  BY <1>1, <1>3, <1>5, GoesTypes DEF Does, Uploading
<1>6. CASE AnswerSp(t, {"upMem"}, Control, "PENDING")
  <2>1. {"upMem"} \in SUBSET Control
    BY DEF Control
  <2> QED BY <1>1, <1>3, <1>6, <2>1, AnswerTypes
<1> QED BY <1>4, <1>5, <1>6 DEF DeleteMembership

\* the one that saves the membership and names its task,
LEMMA SaveTypes ==
    ASSUME TypeInv, NEW t \in Tab, SaveMembership(t) \/ NameTask(t)
    PROVE  TypeInv'
<1>1. /\ UNCHANGED <<poll, moves, celery>> /\ tab[t].page = "data_upload"
      /\ req[t].do \in Uploading /\ req[t].up \in Upload
  BY TabTypes DEF SaveMembership, NameTask, Does, PageShape, Uploading
<1>2. row' \in Row
  BY <1>1 DEF SaveMembership, NameTask, WriteColumn, Row, File, SP, TypeInv, TypeOK
<1>3. Stored'
  BY <1>1, <1>2 DEF Stored, TypeInv, TypeOK
<1>4. CASE Answer(t, {}, {"next"})
  BY <1>1, <1>3, <1>4, AnswerTypes
<1>5. CASE \E do \in {"name", "submit"} : Goes(t, do) /\ UNCHANGED tab
  BY <1>1, <1>3, <1>5, GoesTypes
<1>6. CASE Drop(t, FALSE)
  BY <1>1, <1>3, <1>6, DropTypes
<1> QED BY <1>4, <1>5, <1>6 DEF SaveMembership, NameTask

\* and then sends it,
LEMMA SubmitTypes ==
    ASSUME TypeInv, NEW t \in Tab, SubmitTask(t)
    PROVE  TypeInv'
<1>1. /\ UNCHANGED <<poll, moves>> /\ tab[t].page = "data_upload"
      /\ req[t].up \in Upload
  BY TabTypes DEF SubmitTask, Does, PageShape, Uploading
<1>2. row' \in Row /\ celery' \in [Upload -> {"none", "running", "ok", "failed"}]
  BY <1>1 DEF SubmitTask, WriteColumn, Row, File, SP, Ended, TypeInv, TypeOK
<1>3. Stored'
  BY <1>1, <1>2 DEF Stored, TypeInv, TypeOK
<1>4. ASSUME NEW sp \in {"RUNNING", "FAILED"}, AnswerUpload(t, sp)
      PROVE  TypeInv'
  <2>1. {"mem", "delMem", "upPred"} \cup (IF sp = "RUNNING" THEN {"poll"} ELSE {})
            \in SUBSET Control
    BY DEF Control
  <2>2. sp \in {"PENDING", "RUNNING"} \cup Ended
    BY DEF Ended
  <2> QED BY <1>1, <1>3, <1>4, <2>1, <2>2, AnswerTypes DEF AnswerUpload
<1>5. CASE Drop(t, FALSE)
  BY <1>1, <1>3, <1>5, DropTypes
<1> QED BY <1>4, <1>5 DEF SubmitTask

\* the one of a predictor,
LEMMA PredictorTypes ==
    ASSUME TypeInv, NEW t \in Tab,
           CheckPredictor(t) \/ KeepPredictor(t) \/ DeletePredictor(t)
    PROVE  TypeInv'
<1>1. UNCHANGED <<poll, moves, celery>> /\ tab[t].page = "data_upload"
  BY TabTypes DEF CheckPredictor, KeepPredictor, DeletePredictor, Does, PageShape
<1>2. row' \in Row
  BY DEF CheckPredictor, KeepPredictor, DeletePredictor, Row, File, SP, TypeInv, TypeOK
<1>3. Stored'
  BY <1>1, <1>2 DEF Stored, TypeInv, TypeOK
<1>4. ASSUME NEW plus \in {{}, {"next", "pred", "delPred"}, {"upPred"}}, NEW minus,
             Answer(t, plus, minus)
      PROVE  TypeInv'
  <2>1. plus \in SUBSET Control
    BY DEF Control
  <2> QED BY <1>1, <1>3, <1>4, <2>1, AnswerTypes
<1>5. CASE req[t].do = "predictor" /\ Goes(t, "keep") /\ UNCHANGED tab
  BY <1>1, <1>3, <1>5, GoesTypes
<1>6. CASE Drop(t, TRUE)
  BY <1>1, <1>3, <1>6, DropTypes
<1> QED BY <1>4, <1>5, <1>6 DEF CheckPredictor, KeepPredictor, DeletePredictor, Does

\* the poll of a page,
LEMMA PollTypes ==
    ASSUME TypeInv, NEW t \in Tab, StartPoll(t) \/ EndPoll(t)
    PROVE  TypeInv'
<1>1. CASE StartPoll(t)
  <2> DEFINE polled == [page |-> tab[t].page, sp |-> row.sp]
  <2>1. polled \in Poll /\ polled.page \in {"data_upload", "wait"}
    BY <1>1, TabTypes DEF StartPoll, PageShape, Poll, Stored, Row
  <2>2. /\ poll' = [poll EXCEPT ![t] = polled] /\ UNCHANGED <<tab, req>>
        /\ calm' \subseteq Tab /\ Stored'
    BY <1>1 DEF StartPoll, Stored, TypeInv, TypeOK
  <2>3. PageShape(tab[t], req[t], polled)
    BY <2>1, TabTypes DEF PageShape
  <2>4. /\ tab[t] \in View /\ req[t] \in Request
        /\ tab' = [tab EXCEPT ![t] = tab[t]]
        /\ req' = [req EXCEPT ![t] = req[t]]
    BY <2>2, TabTypes
  <2> HIDE DEF polled
  <2> QED BY <2>1, <2>2, <2>3, <2>4, OneTab
<1>2. CASE EndPoll(t)
  <2> DEFINE p == poll[t]
             answer == PollAnswer(p.page, StatusOf(p.sp))
             view == CASE tab[t].page # p.page -> tab[t]
                       [] tab[t].page = p.page /\ "page" \in DOMAIN answer -> answer
                       [] OTHER -> [tab[t] EXCEPT !.on = (@ \ {"poll"}) \cup answer.on,
                                                  !.sp = answer.sp]
  <2>1. /\ p \in Poll /\ p # NoPoll /\ p.page \in {"data_upload", "wait"} /\ p.sp \in SP
        /\ tab[t] \in View /\ PageShape(tab[t], req[t], p)
    BY <1>2, TabTypes DEF EndPoll, PageShape, Poll
  <2>2. /\ tab' = [tab EXCEPT ![t] = view] /\ row' = Synced(p.sp)
        /\ poll' = [poll EXCEPT ![t] = NoPoll] /\ UNCHANGED <<celery, req, moves, calm>>
    BY <1>2 DEF EndPoll
  <2>3. Stored'
    BY <2>1, <2>2, StatusIs DEF TypeInv, TypeOK, Stored
  <2>4. StatusOf(p.sp) \in {"PENDING", "RUNNING"} \cup Ended
    BY <2>1, StatusIs DEF TypeInv
  <2>5. \/ /\ "page" \in DOMAIN answer /\ answer = StreetPage("COMPLETED")
           /\ p.page = "wait"
        \/ /\ "page" \notin DOMAIN answer
           /\ answer.on \in {{}, {"poll"}}
           /\ answer.sp \in {"RUNNING"} \cup Ended
    BY <2>4 DEF PollAnswer, StreetPage, Ended
  <2> HIDE DEF answer
  <2>6. view \in View /\ PageShape(view, req[t], NoPoll)
    <3>1. CASE tab[t].page # p.page
      <4>1. view = tab[t]
        BY <3>1
      <4> HIDE DEF view
      <4> QED BY <4>1, <2>1 DEF PageShape
    <3>2. CASE tab[t].page = p.page /\ "page" \in DOMAIN answer
      <4>1. view = StreetPage("COMPLETED") /\ tab[t].page = "wait"
        BY <2>5, <3>2
      <4>2. "COMPLETED" \in {"PENDING", "RUNNING"} \cup Ended
        BY DEF Ended
      <4> HIDE DEF view
      <4> QED BY <4>1, <4>2, <2>1, PageTypes DEF PageShape
    <3>3. CASE tab[t].page = p.page /\ "page" \notin DOMAIN answer
      <4>1. view = [tab[t] EXCEPT !.on = (@ \ {"poll"}) \cup answer.on, !.sp = answer.sp]
        BY <3>3
      <4>2. /\ view.page = p.page /\ view.sp = answer.sp
            /\ view.on = (tab[t].on \ {"poll"}) \cup answer.on
            /\ view \in View
        BY <4>1, <2>1, <2>5, <3>3 DEF View, Control
      <4> HIDE DEF view
      <4> QED BY <4>2, <2>1, <2>5, <3>3 DEF PageShape
    <3> QED BY <3>1, <3>2, <3>3
  <2>7. /\ NoPoll \in Poll /\ req[t] \in Request
        /\ req' = [req EXCEPT ![t] = req[t]] /\ calm' \subseteq Tab
    BY <2>2, TabTypes, FixedTypes DEF Poll, TypeInv, TypeOK
  <2> HIDE DEF view
  <2> QED BY <2>2, <2>3, <2>6, <2>7, OneTab
<1> QED BY <1>1, <1>2

\* the upload task and the rest.
LEMMA RestTypes ==
    ASSUME TypeInv, (\E u \in Upload : EndTask(u)) \/ StartRun \/ ResetRun
    PROVE  TypeInv'
<1>1. TypeOK'
  <2>1. ASSUME NEW u \in Upload, EndTask(u) PROVE TypeOK'
    BY <2>1 DEF EndTask, TypeInv, TypeOK, Row, SP, Ended
  <2>2. CASE StartRun
    BY <2>2, UploadPagesAssumption DEF StartRun, TypeInv, TypeOK, Row
  <2>3. CASE ResetRun
    BY <2>3 DEF ResetRun, TypeInv, TypeOK, Row
  <2> QED BY <2>1, <2>2, <2>3
<1>2. UNCHANGED <<tab, req, poll>>
  BY DEF EndTask, StartRun, ResetRun
<1> QED BY <1>1, <1>2 DEF TypeInv, Shape, PageShape

\* Every step keeps the types.
LEMMA TypeStep == TypeInv /\ [Next]_vars => TypeInv'
<1> SUFFICES ASSUME TypeInv, [Next]_vars PROVE TypeInv'
  OBVIOUS
<1>1. ASSUME NEW t \in Tab, RequestStep(t)
      PROVE  TypeInv'
  BY <1>1, RenderTypes, DeleteMembershipTypes, SaveTypes, SubmitTypes, PredictorTypes
     DEF RequestStep
<1>2. CASE UNCHANGED vars
  BY <1>2 DEF vars, TypeInv, TypeOK, Shape, PageShape
<1> QED BY <1>1, <1>2, UserTypes, PollTypes, RestTypes DEF Next

\* The types; behind them, what the pages' forms send: a request about files is one of
\* the data upload page, only that page and the waiting one poll.
THEOREM TypeCorrect == Spec => []TypeOK
<1>1. TypeInv => TypeOK
  BY DEF TypeInv
<1> QED BY TypeInit, TypeStep, <1>1, PTL DEF Spec

-----------------------------------------------------------------------------
(* The row and the uploads that are not sent yet *)

\* An upload's task is written to the row when it is named there, and its end
\* when the row still names it.
LEMMA RowStep ==
    ASSUME TypeInv, RowInv, [Next]_vars
    PROVE  RowInv'
<1>1. ASSUME NEW sp \in SP, row' = Synced(sp)
      PROVE  RowInv'
  <2>1. \/ row' = row
        \/ row.sp \in Upload /\ row' = [row EXCEPT !.sp = StatusOf(sp)]
    BY <1>1, StatusIs DEF TypeInv
  <2> QED BY <2>1, UploadPagesAssumption DEF RowInv, TypeInv, TypeOK, Row
<1>2. ASSUME NEW t \in Tab, RequestStep(t)
      PROVE  RowInv'
  <2>1. CASE RenderPage(t)
    <3>1. req[t].seen.sp \in SP
      BY TabTypes DEF Request, Row
    <3> QED BY <1>1, <2>1, <3>1 DEF RenderPage, RowInv
  <2>2. CASE DeleteMembership(t)
    BY <2>2 DEF DeleteMembership, ForgetUploads, RowInv, TypeInv, TypeOK, Row
  <2>3. CASE SaveMembership(t) \/ NameTask(t) \/ SubmitTask(t)
    BY <2>3 DEF SaveMembership, NameTask, SubmitTask, WriteColumn, RowInv, TypeInv, TypeOK,
                Row, File
  <2>4. CASE CheckPredictor(t) \/ KeepPredictor(t) \/ DeletePredictor(t)
    BY <2>4 DEF CheckPredictor, KeepPredictor, DeletePredictor, RowInv, TypeInv, TypeOK, Row
  <2> QED BY <1>2, <2>1, <2>2, <2>3, <2>4 DEF RequestStep
<1>3. ASSUME NEW t \in Tab, UserStep(t) \/ StartPoll(t)
      PROVE  RowInv'
  BY <1>3 DEF UserStep, OpenPage, ChooseMembership, Press, Send, StartPoll, RowInv
<1>4. ASSUME NEW t \in Tab, EndPoll(t)
      PROVE  RowInv'
  <2>1. poll[t].sp \in SP
    BY TabTypes DEF Poll
  <2> QED BY <1>1, <1>4, <2>1 DEF EndPoll
<1>5. ASSUME NEW u \in Upload, EndTask(u)
      PROVE  RowInv'
  BY <1>5, UploadPagesAssumption DEF EndTask, RowInv, TypeInv, TypeOK, Row
<1>6. CASE StartRun \/ ResetRun \/ UNCHANGED vars
  BY <1>6 DEF StartRun, ResetRun, vars, RowInv, TypeInv, TypeOK, Row
<1> QED BY <1>2, <1>3, <1>4, <1>5, <1>6 DEF Next

\* A task id is new when it is chosen, and forgotten when the task is sent.
LEMMA UnsentStep ==
    ASSUME TypeInv, UnsentInv, [Next]_vars
    PROVE  UnsentInv'
<1>1. ASSUME UNCHANGED req,
             \A u \in Upload : celery[u] = "none" => celery'[u] = "none"
      PROVE  UnsentInv'
  BY <1>1 DEF UnsentInv, TypeInv, Shape, PageShape
<1>2. ASSUME NEW t \in Tab, NEW request \in Request,
             req' = [req EXCEPT ![t] = request],
             \/ request.do \notin Uploading /\ request.up \notin Upload
             \/ req[t].do \in Uploading /\ request.up = req[t].up
             \/ request.do \notin Uploading /\ request.up = req[t].up,
             \A u \in Upload :
                celery[u] = "none" =>
                    \/ celery'[u] = "none"
                    \/ u = req[t].up /\ request.do \notin Uploading
      PROVE  UnsentInv'
  BY <1>2 DEF UnsentInv, TypeInv, TypeOK, Shape, PageShape
<1>3. ASSUME NEW t \in Tab, RequestStep(t)
      PROVE  UnsentInv'
  <2>1. \/ req' = [req EXCEPT ![t] = NoRequest]
        \/ /\ UNCHANGED celery \/ celery' = Revoked(req[t].seen.sp)
           /\ \/ \E do \in {"save", "name", "submit"} :
                    req[t].do \in Uploading /\ Goes(t, do)
              \/ Goes(t, "keep")
    BY <1>3
       DEF RequestStep, RenderPage, DeleteMembership, SaveMembership, NameTask,
           SubmitTask, CheckPredictor, KeepPredictor, DeletePredictor, Answer, AnswerSp,
           AnswerUpload, Show, Drop, Does, Uploading
  <2>2. ASSUME NEW u \in Upload, celery[u] = "none"
        PROVE  \/ celery'[u] = "none"
               \/ u = req[t].up /\ req' = [req EXCEPT ![t] = NoRequest]
    BY <1>3, <2>2
       DEF RequestStep, RenderPage, DeleteMembership, SaveMembership, NameTask,
           SubmitTask, CheckPredictor, KeepPredictor, DeletePredictor, AnswerUpload,
           AnswerSp, Show, Revoked, TypeInv, TypeOK
  <2>3. CASE req' = [req EXCEPT ![t] = NoRequest]
    <3>1. /\ NoRequest \in Request
          /\ NoRequest.do \notin Uploading /\ NoRequest.up \notin Upload
      BY FixedTypes, UploadPagesAssumption DEF Uploading
    <3> QED BY <1>2, <2>2, <2>3, <3>1
  <2>4. ASSUME NEW do \in {"save", "name", "submit", "keep"}, Goes(t, do),
               do # "keep" => req[t].do \in Uploading,
               UNCHANGED celery \/ celery' = Revoked(req[t].seen.sp)
        PROVE  UnsentInv'
    <3> DEFINE request == [req[t] EXCEPT !.do = do, !.seen = Blank]
    <3>1. request \in Request /\ request.do = do /\ request.up = req[t].up
      BY FixedTypes, TabTypes DEF Request
    <3>2. req' = [req EXCEPT ![t] = request]
      BY <2>4 DEF Goes
    <3>3. \A u \in Upload : celery[u] = "none" => celery'[u] = "none"
      BY <2>4 DEF Revoked
    <3> HIDE DEF request
    <3>4. \/ req[t].do \in Uploading /\ request.up = req[t].up
          \/ request.do \notin Uploading /\ request.up = req[t].up
      BY <2>4, <3>1 DEF Uploading
    <3> QED BY <1>2, <3>1, <3>2, <3>3, <3>4
  <2> QED BY <2>1, <2>3, <2>4
<1>4. ASSUME NEW t \in Tab, UserStep(t)
      PROVE  UnsentInv'
  <2>1. CASE ChooseMembership(t)
    <3>1. PICK u \in Upload : /\ ~InUse(u)
                              /\ celery' = [celery EXCEPT ![u] = "none"]
                              /\ Send(t, "upload", u)
      BY <2>1 DEF ChooseMembership
    <3>2. req'[t].up = u /\ celery'[u] = "none"
      BY <3>1 DEF Send, TypeInv, TypeOK
    <3>3. \A s \in Tab : s # t => req'[s] = req[s] /\ req[s].up # u
      BY <3>1 DEF Send, InUse, TypeInv, TypeOK
    <3>4. \A v \in Upload : celery[v] = "none" => celery'[v] = "none"
      BY <3>1 DEF TypeInv, TypeOK
    <3> QED BY <3>2, <3>3, <3>4 DEF UnsentInv, TypeInv, Shape, PageShape
  <2>2. ASSUME NEW do \in {"open", "gate", "predictor", "delmem", "delpred"},
               Send(t, do, None), UNCHANGED celery
        PROVE  UnsentInv'
    <3> DEFINE request == [do |-> do, up |-> None, seen |-> Needed(do)]
    <3>1. Needed(do) \in Row
      BY DEF Needed, TypeInv, TypeOK, Row, Blank, File
    <3>2. /\ request \in Request /\ request.do \notin Uploading
          /\ request.up \notin Upload
      BY <3>1, UploadPagesAssumption DEF Request, Uploading
    <3>3. req' = [req EXCEPT ![t] = request]
      BY <2>2 DEF Send
    <3> HIDE DEF request
    <3> QED BY <1>2, <2>2, <3>2, <3>3
  <2> QED BY <1>4, <2>1, <2>2 DEF UserStep, OpenPage, Press
<1>5. ASSUME NEW t \in Tab, StartPoll(t) \/ EndPoll(t)
      PROVE  UnsentInv'
  BY <1>1, <1>5 DEF StartPoll, EndPoll
<1>6. CASE (\E u \in Upload : EndTask(u)) \/ StartRun \/ ResetRun \/ UNCHANGED vars
  BY <1>1, <1>6 DEF EndTask, StartRun, ResetRun, vars, TypeInv, TypeOK
<1> QED BY <1>3, <1>4, <1>5, <1>6 DEF Next

-----------------------------------------------------------------------------
(* Calm pages *)

\* What a step leaves of a tab, of the row and of an upload that is over, when
\* it is none of the tab's own.
Aside(t) == tab'[t] = tab[t] /\ req'[t] = req[t] /\ poll'[t] = poll[t]

RowEnds ==
    \/ row' = row
    \/ /\ row.sp \in Upload
       /\ \/ celery'[row.sp] = "ok" /\ row' = [row EXCEPT !.sp = "COMPLETED"]
          \/ celery'[row.sp] = "failed" /\ row' = [row EXCEPT !.sp = "FAILED"]

EndStays(t) ==
    poll[t].sp \in Upload /\ celery[poll[t].sp] \in {"ok", "failed"} =>
        celery'[poll[t].sp] = celery[poll[t].sp]

\* A page that agrees with the row still does when an upload's end is written.
LEMMA AgreesKept ==
    ASSUME TypeInv, NEW view \in View, Agrees(view, row), RowEnds
    PROVE  Agrees(view, row')
<1>1. CASE row' = row
  BY <1>1
<1>2. ASSUME NEW e \in Ended, row.sp \in Upload, row' = [row EXCEPT !.sp = e]
      PROVE  Agrees(view, row')
  <2>1. /\ row'.mem = row.mem /\ row'.pred = row.pred /\ row'.status = row.status
        /\ row'.sp = e /\ e \notin Upload
    BY <1>2, UploadPagesAssumption DEF TypeInv, TypeOK, Row
  <2>2. \A c \in Control \ {"poll"} : c \in Controls(row') <=> c \in Controls(row)
    BY <2>1, ControlsAre DEF Control
  <2> QED BY <1>2, <2>1, <2>2 DEF Agrees
<1> QED BY <1>1, <1>2 DEF RowEnds, Ended

\* So does a poll.
LEMMA PollAgreesKept ==
    ASSUME TypeInv, NEW t \in Tab, PollAgrees(poll[t], row), RowEnds, EndStays(t),
           poll'[t] = poll[t]
    PROVE  PollAgrees(poll[t], row)'
<1> DEFINE sp == poll[t].sp
<1>1. sp \in SP /\ poll'[t].sp = sp
  BY TabTypes DEF Poll
<1>2. CASE row' = row /\ row.sp = sp
  BY <1>1, <1>2 DEF PollAgrees
<1>3. CASE row' = row /\ row.sp # sp
  <2>1. sp \in Upload /\ StatusOf(sp) \in Ended /\ row.sp = StatusOf(sp)
    BY <1>3 DEF PollAgrees
  <2>2. celery[sp] \in {"ok", "failed"} /\ celery'[sp] = celery[sp]
    BY <2>1 DEF StatusOf, Ended, EndStays
  <2> QED BY <1>1, <1>3, <2>1, <2>2 DEF PollAgrees, StatusOf
<1>4. CASE row' # row
  <2>1. row.sp \in Upload
    BY <1>4 DEF RowEnds
  <2>2. row.sp = sp
    BY <2>1, UploadPagesAssumption DEF PollAgrees
  <2>3. \/ celery'[sp] = "ok" /\ row'.sp = "COMPLETED"
        \/ celery'[sp] = "failed" /\ row'.sp = "FAILED"
    BY <1>4, <2>2 DEF RowEnds, TypeInv, TypeOK, Row
  <2> QED BY <1>1, <2>1, <2>2, <2>3 DEF PollAgrees, StatusOf, Ended
<1> QED BY <1>2, <1>3, <1>4

\* A calm page stays as it is while others move.
LEMMA AsideKeeps ==
    ASSUME TypeInv, NEW t \in Tab, CalmPage(t), Aside(t), RowEnds, EndStays(t)
    PROVE  CalmPage(t)'
<1>1. /\ row'.mem = row.mem /\ row'.pred = row.pred /\ row'.status = row.status
  BY DEF RowEnds, TypeInv, TypeOK, Row
<1>2. CASE req[t].do \in {"name", "submit"}
  BY <1>1, <1>2 DEF CalmPage, Aside
<1>3. CASE req[t].do \notin {"name", "submit"}
  <2>1. Agrees(tab[t], row) /\ tab[t] \in View
    BY <1>3, TabTypes DEF CalmPage
  <2>2. Agrees(tab[t], row)'
    BY <2>1, AgreesKept DEF Aside, Agrees
  <2>3. (poll[t] # NoPoll)' => PollAgrees(poll[t], row)'
    BY <1>3, PollAgreesKept DEF CalmPage, Aside
  <2> QED BY <1>1, <1>3, <2>2, <2>3 DEF CalmPage, Aside
<1> QED BY <1>2, <1>3

\* A step of tab t: the others' pages are left alone, t's own is to be shown.
LEMMA CalmByTab ==
    ASSUME TypeInv, CalmInv, NEW t \in Tab, calm' \subseteq Tab,
           \A s \in Tab : s # t => Aside(s) /\ EndStays(s),
           \A s \in calm' : s # t => s \in calm /\ RowEnds,
           t \in calm' /\ (tab[t].page = "data_upload")' => CalmPage(t)'
    PROVE  CalmInv'
<1>1. ASSUME NEW s \in calm', (tab[s].page = "data_upload")'
      PROVE  CalmPage(s)'
  <2>1. CASE s = t
    BY <1>1, <2>1
  <2>2. CASE s # t
    <3>1. s \in Tab /\ s \in calm /\ Aside(s) /\ RowEnds /\ EndStays(s)
      BY <1>1, <2>2
    <3>2. CalmPage(s)
      BY <1>1, <3>1 DEF CalmInv, Aside
    <3> QED BY <3>1, <3>2, AsideKeeps
  <2> QED BY <2>1, <2>2
<1> QED BY <1>1 DEF CalmInv

\* What is written when Celery is asked.
LEMMA SyncedEnds ==
    ASSUME TypeInv, NEW sp \in SP, row' = Synced(sp), UNCHANGED celery
    PROVE  RowEnds
<1>1. CASE sp \in Upload /\ row.sp = sp /\ StatusOf(sp) \in Ended
  <2>1. \/ celery'[sp] = "ok" /\ StatusOf(sp) = "COMPLETED"
        \/ celery'[sp] = "failed" /\ StatusOf(sp) = "FAILED"
    BY <1>1 DEF StatusOf, Ended
  <2> QED BY <1>1, <2>1 DEF Synced, RowEnds
<1>2. CASE ~(sp \in Upload /\ row.sp = sp /\ StatusOf(sp) \in Ended)
  BY <1>2 DEF Synced, RowEnds
<1> QED BY <1>1, <1>2

\* The tab's own steps leave the pages of the others alone.
LEMMA SendOthers ==
    ASSUME TypeInv, NEW t \in Tab, UserStep(t)
    PROVE  /\ UNCHANGED <<row, tab, poll, calm>>
           /\ req[t] = NoRequest
           /\ \A s \in Tab : EndStays(s) /\ (s # t => Aside(s))
           /\ \A s \in calm' : s \in calm /\ RowEnds
<1>1. PICK do \in {"open", "gate", "upload", "predictor", "delmem", "delpred"},
           u \in Upload \cup {None} : Send(t, do, u)
  BY DEF UserStep, OpenPage, ChooseMembership, Press
<1>2. UNCHANGED <<row, tab, poll, calm>> /\ req[t] = NoRequest
  BY <1>1 DEF Send
<1>3. \A s \in Tab : s # t => Aside(s)
  BY <1>1, <1>2 DEF Send, Aside, TypeInv, TypeOK
<1>4. ASSUME NEW s \in Tab PROVE EndStays(s)
  <2>1. CASE UNCHANGED celery
    BY <2>1 DEF EndStays
  <2>2. CASE ChooseMembership(t)
    BY <2>2 DEF ChooseMembership, InUse, EndStays, TypeInv, TypeOK
  <2> QED BY <2>1, <2>2 DEF UserStep, OpenPage, Press
<1> QED BY <1>2, <1>3, <1>4 DEF RowEnds

\* A callback's step leaves the other callbacks and pages.
LEMMA RequestOthers ==
    ASSUME TypeInv, UnsentInv, NEW t \in Tab, RequestStep(t)
    PROVE  /\ UNCHANGED poll
           /\ \A s \in Tab : EndStays(s) /\ (s # t => Aside(s))
           /\ \A s \in calm' : s # t => s \in calm /\ RowEnds
<1>1. UNCHANGED poll
  BY DEF RequestStep, RenderPage, DeleteMembership, SaveMembership, NameTask,
         SubmitTask, CheckPredictor, KeepPredictor, DeletePredictor
<1>2. ASSUME NEW s \in Tab, s # t PROVE Aside(s)
  BY <1>1, <1>2
     DEF RequestStep, RenderPage, DeleteMembership, SaveMembership, NameTask,
         SubmitTask, CheckPredictor, KeepPredictor, DeletePredictor, Answer, AnswerSp,
         AnswerUpload, Show, Drop, Goes, Aside, TypeInv, TypeOK
<1>3. ASSUME NEW s \in Tab PROVE EndStays(s)
  <2>1. CASE UNCHANGED celery
    BY <2>1 DEF EndStays
  <2>2. CASE celery' = Revoked(req[t].seen.sp)
    BY <2>2 DEF Revoked, EndStays
  <2>3. CASE SubmitTask(t)
    <3>1. celery[req[t].up] = "none"
      BY <2>3 DEF SubmitTask, Does, UnsentInv, Uploading
    <3> QED BY <2>3, <3>1 DEF SubmitTask, EndStays, TypeInv, TypeOK
  <2> QED BY <2>1, <2>2, <2>3
        DEF RequestStep, RenderPage, DeleteMembership, SaveMembership, NameTask,
            CheckPredictor, KeepPredictor, DeletePredictor
<1>4. ASSUME NEW s \in calm', s # t PROVE s \in calm /\ RowEnds
  <2>1. CASE RenderPage(t)
    <3>1. req[t].seen.sp \in SP
      BY TabTypes DEF Request, Row
    <3>2. s \in calm
      BY <1>4, <2>1 DEF RenderPage
    <3>3. row' = row \/ row' = Synced(req[t].seen.sp)
      BY <2>1 DEF RenderPage
    <3> QED BY <2>1, <3>1, <3>2, <3>3, SyncedEnds DEF RenderPage, RowEnds
  <2>2. ASSUME NEW kept \in BOOLEAN, StillCalm(t, kept)
        PROVE  s \in calm /\ RowEnds
    BY <1>4, <2>2 DEF StillCalm, RowEnds
  <2> QED BY <2>1, <2>2
        DEF RequestStep, DeleteMembership, SaveMembership, NameTask,
            SubmitTask, CheckPredictor, KeepPredictor, DeletePredictor, Answer, AnswerSp,
            AnswerUpload, Show, Drop, Goes
<1> QED BY <1>1, <1>2, <1>3, <1>4

\* What a tab asks for, it asks for from the page it shows.
LEMMA UserCalm ==
    ASSUME TypeInv, TypeInv', PagesInv, NEW t \in Tab, UserStep(t)
    PROVE  CalmInv'
<1>1. ASSUME t \in calm', (tab[t].page = "data_upload")'
      PROVE  CalmPage(t)'
  <2>1. /\ CalmPage(t) /\ req[t].do = "none"
        /\ UNCHANGED <<row, tab, poll>>
    BY <1>1, SendOthers, FixedTypes DEF PagesInv, CalmInv
  <2>2. /\ req'[t].do \notin {"name", "submit", "save", "keep"}
        /\ req'[t].do = "upload" => "upMem" \in tab[t].on
        /\ req'[t].do = "predictor" => "upPred" \in tab[t].on
        /\ req'[t].do = "delpred" => "delPred" \in tab[t].on
    BY DEF UserStep, OpenPage, ChooseMembership, Press, Send, TypeInv, TypeOK
  <2>3. PollAgrees(poll[t], row) => PollAgrees(poll[t], row)'
    <3>1. EndStays(t) /\ RowEnds
      BY <1>1, SendOthers
    <3> QED BY <2>1, <3>1, PollAgreesKept
  <2> QED BY <2>1, <2>2, <2>3 DEF CalmPage, Agrees
<1>2. calm' \subseteq Tab
  BY DEF TypeInv, TypeOK
<1> QED BY <1>1, <1>2, SendOthers, CalmByTab DEF PagesInv

\* A page that layout has just rendered.
LEMMA RenderCalm ==
    ASSUME TypeInv, NEW t \in Tab, RenderPage(t),
           t \in calm', (tab[t].page = "data_upload")'
    PROVE  CalmPage(t)'
<1> DEFINE seen == req[t].seen
<1>1. /\ seen \in Row /\ seen.sp \in SP
      /\ StatusOf(seen.sp) \in {"PENDING", "RUNNING"} \cup Ended
  BY TabTypes, StatusIs DEF Request, Row, TypeInv
<1>2. /\ Unchanged(seen) /\ poll[t] = NoPoll /\ UNCHANGED poll
      /\ seen.pred = "uploaded" => seen.mem = "uploaded"
  BY DEF RenderPage
<1>3. Does(t, "open") /\ UNCHANGED row /\ tab'[t] = DataUploadPage(seen)
  BY <1>1, PageTypes DEF RenderPage, TypeInv, TypeOK
<1>4. /\ row.mem = seen.mem /\ row.pred = seen.pred /\ row.status = seen.status
      /\ seen.sp \notin Upload => row.sp = seen.sp
      /\ row.sp \in Upload => row.sp = seen.sp
  BY <1>1, <1>2, UploadPagesAssumption DEF Unchanged, Row
<1>5. \A c \in Control \ {"poll"} : c \in Controls(seen) <=> c \in Controls(row)
  BY <1>4, ControlsAre DEF Control
<1>6. Agrees(DataUploadPage(seen), row)
  <2>1. /\ DataUploadPage(seen).on = Controls(seen)
        /\ DataUploadPage(seen).sp = Shown(seen.sp)
    BY DEF DataUploadPage
  <2> QED BY <1>4, <1>5, <2>1, ControlsAre DEF Agrees
<1>7. req'[t] = NoRequest
  BY DEF RenderPage, TypeInv, TypeOK
<1> QED BY <1>2, <1>3, <1>4, <1>6, <1>7, FixedTypes DEF CalmPage, Agrees

\* A tab whose request is dropped shows what it showed.
LEMMA DropCalm ==
    ASSUME TypeInv, NEW t \in Tab, CalmPage(t), req[t].do \notin {"name", "submit"},
           UNCHANGED <<row, poll>>, EndStays(t),
           tab'[t] = tab[t], req'[t] = NoRequest
    PROVE  CalmPage(t)'
<1>1. PollAgrees(poll[t], row) => PollAgrees(poll[t], row)'
  BY PollAgreesKept DEF RowEnds
<1> QED BY <1>1, FixedTypes DEF CalmPage, Agrees

\* A tab that has had its answer agrees with the row if its controls do.
LEMMA AnswerCalm ==
    ASSUME TypeInv, NEW t \in Tab, UNCHANGED poll, poll[t] = NoPoll,
           req'[t] = NoRequest, Agrees(tab'[t], row'),
           row'.pred = "uploaded" => row'.mem = "uploaded"
    PROVE  CalmPage(t)'
BY FixedTypes DEF CalmPage, Agrees

\* A calm page stays as its row, step by step: when a membership is deleted,
LEMMA DeleteMembershipCalm ==
    ASSUME TypeInv, PagesInv, NEW t \in Tab, DeleteMembership(t),
           t \in calm', (tab[t].page = "data_upload")'
    PROVE  CalmPage(t)'
<1>1. UNCHANGED poll /\ EndStays(t)
  BY RequestOthers DEF RequestStep, PagesInv
<1>2. /\ req[t].do \in {"upload", "delmem"} /\ tab[t].page = "data_upload"
      /\ tab[t] \in View
  BY TabTypes DEF DeleteMembership, Does, PageShape
<1>3. t \in calm
  BY DEF DeleteMembership, Drop, Goes, AnswerSp, Show, StillCalm
<1>4. CalmPage(t)
  BY <1>2, <1>3 DEF PagesInv, CalmInv
<1>5. CASE UNCHANGED <<row, tab>> /\ Drop(t, TRUE)
  <2>1. tab'[t] = tab[t] /\ req'[t] = NoRequest
    BY <1>5 DEF Drop, TypeInv, TypeOK
  <2> QED BY <1>1, <1>2, <1>4, <1>5, <2>1, DropCalm
<1>6. CASE Does(t, "upload") /\ row.status = "PENDING" /\ ForgetUploads
           /\ Goes(t, "save") /\ UNCHANGED tab
  <2>1. "upMem" \in tab[t].on /\ Agrees(tab[t], row)
    BY <1>4, <1>6 DEF CalmPage, Does
  <2>2. row.mem = "none" /\ row.sp = "PENDING" /\ row.pred = "none"
    BY <1>4, <2>1, ControlsAre
       DEF Agrees, Control, CalmPage, PagesInv, RowInv, TypeInv, TypeOK, Row, File
  <2>3. row' = row
    BY <1>6, <2>2 DEF ForgetUploads, TypeInv, TypeOK, Row
  <2>4. req'[t].do = "save" /\ tab'[t] = tab[t]
    BY <1>6 DEF Goes, TypeInv, TypeOK, Request
  <2>5. PollAgrees(poll[t], row) => PollAgrees(poll[t], row)'
    BY <1>1, <2>3, PollAgreesKept DEF RowEnds
  <2> QED BY <1>1, <1>4, <1>6, <2>1, <2>3, <2>4, <2>5 DEF CalmPage, Agrees, Does
<1>7. CASE row.status = "PENDING" /\ ForgetUploads
           /\ AnswerSp(t, {"upMem"}, Control, "PENDING")
  <2>1. /\ row'.mem = "none" /\ row'.pred = "none" /\ row'.sp = "PENDING"
    BY <1>7 DEF ForgetUploads, TypeInv, TypeOK, Row
  <2>2. /\ tab'[t].on = {"upMem"} /\ tab'[t].sp = "PENDING"
        /\ req'[t] = NoRequest
        /\ poll[t] = NoPoll
    BY <1>2, <1>7 DEF AnswerSp, Show, StillCalm, View, TypeInv, TypeOK
  <2>3. Agrees(tab'[t], row')
    BY <2>1, <2>2, ControlsAre, UploadPagesAssumption DEF Agrees, Control, Shown
  <2> QED BY <1>1, <2>1, <2>2, <2>3, AnswerCalm
<1> QED BY <1>5, <1>6, <1>7 DEF DeleteMembership, Drop

\* Between the two writes of an upload and its answer the page is behind.
LEMMA SaveCalm ==
    ASSUME TypeInv, PagesInv, NEW t \in Tab, SaveMembership(t),
           t \in calm', (tab[t].page = "data_upload")'
    PROVE  CalmPage(t)'
<1>1. UNCHANGED poll
  BY DEF SaveMembership
<1>2. req[t].do = "save" /\ tab[t].page = "data_upload" /\ tab[t] \in View
  BY TabTypes DEF SaveMembership, Does, PageShape
<1>3. t \in calm
  BY DEF SaveMembership, Drop, Goes, Answer, Show, StillCalm
<1>4. CalmPage(t) /\ "upMem" \in tab[t].on /\ Agrees(tab[t], row)
  BY <1>2, <1>3 DEF PagesInv, CalmInv, CalmPage
<1>5. /\ row.mem = "none" /\ row.pred = "none"
  BY <1>4, ControlsAre DEF Agrees, Control, CalmPage, TypeInv, TypeOK, Row, File
<1>6. CASE UNCHANGED row /\ Answer(t, {}, {"next"})
  <2>1. /\ tab'[t].on = tab[t].on \ {"next"} /\ tab'[t].sp = tab[t].sp
        /\ req'[t] = NoRequest
        /\ poll[t] = NoPoll
    BY <1>2, <1>6 DEF Answer, Show, StillCalm, View, TypeInv, TypeOK
  <2>2. Agrees(tab'[t], row')
    BY <1>4, <1>5, <1>6, <2>1, ControlsAre DEF Agrees
  <2> QED BY <1>1, <1>5, <1>6, <2>1, <2>2, AnswerCalm
<1>7. CASE row.status = "PENDING" /\ row' = [row EXCEPT !.mem = "uploaded", !.sp = "PENDING"]
           /\ Goes(t, "name") /\ UNCHANGED tab
  <2>1. /\ row'.mem = "uploaded" /\ row'.pred = "none" /\ row'.status = "PENDING"
    BY <1>5, <1>7 DEF TypeInv, TypeOK, Row
  <2>2. req'[t].do = "name" /\ tab'[t] = tab[t]
    BY <1>7 DEF Goes, TypeInv, TypeOK, Request
  <2>3. \A c \in Control \ {"poll"} : c \in tab[t].on <=> c = "upMem"
    BY <1>4, <1>5, ControlsAre DEF Agrees, Control
  <2>4. tab[t].on \ {"poll"} = {"upMem"}
    BY <1>2, <1>4, <2>3 DEF View
  <2> QED BY <2>1, <2>2, <2>4 DEF CalmPage
<1>8. CASE Drop(t, FALSE)
  BY <1>8 DEF Drop, StillCalm
<1> QED BY <1>6, <1>7, <1>8 DEF SaveMembership

\* when its task is named and sent,
LEMMA SubmitCalm ==
    ASSUME TypeInv, PagesInv, NEW t \in Tab, NameTask(t) \/ SubmitTask(t),
           t \in calm', (tab[t].page = "data_upload")'
    PROVE  CalmPage(t)'
<1>1. UNCHANGED poll
  BY DEF NameTask, SubmitTask
<1>2. /\ req[t].do \in {"name", "submit"} /\ tab[t].page = "data_upload"
      /\ tab[t] \in View /\ req[t].up \in Upload
  BY TabTypes DEF NameTask, SubmitTask, Does, PageShape, Uploading
<1>3. t \in calm
  BY DEF NameTask, SubmitTask, Drop, Goes, AnswerUpload, AnswerSp, Show, StillCalm
<1>4. /\ row.status = "PENDING" /\ row.mem = "uploaded" /\ row.pred = "none"
      /\ tab[t].on \ {"poll"} = {"upMem"}
  BY <1>2, <1>3 DEF PagesInv, CalmInv, CalmPage
<1>5. CASE NameTask(t)
  <2>1. /\ row'.mem = "uploaded" /\ row'.pred = "none" /\ row'.status = "PENDING"
    BY <1>4, <1>5 DEF NameTask, WriteColumn, TypeInv, TypeOK, Row
  <2>2. req'[t].do = "submit" /\ tab'[t] = tab[t]
    BY <1>5 DEF NameTask, Goes, TypeInv, TypeOK, Request
  <2> QED BY <1>4, <2>1, <2>2 DEF CalmPage
<1>6. ASSUME NEW sp \in {"RUNNING", "FAILED"}, AnswerUpload(t, sp),
             \/ sp = "RUNNING" /\ UNCHANGED row
             \/ sp = "FAILED" /\ WriteColumn("FAILED")
      PROVE  CalmPage(t)'
  <2>1. /\ row'.mem = "uploaded" /\ row'.pred = "none" /\ row'.status = "PENDING"
        /\ sp = "FAILED" => row'.sp = "FAILED"
    BY <1>4, <1>6 DEF WriteColumn, TypeInv, TypeOK, Row
  <2>2. /\ tab'[t].on = {"mem", "delMem", "upPred"}
                            \cup (IF sp = "RUNNING" THEN {"poll"} ELSE {})
        /\ tab'[t].sp = sp
        /\ req'[t] = NoRequest
        /\ poll[t] = NoPoll
    BY <1>2, <1>4, <1>6 DEF AnswerUpload, AnswerSp, Show, StillCalm, View, TypeInv, TypeOK
  <2>3. Agrees(tab'[t], row')
    BY <1>6, <2>1, <2>2, ControlsAre, UploadPagesAssumption DEF Agrees, Control, Shown, Ended
  <2> QED BY <1>1, <2>1, <2>2, <2>3, AnswerCalm
<1>7. CASE Drop(t, FALSE)
  BY <1>7 DEF Drop, StillCalm
<1> QED BY <1>5, <1>6, <1>7 DEF SubmitTask

\* when a predictor is checked, kept or deleted,
LEMMA PredictorCalm ==
    ASSUME TypeInv, PagesInv, NEW t \in Tab,
           CheckPredictor(t) \/ KeepPredictor(t) \/ DeletePredictor(t),
           t \in calm', (tab[t].page = "data_upload")'
    PROVE  CalmPage(t)'
<1>1. UNCHANGED <<poll, celery>> /\ EndStays(t)
  BY DEF CheckPredictor, KeepPredictor, DeletePredictor, EndStays
<1>2. /\ req[t].do \in {"predictor", "keep", "delpred"} /\ tab[t].page = "data_upload"
      /\ tab[t] \in View
  BY TabTypes DEF CheckPredictor, KeepPredictor, DeletePredictor, Does, PageShape
<1>3. t \in calm
  BY DEF CheckPredictor, KeepPredictor, DeletePredictor, Drop, Goes, Answer, Show, StillCalm
<1>4. CalmPage(t) /\ Agrees(tab[t], row)
      /\ (row.pred = "uploaded" => row.mem = "uploaded")
      /\ (req[t].do \in {"predictor", "keep"} => "upPred" \in tab[t].on)
      /\ (req[t].do = "delpred" => "delPred" \in tab[t].on)
  BY <1>2, <1>3 DEF PagesInv, CalmInv, CalmPage
<1>5. ASSUME NEW plus, NEW minus, Answer(t, plus, minus)
      PROVE  /\ tab'[t].on = (tab[t].on \ minus) \cup plus /\ tab'[t].sp = tab[t].sp
             /\ req'[t] = NoRequest
             /\ poll[t] = NoPoll
  BY <1>2, <1>5 DEF Answer, Show, StillCalm, View, TypeInv, TypeOK
<1>6. CASE UNCHANGED row /\ Drop(t, TRUE)
  <2>1. tab'[t] = tab[t] /\ req'[t] = NoRequest
    BY <1>6 DEF Drop, TypeInv, TypeOK
  <2> QED BY <1>1, <1>2, <1>4, <1>6, <2>1, DropCalm
<1>7. CASE CheckPredictor(t) /\ Answer(t, {}, {"next", "pred", "delPred"})
  <2>1. UNCHANGED row /\ req[t].do = "predictor"
    BY <1>7 DEF CheckPredictor, Does
  <2>2. row.pred # "uploaded"
    BY <1>4, <2>1, ControlsAre DEF Agrees, Control
  <2>3. Agrees(tab'[t], row')
    BY <1>4, <1>5, <1>7, <2>1, <2>2, ControlsAre DEF Agrees
  <2> QED BY <1>1, <1>4, <1>5, <1>7, <2>1, <2>3, AnswerCalm
<1>8. CASE CheckPredictor(t) /\ Goes(t, "keep") /\ UNCHANGED tab
  <2>1. UNCHANGED row /\ req[t].do = "predictor"
    BY <1>8 DEF CheckPredictor, Does
  <2>2. req'[t].do = "keep" /\ tab'[t] = tab[t]
    BY <1>8 DEF Goes, TypeInv, TypeOK, Request
  <2>3. PollAgrees(poll[t], row) => PollAgrees(poll[t], row)'
    BY <1>1, <2>1, PollAgreesKept DEF RowEnds
  <2> QED BY <1>1, <1>4, <2>1, <2>2, <2>3 DEF CalmPage, Agrees
<1>9. CASE KeepPredictor(t) /\ row.status = "PENDING"
           /\ row' = [row EXCEPT !.pred = "uploaded"]
           /\ Answer(t, {"next", "pred", "delPred"}, {"upPred"})
  <2>1. req[t].do = "keep"
    BY <1>9 DEF KeepPredictor, Does
  <2>2. /\ row.mem = "uploaded" /\ row'.mem = "uploaded" /\ row'.pred = "uploaded"
        /\ row'.status = "PENDING" /\ row.status = "PENDING" /\ row'.sp = row.sp
    BY <1>4, <1>9, <2>1, ControlsAre DEF Agrees, Control, TypeInv, TypeOK, Row
  <2>3. Agrees(tab'[t], row')
    <3>1. /\ tab'[t].on = (tab[t].on \ {"upPred"}) \cup {"next", "pred", "delPred"}
          /\ tab'[t].sp = tab[t].sp
      BY <1>5, <1>9
    <3>2. ASSUME NEW c \in Control \ {"poll"}
          PROVE  c \in tab'[t].on <=> c \in Controls(row')
      <4>1. CASE c \in {"upPred", "next", "pred", "delPred"}
        BY <2>2, <3>1, <4>1, ControlsAre
      <4>2. CASE c \in {"mem", "delMem", "upMem"}
        BY <1>4, <2>2, <3>1, <4>2, ControlsAre DEF Agrees
      <4> QED BY <4>1, <4>2 DEF Control
    <3> QED BY <1>4, <2>2, <3>1, <3>2 DEF Agrees
  <2> QED BY <1>1, <1>5, <1>9, <2>2, <2>3, AnswerCalm
<1>10. CASE DeletePredictor(t) /\ "PENDING" \in {req[t].seen.status} \cap {row.status}
            /\ row' = [row EXCEPT !.pred = "none"]
            /\ Answer(t, {"upPred"}, {"next", "pred", "delPred"})
  <2>1. req[t].do = "delpred"
    BY <1>10 DEF DeletePredictor, Does
  <2>2. /\ row.mem = "uploaded" /\ row'.mem = "uploaded" /\ row'.pred = "none"
        /\ row'.status = "PENDING" /\ row.status = "PENDING" /\ row'.sp = row.sp
    BY <1>4, <1>10, <2>1, ControlsAre DEF Agrees, Control, TypeInv, TypeOK, Row
  <2>3. Agrees(tab'[t], row')
    BY <1>4, <1>5, <1>10, <2>2, ControlsAre DEF Agrees, Control
  <2> QED BY <1>1, <1>5, <1>10, <2>2, <2>3, AnswerCalm
<1> QED BY <1>6, <1>7, <1>8, <1>9, <1>10 DEF CheckPredictor, KeepPredictor, DeletePredictor

\* A poll under way when its answer arrives, for the tab that asked.
LEMMA EndPollCalm ==
    ASSUME TypeInv, PagesInv, NEW t \in Tab, EndPoll(t),
           t \in calm', (tab[t].page = "data_upload")'
    PROVE  CalmPage(t)'
<1> DEFINE p == poll[t]
           status == StatusOf(p.sp)
<1>1. /\ p \in Poll /\ p.sp \in SP /\ p # NoPoll /\ tab[t] \in View
      /\ status \in {"PENDING", "RUNNING"} \cup Ended
      /\ p.sp \notin Upload => status = p.sp
      /\ p.sp \in Upload => status # "PENDING"
  BY TabTypes, StatusIs DEF EndPoll, Poll, TypeInv
<1>2. /\ UNCHANGED <<celery, req, calm>> /\ poll'[t] = NoPoll
      /\ row' = Synced(p.sp)
  BY DEF EndPoll, TypeInv, TypeOK
<1>3. RowEnds
  BY <1>1, <1>2, SyncedEnds
<1>4. /\ row'.mem = row.mem /\ row'.pred = row.pred /\ row'.status = row.status
  BY <1>3 DEF RowEnds, TypeInv, TypeOK, Row
<1>5. \/ tab'[t] = tab[t] /\ tab[t].page = "data_upload" /\ p.page # "data_upload"
      \/ /\ p.page = "data_upload" /\ tab[t].page = "data_upload"
         /\ IF status \in Ended
            THEN tab'[t] = [tab[t] EXCEPT !.on = @ \ {"poll"}, !.sp = status]
            ELSE tab'[t] = [tab[t] EXCEPT !.on = (@ \ {"poll"}) \cup {"poll"},
                                          !.sp = "RUNNING"]
  <2> DEFINE answer == PollAnswer(p.page, status)
  <2>1. CASE tab[t].page # p.page
    BY <2>1 DEF EndPoll, TypeInv, TypeOK
  <2>2. CASE tab[t].page = p.page /\ "page" \in DOMAIN answer
    <3>1. tab'[t] = StreetPage("COMPLETED")
      <4>1. answer = StreetPage("COMPLETED")
        BY <1>1, <2>2 DEF PollAnswer, Ended
      <4> QED BY <2>2, <4>1 DEF EndPoll, TypeInv, TypeOK
    <3> QED BY <3>1, PageTypes DEF Ended
  <2>3. CASE tab[t].page = p.page /\ "page" \notin DOMAIN answer
    <3>1. tab'[t] = [tab[t] EXCEPT !.on = (@ \ {"poll"}) \cup answer.on, !.sp = answer.sp]
      BY <2>3 DEF EndPoll, TypeInv, TypeOK
    <3>2. tab[t].page = "data_upload"
      BY <1>1, <3>1 DEF View
    <3>3. IF status \in Ended THEN answer.on = {} /\ answer.sp = status
                              ELSE answer.on = {"poll"} /\ answer.sp = "RUNNING"
      BY <1>1, <2>3, <3>2 DEF PollAnswer, Ended
    <3> HIDE DEF answer
    <3> QED BY <1>1, <2>3, <3>1, <3>2, <3>3
  <2> QED BY <2>1, <2>2, <2>3
<1>6. CalmPage(t)
  BY <1>2, <1>5 DEF PagesInv, CalmInv
<1>7. CASE req[t].do \in {"name", "submit"}
  <2>1. tab'[t].on \ {"poll"} = tab[t].on \ {"poll"}
    BY <1>1, <1>5 DEF View
  <2> QED BY <1>2, <1>4, <1>6, <1>7, <2>1 DEF CalmPage
<1>8. CASE req[t].do \notin {"name", "submit"}
  <2>1. Agrees(tab[t], row) /\ PollAgrees(p, row)
    BY <1>1, <1>6, <1>8 DEF CalmPage
  <2>2. Agrees(tab[t], row')
    BY <1>1, <1>3, <2>1, AgreesKept
  <2>3. /\ \A c \in Control \ {"poll"} : c \in tab'[t].on <=> c \in tab[t].on
        /\ \/ tab'[t] = tab[t]
           \/ "poll" \in tab'[t].on
           \/ tab'[t].sp = status /\ status \in Ended
    <3>1. CASE tab'[t] = tab[t]
      BY <3>1
    <3>2. CASE status \in Ended /\ tab'[t] = [tab[t] EXCEPT !.on = @ \ {"poll"}, !.sp = status]
      BY <1>1, <3>2 DEF View
    <3>3. CASE tab'[t] = [tab[t] EXCEPT !.on = (@ \ {"poll"}) \cup {"poll"}, !.sp = "RUNNING"]
      <4>1. tab'[t].on = (tab[t].on \ {"poll"}) \cup {"poll"}
        BY <1>1, <3>3 DEF View
      <4> QED BY <4>1
    <3> QED BY <1>5, <3>1, <3>2, <3>3
  <2>4. ASSUME status \in Ended
        PROVE  row'.sp = status /\ row'.sp \notin Upload
    BY <1>1, <1>2, <2>1, <2>4, UploadPagesAssumption
       DEF PollAgrees, Synced, StatusOf, Ended, TypeInv, TypeOK, Row
  <2>5. Agrees(tab'[t], row')
    BY <2>2, <2>3, <2>4, UploadPagesAssumption DEF Agrees, Shown
  <2> QED BY <1>2, <1>4, <1>6, <1>8, <2>3, <2>5 DEF CalmPage, Agrees, Control
<1> QED BY <1>7, <1>8

\* and when it is polled.
LEMMA PollCalm ==
    ASSUME TypeInv, TypeInv', PagesInv, NEW t \in Tab, StartPoll(t) \/ EndPoll(t)
    PROVE  CalmInv'
<1>1. CASE StartPoll(t)
  <2>1. ASSUME t \in calm', (tab[t].page = "data_upload")'
        PROVE  CalmPage(t)'
    <3>1. /\ UNCHANGED <<row, celery, tab, req>> /\ poll'[t].sp = row.sp
          /\ CalmPage(t)
      BY <1>1, <2>1 DEF StartPoll, PagesInv, CalmInv, TypeInv, TypeOK
    <3> QED BY <3>1 DEF CalmPage, PollAgrees, Agrees
  <2>2. \A s \in Tab : EndStays(s) /\ (s # t => Aside(s))
    BY <1>1 DEF StartPoll, Aside, EndStays, TypeInv, TypeOK
  <2>3. calm' \subseteq Tab /\ \A s \in calm' : s \in calm /\ RowEnds
    BY <1>1 DEF StartPoll, RowEnds, TypeInv, TypeOK
  <2> QED BY <2>1, <2>2, <2>3, CalmByTab DEF PagesInv
<1>2. CASE EndPoll(t)
  <2>1. \A s \in Tab : EndStays(s) /\ (s # t => Aside(s))
    BY <1>2 DEF EndPoll, Aside, EndStays, TypeInv, TypeOK
  <2>2. poll[t].sp \in SP /\ row' = Synced(poll[t].sp) /\ UNCHANGED celery
    BY <1>2, TabTypes DEF EndPoll, Poll
  <2>3. calm' \subseteq Tab /\ \A s \in calm' : s \in calm /\ RowEnds
    BY <1>2, <2>2, SyncedEnds DEF EndPoll, TypeInv, TypeOK
  <2> QED BY <1>2, <2>1, <2>3, EndPollCalm, CalmByTab DEF PagesInv
<1> QED BY <1>1, <1>2

\* The task's end is written to the row it is named in; runs leave no tab calm.
LEMMA RestCalm ==
    ASSUME TypeInv, PagesInv,
           (\E u \in Upload : EndTask(u)) \/ StartRun \/ ResetRun \/ UNCHANGED vars
    PROVE  CalmInv'
<1>1. ASSUME RowEnds, UNCHANGED <<tab, req, poll, calm>>, \A t \in Tab : EndStays(t)
      PROVE  CalmInv'
  BY <1>1, AsideKeeps DEF PagesInv, CalmInv, Aside, TypeInv, TypeOK
<1>2. ASSUME NEW u \in Upload, EndTask(u)
      PROVE  CalmInv'
  <2>1. RowEnds /\ UNCHANGED <<tab, req, poll, calm>>
    BY <1>2 DEF EndTask, RowEnds, TypeInv, TypeOK
  <2>2. \A t \in Tab : EndStays(t)
    BY <1>2 DEF EndTask, EndStays, TypeInv, TypeOK
  <2> QED BY <1>1, <2>1, <2>2
<1>3. CASE StartRun \/ ResetRun
  BY <1>3 DEF StartRun, ResetRun, CalmInv
<1>4. CASE UNCHANGED vars
  BY <1>1, <1>4 DEF vars, RowEnds, EndStays
<1> QED BY <1>2, <1>3, <1>4

\* Every step keeps the invariant of the pages.
LEMMA PagesStep ==
    ASSUME TypeInv, PagesInv, [Next]_vars
    PROVE  PagesInv'
<1>1. TypeInv' /\ RowInv' /\ UnsentInv'
  BY TypeStep, RowStep, UnsentStep DEF PagesInv
<1>2. ASSUME NEW t \in Tab, RequestStep(t)
      PROVE  CalmInv'
  <2>1. t \in calm' /\ (tab[t].page = "data_upload")' => CalmPage(t)'
    BY <1>2, RenderCalm, DeleteMembershipCalm, SaveCalm, SubmitCalm, PredictorCalm
       DEF RequestStep
  <2>2. calm' \subseteq Tab
    BY <1>1 DEF TypeInv, TypeOK
  <2> QED BY <1>2, <2>1, <2>2, RequestOthers, CalmByTab DEF PagesInv
<1>3. CalmInv'
  BY <1>1, <1>2, UserCalm, PollCalm, RestCalm DEF Next
<1> QED BY <1>1, <1>3 DEF PagesInv

\* After any answers of the callbacks, a data upload page that nothing else has
\* interfered with shows the uploads, the enabled controls and the state of the
\* network's construction that its layout would compute from the row.
THEOREM AnswersAgree == Spec => []AnswersAgreeWithLayout
<1>1. Init => PagesInv
  BY FixedTypes, UploadPagesAssumption
     DEF Init, PagesInv, RowInv, UnsentInv, CalmInv, Uploading, Blank
<1>2. TypeInv /\ PagesInv => AnswersAgreeWithLayout
  <2> SUFFICES ASSUME TypeInv, PagesInv, NEW t \in Tab, IdleCalm(t)
               PROVE  /\ tab[t].on \ {"poll"} = Controls(row) \ {"poll"}
                      /\ "poll" \in tab[t].on \/ tab[t].sp = Shown(row.sp)
    BY DEF AnswersAgreeWithLayout
  <2>1. Agrees(tab[t], row)
    BY FixedTypes DEF IdleCalm, PagesInv, CalmInv, CalmPage
  <2>2. tab[t].on \subseteq Control
    BY TabTypes DEF View
  <2> QED BY <2>1, <2>2, ControlsAre DEF Agrees
<1> QED BY TypeInit, TypeStep, PagesStep, <1>1, <1>2, PTL DEF Spec
=============================================================================
