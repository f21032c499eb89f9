----------------------------- MODULE StreetEdits -----------------------------
(***************************************************************************)
(* The street selection page (pages/street_selection.py) and the intent it *)
(* edits (street_selector.py), open in several tabs.                       *)
(*                                                                         *)
(* Every click is a request of its own: it loads the job, refuses unless   *)
(* the job is PENDING, changes the intent it has loaded, and writes all of *)
(* it back if the job is still PENDING.  The page is rendered once; after  *)
(* that the answers of its requests replace parts of it.  A submit writes  *)
(* the intent too: as it loaded it before its guard, with what the row     *)
(* said of the upload.                                                     *)
(***************************************************************************)
EXTENDS RoadNetwork

CONSTANTS
    Tab,       \* open browser tabs of the job
    MaxClicks  \* bound: clicks, pages opened, uploads and submits

ASSUME StreetEditsAssumption == MaxClicks \in Nat

VARIABLES
    row,      \* the job's row
    network,  \* the OSM download the pages get, {} if there is none
    tab,      \* tab -> what it shows
    calls,    \* requests of the page in flight
    submits,  \* submits in flight that may still write the row
    clicks,   \* clicks so far (bound)
    settled,  \* history: the roads whose removal nothing later has undone
    calm      \* history: the tabs nothing has happened behind the back of

\* sp: the state of the upload of that number; a COMPLETED run is one that ended.
Row == [status : {"PENDING", "RUNNING", "FAILED"}, edits : Intent,
        sp : {"PENDING", "RUNNING", "COMPLETED", "FAILED"}, of : Nat]

\* active: the layout found the job PENDING.  restore: the roads of the panel.
\* clearOn, keepOn: the buttons only the layout enables.
Page == [shown : {"nothing", "streets"}, active : BOOLEAN, tags : SUBSET Tag,
         grades : SUBSET Buckets, restore : SUBSET Road, hint : {"all", "largest"},
         clearOn : BOOLEAN, keepOn : BOOLEAN]
NoPage == [shown |-> "nothing", active |-> FALSE, tags |-> {}, grades |-> {},
           restore |-> {}, hint |-> "all", clearOn |-> FALSE, keepOn |-> FALSE]

Edit == {"remove", "restore", "clear", "keep", "reset", "tags", "grades"}

NewJob == [status |-> "PENDING", edits |-> NoEdits, sp |-> "PENDING", of |-> 0]

EdTypeOK ==
    /\ row \in Row
    /\ DOMAIN network \subseteq Road
    /\ tab \in [Tab -> Page]
    /\ \A c \in calls :
        /\ c.tab \in Tab /\ c.no \in 1..MaxClicks
        /\ c.do \in Edit \cup {"open", "all", "none"}
        /\ c.at \in {"sent", "loaded"}
        /\ c.seen \in Row
    /\ \A s \in submits :
        s.no \in 1..MaxClicks /\ s.at \in {"loaded", "queued"} /\ s.seen \in Row
    /\ clicks \in 0..MaxClicks
    /\ settled \subseteq Road
    /\ calm \subseteq Tab

EdInit ==
    /\ row = NewJob
    /\ network = <<>>
    /\ tab = [t \in Tab |-> NoPage]
    /\ calls = {}
    /\ submits = {}
    /\ clicks = 0
    /\ settled = {}
    /\ calm = {}

-----------------------------------------------------------------------------
(* The page *)

\* get_removed_roads_info: the removed roads the download has.
Panel(edits) == edits.removed \cap DOMAIN network

\* layout, for a job whose network is not being built and has not failed.
StreetsPage(seen) ==
    LET edits == seen.edits
        active == seen.status = "PENDING"
    IN [shown |-> "streets", active |-> active, tags |-> edits.tags,
        grades |-> edits.grades, restore |-> Panel(edits), hint |-> edits.keep,
        clearOn |-> active /\ edits.removed # {},
        keepOn |-> active /\ edits.keep = "all"]

\* What a page rendered now would show, but for the buttons.
ShowsTheRow(t) ==
    /\ tab[t].tags = row.edits.tags
    /\ tab[t].grades = row.edits.grades
    /\ tab[t].restore = Panel(row.edits)
    /\ \/ tab[t].hint = row.edits.keep
       \/ row.edits.keep = "largest" /\ DOMAIN Derive(network, row.edits) = {}

-----------------------------------------------------------------------------
(* Clicks *)

\* seen: the row, once the request has loaded it.
Call(t, do, arg) ==
    [tab |-> t, no |-> clicks + 1, do |-> do, arg |-> arg, at |-> "sent", seen |-> NewJob]

CallsOf(t) == {c \in calls : c.tab = t}

Click(t, do, arg) ==
    /\ clicks < MaxClicks
    /\ clicks' = clicks + 1
    /\ calls' = calls \cup {Call(t, do, arg)}
    /\ calm' = IF CallsOf(t) = {} THEN calm ELSE calm \ {t}
    /\ UNCHANGED <<row, network, submits, settled>>

OpenPage(t) == Click(t, "open", {}) /\ UNCHANGED tab

\* A checklist changes in the browser, and its new value is sent.
Toggle(t, list, items) ==
    \E item \in items :
        LET new == IF item \in tab[t][list] THEN tab[t][list] \ {item}
                   ELSE tab[t][list] \cup {item}
        IN /\ Click(t, list, new)
           /\ tab' = [tab EXCEPT ![t][list] = new]

\* The map is drawn before the row is read: any road may have been marked.
ClickOn(t) ==
    /\ tab[t].active
    /\ \/ \E r \in Road : Click(t, "remove", {r}) /\ UNCHANGED tab
       \/ \E r \in tab[t].restore : Click(t, "restore", {r}) /\ UNCHANGED tab
       \/ tab[t].clearOn /\ Click(t, "clear", {}) /\ UNCHANGED tab
       \/ tab[t].keepOn /\ Click(t, "keep", {}) /\ UNCHANGED tab
       \/ \E do \in {"reset", "all", "none"} : Click(t, do, {}) /\ UNCHANGED tab
       \/ Toggle(t, "tags", Tag)
       \/ "Track" \in tab[t].tags /\ Toggle(t, "grades", Buckets)

-----------------------------------------------------------------------------
(* Requests *)

Replaced(c, new) == calls' = (calls \ {c}) \cup new

\* _load_editable_job, and layout's load with its gate: a page for a network
\* that is being built, or could not be, has no controls.
LoadJob(c) ==
    /\ c.at = "sent"
    /\ c.do \in Edit \cup {"open"}
    /\ \/ /\ c.do \in Edit => row.status = "PENDING"
          /\ c.do = "open" => row.sp \notin {"RUNNING", "FAILED"}
          /\ Replaced(c, {[c EXCEPT !.at = "loaded", !.seen = row]})
          /\ UNCHANGED <<tab, calm>>
       \/ /\ c.do \in Edit /\ row.status # "PENDING"
          /\ Replaced(c, {})
          /\ calm' = calm \ {c.tab}
          /\ UNCHANGED tab
       \/ /\ c.do = "open" /\ row.sp \in {"RUNNING", "FAILED"}
          /\ Replaced(c, {})
          /\ tab' = [tab EXCEPT ![c.tab] = NoPage]
          /\ calm' = calm \ {c.tab}
    /\ UNCHANGED <<row, network, submits, clicks, settled>>

\* The page, of what was loaded.  A page opened over running requests, or
\* overtaken by a change of the row, is not calm.
RenderPage(c) ==
    /\ c.do = "open" /\ c.at = "loaded"
    /\ tab' = [tab EXCEPT ![c.tab] = StreetsPage(c.seen)]
    /\ Replaced(c, {})
    /\ calm' = IF c.seen = row /\ CallsOf(c.tab) = {c}
               THEN calm \cup {c.tab} ELSE calm \ {c.tab}
    /\ UNCHANGED <<row, network, submits, clicks, settled>>

\* tags_select_all_none: its answer is the checklist's new value, which is sent.
SelectAllNone(c) ==
    /\ c.do \in {"all", "none"}
    /\ LET tags == IF c.do = "all" THEN Tag ELSE {} IN
        /\ tab' = [tab EXCEPT ![c.tab].tags = tags]
        /\ Replaced(c, {[c EXCEPT !.do = "tags", !.arg = tags]})
    /\ UNCHANGED <<row, network, submits, clicks, settled, calm>>

\* Mutant: a new filter starts from the unedited network.
EditedFromDefaults(do, arg, edits) ==
    CASE do = "tags" -> [NoEdits EXCEPT !.tags = arg]
      [] do = "grades" -> [NoEdits EXCEPT !.grades = arg]
      [] do = "remove" -> [edits EXCEPT !.removed = @ \cup arg, !.keep = "all"]
      [] do = "restore" -> [edits EXCEPT !.removed = @ \ arg, !.keep = "all"]
      [] do = "clear" -> [edits EXCEPT !.removed = {}, !.keep = "all"]
      [] do = "keep" -> [edits EXCEPT !.keep = "largest"]
      [] do = "reset" -> NoEdits

\* StreetSelector's mutators, on the intent the request has loaded.
Edited(do, arg, edits) ==
    CASE do = "tags" -> [edits EXCEPT !.tags = arg, !.keep = "all"]
      [] do = "grades" -> [edits EXCEPT !.grades = arg, !.keep = "all"]
      [] do = "remove" -> [edits EXCEPT !.removed = @ \cup arg, !.keep = "all"]
      [] do = "restore" -> [edits EXCEPT !.removed = @ \ arg, !.keep = "all"]
      [] do = "clear" -> [edits EXCEPT !.removed = {}, !.keep = "all"]
      [] do = "keep" -> [edits EXCEPT !.keep = "largest"]
      [] do = "reset" -> NoEdits

\* What would be the same intent but for keep is left alone.
Changes(do, arg, edits) ==
    \/ do \in {"keep", "reset"}
    \/ Edited(do, arg, edits) # [edits EXCEPT !.keep = "all"]

\* Mutant: only the removal and the reset know of the panel.
AnsweredWithoutPanel(t, do, edits) ==
    CASE do \in {"tags", "grades", "keep", "restore", "clear"} ->
            [tab[t] EXCEPT !.hint = edits.keep]
      [] do = "remove" -> [tab[t] EXCEPT !.hint = edits.keep, !.restore = Panel(edits)]
      [] do = "reset" -> [tab[t] EXCEPT !.hint = "all", !.restore = {},
                                        !.tags = Tag, !.grades = DefaultGrades]

\* What a click shows: its own intent, not the row's.
Answered(t, do, edits) ==
    CASE do \in {"tags", "grades", "keep"} -> [tab[t] EXCEPT !.hint = edits.keep]
      [] do \in {"remove", "restore"} ->
            [tab[t] EXCEPT !.hint = edits.keep, !.restore = Panel(edits)]
      [] do = "clear" -> [tab[t] EXCEPT !.hint = edits.keep, !.restore = {}]
      [] do = "reset" -> [tab[t] EXCEPT !.hint = "all", !.restore = {},
                                        !.tags = Tag, !.grades = DefaultGrades]

\* The checklists a reset has set send their values back.
Cascade(c) ==
    IF c.do = "reset"
    THEN LET sent == [c EXCEPT !.at = "sent", !.seen = NewJob]
         IN {[sent EXCEPT !.do = "tags", !.arg = Tag],
             [sent EXCEPT !.do = "grades", !.arg = DefaultGrades]}
    ELSE {}

\* Other requests that have loaded the row and may still write it.
Overlaps(c) == submits # {} \/ \E d \in calls \ {c} : d.do \in Edit /\ d.at = "loaded"

Settled(c) ==
    CASE c.do \in {"clear", "reset"} -> {}
      [] c.do = "restore" -> settled \ c.arg
      [] c.do = "remove" /\ ~Overlaps(c) -> settled \cup c.arg
      [] OTHER -> settled

\* apply_edits: the row first, and only a PENDING job's (JobNotPending); then
\* the network, without which the request fails.  The answer is left out too
\* when the largest part of an empty network was asked for.
ApplyEdits(c) ==
    LET edits == Edited(c.do, c.arg, c.seen.edits)
        written == Changes(c.do, c.arg, c.seen.edits)
        mine == IF written THEN edits ELSE c.seen.edits
        silent == \/ written /\ network = <<>>
                  \/ c.do = "keep" /\ DOMAIN Derive(network, edits) = {}
    IN /\ c.do \in Edit /\ c.at = "loaded"
       /\ \/ /\ written /\ row.status # "PENDING"
             /\ Replaced(c, {})
             /\ calm' = calm \ {c.tab}
             /\ UNCHANGED <<row, tab, settled>>
          \/ /\ written => row.status = "PENDING"
             /\ row' = IF written THEN [row EXCEPT !.edits = edits] ELSE row
             /\ settled' = IF written THEN Settled(c) ELSE settled
             /\ IF silent
                THEN Replaced(c, {}) /\ UNCHANGED tab
                ELSE /\ Replaced(c, Cascade(c))
                     /\ tab' = [tab EXCEPT ![c.tab] = Answered(c.tab, c.do, mine)]
             /\ calm' = {s \in calm : IF s = c.tab THEN network # <<>> ELSE row' = row}
       /\ UNCHANGED <<network, submits, clicks>>

-----------------------------------------------------------------------------
(* What happens to the job meanwhile *)

\* start_computation, restart_computation: the job is loaded, any but a RUNNING one.
LoadForRun ==
    /\ row.status # "RUNNING"
    /\ clicks < MaxClicks
    /\ clicks' = clicks + 1
    /\ submits' = submits \cup {[no |-> clicks + 1, at |-> "loaded", seen |-> row]}
    /\ UNCHANGED <<row, network, tab, calls, settled, calm>>

\* submit's guard, mark_queued: of the row as it is now.
QueueRun(s) ==
    /\ s.at = "loaded"
    /\ \/ /\ row.status # "RUNNING"
          /\ row' = [row EXCEPT !.status = "RUNNING"]
          /\ submits' = (submits \ {s}) \cup {[s EXCEPT !.at = "queued"]}
          /\ calm' = {}
       \/ /\ row.status = "RUNNING"
          /\ submits' = submits \ {s}
          /\ UNCHANGED <<row, calm>>
    /\ UNCHANGED <<network, tab, calls, clicks, settled>>

\* save: the columns a run does not own, as they were loaded before the guard.
SaveForRun(s) ==
    /\ s.at = "queued"
    /\ row' = [s.seen EXCEPT !.status = row.status]
    /\ submits' = submits \ {s}
    /\ calm' = {}
    /\ UNCHANGED <<network, tab, calls, clicks, settled>>

\* A pull or an upload fails before the row is written: _fail_to_start.
FailToStart(s) ==
    /\ s.at = "queued"
    /\ row' = IF row.status = "RUNNING" THEN [row EXCEPT !.status = "FAILED"] ELSE row
    /\ submits' = submits \ {s}
    /\ calm' = {}
    /\ UNCHANGED <<network, tab, calls, clicks, settled>>

\* The run ends or is cancelled; a reset makes the job PENDING again.
EndRun ==
    /\ row.status = "RUNNING"
    /\ row' = [row EXCEPT !.status = "FAILED"]
    /\ calm' = {}
    /\ UNCHANGED <<network, tab, calls, submits, clicks, settled>>

ResetRun ==
    /\ row.status = "FAILED"
    /\ row' = [row EXCEPT !.status = "PENDING"]
    /\ calm' = {}
    /\ UNCHANGED <<network, tab, calls, submits, clicks, settled>>

\* delete_membership's write: the street edits of the old network go with it.
ForgetNetwork(upload) ==
    /\ row.status = "PENDING"
    /\ clicks < MaxClicks
    /\ clicks' = clicks + 1
    /\ row' = [row EXCEPT !.edits = NoEdits, !.sp = "RUNNING", !.of = upload]
    /\ network' = <<>>
    /\ settled' = {}
    /\ calm' = {}
    /\ UNCHANGED <<tab, calls, submits>>

\* The upload task has stored net, and its write, or a poll's: of its own
\* upload only, while that is at work in the row.
EndUpload(upload, sp, net) ==
    LET owns == row.sp = "RUNNING" /\ row.of = upload IN
    /\ owns \/ net # network
    /\ row' = IF owns THEN [row EXCEPT !.sp = sp] ELSE row
    /\ network' = net
    /\ calm' = {}
    /\ UNCHANGED <<tab, calls, submits, clicks, settled>>

EditStep ==
    \/ \E t \in Tab : OpenPage(t) \/ (tab[t].shown = "streets" /\ ClickOn(t))
    \/ \E c \in calls : LoadJob(c) \/ RenderPage(c) \/ SelectAllNone(c) \/ ApplyEdits(c)
    \/ LoadForRun \/ EndRun \/ ResetRun
    \/ \E s \in submits : QueueRun(s) \/ SaveForRun(s) \/ FailToStart(s)
-----------------------------------------------------------------------------
(* Properties *)

\* Roads that meet in nodes, so that no part of them is apart from the rest.
Connected(net) ==
    \A part \in (SUBSET DOMAIN net) \ {{}, DOMAIN net} :
        NodesOf(Restrict(net, part)) \cap NodesOf(Restrict(net, DOMAIN net \ part)) # {}

\* "Keep largest network" leaves a connected network, to which no road of the
\* selection is attached, and than which no connected part of the selection has
\* more nodes.
KeptNetworkIsTheLargest ==
    row.edits.keep = "largest" =>
        LET selected == Selected(network, row.edits)
            kept == Derive(network, row.edits)
        IN /\ Connected(kept)
           /\ NodesOf(kept) \cap
                NodesOf(Restrict(selected, DOMAIN selected \ DOMAIN kept)) = {}
           /\ \A part \in SUBSET DOMAIN selected :
                LET other == Restrict(selected, part) IN
                Connected(other) => Cardinality(NodesOf(other)) <= Cardinality(NodesOf(kept))

\* A removed road stays removed until it is restored, all are, or the edits are
\* reset, also when another tab that was opened before edits on or runs are
\* started and reset; unless another edit or a submit had loaded the row when the
\* removal was written, and could still write it.
FinishedRemovalsStay == settled \subseteq row.edits.removed

\* A tab whose clicks are answered, one after the other, and which nothing has
\* interfered with shows the intent of the row: the filters, the roads that can
\* be restored, and whether the largest network is kept.  (Each answer names
\* the parts of the page it replaces.)
CalmTabsShowTheRow ==
    \A t \in calm : CallsOf(t) = {} => ShowsTheRow(t)
=============================================================================
