------------------------ MODULE NetworkWorkflowProofs ------------------------
(***************************************************************************)
(* Proofs about NetworkWorkflow, for any ways and polygons, any number of  *)
(* tabs, clicks, uploads and retries: type correctness; that a file with   *)
(* its final name is the whole answer, cut at the border and nowhere else, *)
(* and offers every road, while one upload task is at work on the work     *)
(* dir; and that finished removals stay and calm tabs show the row.        *)
(***************************************************************************)
EXTENDS NetworkWorkflow, RoadNetworkProofs

\* What networks are made of.
Feature ==
    {way \in {WayToFeature(Osm[id], a) : id \in DOMAIN Osm, a \in Areas} : way.nodes # <<>>}
Network == UNION {[ids -> Feature] : ids \in SUBSET DOMAIN Osm}

\* The three files, in the order they are opened.
LEMMA FilesAre ==
    /\ File = {"download", "edited", "transformed"}
    /\ Len(Files) = 3
    /\ Files[1] = "download" /\ Files[2] = "edited" /\ Files[3] = "transformed"
    /\ \A i \in 1..Len(Files) : Files[i] \in File
<1>1. Len(Files) = 3 /\ DOMAIN Files = 1..3
  BY DEF Files
<1>2. Files[1] = "download" /\ Files[2] = "edited" /\ Files[3] = "transformed"
  BY DEF Files
<1>3. 1..3 = {1, 2, 3}
  OBVIOUS
<1> QED BY <1>1, <1>2, <1>3 DEF File, Range

\* No roads are a network, and so is any set of features by their ids.
LEMMA NetworkTypes ==
    /\ <<>> \in Network
    /\ \A net \in Network : DOMAIN net \subseteq DOMAIN Osm
    /\ \A ids \in SUBSET DOMAIN Osm : \A net \in [ids -> Feature] : net \in Network
<1>1. \A net \in Network : DOMAIN net \subseteq DOMAIN Osm
  BY DEF Network
<1>2. \A ids \in SUBSET DOMAIN Osm : \A net \in [ids -> Feature] : net \in Network
  BY DEF Network
<1>3. <<>> \in [{} -> Feature]
  OBVIOUS
<1> QED BY <1>1, <1>2, <1>3

\* Appending features to a network gives a network.
LEMMA JoinedTypes ==
    ASSUME NEW new \in Network, NEW old \in Network
    PROVE  Joined(new, old) \in Network
<1>1. PICK a \in SUBSET DOMAIN Osm : new \in [a -> Feature]
  BY DEF Network
<1>2. PICK b \in SUBSET DOMAIN Osm : old \in [b -> Feature]
  BY DEF Network
<1>3. Joined(new, old) \in [a \cup b -> Feature]
  BY <1>1, <1>2 DEF Joined
<1> QED BY <1>3, NetworkTypes

\* What the ways of a set become is a network.
LEMMA FeaturesTypes ==
    ASSUME NEW ids \in SUBSET DOMAIN Osm, NEW a \in Areas
    PROVE  Features(Restrict(Osm, ids), a) \in Network
<1> DEFINE kept == {w \in DOMAIN Restrict(Osm, ids) : TruncateByEdge(Restrict(Osm, ids)[w].nodes, a) # <<>>}
<1>1. kept \subseteq ids /\ \A id \in kept : Restrict(Osm, ids)[id] = Osm[id]
  BY DEF Restrict
<1>2. \A id \in kept : WayToFeature(Restrict(Osm, ids)[id], a) \in Feature
  BY <1>1, FeatureOfWay, OsmDownloadAssumption DEF Feature
<1>3. Features(Restrict(Osm, ids), a) = [id \in kept |-> WayToFeature(Restrict(Osm, ids)[id], a)]
  BY DEF Features
<1>4. Features(Restrict(Osm, ids), a) \in [kept -> Feature]
  BY <1>2, <1>3
<1> HIDE DEF kept
<1> QED BY <1>1, <1>4, NetworkTypes

-----------------------------------------------------------------------------
(* Type correctness *)

Content == [by : Writer \cup {"nobody"}, roads : Network,
            end : {"absent", "open", "closed", "torn"}]
Held == {"none", "tmp", "final", "lost"}
Task == [pc : Over \cup {"open", "query", "stream", "close", "abandon"},
         left : SUBSET DOMAIN Osm, error : {"none", "retry", "fail"},
         hold : [File -> Held], tries : 0..MaxRetries]

DlTypeInv ==
    /\ area \in Areas
    /\ tmp \in [File -> Content]
    /\ final \in [File -> Content]
    /\ proc \in [Writer -> Task]
    /\ uploads \in 0..MaxUploads

Request == [tab : Tab, no : 1..MaxClicks, do : Edit \cup {"open", "all", "none"},
            arg : SUBSET (Road \cup Tag \cup Buckets), at : {"sent", "loaded"}, seen : Row]

Submit == [no : 1..MaxClicks, at : {"loaded", "queued"}, seen : Row]

\* What a request brings fits what it does.
ArgFits(c) ==
    /\ c.do \in {"remove", "restore"} => c.arg \subseteq Road
    /\ c.do = "tags" => c.arg \subseteq Tag
    /\ c.do = "grades" => c.arg \subseteq Buckets

EdTypeInv ==
    /\ row \in Row
    /\ network \in Network
    /\ tab \in [Tab -> Page]
    /\ calls \subseteq Request
    /\ \A c \in calls : ArgFits(c)
    /\ submits \subseteq Submit
    /\ clicks \in 0..MaxClicks
    /\ settled \subseteq Road
    /\ calm \subseteq Tab

TypeInv == DlTypeInv /\ EdTypeInv

\* These are the types of the components, and say more.
LEMMA TypeInvSuffices == TypeInv => TypeOK
<1> SUFFICES ASSUME TypeInv PROVE TypeOK
  OBVIOUS
<1>1. \A c \in Content : /\ c.by \in Writer \cup {"nobody"}
                         /\ DOMAIN c.roads \subseteq DOMAIN Osm
                         /\ c.end \in {"absent", "open", "closed", "torn"}
  BY NetworkTypes DEF Content
<1>2. \A f \in File : \A c \in {tmp[f], final[f]} :
        /\ c.by \in Writer \cup {"nobody"}
        /\ DOMAIN c.roads \subseteq DOMAIN Osm
        /\ c.end \in {"absent", "open", "closed", "torn"}
  BY <1>1 DEF TypeInv, DlTypeInv
<1>3. \A w \in Writer :
        /\ proc[w].pc \in Over \cup {"open", "query", "stream", "close", "abandon"}
        /\ proc[w].left \subseteq DOMAIN Osm
        /\ proc[w].error \in {"none", "retry", "fail"}
        /\ proc[w].hold \in [File -> {"none", "tmp", "final", "lost"}]
        /\ proc[w].tries \in 0..MaxRetries
  BY DEF TypeInv, DlTypeInv, Task, Held
<1>4. DlTypeOK
  BY <1>2, <1>3 DEF DlTypeOK, TypeInv, DlTypeInv
<1>5. DOMAIN network \subseteq Road
  BY NetworkTypes, OsmDownloadAssumption DEF TypeInv, EdTypeInv
<1>6. \A c \in calls :
        /\ c.tab \in Tab /\ c.no \in 1..MaxClicks
        /\ c.do \in Edit \cup {"open", "all", "none"}
        /\ c.at \in {"sent", "loaded"}
        /\ c.seen \in Row
  BY DEF TypeInv, EdTypeInv, Request
<1>8. \A s \in submits :
        s.no \in 1..MaxClicks /\ s.at \in {"loaded", "queued"} /\ s.seen \in Row
  BY DEF TypeInv, EdTypeInv, Submit
<1>7. EdTypeOK
  BY <1>5, <1>6, <1>8 DEF EdTypeOK, TypeInv, EdTypeInv
<1> QED BY <1>4, <1>7 DEF TypeOK

\* The fixed values are of these types.
LEMMA FixedTypes ==
    /\ NoFile \in Content
    /\ Closed \in [File -> Held]
    /\ \A pc \in Over \cup {"open"} : \A n \in 0..MaxRetries :
            [Idle EXCEPT !.pc = pc, !.tries = n] \in Task
    /\ \A pc \in Over \cup {"open"} : [Idle EXCEPT !.pc = pc] \in Task
    /\ NewJob \in Row /\ NoEdits \in Intent
    /\ NoPage \in Page
<1>1. NoFile \in Content
  BY NetworkTypes DEF NoFile, Content
<1>2. Closed \in [File -> Held]
  BY DEF Closed, Held
<1>3. Idle \in Task
  BY <1>2, OsmDownloadAssumption DEF Idle, Task, Over
<1>4. \A pc \in Over \cup {"open"} : \A n \in 0..MaxRetries :
        [Idle EXCEPT !.pc = pc, !.tries = n] \in Task
  BY <1>3 DEF Task
<1>5. \A pc \in Over \cup {"open"} : [Idle EXCEPT !.pc = pc] \in Task
  BY <1>3 DEF Task
<1>7. NoEdits \in Intent
  BY RoadNetworkAssumption DEF NoEdits, Intent
<1>8. NewJob \in Row
  BY <1>7 DEF NewJob, Row
<1>9. NoPage \in Page
  BY DEF NoPage, Page
<1> QED BY <1>1, <1>2, <1>4, <1>5, <1>7, <1>8, <1>9

\* Adding to a file leaves a file.
LEMMA AddTypes ==
    ASSUME NEW w, NEW c \in Content, NEW roads \in Network, NEW end \in {"open", "closed"}
    PROVE  /\ Add(w, c, roads, end) \in Content
           /\ Add(w, c, roads, end).roads = Joined(roads, c.roads)
           /\ Add(w, c, roads, end).end
                = IF c.by = w /\ c.end = "open" THEN end ELSE "torn"
           /\ Add(w, c, roads, end).by = c.by
<1>1. Joined(roads, c.roads) \in Network
  BY JoinedTypes DEF Content
<1>2. (IF c.by = w /\ c.end = "open" THEN end ELSE "torn") \in {"absent", "open", "closed", "torn"}
  OBVIOUS
<1>3. Add(w, c, roads, end)
        = [c EXCEPT !.roads = Joined(roads, c.roads),
                    !.end = IF c.by = w /\ c.end = "open" THEN end ELSE "torn"]
  BY DEF Add
<1> DEFINE joined == Joined(roads, c.roads)
           ended == IF c.by = w /\ c.end = "open" THEN end ELSE "torn"
<1> HIDE DEF joined, ended
<1>4. /\ [c EXCEPT !.roads = joined, !.end = ended] \in Content
      /\ [c EXCEPT !.roads = joined, !.end = ended].roads = joined
      /\ [c EXCEPT !.roads = joined, !.end = ended].end = ended
      /\ [c EXCEPT !.roads = joined, !.end = ended].by = c.by
  BY <1>1, <1>2 DEF Content, joined, ended
<1> QED BY <1>3, <1>4 DEF joined, ended

\* So does a write, in every file.
LEMMA WriteToTypes ==
    ASSUME DlTypeInv, NEW w \in Writer, NEW fs, NEW roads \in Network,
           NEW end \in {"open", "closed"}, WriteTo(w, fs, roads, end)
    PROVE  tmp' \in [File -> Content] /\ final' \in [File -> Content]
<1>1. \A f \in File : tmp[f] \in Content /\ final[f] \in Content
  BY DEF DlTypeInv
<1>2. \A f \in File : /\ Add(w, tmp[f], roads, end) \in Content
                      /\ Add(w, final[f], roads, end) \in Content
  BY <1>1, AddTypes
<1> QED BY <1>1, <1>2 DEF WriteTo

\* A step of a download keeps the types of its files and its task.
LEMMA DownloadTypes ==
    ASSUME DlTypeInv, NEW w \in Writer, DownloadStep(w)
    PROVE  DlTypeInv'
<1> USE DEF DlTypeInv
<1>0. \A v \in Writer : proc[v] \in Task
  OBVIOUS
<1>A. ASSUME NEW error \in {"retry", "fail"}, Abandon(w, error)
      PROVE  proc' \in [Writer -> Task]
  <2>1. proc' = [proc EXCEPT ![w] = [proc[w] EXCEPT !.pc = "abandon", !.error = error]]
    BY <1>A DEF Abandon
  <2>2. [proc[w] EXCEPT !.pc = "abandon", !.error = error] \in Task
    BY <1>0 DEF Task
  <2> QED BY <2>1, <2>2
<1>S. ASSUME NEW pc \in Over \cup {"open", "query", "stream", "close", "abandon"}, Step(w, pc)
      PROVE  proc' \in [Writer -> Task]
  <2>1. [proc[w] EXCEPT !.pc = pc] \in Task
    BY <1>0 DEF Task, Over
  <2> QED BY <1>S, <2>1 DEF Step
<1>1. CASE OpenWriter(w)
  <2>1. PICK i \in 1..Len(Files) :
            /\ tmp' = [tmp EXCEPT ![Files[i]] = [by |-> w, roads |-> <<>>, end |-> "open"]]
            /\ proc' = [proc EXCEPT ![w].hold[Files[i]] = "tmp",
                                    ![w].pc = IF i = Len(Files) THEN "query" ELSE @]
    BY <1>1 DEF OpenWriter
  <2>2. [by |-> w, roads |-> <<>>, end |-> "open"] \in Content
    BY NetworkTypes DEF Content
  <2>3. tmp' \in [File -> Content]
    BY <2>1, <2>2
  <2> DEFINE new == [proc[w] EXCEPT !.hold = [@ EXCEPT ![Files[i]] = "tmp"],
                                    !.pc = IF i = Len(Files) THEN "query" ELSE @]
  <2>4. proc' = [proc EXCEPT ![w] = new]
    BY <2>1
  <2>5. [proc[w].hold EXCEPT ![Files[i]] = "tmp"] \in [File -> Held]
    BY <1>0 DEF Task, Held
  <2>6. new \in Task
    BY <1>0, <2>5 DEF Task
  <2>7. proc' \in [Writer -> Task]
    BY <2>4, <2>6
  <2> QED BY <1>1, <2>3, <2>7 DEF OpenWriter
<1>2. CASE Query(w)
  <2>1. CASE \E error \in {"retry", "fail"} : Abandon(w, error)
    BY <1>2, <2>1, <1>A DEF Query
  <2>2. CASE proc' = [proc EXCEPT ![w].pc = "stream", ![w].left = DOMAIN Osm]
    <3>1. proc' \in [Writer -> Task]
      BY <2>2 DEF Task
    <3> QED BY <1>2, <3>1 DEF Query
  <2> QED BY <1>2, <2>1, <2>2 DEF Query
<1>3. CASE StreamWay(w)
  <2> DEFINE id == Min(proc[w].left)
             roads == Features(Restrict(Osm, {id}), area)
  <2>1. proc[w].left \in SUBSET Nat /\ proc[w].left # {} /\ proc[w].left \subseteq DOMAIN Osm
    BY <1>3, OsmDownloadAssumption, RoadNetworkAssumption DEF StreamWay, Task
  <2>2. {id} \in SUBSET DOMAIN Osm
    BY <2>1, LeastIs
  <2>3. roads \in Network
    <3> HIDE DEF id
    <3> QED BY <2>2, FeaturesTypes
  <2>4. /\ WriteTo(w, IF DOMAIN roads = {} THEN {} ELSE FilesOf(id), roads, "open")
        /\ proc' = [proc EXCEPT ![w].left = @ \ {id}]
        /\ UNCHANGED <<area, uploads>>
    BY <1>3 DEF StreamWay
  <2> HIDE DEF id, roads
  <2>5. tmp' \in [File -> Content] /\ final' \in [File -> Content]
    BY <2>3, <2>4, WriteToTypes
  <2>6. proc' \in [Writer -> Task]
    BY <2>4 DEF Task
  <2> QED BY <2>4, <2>5, <2>6
<1>4. CASE BreakOff(w)
  BY <1>4, <1>A DEF BreakOff
<1>5. CASE EndOfStream(w)
  <2>1. PICK remark \in {"none", "note", "runtime error"} : RaiseOnRuntimeError(w, remark)
    BY <1>5 DEF EndOfStream
  <2>2. proc' \in [Writer -> Task]
    BY <2>1, <1>A, <1>S DEF RaiseOnRuntimeError
  <2> QED BY <1>5, <2>2 DEF EndOfStream
<1>6. CASE CloseWriter(w)
  <2> DEFINE f == LastHeld(w)
  <2>0. UNCHANGED <<area, uploads>>
    BY <1>6 DEF CloseWriter
  <2>R. \A g : [proc[w].hold EXCEPT ![g] = "none"] \in [File -> Held]
    BY <1>0 DEF Task, Held
  <2>1. CASE tmp[f] = NoFile
    <3>1. /\ WriteTo(w, {f}, <<>>, "closed")
          /\ proc' = [proc EXCEPT ![w].hold[f] = "none",
                                  ![w].pc = "abandon", ![w].error = "fail"]
      BY <1>6, <2>1 DEF CloseWriter
    <3> HIDE DEF f
    <3>2. tmp' \in [File -> Content] /\ final' \in [File -> Content]
      BY <3>1, WriteToTypes, NetworkTypes
    <3>3. proc' = [proc EXCEPT ![w] = [proc[w] EXCEPT !.hold = [@ EXCEPT ![f] = "none"],
                                  !.pc = "abandon", !.error = "fail"]]
      BY <3>1
    <3>4. [proc[w] EXCEPT !.hold = [@ EXCEPT ![f] = "none"], !.pc = "abandon", !.error = "fail"] \in Task
      BY <1>0, <2>R DEF Task
    <3>5. proc' \in [Writer -> Task]
      BY <3>3, <3>4
    <3> QED BY <2>0, <3>2, <3>5
  <2>2. CASE tmp[f] # NoFile
    <3>1. /\ final' = [final EXCEPT ![f] =
                          IF proc[w].hold[f] = "tmp" THEN Add(w, tmp[f], <<>>, "closed") ELSE tmp[f]]
          /\ tmp' = [tmp EXCEPT ![f] = NoFile]
          /\ proc' = [v \in Writer |->
                IF v = w
                THEN [proc[w] EXCEPT !.hold[f] = "none",
                                     !.pc = IF f = Files[1] THEN "done" ELSE @]
                ELSE [proc[v] EXCEPT !.hold = Moved(@, f, TRUE)]]
      BY <1>6, <2>2 DEF CloseWriter
    <3> HIDE DEF f
    <3>2. tmp' \in [File -> Content]
      BY <3>1, FixedTypes
    <3>3. final' \in [File -> Content]
      <4>1. f \in File => Add(w, tmp[f], <<>>, "closed") \in Content /\ tmp[f] \in Content
        BY AddTypes, NetworkTypes
      <4> QED BY <3>1, <4>1
    <3>4. [proc[w] EXCEPT !.hold[f] = "none", !.pc = IF f = Files[1] THEN "done" ELSE @] \in Task
      <4>1. [proc[w] EXCEPT !.hold[f] = "none", !.pc = IF f = Files[1] THEN "done" ELSE @]
             = [proc[w] EXCEPT !.hold = [@ EXCEPT ![f] = "none"],
                               !.pc = IF f = Files[1] THEN "done" ELSE @]
        OBVIOUS
      <4>2. [proc[w] EXCEPT !.hold = [@ EXCEPT ![f] = "none"],
                            !.pc = IF f = Files[1] THEN "done" ELSE @] \in Task
        BY <1>0, <2>R DEF Task, Over
      <4> QED BY <4>1, <4>2
    <3>5. ASSUME NEW v \in Writer PROVE [proc[v] EXCEPT !.hold = Moved(@, f, TRUE)] \in Task
      <4>1. Moved(proc[v].hold, f, TRUE) \in [File -> Held]
        BY <1>0 DEF Task, Held, Moved
      <4> QED BY <1>0, <4>1 DEF Task
    <3>6. proc' \in [Writer -> Task]
      BY <3>1, <3>4, <3>5
    <3> QED BY <2>0, <3>2, <3>3, <3>6
  <2> QED BY <2>1, <2>2
<1>7. CASE FailClose(w)
  <2> DEFINE f == LastHeld(w)
  <2>1. proc' = [proc EXCEPT ![w] = [proc[w] EXCEPT !.hold = [@ EXCEPT ![f] = "none"],
                                  !.pc = "abandon", !.error = "fail"]]
    BY <1>7 DEF FailClose
  <2> HIDE DEF f
  <2>2. [proc[w].hold EXCEPT ![f] = "none"] \in [File -> Held]
    BY <1>0 DEF Task, Held
  <2>3. [proc[w] EXCEPT !.hold = [@ EXCEPT ![f] = "none"], !.pc = "abandon", !.error = "fail"] \in Task
    BY <1>0, <2>2 DEF Task
  <2>4. proc' \in [Writer -> Task]
    BY <2>1, <2>3
  <2> QED BY <1>7, <2>4 DEF FailClose
<1>8. CASE AbandonWriter(w)
  <2> DEFINE f == LastHeld(w)
  <2>1. /\ tmp' = [tmp EXCEPT ![f] = NoFile] /\ UNCHANGED <<area, final, uploads>>
        /\ proc' = [v \in Writer |->
             IF v = w THEN [proc[w] EXCEPT !.hold[f] = "none"]
             ELSE [proc[v] EXCEPT !.hold = Moved(@, f, FALSE)]]
    BY <1>8 DEF AbandonWriter, Discard
  <2> HIDE DEF f
  <2>2. [proc[w] EXCEPT !.hold[f] = "none"] \in Task
    BY <1>0 DEF Task, Held
  <2>3. ASSUME NEW v \in Writer PROVE [proc[v] EXCEPT !.hold = Moved(@, f, FALSE)] \in Task
    <3>1. Moved(proc[v].hold, f, FALSE) \in [File -> Held]
      BY <1>0 DEF Task, Held, Moved
    <3> QED BY <1>0, <3>1 DEF Task
  <2>4. proc' \in [Writer -> Task]
    BY <2>1, <2>2, <2>3
  <2>5. tmp' \in [File -> Content]
    BY <2>1, FixedTypes
  <2> QED BY <2>1, <2>4, <2>5
<1>9. CASE EndAttempt(w)
  <2>1. CASE proc[w].error = "retry" /\ proc[w].tries < MaxRetries
    <3>1. proc' = [proc EXCEPT ![w] = [Idle EXCEPT !.pc = "open", !.tries = proc[w].tries + 1]]
      BY <1>9, <2>1 DEF EndAttempt
    <3>2. proc[w].tries + 1 \in 0..MaxRetries
      BY <2>1, <1>0, OsmDownloadAssumption DEF Task
    <3>3. proc' \in [Writer -> Task]
      BY <3>1, <3>2, FixedTypes
    <3> QED BY <1>9, <3>3 DEF EndAttempt
  <2>2. CASE Step(w, "failed")
    <3>1. proc' \in [Writer -> Task]
      BY <2>2, <1>S DEF Over
    <3> QED BY <1>9, <3>1 DEF EndAttempt
  <2> QED BY <1>9, <2>1, <2>2 DEF EndAttempt
<1>10. CASE Kill(w)
  <2>1. proc' \in [Writer -> Task]
    BY <1>10, FixedTypes DEF Kill, Over
  <2> QED BY <1>10, <2>1 DEF Kill
<1> HIDE DEF DlTypeInv
<1> QED BY <1>1, <1>2, <1>3, <1>4, <1>5, <1>6, <1>7, <1>8, <1>9, <1>10 DEF DownloadStep

\* So does the start of an upload.
LEMMA StartUploadTypes ==
    ASSUME DlTypeInv, NEW w \in Writer, StartUpload(w)
    PROVE  DlTypeInv'
<1>0. \A v \in Writer : proc[v] \in Task
  BY DEF DlTypeInv
<1>1. [Idle EXCEPT !.pc = "open"] \in Task
  BY FixedTypes
<1>2. ASSUME NEW v \in Writer
      PROVE  [proc[v] EXCEPT !.hold = [f \in File |-> IF @[f] = "final" THEN "lost" ELSE @[f]]] \in Task
  <2> DEFINE hold == [f \in File |-> IF proc[v].hold[f] = "final" THEN "lost" ELSE proc[v].hold[f]]
  <2>1. hold \in [File -> Held]
    BY <1>0 DEF Task, Held
  <2>2. [proc[v] EXCEPT !.hold = [f \in File |-> IF @[f] = "final" THEN "lost" ELSE @[f]]]
            = [proc[v] EXCEPT !.hold = hold]
    OBVIOUS
  <2> HIDE DEF hold
  <2>3. [proc[v] EXCEPT !.hold = hold] \in Task
    BY <1>0, <2>1 DEF Task
  <2> QED BY <2>2, <2>3
<1>3. proc' \in [Writer -> Task]
  BY <1>1, <1>2 DEF StartUpload
<1>4. uploads' \in 0..MaxUploads /\ area' \in Areas
  BY OsmDownloadAssumption DEF StartUpload, DlTypeInv
<1>5. final' \in [File -> Content] /\ tmp' \in [File -> Content]
  BY FixedTypes DEF StartUpload, DlTypeInv
<1> QED BY <1>3, <1>4, <1>5 DEF DlTypeInv

\* A click sends one more request.
LEMMA ClickTypes ==
    ASSUME EdTypeInv, NEW t \in Tab, NEW do \in Edit \cup {"open", "all", "none"},
           NEW arg \in SUBSET (Road \cup Tag \cup Buckets), ArgFits([do |-> do, arg |-> arg]),
           Click(t, do, arg), tab' \in [Tab -> Page]
    PROVE  EdTypeInv'
<1> DEFINE c == Call(t, do, arg)
<1>1. c = [tab |-> t, no |-> clicks + 1, do |-> do, arg |-> arg, at |-> "sent", seen |-> NewJob]
  BY DEF Call
<1>2. clicks + 1 \in 1..MaxClicks
  BY StreetEditsAssumption DEF Click, EdTypeInv
<1>3. c \in Request
  <2>1. NewJob \in Row
    BY FixedTypes
  <2> HIDE DEF c
  <2> QED BY <1>1, <1>2, <2>1 DEF Request
<1>4. ArgFits(c)
  BY <1>1 DEF ArgFits
<1>5. calls' = calls \cup {c} /\ clicks' = clicks + 1
      /\ UNCHANGED <<row, network, submits, settled>> /\ calm' \in SUBSET Tab
  BY DEF Click, EdTypeInv
<1> HIDE DEF c
<1>6. calls' \subseteq Request /\ \A d \in calls' : ArgFits(d)
  BY <1>3, <1>4, <1>5 DEF EdTypeInv
<1>7. clicks' \in 0..MaxClicks
  BY <1>2, <1>5 DEF EdTypeInv
<1>8. /\ row' \in Row /\ network' \in Network /\ submits' \subseteq Submit
      /\ settled' \subseteq Road /\ calm' \subseteq Tab
  BY <1>5 DEF EdTypeInv
<1> QED BY <1>6, <1>7, <1>8 DEF EdTypeInv

\* The page of a tab after a click, and the roads a panel shows.
LEMMA PageTypes ==
    ASSUME EdTypeInv, NEW t \in Tab
    PROVE  /\ tab[t] \in Page
           /\ \A tags \in SUBSET Tag : [tab EXCEPT ![t].tags = tags] \in [Tab -> Page]
           /\ \A grades \in SUBSET Buckets : [tab EXCEPT ![t].grades = grades] \in [Tab -> Page]
           /\ \A edits \in Intent : Panel(edits) \subseteq Road
           /\ \A seen \in Row : StreetsPage(seen) \in Page
<1>1. tab \in [Tab -> Page]
  BY DEF EdTypeInv
<1>2. \A tags \in SUBSET Tag : [tab EXCEPT ![t].tags = tags] \in [Tab -> Page]
  BY <1>1 DEF Page
<1>3. \A grades \in SUBSET Buckets : [tab EXCEPT ![t].grades = grades] \in [Tab -> Page]
  BY <1>1 DEF Page
<1>4. \A edits \in Intent : Panel(edits) \subseteq Road
  BY DEF Panel, Intent
<1>5. ASSUME NEW seen \in Row PROVE StreetsPage(seen) \in Page
  <2>1. seen.edits \in Intent
    BY DEF Row
  <2>2. Panel(seen.edits) \subseteq Road
    BY <1>4, <2>1
  <2>3. /\ seen.edits.tags \in SUBSET Tag /\ seen.edits.grades \in SUBSET Buckets
        /\ seen.edits.keep \in {"all", "largest"}
    BY <2>1 DEF Intent
  <2> DEFINE active == seen.status = "PENDING"
             clearOn == active /\ seen.edits.removed # {}
             keepOn == active /\ seen.edits.keep = "all"
             panel == Panel(seen.edits)
  <2>4. StreetsPage(seen)
          = [shown |-> "streets", active |-> active, tags |-> seen.edits.tags,
             grades |-> seen.edits.grades, restore |-> panel, hint |-> seen.edits.keep,
             clearOn |-> clearOn, keepOn |-> keepOn]
    BY DEF StreetsPage
  <2>5. active \in BOOLEAN /\ clearOn \in BOOLEAN /\ keepOn \in BOOLEAN
    OBVIOUS
  <2>6. panel \in SUBSET Road
    BY <2>2
  <2> HIDE DEF active, clearOn, keepOn, panel
  <2> QED BY <2>3, <2>4, <2>5, <2>6 DEF Page
<1> QED BY <1>1, <1>2, <1>3, <1>4, <1>5

\* An edit of an intent is an intent.
LEMMA EditedTypes ==
    ASSUME NEW c \in Request, ArgFits(c), c.do \in Edit, NEW edits \in Intent
    PROVE  Edited(c.do, c.arg, edits) \in Intent
<1>1. CASE c.do = "tags"
  <2>1. Edited(c.do, c.arg, edits) = [edits EXCEPT !.tags = c.arg, !.keep = "all"]
    BY <1>1 DEF Edited
  <2> QED BY <1>1, <2>1 DEF Intent, ArgFits
<1>2. CASE c.do = "grades"
  <2>1. Edited(c.do, c.arg, edits) = [edits EXCEPT !.grades = c.arg, !.keep = "all"]
    BY <1>2 DEF Edited
  <2> QED BY <1>2, <2>1 DEF Intent, ArgFits
<1>3. CASE c.do = "remove"
  <2>1. Edited(c.do, c.arg, edits) = [edits EXCEPT !.removed = @ \cup c.arg, !.keep = "all"]
    BY <1>3 DEF Edited
  <2> QED BY <1>3, <2>1 DEF Intent, ArgFits
<1>4. CASE c.do = "restore"
  <2>1. Edited(c.do, c.arg, edits) = [edits EXCEPT !.removed = @ \ c.arg, !.keep = "all"]
    BY <1>4 DEF Edited
  <2> QED BY <1>4, <2>1 DEF Intent, ArgFits
<1>5. CASE c.do = "clear"
  <2>1. Edited(c.do, c.arg, edits) = [edits EXCEPT !.removed = {}, !.keep = "all"]
    BY <1>5 DEF Edited
  <2> QED BY <1>5, <2>1 DEF Intent
<1>6. CASE c.do = "keep"
  <2>1. Edited(c.do, c.arg, edits) = [edits EXCEPT !.keep = "largest"]
    BY <1>6 DEF Edited
  <2> QED BY <1>6, <2>1 DEF Intent
<1>7. CASE c.do = "reset"
  BY <1>7, FixedTypes DEF Edited
<1> QED BY <1>1, <1>2, <1>3, <1>4, <1>5, <1>6, <1>7 DEF Edit

\* What a click shows is a page.
LEMMA AnsweredTypes ==
    ASSUME EdTypeInv, NEW t \in Tab, NEW do \in Edit, NEW edits \in Intent
    PROVE  Answered(t, do, edits) \in Page
<1>1. /\ tab[t] \in Page /\ Panel(edits) \in SUBSET Road
      /\ edits.keep \in {"all", "largest"}
  BY PageTypes DEF Intent
<1>2. CASE do \in {"tags", "grades", "keep"}
  <2>1. Answered(t, do, edits) = [tab[t] EXCEPT !.hint = edits.keep]
    BY <1>2 DEF Answered
  <2> QED BY <1>1, <2>1 DEF Page
<1>3. CASE do \in {"remove", "restore"}
  <2>1. Answered(t, do, edits) = [tab[t] EXCEPT !.hint = edits.keep, !.restore = Panel(edits)]
    BY <1>3 DEF Answered
  <2> QED BY <1>1, <2>1 DEF Page
<1>4. CASE do = "clear"
  <2>1. Answered(t, do, edits) = [tab[t] EXCEPT !.hint = edits.keep, !.restore = {}]
    BY <1>4 DEF Answered
  <2> QED BY <1>1, <2>1 DEF Page
<1>5. CASE do = "reset"
  <2>1. Answered(t, do, edits) = [tab[t] EXCEPT !.hint = "all", !.restore = {},
                                        !.tags = Tag, !.grades = DefaultGrades]
    BY <1>5 DEF Answered
  <2> QED BY <1>1, <2>1, RoadNetworkAssumption DEF Page
<1> QED BY <1>2, <1>3, <1>4, <1>5 DEF Edit

\* A click on a page sends one of the requests the page offers.
LEMMA ClickOnTypes ==
    ASSUME EdTypeInv, NEW t \in Tab, ClickOn(t)
    PROVE  EdTypeInv'
<1>0. tab \in [Tab -> Page] /\ tab[t] \in Page /\ tab[t].restore \subseteq Road
  BY PageTypes DEF EdTypeInv, Page
<1>1. ASSUME NEW do \in {"remove", "restore"}, NEW r \in Road, Click(t, do, {r}), UNCHANGED tab
      PROVE  EdTypeInv'
  <2>1. ArgFits([do |-> do, arg |-> {r}])
    BY DEF ArgFits
  <2>2. {r} \in SUBSET (Road \cup Tag \cup Buckets) /\ do \in Edit \cup {"open", "all", "none"}
    BY DEF Edit
  <2>3. tab' \in [Tab -> Page]
    BY <1>1, <1>0
  <2> QED BY <1>1, <2>1, <2>2, <2>3, ClickTypes
<1>2. ASSUME NEW do \in {"clear", "keep", "reset", "all", "none"}, Click(t, do, {}), UNCHANGED tab
      PROVE  EdTypeInv'
  <2>1. ArgFits([do |-> do, arg |-> {}])
    BY DEF ArgFits
  <2>2. {} \in SUBSET (Road \cup Tag \cup Buckets) /\ do \in Edit \cup {"open", "all", "none"}
    BY DEF Edit
  <2>3. tab' \in [Tab -> Page]
    BY <1>2, <1>0
  <2> QED BY <1>2, <2>1, <2>2, <2>3, ClickTypes
<1>3. ASSUME Toggle(t, "tags", Tag) PROVE EdTypeInv'
  <2>1. PICK new \in SUBSET Tag : Click(t, "tags", new) /\ tab' = [tab EXCEPT ![t].tags = new]
    <3>1. tab[t].tags \in SUBSET Tag
      BY <1>0 DEF Page
    <3>2. PICK item \in Tag :
            LET new == IF item \in tab[t]["tags"] THEN tab[t]["tags"] \ {item}
                       ELSE tab[t]["tags"] \cup {item}
            IN Click(t, "tags", new) /\ tab' = [tab EXCEPT ![t]["tags"] = new]
      BY <1>3 DEF Toggle
    <3>3. (IF item \in tab[t]["tags"] THEN tab[t]["tags"] \ {item}
           ELSE tab[t]["tags"] \cup {item}) \in SUBSET Tag
      BY <3>1
    <3> QED BY <3>2, <3>3
  <2>2. ArgFits([do |-> "tags", arg |-> new])
    BY DEF ArgFits
  <2>3. new \in SUBSET (Road \cup Tag \cup Buckets) /\ "tags" \in Edit \cup {"open", "all", "none"}
    BY DEF Edit
  <2>4. tab' \in [Tab -> Page]
    BY <2>1, PageTypes
  <2> QED BY <2>1, <2>2, <2>3, <2>4, ClickTypes
<1>4. ASSUME Toggle(t, "grades", Buckets) PROVE EdTypeInv'
  <2>1. PICK new \in SUBSET Buckets : Click(t, "grades", new) /\ tab' = [tab EXCEPT ![t].grades = new]
    <3>1. tab[t].grades \in SUBSET Buckets
      BY <1>0 DEF Page
    <3>2. PICK item \in Buckets :
            LET new == IF item \in tab[t]["grades"] THEN tab[t]["grades"] \ {item}
                       ELSE tab[t]["grades"] \cup {item}
            IN Click(t, "grades", new) /\ tab' = [tab EXCEPT ![t]["grades"] = new]
      BY <1>4 DEF Toggle
    <3>3. (IF item \in tab[t]["grades"] THEN tab[t]["grades"] \ {item}
           ELSE tab[t]["grades"] \cup {item}) \in SUBSET Buckets
      BY <3>1
    <3> QED BY <3>2, <3>3
  <2>2. ArgFits([do |-> "grades", arg |-> new])
    BY DEF ArgFits
  <2>3. new \in SUBSET (Road \cup Tag \cup Buckets) /\ "grades" \in Edit \cup {"open", "all", "none"}
    BY DEF Edit
  <2>4. tab' \in [Tab -> Page]
    BY <2>1, PageTypes
  <2> QED BY <2>1, <2>2, <2>3, <2>4, ClickTypes
<1> QED BY <1>0, <1>1, <1>2, <1>3, <1>4 DEF ClickOn

\* Submits, runs and resets.
SubmitStep ==
    \/ LoadForRun \/ EndRun \/ ResetRun
    \/ \E s \in submits : QueueRun(s) \/ SaveForRun(s) \/ FailToStart(s)

\* They touch the row, the submits and what is calm.
LEMMA SubmitTypes ==
    ASSUME EdTypeInv, SubmitStep
    PROVE  /\ row' \in Row /\ submits' \subseteq Submit /\ clicks' \in 0..MaxClicks
           /\ calm' \subseteq Tab /\ UNCHANGED <<network, tab, calls, settled>>
<1>0. row \in Row /\ submits \subseteq Submit /\ clicks \in 0..MaxClicks /\ calm \subseteq Tab
  BY DEF EdTypeInv
<1>1. \A status \in {"PENDING", "RUNNING", "FAILED"} : [row EXCEPT !.status = status] \in Row
  BY <1>0 DEF Row
<1>2. CASE LoadForRun
  <2> DEFINE s == [no |-> clicks + 1, at |-> "loaded", seen |-> row]
  <2>1. clicks + 1 \in 1..MaxClicks /\ clicks' = clicks + 1
    BY <1>0, <1>2, StreetEditsAssumption DEF LoadForRun
  <2>2. s \in Submit
    BY <1>0, <2>1 DEF Submit
  <2>3. submits' = submits \cup {s}
    BY <1>2 DEF LoadForRun
  <2> HIDE DEF s
  <2> QED BY <1>0, <1>2, <2>1, <2>2, <2>3 DEF LoadForRun
<1>3. CASE EndRun \/ ResetRun
  BY <1>0, <1>1, <1>3 DEF EndRun, ResetRun
<1>4. ASSUME NEW s \in submits, QueueRun(s) \/ SaveForRun(s) \/ FailToStart(s)
      PROVE  /\ row' \in Row /\ submits' \subseteq Submit
             /\ UNCHANGED <<clicks, network, tab, calls, settled>> /\ calm' \subseteq Tab
  <2>1. s \in Submit /\ s.seen \in Row /\ [s EXCEPT !.at = "queued"] \in Submit
    BY <1>0 DEF Submit
  <2>2. [s.seen EXCEPT !.status = row.status] \in Row
    BY <1>0, <2>1 DEF Row
  <2>3. row' \in Row
    BY <1>0, <1>1, <1>4, <2>2 DEF QueueRun, SaveForRun, FailToStart
  <2>4. submits' \subseteq Submit
    BY <1>0, <1>4, <2>1 DEF QueueRun, SaveForRun, FailToStart
  <2> QED BY <1>0, <1>4, <2>3, <2>4 DEF QueueRun, SaveForRun, FailToStart
<1> QED BY <1>0, <1>2, <1>3, <1>4 DEF SubmitStep

\* The steps of the page keep its types.
LEMMA EditTypes ==
    ASSUME EdTypeInv, EditStep
    PROVE  EdTypeInv'
<1>0. /\ row \in Row /\ network \in Network /\ tab \in [Tab -> Page]
      /\ calls \subseteq Request /\ clicks \in 0..MaxClicks /\ settled \subseteq Road
      /\ calm \subseteq Tab /\ \A d \in calls : ArgFits(d) /\ submits \subseteq Submit
  BY DEF EdTypeInv
<1>1. ASSUME NEW t \in Tab, OpenPage(t) PROVE EdTypeInv'
  <2>1. ArgFits([do |-> "open", arg |-> {}])
    BY DEF ArgFits
  <2>2. Click(t, "open", {}) /\ tab' \in [Tab -> Page]
    BY <1>0, <1>1 DEF OpenPage
  <2> QED BY <2>1, <2>2, ClickTypes
<1>2. ASSUME NEW t \in Tab, ClickOn(t) PROVE EdTypeInv'
  BY <1>2, ClickOnTypes
<1>3. ASSUME NEW c \in calls, LoadJob(c) PROVE EdTypeInv'
  <2>1. c \in Request /\ ArgFits(c)
    BY <1>0
  <2> DEFINE new == [c EXCEPT !.at = "loaded", !.seen = row]
  <2>2. new \in Request /\ new.do = c.do /\ new.arg = c.arg
    BY <2>1, <1>0 DEF Request
  <2>3. ArgFits(new)
    BY <2>1, <2>2 DEF ArgFits
  <2> HIDE DEF new
  <2>4. calls' = (calls \ {c}) \cup {new} \/ calls' = (calls \ {c}) \cup {}
    BY <1>3 DEF LoadJob, Replaced, new
  <2>5. calls' \subseteq Request /\ \A d \in calls' : ArgFits(d)
    BY <1>0, <2>2, <2>3, <2>4
  <2>6. tab' \in [Tab -> Page]
    <3>1. tab' = tab \/ tab' = [tab EXCEPT ![c.tab] = NoPage]
      BY <1>3 DEF LoadJob
    <3> QED BY <1>0, <3>1, FixedTypes
  <2>7. calm' \subseteq Tab /\ UNCHANGED <<row, network, submits, clicks, settled>>
    BY <1>0, <1>3 DEF LoadJob
  <2> QED BY <1>0, <2>5, <2>6, <2>7 DEF EdTypeInv
<1>4. ASSUME NEW c \in calls, RenderPage(c) PROVE EdTypeInv'
  <2>1. c \in Request
    BY <1>0
  <2>2. c.tab \in Tab /\ c.seen \in Row
    BY <2>1 DEF Request
  <2>3. StreetsPage(c.seen) \in Page
    BY <2>2, PageTypes
  <2>4. tab' \in [Tab -> Page]
    BY <1>0, <1>4, <2>3 DEF RenderPage
  <2>5. calls' \subseteq calls /\ UNCHANGED <<row, network, submits, clicks, settled>>
    BY <1>4 DEF RenderPage, Replaced
  <2>6. calm' \subseteq Tab
    BY <1>0, <1>4, <2>2 DEF RenderPage
  <2> QED BY <1>0, <2>4, <2>5, <2>6 DEF EdTypeInv
<1>5. ASSUME NEW c \in calls, SelectAllNone(c) PROVE EdTypeInv'
  <2>1. c \in Request /\ c.tab \in Tab
    BY <1>0 DEF Request
  <2> DEFINE tags == IF c.do = "all" THEN Tag ELSE {}
             new == [c EXCEPT !.do = "tags", !.arg = tags]
  <2>2. tags \in SUBSET Tag
    OBVIOUS
  <2>3. new \in Request /\ new.do = "tags" /\ new.arg = tags
    <3> HIDE DEF tags
    <3> QED BY <2>1, <2>2 DEF Request, Edit
  <2>4. ArgFits(new)
    BY <2>2, <2>3 DEF ArgFits
  <2>5. /\ calls' = (calls \ {c}) \cup {new}
        /\ tab' = [tab EXCEPT ![c.tab].tags = tags]
        /\ UNCHANGED <<row, network, submits, clicks, settled, calm>>
    BY <1>5 DEF SelectAllNone, Replaced
  <2> HIDE DEF new, tags
  <2>6. tab' \in [Tab -> Page]
    BY <2>1, <2>2, <2>5, PageTypes
  <2> QED BY <1>0, <2>3, <2>4, <2>5, <2>6 DEF EdTypeInv
<1>6. ASSUME NEW c \in calls, ApplyEdits(c) PROVE EdTypeInv'
  <2> DEFINE edits == Edited(c.do, c.arg, c.seen.edits)
             mine == IF Changes(c.do, c.arg, c.seen.edits) THEN edits ELSE c.seen.edits
  <2>1. c \in Request /\ ArgFits(c) /\ c.do \in Edit
    BY <1>0, <1>6 DEF ApplyEdits
  <2>2. c.tab \in Tab /\ c.seen.edits \in Intent
    BY <2>1 DEF Request, Row
  <2>3. edits \in Intent
    BY <2>1, <2>2, EditedTypes
  <2>4. mine \in Intent
    BY <2>2, <2>3
  <2>5. Answered(c.tab, c.do, mine) \in Page
    <3> HIDE DEF mine
    <3> QED BY <2>1, <2>2, <2>4, AnsweredTypes
  <2>6. tab' \in [Tab -> Page]
    <3>1. tab' = tab \/ tab' = [tab EXCEPT ![c.tab] = Answered(c.tab, c.do, mine)]
      BY <1>6 DEF ApplyEdits
    <3> HIDE DEF mine
    <3> QED BY <1>0, <2>5, <3>1
  <2>7. row' \in Row
    <3>1. row' = row \/ row' = [row EXCEPT !.edits = edits]
      BY <1>6 DEF ApplyEdits
    <3> HIDE DEF edits
    <3> QED BY <1>0, <2>3, <3>1 DEF Row
  <2>8. calls' \subseteq Request /\ \A d \in calls' : ArgFits(d)
    <3>1. calls' = (calls \ {c}) \cup {} \/ calls' = (calls \ {c}) \cup Cascade(c)
      BY <1>6 DEF ApplyEdits, Replaced
    <3>2. Cascade(c) \subseteq Request /\ \A d \in Cascade(c) : ArgFits(d)
      <4>1. CASE c.do = "reset"
        <5> DEFINE sent == [c EXCEPT !.at = "sent", !.seen = NewJob]
                   tags == [sent EXCEPT !.do = "tags", !.arg = Tag]
                   grades == [sent EXCEPT !.do = "grades", !.arg = DefaultGrades]
        <5>0. NewJob \in Row
          BY FixedTypes
        <5>1. sent \in Request
          BY <2>1, <5>0 DEF Request
        <5> HIDE DEF sent
        <5>2. tags \in Request /\ tags.do = "tags" /\ tags.arg = Tag
          BY <5>1 DEF Request, Edit
        <5>3. grades \in Request /\ grades.do = "grades" /\ grades.arg = DefaultGrades
          BY <5>1, RoadNetworkAssumption DEF Request, Edit
        <5>4. Cascade(c) = {tags, grades}
          BY <4>1 DEF Cascade, sent
        <5> HIDE DEF tags, grades
        <5>5. ArgFits(tags) /\ ArgFits(grades)
          BY <5>2, <5>3, RoadNetworkAssumption DEF ArgFits
        <5> QED BY <5>2, <5>3, <5>4, <5>5
      <4>2. CASE c.do # "reset"
        BY <4>2 DEF Cascade
      <4> QED BY <4>1, <4>2
    <3> QED BY <1>0, <3>1, <3>2
  <2>9. settled' \subseteq Road
    <3>1. settled' \in {settled, Settled(c)}
      BY <1>6 DEF ApplyEdits
    <3>2. Settled(c) \subseteq Road
      BY <1>0, <2>1 DEF Settled, ArgFits
    <3> QED BY <1>0, <3>1, <3>2
  <2>10. calm' \subseteq Tab /\ UNCHANGED <<network, submits, clicks>>
    BY <1>0, <1>6 DEF ApplyEdits
  <2> QED BY <1>0, <2>6, <2>7, <2>8, <2>9, <2>10 DEF EdTypeInv
<1>7. ASSUME SubmitStep PROVE EdTypeInv'
  <2>1. /\ row' \in Row /\ submits' \subseteq Submit /\ clicks' \in 0..MaxClicks
        /\ calm' \subseteq Tab /\ UNCHANGED <<network, tab, calls, settled>>
    BY <1>7, SubmitTypes
  <2> QED BY <1>0, <2>1 DEF EdTypeInv
<1> QED BY <1>1, <1>2, <1>3, <1>4, <1>5, <1>6, <1>7 DEF EditStep, SubmitStep

\* The initial state has the types.
LEMMA TypeInit == Init => TypeInv
<1> SUFFICES ASSUME Init PROVE TypeInv
  OBVIOUS
<1>1. DlTypeInv
  <2>1. Idle \in Task
    <3>1. Closed \in [File -> Held]
      BY FixedTypes
    <3> QED BY <3>1, OsmDownloadAssumption DEF Idle, Task, Over
  <2>2. proc \in [Writer -> Task]
    BY <2>1 DEF Init, DlInit
  <2>3. tmp \in [File -> Content] /\ final \in [File -> Content]
    BY FixedTypes DEF Init, DlInit
  <2>4. area \in Areas /\ uploads \in 0..MaxUploads
    BY OsmDownloadAssumption DEF Init, DlInit
  <2> QED BY <2>2, <2>3, <2>4 DEF DlTypeInv
<1>2. EdTypeInv
  <2>1. NewJob \in Row /\ NoPage \in Page /\ <<>> \in Network
    BY FixedTypes, NetworkTypes
  <2>2. clicks \in 0..MaxClicks
    BY StreetEditsAssumption DEF Init, EdInit
  <2> QED BY <2>1, <2>2 DEF Init, EdInit, EdTypeInv
<1> QED BY <1>1, <1>2 DEF TypeInv

\* Every step keeps them.
LEMMA TypeStep == TypeInv /\ [Next]_vars => TypeInv'
<1> SUFFICES ASSUME TypeInv, [Next]_vars PROVE TypeInv'
  OBVIOUS
<1>0. DlTypeInv /\ EdTypeInv
  BY DEF TypeInv
<1>1. ASSUME NEW w \in Writer, Upload(w) PROVE TypeInv'
  <2>1. DlTypeInv'
    BY <1>0, <1>1, StartUploadTypes DEF Upload
  <2>2. ForgetNetwork(uploads + 1) /\ uploads + 1 \in Nat
    BY <1>0, <1>1, OsmDownloadAssumption DEF Upload, DlTypeInv
  <2>3. row' \in Row
    <3>1. /\ row' = [row EXCEPT !.edits = NoEdits, !.sp = "RUNNING", !.of = uploads + 1]
          /\ row \in Row /\ NoEdits \in Intent
      BY <1>0, <2>2, FixedTypes DEF ForgetNetwork, EdTypeInv
    <3> QED BY <2>2, <3>1 DEF Row
  <2>4. clicks' \in 0..MaxClicks
    BY <1>0, <2>2, StreetEditsAssumption DEF ForgetNetwork, EdTypeInv
  <2>5. EdTypeInv'
    BY <1>0, <2>2, <2>3, <2>4, NetworkTypes DEF ForgetNetwork, EdTypeInv
  <2> QED BY <2>1, <2>5 DEF TypeInv
<1>2. ASSUME NEW w \in Writer, Download(w) PROVE TypeInv'
  <2>1. DlTypeInv'
    BY <1>0, <1>2, DownloadTypes DEF Download
  <2>2. EdTypeInv'
    BY <1>0, <1>2 DEF Download, edVars, EdTypeInv
  <2> QED BY <2>1, <2>2 DEF TypeInv
<1>U. ASSUME NEW upload, NEW sp \in {"COMPLETED", "FAILED"}, NEW net \in Network,
             EndUpload(upload, sp, net), UNCHANGED dlVars
      PROVE  TypeInv'
  <2>1. DlTypeInv'
    BY <1>0, <1>U DEF dlVars, DlTypeInv
  <2>2. row' \in Row
    <3>1. row \in Row /\ row' \in {row, [row EXCEPT !.sp = sp]}
      BY <1>0, <1>U DEF EndUpload, EdTypeInv
    <3> QED BY <3>1 DEF Row
  <2>3. EdTypeInv'
    BY <1>0, <1>U, <2>2 DEF EndUpload, EdTypeInv
  <2> QED BY <2>1, <2>3 DEF TypeInv
<1>3. ASSUME NEW w \in Writer, EndTask(w) PROVE TypeInv'
  <2>2. NamedByTheRow \in Network
    <3>1. final["download"] \in Content
      BY <1>0, FilesAre DEF DlTypeInv
    <3> QED BY <3>1 DEF Content, NamedByTheRow
  <2>3. network \in Network
    BY <1>0 DEF EdTypeInv
  <2> QED BY <1>3, <1>U, <2>2, <2>3 DEF EndTask
<1>6. ASSUME EndEarlierTask PROVE TypeInv'
  <2>1. network \in Network
    BY <1>0 DEF EdTypeInv
  <2> QED BY <1>6, <1>U, <2>1 DEF EndEarlierTask
<1>4. ASSUME OnStreetPage PROVE TypeInv'
  <2>1. EdTypeInv'
    BY <1>0, <1>4, EditTypes DEF OnStreetPage
  <2>2. DlTypeInv'
    BY <1>0, <1>4 DEF OnStreetPage, dlVars, DlTypeInv
  <2> QED BY <2>1, <2>2 DEF TypeInv
<1>5. ASSUME UNCHANGED vars PROVE TypeInv'
  BY <1>0, <1>5 DEF vars, dlVars, edVars, TypeInv, DlTypeInv, EdTypeInv
<1> QED BY <1>1, <1>2, <1>3, <1>4, <1>5, <1>6 DEF Next

\* Files, tasks, row, tabs and requests are what their types say, in every
\* reachable state.
THEOREM TypeCorrect == Spec => []TypeOK
<1>1. Spec => []TypeInv
  BY TypeInit, TypeStep, PTL DEF Spec
<1> QED BY <1>1, TypeInvSuffices, PTL

-----------------------------------------------------------------------------
(* A file with its final name is the whole answer *)

\* At most one upload task is at work on the work dir, as when the revoke of the
\* task before it has ended it; two would mix in the temporary files.
OneWriter == \A v, w \in Writer : v = w

\* The ways that reach the file f, and what it holds of those with the ids.
Fitting(f, a) ==
    {id \in DOMAIN Osm :
        /\ TruncateByEdge(Osm[id].nodes, a) # <<>>
        /\ f = "download" \/ TrackGradeAllowed(Osm[id], DefaultGrades)}
Part(f, ids) == [id \in ids \cap Fitting(f, area) |-> WayToFeature(Osm[id], area)]

\* The ways an attempt has streamed.
Streamed(w) ==
    IF proc[w].pc \in {"stream", "close"} THEN DOMAIN Osm \ proc[w].left ELSE {}

\* Until an attempt is abandoned its temporary files hold what it has streamed,
\* and it closes them only at the end of the stream, the download last.
AttemptInv(w) ==
    /\ proc[w].hold \in [File -> {"none", "tmp"}]
    /\ proc[w].pc \in {"query", "stream"} => \A f \in File : proc[w].hold[f] = "tmp"
    /\ proc[w].pc = "close" => proc[w].left = {} /\ proc[w].hold["download"] = "tmp"
    /\ proc[w].pc \in {"open", "query", "stream", "close"} =>
        \A f \in File : proc[w].hold[f] = "tmp" =>
            /\ tmp[f].by = w /\ tmp[f].end = "open"
            /\ tmp[f].roads = Part(f, Streamed(w))
    /\ proc[w].pc = "done" => final["download"] # NoFile

FilesInv ==
    \A f \in File : final[f] # NoFile =>
        final[f].end = "closed" /\ final[f].roads = Part(f, DOMAIN Osm)

\* A row in which the last upload is completed names the whole download, and so
\* does one a submit has loaded and may put back; none is of an upload to come.
Names(r) ==
    /\ r.of <= uploads
    /\ r.sp = "COMPLETED" /\ r.of = uploads => network = Part("download", DOMAIN Osm)
NetworkInv == Names(row) /\ \A s \in submits : Names(s.seen)

DownloadInv == FilesInv /\ NetworkInv /\ \A w \in Writer : AttemptInv(w)

\* The ways of an answer that fit, and the whole answer, are such parts.
LEMMA PartsAre ==
    ASSUME NEW ids \in SUBSET DOMAIN Osm, NEW f
    PROVE  /\ Features(Restrict(Osm, ids), area) = Part("download", ids)
           /\ f # "download" =>
                FilterByGrades(Part("download", ids), DefaultGrades) = Part(f, ids)
<1> DEFINE cut == Restrict(Osm, ids)
           kept == {w \in DOMAIN cut : TruncateByEdge(cut[w].nodes, area) # <<>>}
<1>1. DOMAIN cut = ids /\ \A id \in ids : cut[id] = Osm[id]
  BY DEF Restrict
<1>2. kept = ids \cap Fitting("download", area)
  BY <1>1 DEF Fitting
<1>3. Features(cut, area) = [id \in kept |-> WayToFeature(cut[id], area)]
  BY DEF Features
<1>4. \A id \in kept : cut[id] = Osm[id]
  BY <1>1
<1> HIDE DEF cut, kept
<1>5. Features(cut, area) = Part("download", ids)
  BY <1>2, <1>3, <1>4 DEF Part
<1>6. ASSUME f # "download"
      PROVE  FilterByGrades(Part("download", ids), DefaultGrades) = Part(f, ids)
  <2> DEFINE all == Part("download", ids)
             good == {id \in DOMAIN all : TrackGradeAllowed(all[id], DefaultGrades)}
  <2>1. /\ DOMAIN all = ids \cap Fitting("download", area)
        /\ \A id \in DOMAIN all : all[id] = WayToFeature(Osm[id], area) /\ id \in DOMAIN Osm
    BY DEF Part, Fitting
  <2>2. \A id \in DOMAIN all :
            TrackGradeAllowed(all[id], DefaultGrades) <=> TrackGradeAllowed(Osm[id], DefaultGrades)
    BY <2>1, GradeOfFeature, OsmDownloadAssumption
  <2>3. FilterByGrades(all, DefaultGrades) = [id \in good |-> all[id]]
    BY DEF FilterByGrades, Restrict
  <2>4. good = ids \cap Fitting(f, area)
    BY <1>6, <2>1, <2>2 DEF Fitting
  <2>5. \A id \in good : all[id] = WayToFeature(Osm[id], area)
    BY <2>1
  <2> HIDE DEF all, good
  <2>6. FilterByGrades(all, DefaultGrades) = Part(f, ids)
    BY <2>3, <2>4, <2>5 DEF Part
  <2> QED BY <2>6 DEF all
<1> QED BY <1>5, <1>6 DEF cut

\* What the code's Whole says of a file.
LEMMA WholeIs ==
    ASSUME NEW f
    PROVE  Whole(f) = Part(f, DOMAIN Osm)
<1> DEFINE every == Restrict(Osm, DOMAIN Osm)
<1>1. DOMAIN every = DOMAIN Osm /\ \A id \in DOMAIN Osm : every[id] = Osm[id]
  BY DEF Restrict
<1>2. Features(every, area) = Features(Osm, area)
  <2>1. {w \in DOMAIN every : TruncateByEdge(every[w].nodes, area) # <<>>}
         = {w \in DOMAIN Osm : TruncateByEdge(Osm[w].nodes, area) # <<>>}
    BY <1>1
  <2>2. \A id \in {w \in DOMAIN Osm : TruncateByEdge(Osm[w].nodes, area) # <<>>} :
            every[id] = Osm[id]
    BY <1>1
  <2> HIDE DEF every
  <2> QED BY <2>1, <2>2 DEF Features
<1>3. Features(every, area) = Part("download", DOMAIN Osm)
  BY PartsAre
<1>4. f # "download" =>
        FilterByGrades(Part("download", DOMAIN Osm), DefaultGrades) = Part(f, DOMAIN Osm)
  BY PartsAre
<1> HIDE DEF every
<1> QED BY <1>2, <1>3, <1>4 DEF Whole

\* Streaming one more way.
LEMMA PartGrows ==
    ASSUME NEW ids \in SUBSET DOMAIN Osm, NEW id \in DOMAIN Osm, NEW f \in File
    PROVE  LET roads == Part("download", {id}) IN
           IF DOMAIN roads # {} /\ f \in FilesOf(id)
           THEN Joined(roads, Part(f, ids)) = Part(f, ids \cup {id})
           ELSE Part(f, ids) = Part(f, ids \cup {id})
<1> DEFINE roads == Part("download", {id})
<1>1. /\ DOMAIN roads = {id} \cap Fitting("download", area)
      /\ \A k \in DOMAIN roads : roads[k] = WayToFeature(Osm[k], area)
  BY DEF Part
<1>2. (DOMAIN roads # {} /\ f \in FilesOf(id)) <=> id \in Fitting(f, area)
  BY <1>1, FilesAre DEF Fitting, FilesOf
<1>3. CASE id \in Fitting(f, area)
  <2>1. DOMAIN roads = {id}
    BY <1>1, <1>2, <1>3
  <2>2. (ids \cup {id}) \cap Fitting(f, area) = {id} \cup (ids \cap Fitting(f, area))
    BY <1>3
  <2> HIDE DEF roads
  <2>3. Joined(roads, Part(f, ids))
          = [k \in {id} \cup (ids \cap Fitting(f, area)) |->
                IF k \in {id} THEN roads[k] ELSE Part(f, ids)[k]]
    BY <2>1 DEF Joined, Part
  <2>4. \A k \in {id} \cup (ids \cap Fitting(f, area)) :
            (IF k \in {id} THEN roads[k] ELSE Part(f, ids)[k]) = WayToFeature(Osm[k], area)
    BY <1>1, <2>1 DEF Part
  <2>5. Joined(roads, Part(f, ids)) = Part(f, ids \cup {id})
    BY <2>2, <2>3, <2>4 DEF Part
  <2> QED BY <1>2, <1>3, <2>5 DEF roads
<1>4. CASE id \notin Fitting(f, area)
  <2>1. (ids \cup {id}) \cap Fitting(f, area) = ids \cap Fitting(f, area)
    BY <1>4
  <2>2. Part(f, ids) = Part(f, ids \cup {id})
    BY <2>1 DEF Part
  <2> QED BY <1>2, <1>4, <2>2
<1> QED BY <1>3, <1>4

\* Nothing streamed, and nothing more written at the end.
LEMMA PartsEnd ==
    ASSUME NEW f
    PROVE  /\ <<>> = Part(f, {})
           /\ \A ids \in SUBSET DOMAIN Osm : Joined(<<>>, Part(f, ids)) = Part(f, ids)
<1>1. <<>> = Part(f, {})
  BY DEF Part
<1>2. ASSUME NEW ids \in SUBSET DOMAIN Osm PROVE Joined(<<>>, Part(f, ids)) = Part(f, ids)
  <2> DEFINE fit == ids \cap Fitting(f, area)
  <2>1. DOMAIN Part(f, ids) = fit /\ Part(f, ids) = [id \in fit |-> WayToFeature(Osm[id], area)]
    BY DEF Part
  <2>2. DOMAIN <<>> = {}
    OBVIOUS
  <2> HIDE DEF fit
  <2>3. Joined(<<>>, Part(f, ids)) = [id \in fit |-> Part(f, ids)[id]]
    BY <2>1, <2>2 DEF Joined
  <2> QED BY <2>1, <2>3
<1> QED BY <1>1, <1>2

\* The file __exit__ closes next is one that is open.
LEMMA LastHeldIsHeld ==
    ASSUME NEW w \in Writer, AttemptInv(w), proc[w].hold["download"] = "tmp"
    PROVE  LastHeld(w) \in File /\ proc[w].hold[LastHeld(w)] = "tmp"
<1> DEFINE open == {i \in 1..Len(Files) : proc[w].hold[Files[i]] # "none"}
<1>1. Len(Files) = 3 /\ Files[1] = "download"
  BY FilesAre
<1>2. open \in SUBSET (1..3) /\ 1 \in open
  BY <1>1
<1>3. Max(open) \in open
  <2> HIDE DEF open
  <2> QED BY <1>2, GreatestIs
<1>4. Files[Max(open)] \in File /\ proc[w].hold[Files[Max(open)]] # "none"
  BY <1>3, FilesAre
<1>5. proc[w].hold[Files[Max(open)]] = "tmp"
  BY <1>4 DEF AttemptInv
<1> QED BY <1>4, <1>5 DEF LastHeld

\* The parts of an answer do not change while the polygon does not.
LEMMA PartStays ==
    ASSUME area' = area
    PROVE  \A f, ids : Part(f, ids)' = Part(f, ids)
BY DEF Part, Fitting

\* A step of a download that touches neither the files nor the area keeps what
\* is said of the files that have their names.
LEMMA FilesStay ==
    ASSUME FilesInv, UNCHANGED <<area, final>>
    PROVE  FilesInv'
<1>1. \A f, ids : Part(f, ids)' = Part(f, ids)
  BY PartStays
<1> QED BY <1>1 DEF FilesInv

\* An attempt that is over, or that has opened no file, promises nothing.
LEMMA AttemptOver ==
    ASSUME NEW w \in Writer,
           proc'[w].pc \in {"open", "killed", "failed", "abandon"},
           proc'[w].hold \in [File -> {"none", "tmp"}],
           proc'[w].pc = "open" => proc'[w].hold = Closed
    PROVE  AttemptInv(w)'
<1>1. proc'[w].pc = "open" => \A f \in File : proc'[w].hold[f] = "none"
  BY DEF Closed
<1> QED BY <1>1 DEF AttemptInv

\* Each step of a download keeps what its temporary files hold, and a file gets
\* its name only when it holds all.
LEMMA DownloadKeeps ==
    ASSUME TypeInv, FilesInv, NEW w \in Writer, AttemptInv(w), DownloadStep(w)
    PROVE  FilesInv' /\ AttemptInv(w)'
<1>T. /\ tmp \in [File -> Content] /\ final \in [File -> Content]
      /\ proc \in [Writer -> Task] /\ proc[w] \in Task
  BY DEF TypeInv, DlTypeInv
<1>H. proc[w].hold \in [File -> {"none", "tmp"}]
  BY DEF AttemptInv
<1>I. ASSUME NEW pc \in Over \cup {"open"}, NEW n
      PROVE  /\ [Idle EXCEPT !.pc = pc].pc = pc /\ [Idle EXCEPT !.pc = pc].hold = Closed
             /\ [Idle EXCEPT !.pc = pc, !.tries = n].pc = pc
             /\ [Idle EXCEPT !.pc = pc, !.tries = n].hold = Closed
  BY DEF Idle
<1>C. Closed \in [File -> {"none", "tmp"}]
  BY DEF Closed
<1>A. ASSUME NEW error, Abandon(w, error), UNCHANGED <<area, final>>
      PROVE  FilesInv' /\ AttemptInv(w)'
  <2>1. proc'[w].pc = "abandon" /\ proc'[w].hold = proc[w].hold
    BY <1>A, <1>T DEF Abandon, Task
  <2>2. AttemptInv(w)'
    BY <2>1, <1>H, AttemptOver
  <2> QED BY <2>2, <1>A, FilesStay
<1>1. CASE OpenWriter(w)
  <2>1. PICK i \in 1..Len(Files) :
            /\ proc[w].hold[Files[i]] = "none"
            /\ \A j \in 1..(i - 1) : proc[w].hold[Files[j]] # "none"
            /\ tmp' = [tmp EXCEPT ![Files[i]] = [by |-> w, roads |-> <<>>, end |-> "open"]]
            /\ proc' = [proc EXCEPT ![w].hold[Files[i]] = "tmp",
                                    ![w].pc = IF i = Len(Files) THEN "query" ELSE @]
    BY <1>1 DEF OpenWriter
  <2> DEFINE f == Files[i]
  <2>2. f \in File /\ UNCHANGED <<area, final>> /\ proc[w].pc = "open"
    BY <2>1, <1>1, FilesAre DEF OpenWriter, At
  <2>3. /\ proc'[w].hold = [proc[w].hold EXCEPT ![f] = "tmp"]
        /\ proc'[w].pc = IF i = Len(Files) THEN "query" ELSE proc[w].pc
    BY <2>1, <1>T DEF Task
  <2>4. \A ids, g : Part(g, ids)' = Part(g, ids)
    BY <2>2, PartStays
  <2>5. Streamed(w) = {} /\ Streamed(w)' = {}
    BY <2>2, <2>3 DEF Streamed
  <2>6. proc'[w].hold \in [File -> {"none", "tmp"}]
    BY <2>2, <2>3, <1>H
  <2>7. proc'[w].pc = "query" => \A g \in File : proc'[w].hold[g] = "tmp"
    <3> SUFFICES ASSUME proc'[w].pc = "query" PROVE \A g \in File : proc'[w].hold[g] = "tmp"
      OBVIOUS
    <3>1. i = 3
      BY <2>2, <2>3, FilesAre
    <3>2. proc[w].hold[Files[1]] # "none" /\ proc[w].hold[Files[2]] # "none"
      BY <2>1, <3>1
    <3>3. f = "transformed" /\ proc[w].hold["download"] = "tmp" /\ proc[w].hold["edited"] = "tmp"
      BY <3>1, <3>2, <1>H, FilesAre
    <3> QED BY <2>3, <3>3, <1>H, FilesAre
  <2>8. ASSUME NEW g \in File, proc'[w].hold[g] = "tmp"
        PROVE  tmp'[g].by = w /\ tmp'[g].end = "open" /\ tmp'[g].roads = Part(g, {})
    <3>1. CASE g = f
      <4>1. tmp'[g] = [by |-> w, roads |-> <<>>, end |-> "open"]
        BY <3>1, <2>1, <1>T
      <4> QED BY <4>1, PartsEnd
    <3>2. CASE g # f
      <4>1. proc[w].hold[g] = "tmp" /\ tmp'[g] = tmp[g]
        BY <3>2, <2>1, <2>2, <2>3, <2>8, <1>H, <1>T
      <4> QED BY <4>1, <2>2, <2>5 DEF AttemptInv
    <3> QED BY <3>1, <3>2
  <2>9. proc'[w].pc \in {"open", "query"}
    BY <2>2, <2>3
  <2>10. AttemptInv(w)'
    BY <2>4, <2>5, <2>6, <2>7, <2>8, <2>9 DEF AttemptInv
  <2> QED BY <2>2, <2>10, FilesStay
<1>2. CASE Query(w)
  <2>1. UNCHANGED <<area, tmp, final>> /\ proc[w].pc = "query"
    BY <1>2 DEF Query, At
  <2>2. CASE \E error \in {"retry", "fail"} : Abandon(w, error)
    BY <2>1, <2>2, <1>A
  <2>3. CASE proc' = [proc EXCEPT ![w].pc = "stream", ![w].left = DOMAIN Osm]
    <3>1. proc'[w].pc = "stream" /\ proc'[w].left = DOMAIN Osm /\ proc'[w].hold = proc[w].hold
      BY <2>3, <1>T DEF Task
    <3>2. Streamed(w)' = {} /\ Streamed(w) = {}
      BY <2>1, <3>1 DEF Streamed
    <3>3. \A g, ids : Part(g, ids)' = Part(g, ids)
      BY <2>1, PartStays
    <3>4. AttemptInv(w)'
      BY <2>1, <3>1, <3>2, <3>3 DEF AttemptInv
    <3> QED BY <2>1, <3>4, FilesStay
  <2> QED BY <1>2, <2>2, <2>3 DEF Query
<1>3. CASE StreamWay(w)
  <2> DEFINE id == Min(proc[w].left)
             roads == Features(Restrict(Osm, {id}), area)
             fs == IF DOMAIN roads = {} THEN {} ELSE FilesOf(id)
  <2>1. /\ proc[w].pc = "stream" /\ WriteTo(w, fs, roads, "open")
        /\ proc' = [proc EXCEPT ![w].left = @ \ {id}]
        /\ proc[w].left # {} /\ area' = area
    BY <1>3 DEF StreamWay, At
  <2>2. id \in DOMAIN Osm /\ id \in proc[w].left /\ proc[w].left \subseteq DOMAIN Osm
    <3>1. proc[w].left \in SUBSET Nat /\ proc[w].left \subseteq DOMAIN Osm
      BY <1>T, OsmDownloadAssumption, RoadNetworkAssumption DEF Task
    <3> QED BY <2>1, <3>1, LeastIs
  <2> HIDE DEF id
  <2>3. {id} \in SUBSET DOMAIN Osm
    BY <2>2
  <2>4. roads = Part("download", {id}) /\ roads \in Network
    BY <2>3, PartsAre, FeaturesTypes DEF TypeInv, DlTypeInv
  <2> HIDE DEF roads
  <2>5. proc'[w].pc = "stream" /\ proc'[w].left = proc[w].left \ {id} /\ proc'[w].hold = proc[w].hold
    BY <2>1, <1>T DEF Task
  <2>6. Streamed(w) = DOMAIN Osm \ proc[w].left /\ Streamed(w)' = Streamed(w) \cup {id}
    BY <2>1, <2>2, <2>5 DEF Streamed
  <2>7. \A g \in File : proc[w].hold[g] = "tmp"
    BY <2>1 DEF AttemptInv
  <2>8. final' = final
    BY <2>1, <2>7, <1>T DEF WriteTo
  <2>9. ASSUME NEW g \in File
        PROVE  tmp'[g].by = w /\ tmp'[g].end = "open" /\ tmp'[g].roads = Part(g, Streamed(w) \cup {id})
    <3>1. tmp[g].by = w /\ tmp[g].end = "open" /\ tmp[g].roads = Part(g, Streamed(w))
      BY <2>1, <2>7 DEF AttemptInv
    <3>2. tmp'[g] = IF g \in fs THEN Add(w, tmp[g], roads, "open") ELSE tmp[g]
      BY <2>1, <2>7 DEF WriteTo
    <3>3. g \in fs <=> (DOMAIN roads # {} /\ g \in FilesOf(id))
      OBVIOUS
    <3> HIDE DEF fs
    <3>4. IF g \in fs THEN Joined(roads, Part(g, Streamed(w))) = Part(g, Streamed(w) \cup {id})
                      ELSE Part(g, Streamed(w)) = Part(g, Streamed(w) \cup {id})
      <4>1. Streamed(w) \in SUBSET DOMAIN Osm
        BY <2>6
      <4> QED BY <4>1, <2>2, <2>4, <3>3, PartGrows
    <3>5. CASE g \in fs
      <4>1. /\ Add(w, tmp[g], roads, "open").roads = Joined(roads, tmp[g].roads)
            /\ Add(w, tmp[g], roads, "open").end = "open"
            /\ Add(w, tmp[g], roads, "open").by = w
        BY <1>T, <2>4, <3>1, AddTypes
      <4> QED BY <4>1, <3>1, <3>2, <3>4, <3>5
    <3>6. CASE g \notin fs
      BY <3>1, <3>2, <3>4, <3>6
    <3> QED BY <3>5, <3>6
  <2>10. \A g, ids : Part(g, ids)' = Part(g, ids)
    BY <2>1, PartStays
  <2>11. AttemptInv(w)'
    BY <2>5, <2>6, <2>7, <2>9, <2>10, <1>H DEF AttemptInv
  <2> QED BY <2>1, <2>8, <2>11, FilesStay
<1>4. CASE BreakOff(w)
  BY <1>4, <1>A DEF BreakOff
<1>5. CASE EndOfStream(w)
  <2>1. PICK remark \in {"none", "note", "runtime error"} :
            /\ remark \in {"none", "note"} => proc[w].left = {}
            /\ RaiseOnRuntimeError(w, remark)
    BY <1>5 DEF EndOfStream
  <2>2. UNCHANGED <<area, tmp, final>> /\ proc[w].pc = "stream"
    BY <1>5 DEF EndOfStream, At
  <2>3. CASE remark = "runtime error"
    BY <2>1, <2>2, <2>3, <1>A DEF RaiseOnRuntimeError
  <2>4. CASE remark # "runtime error"
    <3>1. Step(w, "close") /\ proc[w].left = {}
      BY <2>1, <2>4 DEF RaiseOnRuntimeError
    <3>2. proc'[w].pc = "close" /\ proc'[w].left = {} /\ proc'[w].hold = proc[w].hold
      BY <3>1, <1>T DEF Step, Task
    <3>3. Streamed(w)' = Streamed(w)
      BY <2>2, <3>1, <3>2 DEF Streamed
    <3>4. \A g, ids : Part(g, ids)' = Part(g, ids)
      BY <2>2, PartStays
    <3>5. AttemptInv(w)'
      BY <2>2, <3>2, <3>3, <3>4, FilesAre DEF AttemptInv
    <3> QED BY <2>2, <3>5, FilesStay
  <2> QED BY <2>3, <2>4
<1>6. CASE CloseWriter(w)
  <2> DEFINE f == LastHeld(w)
  <2>1. /\ proc[w].pc = "close" /\ area' = area /\ proc[w].left = {}
        /\ proc[w].hold["download"] = "tmp"
    BY <1>6 DEF CloseWriter, At, AttemptInv
  <2>2. f \in File /\ proc[w].hold[f] = "tmp"
    BY <2>1, LastHeldIsHeld
  <2>3. \A g \in File : proc[w].hold[g] = "tmp" =>
            /\ tmp[g].by = w /\ tmp[g].end = "open"
            /\ tmp[g].roads = Part(g, DOMAIN Osm)
    BY <2>1 DEF AttemptInv, Streamed
  <2>4. tmp[f] # NoFile
    BY <2>2, <2>3 DEF NoFile
  <2>5. /\ final' = [final EXCEPT ![f] = Add(w, tmp[f], <<>>, "closed")]
        /\ tmp' = [tmp EXCEPT ![f] = NoFile]
        /\ proc'[w] = [proc[w] EXCEPT !.hold[f] = "none",
                                      !.pc = IF f = Files[1] THEN "done" ELSE @]
    BY <1>6, <2>2, <2>4 DEF CloseWriter
  <2> HIDE DEF f
  <2>6. Add(w, tmp[f], <<>>, "closed").end = "closed"
        /\ Add(w, tmp[f], <<>>, "closed").roads = Part(f, DOMAIN Osm)
    <3>1. /\ Add(w, tmp[f], <<>>, "closed").roads = Joined(<<>>, tmp[f].roads)
          /\ Add(w, tmp[f], <<>>, "closed").end = "closed"
      BY <1>T, <2>2, <2>3, AddTypes, NetworkTypes
    <3> QED BY <3>1, <2>2, <2>3, PartsEnd
  <2>7. \A g, ids : Part(g, ids)' = Part(g, ids)
    BY <2>1, PartStays
  <2>8. FilesInv'
    <3> SUFFICES ASSUME NEW g \in File, final'[g] # NoFile
                 PROVE  final'[g].end = "closed" /\ final'[g].roads = Part(g, DOMAIN Osm)
      BY <2>7 DEF FilesInv
    <3>1. CASE g = f
      <4>1. final'[g] = Add(w, tmp[f], <<>>, "closed")
        BY <3>1, <2>2, <2>5, <1>T
      <4> QED BY <4>1, <3>1, <2>6
    <3>2. CASE g # f
      <4>1. final'[g] = final[g]
        BY <3>2, <2>5, <1>T
      <4> QED BY <4>1 DEF FilesInv
    <3> QED BY <3>1, <3>2
  <2>9. /\ proc'[w].hold = [proc[w].hold EXCEPT ![f] = "none"]
        /\ proc'[w].pc = IF f = Files[1] THEN "done" ELSE "close"
        /\ proc'[w].left = {}
    BY <2>1, <2>5, <1>T DEF Task
  <2>10. proc'[w].hold \in [File -> {"none", "tmp"}]
    BY <2>9, <1>H
  <2>11. CASE f = "download"
    <3>1. proc'[w].pc = "done"
      BY <2>9, <2>11, FilesAre
    <3>2. final'["download"] # NoFile
      BY <2>2, <2>5, <2>6, <2>11, <1>T DEF NoFile
    <3> QED BY <3>1, <3>2, <2>8, <2>10 DEF AttemptInv
  <2>12. CASE f # "download"
    <3>1. proc'[w].pc = "close" /\ proc'[w].hold["download"] = "tmp"
      BY <2>1, <2>9, <2>12, <1>H, FilesAre
    <3>2. Streamed(w)' = DOMAIN Osm
      BY <3>1, <2>9 DEF Streamed
    <3>3. \A g \in File : proc'[w].hold[g] = "tmp" => g # f /\ proc[w].hold[g] = "tmp" /\ tmp'[g] = tmp[g]
      BY <2>5, <2>9, <1>H, <1>T
    <3>4. AttemptInv(w)'
      BY <3>1, <3>2, <3>3, <2>3, <2>7, <2>9, <2>10 DEF AttemptInv
    <3> QED BY <3>4, <2>8
  <2> QED BY <2>11, <2>12
<1>7. CASE FailClose(w)
  <2>1. UNCHANGED <<area, final>>
        /\ proc' = [proc EXCEPT ![w].hold[LastHeld(w)] = "none",
                                ![w].pc = "abandon", ![w].error = "fail"]
    BY <1>7 DEF FailClose
  <2>2. proc'[w].pc = "abandon" /\ proc'[w].hold = [proc[w].hold EXCEPT ![LastHeld(w)] = "none"]
    BY <2>1, <1>T DEF Task
  <2>3. proc'[w].hold \in [File -> {"none", "tmp"}]
    BY <2>2, <1>H
  <2>4. AttemptInv(w)'
    BY <2>2, <2>3, AttemptOver
  <2> QED BY <2>1, <2>4, FilesStay
<1>8. CASE AbandonWriter(w)
  <2>1. UNCHANGED <<area, final>> /\ proc[w].pc = "abandon"
        /\ proc'[w] = [proc[w] EXCEPT !.hold[LastHeld(w)] = "none"]
    BY <1>8 DEF AbandonWriter, Discard, At
  <2>2. proc'[w].pc = "abandon" /\ proc'[w].hold = [proc[w].hold EXCEPT ![LastHeld(w)] = "none"]
    BY <2>1, <1>T DEF Task
  <2>3. proc'[w].hold \in [File -> {"none", "tmp"}]
    BY <2>2, <1>H
  <2>4. AttemptInv(w)'
    BY <2>2, <2>3, AttemptOver
  <2> QED BY <2>1, <2>4, FilesStay
<1>9. CASE EndAttempt(w)
  <2>1. UNCHANGED <<area, final>>
    BY <1>9 DEF EndAttempt
  <2>2. CASE proc' = [proc EXCEPT ![w] = [Idle EXCEPT !.pc = "open", !.tries = proc[w].tries + 1]]
    <3>1. proc'[w].pc = "open" /\ proc'[w].hold = Closed
      BY <2>2, <1>I, <1>T
    <3>2. AttemptInv(w)'
      BY <3>1, <1>C, AttemptOver
    <3> QED BY <2>1, <3>2, FilesStay
  <2>3. CASE Step(w, "failed")
    <3>1. proc'[w].pc = "failed" /\ proc'[w].hold = proc[w].hold
      BY <2>3, <1>T DEF Step, Task
    <3>2. AttemptInv(w)'
      BY <3>1, <1>H, AttemptOver
    <3> QED BY <2>1, <3>2, FilesStay
  <2> QED BY <1>9, <2>2, <2>3 DEF EndAttempt
<1>10. CASE Kill(w)
  <2>1. UNCHANGED <<area, final>> /\ proc'[w] = [Idle EXCEPT !.pc = "killed"]
    BY <1>10, <1>T DEF Kill
  <2>2. proc'[w].pc = "killed" /\ proc'[w].hold = Closed
    BY <2>1, <1>I DEF Over
  <2>3. AttemptInv(w)'
    BY <2>2, <1>C, AttemptOver
  <2> QED BY <2>1, <2>3, FilesStay
<1> QED BY <1>1, <1>2, <1>3, <1>4, <1>5, <1>6, <1>7, <1>8, <1>9, <1>10 DEF DownloadStep

\* No file, no task and no completed upload at first.
LEMMA DownloadInit == Init => DownloadInv
<1> SUFFICES ASSUME Init PROVE DownloadInv
  OBVIOUS
<1>1. FilesInv /\ NetworkInv
  BY DEF Init, DlInit, EdInit, NewJob, FilesInv, NetworkInv, Names
<1>2. ASSUME NEW w \in Writer PROVE AttemptInv(w)
  <2>1. proc[w].pc = "idle" /\ proc[w].hold = Closed
    BY DEF Init, DlInit, Idle
  <2> QED BY <2>1 DEF AttemptInv, Closed
<1> QED BY <1>1, <1>2 DEF DownloadInv

\* A submit's step leaves the upload in the row as it is, or as a submit saw it;
\* what submits know is the row, or what one knew.
LEMMA SubmitSees ==
    ASSUME row \in Row, submits \subseteq Submit, SubmitStep
    PROVE  /\ \/ row'.of = row.of /\ row'.sp = row.sp /\ row'.edits = row.edits
              \/ \E s \in submits :
                    row'.of = s.seen.of /\ row'.sp = s.seen.sp /\ row'.edits = s.seen.edits
           /\ \A s \in submits' : s.seen = row \/ \E r \in submits : s.seen = r.seen
<1>1. ASSUME NEW r \in Row, NEW status, row' = [r EXCEPT !.status = status]
      PROVE  row'.of = r.of /\ row'.sp = r.sp /\ row'.edits = r.edits
  BY <1>1 DEF Row
<1>0. ASSUME NEW status, row' = [row EXCEPT !.status = status]
      PROVE  row'.of = row.of /\ row'.sp = row.sp /\ row'.edits = row.edits
  BY <1>0 DEF Row
<1>2. CASE LoadForRun
  BY <1>2 DEF LoadForRun
<1>3. CASE EndRun \/ ResetRun
  <2>1. submits' = submits /\ \E status : row' = [row EXCEPT !.status = status]
    BY <1>3 DEF EndRun, ResetRun
  <2> QED BY <1>0, <2>1
<1>4. ASSUME NEW s \in submits, QueueRun(s) \/ SaveForRun(s) \/ FailToStart(s)
      PROVE  /\ \/ row'.of = row.of /\ row'.sp = row.sp /\ row'.edits = row.edits
                \/ row'.of = s.seen.of /\ row'.sp = s.seen.sp /\ row'.edits = s.seen.edits
             /\ \A q \in submits' : q.seen = row \/ \E r \in submits : q.seen = r.seen
  <2>0. s \in Submit
    OBVIOUS
  <2>1. s.seen \in Row /\ [s EXCEPT !.at = "queued"].seen = s.seen
    BY <2>0 DEF Submit
  <2>2. CASE QueueRun(s)
    <3>1. row' = row \/ \E status : row' = [row EXCEPT !.status = status]
      BY <2>2 DEF QueueRun
    <3>2. \A q \in submits' : q \in submits \/ q.seen = s.seen
      BY <2>1, <2>2 DEF QueueRun
    <3> QED BY <1>0, <3>1, <3>2
  <2>3. CASE SaveForRun(s)
    <3>1. row' = [s.seen EXCEPT !.status = row.status] /\ submits' \subseteq submits
      BY <2>3 DEF SaveForRun
    <3> QED BY <1>1, <2>1, <3>1
  <2>4. CASE FailToStart(s)
    <3>1. row' = row \/ \E status : row' = [row EXCEPT !.status = status]
      BY <2>4 DEF FailToStart
    <3>2. submits' \subseteq submits
      BY <2>4 DEF FailToStart
    <3> QED BY <1>0, <3>1, <3>2
  <2> QED BY <1>4, <2>2, <2>3, <2>4
<1> QED BY <1>2, <1>3, <1>4 DEF SubmitStep

\* Every step keeps the invariant, while one task is at work.
LEMMA DownloadInvStep == OneWriter /\ TypeInv /\ DownloadInv /\ [Next]_vars => DownloadInv'
<1> SUFFICES ASSUME OneWriter, TypeInv, DownloadInv, [Next]_vars PROVE DownloadInv'
  OBVIOUS
<1>0. FilesInv /\ NetworkInv /\ \A w \in Writer : AttemptInv(w)
  BY DEF DownloadInv
<1>T. /\ final \in [File -> Content] /\ proc \in [Writer -> Task] /\ row \in Row
      /\ submits \subseteq Submit /\ uploads \in Nat
  BY OsmDownloadAssumption DEF TypeInv, DlTypeInv, EdTypeInv
<1>R. row.of \in Nat /\ \A s \in submits : s.seen \in Row /\ s.seen.of \in Nat
  BY <1>T DEF Row, Submit
\* A step that changes neither the network nor the polygon, and leaves rows as they were.
<1>N. ASSUME UNCHANGED <<network, area, uploads>>,
             \/ row'.of = row.of /\ row'.sp = row.sp
             \/ \E s \in submits : row'.of = s.seen.of /\ row'.sp = s.seen.sp,
             \A s \in submits' : s.seen = row \/ \E r \in submits : s.seen = r.seen
      PROVE  NetworkInv'
  <2>1. Part("download", DOMAIN Osm)' = Part("download", DOMAIN Osm)
    BY <1>N, PartStays
  <2>2. \A r : Names(r) => Names(r)'
    BY <1>N, <2>1 DEF Names
  <2>3. Names(row) /\ \A s \in submits : Names(s.seen)
    BY <1>0 DEF NetworkInv
  <2>4. \A s \in submits' : Names(s.seen)'
    BY <1>N, <2>2, <2>3
  <2>5. row'.of <= uploads' /\ (row'.sp = "COMPLETED" /\ row'.of = uploads'
            => network' = Part("download", DOMAIN Osm)')
    BY <1>N, <2>1, <2>3 DEF Names
  <2> QED BY <2>4, <2>5 DEF NetworkInv, Names
<1>S. ASSUME UNCHANGED dlVars
      PROVE  FilesInv' /\ \A w \in Writer : AttemptInv(w)'
  <2>1. UNCHANGED <<area, tmp, final, proc>>
    BY <1>S DEF dlVars
  <2>2. \A f, ids : Part(f, ids)' = Part(f, ids)
    BY <2>1, PartStays
  <2>3. \A w \in Writer : AttemptInv(w)'
    BY <2>1, <2>2, <1>0 DEF AttemptInv, Streamed
  <2> QED BY <2>1, <2>3, <1>0, FilesStay
<1>1. ASSUME NEW w \in Writer, Upload(w) PROVE DownloadInv'
  <2>1. StartUpload(w) /\ ForgetNetwork(uploads + 1)
    BY <1>1 DEF Upload
  <2>2. final' = [f \in File |-> NoFile] /\ proc'[w] = [Idle EXCEPT !.pc = "open"]
    BY <2>1 DEF StartUpload
  <2>3. FilesInv'
    BY <2>2 DEF FilesInv
  <2>4. proc'[w].pc = "open" /\ proc'[w].hold = Closed
    BY <2>2 DEF Idle
  <2>5. AttemptInv(w)'
    <3>1. Closed \in [File -> {"none", "tmp"}]
      BY DEF Closed
    <3> QED BY <2>4, <3>1, AttemptOver
  <2>6. \A v \in Writer : AttemptInv(v)'
    <3>1. \A v \in Writer : v = w
      BY DEF OneWriter
    <3> QED BY <2>5, <3>1
  <2>7. row'.sp = "RUNNING" /\ row'.of = uploads + 1 /\ submits' = submits /\ uploads' = uploads + 1
    BY <1>T, <2>1 DEF ForgetNetwork, StartUpload, Row
  <2>8. \A s \in submits : s.seen.of <= uploads
    BY <1>0 DEF NetworkInv, Names
  <2>9. uploads + 1 <= uploads' /\ \A n \in Nat : n <= uploads => n <= uploads' /\ n # uploads'
    BY <1>T, <2>7
  <2>10. NetworkInv'
    BY <1>R, <2>7, <2>8, <2>9 DEF NetworkInv, Names
  <2> QED BY <2>3, <2>6, <2>10 DEF DownloadInv
<1>2. ASSUME NEW w \in Writer, Download(w) PROVE DownloadInv'
  <2>1. FilesInv' /\ AttemptInv(w)'
    BY <1>0, <1>2, DownloadKeeps DEF Download
  <2>2. \A v \in Writer : AttemptInv(v)'
    <3>1. \A v \in Writer : v = w
      BY DEF OneWriter
    <3> QED BY <2>1, <3>1
  <2>3. UNCHANGED <<row, network, submits>>
    BY <1>2 DEF Download, edVars
  <2>4. UNCHANGED <<area, uploads>>
    BY <1>2 DEF Download, DownloadStep, OpenWriter, Query, StreamWay, BreakOff, EndOfStream,
                CloseWriter, FailClose, AbandonWriter, EndAttempt, Kill
  <2>5. NetworkInv'
    BY <2>3, <2>4, <1>N
  <2> QED BY <2>1, <2>2, <2>5 DEF DownloadInv
<1>3. ASSUME NEW w \in Writer, EndTask(w) PROVE DownloadInv'
  <2>1. UNCHANGED dlVars /\ area' = area /\ uploads' = uploads
    BY <1>3 DEF EndTask, dlVars
  <2>P. Part("download", DOMAIN Osm)' = Part("download", DOMAIN Osm)
    BY <2>1, PartStays
  <2>2. NetworkInv'
    <3>1. CASE proc[w].pc = "done" /\ EndUpload(uploads, "COMPLETED", NamedByTheRow)
      <4>1. final["download"] # NoFile
        BY <1>0, <3>1 DEF AttemptInv
      <4>2. final["download"].roads = Part("download", DOMAIN Osm)
        BY <4>1, <1>0, FilesAre DEF FilesInv
      <4>3. network' = Part("download", DOMAIN Osm)' /\ submits' = submits
        BY <3>1, <4>2, <2>P DEF EndUpload, NamedByTheRow
      <4>4. row'.of = row.of
        BY <1>T, <3>1 DEF EndUpload, Row
      <4> QED BY <1>0, <2>1, <4>3, <4>4 DEF NetworkInv, Names
    <3>2. CASE proc[w].pc \in {"failed", "killed"} /\ EndUpload(uploads, "FAILED", network)
      <4>1. /\ row'.of = row.of /\ submits' = submits /\ network' = network
            /\ row'.sp = IF row.sp = "RUNNING" /\ row.of = uploads THEN "FAILED" ELSE row.sp
        BY <1>T, <3>2 DEF EndUpload, Row
      <4> QED BY <1>0, <2>1, <2>P, <3>2, <4>1 DEF NetworkInv, Names
    <3> QED BY <1>3, <3>1, <3>2 DEF EndTask
  <2> QED BY <1>S, <2>1, <2>2 DEF DownloadInv
<1>6. ASSUME EndEarlierTask PROVE DownloadInv'
  <2>1. UNCHANGED dlVars /\ area' = area /\ uploads' = uploads
    BY <1>6 DEF EndEarlierTask, dlVars
  <2>2. PICK upload \in 0..(uploads - 1), sp \in {"COMPLETED", "FAILED"} :
            EndUpload(upload, sp, network)
    BY <1>6 DEF EndEarlierTask
  <2>3. upload # uploads /\ upload <= uploads
    BY <1>T
  <2>4. /\ network' = network /\ submits' = submits /\ row'.of = row.of
        /\ row'.sp = row.sp \/ row.of = upload
    BY <1>T, <2>2 DEF EndUpload, Row
  <2>5. Part("download", DOMAIN Osm)' = Part("download", DOMAIN Osm)
    BY <2>1, PartStays
  <2>6. NetworkInv'
    BY <1>0, <2>1, <2>3, <2>4, <2>5 DEF NetworkInv, Names
  <2> QED BY <1>S, <2>1, <2>6 DEF DownloadInv
<1>4. ASSUME OnStreetPage PROVE DownloadInv'
  <2>1. UNCHANGED dlVars /\ UNCHANGED <<area, uploads>>
    BY <1>4 DEF OnStreetPage, dlVars
  <2>2. network' = network
    BY <1>4 DEF OnStreetPage, EditStep, OpenPage, ClickOn, Click, Toggle, LoadJob, RenderPage,
                SelectAllNone, ApplyEdits, LoadForRun, EndRun, ResetRun, QueueRun, SaveForRun,
                FailToStart
  <2>3. ASSUME ~SubmitStep PROVE row'.of = row.of /\ row'.sp = row.sp /\ submits' = submits
    <3>1. (row' = row \/ \E edits : row' = [row EXCEPT !.edits = edits]) /\ submits' = submits
      BY <1>4, <2>3 DEF OnStreetPage, EditStep, SubmitStep, OpenPage, ClickOn, Click, Toggle,
                        LoadJob, RenderPage, SelectAllNone, ApplyEdits
    <3> QED BY <1>T, <3>1 DEF Row
  <2>4. ASSUME SubmitStep
        PROVE  /\ \/ row'.of = row.of /\ row'.sp = row.sp
                  \/ \E s \in submits : row'.of = s.seen.of /\ row'.sp = s.seen.sp
               /\ \A s \in submits' : s.seen = row \/ \E r \in submits : s.seen = r.seen
    BY <1>T, <2>4, SubmitSees
  <2>5. NetworkInv'
    BY <1>N, <2>1, <2>2, <2>3, <2>4
  <2> QED BY <1>S, <2>1, <2>5 DEF DownloadInv
<1>5. ASSUME UNCHANGED vars PROVE DownloadInv'
  <2>1. UNCHANGED dlVars /\ UNCHANGED <<area, uploads, row, network, submits>>
    BY <1>5 DEF vars, dlVars, edVars
  <2>2. NetworkInv'
    BY <1>N, <2>1
  <2> QED BY <1>S, <2>1, <2>2 DEF DownloadInv
<1> QED BY <1>1, <1>2, <1>3, <1>4, <1>5, <1>6 DEF Next

\* The invariant says of the files, their borders and the row what is claimed.
LEMMA DownloadInvSuffices ==
    TypeInv /\ DownloadInv => FinalFilesAreWhole /\ BorderRoadsAreKept /\ NothingIsOutOfReach
<1> SUFFICES ASSUME TypeInv, DownloadInv
             PROVE  FinalFilesAreWhole /\ BorderRoadsAreKept /\ NothingIsOutOfReach
  OBVIOUS
<1>1. FinalFilesAreWhole
  BY WholeIs DEF FinalFilesAreWhole, DownloadInv, FilesInv
<1>2. BorderRoadsAreKept
  <2> SUFFICES ASSUME final["download"] # NoFile, NEW id \in DOMAIN Osm
               PROVE
            LET nodes == Osm[id].nodes
                isIn(i) == nodes[i] \in area
                parted == \E i, j, k \in 1..Len(nodes) :
                            /\ i < j /\ j + 1 < k
                            /\ isIn(i) /\ ~isIn(j) /\ ~isIn(j + 1) /\ isIn(k)
                kept == final["download"].roads[id].nodes
            IN IF id \in DOMAIN final["download"].roads
               THEN /\ Range(nodes) \cap area = Range(kept) \cap area
                    /\ \A i \in 1..(Len(kept) - 1) : {kept[i], kept[i + 1]} \cap area # {}
                    /\ ~parted
               ELSE parted \/ Range(nodes) \cap area = {}
    BY DEF BorderRoadsAreKept
  <2> DEFINE nodes == Osm[id].nodes
             roads == final["download"].roads
  <2>1. nodes \in Seq(Node) /\ Len(nodes) # 1 /\ IsRoad(Osm[id])
    <3>1. IsRoad(Osm[id])
      BY OsmDownloadAssumption
    <3>2. Osm[id].nodes \in Seq(Node) /\ Len(Osm[id].nodes) >= 2
      BY <3>1 DEF IsRoad
    <3>3. ASSUME NEW s \in Seq(Node), Len(s) >= 2 PROVE Len(s) # 1
      <4>1. Len(s) \in Nat
        OBVIOUS
      <4>2. \A n \in Nat : n >= 2 => n # 1
        OBVIOUS
      <4> QED BY <4>1, <4>2, <3>3
    <3> QED BY <3>1, <3>2, <3>3 DEF nodes
  <2>2. roads = Part("download", DOMAIN Osm)
    BY FilesAre DEF DownloadInv, FilesInv
  <2> HIDE DEF nodes, roads
  <2>3. id \in DOMAIN roads <=> TruncateByEdge(nodes, area) # <<>>
    BY <2>2 DEF Part, Fitting, nodes
  <2>4. id \in DOMAIN roads => roads[id].nodes = TruncateByEdge(nodes, area)
    <3>1. id \in DOMAIN roads => roads[id] = WayToFeature(Osm[id], area)
      BY <2>2 DEF Part
    <3> QED BY <3>1, <2>1, FeatureOfWay DEF nodes
  <2> DEFINE kept == TruncateByEdge(nodes, area)
  <2>5. IF kept # <<>>
        THEN /\ Range(nodes) \cap area = Range(kept) \cap area
             /\ \A i \in 1..(Len(kept) - 1) : {kept[i], kept[i + 1]} \cap area # {}
             /\ ~Parted(nodes, area)
        ELSE Parted(nodes, area) \/ Range(nodes) \cap area = {}
    BY <2>1, TruncationKeepsWhatIsInside
  <2>6. Parted(nodes, area) <=>
            \E i, j, k \in 1..Len(nodes) :
                /\ i < j /\ j + 1 < k
                /\ nodes[i] \in area /\ ~(nodes[j] \in area)
                /\ ~(nodes[j + 1] \in area) /\ nodes[k] \in area
    BY DEF Parted
  <2> HIDE DEF kept
  <2>7. CASE kept # <<>>
    <3>1. id \in DOMAIN roads /\ roads[id].nodes = kept
      BY <2>3, <2>4, <2>7 DEF kept
    <3> QED BY <3>1, <2>5, <2>6, <2>7 DEF nodes, roads
  <2>8. CASE kept = <<>>
    <3>1. id \notin DOMAIN roads
      BY <2>3, <2>8 DEF kept
    <3> QED BY <3>1, <2>5, <2>6, <2>8 DEF nodes, roads
  <2> QED BY <2>7, <2>8
<1>3. NothingIsOutOfReach
  <2> SUFFICES ASSUME row.sp = "COMPLETED", row.of = uploads
               PROVE  DOMAIN Derive(network, [NoEdits EXCEPT !.grades = Buckets])
                        = {id \in DOMAIN Features(Osm, area) : Osm[id].highway \in Highway}
    BY DEF NothingIsOutOfReach
  <2>1. network = Part("download", DOMAIN Osm) /\ Features(Osm, area) = Part("download", DOMAIN Osm)
    BY WholeIs DEF DownloadInv, NetworkInv, Names, Whole
  <2>2. \A id \in DOMAIN network : network[id].highway = Osm[id].highway
    <3>1. \A id \in DOMAIN network : id \in DOMAIN Osm /\ network[id] = WayToFeature(Osm[id], area)
      BY <2>1 DEF Part
    <3> QED BY <3>1, FeatureOfWay, OsmDownloadAssumption
  <2>3. DOMAIN Derive(network, [NoEdits EXCEPT !.grades = Buckets])
            = {id \in DOMAIN network : network[id].highway \in Highway}
    BY AllFiltersOn
  <2> QED BY <2>1, <2>2, <2>3
<1> QED BY <1>1, <1>2, <1>3

\* So it holds throughout.
LEMMA DownloadInvHolds ==
    ASSUME OneWriter
    PROVE  Spec => [](TypeInv /\ DownloadInv)
<1>1. TypeInv /\ DownloadInv /\ [Next]_vars => TypeInv' /\ DownloadInv'
  BY OneWriter, TypeStep, DownloadInvStep
<1>2. Init => TypeInv /\ DownloadInv
  BY TypeInit, DownloadInit
<1> QED BY <1>1, <1>2, PTL DEF Spec

\* While one upload task is at work on the work dir, a file that has its final
\* name is the whole answer of the server for the last upload, whatever broke
\* off, failed or was killed before.
THEOREM FilesAreWhole ==
    ASSUME OneWriter
    PROVE  Spec => []FinalFilesAreWhole
BY OneWriter, DownloadInvHolds, DownloadInvSuffices, PTL

\* Then the roads of the download keep every node inside the polygon and reach
\* at most one node beyond it, and only ways that leave for two nodes and come
\* back are left out.
THEOREM BordersAreKept ==
    ASSUME OneWriter
    PROVE  Spec => []BorderRoadsAreKept
BY OneWriter, DownloadInvHolds, DownloadInvSuffices, PTL

\* And with all filters on the page offers every road, when the last upload is the
\* one the row says is completed; submits may have put it back.
THEOREM AllIsOffered ==
    ASSUME OneWriter
    PROVE  Spec => []NothingIsOutOfReach
BY OneWriter, DownloadInvHolds, DownloadInvSuffices, PTL

-----------------------------------------------------------------------------
(* Finished removals stay *)

\* What a request has loaded, and may write back whole, has the removals that
\* nothing has undone; the buttons for all and none load nothing.
RemovalInv ==
    /\ settled \subseteq row.edits.removed
    /\ \A c \in calls :
        /\ c.do \in Edit /\ c.at = "loaded" => settled \subseteq c.seen.edits.removed
        /\ c.do \in {"all", "none"} => c.at = "sent"
    /\ \A s \in submits : settled \subseteq s.seen.edits.removed

\* What an edit does to the removed roads.
LEMMA EditedRemovals ==
    ASSUME NEW c \in Request, c.do \in Edit, NEW edits \in Intent
    PROVE  Edited(c.do, c.arg, edits).removed =
               CASE c.do = "remove" -> edits.removed \cup c.arg
                 [] c.do = "restore" -> edits.removed \ c.arg
                 [] c.do \in {"clear", "reset"} -> {}
                 [] c.do \in {"tags", "grades", "keep"} -> edits.removed
<1>1. CASE c.do = "tags"
  <2>1. Edited(c.do, c.arg, edits) = [edits EXCEPT !.tags = c.arg, !.keep = "all"]
    BY <1>1 DEF Edited
  <2> QED BY <1>1, <2>1 DEF Intent
<1>2. CASE c.do = "grades"
  <2>1. Edited(c.do, c.arg, edits) = [edits EXCEPT !.grades = c.arg, !.keep = "all"]
    BY <1>2 DEF Edited
  <2> QED BY <1>2, <2>1 DEF Intent
<1>3. CASE c.do = "remove"
  <2>1. Edited(c.do, c.arg, edits) = [edits EXCEPT !.removed = @ \cup c.arg, !.keep = "all"]
    BY <1>3 DEF Edited
  <2> QED BY <1>3, <2>1 DEF Intent
<1>4. CASE c.do = "restore"
  <2>1. Edited(c.do, c.arg, edits) = [edits EXCEPT !.removed = @ \ c.arg, !.keep = "all"]
    BY <1>4 DEF Edited
  <2> QED BY <1>4, <2>1 DEF Intent
<1>5. CASE c.do = "clear"
  <2>1. Edited(c.do, c.arg, edits) = [edits EXCEPT !.removed = {}, !.keep = "all"]
    BY <1>5 DEF Edited
  <2> QED BY <1>5, <2>1 DEF Intent
<1>6. CASE c.do = "keep"
  <2>1. Edited(c.do, c.arg, edits) = [edits EXCEPT !.keep = "largest"]
    BY <1>6 DEF Edited
  <2> QED BY <1>6, <2>1 DEF Intent
<1>7. CASE c.do = "reset"
  BY <1>7 DEF Edited, NoEdits
<1> QED BY <1>1, <1>2, <1>3, <1>4, <1>5, <1>6, <1>7 DEF Edit

\* What the checklists send back after a reset, and after nothing else.
LEMMA CascadeIs ==
    ASSUME NEW c \in Request
    PROVE  /\ \A d \in Cascade(c) :
                /\ d.at = "sent" /\ d.tab = c.tab
                /\ \/ d.do = "tags" /\ d.arg = Tag
                   \/ d.do = "grades" /\ d.arg = DefaultGrades
           /\ c.do # "reset" => Cascade(c) = {}
<1> DEFINE sent == [c EXCEPT !.at = "sent", !.seen = NewJob]
           tags == [sent EXCEPT !.do = "tags", !.arg = Tag]
           grades == [sent EXCEPT !.do = "grades", !.arg = DefaultGrades]
<1>1. NewJob \in Row
  BY FixedTypes
<1>2. sent \in Request /\ sent.at = "sent" /\ sent.tab = c.tab
  BY <1>1 DEF Request
<1>3. Cascade(c) = IF c.do = "reset" THEN {tags, grades} ELSE {}
  BY DEF Cascade
<1> HIDE DEF sent
<1>4. tags.at = "sent" /\ tags.tab = c.tab /\ tags.do = "tags" /\ tags.arg = Tag
  BY <1>2 DEF Request
<1>5. grades.at = "sent" /\ grades.tab = c.tab /\ grades.do = "grades" /\ grades.arg = DefaultGrades
  BY <1>2 DEF Request
<1> HIDE DEF tags, grades
<1> QED BY <1>3, <1>4, <1>5

\* A step that changes neither the removals nor what loaded requests know.
LEMMA RemovalsAside ==
    ASSUME RemovalInv, UNCHANGED <<settled, submits>>, row'.edits = row.edits,
           \A c \in calls' : c \in calls \/ (c.at = "sent")
    PROVE  RemovalInv'
BY DEF RemovalInv

\* A written edit is as the history records it.
LEMMA ApplyKeepsRemovals ==
    ASSUME TypeInv, RemovalInv, NEW c \in calls, ApplyEdits(c)
    PROVE  RemovalInv'
<1> DEFINE edits == Edited(c.do, c.arg, c.seen.edits)
           written == Changes(c.do, c.arg, c.seen.edits)
<1>1. c \in Request /\ c.do \in Edit /\ c.at = "loaded" /\ row \in Row
  BY DEF TypeInv, EdTypeInv, ApplyEdits
<1>2. c.seen \in Row /\ c.seen.edits \in Intent /\ settled \subseteq c.seen.edits.removed
  BY <1>1 DEF Request, Row, RemovalInv
<1>3. \A d \in calls' : d \in calls \ {c} \/ (d.at = "sent" /\ d.do \in Edit)
  <2>1. calls' = (calls \ {c}) \cup {} \/ calls' = (calls \ {c}) \cup Cascade(c)
    BY DEF ApplyEdits, Replaced
  <2>2. \A d \in Cascade(c) : d.at = "sent" /\ d.do \in Edit
    BY <1>1, CascadeIs DEF Edit
  <2> QED BY <2>1, <2>2
<1>S. submits' = submits
  BY DEF ApplyEdits
<1>4. CASE row' = row /\ settled' = settled
  BY <1>3, <1>4, <1>S, RemovalsAside DEF RemovalInv
<1>5. CASE row' = [row EXCEPT !.edits = edits] /\ settled' = Settled(c)
  <2>1. row'.edits = edits
    <3> HIDE DEF edits
    <3> QED BY <1>1, <1>5 DEF Row
  <2>2. edits.removed =
               CASE c.do = "remove" -> c.seen.edits.removed \cup c.arg
                 [] c.do = "restore" -> c.seen.edits.removed \ c.arg
                 [] c.do \in {"clear", "reset"} -> {}
                 [] c.do \in {"tags", "grades", "keep"} -> c.seen.edits.removed
    BY <1>1, <1>2, EditedRemovals
  <2> HIDE DEF edits
  <2>3. settled' \subseteq edits.removed
    <3>1. CASE c.do = "remove"
      BY <1>2, <1>5, <2>2, <3>1 DEF Settled
    <3>2. CASE c.do = "restore"
      BY <1>2, <1>5, <2>2, <3>2 DEF Settled
    <3>3. CASE c.do \in {"clear", "reset"}
      BY <1>5, <2>2, <3>3 DEF Settled
    <3>4. CASE c.do \in {"tags", "grades", "keep"}
      BY <1>2, <1>5, <2>2, <3>4 DEF Settled
    <3> QED BY <1>1, <3>1, <3>2, <3>3, <3>4 DEF Edit
  <2>4. ASSUME NEW d \in calls \ {c}, d.do \in Edit, d.at = "loaded"
        PROVE  settled' \subseteq d.seen.edits.removed
    <3>1. settled \subseteq d.seen.edits.removed /\ Overlaps(c)
      BY <2>4 DEF RemovalInv, Overlaps
    <3>2. Settled(c) \subseteq settled
      BY <3>1 DEF Settled
    <3> QED BY <1>5, <3>1, <3>2
  <2>5. \A d \in calls' :
            /\ d.do \in Edit /\ d.at = "loaded" => settled' \subseteq d.seen.edits.removed
            /\ d.do \in {"all", "none"} => d.at = "sent"
    BY <1>3, <2>4 DEF RemovalInv
  <2>6. ASSUME NEW s \in submits
        PROVE  settled' \subseteq s.seen.edits.removed
    <3>1. settled \subseteq s.seen.edits.removed /\ Overlaps(c)
      BY DEF RemovalInv, Overlaps
    <3>2. Settled(c) \subseteq settled
      BY <3>1 DEF Settled
    <3> QED BY <1>5, <3>1, <3>2
  <2> QED BY <1>S, <2>1, <2>3, <2>5, <2>6 DEF RemovalInv
<1>6. \/ row' = row /\ settled' = settled
      \/ row' = [row EXCEPT !.edits = edits] /\ settled' = Settled(c)
  BY DEF ApplyEdits
<1> QED BY <1>4, <1>5, <1>6

\* Every step keeps the settled removals in the row and in what may replace it.
LEMMA RemovalStep == TypeInv /\ RemovalInv /\ [Next]_vars => RemovalInv'
<1> SUFFICES ASSUME TypeInv, RemovalInv, [Next]_vars PROVE RemovalInv'
  OBVIOUS
<1>T. row \in Row /\ calls \subseteq Request /\ submits \subseteq Submit
  BY DEF TypeInv, EdTypeInv
<1>C. ASSUME NEW t, NEW do, NEW arg, Click(t, do, arg) PROVE RemovalInv'
  <2>1. Call(t, do, arg).at = "sent"
    BY DEF Call
  <2>2. UNCHANGED <<row, submits, settled>> /\ calls' = calls \cup {Call(t, do, arg)}
    BY <1>C DEF Click
  <2> QED BY <2>1, <2>2, RemovalsAside
<1>1. ASSUME NEW w \in Writer, Upload(w) PROVE RemovalInv'
  <2>1. settled' = {} /\ UNCHANGED <<calls, submits>>
    BY <1>1 DEF Upload, ForgetNetwork
  <2> QED BY <2>1 DEF RemovalInv
<1>2. ASSUME NEW w \in Writer, Download(w) PROVE RemovalInv'
  BY <1>2, RemovalsAside DEF Download, edVars
<1>3. ASSUME (\E w \in Writer : EndTask(w)) \/ EndEarlierTask PROVE RemovalInv'
  <2>1. PICK upload, sp, net : EndUpload(upload, sp, net)
    BY <1>3 DEF EndTask, EndEarlierTask
  <2>2. row'.edits = row.edits
    BY <1>T, <2>1 DEF EndUpload, Row
  <2> QED BY <2>1, <2>2, RemovalsAside DEF EndUpload
<1>4. ASSUME OnStreetPage PROVE RemovalInv'
  <2>1. ASSUME NEW t \in Tab, OpenPage(t) PROVE RemovalInv'
    BY <2>1, <1>C DEF OpenPage
  <2>2. ASSUME NEW t \in Tab, ClickOn(t) PROVE RemovalInv'
    BY <2>2, <1>C DEF ClickOn, Toggle
  <2>3. ASSUME NEW c \in calls, LoadJob(c) PROVE RemovalInv'
    <3> DEFINE new == [c EXCEPT !.at = "loaded", !.seen = row]
    <3>1. c \in Request /\ c.do \in Edit \cup {"open"} /\ UNCHANGED <<row, submits, settled>>
      BY <1>T, <2>3 DEF LoadJob
    <3>2. new.at = "loaded" /\ new.seen = row /\ new.do = c.do
      BY <3>1 DEF Request
    <3> HIDE DEF new
    <3>3. calls' = (calls \ {c}) \cup {new} \/ calls' = (calls \ {c}) \cup {}
      BY <2>3 DEF LoadJob, Replaced, new
    <3>4. c.do \notin {"all", "none"}
      BY <3>1 DEF Edit
    <3> QED BY <3>1, <3>2, <3>3, <3>4 DEF RemovalInv
  <2>4. ASSUME NEW c \in calls, RenderPage(c) PROVE RemovalInv'
    BY <2>4, RemovalsAside DEF RenderPage, Replaced
  <2>5. ASSUME NEW c \in calls, SelectAllNone(c) PROVE RemovalInv'
    <3> DEFINE tags == IF c.do = "all" THEN Tag ELSE {}
               new == [c EXCEPT !.do = "tags", !.arg = tags]
    <3>1. c \in Request /\ c.at = "sent" /\ UNCHANGED <<row, submits, settled>>
      BY <1>T, <2>5 DEF SelectAllNone, RemovalInv
    <3>2. new.at = "sent"
      BY <3>1 DEF Request
    <3> HIDE DEF new
    <3>3. calls' = (calls \ {c}) \cup {new}
      BY <2>5 DEF SelectAllNone, Replaced, new
    <3> QED BY <3>1, <3>2, <3>3, RemovalsAside
  <2>6. ASSUME NEW c \in calls, ApplyEdits(c) PROVE RemovalInv'
    BY <2>6, ApplyKeepsRemovals
  <2>7. ASSUME SubmitStep PROVE RemovalInv'
    <3>1. UNCHANGED <<calls, settled>>
      BY <2>7 DEF SubmitStep, LoadForRun, EndRun, ResetRun, QueueRun, SaveForRun, FailToStart
    <3>2. /\ row'.edits = row.edits \/ \E s \in submits : row'.edits = s.seen.edits
          /\ \A s \in submits' : s.seen = row \/ \E r \in submits : s.seen = r.seen
      BY <1>T, <2>7, SubmitSees
    <3> QED BY <3>1, <3>2 DEF RemovalInv
  <2> QED BY <1>4, <2>1, <2>2, <2>3, <2>4, <2>5, <2>6, <2>7 DEF OnStreetPage, EditStep, SubmitStep
<1>5. ASSUME UNCHANGED vars PROVE RemovalInv'
  BY <1>5, RemovalsAside DEF vars, edVars
<1> QED BY <1>1, <1>2, <1>3, <1>4, <1>5 DEF Next

\* A removal that was written while no other edit and no submit had loaded the
\* row stays in it until it is restored, cleared or reset, whatever other tabs and
\* submits load after it and write back.
THEOREM RemovalsStay == Spec => []FinishedRemovalsStay
<1>1. Init => TypeInv /\ RemovalInv
  BY TypeInit DEF Init, EdInit, RemovalInv
<1>2. TypeInv /\ RemovalInv /\ [Next]_vars => TypeInv' /\ RemovalInv'
  BY TypeStep, RemovalStep
<1>3. RemovalInv => FinishedRemovalsStay
  BY DEF RemovalInv, FinishedRemovalsStay
<1> QED BY <1>1, <1>2, <1>3, PTL DEF Spec

-----------------------------------------------------------------------------
(* Calm tabs show the row *)

\* A request that sends back what the row has already.
Echo(c) ==
    \/ c.do = "tags" /\ c.arg = row.edits.tags
    \/ c.do = "grades" /\ c.arg = row.edits.grades

\* A calm tab has one request in flight, or the echoes of a reset; but for the
\* checklist that is being sent it shows the row, and what its request has
\* loaded is the row.
CalmInv(t) ==
    /\ \/ \A c, d \in CallsOf(t) : c = d
       \/ \A c \in CallsOf(t) : Echo(c)
    /\ \A c \in CallsOf(t) :
        /\ c.do = "tags" => tab[t].tags = c.arg
        /\ c.do = "grades" => tab[t].grades = c.arg
        /\ c.at = "loaded" => c.seen = row
    /\ (\A c \in CallsOf(t) : c.do # "tags") => tab[t].tags = row.edits.tags
    /\ (\A c \in CallsOf(t) : c.do # "grades") => tab[t].grades = row.edits.grades
    /\ tab[t].restore = Panel(row.edits)
    /\ \/ tab[t].hint = row.edits.keep
       \/ row.edits.keep = "largest" /\ DOMAIN Derive(network, row.edits) = {}

CalmTabs == \A t \in calm : CalmInv(t)

\* What an edit does to the filters, and to keep.
LEMMA EditedFilters ==
    ASSUME NEW c \in Request, c.do \in Edit, NEW edits \in Intent
    PROVE  LET new == Edited(c.do, c.arg, edits) IN
           /\ new.tags = CASE c.do = "tags" -> c.arg [] c.do = "reset" -> Tag [] OTHER -> edits.tags
           /\ new.grades = CASE c.do = "grades" -> c.arg [] c.do = "reset" -> DefaultGrades
                             [] OTHER -> edits.grades
           /\ new.keep = IF c.do = "keep" THEN "largest" ELSE "all"
<1>1. CASE c.do = "tags"
  <2>1. Edited(c.do, c.arg, edits) = [edits EXCEPT !.tags = c.arg, !.keep = "all"]
    BY <1>1 DEF Edited
  <2> QED BY <1>1, <2>1 DEF Intent
<1>2. CASE c.do = "grades"
  <2>1. Edited(c.do, c.arg, edits) = [edits EXCEPT !.grades = c.arg, !.keep = "all"]
    BY <1>2 DEF Edited
  <2> QED BY <1>2, <2>1 DEF Intent
<1>3. CASE c.do = "remove"
  <2>1. Edited(c.do, c.arg, edits) = [edits EXCEPT !.removed = @ \cup c.arg, !.keep = "all"]
    BY <1>3 DEF Edited
  <2> QED BY <1>3, <2>1 DEF Intent
<1>4. CASE c.do = "restore"
  <2>1. Edited(c.do, c.arg, edits) = [edits EXCEPT !.removed = @ \ c.arg, !.keep = "all"]
    BY <1>4 DEF Edited
  <2> QED BY <1>4, <2>1 DEF Intent
<1>5. CASE c.do = "clear"
  <2>1. Edited(c.do, c.arg, edits) = [edits EXCEPT !.removed = {}, !.keep = "all"]
    BY <1>5 DEF Edited
  <2> QED BY <1>5, <2>1 DEF Intent
<1>6. CASE c.do = "keep"
  <2>1. Edited(c.do, c.arg, edits) = [edits EXCEPT !.keep = "largest"]
    BY <1>6 DEF Edited
  <2> QED BY <1>6, <2>1 DEF Intent
<1>7. CASE c.do = "reset"
  BY <1>7 DEF Edited, NoEdits
<1> QED BY <1>1, <1>2, <1>3, <1>4, <1>5, <1>6, <1>7 DEF Edit

\* What is not written would have changed nothing but keep.
LEMMA UnwrittenIsSame ==
    ASSUME NEW c \in Request, c.do \in Edit, NEW edits \in Intent,
           ~Changes(c.do, c.arg, edits)
    PROVE  LET new == Edited(c.do, c.arg, edits) IN
           /\ new.removed = edits.removed /\ new.tags = edits.tags
           /\ new.grades = edits.grades /\ c.do \notin {"keep", "reset"}
<1>1. Edited(c.do, c.arg, edits) = [edits EXCEPT !.keep = "all"] /\ c.do \notin {"keep", "reset"}
  BY DEF Changes
<1> QED BY <1>1 DEF Intent

\* An echo is not written.
LEMMA EchoIsUnwritten ==
    ASSUME NEW c \in Request, row.edits \in Intent, Echo(c)
    PROVE  ~Changes(c.do, c.arg, row.edits)
<1> DEFINE edits == row.edits
<1>1. CASE c.do = "tags" /\ c.arg = edits.tags
  <2>1. Edited(c.do, c.arg, edits) = [edits EXCEPT !.tags = c.arg, !.keep = "all"]
    BY <1>1 DEF Edited
  <2>2. [edits EXCEPT !.tags = c.arg, !.keep = "all"] = [edits EXCEPT !.keep = "all"]
    BY <1>1 DEF Intent
  <2> QED BY <1>1, <2>1, <2>2 DEF Changes
<1>2. CASE c.do = "grades" /\ c.arg = edits.grades
  <2>1. Edited(c.do, c.arg, edits) = [edits EXCEPT !.grades = c.arg, !.keep = "all"]
    BY <1>2 DEF Edited
  <2>2. [edits EXCEPT !.grades = c.arg, !.keep = "all"] = [edits EXCEPT !.keep = "all"]
    BY <1>2 DEF Intent
  <2> QED BY <1>2, <2>1, <2>2 DEF Changes
<1> QED BY <1>1, <1>2 DEF Echo

\* Nothing has happened to a tab, its requests, the row or the network.
LEMMA CalmAside ==
    ASSUME NEW t, CalmInv(t), CallsOf(t)' = CallsOf(t), tab'[t] = tab[t],
           UNCHANGED <<row, network>>
    PROVE  CalmInv(t)'
<1>1. Panel(row.edits)' = Panel(row.edits)
  BY DEF Panel
<1>2. Derive(network, row.edits)' = Derive(network, row.edits)
  OBVIOUS
<1>3. \A c : Echo(c)' <=> Echo(c)
  BY DEF Echo
<1> QED BY <1>1, <1>2, <1>3 DEF CalmInv

\* A request that is replaced is one of its own tab.
LEMMA OtherCalls ==
    ASSUME NEW c, NEW new, Replaced(c, new), \A d \in new : d.tab = c.tab,
           NEW t, t # c.tab
    PROVE  CallsOf(t)' = CallsOf(t)
BY DEF CallsOf, Replaced

\* The first click of a calm tab: the checklist it changes is the one it sends.
LEMMA CalmClick ==
    ASSUME TypeInv, CalmTabs, NEW t \in Tab, NEW do, NEW arg, Click(t, do, arg),
           \/ do \notin {"tags", "grades"} /\ UNCHANGED tab
           \/ do = "tags" /\ tab' = [tab EXCEPT ![t].tags = arg]
           \/ do = "grades" /\ tab' = [tab EXCEPT ![t].grades = arg]
    PROVE  CalmTabs'
<1> DEFINE c == Call(t, do, arg)
<1>1. c.tab = t /\ c.do = do /\ c.arg = arg /\ c.at = "sent"
  BY DEF Call
<1> HIDE DEF c
<1>2. calls' = calls \cup {c} /\ UNCHANGED <<row, network>>
  BY DEF Click, c
<1>T. tab \in [Tab -> Page] /\ calm \subseteq Tab
  BY DEF TypeInv, EdTypeInv
<1> SUFFICES ASSUME NEW s \in calm' PROVE CalmInv(s)'
  BY DEF CalmTabs
<1>3. s \in calm /\ CalmInv(s) /\ s \in Tab
  BY <1>T DEF Click, CalmTabs
<1>4. CASE s # t
  <2>1. CallsOf(s)' = CallsOf(s)
    BY <1>1, <1>2, <1>4 DEF CallsOf
  <2>2. tab'[s] = tab[s]
    BY <1>3, <1>4, <1>T
  <2> QED BY <1>2, <1>3, <2>1, <2>2, CalmAside
<1>5. CASE s = t
  <2>1. CallsOf(t) = {}
    BY <1>5 DEF Click
  <2>2. CallsOf(t)' = {c}
    BY <2>1, <1>1, <1>2 DEF CallsOf
  <2>3. Panel(row.edits)' = Panel(row.edits) /\ Derive(network, row.edits)' = Derive(network, row.edits)
    BY <1>2 DEF Panel
  <2>4. /\ tab[t].tags = row.edits.tags /\ tab[t].grades = row.edits.grades
        /\ tab[t].restore = Panel(row.edits)
        /\ \/ tab[t].hint = row.edits.keep
           \/ row.edits.keep = "largest" /\ DOMAIN Derive(network, row.edits) = {}
    BY <1>3, <1>5, <2>1 DEF CalmInv
  <2>5. /\ tab'[t].restore = tab[t].restore /\ tab'[t].hint = tab[t].hint
        /\ tab'[t].tags = IF do = "tags" THEN arg ELSE tab[t].tags
        /\ tab'[t].grades = IF do = "grades" THEN arg ELSE tab[t].grades
    <3>1. CASE do \notin {"tags", "grades"} /\ UNCHANGED tab
      BY <3>1
    <3>2. CASE do = "tags" /\ tab' = [tab EXCEPT ![t].tags = arg]
      <4>1. tab'[t] = [tab[t] EXCEPT !.tags = arg] /\ tab[t] \in Page
        BY <3>2, <1>T
      <4> QED BY <4>1, <3>2 DEF Page
    <3>3. CASE do = "grades" /\ tab' = [tab EXCEPT ![t].grades = arg]
      <4>1. tab'[t] = [tab[t] EXCEPT !.grades = arg] /\ tab[t] \in Page
        BY <3>3, <1>T
      <4> QED BY <4>1, <3>3 DEF Page
    <3> QED BY <3>1, <3>2, <3>3
  <2> QED BY <1>1, <1>2, <1>5, <2>2, <2>3, <2>4, <2>5 DEF CalmInv
<1> QED BY <1>4, <1>5

\* Opening the page and clicking on it are such clicks.
LEMMA CalmClicks ==
    ASSUME TypeInv, CalmTabs, NEW t \in Tab, OpenPage(t) \/ ClickOn(t)
    PROVE  CalmTabs'
<1>1. ASSUME NEW do, do \notin {"tags", "grades"}, NEW arg, Click(t, do, arg), UNCHANGED tab
      PROVE  CalmTabs'
  BY <1>1, CalmClick
<1>2. CASE OpenPage(t)
  BY <1>1, <1>2 DEF OpenPage
<1>3. ASSUME Toggle(t, "tags", Tag) PROVE CalmTabs'
  <2>1. PICK new : Click(t, "tags", new) /\ tab' = [tab EXCEPT ![t].tags = new]
    BY <1>3 DEF Toggle
  <2> QED BY <2>1, CalmClick
<1>4. ASSUME Toggle(t, "grades", Buckets) PROVE CalmTabs'
  <2>1. PICK new : Click(t, "grades", new) /\ tab' = [tab EXCEPT ![t].grades = new]
    BY <1>4 DEF Toggle
  <2> QED BY <2>1, CalmClick
<1>5. CASE ClickOn(t)
  BY <1>1, <1>3, <1>4, <1>5 DEF ClickOn
<1> QED BY <1>2, <1>5

\* A calm tab's request loads the row, and no other request of it is unanswered.
LEMMA CalmLoad ==
    ASSUME TypeInv, CalmTabs, NEW c \in calls, LoadJob(c)
    PROVE  CalmTabs'
<1>T. /\ tab \in [Tab -> Page] /\ calm \subseteq Tab /\ c \in Request
      /\ c.tab \in Tab
  BY DEF TypeInv, EdTypeInv, Request
<1> DEFINE new == [c EXCEPT !.at = "loaded", !.seen = row]
<1>1. new.tab = c.tab /\ new.do = c.do /\ new.arg = c.arg /\ new.seen = row
  BY <1>T DEF Request
<1> HIDE DEF new
<1>2. UNCHANGED <<row, network>>
      /\ \/ Replaced(c, {new}) /\ UNCHANGED <<tab, calm>>
         \/ Replaced(c, {}) /\ calm' = calm \ {c.tab} /\ tab' \in {tab, [tab EXCEPT ![c.tab] = NoPage]}
  BY DEF LoadJob, new
<1> SUFFICES ASSUME NEW s \in calm' PROVE CalmInv(s)'
  BY DEF CalmTabs
<1>3. s \in calm /\ CalmInv(s) /\ s \in Tab
  BY <1>T, <1>2 DEF CalmTabs
<1>4. CASE s # c.tab
  <2>1. CallsOf(s)' = CallsOf(s)
    BY <1>1, <1>2, <1>4, OtherCalls
  <2>2. tab'[s] = tab[s]
    BY <1>2, <1>3, <1>4, <1>T
  <2> QED BY <1>2, <1>3, <2>1, <2>2, CalmAside
<1>5. CASE s = c.tab
  <2>1. Replaced(c, {new}) /\ UNCHANGED tab
    BY <1>2, <1>5
  <2>2. CallsOf(s)' = (CallsOf(s) \ {c}) \cup {new} /\ c \in CallsOf(s)
    BY <1>1, <1>5, <2>1 DEF CallsOf, Replaced
  <2>3. Panel(row.edits)' = Panel(row.edits) /\ Derive(network, row.edits)' = Derive(network, row.edits)
    BY <1>2 DEF Panel
  <2>4. \A d : Echo(d)' <=> Echo(d)
    BY <1>2 DEF Echo
  <2>5. Echo(c) <=> Echo(new)
    BY <1>1 DEF Echo
  <2>6. (\A d, e \in CallsOf(s)' : d = e) \/ (\A d \in CallsOf(s)' : Echo(d)')
    BY <1>3, <2>2, <2>4, <2>5 DEF CalmInv
  <2>7. \A d \in CallsOf(s)' :
            /\ d.do = "tags" => tab'[s].tags = d.arg
            /\ d.do = "grades" => tab'[s].grades = d.arg
            /\ d.at = "loaded" => d.seen = row'
    BY <1>1, <1>2, <1>3, <2>1, <2>2 DEF CalmInv
  <2>8. /\ (\A d \in CallsOf(s)' : d.do # "tags") => \A d \in CallsOf(s) : d.do # "tags"
        /\ (\A d \in CallsOf(s)' : d.do # "grades") => \A d \in CallsOf(s) : d.do # "grades"
    BY <1>1, <2>2
  <2> QED BY <1>2, <1>3, <2>1, <2>3, <2>6, <2>7, <2>8 DEF CalmInv
<1> QED BY <1>4, <1>5

\* A page that becomes calm is rendered from the row.
LEMMA CalmRender ==
    ASSUME TypeInv, CalmTabs, NEW c \in calls, RenderPage(c)
    PROVE  CalmTabs'
<1>T. /\ tab \in [Tab -> Page] /\ calm \subseteq Tab /\ c \in Request
      /\ c.tab \in Tab
  BY DEF TypeInv, EdTypeInv, Request
<1>1. /\ tab' = [tab EXCEPT ![c.tab] = StreetsPage(c.seen)]
      /\ Replaced(c, {}) /\ UNCHANGED <<row, network>>
      /\ calm' = IF c.seen = row /\ CallsOf(c.tab) = {c}
                 THEN calm \cup {c.tab} ELSE calm \ {c.tab}
  BY DEF RenderPage
<1> SUFFICES ASSUME NEW s \in calm' PROVE CalmInv(s)'
  BY DEF CalmTabs
<1>2. CASE s # c.tab
  <2>1. s \in calm /\ CalmInv(s) /\ s \in Tab
    BY <1>T, <1>1, <1>2 DEF CalmTabs
  <2>2. CallsOf(s)' = CallsOf(s)
    BY <1>1, <1>2, OtherCalls
  <2>3. tab'[s] = tab[s]
    BY <1>1, <1>2, <1>T, <2>1
  <2> QED BY <1>1, <2>1, <2>2, <2>3, CalmAside
<1>3. CASE s = c.tab
  <2>1. c.seen = row /\ CallsOf(s) = {c}
    BY <1>1, <1>3
  <2>2. CallsOf(s)' = {}
    BY <1>1, <1>3, <2>1 DEF CallsOf, Replaced
  <2>3. tab'[s] = StreetsPage(row)
    BY <1>T, <1>1, <1>3, <2>1
  <2>4. /\ StreetsPage(row).tags = row.edits.tags
        /\ StreetsPage(row).grades = row.edits.grades
        /\ StreetsPage(row).restore = Panel(row.edits)
        /\ StreetsPage(row).hint = row.edits.keep
    BY DEF StreetsPage
  <2>5. Panel(row.edits)' = Panel(row.edits)
    BY <1>1 DEF Panel
  <2> QED BY <1>1, <2>2, <2>3, <2>4, <2>5 DEF CalmInv
<1> QED BY <1>2, <1>3

\* All and none: the checklist shows what it sends next.
LEMMA CalmSelect ==
    ASSUME TypeInv, CalmTabs, NEW c \in calls, SelectAllNone(c)
    PROVE  CalmTabs'
<1>T. /\ tab \in [Tab -> Page] /\ calm \subseteq Tab /\ c \in Request
      /\ c.tab \in Tab
  BY DEF TypeInv, EdTypeInv, Request
<1> DEFINE tags == IF c.do = "all" THEN Tag ELSE {}
           new == [c EXCEPT !.do = "tags", !.arg = tags]
<1>1. new.tab = c.tab /\ new.do = "tags" /\ new.arg = tags /\ new.at = c.at /\ new.seen = c.seen
  BY <1>T DEF Request
<1>2. /\ tab' = [tab EXCEPT ![c.tab].tags = tags] /\ Replaced(c, {new})
      /\ UNCHANGED <<row, network, calm>> /\ c.do \in {"all", "none"}
  BY DEF SelectAllNone
<1> HIDE DEF new, tags
<1> SUFFICES ASSUME NEW s \in calm' PROVE CalmInv(s)'
  BY DEF CalmTabs
<1>3. s \in calm /\ CalmInv(s) /\ s \in Tab
  BY <1>T, <1>2 DEF CalmTabs
<1>4. CASE s # c.tab
  <2>1. CallsOf(s)' = CallsOf(s)
    BY <1>1, <1>2, <1>4, OtherCalls
  <2>2. tab'[s] = tab[s]
    BY <1>2, <1>3, <1>4, <1>T
  <2> QED BY <1>2, <1>3, <2>1, <2>2, CalmAside
<1>5. CASE s = c.tab
  <2>1. c \in CallsOf(s) /\ ~Echo(c)
    BY <1>2, <1>5 DEF CallsOf, Echo
  <2>2. CallsOf(s) = {c}
    BY <1>3, <2>1 DEF CalmInv
  <2>3. CallsOf(s)' = {new}
    BY <1>1, <1>2, <1>5, <2>2 DEF CallsOf, Replaced
  <2>4. /\ tab'[s].tags = tags /\ tab'[s].grades = tab[s].grades
        /\ tab'[s].restore = tab[s].restore /\ tab'[s].hint = tab[s].hint
    <3>1. tab'[s] = [tab[s] EXCEPT !.tags = tags] /\ tab[s] \in Page
      BY <1>2, <1>5, <1>T
    <3> QED BY <3>1 DEF Page
  <2>5. Panel(row.edits)' = Panel(row.edits) /\ Derive(network, row.edits)' = Derive(network, row.edits)
    BY <1>2 DEF Panel
  <2>6. c.do # "grades" /\ c.do # "tags"
    BY <1>2
  <2>7. tab[s].grades = row.edits.grades /\ (c.at = "loaded" => c.seen = row)
    BY <1>3, <2>2, <2>6 DEF CalmInv
  <2> QED BY <1>1, <1>2, <1>3, <2>3, <2>4, <2>5, <2>7 DEF CalmInv
<1> QED BY <1>4, <1>5

\* The answer of an edit puts the page of a calm tab where the row is.
LEMMA CalmApply ==
    ASSUME TypeInv, CalmTabs, NEW c \in calls, ApplyEdits(c)
    PROVE  CalmTabs'
<1>T. /\ tab \in [Tab -> Page] /\ calm \subseteq Tab /\ c \in Request
      /\ c.tab \in Tab /\ row \in Row /\ row.edits \in Intent
  BY DEF TypeInv, EdTypeInv, Request, Row
<1> SUFFICES ASSUME NEW s \in calm' PROVE CalmInv(s)'
  BY DEF CalmTabs
<1>0. s \in calm /\ CalmInv(s) /\ s \in Tab
  BY <1>T DEF ApplyEdits, CalmTabs
<1>D. c.do \in Edit /\ c.at = "loaded" /\ network' = network
  BY DEF ApplyEdits
<1>C. \A d \in Cascade(c) : d.tab = c.tab
  BY <1>T, CascadeIs
<1>1. CASE s # c.tab
  <2>1. row' = row
    BY <1>1 DEF ApplyEdits
  <2>2. Replaced(c, {}) \/ Replaced(c, Cascade(c))
    BY DEF ApplyEdits
  <2>3. CallsOf(s)' = CallsOf(s)
    BY <1>1, <1>C, <2>2, OtherCalls
  <2>4. tab'[s] = tab[s]
    <3>1. tab' = tab \/ \E page : tab' = [tab EXCEPT ![c.tab] = page]
      BY DEF ApplyEdits
    <3> QED BY <1>0, <1>1, <1>T, <3>1
  <2> QED BY <1>0, <1>D, <2>1, <2>3, <2>4, CalmAside
<1>2. CASE s = c.tab
  <2> DEFINE e == row.edits
             edits == Edited(c.do, c.arg, e)
             written == Changes(c.do, c.arg, e)
             mine == IF written THEN edits ELSE e
             unheard == c.do = "keep" /\ DOMAIN Derive(network, edits) = {}
  <2>1. c \in CallsOf(s) /\ c.seen = row
    BY <1>0, <1>2, <1>D DEF CallsOf, CalmInv
  <2>2. /\ network # <<>>
        /\ row' = IF written THEN [row EXCEPT !.edits = edits] ELSE row
        /\ IF unheard THEN Replaced(c, {}) /\ UNCHANGED tab
           ELSE /\ Replaced(c, Cascade(c))
                /\ tab' = [tab EXCEPT ![c.tab] = Answered(c.tab, c.do, mine)]
    BY <1>2, <2>1 DEF ApplyEdits
  <2>3. row'.edits = mine
    <3> HIDE DEF edits, written
    <3> QED BY <1>T, <2>2 DEF Row
  <2>4. /\ edits.removed = CASE c.do = "remove" -> e.removed \cup c.arg
                              [] c.do = "restore" -> e.removed \ c.arg
                              [] c.do \in {"clear", "reset"} -> {}
                              [] c.do \in {"tags", "grades", "keep"} -> e.removed
        /\ edits.tags = CASE c.do = "tags" -> c.arg [] c.do = "reset" -> Tag [] OTHER -> e.tags
        /\ edits.grades = CASE c.do = "grades" -> c.arg [] c.do = "reset" -> DefaultGrades
                            [] OTHER -> e.grades
        /\ edits.keep = IF c.do = "keep" THEN "largest" ELSE "all"
    BY <1>T, <1>D, EditedRemovals, EditedFilters
  <2>5. ~written => /\ edits.removed = e.removed /\ edits.tags = e.tags
                    /\ edits.grades = e.grades /\ c.do \notin {"keep", "reset"}
    BY <1>T, <1>D, UnwrittenIsSame
  <2>6. Echo(c) => ~written
    BY <1>T, EchoIsUnwritten
  <2> HIDE DEF edits, written
  <2>7. mine.removed = edits.removed /\ mine.tags = edits.tags /\ mine.grades = edits.grades
    BY <2>5
  <2>8. Panel(mine) = mine.removed \cap DOMAIN network
    BY DEF Panel
  <2>9. CASE \A d \in CallsOf(s) : Echo(d)
    <3>1. ~written /\ row' = row /\ mine = e /\ c.do \in {"tags", "grades"}
      BY <2>1, <2>2, <2>6, <2>9 DEF Echo
    <3>2. ~unheard /\ Cascade(c) = {}
      BY <1>T, <3>1, CascadeIs
    <3>3. CallsOf(s)' = CallsOf(s) \ {c}
      BY <2>2, <3>2 DEF CallsOf, Replaced
    <3>4. tab'[s] = [tab[s] EXCEPT !.hint = e.keep] /\ tab[s] \in Page
      BY <1>2, <1>T, <2>2, <3>1, <3>2 DEF Answered
    <3>5. /\ tab'[s].tags = tab[s].tags /\ tab'[s].grades = tab[s].grades
          /\ tab'[s].restore = tab[s].restore /\ tab'[s].hint = e.keep
      BY <3>4 DEF Page
    <3>6. \A d : Echo(d)' <=> Echo(d)
      BY <3>1 DEF Echo
    <3>7. tab[s].tags = e.tags /\ tab[s].grades = e.grades
      <4>1. tab[s].tags = e.tags
        <5>1. CASE \E d \in CallsOf(s) : d.do = "tags"
          BY <1>0, <2>9, <5>1 DEF CalmInv, Echo
        <5>2. CASE \A d \in CallsOf(s) : d.do # "tags"
          BY <1>0, <5>2 DEF CalmInv
        <5> QED BY <5>1, <5>2
      <4>2. tab[s].grades = e.grades
        <5>1. CASE \E d \in CallsOf(s) : d.do = "grades"
          BY <1>0, <2>9, <5>1 DEF CalmInv, Echo
        <5>2. CASE \A d \in CallsOf(s) : d.do # "grades"
          BY <1>0, <5>2 DEF CalmInv
        <5> QED BY <5>1, <5>2
      <4> QED BY <4>1, <4>2
    <3>8. \A d \in CallsOf(s)' :
            /\ Echo(d)' /\ (d.at = "loaded" => d.seen = row')
            /\ d.do = "tags" => tab'[s].tags = d.arg
            /\ d.do = "grades" => tab'[s].grades = d.arg
      BY <1>0, <2>9, <3>1, <3>3, <3>5, <3>6 DEF CalmInv
    <3>9. tab'[s].restore = Panel(row.edits)'
      BY <1>0, <1>D, <3>1, <3>5 DEF CalmInv, Panel
    <3> QED BY <3>1, <3>5, <3>7, <3>8, <3>9 DEF CalmInv
  <2>10. CASE \A d, f \in CallsOf(s) : d = f
    <3>1. CallsOf(s) = {c}
      BY <2>1, <2>10
    <3>2. /\ c.do = "tags" => tab[s].tags = c.arg
          /\ c.do # "tags" => tab[s].tags = e.tags
          /\ c.do = "grades" => tab[s].grades = c.arg
          /\ c.do # "grades" => tab[s].grades = e.grades
          /\ tab[s].restore = e.removed \cap DOMAIN network
      BY <1>0, <3>1 DEF CalmInv, Panel
    <3>3. \A d \in CallsOf(s)' :
            /\ d.at = "sent" /\ c.do = "reset"
            /\ (d.do = "tags" /\ d.arg = Tag) \/ (d.do = "grades" /\ d.arg = DefaultGrades)
      <4>1. \A d \in CallsOf(s)' : d \in Cascade(c)
        BY <2>2, <3>1 DEF CallsOf, Replaced
      <4> QED BY <4>1, <1>T, CascadeIs
    <3>4. /\ tab'[s].tags = mine.tags /\ tab'[s].grades = mine.grades
          /\ tab'[s].restore = mine.removed \cap DOMAIN network
          /\ \/ tab'[s].hint = mine.keep
             \/ mine.keep = "largest" /\ DOMAIN Derive(network, mine) = {}
      <4>P. tab[s] \in Page
        BY <1>T, <1>0
      <4>1. CASE unheard
        <5>1. tab' = tab /\ c.do = "keep" /\ written /\ mine = edits
          BY <4>1, <2>2, <2>5
        <5> QED BY <5>1, <4>1, <3>2, <2>4
      <4>2. CASE ~unheard
        <5>1. tab'[s] = Answered(s, c.do, mine)
          BY <4>2, <1>2, <1>T, <2>2
        <5>2. CASE c.do \in {"tags", "grades", "keep"}
          <6>1. tab'[s] = [tab[s] EXCEPT !.hint = mine.keep]
            BY <5>1, <5>2 DEF Answered
          <6>2. /\ tab'[s].tags = tab[s].tags /\ tab'[s].grades = tab[s].grades
                /\ tab'[s].restore = tab[s].restore /\ tab'[s].hint = mine.keep
            <7> HIDE DEF mine
            <7> QED BY <6>1, <4>P DEF Page
          <6> QED BY <6>2, <5>2, <3>2, <2>4, <2>7
        <5>3. CASE c.do \in {"remove", "restore"}
          <6>1. tab'[s] = [tab[s] EXCEPT !.hint = mine.keep, !.restore = Panel(mine)]
            BY <5>1, <5>3 DEF Answered
          <6>2. /\ tab'[s].tags = tab[s].tags /\ tab'[s].grades = tab[s].grades
                /\ tab'[s].restore = Panel(mine) /\ tab'[s].hint = mine.keep
            <7> HIDE DEF mine
            <7> QED BY <6>1, <4>P DEF Page
          <6> QED BY <6>2, <5>3, <3>2, <2>4, <2>7, <2>8
        <5>4. CASE c.do = "clear"
          <6>1. tab'[s] = [tab[s] EXCEPT !.hint = mine.keep, !.restore = {}]
            BY <5>1, <5>4 DEF Answered
          <6>2. /\ tab'[s].tags = tab[s].tags /\ tab'[s].grades = tab[s].grades
                /\ tab'[s].restore = {} /\ tab'[s].hint = mine.keep
            <7> HIDE DEF mine
            <7> QED BY <6>1, <4>P DEF Page
          <6> QED BY <6>2, <5>4, <3>2, <2>4, <2>7
        <5>5. CASE c.do = "reset"
          <6>1. tab'[s] = [tab[s] EXCEPT !.hint = "all", !.restore = {},
                                         !.tags = Tag, !.grades = DefaultGrades]
            BY <5>1, <5>5 DEF Answered
          <6>2. /\ tab'[s].tags = Tag /\ tab'[s].grades = DefaultGrades
                /\ tab'[s].restore = {} /\ tab'[s].hint = "all"
            BY <6>1, <4>P DEF Page
          <6>3. written /\ mine = edits
            BY <5>5, <2>5
          <6> QED BY <6>2, <6>3, <5>5, <2>4
        <5> QED BY <5>2, <5>3, <5>4, <5>5, <1>D DEF Edit
      <4> QED BY <4>1, <4>2
    <3> HIDE DEF mine, unheard
    <3>5. \A d \in CallsOf(s)' :
            /\ Echo(d)' /\ d.at # "loaded"
            /\ d.do = "tags" => tab'[s].tags = d.arg
            /\ d.do = "grades" => tab'[s].grades = d.arg
      <4>1. c.do = "reset" => mine.tags = Tag /\ mine.grades = DefaultGrades
        BY <2>4, <2>7
      <4> QED BY <4>1, <3>3, <3>4, <2>3 DEF Echo
    <3>6. Panel(row.edits)' = mine.removed \cap DOMAIN network
      BY <1>D, <2>3 DEF Panel
    <3>7. Derive(network, row.edits)' = Derive(network, mine)
      BY <1>D, <2>3
    <3> QED BY <2>3, <3>4, <3>5, <3>6, <3>7 DEF CalmInv
  <2> QED BY <1>0, <2>9, <2>10 DEF CalmInv
<1> QED BY <1>1, <1>2

\* Every step keeps what calm tabs show; uploads and runs leave none calm.
LEMMA CalmStep == TypeInv /\ CalmTabs /\ [Next]_vars => CalmTabs'
<1> SUFFICES ASSUME TypeInv, CalmTabs, [Next]_vars PROVE CalmTabs'
  OBVIOUS
<1>E. ASSUME UNCHANGED <<row, network, tab, calls, calm>> PROVE CalmTabs'
  <2>1. UNCHANGED <<row, network, tab, calls, calm>>
    BY <1>E
  <2> SUFFICES ASSUME NEW t \in calm' PROVE CalmInv(t)'
    BY DEF CalmTabs
  <2>2. t \in calm /\ CalmInv(t) /\ CallsOf(t)' = CallsOf(t) /\ tab'[t] = tab[t]
    BY <2>1 DEF CalmTabs, CallsOf
  <2> QED BY <2>1, <2>2, CalmAside
<1>A. ASSUME UNCHANGED edVars PROVE CalmTabs'
  BY <1>A, <1>E DEF edVars
<1>B. ASSUME calm' = {} PROVE CalmTabs'
  BY <1>B DEF CalmTabs
<1>1. ASSUME NEW w \in Writer, Upload(w) PROVE CalmTabs'
  BY <1>1, <1>B DEF Upload, ForgetNetwork
<1>2. ASSUME NEW w \in Writer, Download(w) PROVE CalmTabs'
  BY <1>2, <1>A DEF Download
<1>3. ASSUME (\E w \in Writer : EndTask(w)) \/ EndEarlierTask PROVE CalmTabs'
  BY <1>3, <1>B DEF EndTask, EndEarlierTask, EndUpload
<1>4. ASSUME OnStreetPage PROVE CalmTabs'
  <2>1. ASSUME NEW t \in Tab, OpenPage(t) \/ ClickOn(t) PROVE CalmTabs'
    BY <2>1, CalmClicks
  <2>2. ASSUME NEW c \in calls,
               LoadJob(c) \/ RenderPage(c) \/ SelectAllNone(c) \/ ApplyEdits(c)
        PROVE  CalmTabs'
    BY <2>2, CalmLoad, CalmRender, CalmSelect, CalmApply
  <2>3. ASSUME SubmitStep PROVE CalmTabs'
    <3>1. CASE calm' = {}
      BY <3>1, <1>B
    <3>2. CASE UNCHANGED <<row, network, tab, calls, calm>>
      BY <3>2, <1>E
    <3>3. calm' = {} \/ UNCHANGED <<row, network, tab, calls, calm>>
      BY <2>3 DEF SubmitStep, LoadForRun, EndRun, ResetRun, QueueRun, SaveForRun, FailToStart
    <3> QED BY <3>1, <3>2, <3>3
  <2> QED BY <1>4, <2>1, <2>2, <2>3 DEF OnStreetPage, EditStep, SubmitStep
<1>5. ASSUME UNCHANGED vars PROVE CalmTabs'
  BY <1>5, <1>A DEF vars
<1> QED BY <1>1, <1>2, <1>3, <1>4, <1>5 DEF Next

\* A tab whose clicks are answered one after the other, and which nothing has
\* interfered with, shows the filters, the removals and the hint of the row: the
\* parts of the page each answer of the street selection callbacks names are
\* enough.
THEOREM CalmTabsShow == Spec => []CalmTabsShowTheRow
<1>1. Init => TypeInv /\ CalmTabs
  BY TypeInit DEF Init, EdInit, CalmTabs
<1>2. TypeInv /\ CalmTabs /\ [Next]_vars => TypeInv' /\ CalmTabs'
  BY TypeStep, CalmStep
<1>3. CalmTabs => CalmTabsShowTheRow
  BY DEF CalmTabs, CalmInv, CalmTabsShowTheRow, ShowsTheRow
<1> QED BY <1>1, <1>2, <1>3, PTL DEF Spec
-----------------------------------------------------------------------------
(* "Keep largest network" *)

\* The roads of a part of a network, and their nodes.
LEMMA RestrictIs ==
    ASSUME NEW net, IsNetwork(net), NEW ids \in SUBSET DOMAIN net
    PROVE  /\ DOMAIN Restrict(net, ids) = ids
           /\ IsNetwork(Restrict(net, ids))
           /\ \A id \in ids : Restrict(net, ids)[id] = net[id]
           /\ NodesOf(Restrict(net, ids)) = UNION {Range(net[id].nodes) : id \in ids}
<1>1. DOMAIN Restrict(net, ids) = ids /\ \A id \in ids : Restrict(net, ids)[id] = net[id]
  BY DEF Restrict
<1>2. IsNetwork(Restrict(net, ids))
  BY <1>1, FS_Subset DEF IsNetwork
<1>3. NodesOf(Restrict(net, ids)) = UNION {Range(net[id].nodes) : id \in ids}
  BY <1>1 DEF NodesOf
<1> QED BY <1>1, <1>2, <1>3

\* remove_disconnected_roads keeps the roads of the part, and all its nodes.
LEMMA KeptIs ==
    ASSUME NEW net, IsNetwork(net), NEW p \in Subnetworks(net)
    PROVE  LET kept == RemoveDisconnectedRoads(net, p)
               ids == {id \in DOMAIN net : Range(net[id].nodes) \cap p # {}}
           IN /\ kept = Restrict(net, ids)
              /\ \A id \in ids : Range(net[id].nodes) \subseteq p
              /\ NodesOf(kept) = p
<1> DEFINE kept == RemoveDisconnectedRoads(net, p)
           ids == {id \in DOMAIN net : Range(net[id].nodes) \cap p # {}}
<1>1. kept = Restrict(net, ids)
  BY DEF RemoveDisconnectedRoads
<1>2. p \subseteq NodesOf(net) /\ IsClosed(BuildGraph(net), p)
  BY SubnetworksAre
<1>3. \A id \in ids : Range(net[id].nodes) \subseteq p
  BY <1>2, RoadIsInside
<1>4. NodesOf(kept) = UNION {Range(net[id].nodes) : id \in ids}
  BY <1>1, RestrictIs
<1>5. p \subseteq NodesOf(kept)
  BY <1>2, <1>4 DEF NodesOf
<1> QED BY <1>1, <1>3, <1>4, <1>5

\* What is kept hangs together: a part of its roads that met no other would be
\* closed, and so be all of it.
LEMMA KeptIsConnected ==
    ASSUME NEW net, IsNetwork(net), NEW p \in Subnetworks(net)
    PROVE  Connected(RemoveDisconnectedRoads(net, p))
<1> DEFINE kept == RemoveDisconnectedRoads(net, p)
           ids == {id \in DOMAIN net : Range(net[id].nodes) \cap p # {}}
           G == BuildGraph(net)
<1>1. kept = Restrict(net, ids) /\ NodesOf(kept) = p
      /\ \A id \in ids : Range(net[id].nodes) \subseteq p
  BY KeptIs
<1>2. DOMAIN kept = ids /\ IsNetwork(kept) /\ \A id \in ids : kept[id] = net[id]
  BY <1>1, RestrictIs
<1> HIDE DEF kept
<1>3. ASSUME NEW part \in SUBSET ids, part # {}, part # ids,
             NodesOf(Restrict(kept, part)) \cap NodesOf(Restrict(kept, ids \ part)) = {}
      PROVE  FALSE
  <2> DEFINE A == UNION {Range(net[id].nodes) : id \in part}
             B == UNION {Range(net[id].nodes) : id \in ids \ part}
  <2>1. A = NodesOf(Restrict(kept, part)) /\ B = NodesOf(Restrict(kept, ids \ part))
    <3>1. \A some \in SUBSET ids :
            NodesOf(Restrict(kept, some)) = UNION {Range(kept[id].nodes) : id \in some}
      BY <1>2, RestrictIs
    <3> QED BY <1>2, <3>1
  <2>2. A \cap B = {}
    BY <1>3, <2>1
  <2>3. A \subseteq p /\ B \subseteq p
    BY <1>1
  <2>4. IsClosed(G, A)
    <3> SUFFICES ASSUME NEW b \in A, NEW m \in G.node, {b, m} \in G.edge
                 PROVE  m \in A
      BY DEF IsClosed
    <3>1. PICK id \in DOMAIN net : {b, m} \subseteq Range(net[id].nodes)
      BY EdgesAreOfRoads
    <3>2. id \in ids
      BY <2>3, <3>1
    <3>3. id \in part
      BY <2>2, <3>1, <3>2
    <3> QED BY <3>1, <3>3
  <2>5. PICK id \in part : net[id].nodes[1] \in A
    BY RoadNodes, <1>3
  <2>6. PICK jd \in ids \ part : net[jd].nodes[1] \in B
    <3>1. PICK jd \in ids \ part : TRUE
      BY <1>3
    <3> QED BY <3>1, RoadNodes
  <2> DEFINE a == net[id].nodes[1]
  <2>7. a \in p /\ p = Component(G, a) /\ IsGraph(G) /\ a \in G.node
    <3>1. a \in p
      BY <2>3, <2>5
    <3>2. p = Component(G, a) /\ p \subseteq NodesOf(net)
      BY <3>1, SubnetworksAre
    <3> QED BY <3>1, <3>2, GraphOfNetwork
  <2>8. p \subseteq A
    <3> HIDE DEF a, A, G
    <3> QED BY <2>4, <2>5, <2>7, ComponentIs DEF a
  <2> HIDE DEF A, B
  <2> QED BY <2>2, <2>3, <2>6, <2>8
<1>4. Connected(kept)
  <2> SUFFICES ASSUME NEW part \in (SUBSET DOMAIN kept) \ {{}, DOMAIN kept}
               PROVE  NodesOf(Restrict(kept, part))
                        \cap NodesOf(Restrict(kept, DOMAIN kept \ part)) # {}
    BY DEF Connected
  <2> HIDE DEF ids
  <2> QED BY <1>2, <1>3
<1> QED BY <1>4 DEF kept

\* No connected roads have more nodes than the largest part: they all are in
\* the part of one of their nodes.
LEMMA ConnectedIsInAPart ==
    ASSUME NEW net, IsNetwork(net), NEW part \in SUBSET DOMAIN net, part # {},
           Connected(Restrict(net, part))
    PROVE  \E q \in Subnetworks(net) : NodesOf(Restrict(net, part)) \subseteq q
<1> DEFINE other == Restrict(net, part)
<1>1. /\ DOMAIN other = part /\ IsNetwork(other) /\ \A id \in part : other[id] = net[id]
      /\ NodesOf(other) = UNION {Range(net[id].nodes) : id \in part}
  BY RestrictIs
<1> HIDE DEF other
<1>2. PICK first \in part : TRUE
  OBVIOUS
<1>3. PICK q \in Subnetworks(net) : net[first].nodes[1] \in q
  <2>1. net[first].nodes[1] \in NodesOf(net)
    BY RoadNodes DEF NodesOf
  <2> QED BY <2>1, SubnetworksAre
<1> DEFINE inner == {id \in part : Range(net[id].nodes) \cap q # {}}
<1>4. \A id \in inner : Range(net[id].nodes) \subseteq q
  <2>1. IsClosed(BuildGraph(net), q)
    BY SubnetworksAre
  <2> QED BY <2>1, RoadIsInside
<1>5. first \in inner
  BY <1>3, RoadNodes
<1>6. CASE inner = part
  <2>1. NodesOf(other) \subseteq q
    BY <1>1, <1>4, <1>6
  <2> QED BY <2>1 DEF other
<1>7. CASE inner # part
  <2>1. inner \in (SUBSET part) \ {{}, part} /\ part \ inner \in SUBSET part
    <3>1. inner \in SUBSET part
      OBVIOUS
    <3> HIDE DEF inner
    <3> QED BY <1>5, <1>7, <3>1
  <2>2. NodesOf(Restrict(other, inner)) \cap NodesOf(Restrict(other, part \ inner)) # {}
    <3>1. Connected(other)
      BY DEF other
    <3> HIDE DEF inner
    <3> QED BY <1>1, <2>1, <3>1 DEF Connected
  <2>3. \A some \in SUBSET part :
            NodesOf(Restrict(other, some)) = UNION {Range(other[id].nodes) : id \in some}
    BY <1>1, RestrictIs
  <2>4. NodesOf(Restrict(other, inner)) \subseteq q
    BY <1>1, <1>4, <2>1, <2>3
  <2>5. NodesOf(Restrict(other, part \ inner)) \cap q = {}
    BY <1>1, <2>1, <2>3
  <2> QED BY <2>2, <2>4, <2>5
<1> QED BY <1>6, <1>7

\* Each of a network's filters gives a network.
LEMMA SelectedIsNetwork ==
    ASSUME NEW net, IsNetwork(net), NEW intent
    PROVE  IsNetwork(Selected(net, intent))
<1> DEFINE tagged == FilterByTags(net, intent.tags)
           graded == FilterByGrades(tagged, intent.grades)
<1>1. IsNetwork(tagged)
  BY RestrictIs DEF FilterByTags
<1> HIDE DEF tagged
<1>2. IsNetwork(graded)
  BY <1>1, RestrictIs DEF FilterByGrades
<1> HIDE DEF graded
<1>3. IsNetwork(Restrict(graded, DOMAIN graded \ intent.removed))
  BY <1>2, RestrictIs
<1> QED BY <1>3 DEF Selected, graded, tagged

\* The networks of files are networks: finite, of roads that have nodes.
LEMMA NetworksAre ==
    ASSUME NEW net \in Network
    PROVE  IsNetwork(net)
<1>1. PICK ids \in SUBSET DOMAIN Osm : net \in [ids -> Feature]
  BY DEF Network
<1>2. IsFiniteSet(ids) /\ ids \subseteq Nat
  BY FS_Subset, OsmDownloadAssumption, RoadNetworkAssumption
<1>3. ASSUME NEW way \in Feature
      PROVE  way.nodes \in Seq(Node) /\ way.nodes # <<>>
  <2>1. PICK id \in DOMAIN Osm, a \in Areas : way = WayToFeature(Osm[id], a)
    BY DEF Feature
  <2>2. IsRoad(Osm[id]) /\ Osm[id].nodes \in Seq(Node)
    BY OsmDownloadAssumption DEF IsRoad
  <2>3. way.nodes = TruncateByEdge(Osm[id].nodes, a) /\ way.nodes # <<>>
    BY <2>1, <2>2, FeatureOfWay DEF Feature
  <2> QED BY <2>2, <2>3, TruncationKeepsWhatIsInside
<1> HIDE DEF Feature
<1> QED BY <1>1, <1>2, <1>3 DEF IsNetwork

\* Whatever the network and the intent.
LEMMA LargestIsKept ==
    ASSUME NEW net, IsNetwork(net), NEW intent, intent.keep = "largest"
    PROVE  LET selected == Selected(net, intent)
               kept == Derive(net, intent)
           IN /\ Connected(kept)
              /\ NodesOf(kept) \cap
                    NodesOf(Restrict(selected, DOMAIN selected \ DOMAIN kept)) = {}
              /\ \A part \in SUBSET DOMAIN selected :
                    LET other == Restrict(selected, part) IN
                    Connected(other) => Cardinality(NodesOf(other)) <= Cardinality(NodesOf(kept))
<1> DEFINE selected == Selected(net, intent)
           kept == Derive(net, intent)
           p == LargestSubnetwork(selected)
<1>1. IsNetwork(selected)
  BY SelectedIsNetwork
<1>2. kept = IF DOMAIN selected # {} THEN RemoveDisconnectedRoads(selected, p) ELSE selected
  BY DEF Derive
<1> HIDE DEF selected, kept, p
<1>3. CASE DOMAIN selected = {}
  <2>1. kept = selected /\ NodesOf(kept) = {}
    BY <1>2, <1>3 DEF NodesOf
  <2>2. Connected(kept)
    BY <1>3, <2>1 DEF Connected
  <2>3. ASSUME NEW part \in SUBSET DOMAIN selected
        PROVE  Cardinality(NodesOf(Restrict(selected, part))) <= Cardinality(NodesOf(kept))
    <3>1. NodesOf(Restrict(selected, part)) = {}
      BY <1>1, <1>3, RestrictIs
    <3> QED BY <2>1, <3>1, FS_EmptySet
  <2> QED BY <2>1, <2>2, <2>3 DEF selected, kept
<1>4. CASE DOMAIN selected # {}
  <2> DEFINE ids == {id \in DOMAIN selected : Range(selected[id].nodes) \cap p # {}}
  <2>1. /\ p \in Subnetworks(selected)
        /\ \A q \in Subnetworks(selected) : Cardinality(q) <= Cardinality(p)
    BY <1>1, <1>4, LargestIs DEF p
  <2>2. /\ IsFiniteSet(p) /\ Cardinality(p) \in Nat
        /\ \A q \in Subnetworks(selected) : IsFiniteSet(q) /\ Cardinality(q) \in Nat
    BY <1>1, <2>1, SubnetworksAre
  <2>3. kept = RemoveDisconnectedRoads(selected, p)
    BY <1>2, <1>4
  <2>4. kept = Restrict(selected, ids) /\ NodesOf(kept) = p
    BY <1>1, <2>1, <2>3, KeptIs
  <2>5. DOMAIN kept = ids
    BY <1>1, <2>4, RestrictIs
  <2>6. Connected(kept)
    BY <1>1, <2>1, <2>3, KeptIsConnected
  <2>7. NodesOf(kept) \cap NodesOf(Restrict(selected, DOMAIN selected \ DOMAIN kept)) = {}
    <3>1. NodesOf(Restrict(selected, DOMAIN selected \ ids))
            = UNION {Range(selected[id].nodes) : id \in DOMAIN selected \ ids}
      BY <1>1, RestrictIs
    <3> QED BY <2>4, <2>5, <3>1
  <2>8. ASSUME NEW part \in SUBSET DOMAIN selected, Connected(Restrict(selected, part))
        PROVE  Cardinality(NodesOf(Restrict(selected, part))) <= Cardinality(NodesOf(kept))
    <3> DEFINE nodes == NodesOf(Restrict(selected, part))
    <3>1. CASE part = {}
      <4>1. nodes = {}
        BY <1>1, <3>1, RestrictIs
      <4> QED BY <2>2, <2>4, <4>1, FS_EmptySet
    <3>2. CASE part # {}
      <4>1. PICK q \in Subnetworks(selected) : nodes \subseteq q
        BY <1>1, <2>8, <3>2, ConnectedIsInAPart
      <4> HIDE DEF nodes
      <4>2. IsFiniteSet(nodes) /\ Cardinality(nodes) <= Cardinality(q)
        BY <2>2, <4>1, FS_Subset
      <4>3. Cardinality(nodes) \in Nat
        BY <4>2, FS_CardinalityType
      <4>4. Cardinality(nodes) <= Cardinality(p)
        BY <2>1, <2>2, <4>2, <4>3
      <4> QED BY <2>4, <4>4 DEF nodes
    <3> QED BY <3>1, <3>2
  <2> QED BY <2>6, <2>7, <2>8 DEF selected, kept
<1> QED BY <1>3, <1>4

\* "Keep largest network" leaves a connected network that nothing of the
\* selection is attached to, and than which no connected part of the selection
\* has more nodes, for any ways, polygon and edits.
THEOREM TheLargestIsKept == Spec => []KeptNetworkIsTheLargest
<1>1. TypeInv => KeptNetworkIsTheLargest
  <2>1. TypeInv => IsNetwork(network)
    BY NetworksAre DEF TypeInv, EdTypeInv
  <2> QED BY <2>1, LargestIsKept DEF KeptNetworkIsTheLargest
<1>2. Spec => []TypeInv
  BY TypeInit, TypeStep, PTL DEF Spec
<1> QED BY <1>1, <1>2, PTL
=============================================================================
