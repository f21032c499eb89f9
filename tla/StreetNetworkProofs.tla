------------------------ MODULE StreetNetworkProofs ------------------------
(***************************************************************************)
(* A proof about StreetNetwork, for any number of downloads, web pods,     *)
(* intents, requests, workers and crashes, on disks of their own or on one *)
(* they share: the types, and with them what every rewriting of a derived  *)
(* file has at hand.                                                       *)
(***************************************************************************)
EXTENDS StreetNetwork, TLAPS

Rewrites == {"drop", "open", "write", "record"}

\* Requests work on the web pods' disks, runs on the worker's; a rewriting has
\* a source, and something to write until it is written.
Shaped(a, p) ==
    /\ p.pc # "idle" => IF a \in Handler THEN p.disk \in WebDisk /\ p.kind # "run"
                                         ELSE p.disk = WorkerDisk /\ p.kind = "run"
    /\ p.pc \in {"read"} \cup Rewrites => p.source \in Source
    /\ p.pc \in {"drop", "open", "write"} => p.content \in Source
    /\ p.file = "projected" => a \in Worker /\ p.pc \in Rewrites

TypeInv == TypeOK /\ \A a \in Actor : Shaped(a, act[a])

-----------------------------------------------------------------------------
(* Type correctness *)

\* The rest of the state, which processes share.
Shared ==
    /\ row \in Row
    /\ store \in [Place -> Files]
    /\ tasks \in [Net -> {"unused", "begun", "stored", "over"}]
    /\ message \in {"none", "waits"}
    /\ requests \in 0..MaxRequests
    /\ crashes \in 0..MaxCrashes

\* The shapes of what there is at first.
LEMMA FixedTypes ==
    /\ NoJob \in Job /\ NoJob.net = None /\ NoJob.upload = None
    /\ Idle \in Process /\ Idle.pc = "idle" /\ Idle.job = NoJob /\ Idle.stored = "yes"
    /\ Idle.owner = "no" /\ Idle.file = "edited" /\ Idle.source = None
    /\ Idle.entries = NoEntries
    /\ NoEntries \in Record
    /\ NoFiles \in Files
    /\ Torn \in Content
    /\ Remote \in Place /\ WorkerDisk \in Disk /\ WebDisk \subseteq Disk
    /\ Disk \subseteq Place /\ Remote \notin Disk
<1>1. NoJob \in Job /\ NoJob.net = None /\ NoJob.upload = None
  BY StreetAssumption DEF NoJob, Job, NetOrNone
<1>2. NoEntries \in Record
  BY DEF NoEntries, Record
<1>3. Idle \in Process
  BY <1>1, <1>2 DEF Idle, Process, Derived
<1>4. NoFiles \in Files
  BY DEF NoFiles, Files, FileName, Derived, NetOrNone
<1> QED BY <1>1, <1>2, <1>3, <1>4, StreetAssumption
      DEF Idle, Torn, Content, Place, Disk

\* A process as it is, and the place it works on.
LEMMA ActorTypes ==
    ASSUME TypeInv, NEW a \in Actor
    PROVE  /\ act[a] \in Process /\ Shaped(a, act[a])
           /\ act[a].pc # "idle" => act[a].disk \in Disk
           /\ act[a].job \in Job
           /\ act[a].disk \in Disk => Here(a) \in Files
           /\ act[a].disk \in Disk => EntriesHere(a) \in Record
<1>1. act[a] \in Process /\ Shaped(a, act[a]) /\ act[a].job \in Job
  BY DEF TypeInv, TypeOK, Process
<1>2. act[a].pc # "idle" => act[a].disk \in Disk
  BY <1>1, FixedTypes DEF Shaped
<1>3. ASSUME act[a].disk \in Disk
      PROVE  Here(a) \in Files /\ EntriesHere(a) \in Record
  <2>1. Here(a) \in Files
    BY <1>3, FixedTypes DEF Here, TypeInv, TypeOK
  <2> QED BY <2>1, FixedTypes DEF EntriesHere, Files
<1> QED BY <1>1, <1>2, <1>3

\* A step of one process, by what becomes of it.
LEMMA OneActor ==
    ASSUME TypeInv, NEW a \in Actor, NEW p \in Process, Shaped(a, p),
           act' = [act EXCEPT ![a] = p], Shared'
    PROVE  TypeInv'
<1>1. TypeOK'
  BY DEF TypeInv, TypeOK, Shared
<1>2. ASSUME NEW b \in Actor PROVE Shaped(b, act[b])'
  <2>1. CASE b = a
    <3>1. act'[b] = p
      BY <2>1 DEF TypeInv, TypeOK
    <3> QED BY <2>1, <3>1 DEF Shaped
  <2>2. CASE b # a
    <3>1. act'[b] = act[b]
      BY <2>2 DEF TypeInv, TypeOK
    <3> QED BY <3>1 DEF Shaped, TypeInv
  <2> QED BY <2>1, <2>2
<1> QED BY <1>1, <1>2 DEF TypeInv

\* Steps that only move on, and steps that end.
LEMMA GotoTypes ==
    ASSUME TypeInv, NEW a \in Actor, ~At(a, "idle"), act[a].pc \notin Rewrites,
           NEW pc \in {"pull", "push", "save", "clear", "check", "fetch", "serve",
                       "project", "compute"},
           Goto(a, pc), Shared'
    PROVE  TypeInv'
<1> DEFINE p == [act[a] EXCEPT !.pc = pc]
<1>1. p \in Process
  BY ActorTypes DEF Process
<1>2. Shaped(a, p)
  BY <1>1, ActorTypes DEF Shaped, At, Process, Rewrites
<1>3. act' = [act EXCEPT ![a] = p]
  BY DEF Goto
<1> HIDE DEF p
<1> QED BY <1>1, <1>2, <1>3, OneActor

\* An end of a process keeps the types.
LEMMA DoneTypes ==
    ASSUME TypeInv, NEW a \in Actor, Done(a), Shared'
    PROVE  TypeInv'
<1>1. Shaped(a, Idle)
  BY FixedTypes DEF Shaped, Rewrites
<1> QED BY <1>1, FixedTypes, OneActor DEF Done

\* The files of a place with one of them written.
LEMMA WriteTypes ==
    ASSUME TypeInv, NEW d \in Place, NEW f \in FileName, NEW c,
           f = "net" => c \in NetOrNone,
           f = "record" => c \in Record,
           f \in Derived => c \in Content,
           store' = [store EXCEPT ![d][f] = c]
    PROVE  /\ store' \in [Place -> Files]
           /\ store'[d] = [store[d] EXCEPT ![f] = c]
           /\ \A p \in Place : p # d => store'[p] = store[p]
<1>1. store[d] \in Files
  BY DEF TypeInv, TypeOK
<1>2. [store[d] EXCEPT ![f] = c] \in Files
  BY <1>1 DEF Files, FileName, Derived
<1> QED BY <1>2 DEF TypeInv, TypeOK

\* The files of a place after a copy.
LEMMA OverlayIs ==
    ASSUME TypeInv, NEW src \in Place, NEW dst \in Place, NEW files
    PROVE  /\ Overlay(src, dst, files) \in Files
           /\ \A f \in FileName : Overlay(src, dst, files)[f] \in {store[src][f], store[dst][f]}
           /\ store[dst].net # None => Overlay(src, dst, files).net # None
<1>1. store[src] \in Files /\ store[dst] \in Files
  BY DEF TypeInv, TypeOK
<1>2. \A f \in FileName : Overlay(src, dst, files)[f] \in {store[src][f], store[dst][f]}
  BY DEF Overlay
<1>3. store[dst].net # None => Overlay(src, dst, files).net # None
  BY DEF Overlay, FileName
<1>4. Overlay(src, dst, files) \in Files
  BY <1>1, <1>2 DEF Overlay, Files, FileName, Derived
<1> QED BY <1>2, <1>3, <1>4

\* A pull keeps the types, whole or cut short,
LEMMA PullTypes ==
    ASSUME TypeInv, NEW a \in Actor, Pull(a)
    PROVE  TypeInv'
<1>1. PICK files \in Cuts :
        /\ store' = [store EXCEPT ![act[a].disk] = Overlay(Remote, act[a].disk, files)]
        /\ \/ /\ \/ act[a].kind = "submit" /\ Goto(a, "push")
                 \/ act[a].kind = "page" /\ Goto(a, "check")
                 \/ /\ act[a].kind = "run"
                    /\ act' = [act EXCEPT ![a].pc = "check", ![a].job = row.job]
              /\ UNCHANGED crashes
           \/ Crash(a)
  BY DEF Pull
<1>2. /\ UNCHANGED <<row, tasks, message, requests>> /\ act[a].pc = "pull"
      /\ act[a].disk \in Place
  BY FixedTypes, ActorTypes DEF Pull, At
<1>3. store' \in [Place -> Files]
  BY <1>1, <1>2, FixedTypes, OverlayIs DEF TypeInv, TypeOK
<1>4. Shared'
  BY <1>1, <1>2, <1>3, StreetAssumption DEF Shared, Crash, TypeInv, TypeOK
<1>5. CASE \E pc \in {"push", "check"} : Goto(a, pc)
  BY <1>2, <1>4, <1>5, GotoTypes DEF At, Rewrites
<1>6. CASE Crash(a)
  BY <1>4, <1>6, DoneTypes DEF Crash
<1>7. CASE act[a].kind = "run" /\ act' = [act EXCEPT ![a].pc = "check", ![a].job = row.job]
  <2> DEFINE p == [act[a] EXCEPT !.pc = "check", !.job = row.job]
  <2>1. row.job \in Job
    BY DEF TypeInv, TypeOK, Row
  <2>2. p \in Process
    BY <2>1, ActorTypes DEF Process
  <2>3. Shaped(a, p)
    BY <1>2, <2>1, ActorTypes DEF Shaped, Process, Rewrites
  <2>4. act' = [act EXCEPT ![a] = p]
    BY <1>7
  <2> HIDE DEF p
  <2> QED BY <1>4, <2>2, <2>3, <2>4, OneActor
<1> QED BY <1>1, <1>5, <1>6, <1>7

\* and so does a push.
LEMMA PushTypes ==
    ASSUME TypeInv, NEW a \in Actor, Push(a)
    PROVE  TypeInv'
<1>1. PICK files \in Cuts :
        /\ store' = [store EXCEPT ![Remote] = Overlay(act[a].disk, Remote, files)]
        /\ \/ /\ \/ act[a].kind = "submit" /\ Goto(a, "save")
                 \/ act[a].kind = "run" /\ Done(a)
              /\ UNCHANGED crashes
           \/ Crash(a)
  BY DEF Push
<1>2. /\ UNCHANGED <<row, tasks, message, requests>> /\ act[a].pc = "push"
      /\ act[a].disk \in Place
  BY FixedTypes, ActorTypes DEF Push, At
<1>3. store' \in [Place -> Files]
  BY <1>1, <1>2, FixedTypes, OverlayIs DEF TypeInv, TypeOK
<1>4. Shared'
  BY <1>1, <1>2, <1>3, StreetAssumption DEF Shared, Crash, TypeInv, TypeOK
<1>5. CASE Goto(a, "save")
  BY <1>2, <1>4, <1>5, GotoTypes DEF At, Rewrites
<1>6. CASE Done(a)
  BY <1>4, <1>6, DoneTypes
<1> QED BY <1>1, <1>5, <1>6 DEF Crash

\* What a step of a rewriting leaves of the process, and of its disk.
LEMMA FetchTypes ==
    ASSUME TypeInv, NEW a \in Actor, Check(a) \/ Fetch(a) \/ ReadDownload(a)
    PROVE  TypeInv'
<1>1. /\ act[a].pc \in {"check", "fetch", "read"} /\ act[a].disk \in Place
      /\ Here(a) \in Files /\ UNCHANGED <<row, tasks, message, requests, crashes>>
  BY FixedTypes, ActorTypes DEF Check, Fetch, ReadDownload, At
<1>2. CASE Check(a)
  <2>1. Shared'
    BY <1>2 DEF Check, Shared, TypeInv, TypeOK
  <2>2. CASE Done(a)
    BY <2>1, <2>2, DoneTypes
  <2>3. CASE \E pc \in {"compute", "project", "serve", "fetch"} : Goto(a, pc)
    BY <1>1, <2>1, <2>3, GotoTypes DEF At, Rewrites
  <2> QED BY <1>2, <2>2, <2>3 DEF Check, Refreshed
<1>3. CASE Fetch(a)
  <2> DEFINE net == IF Here(a).net # act[a].job.net /\ store[Remote].net # None
                    THEN store[Remote].net ELSE Here(a).net
             p == [act[a] EXCEPT !.pc = "read", !.stored = Stored(a),
                                 !.source = [intent |-> act[a].job.intent, net |-> net]]
  <2>1. net \in NetOrNone
    BY <1>1, FixedTypes DEF Files, TypeInv, TypeOK
  <2>2. /\ WriteHere(a, "net", net)
        /\ \/ net # None /\ act' = [act EXCEPT ![a] = p]
           \/ Goto(a, "compute") \/ Done(a)
    BY <1>3 DEF Fetch
  <2>3. Shared'
    <3>1. store' = [store EXCEPT ![act[a].disk]["net"] = net] /\ "net" \in FileName
      BY <2>2 DEF WriteHere, FileName
    <3> HIDE DEF net
    <3>2. store' \in [Place -> Files]
      BY <1>1, <2>1, <3>1, WriteTypes DEF Derived
    <3> QED BY <1>1, <3>2 DEF Shared, TypeInv, TypeOK
  <2>4. CASE net # None /\ act' = [act EXCEPT ![a] = p]
    <3>1. [intent |-> act[a].job.intent, net |-> net] \in Source
      BY <2>1, <2>4, ActorTypes DEF Source, NetOrNone, Job
    <3>2. Stored(a) \in {"no", "yes"}
      BY DEF Stored
    <3> HIDE DEF net
    <3>3. p \in Process
      BY <3>1, <3>2, ActorTypes DEF Process
    <3>4. Shaped(a, p)
      BY <1>1, <3>1, ActorTypes DEF Shaped, Process, Rewrites
    <3> HIDE DEF p
    <3> QED BY <2>3, <2>4, <3>3, <3>4, OneActor
  <2>5. CASE Goto(a, "compute")
    BY <1>1, <2>3, <2>5, GotoTypes DEF At, Rewrites
  <2>6. CASE Done(a)
    BY <2>3, <2>6, DoneTypes
  <2> QED BY <2>2, <2>4, <2>5, <2>6
<1>4. CASE ReadDownload(a)
  <2> DEFINE content == [intent |-> act[a].job.intent, net |-> Here(a).net]
             p == [act[a] EXCEPT !.pc = "drop", !.content = content]
  <2>1. Shared'
    BY <1>4 DEF ReadDownload, Shared, TypeInv, TypeOK
  <2>2. CASE Done(a)
    BY <2>1, <2>2, DoneTypes
  <2>3. CASE Here(a).net # None /\ act' = [act EXCEPT ![a] = p]
    <3>1. content \in Source
      BY <1>1, <2>3, ActorTypes DEF Source, NetOrNone, Job, Files
    <3> HIDE DEF content
    <3>2. p \in Process
      BY <3>1, ActorTypes DEF Process
    <3>3. Shaped(a, p)
      BY <1>4, <3>1, ActorTypes DEF ReadDownload, At, Shaped, Process, Rewrites
    <3> HIDE DEF p
    <3> QED BY <2>1, <2>3, <3>2, <3>3, OneActor
  <2> QED BY <1>4, <2>2, <2>3 DEF ReadDownload
<1> QED BY <1>2, <1>3, <1>4

\* The record is dropped, the file opened and written: the types stay.
LEMMA WritingTypes ==
    ASSUME TypeInv, NEW a \in Actor, DropRecord(a) \/ OpenFile(a) \/ WriteFile(a)
    PROVE  TypeInv'
<1>1. /\ act[a].pc \in {"drop", "open", "write"} /\ act[a].disk \in Place
      /\ Here(a) \in Files /\ EntriesHere(a) \in Record
      /\ act[a].file \in Derived /\ act[a].content \in Source
      /\ UNCHANGED <<row, tasks, message, requests, crashes>>
  BY FixedTypes, ActorTypes DEF DropRecord, OpenFile, WriteFile, At, Shaped, Process
<1>2. CASE DropRecord(a)
  <2> DEFINE rest == [EntriesHere(a) EXCEPT ![act[a].file] = None]
             p == [act[a] EXCEPT !.pc = "open", !.entries = rest]
  <2>1. rest \in Record
    BY <1>1 DEF Record
  <2>2. act' = [act EXCEPT ![a] = p]
        /\ (WriteHere(a, "record", rest) \/ UNCHANGED store)
    BY <1>2 DEF DropRecord
  <2> HIDE DEF rest
  <2>3. Shared'
    BY <1>1, <2>1, <2>2, WriteTypes DEF WriteHere, FileName, Derived, Shared, TypeInv, TypeOK
  <2>4. p \in Process
    BY <2>1, ActorTypes DEF Process
  <2>5. Shaped(a, p)
    BY <1>2, ActorTypes DEF DropRecord, At, Shaped, Process, Rewrites
  <2> HIDE DEF p
  <2> QED BY <2>2, <2>3, <2>4, <2>5, OneActor
<1>3. CASE OpenFile(a)
  <2> DEFINE p == [act[a] EXCEPT !.pc = "write"]
  <2>1. Shared'
    BY <1>1, <1>3, FixedTypes, WriteTypes
       DEF OpenFile, WriteHere, FileName, Derived, Shared, TypeInv, TypeOK
  <2>2. p \in Process
    BY ActorTypes DEF Process
  <2>3. Shaped(a, p)
    BY <1>3, ActorTypes DEF OpenFile, At, Shaped, Process, Rewrites
  <2>4. act' = [act EXCEPT ![a] = p]
    BY <1>3 DEF OpenFile, Goto
  <2> HIDE DEF p
  <2> QED BY <2>1, <2>2, <2>3, <2>4, OneActor
<1>4. CASE WriteFile(a)
  <2> DEFINE p == [act[a] EXCEPT !.pc = "record", !.content = None]
  <2>1. Shared'
    BY <1>1, <1>4, WriteTypes
       DEF WriteFile, WriteHere, FileName, Derived, Content, Shared, TypeInv, TypeOK
  <2>2. p \in Process
    BY ActorTypes DEF Process
  <2>3. Shaped(a, p)
    BY <1>4, ActorTypes DEF WriteFile, At, Shaped, Process, Rewrites
  <2>4. act' = [act EXCEPT ![a] = p]
    BY <1>4 DEF WriteFile
  <2> HIDE DEF p
  <2> QED BY <2>1, <2>2, <2>3, <2>4, OneActor
<1> QED BY <1>2, <1>3, <1>4

\* What is recorded of a file that was rewritten, and what follows.
After(a) == IF act[a].kind # "run" THEN "serve"
            ELSE IF act[a].file = "edited" THEN "project" ELSE "compute"
Recorded(a) ==
    [act[a] EXCEPT !.source = None, !.entries = NoEntries, !.file = "edited", !.pc = After(a)]
NewEntry(a) == [source |-> act[a].source, sha |-> Here(a)[act[a].file]]

\* The record that is written is one, with a new entry.
LEMMA WriteRecordIs ==
    ASSUME TypeInv, NEW a \in Actor, WriteRecord(a), Here(a)[act[a].file] # None
    PROVE  /\ NewEntry(a) \in Entry
           /\ [act[a].entries EXCEPT ![act[a].file] = NewEntry(a)] \in Record
           /\ store' = [store EXCEPT ![act[a].disk]["record"] =
                            [act[a].entries EXCEPT ![act[a].file] = NewEntry(a)]]
           /\ act' = [act EXCEPT ![a] = Recorded(a)]
           /\ Recorded(a) \in Process /\ Shaped(a, Recorded(a))
<1>1. /\ act[a].pc = "record" /\ act[a].disk \in Place /\ Here(a) \in Files
      /\ act[a].file \in Derived /\ act[a].source \in Source /\ act[a].entries \in Record
  BY FixedTypes, ActorTypes DEF WriteRecord, At, Shaped, Process, Rewrites
<1>3. NewEntry(a) \in Entry
  BY <1>1 DEF NewEntry, Entry, Files, Derived
<1>4. [act[a].entries EXCEPT ![act[a].file] = NewEntry(a)] \in Record
  BY <1>1, <1>3 DEF Record
<1>5. Recorded(a) \in Process
  <2>1. After(a) \in {"serve", "project", "compute"}
    BY DEF After
  <2>2. "edited" \in Derived /\ None \in Source \cup {None} /\ NoEntries \in Record
    BY FixedTypes DEF Derived
  <2>3. act[a] \in Process
    BY ActorTypes
  <2> QED BY <2>1, <2>2, <2>3 DEF Recorded, Process
<1>6. Shaped(a, Recorded(a))
  BY <1>1, ActorTypes DEF Recorded, After, Shaped, Process, Rewrites
<1>7. /\ store' = [store EXCEPT ![act[a].disk]["record"] =
                            [act[a].entries EXCEPT ![act[a].file] = NewEntry(a)]]
      /\ act' = [act EXCEPT ![a] = Recorded(a)]
  BY DEF WriteRecord, WriteHere, NewEntry, Recorded, After, TypeInv, TypeOK, Process
<1> QED BY <1>3, <1>4, <1>5, <1>6, <1>7

\* Writing the record keeps the types.
LEMMA WriteRecordTypes ==
    ASSUME TypeInv, NEW a \in Actor, WriteRecord(a)
    PROVE  TypeInv'
<1>1. /\ act[a].disk \in Place /\ UNCHANGED <<row, tasks, message, requests, crashes>>
  BY FixedTypes, ActorTypes DEF WriteRecord, At
<1>2. CASE Done(a) /\ UNCHANGED store
  <2>1. Shared'
    BY <1>1, <1>2 DEF Shared, TypeInv, TypeOK
  <2> QED BY <1>2, <2>1, DoneTypes
<1>3. CASE Here(a)[act[a].file] # None
  <2>1. Shared'
    BY <1>1, <1>3, WriteRecordIs, WriteTypes
       DEF FileName, Derived, Shared, TypeInv, TypeOK
  <2> QED BY <1>3, <2>1, WriteRecordIs, OneActor
<1> QED BY <1>2, <1>3 DEF WriteRecord

\* The steps of a request keep the types,
LEMMA RequestTypes ==
    ASSUME TypeInv, NEW h \in Handler, RequestStep(h)
    PROVE  TypeInv'
<1>1. h \in Actor /\ h \notin Worker
  BY StreetAssumption DEF Actor
<1>2. ASSUME NEW pc \in {"check", "pull", "queue", "wipe"},
             NEW kind \in {"page", "submit", "delete"},
             Load(h, pc, kind), Shared'
      PROVE  TypeInv'
  <2>1. PICK d \in WebDisk :
          act' = [act EXCEPT ![h] = [Idle EXCEPT !.pc = pc, !.kind = kind, !.disk = d,
                                                 !.job = row.job]]
    BY <1>2 DEF Load
  <2> DEFINE p == [Idle EXCEPT !.pc = pc, !.kind = kind, !.disk = d, !.job = row.job]
  <2>2. p \in Process
    BY FixedTypes DEF TypeInv, TypeOK, Row, Process
  <2>3. Shaped(h, p)
    BY <1>1, FixedTypes DEF Shaped, Process, Rewrites
  <2>4. act' = [act EXCEPT ![h] = p]
    BY <2>1
  <2> HIDE DEF p
  <2> QED BY <1>1, <1>2, <2>2, <2>3, <2>4, OneActor
<1>3. ASSUME Request PROVE Shared'
  BY <1>3, StreetAssumption DEF Request, Shared, TypeInv, TypeOK
<1>4. CASE OpenPage(h) \/ StartSubmit(h) \/ StartDelete(h)
  BY <1>2, <1>3, <1>4 DEF OpenPage, StartSubmit, StartDelete
<1>5. CASE StartEdit(h)
  <2>1. PICK i \in Intent, d \in WebDisk :
          act' = [act EXCEPT ![h] = [Idle EXCEPT !.pc = "edit", !.kind = "edit",
                              !.disk = d, !.job = [row.job EXCEPT !.intent = i]]]
    BY <1>5 DEF StartEdit
  <2> DEFINE job == [row.job EXCEPT !.intent = i]
             p == [Idle EXCEPT !.pc = "edit", !.kind = "edit", !.disk = d, !.job = job]
  <2>2. job \in Job
    BY DEF TypeInv, TypeOK, Row, Job
  <2> HIDE DEF job
  <2>3. p \in Process
    BY <2>2, FixedTypes DEF Process
  <2>4. Shaped(h, p)
    BY <1>1, FixedTypes DEF Shaped, Process, Rewrites
  <2>5. act' = [act EXCEPT ![h] = p]
    BY <2>1 DEF job
  <2> HIDE DEF p
  <2> QED BY <1>1, <1>3, <1>5, <2>3, <2>4, <2>5, OneActor DEF StartEdit
<1>6. CASE \/ ApplyEdits(h) \/ ServePage(h) \/ MarkQueued(h) \/ SaveAndEnqueue(h)
           \/ WipeFiles(h) \/ ClearRow(h)
  <2>1. act[h].pc \in {"edit", "serve", "queue", "save", "wipe", "clear"} /\ act[h].disk \in Place
    BY <1>1, <1>6, FixedTypes, ActorTypes
       DEF At, ApplyEdits, ServePage, MarkQueued, SaveAndEnqueue, WipeFiles, ClearRow
  <2>2. Shared'
    <3>1. row' \in Row
      <4>1. CASE ClearRow(h)
        <5>1. \A n \in Net : [NoJob EXCEPT !.upload = n] \in Job
          BY FixedTypes DEF Job, NetOrNone
        <5> QED BY <4>1, <5>1, FixedTypes DEF ClearRow, TypeInv, TypeOK, Row
      <4>2. CASE ~ClearRow(h)
        BY <1>1, <1>6, <4>2, ActorTypes
           DEF ApplyEdits, ServePage, MarkQueued, SaveAndEnqueue, WipeFiles,
               TypeInv, TypeOK, Row, Job
      <4> QED BY <4>1, <4>2
    <3>2. store' \in [Place -> Files]
      BY <1>6, <2>1, FixedTypes
         DEF ApplyEdits, ServePage, MarkQueued, SaveAndEnqueue, WipeFiles, ClearRow,
             TypeInv, TypeOK
    <3>3. /\ tasks' \in [Net -> {"unused", "begun", "stored", "over"}]
          /\ message' \in {"none", "waits"} /\ UNCHANGED <<requests, crashes>>
      BY <1>6
         DEF ApplyEdits, ServePage, MarkQueued, SaveAndEnqueue, WipeFiles, ClearRow,
             TypeInv, TypeOK
    <3> QED BY <3>1, <3>2, <3>3 DEF Shared, TypeInv, TypeOK
  <2>3. Done(h) \/ \E pc \in {"fetch", "pull", "clear"} : Goto(h, pc)
    BY <1>6 DEF ApplyEdits, ServePage, MarkQueued, SaveAndEnqueue, WipeFiles, ClearRow
  <2> QED BY <1>1, <2>1, <2>2, <2>3, DoneTypes, GotoTypes DEF At, Rewrites
<1> QED BY <1>4, <1>5, <1>6 DEF RequestStep

\* those of a run,
LEMMA RunTypes ==
    ASSUME TypeInv, NEW w \in Worker, StartRun(w) \/ Project(w) \/ ComputeRoute(w)
    PROVE  TypeInv'
<1>1. w \in Actor /\ w \notin Handler
  BY StreetAssumption DEF Actor
<1>2. Shared'
  BY DEF StartRun, Project, ComputeRoute, Shared, TypeInv, TypeOK
<1>3. CASE StartRun(w)
  <2> DEFINE p == [Idle EXCEPT !.pc = "pull", !.kind = "run", !.disk = WorkerDisk,
                               !.owner = "yes"]
  <2>1. p \in Process
    BY FixedTypes DEF Process
  <2>2. Shaped(w, p)
    BY <1>1, FixedTypes DEF Shaped, Process, Rewrites
  <2>3. act' = [act EXCEPT ![w] = p] \/ act' = act
    BY <1>3 DEF StartRun
  <2>4. CASE act' = act
    BY <1>2, <2>4 DEF TypeInv, TypeOK, Shared, Shaped
  <2> HIDE DEF p
  <2> QED BY <1>1, <1>2, <2>1, <2>2, <2>3, <2>4, OneActor
<1>4. CASE Project(w)
  <2> DEFINE entry == EntriesHere(w)["edited"]
             p == [act[w] EXCEPT !.pc = "drop", !.file = "projected",
                                 !.source = entry.source, !.content = Here(w).edited]
  <2>1. \/ Done(w)
        \/ Goto(w, "compute")
        \/ /\ entry # None /\ Here(w).edited \notin {None, Torn}
           /\ act' = [act EXCEPT ![w] = p]
    BY <1>4 DEF Project
  <2>2. CASE Done(w)
    BY <1>1, <1>2, <2>2, DoneTypes
  <2>3. CASE Goto(w, "compute")
    BY <1>1, <1>2, <1>4, <2>3, GotoTypes DEF Project, At, Rewrites
  <2>4. CASE /\ entry # None /\ Here(w).edited \notin {None, Torn}
             /\ act' = [act EXCEPT ![w] = p]
    <3>1. Here(w) \in Files /\ EntriesHere(w) \in Record /\ act[w].pc = "project"
      BY <1>1, <1>4, ActorTypes DEF Project, At
    <3>2. entry.source \in Source /\ Here(w).edited \in Source
      BY <2>4, <3>1 DEF Record, Entry, Derived, Files, Content
    <3> HIDE DEF entry
    <3>3. p \in Process
      BY <1>1, <3>2, ActorTypes DEF Process, Derived
    <3>4. Shaped(w, p)
      BY <1>1, <3>1, <3>2, ActorTypes DEF Shaped, Process, Rewrites
    <3> HIDE DEF p
    <3> QED BY <1>1, <1>2, <2>4, <3>3, <3>4, OneActor
  <2> QED BY <2>1, <2>2, <2>3, <2>4
<1>5. CASE ComputeRoute(w)
  <2> DEFINE p == [Idle EXCEPT !.pc = "push", !.kind = "run", !.disk = WorkerDisk]
  <2>1. p \in Process
    BY FixedTypes DEF Process
  <2>2. Shaped(w, p)
    BY <1>1, FixedTypes DEF Shaped, Process, Rewrites
  <2>3. act' = [act EXCEPT ![w] = p] \/ Done(w)
    BY <1>5 DEF ComputeRoute
  <2> HIDE DEF p
  <2> QED BY <1>1, <1>2, <2>1, <2>2, <2>3, OneActor, DoneTypes
<1> QED BY <1>3, <1>4, <1>5

\* those of the upload task and of the end of a run.
LEMMA RestTypes ==
    ASSUME TypeInv,
           RunIsOver \/ (\E n \in Net : StoreNetwork(n) \/ NameNetwork(n)) \/ UNCHANGED vars
    PROVE  TypeInv'
<1>1. CASE RunIsOver
  <2>1. TypeOK'
    <3>1. \A a \in Actor : [act[a] EXCEPT !.owner = "no"] \in Process
      BY ActorTypes DEF Process
    <3> QED BY <1>1, <3>1 DEF RunIsOver, TypeInv, TypeOK, Row
  <2>2. ASSUME NEW a \in Actor PROVE Shaped(a, act[a])'
    <3>1. act'[a] = [act[a] EXCEPT !.owner = "no"]
      BY <1>1 DEF RunIsOver
    <3> QED BY <3>1, ActorTypes DEF Shaped, Process
  <2> QED BY <2>1, <2>2 DEF TypeInv
<1>2. ASSUME NEW n \in Net, StoreNetwork(n)
      PROVE  TypeInv'
  <2> DEFINE files == [f \in FileName |->
                         IF f = "net" THEN n
                         ELSE IF store[Remote][f] = None THEN store[WorkerDisk][f]
                         ELSE store[Remote][f]]
  <2>1. store[Remote] \in Files /\ store[WorkerDisk] \in Files
    BY FixedTypes DEF TypeInv, TypeOK
  <2>2. files \in Files
    BY <2>1 DEF Files, FileName, Derived, NetOrNone
  <2>3. store' = [store EXCEPT ![WorkerDisk] = files, ![Remote] = files]
    BY <1>2 DEF StoreNetwork
  <2> HIDE DEF files
  <2> QED BY <1>2, <2>2, <2>3 DEF StoreNetwork, TypeInv, TypeOK, Shaped
<1>3. ASSUME NEW n \in Net, NameNetwork(n)
      PROVE  TypeInv'
  <2>1. row' \in Row
    BY <1>3 DEF NameNetwork, TypeInv, TypeOK, Row, Job, NetOrNone
  <2> QED BY <1>3, <2>1 DEF NameNetwork, TypeInv, TypeOK, Shaped
<1>4. CASE UNCHANGED vars
  BY <1>4 DEF vars, TypeInv, TypeOK, Shaped
<1> QED BY <1>1, <1>2, <1>3, <1>4

\* The types hold at first.
LEMMA TypeInit == Init => TypeInv
<1> SUFFICES ASSUME Init PROVE TypeInv
  OBVIOUS
<1>1. TypeOK
  BY FixedTypes, StreetAssumption DEF Init, TypeOK, Row
<1>2. \A a \in Actor : Shaped(a, act[a])
  BY FixedTypes DEF Init, Shaped, Rewrites
<1> QED BY <1>1, <1>2 DEF TypeInv

\* A process that is killed leaves the types.
LEMMA KilledTypes ==
    ASSUME TypeInv, NEW a \in Actor, Killed(a)
    PROVE  TypeInv'
<1>1. Shared'
  BY StreetAssumption DEF Killed, Crash, Shared, TypeInv, TypeOK
<1> QED BY <1>1, DoneTypes DEF Killed, Crash

\* Every step keeps the types.
LEMMA TypeStep == TypeInv /\ [Next]_vars => TypeInv'
<1> SUFFICES ASSUME TypeInv, [Next]_vars PROVE TypeInv'
  OBVIOUS
<1>1. ASSUME NEW a \in Actor, Rewriting(a)
      PROVE  TypeInv'
  BY <1>1, FetchTypes, WritingTypes, WriteRecordTypes DEF Rewriting
<1> QED BY <1>1, PullTypes, PushTypes, KilledTypes, RequestTypes, RunTypes, RestTypes DEF Next

\* The types, for any numbers of requests and workers on any disks; behind them,
\* a rewriting has a source, and something to write until it is written.
THEOREM TypeCorrect == Spec => []TypeOK
<1>1. TypeInv => TypeOK
  BY DEF TypeInv
<1> QED BY TypeInit, TypeStep, <1>1, PTL DEF Spec

============================================================================
