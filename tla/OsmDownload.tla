----------------------------- MODULE OsmDownload -----------------------------
(***************************************************************************)
(* The OSM download of the upload task: ways are streamed from the         *)
(* Overpass server (osm/source.py), turned into features, and written one  *)
(* at a time to three files (osm/downloader.py), each through a temporary  *)
(* file that is renamed into place when the download has ended well        *)
(* (osm/geojson_writer.py).                                                *)
(*                                                                         *)
(* The server may refuse, break off, or give up half way and say so only   *)
(* at the very end of an answer with status 200; the worker may be killed  *)
(* between any two steps.  A file handle stays with its file when the file *)
(* is renamed, so two downloads into one work dir would meet in the        *)
(* temporary files.                                                        *)
(***************************************************************************)
EXTENDS RoadNetwork

CONSTANTS
    Writer,      \* upload tasks that may be at work on the job's work dir
    Osm,         \* the ways the server knows: id -> way
    Areas,       \* the nodes inside the polygon of an upload
    MaxRetries,  \* UPLOAD_MAX_RETRIES
    MaxUploads   \* bound: uploads

ASSUME OsmDownloadAssumption ==
    /\ DOMAIN Osm \subseteq Road /\ IsFiniteSet(DOMAIN Osm)
    /\ \A id \in DOMAIN Osm : IsRoad(Osm[id])
    /\ Areas \subseteq SUBSET Node
    /\ MaxRetries \in Nat /\ MaxUploads \in Nat

VARIABLES
    area,    \* the polygon of the last upload
    tmp,     \* file -> what <path>.tmp holds
    final,   \* file -> what <path> holds
    proc,    \* writer -> the task and its download
    uploads  \* uploads so far (bound)

\* In the order run_osm_query opens them; they are closed in reverse.
Files == <<"download", "edited", "transformed">>
File == Range(Files)

NoFile == [by |-> "nobody", roads |-> <<>>, end |-> "absent"]
Over == {"idle", "done", "failed", "killed"}

DlTypeOK ==
    /\ area \in Areas
    /\ \A f \in File : \A c \in {tmp[f], final[f]} :
        /\ c.by \in Writer \cup {"nobody"}
        /\ DOMAIN c.roads \subseteq DOMAIN Osm
        /\ c.end \in {"absent", "open", "closed", "torn"}
    /\ \A w \in Writer :
        /\ proc[w].pc \in Over \cup {"open", "query", "stream", "close", "abandon"}
        /\ proc[w].left \subseteq DOMAIN Osm
        /\ proc[w].error \in {"none", "retry", "fail"}
        /\ proc[w].hold \in [File -> {"none", "tmp", "final", "lost"}]
        /\ proc[w].tries \in 0..MaxRetries
    /\ uploads \in 0..MaxUploads

Closed == [f \in File |-> "none"]
Idle == [pc |-> "idle", left |-> {}, error |-> "none", hold |-> Closed, tries |-> 0]

DlInit ==
    /\ area \in Areas
    /\ tmp = [f \in File |-> NoFile]
    /\ final = [f \in File |-> NoFile]
    /\ proc = [w \in Writer |-> Idle]
    /\ uploads = 0

-----------------------------------------------------------------------------
(* Files *)

\* Features are appended; ids are unique in an answer.
Joined(new, old) ==
    [id \in DOMAIN new \cup DOMAIN old |-> IF id \in DOMAIN new THEN new[id] ELSE old[id]]

\* What w writes into, if its handle still has a name.
Add(w, c, roads, end) ==
    [c EXCEPT !.roads = Joined(roads, @),
              !.end = IF c.by = w /\ @ = "open" THEN end ELSE "torn"]

WriteTo(w, fs, roads, end) ==
    /\ tmp' = [f \in File |-> IF f \in fs /\ proc[w].hold[f] = "tmp"
                              THEN Add(w, tmp[f], roads, end) ELSE tmp[f]]
    /\ final' = [f \in File |-> IF f \in fs /\ proc[w].hold[f] = "final"
                                THEN Add(w, final[f], roads, end) ELSE final[f]]

\* The other writers' handles on the temporary file of f follow a rename, and
\* those on a file that is replaced or removed hold on to a nameless one.
Moved(hold, f, renamed) ==
    [hold EXCEPT ![f] = CASE @ = "tmp" -> (IF renamed THEN "final" ELSE "lost")
                          [] @ = "final" /\ renamed -> "lost"
                          [] OTHER -> @]

Step(w, pc) == proc' = [proc EXCEPT ![w].pc = pc]
Abandon(w, error) == proc' = [proc EXCEPT ![w].pc = "abandon", ![w].error = error]
At(w, pc) == proc[w].pc = pc

-----------------------------------------------------------------------------
(* One download *)

\* delete_membership removes what an earlier upload has left, and the task of
\* this upload is started.
StartUpload(w) ==
    /\ proc[w].pc \in Over
    /\ uploads < MaxUploads
    /\ uploads' = uploads + 1
    /\ area' \in Areas
    /\ final' = [f \in File |-> NoFile]
    /\ proc' = [v \in Writer |->
                 IF v = w THEN [Idle EXCEPT !.pc = "open"]
                 ELSE [proc[v] EXCEPT !.hold = [f \in File |->
                        IF @[f] = "final" THEN "lost" ELSE @[f]]]]
    /\ UNCHANGED tmp

\* StreamingGeoJsonWriter.__init__ truncates the temporary file it finds.
OpenWriter(w) ==
    /\ At(w, "open")
    /\ \E i \in 1..Len(Files) :
        LET f == Files[i] IN
        /\ proc[w].hold[f] = "none"
        /\ \A j \in 1..(i - 1) : proc[w].hold[Files[j]] # "none"
        /\ tmp' = [tmp EXCEPT ![f] = [by |-> w, roads |-> <<>>, end |-> "open"]]
        /\ proc' = [proc EXCEPT ![w].hold[f] = "tmp",
                                ![w].pc = IF i = Len(Files) THEN "query" ELSE @]
    /\ UNCHANGED <<area, final, uploads>>

\* The query, sent when the first way is asked for.  Refused is a connection
\* error, a timeout or a status the task retries on, or any other status.
Query(w) ==
    /\ At(w, "query")
    /\ \/ \E error \in {"retry", "fail"} : Abandon(w, error)
       \/ proc' = [proc EXCEPT ![w].pc = "stream", ![w].left = DOMAIN Osm]
    /\ UNCHANGED <<area, tmp, final, uploads>>

\* The files way id goes to: the tracks of other grades to the download only.
FilesOf(id) ==
    IF TrackGradeAllowed(Osm[id], DefaultGrades) THEN File ELSE {"download"}

\* run_osm_query's loop: one way of the stream.
StreamWay(w) ==
    /\ At(w, "stream")
    /\ proc[w].left # {}
    /\ LET id == Min(proc[w].left)
           roads == Features(Restrict(Osm, {id}), area)
       IN /\ WriteTo(w, IF DOMAIN roads = {} THEN {} ELSE FilesOf(id), roads, "open")
          /\ proc' = [proc EXCEPT ![w].left = @ \ {id}]
    /\ UNCHANGED <<area, uploads>>

\* The connection breaks, or what has come is no JSON.
BreakOff(w) ==
    /\ At(w, "stream")
    /\ Abandon(w, "retry")
    /\ UNCHANGED <<area, tmp, final, uploads>>

\* Mutant: the end of the stream is not looked at.
IgnoreRemark(w, remark) == Step(w, "close")

\* _raise_on_runtime_error.
RaiseOnRuntimeError(w, remark) ==
    IF remark = "runtime error" THEN Abandon(w, "retry") ELSE Step(w, "close")

\* The stream ends: with all ways, or with those the server had when it gave up.
EndOfStream(w) ==
    /\ At(w, "stream")
    /\ \E remark \in {"none", "note", "runtime error"} :
        /\ remark \in {"none", "note"} => proc[w].left = {}
        /\ RaiseOnRuntimeError(w, remark)
    /\ UNCHANGED <<area, tmp, final, uploads>>

-----------------------------------------------------------------------------
(* __exit__ *)

\* The last of the files w holds open.
LastHeld(w) ==
    Files[Max({i \in 1..Len(Files) : proc[w].hold[Files[i]] # "none"})]

\* close: the file is ended and renamed, unless its name has gone.
CloseWriter(w) ==
    LET f == LastHeld(w)
        end(c) == Add(w, c, <<>>, "closed")
    IN /\ At(w, "close")
       /\ IF tmp[f] = NoFile
          THEN /\ WriteTo(w, {f}, <<>>, "closed")
               /\ proc' = [proc EXCEPT ![w].hold[f] = "none",
                                       ![w].pc = "abandon", ![w].error = "fail"]
          ELSE /\ final' = [final EXCEPT ![f] =
                              IF proc[w].hold[f] = "tmp" THEN end(tmp[f]) ELSE tmp[f]]
               /\ tmp' = [tmp EXCEPT ![f] = NoFile]
               /\ proc' = [v \in Writer |->
                    IF v = w
                    THEN [proc[w] EXCEPT !.hold[f] = "none",
                                         !.pc = IF f = Files[1] THEN "done" ELSE @]
                    ELSE [proc[v] EXCEPT !.hold = Moved(@, f, TRUE)]]
       /\ UNCHANGED <<area, uploads>>

\* close fails, the disk is full: this writer's temporary file stays.
FailClose(w) ==
    /\ At(w, "close")
    /\ proc' = [proc EXCEPT ![w].hold[LastHeld(w)] = "none",
                            ![w].pc = "abandon", ![w].error = "fail"]
    /\ UNCHANGED <<area, tmp, final, uploads>>

\* _discard removes the temporary file of that name, if there is one.
Discard(w, f) ==
    /\ tmp' = [tmp EXCEPT ![f] = NoFile]
    /\ UNCHANGED final

AbandonWriter(w) ==
    /\ At(w, "abandon")
    /\ proc[w].hold # Closed
    /\ LET f == LastHeld(w) IN
        /\ Discard(w, f)
        /\ proc' = [v \in Writer |->
             IF v = w THEN [proc[w] EXCEPT !.hold[f] = "none"]
             ELSE [proc[v] EXCEPT !.hold = Moved(@, f, FALSE)]]
    /\ UNCHANGED <<area, uploads>>

\* Mutant: the retries that were made are not counted.
RetryWithoutEnd(w) ==
    /\ At(w, "abandon")
    /\ proc[w].hold = Closed
    /\ IF proc[w].error = "retry"
       THEN proc' = [proc EXCEPT ![w] = [Idle EXCEPT !.pc = "open", !.tries = proc[w].tries + 1]]
       ELSE Step(w, "failed")
    /\ UNCHANGED <<area, tmp, final, uploads>>

\* _retry_or_fail, or the failure that is not retried.
EndAttempt(w) ==
    /\ At(w, "abandon")
    /\ proc[w].hold = Closed
    /\ IF proc[w].error = "retry" /\ proc[w].tries < MaxRetries
       THEN proc' = [proc EXCEPT ![w] = [Idle EXCEPT !.pc = "open", !.tries = proc[w].tries + 1]]
       ELSE Step(w, "failed")
    /\ UNCHANGED <<area, tmp, final, uploads>>

\* The worker process is killed, or the task revoked.
Kill(w) ==
    /\ proc[w].pc \notin Over
    /\ proc' = [proc EXCEPT ![w] = [Idle EXCEPT !.pc = "killed"]]
    /\ UNCHANGED <<area, tmp, final, uploads>>

DownloadStep(w) ==
    \/ OpenWriter(w) \/ Query(w) \/ StreamWay(w) \/ BreakOff(w) \/ EndOfStream(w)
    \/ CloseWriter(w) \/ FailClose(w) \/ AbandonWriter(w) \/ EndAttempt(w) \/ Kill(w)
-----------------------------------------------------------------------------
(* Properties *)

\* The whole answer of the server, in the file f.
Whole(f) ==
    LET roads == Features(Osm, area)
    IN IF f = "download" THEN roads ELSE FilterByGrades(roads, DefaultGrades)

\* Whatever fails or is killed, a file that has its final name is the whole
\* answer of the server for this upload: never a part of it, never a mix.
FinalFilesAreWhole ==
    \A f \in File : final[f] # NoFile => final[f].end = "closed" /\ final[f].roads = Whole(f)

\* The roads of the download end at most one node outside the polygon, keep
\* every node inside, and only a way with two inside nodes that two neighbouring
\* outside nodes part is left out (the docstring of _truncate_by_edge, for the
\* file the network is derived from).
BorderRoadsAreKept ==
    final["download"] # NoFile =>
        \A id \in DOMAIN Osm :
            LET nodes == Osm[id].nodes
                isIn(i) == nodes[i] \in area
                parted == \E i, j, k \in 1..Len(nodes) :
                            /\ i < j /\ j + 1 < k
                            /\ isIn(i) /\ ~isIn(j) /\ ~isIn(j + 1) /\ isIn(k)
                kept == final["download"].roads[id].nodes
            IN IF id \in DOMAIN final["download"].roads
               THEN /\ Range(nodes) \cap area = Range(kept) \cap area
                    /\ \A i \in 1..(Len(kept) - 1) : {kept[i], kept[i + 1]} \cap area # {}
                    /\ ~parted
               ELSE parted \/ Range(nodes) \cap area = {}
=============================================================================
