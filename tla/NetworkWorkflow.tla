--------------------------- MODULE NetworkWorkflow ---------------------------
(***************************************************************************)
(* From an upload to the road network a run will use: the download of the  *)
(* upload task (OsmDownload) and the edits of the street selection page    *)
(* (StreetEdits), joined by the job's row and the download file.           *)
(*                                                                         *)
(* An upload forgets the network and its edits in the row, its task        *)
(* downloads another one, and the end of the task puts that into the row;  *)
(* tabs opened before edit on all the while, and a submit that had loaded  *)
(* the row before may put the earlier upload back.                         *)
(***************************************************************************)
EXTENDS OsmDownload, StreetEdits

dlVars == <<area, tmp, final, proc, uploads>>
edVars == <<row, network, tab, calls, submits, clicks, settled, calm>>
vars == <<dlVars, edVars>>

TypeOK == DlTypeOK /\ EdTypeOK

Init == DlInit /\ EdInit

-----------------------------------------------------------------------------
\* data_upload's _handle_membership_upload: delete_membership, then the task.
Upload(w) == StartUpload(w) /\ ForgetNetwork(uploads + 1)

Download(w) ==
    /\ DownloadStep(w)
    /\ UNCHANGED edVars

\* Mutant: the task reads what was to be edited.
DownloadOfTheTask == final["edited"].roads

\* The network the row's checksum stands for is the download's.
NamedByTheRow == final["download"].roads

\* process_upload_task, after the download: COMPLETED with the checksum of the
\* download file, or FAILED; or get_street_processing_status, when a submit's save
\* has put the task's id back.
EndTask(w) ==
    /\ \/ proc[w].pc = "done" /\ EndUpload(uploads, "COMPLETED", NamedByTheRow)
       \/ proc[w].pc \in {"failed", "killed"} /\ EndUpload(uploads, "FAILED", network)
    /\ UNCHANGED dlVars

\* A poll of an earlier upload's task, which a submit's save has put back over
\* the last one: it has ended, or was revoked.
EndEarlierTask ==
    /\ \E upload \in 0..(uploads - 1), sp \in {"COMPLETED", "FAILED"} :
        EndUpload(upload, sp, network)
    /\ UNCHANGED dlVars

\* Bound: nobody opens the street page before the first upload.
OnStreetPage ==
    /\ uploads > 0
    /\ EditStep
    /\ UNCHANGED dlVars

Next ==
    \/ \E w \in Writer : Upload(w) \/ Download(w) \/ EndTask(w)
    \/ EndEarlierTask
    \/ OnStreetPage

Spec == Init /\ [][Next]_vars
-----------------------------------------------------------------------------
(* Properties; those of the parts are in OsmDownload and StreetEdits. *)

\* The page offers every road of the polygon, also those the default filters
\* leave out: with all filters on and nothing removed the network is the whole
\* answer of the server.  (The upload writes the filtered network next to it,
\* and both are "the" network of an unedited job.  A row in which a submit has put
\* an earlier upload back names another download.)
NothingIsOutOfReach ==
    row.sp = "COMPLETED" /\ row.of = uploads =>
        DOMAIN Derive(network, [NoEdits EXCEPT !.grades = Buckets])
            = {id \in DOMAIN Features(Osm, area) : Osm[id].highway \in Highway}
=============================================================================
