-------------------------- MODULE MembershipColumn --------------------------
(***************************************************************************)
(* What the membership_upload column promises the pages and the runs that  *)
(* read it, whatever requests, tasks, polls, retries and crashes do        *)
(* (docs/knowledge/concepts/cosmonaut-job.md, "street_processing is        *)
(* overloaded on purpose"):                                                *)
(*   - the column describes one upload at a time: a task at work is the    *)
(*     task of the file that is named;                                     *)
(*   - a task owns the column once: an upload that ended, or was replaced  *)
(*     or deleted, never comes back to work;                               *)
(*   - only the task that owns the column completes it, and then the       *)
(*     download is named; nothing that is late ends another upload;        *)
(*   - a submit saves the column as it loaded it, so a state that was held *)
(*     may come back, and with it a task id whose task is over: only such  *)
(*     an upload is ever completed without a checksum, and then a page     *)
(*     that notices names the stored download.                             *)
(* UploadPipeline is shown to implement this specification.                *)
(***************************************************************************)
CONSTANTS
    Upload,  \* uploads, by task id
    None     \* no file, no checksum

VARIABLES
    file,   \* the upload whose file is named
    sp,     \* street_processing: a state, or the id of the task at work
    sha,    \* the download that is named
    spent,  \* uploads that will not start any more: their task had its turn
    held,   \* states of the column that requests in flight have loaded
    revived \* uploads whose task id was put back

vars == <<file, sp, sha, spent, held, revived>>

Init ==
    /\ file = None
    /\ sp = "PENDING"
    /\ sha = None
    /\ spent = {}
    /\ held = {}
    /\ revived = {}

Saves == <<held, revived>>
Column(f, s) == file' = f /\ sp' = s /\ sha' = None

\* The file is there, its task is not.
Save(u) ==
    /\ u \notin spent
    /\ Column(u, "PENDING")
    /\ UNCHANGED <<spent, Saves>>

Own(u) ==
    /\ u \notin spent
    /\ Column(u, u)
    /\ spent' = spent \cup {u}
    /\ UNCHANGED Saves

\* A request that fails or is killed before its task was to start.
Abandon(u) ==
    /\ spent' = spent \cup {u}
    /\ UNCHANGED <<file, sp, sha, Saves>>

\* The task was drawn and could not be sent.
Refuse(u) ==
    /\ u \in spent
    /\ Column(u, "FAILED")
    /\ UNCHANGED <<spent, Saves>>

Complete ==
    /\ sp \in Upload
    /\ sp' = "COMPLETED"
    /\ sha' \in Upload
    /\ UNCHANGED <<file, spent, Saves>>

Fail ==
    /\ sp \in Upload
    /\ sp' = "FAILED"
    /\ UNCHANGED <<file, sha, spent, Saves>>

Delete ==
    /\ Column(None, "PENDING")
    /\ UNCHANGED <<spent, Saves>>

\* A request loads the column, or lets go of what it has loaded.
Hold ==
    /\ held' = held \cup {[file |-> file, sp |-> sp, sha |-> sha]}
    /\ UNCHANGED <<file, sp, sha, spent, revived>>

LetGo ==
    /\ held' \subseteq held
    /\ UNCHANGED <<file, sp, sha, spent, revived>>

PutBack(c) ==
    /\ file' = c.file /\ sp' = c.sp /\ sha' = c.sha
    /\ revived' = revived \cup ({c.sp} \cap (Upload \ {sp}))
    /\ held' \subseteq held
    /\ UNCHANGED spent

\* A poll finds the task of an upload that was put back over.
CompleteUnnamed ==
    /\ sp \in revived
    /\ sp' = "COMPLETED"
    /\ UNCHANGED <<file, sha, spent, Saves>>

Adopt(c) ==
    /\ c.sp = "COMPLETED" /\ c.sha = None
    /\ file' = c.file /\ sp' = c.sp /\ sha' \in Upload
    /\ held' \subseteq held
    /\ UNCHANGED <<spent, revived>>

Next ==
    \/ \E u \in Upload : Save(u) \/ Own(u) \/ Abandon(u) \/ Refuse(u)
    \/ Complete \/ Fail \/ Delete \/ Hold \/ LetGo \/ CompleteUnnamed
    \/ \E c \in held : PutBack(c) \/ Adopt(c)

Spec == Init /\ [][Next]_vars
=============================================================================
