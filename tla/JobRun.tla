------------------------------- MODULE JobRun -------------------------------
(***************************************************************************)
(* What the job row promises its readers about the runs of one job,        *)
(* whatever tabs, messages and workers do (background-tasks.md, "Status    *)
(* lives in the job row"):                                                 *)
(*   - every won submit opens one attempt;                                 *)
(*   - one worker at most claims an attempt, and only a claimed attempt    *)
(*     completes;                                                          *)
(*   - an attempt that is over never comes back to life;                   *)
(*   - at most one end mail leaves for an attempt, and none for an attempt *)
(*     its own run did not end.                                            *)
(* RunLifecycle is shown to implement this specification.                  *)
(***************************************************************************)
EXTENDS Naturals, Sequences

VARIABLES
    status,    \* the status the row shows
    attempt,   \* how many attempts were opened so far
    claimed,   \* whether a worker claimed the current attempt
    ended,     \* the attempts whose own run wrote the final status
    mailed     \* the attempts an end mail was sent for, in order

vars == <<status, attempt, claimed, ended, mailed>>

Status == {"PENDING", "RUNNING", "COMPLETED", "FAILED"}

Init ==
    /\ status = "PENDING"
    /\ attempt = 0
    /\ claimed = FALSE
    /\ ended = {}
    /\ mailed = <<>>

Open ==
    /\ status \in {"PENDING", "FAILED"}
    /\ status' = "RUNNING"
    /\ attempt' = attempt + 1
    /\ claimed' = FALSE
    /\ UNCHANGED <<ended, mailed>>

Claim ==
    /\ status = "RUNNING"
    /\ ~claimed
    /\ claimed' = TRUE
    /\ UNCHANGED <<status, attempt, ended, mailed>>

\* The run that claimed the attempt ends it, either way.
End ==
    /\ status = "RUNNING"
    /\ claimed
    /\ status' \in {"COMPLETED", "FAILED"}
    /\ ended' = ended \cup {attempt}
    /\ UNCHANGED <<attempt, claimed, mailed>>

\* A cancel, a failed start or the sweep of a lost run.
Abort ==
    /\ status = "RUNNING"
    /\ status' = "FAILED"
    /\ UNCHANGED <<attempt, claimed, ended, mailed>>

Reset ==
    /\ status # "RUNNING"
    /\ status' = "PENDING"
    /\ claimed' = FALSE
    /\ UNCHANGED <<attempt, ended, mailed>>

Mail ==
    \E a \in ended :
        /\ \A i \in DOMAIN mailed : mailed[i] # a
        /\ mailed' = Append(mailed, a)
        /\ UNCHANGED <<status, attempt, claimed, ended>>

Next == Open \/ Claim \/ End \/ Abort \/ Reset \/ Mail

Spec == Init /\ [][Next]_vars
=============================================================================
