------------------------------ MODULE RobotRuns ------------------------------
(***************************************************************************)
(* What the run manager promises to the dashboard, the API and the         *)
(* executive about the runs of one robot (docs/run_manager.md, "What       *)
(* changed"), with no locks, registry or threads: every run goes through   *)
(* its states once, at most one run is active, and a cancel is final.      *)
(* RunManager is shown to implement this specification.                    *)
(***************************************************************************)
CONSTANT Run

VARIABLE phase

Phase == {"none", "running", "paused", "cancelling", "done", "failed"}

\* ACTIVE_STATES of run_manager.py.
ActivePhase == {"running", "paused", "cancelling"}

Init == phase = [r \in Run |-> "none"]

Become(r, p) == phase' = [phase EXCEPT ![r] = p]

Start(r) ==
    /\ phase[r] = "none"
    /\ \A q \in Run : phase[q] \notin ActivePhase
    /\ Become(r, "running")

Pause(r) == phase[r] = "running" /\ Become(r, "paused")

Resume(r) == phase[r] = "paused" /\ Become(r, "running")

Cancel(r) == phase[r] \in {"running", "paused"} /\ Become(r, "cancelling")

End(r) == phase[r] \in ActivePhase /\ Become(r, "done")

\* A run that was asked to stop never ends as failed: its outcome is "aborted".
Fail(r) == phase[r] \in {"running", "paused"} /\ Become(r, "failed")

Next ==
    \E r \in Run :
        Start(r) \/ Pause(r) \/ Resume(r) \/ Cancel(r) \/ End(r) \/ Fail(r)

Spec == Init /\ [][Next]_phase
==============================================================================
