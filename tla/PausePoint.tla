----------------------------- MODULE PausePoint -----------------------------
(***************************************************************************)
(* One run between its executive and its clients: Run._pause_now,          *)
(* _resume_now, _cancel_now and wait_if_paused (interact/run_manager.py),  *)
(* RunManager.resume with its on_resume hook, and pause_point, the resume  *)
(* counter and mark_resumed (core/run_control.py).  The executive reads    *)
(* the run without its lock, so each of its reads is a step; the writers   *)
(* hold the lock, but the two Events that _cancel_now sets are visible one *)
(* after the other.                                                        *)
(***************************************************************************)
EXTENDS Integers, FiniteSets

CONSTANTS
    Client,    \* API threads
    MaxPauses, \* bound: pauses in one behaviour
    MaxTasks   \* bound: suspended tasks taken back in one behaviour

ASSUME BoundsAssumption == MaxPauses \in Nat /\ MaxTasks \in Nat

VARIABLES
    state,     \* Run._state: "running", "paused" or "cancelling"
    cancel,    \* Run._cancel is set
    resume,    \* Run._resume is set
    resumes,   \* run.resumes: on_resume hooks that ran
    seen,      \* run._resumes_seen: resumes the executive has reconciled
    call,      \* where each client's call stands
    pc,        \* where the executive stands
    wasPaused, \* pause_point's local was_paused
    heldAt,    \* history: `ended` when the executive blocked, -1: it did not
    fresh,     \* history: the belief was reconciled at this boundary
    pauses,    \* history: pauses so far
    ended,     \* history: pauses ended by a resume
    tasks      \* history: suspended tasks taken back

flags == <<state, cancel, resume>>
counts == <<resumes, seen>>
executive == <<pc, wasPaused, heldAt, fresh>>
history == <<pauses, ended, tasks>>
vars == <<flags, counts, call, executive, history>>

Init ==
    /\ state = "running" /\ cancel = FALSE /\ resume = TRUE
    /\ resumes = 0 /\ seen = 0
    /\ call = [c \in Client |-> "idle"]
    /\ pc = "top" /\ wasPaused = FALSE /\ heldAt = -1 /\ fresh = FALSE
    /\ pauses = 0 /\ ended = 0 /\ tasks = 0

\* Nobody is inside _cancel_now: the run's lock is free.
LockFree == \A c \in Client : call[c] # "cancelling"
Goto(c, at) == call' = [call EXCEPT ![c] = at]

-----------------------------------------------------------------------------
(* Clients.                                                                *)

Pause(c) ==
    /\ call[c] = "idle" /\ LockFree
    /\ state = "running"
    /\ pauses < MaxPauses
    /\ state' = "paused" /\ resume' = FALSE /\ pauses' = pauses + 1
    /\ UNCHANGED <<counts, call, executive, cancel, ended, tasks>>

\* RunManager.resume reads `paused` before it calls _control.
AskResume(c) ==
    /\ call[c] = "idle"
    /\ state # "cancelling"
    /\ Goto(c, IF state = "paused" THEN "resumePaused" ELSE "resumeRunning")
    /\ UNCHANGED <<flags, counts, executive, history>>

(***************************************************************************)
(* _resume_now: True when the run is running afterwards, also when another *)
(* resume was first.  The hook is called when the run was paused before.   *)
(***************************************************************************)
Resume(c) ==
    /\ call[c] \in {"resumePaused", "resumeRunning"} /\ LockFree
    /\ IF state = "paused"
       THEN state' = "running" /\ resume' = TRUE /\ ended' = ended + 1
       ELSE UNCHANGED <<state, resume, ended>>
    /\ Goto(c, IF call[c] = "resumePaused" /\ state # "cancelling"
               THEN "resumed" ELSE "idle")
    /\ UNCHANGED <<counts, executive, cancel, pauses, tasks>>

\* `run.state == RUNNING` is read again before the hooks: _on_run_resume counts.
ResumeHook(c) ==
    /\ call[c] = "resumed"
    /\ resumes' = IF state = "running" THEN resumes + 1 ELSE resumes
    /\ Goto(c, "idle")
    /\ UNCHANGED <<flags, seen, executive, history>>

\* Mutant: the executive is woken before it can see the cancel.
SetCancelWakesFirst(c) ==
    /\ call[c] = "idle" /\ LockFree
    /\ state # "cancelling"
    /\ resume' = TRUE
    /\ Goto(c, "cancelling")
    /\ UNCHANGED <<counts, executive, history, state, cancel>>

\* _cancel_now: `_cancel` first ...
SetCancel(c) ==
    /\ call[c] = "idle" /\ LockFree
    /\ state # "cancelling"
    /\ cancel' = TRUE
    /\ Goto(c, "cancelling")
    /\ UNCHANGED <<counts, executive, history, state, resume>>

\* Mutant: a paused executive is not woken.
SetCancellingOnly(c) ==
    /\ call[c] = "cancelling"
    /\ cancel' = TRUE /\ state' = "cancelling"
    /\ Goto(c, "idle")
    /\ UNCHANGED <<counts, executive, history, resume>>

\* ... then `_resume`, which wakes a paused executive, and the state.
SetCancelling(c) ==
    /\ call[c] = "cancelling"
    /\ cancel' = TRUE /\ resume' = TRUE /\ state' = "cancelling"
    /\ Goto(c, "idle")
    /\ UNCHANGED <<counts, executive, history>>

-----------------------------------------------------------------------------
(* The executive.                                                          *)

\* pause_point: was_paused is read, then wait_if_paused is called.
EnterPausePoint ==
    /\ pc = "top"
    /\ pc' = "wait"
    /\ wasPaused' = (state = "paused")
    /\ heldAt' = -1 /\ fresh' = FALSE
    /\ UNCHANGED <<flags, counts, call, history>>

Block ==
    /\ pc = "wait" /\ ~resume
    /\ pc' = "blocked" /\ heldAt' = ended
    /\ UNCHANGED <<flags, counts, call, history, wasPaused, fresh>>

Wake ==
    /\ pc \in {"wait", "blocked"} /\ resume
    /\ pc' = "woke"
    /\ UNCHANGED <<flags, counts, call, history, wasPaused, heldAt, fresh>>

\* The end of wait_if_paused: a cancelled run does not carry on.
CheckCancel ==
    /\ pc = "woke"
    /\ pc' = IF cancel THEN "over" ELSE "count"
    /\ UNCHANGED <<flags, counts, call, history, wasPaused, heldAt, fresh>>

\* Mutant: only the executive's own sight of the pause counts.
CountOwnPause ==
    /\ pc = "count"
    /\ pc' = "go"
    /\ IF wasPaused
       THEN seen' = (IF resumes > seen + 1 THEN resumes ELSE seen + 1) /\ fresh' = TRUE
       ELSE UNCHANGED <<seen, fresh>>
    /\ UNCHANGED <<flags, call, history, resumes, wasPaused, heldAt>>

(***************************************************************************)
(* The rest of pause_point: a resume that was not reconciled yet is, and a *)
(* hook that is still to come is counted as seen already.                  *)
(***************************************************************************)
CountResumes ==
    /\ pc = "count"
    /\ pc' = "go"
    /\ IF wasPaused \/ resumes > seen
       THEN /\ seen' = IF resumes > seen + 1 THEN resumes ELSE seen + 1
            /\ fresh' = TRUE
       ELSE UNCHANGED <<seen, fresh>>
    /\ UNCHANGED <<flags, call, history, resumes, wasPaused, heldAt>>

\* The loop's own cancel check, then the step.
BeginStep ==
    /\ pc = "go"
    /\ pc' = IF cancel THEN "over" ELSE "step"
    /\ UNCHANGED <<flags, counts, call, history, wasPaused, heldAt, fresh>>

EndStep ==
    /\ pc = "step"
    /\ pc' \in {"top", "over"}
    /\ UNCHANGED <<flags, counts, call, history, wasPaused, heldAt, fresh>>

\* RunManager.resume_task: the hook runs in the executive's own thread.
TakeTaskBack ==
    /\ pc = "step"
    /\ tasks < MaxTasks
    /\ pc' = "task" /\ resumes' = resumes + 1 /\ tasks' = tasks + 1
    /\ UNCHANGED <<flags, call, seen, wasPaused, heldAt, fresh, pauses, ended>>

\* The executive reconciles the belief itself, then mark_resumed.
MarkResumed ==
    /\ pc = "task"
    /\ pc' = "top" /\ seen' = resumes
    /\ UNCHANGED <<flags, call, history, resumes, wasPaused, heldAt, fresh>>

Boundary ==
    \/ EnterPausePoint \/ Block \/ Wake \/ CheckCancel \/ CountResumes \/ BeginStep

Next ==
    \/ \E c \in Client :
        \/ Pause(c) \/ AskResume(c) \/ Resume(c) \/ ResumeHook(c)
        \/ SetCancel(c) \/ SetCancelling(c)
    \/ Boundary \/ EndStep \/ TakeTaskBack \/ MarkResumed

(***************************************************************************)
(* A call that has begun ends, the executive runs, and a step ends (its    *)
(* skill has a timeout).  Nobody has to pause, resume or cancel.           *)
(***************************************************************************)
Fairness ==
    /\ WF_vars(Boundary \/ EndStep \/ MarkResumed)
    /\ \A c \in Client : WF_vars(Resume(c) \/ ResumeHook(c) \/ SetCancelling(c))

Spec == Init /\ [][Next]_vars
FairSpec == Spec /\ Fairness

-----------------------------------------------------------------------------
(* Properties.                                                             *)

TypeOK ==
    /\ state \in {"running", "paused", "cancelling"}
    /\ cancel \in BOOLEAN /\ resume \in BOOLEAN
    /\ resumes \in Nat /\ seen \in Nat
    /\ call \in [Client -> {"idle", "resumePaused", "resumeRunning",
                            "resumed", "cancelling"}]
    /\ pc \in {"top", "wait", "blocked", "woke", "count", "go", "step", "task", "over"}
    /\ wasPaused \in BOOLEAN /\ fresh \in BOOLEAN
    /\ heldAt \in -1..MaxPauses
    /\ pauses \in 0..MaxPauses /\ ended \in 0..MaxPauses /\ tasks \in 0..MaxTasks

(***************************************************************************)
(* A run that was stopped while it was paused moves the robot no more: an  *)
(* executive that blocked at a step boundary begins a step only after      *)
(* somebody resumed the run, never because a cancel woke it.  This is why  *)
(* _cancel_now sets `_cancel` before `_resume`.                            *)
(***************************************************************************)
NoStepFromCancelledHold == pc = "step" /\ heldAt >= 0 => ended > heldAt

(***************************************************************************)
(* A counted resume is reconciled some time, unless the run is held again  *)
(* or over.                                                                *)
(***************************************************************************)
ResumeReconciled ==
    resumes > seen ~> seen >= resumes \/ pc = "over" \/ state # "running"

\* A stop reaches the executive wherever it is, also blocked in a pause.
CancelReachesExecutive == cancel ~> pc = "over"

(***************************************************************************)
(* pause_point's docstring: "after the run carried on from a hold ...      *)
(* on_resume runs here, in the executive thread, before the next step ...  *)
(* whether the executive or the hook sees it first".                       *)
(***************************************************************************)
HeldThenReconciled == pc = "step" /\ heldAt >= 0 => fresh
=============================================================================
