----------------------------- MODULE RunManager -----------------------------
(***************************************************************************)
(* robot_agent/interact/run_manager.py and the session of api/agent.py:    *)
(* the runs of one robot.  API clients start, pause, resume, cancel and    *)
(* change runs; the executive of a run works through its plan and takes    *)
(* the changes at its step boundaries; the session that started the run    *)
(* finishes it.  One action is one critical section of the code (the       *)
(* manager's lock, the run's lock or the task stack's lock), or one        *)
(* lock-free step of the executive; a call that takes several locks is     *)
(* several actions, and `call` holds where each client's call stands.      *)
(***************************************************************************)
EXTENDS Integers, Sequences, FiniteSets

CONSTANTS
    MaxRuns,      \* bound: runs started in one behaviour
    MaxFinished,  \* MAX_FINISHED, the finished runs kept for GET /runs
    Client,       \* API clients, each with one call at a time
    NoClient,     \* the starter of a run that was not started
    RolePriority, \* Role.priority of each client: owner 3, member 2, guest 1
    MaxPending,   \* bound: changes waiting on one run
    MaxFrames,    \* bound: tasks suspended in one behaviour
    Fragile       \* bound: the runs whose socket may fail

ASSUME RunsAssumption == MaxRuns \in Nat /\ MaxFinished \in Nat
ASSUME ClientsAssumption == NoClient \notin Client
ASSUME RolesAssumption == RolePriority \in [Client -> 1..3]

\* Runs are numbered in the order they are created: the order of `_runs`.
Run == 1..MaxRuns
NoRun == 0

VARIABLES
    started,   \* how many runs were created
    state,     \* Run._state
    cancel,    \* Run._cancel (an Event)
    resume,    \* Run._resume (an Event)
    starter,   \* who started the run: its role decides who may control it
    pending,   \* Run.pending: the authors of the changes not taken yet
    current,   \* RunManager._active of the robot
    kept,      \* the keys of RunManager._runs
    frames,    \* the task stack: suspended tasks, each with its run and `at`
    clock,     \* TaskFrame.at: the order in which tasks were suspended
    suspended, \* RunContext.suspended of the run's executive
    exec,      \* the executive of the run
    session,   \* how far the run's session has come with finish()
    gone,      \* runs whose socket failed under the event stream
    call       \* the call each client is in

identity == <<started, starter>>
life == <<state, cancel, resume>>
registry == <<current, kept>>
stack == <<frames, clock>>
executive == <<exec, suspended>>
sessions == <<session, gone>>
vars == <<identity, life, registry, stack, executive, sessions, pending, call>>

Phase == {"none", "running", "paused", "cancelling", "done", "failed"}
ActiveStates == {"running", "paused", "cancelling"}
Active(r) == state[r] \in ActiveStates

Verb == {"cancel", "pause", "resume", "change"}
\* What a client asks for (api/agent.py), while its call is served.
Call == [verb : Verb \cup {"idle"}, run : 0..MaxRuns]
Idle == [verb |-> "idle", run |-> NoRun]

Abstract == INSTANCE RobotRuns WITH phase <- state

\* Mutant: the comparison of _outranks the wrong way round.
MayActReversed(c, r) == RolePriority[starter[r]] >= RolePriority[c]

\* `_outranks`: None (allowed) when the role is at least the starter's.
MayAct(c, r) == RolePriority[c] >= RolePriority[starter[r]]

\* Mutant: one finished run too many is kept.
TrimmedLate(runs, st) ==
    LET done == {r \in runs : st[r] \notin ActiveStates}
    IN  runs \ {r \in done : Cardinality({q \in done : q > r}) > MaxFinished}

(***************************************************************************)
(* `_trim`: of the runs that are over, the oldest beyond MAX_FINISHED are  *)
(* forgotten.                                                              *)
(***************************************************************************)
Trimmed(runs, st) ==
    LET done == {r \in runs : st[r] \notin ActiveStates}
    IN  runs \ {r \in done : Cardinality({q \in done : q > r}) >= MaxFinished}

Init ==
    /\ started = 0
    /\ state = [r \in Run |-> "none"]
    /\ cancel = [r \in Run |-> FALSE]
    /\ resume = [r \in Run |-> TRUE]
    /\ starter = [r \in Run |-> NoClient]
    /\ pending = [r \in Run |-> << >>]
    /\ current = NoRun
    /\ kept = {}
    /\ frames = {}
    /\ clock = 0
    /\ suspended = [r \in Run |-> 0]
    /\ exec = [r \in Run |-> "none"]
    /\ session = [r \in Run |-> "none"]
    /\ gone = {}
    /\ call = [c \in Client |-> Idle]

-----------------------------------------------------------------------------
(* Clients.                                                                *)

\* The robot's run that is still active (RunManager.active).
ActiveRun == IF current # NoRun /\ Active(current) THEN current ELSE NoRun

(***************************************************************************)
(* RunManager.start under the manager's lock.  A client that finds a run   *)
(* active becomes its observer and changes nothing.  The session then      *)
(* starts the executive, which understands the task before its first step  *)
(* boundary.                                                               *)
(***************************************************************************)
Start(c) ==
    /\ call[c] = Idle
    /\ started < MaxRuns
    /\ ActiveRun = NoRun
    /\ LET r == started + 1 IN
        /\ started' = r
        /\ state' = [state EXCEPT ![r] = "running"]
        /\ starter' = [starter EXCEPT ![r] = c]
        /\ current' = r
        /\ kept' = Trimmed(kept \cup {r}, state')
        /\ exec' = [exec EXCEPT ![r] = "work"]
        /\ session' = [session EXCEPT ![r] = "serving"]
    /\ UNCHANGED <<stack, cancel, resume, pending, suspended, gone, call>>

(***************************************************************************)
(* `_resolve` and the role check at the head of cancel, pause, resume and  *)
(* inject.  A refused call changes nothing.  Classifying what was said     *)
(* comes between this step and the next one.                               *)
(***************************************************************************)
Request(c, r, verb) ==
    /\ call[c] = Idle
    /\ r \in kept
    /\ Active(r)
    /\ MayAct(c, r)
    /\ call' = [call EXCEPT ![c] = [verb |-> verb, run |-> r]]
    /\ UNCHANGED <<identity, life, registry, stack, executive, sessions, pending>>

\* The call of client c is at the locked part of `verb`.
At(c, verb) == call[c].verb = verb
Return(c) == call' = [call EXCEPT ![c] = Idle]

\* Run._cancel_now; a run that ended meanwhile is left alone.
CancelNow(r) ==
    IF Active(r)
    THEN /\ cancel' = [cancel EXCEPT ![r] = TRUE]
         /\ resume' = [resume EXCEPT ![r] = TRUE]
         /\ state' = [state EXCEPT ![r] = "cancelling"]
    ELSE UNCHANGED life

CancelRun(c) ==
    /\ At(c, "cancel")
    /\ CancelNow(call[c].run)
    /\ Return(c)
    /\ UNCHANGED <<identity, registry, stack, executive, sessions, pending>>

\* Run._pause_now: only a running run is paused, a second pause is no news.
PauseRun(c) ==
    /\ At(c, "pause")
    /\ LET r == call[c].run IN
        IF state[r] = "running"
        THEN /\ state' = [state EXCEPT ![r] = "paused"]
             /\ resume' = [resume EXCEPT ![r] = FALSE]
        ELSE UNCHANGED <<state, resume>>
    /\ Return(c)
    /\ UNCHANGED <<identity, registry, stack, executive, sessions, cancel, pending>>

\* Run._resume_now: only a paused run is resumed.
ResumeRun(c) ==
    /\ At(c, "resume")
    /\ LET r == call[c].run IN
        IF state[r] = "paused"
        THEN /\ state' = [state EXCEPT ![r] = "running"]
             /\ resume' = [resume EXCEPT ![r] = TRUE]
        ELSE UNCHANGED <<state, resume>>
    /\ Return(c)
    /\ UNCHANGED <<identity, registry, stack, executive, sessions, cancel, pending>>

(***************************************************************************)
(* The end of RunManager.inject for MODIFY, ADD, DROP and NEW, and for an  *)
(* ANSWER nobody waits for: the change is appended whether or not the run  *)
(* is still active, and the client is told "queued".                       *)
(***************************************************************************)
QueueChange(c) ==
    /\ At(c, "change")
    /\ LET r == call[c].run IN
        /\ Len(pending[r]) < MaxPending
        /\ pending' = [pending EXCEPT ![r] = Append(@, c)]
    /\ Return(c)
    /\ UNCHANGED <<identity, life, registry, stack, executive, sessions>>

(***************************************************************************)
(* run_control.request_cancel: the Stop button, or the watcher that saw    *)
(* the client go away.  The active run is cancelled as the owner, so no    *)
(* role can be refused.                                                    *)
(***************************************************************************)
StopButton ==
    /\ ActiveRun # NoRun
    /\ CancelNow(ActiveRun)
    /\ UNCHANGED <<identity, registry, stack, executive, sessions, pending, call>>

-----------------------------------------------------------------------------
(* The executive of a run: UnifiedAgent's thread with its planning loop.   *)

(***************************************************************************)
(* A step boundary of AssistLoop (`_execute_phase`): hold while paused,    *)
(* stop when cancelled, else take the pending changes; one of them may be  *)
(* a NEW task that goes first, and the current task is then suspended.     *)
(***************************************************************************)
Suspend(r) ==
    /\ clock' = clock + 1
    /\ frames' = frames \cup {[run |-> r, at |-> clock]}
    /\ suspended' = [suspended EXCEPT ![r] = @ + 1]

Boundary(r) ==
    /\ exec[r] = "boundary"
    /\ resume[r]
    /\ ~cancel[r]
    /\ exec' = [exec EXCEPT ![r] = "work"]
    /\ pending' = [pending EXCEPT ![r] = << >>]
    /\ \/ UNCHANGED <<frames, clock, suspended>>
       \/ pending[r] # << >> /\ clock < MaxFrames /\ Suspend(r)
    /\ UNCHANGED <<identity, life, registry, sessions, call>>

\* The cancel is seen at a boundary or right after a skill.
SeeCancel(r) ==
    /\ \/ exec[r] = "boundary" /\ resume[r]
       \/ exec[r] = "work"
    /\ cancel[r]
    /\ exec' = [exec EXCEPT ![r] = "over"]
    /\ UNCHANGED <<identity, life, registry, stack, sessions, pending, suspended, call>>

StepDone(r) ==
    /\ exec[r] = "work"
    /\ exec' = [exec EXCEPT ![r] = "boundary"]
    /\ UNCHANGED <<identity, life, registry, stack, sessions, pending, suspended, call>>

\* The goals hold and no task is suspended, or the plan failed or crashed.
PlanEnd(r) ==
    /\ exec[r] = "work"
    /\ exec' = [exec EXCEPT ![r] = "over"]
    /\ UNCHANGED <<identity, life, registry, stack, sessions, pending, suspended, call>>

(***************************************************************************)
(* `_resume_suspended`: the task a NEW one interrupted is taken back.      *)
(* TaskStack.pop removes the top frame only when it is the run's own; the  *)
(* executive carries on with its own copy of the goals otherwise.          *)
(***************************************************************************)
ResumeTask(r) ==
    /\ exec[r] = "work"
    /\ suspended[r] > 0
    /\ suspended' = [suspended EXCEPT ![r] = @ - 1]
    /\ clock' = clock
    /\ frames' = {f \in frames : f.run # r \/ \E g \in frames : g.at > f.at}
    /\ exec' = [exec EXCEPT ![r] = "boundary"]
    /\ UNCHANGED <<identity, life, registry, sessions, pending, call>>

-----------------------------------------------------------------------------
(* The session that started the run (agent_ws).                            *)

(***************************************************************************)
(* Sending an event fails because the client went away, before the         *)
(* watcher saw it: the session leaves its event loop, cancels the watcher  *)
(* and goes on to finish() while the executive's thread is still running.  *)
(***************************************************************************)
SocketFails(r) ==
    /\ session[r] = "serving"
    /\ exec[r] # "over"
    /\ r \in Fragile \ gone
    /\ gone' = gone \cup {r}
    /\ UNCHANGED <<identity, life, registry, stack, executive, pending, session, call>>

\* Mutant: a stopped run may end as failed.
FinishMarkPlain(r) ==
    /\ session[r] = "serving"
    /\ exec[r] = "over" \/ r \in gone
    /\ session' = [session EXCEPT ![r] = "marked"]
    /\ \E ok \in BOOLEAN : state' = [state EXCEPT ![r] = IF ok THEN "done" ELSE "failed"]
    /\ resume' = [resume EXCEPT ![r] = TRUE]
    /\ UNCHANGED <<identity, registry, stack, executive, cancel, pending, gone, call>>

\* finish(), the part under the run's lock.
FinishMark(r) ==
    /\ session[r] = "serving"
    /\ exec[r] = "over" \/ r \in gone
    /\ session' = [session EXCEPT ![r] = "marked"]
    /\ \E ok \in BOOLEAN :
        state' = [state EXCEPT ![r] = IF ok \/ cancel[r] THEN "done" ELSE "failed"]
    /\ resume' = [resume EXCEPT ![r] = TRUE]
    /\ UNCHANGED <<identity, registry, stack, executive, cancel, pending, gone, call>>

\* Mutant: the registry entry is removed whoever it belongs to.
FinishUnlinkAny(r) ==
    /\ session[r] = "marked"
    /\ session' = [session EXCEPT ![r] = "unlinked"]
    /\ current' = NoRun
    /\ UNCHANGED <<identity, life, stack, executive, pending, kept, gone, call>>

\* finish(), the part under the manager's lock: a newer run may be there.
FinishUnlink(r) ==
    /\ session[r] = "marked"
    /\ session' = [session EXCEPT ![r] = "unlinked"]
    /\ current' = IF current = r THEN NoRun ELSE current
    /\ UNCHANGED <<identity, life, stack, executive, pending, kept, gone, call>>

\* Mutant: the run's suspended tasks are left on the stack.
FinishDropNothing(r) ==
    /\ session[r] = "unlinked"
    /\ session' = [session EXCEPT ![r] = "closed"]
    /\ UNCHANGED <<identity, life, registry, stack, executive, pending, gone, call>>

\* finish(), TaskStack.drop_run.
FinishDrop(r) ==
    /\ session[r] = "unlinked"
    /\ session' = [session EXCEPT ![r] = "closed"]
    /\ frames' = {f \in frames : f.run # r}
    /\ clock' = clock
    /\ UNCHANGED <<identity, life, registry, executive, pending, gone, call>>

-----------------------------------------------------------------------------
Control(c) == CancelRun(c) \/ PauseRun(c) \/ ResumeRun(c) \/ QueueChange(c)

Executive(r) ==
    Boundary(r) \/ SeeCancel(r) \/ StepDone(r) \/ PlanEnd(r) \/ ResumeTask(r)

Finish(r) == FinishMark(r) \/ FinishUnlink(r) \/ FinishDrop(r)

Next ==
    \/ \E c \in Client :
        \/ Start(c)
        \/ \E r \in Run, verb \in Verb : Request(c, r, verb)
        \/ Control(c)
    \/ StopButton
    \/ \E r \in Run : Executive(r) \/ SocketFails(r) \/ Finish(r)

Spec == Init /\ [][Next]_vars

-----------------------------------------------------------------------------
(* Properties.                                                             *)

TypeOK ==
    /\ started \in 0..MaxRuns
    /\ state \in [Run -> Phase]
    /\ cancel \in [Run -> BOOLEAN]
    /\ resume \in [Run -> BOOLEAN]
    /\ starter \in [Run -> Client \cup {NoClient}]
    /\ pending \in [Run -> Seq(Client)]
    /\ current \in 0..MaxRuns
    /\ kept \subseteq Run
    /\ frames \subseteq [run : Run, at : Nat]
    /\ clock \in Nat
    /\ suspended \in [Run -> Nat]
    /\ exec \in [Run -> {"none", "boundary", "work", "over"}]
    /\ session \in [Run -> {"none", "serving", "marked", "unlinked", "closed"}]
    /\ gone \subseteq Run
    /\ call \in [Client -> Call]

(***************************************************************************)
(* An active run is the one the registry points at and GET /runs lists:    *)
(* neither a late finish() of the run before it nor the trimming of the    *)
(* finished ones ever loses it, so Stop and "busy" always find it.         *)
(***************************************************************************)
ActiveRegistered == \A r \in Run : Active(r) => current = r /\ r \in kept

(***************************************************************************)
(* The runs, with their locks and their two-step finish(), behave as       *)
(* RobotRuns promises: one active run, a cancel that is final, an end that *)
(* is reached once, and never `failed` after a stop.                       *)
(***************************************************************************)
ImplementsRobotRuns == Abstract!Spec

(***************************************************************************)
(* The registry does not grow: after any history of starts and finishes it *)
(* holds at most MAX_FINISHED runs that are over besides the newest run.   *)
(***************************************************************************)
RegistryBounded == Cardinality(kept) <= MaxFinished + 1

(***************************************************************************)
(* Nobody ranked below the run's starter gets a say in it, however long    *)
(* ago their request was let in: a run is paused or resumed by a client of *)
(* at least its starter's role, and every waiting change has such an       *)
(* author.                                                                 *)
(***************************************************************************)
RolesRespected ==
    /\ \A r \in Run : \A i \in DOMAIN pending'[r] :
            RolePriority[pending'[r][i]] >= RolePriority[starter'[r]]
    /\ \A r \in Run :
            \/ state[r] = "running" /\ state'[r] = "paused"
            \/ state[r] = "paused" /\ state'[r] = "running"
            => \E c \in Client : /\ call[c].run = r /\ call'[c] = Idle
                                 /\ RolePriority[c] >= RolePriority[starter[r]]
RolesAlwaysRespected == [][RolesRespected]_vars

(***************************************************************************)
(* "A suspended task lives as long as the run that suspended it"           *)
(* (TaskStack): while its client is there, no frame of a run outlives the  *)
(* run's finish(), so a later run never finds a stranger's task.           *)
(***************************************************************************)
FramesOfLiveRuns ==
    \A f \in frames : f.run \in gone \/ session[f.run] # "closed"

(***************************************************************************)
(* docs/run_manager.md, Goal changes: "a change is never dropped           *)
(* silently".  A run that ended on its own, its client still there, leaves *)
(* no change behind that its author was told is queued.                    *)
(***************************************************************************)
NoChangeDropped ==
    \A r \in Run :
        state[r] = "done" /\ ~cancel[r] /\ r \notin gone => pending[r] = << >>

(***************************************************************************)
(* run_manager.py: "One active run per robot"; `_watch_client`: a robot    *)
(* nobody watches "must not keep executing".  At most one executive works  *)
(* on the robot at a time.                                                 *)
(***************************************************************************)
Working(r) == exec[r] \in {"boundary", "work"}
OneExecutive == \A r, q \in Run : Working(r) /\ Working(q) => r = q
=============================================================================
