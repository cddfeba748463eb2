----------------------------- MODULE RunControl -----------------------------
(***************************************************************************)
(* core/run_control.py with the non-interruptible sections of Run          *)
(* (interact/run_manager.py): how a stop reaches the robot.  The runs of   *)
(* one robot follow each other; API clients cancel them through the        *)
(* manager, whose hook stops the robot now or after a skill that must not  *)
(* be cut; the Stop button stops it at once; a timer cuts a skill that     *)
(* takes too long; and begin_run, called by every executive and by every   *)
(* direct skill command, re-arms the node.  A session whose socket fails   *)
(* finishes its run while the executive, a thread of its own, goes on next *)
(* to the executive of the next run.  Whatever thread asks, "the current   *)
(* run" is the active one.  The pauses of a run are in PausePoint, the     *)
(* registry of the runs in RunManager, and what sending and cancelling a   *)
(* goal is made of in ActionClient.                                        *)
(***************************************************************************)
EXTENDS Integers, FiniteSets

CONSTANTS
    MaxRuns,     \* bound: runs, one after the other
    MaxSections, \* bound: non-interruptible skills of one run
    Client,      \* API threads that cancel through the manager
    Fragile      \* bound: runs whose socket may fail on a send

ASSUME BoundsAssumption == MaxRuns \in Nat /\ MaxSections \in Nat

Run == 1..MaxRuns
NoRun == 0
NoSection == [run |-> NoRun, token |-> 0]

VARIABLES
    phase,    \* Run._state, without the pauses
    cancel,   \* Run._cancel is set
    critical, \* Run._critical: the token of the section, 0 outside
    seq,      \* Run._critical_seq
    deferred, \* Run._stop_deferred
    armed,    \* CustomNode.cancel_requested is not set: agents may send
    flag,     \* run_control._CANCEL, what a stop is when no run is active
    goals,    \* the runs whose goals move the robot
    lock,     \* who holds run_control._LOCK between two steps
    exec,     \* the executive of each run
    sect,     \* the section its skill is in: the run and the token it got
    gone,     \* the runs whose socket failed
    call,     \* where each client's cancel stands
    button,   \* the run the Stop button is cancelling
    timers,   \* pending threading.Timers: <<run, token>>
    due,      \* timers that took the deferred stop and are stopping the robot
    stopped   \* history: runs whose stop was carried out

section == <<critical, seq, deferred>>
runs == <<phase, cancel>>
robot == <<armed, flag, goals>>
executive == <<exec, sect>>
stoppers == <<call, button, timers, due>>
vars == <<runs, section, robot, lock, executive, stoppers, stopped, gone>>

Active(r) == phase[r] \in {"running", "cancelling"}
ActiveRun == IF \E r \in Run : Active(r) THEN CHOOSE r \in Run : Active(r) ELSE NoRun

IdleCall == [at |-> "idle", run |-> NoRun, seq |-> 0]

Init ==
    /\ phase = [r \in Run |-> "none"] /\ cancel = [r \in Run |-> FALSE]
    /\ critical = [r \in Run |-> 0] /\ seq = [r \in Run |-> 0]
    /\ deferred = [r \in Run |-> FALSE]
    /\ armed \in BOOLEAN /\ flag \in BOOLEAN    \* a Stop may be left over from before
    /\ (flag => ~armed)
    /\ goals = {} /\ lock = "free"
    /\ exec = [r \in Run |-> "none"] /\ sect = [r \in Run |-> NoSection]
    /\ call = [c \in Client |-> IdleCall]
    /\ button = NoRun /\ timers = {} /\ due = {} /\ stopped = {}
    /\ gone = {}

-----------------------------------------------------------------------------
(* `_stop_robot`: every goal in flight is cancelled and, until the next    *)
(* begin_run, the agents refuse to send.  Called with _LOCK.               *)
StopRobot(r) ==
    /\ lock = "free"
    /\ armed' = FALSE
    /\ goals' = {}
    /\ stopped' = stopped \cup {r}
    /\ UNCHANGED flag

\* Run._cancel_now.
CancelRun(r) ==
    /\ cancel' = [cancel EXCEPT ![r] = TRUE]
    /\ phase' = [phase EXCEPT ![r] = "cancelling"]

-----------------------------------------------------------------------------
(* begin_run: the read of the active run's cancel, then the clear.         *)

\* Mutant: the old begin_run, which wiped a Stop still being carried out.
MayClearAlways == TRUE

MayClear == \A r \in Run : Active(r) => ~cancel[r]

ClearsNode == lock' = "free" /\ armed' = TRUE /\ flag' = FALSE

\* A direct command (POST /skill, POST /agent/send) re-arms the node.
CommandBegins ==
    /\ lock = "free" /\ MayClear
    /\ lock' = "command"
    /\ UNCHANGED <<runs, section, robot, executive, stoppers, stopped, gone>>

CommandClears ==
    /\ lock = "command"
    /\ ClearsNode
    /\ UNCHANGED <<runs, section, goals, executive, stoppers, stopped, gone>>

\* The executive's begin_run; with a run that is being cancelled it clears nothing.
ExecBegins(r) ==
    /\ exec[r] = "begin" /\ lock = "free"
    /\ IF MayClear
       THEN lock' = "exec" /\ exec' = [exec EXCEPT ![r] = "clear"]
       ELSE exec' = [exec EXCEPT ![r] = "top"] /\ UNCHANGED lock
    /\ UNCHANGED <<runs, section, robot, sect, stoppers, stopped, gone>>

ExecClears(r) ==
    /\ exec[r] = "clear"
    /\ ClearsNode
    /\ exec' = [exec EXCEPT ![r] = "top"]
    /\ UNCHANGED <<runs, section, goals, sect, stoppers, stopped, gone>>

-----------------------------------------------------------------------------
(* Runs and their executives.                                              *)

Start(r) ==
    /\ phase[r] = "none" /\ ActiveRun = NoRun
    /\ \A q \in Run : q < r => phase[q] = "done"
    /\ phase' = [phase EXCEPT ![r] = "running"]
    /\ exec' = [exec EXCEPT ![r] = "begin"]
    /\ UNCHANGED <<cancel, section, robot, lock, sect, stoppers, stopped, gone>>

\* A step of an executive that changes nothing but where it is.
Moves(r, to) ==
    /\ exec' = [exec EXCEPT ![r] = to]
    /\ UNCHANGED <<runs, section, robot, lock, sect, stoppers, stopped, gone>>

\* Mutant: the loop does not look at the cancel.
BoundaryBlind(r) == exec[r] = "top" /\ Moves(r, "go")

\* cancel_requested(): of the active run, whatever run the thread began with.
CancelSeen == IF ActiveRun = NoRun THEN flag ELSE cancel[ActiveRun]

\* The step boundary: a cancelled run ends, and so may a plan.
Boundary(r) == exec[r] = "top" /\ Moves(r, IF CancelSeen THEN "over" ELSE "go")

PlanEnd(r) == exec[r] = "go" /\ Moves(r, "over")

\* A skill that may be cut, or that begins with no run active: uninterruptible() is
\* a no-op.
BeginSkill(r) == exec[r] = "go" /\ Moves(r, "send")

\* Run.begin_critical of the current run, which is the active one.
BeginCritical(r) ==
    /\ exec[r] = "go" /\ ActiveRun # NoRun
    /\ LET q == ActiveRun IN
        /\ seq[q] < MaxSections
        /\ seq' = [seq EXCEPT ![q] = @ + 1]
        /\ critical' = [critical EXCEPT ![q] = seq'[q]]
        /\ deferred' = [deferred EXCEPT ![q] = FALSE]
        /\ sect' = [sect EXCEPT ![r] = [run |-> q, token |-> seq'[q]]]
    /\ exec' = [exec EXCEPT ![r] = "send"]
    /\ UNCHANGED <<runs, robot, lock, stoppers, stopped, gone>>

\* The skill sends a goal: the agent of a cancelled node refuses, but it looks
\* at the node once, before the goal goes out.
SendChecks(r) == exec[r] = "send" /\ Moves(r, IF armed THEN "sending" ELSE "end")

SendGoes(r) ==
    /\ exec[r] = "sending"
    /\ goals' = goals \cup {r}
    /\ exec' = [exec EXCEPT ![r] = "moving"]
    /\ UNCHANGED <<runs, section, armed, flag, lock, sect, stoppers, stopped, gone>>

\* The goal succeeds; the skill goes on to its next goal or ends.
GoalDone(r) ==
    /\ exec[r] = "moving" /\ r \in goals
    /\ goals' = goals \ {r}
    /\ exec' \in {[exec EXCEPT ![r] = "send"], [exec EXCEPT ![r] = "end"]}
    /\ UNCHANGED <<runs, section, armed, flag, lock, sect, stoppers, stopped, gone>>

\* The goal was cancelled: the skill fails.
GoalCut(r) == exec[r] = "moving" /\ r \notin goals /\ Moves(r, "end")

\* The section the skill opened is still the one of its run (end_critical's token).
InSection(r) == sect[r].run # NoRun /\ critical[sect[r].run] = sect[r].token

\* end_critical; a section whose stop is due is remembered until the stop is carried out.
Leaves(r, dueNow) ==
    /\ exec[r] = "end"
    /\ exec' = [exec EXCEPT ![r] = IF dueNow THEN "stop" ELSE "top"]
    /\ sect' = [sect EXCEPT ![r] = IF dueNow THEN @ ELSE NoSection]
    /\ IF InSection(r)
       THEN /\ critical' = [critical EXCEPT ![sect[r].run] = 0]
            /\ deferred' = [deferred EXCEPT ![sect[r].run] = FALSE]
       ELSE UNCHANGED <<critical, deferred>>
    /\ UNCHANGED <<runs, seq, robot, lock, stoppers, stopped, gone>>

\* Mutant: what end_critical returns is dropped.
EndSkillForgets(r) == Leaves(r, FALSE)

\* Run.end_critical at the end of uninterruptible(): a deferred stop is due.
EndSkill(r) == Leaves(r, InSection(r) /\ deferred[sect[r].run])

SectionStop(r) ==
    /\ exec[r] = "stop"
    /\ StopRobot(sect[r].run)
    /\ exec' = [exec EXCEPT ![r] = "top"]
    /\ sect' = [sect EXCEPT ![r] = NoSection]
    /\ UNCHANGED <<runs, section, lock, stoppers, gone>>

\* An event cannot be sent: agent_ws leaves its loop, stops its watcher and finishes
\* the run.  Nothing tells the executive's thread.
SocketFails(r) ==
    /\ Active(r) /\ exec[r] # "over" /\ r \in Fragile \ gone
    /\ gone' = gone \cup {r}
    /\ UNCHANGED <<runs, section, robot, lock, executive, stoppers, stopped>>

\* RunManager.finish, called by the run's session.
Finish(r) ==
    /\ Active(r) /\ (exec[r] = "over" \/ r \in gone)
    /\ phase' = [phase EXCEPT ![r] = "done"]
    /\ UNCHANGED <<cancel, section, robot, lock, executive, stoppers, stopped, gone>>

-----------------------------------------------------------------------------
(* Who stops a run.                                                        *)

\* RunManager.cancel of the active run; its hook runs afterwards, unlocked.
ClientCancels(c, r) ==
    /\ call[c] = IdleCall
    /\ Active(r)
    /\ CancelRun(r)
    /\ call' = [call EXCEPT ![c] = [at |-> "hook", run |-> r, seq |-> 0]]
    /\ UNCHANGED <<section, robot, lock, executive, button, timers, due, stopped, gone>>

\* Mutant: the robot is stopped whatever it does.
DeferStopNever(c) ==
    /\ call[c].at = "hook"
    /\ call' = [call EXCEPT ![c].at = "stop", ![c].seq = seq[call[c].run]]
    /\ UNCHANGED <<runs, section, robot, lock, executive, button, timers, due, stopped, gone>>

\* `_on_run_cancel` up to Run.defer_stop: wait for the section, or stop now.
DeferStop(c) ==
    /\ call[c].at = "hook"
    /\ LET r == call[c].run IN
        IF critical[r] # 0
        THEN /\ deferred' = [deferred EXCEPT ![r] = TRUE]
             /\ timers' = timers \cup {<<r, critical[r]>>}
             /\ call' = [call EXCEPT ![c] = IdleCall]
        ELSE /\ call' = [call EXCEPT ![c] = [at |-> "stop", run |-> r, seq |-> seq[r]]]
             /\ UNCHANGED <<deferred, timers>>
    /\ UNCHANGED <<runs, critical, seq, robot, lock, executive, button, due, stopped, gone>>

ClientStops(c) ==
    /\ call[c].at = "stop"
    /\ StopRobot(call[c].run)
    /\ call' = [call EXCEPT ![c] = IdleCall]
    /\ UNCHANGED <<runs, section, lock, executive, button, timers, due, gone>>

\* `_deferred_stop_due`: Run.take_deferred_stop, then the stop.
TimerFires(t) ==
    /\ t \in timers
    /\ timers' = timers \ {t}
    /\ IF critical[t[1]] = t[2] /\ deferred[t[1]]
       THEN /\ deferred' = [deferred EXCEPT ![t[1]] = FALSE]
            /\ due' = due \cup {t}
       ELSE UNCHANGED <<deferred, due>>
    /\ UNCHANGED <<runs, critical, seq, robot, lock, executive, call, button, stopped, gone>>

TimerStops(t) ==
    /\ t \in due
    /\ StopRobot(t[1])
    /\ due' = due \ {t}
    /\ UNCHANGED <<runs, section, lock, executive, call, button, timers, gone>>

\* request_cancel holds _LOCK from the process flag and the cancel of the active
\* run, if there is one, to the stop.
ButtonCancels ==
    /\ lock = "free"
    /\ lock' = "button" /\ button' = ActiveRun /\ flag' = TRUE
    /\ IF ActiveRun = NoRun THEN UNCHANGED runs ELSE CancelRun(ActiveRun)
    /\ UNCHANGED <<section, armed, goals, executive, call, timers, due, stopped, gone>>

ButtonStops ==
    /\ lock = "button"
    /\ lock' = "free" /\ button' = NoRun
    /\ armed' = FALSE /\ goals' = {} /\ stopped' = stopped \cup ({button} \ {NoRun})
    /\ UNCHANGED <<runs, section, flag, executive, call, timers, due, gone>>

-----------------------------------------------------------------------------
Timers == Run \X (1..MaxSections)

Executive(r) ==
    \/ ExecBegins(r) \/ ExecClears(r) \/ Boundary(r) \/ PlanEnd(r)
    \/ BeginSkill(r) \/ BeginCritical(r) \/ SendChecks(r) \/ SendGoes(r)
    \/ GoalDone(r) \/ GoalCut(r) \/ EndSkill(r) \/ SectionStop(r)

Next ==
    \/ CommandBegins \/ CommandClears
    \/ \E r \in Run : Start(r) \/ Executive(r) \/ SocketFails(r) \/ Finish(r)
    \/ \E c \in Client : \/ \E r \in Run : ClientCancels(c, r)
                         \/ DeferStop(c) \/ ClientStops(c)
    \/ \E t \in Timers : TimerFires(t) \/ TimerStops(t)
    \/ ButtonCancels \/ ButtonStops

(***************************************************************************)
(* Threads run, timers fire, and a thread that waits for _LOCK gets it     *)
(* (its sections are short): executives and timers, of which each takes it *)
(* a few times, one of them at a time.  Nothing makes a goal end: a motion *)
(* may go on for ever unless it is stopped.                                *)
(***************************************************************************)
TakesLock ==
    \/ \E r \in Run : ExecBegins(r) \/ SectionStop(r)
    \/ \E t \in Timers : TimerStops(t)
Proceeds(r) ==
    \/ ExecClears(r) \/ Boundary(r) \/ SendChecks(r) \/ SendGoes(r) \/ GoalCut(r)
    \/ EndSkill(r) \/ PlanEnd(r) \/ BeginSkill(r) \/ BeginCritical(r) \/ Finish(r)

Fairness ==
    /\ WF_vars(CommandClears \/ ButtonStops) /\ SF_vars(TakesLock)
    /\ \A c \in Client : WF_vars(DeferStop(c)) /\ SF_vars(ClientStops(c))
    /\ \A t \in Timers : WF_vars(TimerFires(t))
    /\ \A r \in Run : WF_vars(Proceeds(r))

Spec == Init /\ [][Next]_vars
FairSpec == Spec /\ Fairness

-----------------------------------------------------------------------------
(* Properties.                                                             *)

TypeOK ==
    /\ phase \in [Run -> {"none", "running", "cancelling", "done"}]
    /\ cancel \in [Run -> BOOLEAN]
    /\ critical \in [Run -> 0..MaxSections]
    /\ seq \in [Run -> 0..MaxSections]
    /\ deferred \in [Run -> BOOLEAN]
    /\ armed \in BOOLEAN
    /\ flag \in BOOLEAN
    /\ goals \subseteq Run
    /\ lock \in {"free", "command", "exec", "button"}
    /\ exec \in [Run -> {"none", "begin", "clear", "top", "go", "send", "sending",
                         "moving", "end", "stop", "over"}]
    /\ sect \in [Run -> [run : 0..MaxRuns, token : 0..MaxSections]]
    /\ call \in [Client -> [at : {"idle", "hook", "stop"}, run : 0..MaxRuns,
                            seq : 0..MaxSections]]
    /\ button \in 0..MaxRuns /\ (button # NoRun => lock = "button")
    /\ timers \subseteq Timers
    /\ due \subseteq Timers
    /\ stopped \subseteq Run
    /\ gone \subseteq Run

(***************************************************************************)
(* "So a grasp or a drawer pull is not cut half-way": the goal of a skill  *)
(* that must not be cut is only cut by the Stop button, by a timer that    *)
(* found the stop still deferred, by a stop that was under way before the  *)
(* skill began (of this run, or of another one), or by the stop that the   *)
(* executive of another run, left behind, owed its own skill.  As long as  *)
(* the section is its own: an executive left behind may open one on the    *)
(* run that is active, which takes the token from it.                      *)
(***************************************************************************)
CutsSection(r) ==
    /\ sect[r].run = r /\ InSection(r)
    /\ r \in goals /\ r \notin goals' /\ exec'[r] = exec[r]
SectionCutOnlyWhenDue ==
    \A r \in Run : CutsSection(r) =>
        \/ lock = "button"
        \/ due' # due
        \/ \E c \in Client : /\ call[c].at = "stop" /\ call'[c] = IdleCall
                             /\ call[c].run # r \/ call[c].seq < sect[r].token
        \/ \E q \in Run \ {r} : exec[q] = "stop" /\ exec'[q] = "top"
SectionsRespected == [][SectionCutOnlyWhenDue]_vars

(***************************************************************************)
(* From the stop of a run to its end no skill of any executive gets a goal *)
(* past the node's check, whatever direct command or session calls         *)
(* begin_run meanwhile: one that read the run's cancel before it was set   *)
(* clears the node before the stop, never after it.  The end of the run is *)
(* the end of the promise: an executive whose session finished the run     *)
(* under it sends again as soon as the next begin_run has cleared the node *)
(* (see LeftBehindSendsNothing).                                           *)
(***************************************************************************)
NoSendAfterStop ==
    [][\A r \in Run : exec[r] = "send" /\ exec'[r] = "sending"
                         => \A q \in stopped : ~Active(q)]_vars

(***************************************************************************)
(* What the code says of a client that goes away: it "leaves nobody        *)
(* watching the robot, which must not keep executing" (_watch_client).  It *)
(* does not hold: when the send of an event fails, the session stops its   *)
(* watcher and finishes the run, and its executive sends the next goals.   *)
(***************************************************************************)
LeftBehindSendsNothing ==
    [][\A r \in gone : phase[r] = "done" => ~(exec[r] = "send" /\ exec'[r] = "sending")]_vars

(***************************************************************************)
(* Every cancel is carried out on the robot, although the goals of a skill *)
(* need not end by themselves: now, at the end of the section, or when the *)
(* section's timer fires.  No order of hook, timer and section loses it.   *)
(* Nothing is promised once an executive was left behind: its own section  *)
(* on the run that is active takes the token and drops the note.           *)
(***************************************************************************)
LeftBehind == gone # {}
StopCarriedOut == \A r \in Run : cancel[r] ~> (r \in stopped \/ LeftBehind)

(***************************************************************************)
(* And the run ends, so that the robot is free for the next one; the only  *)
(* exceptions are a goal that had passed the check when the stop came (see *)
(* ActionClient), which moves the robot until it ends by itself, and an    *)
(* executive left behind, for the reason above.                            *)
(***************************************************************************)
Overtaken(r) == r \in stopped /\ r \in goals
StopEndsRun == \A r \in Run : cancel[r] ~> (phase[r] = "done" \/ Overtaken(r) \/ LeftBehind)

(***************************************************************************)
(* A deferred stop is never forgotten: while one is noted, the section is  *)
(* running and a timer of that section will cut it.                        *)
(***************************************************************************)
DeferredStopHasTimer ==
    \A r \in Run : deferred[r] => critical[r] # 0 /\ <<r, critical[r]>> \in timers
=============================================================================
