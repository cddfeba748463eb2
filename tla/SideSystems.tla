---------------------------- MODULE SideSystems ----------------------------
(***************************************************************************)
(* Five systems at the side of the executive, which share no variable: the *)
(* pause point (PausePoint, extended), the record of a run and who watches *)
(* it (RunLog), the camera streams (CameraStreams), the request-reply      *)
(* connections (RequestReply) and the execution of plans (PlanRun).        *)
(***************************************************************************)
EXTENDS PausePoint, Sequences

CONSTANTS
    Observers, MaxProgress, MaxCalls,   \* RunLog
    MaxVisits, MaxFrames, Kinds,        \* CameraStreams
    MaxSends, MaxConnects, Uses,        \* RequestReply
    Code, Agent, Names, Skills, Commands, Plans, NoOp, Unbindable, MaxDepth, MaxReplans    \* PlanRun

VARIABLES
    active, subs, events, event, due, session, progress, restCall, calls, observer, queue, open,
    rows, skill,
    kind, reg, made, watchers, stopped, idle, captures, worker, taken, held, lastSeq, visit, at,
    needs, inflight, shown, data, seq,
    planKind, frames, isdone, completed, replans, cancelling, status, lost,
    use, connected, sock, wire, back, broken, owed, futures, stage, saying, request, sends,
    outcome, shared

logVars ==
    <<active, subs, events, event, due, session, progress, restCall, calls, observer, queue, open,
      rows, skill>>
cameraVars ==
    <<kind, reg, made, watchers, stopped, idle, captures, worker, taken, held, lastSeq, visit, at,
      needs, inflight, shown, data, seq>>
planVars == <<planKind, frames, isdone, completed, replans, cancelling, status, lost>>
requestVars ==
    <<use, connected, sock, wire, back, broken, owed, futures, stage, saying, request, sends,
      outcome, shared>>

Log == INSTANCE RunLog
Camera == INSTANCE CameraStreams
Remote == INSTANCE RequestReply
Plan == INSTANCE PlanRun WITH kind <- planKind, cancelled <- cancelling

(***************************************************************************)
(* Plans are lists of steps of lists of calls (plan_skill.plan_lines); a   *)
(* plan skill without a step is not saved (validate_plan), and a name is   *)
(* that of one skill (SkillRegistry).                                      *)
(***************************************************************************)
ASSUME PlansAssumption ==
    /\ Skills \in [Plan!PlanSkill -> Seq(Seq(Plan!Task)) \ {<< >>}]
    /\ Commands \subseteq Seq(Seq(Plan!Task)) /\ Plans \subseteq Seq(Seq(Plan!Task))
    /\ Code \cap Plan!PlanSkill = { }
    /\ MaxDepth \in Nat /\ MaxReplans \in Nat

\* Who watches a run is not left watching when it has ended (RunLog).
ObserversEnd == Log!ObserversEnd
\* A camera has one worker that has not stopped: the registered one (CameraStreams).
OneWorker == Camera!OneWorker
\* Who joins a running stream gets a frame (CameraStreams).
ViewerServed == Camera!ViewerServed
\* send() returns the reply of its own request, or nothing (RequestReply).
AnswersOwnRequest == Remote!AnswersOwnRequest
\* A success hides no failure (PlanRun).
NoFailureHidden == Plan!NoFailureHidden
\* An emergency stop ends the closed loop (PlanRun).
EstopEnds == Plan!EstopEnds
=============================================================================
