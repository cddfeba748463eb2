--------------------------- MODULE MCSideSystems ---------------------------
(* SideSystems for TLC: a behaviour is of one of its systems, the others    *)
(* rest.  The plans have up to three steps, and plan skills that nest.  What *)
(* two overlapping send() of a stream do is not followed any further:       *)
(* nothing is promised from there on (AnswersOwnRequest).                   *)
EXTENDS SideSystems

CONSTANTS c1, c2, move, grab, tidy, day, loop, ghost, none, unbound

MCClient == {c1, c2}
MCUses == {[by |-> b, threads |-> 2] : b \in {"tcp", "websocket", "zmq", "webrtc"}}

do(s) == [skill |-> s, skip |-> FALSE, fail |-> FALSE, bad |-> FALSE]
skip(s) == [do(s) EXCEPT !.skip = TRUE]
fails(s) == [do(s) EXCEPT !.fail = TRUE]
bad(s) == [do(s) EXCEPT !.bad = TRUE]

\* tidy: a step that may fail, then two at once, one with a bad input; day: it
\* calls tidy; loop: it calls itself, which a file edited by hand can say.
MCSkills == [s \in {tidy, day, loop} |->
    CASE s = tidy -> <<<<skip(move)>>, <<do(grab), bad(move)>>>>
      [] s = day -> <<<<do(grab)>>, <<skip(tidy), do(move)>>, <<do(tidy)>>>>
      [] s = loop -> <<<<do(loop)>>, <<fails(move)>>>>]

MCCommands == {
    << >>,
    <<<<do(move)>>, <<do(tidy)>>, <<do(grab)>>>>,
    <<<<do(tidy), do(move)>>, <<do(day)>>>>,
    <<<<skip(tidy)>>, <<fails(move)>>, <<do(move)>>>>,
    <<<<skip(loop)>>, <<do(ghost)>>>>,
    <<<<do(day), do(tidy)>>>>,
    <<<<bad(move)>>, <<do(move)>>>>}

MCPlans == {<<<<do(move)>>>>, <<<<do(none)>>, <<do(tidy)>>>>,
            <<<<do(unbound)>>, <<do(move)>>>>, <<<<do(grab)>>, <<do(day)>>>>}

VARIABLES part

\* What rests while one system moves.
RestOfPause == UNCHANGED <<part, logVars, cameraVars, requestVars, planVars>>
RestOfLog == UNCHANGED <<part, vars, cameraVars, requestVars, planVars>>
RestOfCamera == UNCHANGED <<part, vars, logVars, requestVars, planVars>>
RestOfRequest == UNCHANGED <<part, vars, logVars, cameraVars, planVars>>
RestOfPlan == UNCHANGED <<part, vars, logVars, cameraVars, requestVars>>

MCInit ==
    /\ part \in {"pause", "log", "camera", "request", "plan"}
    /\ Init /\ Log!Init /\ Camera!Init /\ Remote!Init /\ Plan!Init
    /\ part # "camera" => kind = "topic"
    /\ part # "request" => use.by = "tcp"
    /\ part # "plan" => planKind = "direct" /\ frames[<< >>].plan = << >>

MCNext ==
    \/ part = "pause" /\ Next /\ RestOfPause
    \/ part = "log" /\ Log!Next /\ RestOfLog
    \/ part = "camera" /\ Camera!Next /\ RestOfCamera
    \/ part = "request" /\ ~shared /\ Remote!Next /\ RestOfRequest
    \/ part = "plan" /\ Plan!Next /\ RestOfPlan

MCVars == <<part, vars, logVars, cameraVars, requestVars, planVars>>

ClientRuns(c) == Resume(c) \/ ResumeHook(c) \/ SetCancelling(c)
Publishers == <<"session", "caller", "observer">>

\* The fairness of the modules: what thread n of the system that moves has begun.
FairMove(n) ==
    \/ /\ part = "pause"
       /\ \/ n = 1 /\ (Boundary \/ EndStep \/ MarkResumed)
          \/ n = 2 /\ ClientRuns(c1)
          \/ n = 3 /\ ClientRuns(c2)
       /\ RestOfPause
    \/ /\ part = "log"
       /\ \/ n = 1 /\ Log!SessionRuns
          \/ n \in 2..4 /\ Log!Delivers(Publishers[n - 1])
          \/ n = 5 /\ Log!ObserverRuns("observer")
       /\ RestOfLog
    \/ /\ part = "camera"
       /\ \/ n = 1 /\ Camera!FrameCounted
          \/ n \in 2..3 /\ Camera!WorkerRuns(n - 1)
          \/ n \in 4..5 /\ Camera!HandlerRuns(n - 3)
       /\ RestOfCamera
    \/ n = 1 /\ part = "plan" /\ Plan!Runs /\ RestOfPlan

MCSpec == MCInit /\ [][MCNext]_MCVars /\ \A n \in 1..5 : WF_MCVars(FairMove(n))

\* The run of a plan, when there is one, ends (PlanRun).
PlanEnds == part = "plan" => Plan!RunEnds
=============================================================================
