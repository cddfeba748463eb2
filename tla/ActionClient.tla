---------------------------- MODULE ActionClient ----------------------------
(***************************************************************************)
(* ActionClientAgent of connect/ros/node.py with the cancel flag of its    *)
(* CustomNode: how a goal is sent and how a Stop reaches it.  Three        *)
(* threads share the agent's fields without a lock of their own: the skill *)
(* in send(), the ROS executor in the callbacks, and cancel_all() in       *)
(* cancel().  One action is one such access, or one locked section.  The   *)
(* action server and the transport are external: they accept or reject a   *)
(* goal, end it or not, and carry out cancels; the goal service and the    *)
(* cancel service keep no order between each other.                        *)
(***************************************************************************)
EXTENDS Naturals

CONSTANTS
    MaxGoals,   \* bound: goals sent by the skills, one send() after the other
    MaxStops,   \* bound: calls of cancel_all
    HasTimeout  \* the connection has a `timeout`

ASSUME BoundsAssumption == MaxGoals \in Nat /\ MaxStops \in Nat
ASSUME TimeoutAssumption == HasTimeout \in BOOLEAN

Goal == 1..MaxGoals
NoGoal == 0

\* What rev_data holds: the goal it is about, and what it says of it.  A Stop
\* says "stopped" to the send() under way, if there is one.
Answer == [of : 0..MaxGoals,
           what : {"none", "result", "cancelled", "rejected", "timeout", "stopped", "refused"}]
Nothing == [of |-> NoGoal, what |-> "none"]

VARIABLES
    event,     \* CustomNode._cancel_event
    flag,      \* ActionClientAgent._cancelled
    handles,   \* _goal_handles
    rev,       \* rev_data
    send,      \* where send() stands
    now,       \* the goal it is about: goals are numbered in order
    outcome,   \* what send() returned for each goal
    stop,      \* where cancel_all() stands
    taken,     \* the handles cancel() took
    stops,     \* how many times the robot was stopped
    response,  \* the client's side of each goal
    server,    \* the server's side of each goal
    asked,     \* cancel requests on their way, one per goal
    askedAll   \* a CANCEL_ALL is on its way

sender == <<send, now, outcome>>
stopper == <<stop, taken, stops>>
remote == <<server, asked, askedAll>>
vars == <<event, flag, handles, rev, sender, stopper, response, remote>>

Init ==
    /\ event = FALSE /\ flag = FALSE /\ handles = {} /\ rev = Nothing
    /\ send = "idle" /\ now = NoGoal /\ outcome = [g \in Goal |-> Nothing]
    /\ stop = "idle" /\ taken = {} /\ stops = 0
    /\ response = [g \in Goal |-> "none"]
    /\ server = [g \in Goal |-> "none"] /\ asked = {} /\ askedAll = FALSE

-----------------------------------------------------------------------------
(* send(), in the skill's thread.                                          *)

\* A cancelled node refuses: the send returns at once.
SendChecks ==
    /\ send = "idle" /\ now < MaxGoals
    /\ now' = now + 1
    /\ IF event
       THEN outcome' = [outcome EXCEPT ![now'] = [of |-> now', what |-> "refused"]]
            /\ UNCHANGED send
       ELSE send' = "checked" /\ UNCHANGED outcome
    /\ UNCHANGED <<event, flag, handles, rev, stopper, response, remote>>

SendResets ==
    /\ send = "checked"
    /\ send' = "reset" /\ flag' = FALSE
    /\ UNCHANGED <<event, handles, rev, now, outcome, stopper, response, remote>>

\* Mutant: the last answer is not dropped before the goal is sent.
SendClearsNothing ==
    /\ send = "reset"
    /\ send' = "cleared"
    /\ UNCHANGED <<event, flag, handles, rev, now, outcome, stopper, response, remote>>

\* The server is there (wait_for_server, up to 3 s): the last answer is dropped.
SendClears ==
    /\ send = "reset"
    /\ send' = "cleared" /\ rev' = Nothing
    /\ UNCHANGED <<event, flag, handles, now, outcome, stopper, response, remote>>

\* It is not: the send returns, and the last answer stays.
SendUnavailable ==
    /\ send = "reset"
    /\ send' = "idle"
    /\ outcome' = [outcome EXCEPT ![now] = [of |-> now, what |-> "refused"]]
    /\ UNCHANGED <<event, flag, handles, rev, now, stopper, response, remote>>

SendGoal ==
    /\ send = "cleared"
    /\ send' = "wait"
    /\ response' = [response EXCEPT ![now] = "sent"]
    /\ server' = [server EXCEPT ![now] = "requested"]
    /\ UNCHANGED <<event, flag, handles, rev, now, outcome, stopper, asked, askedAll>>

\* The loop ends with an answer, or the connection's timeout makes one up.
SendWakes ==
    /\ send = "wait" /\ rev # Nothing
    /\ send' = "read"
    /\ UNCHANGED <<event, flag, handles, rev, now, outcome, stopper, response, remote>>

SendTimesOut ==
    /\ send = "wait" /\ HasTimeout
    /\ send' = "read" /\ rev' = [of |-> now, what |-> "timeout"]
    /\ UNCHANGED <<event, flag, handles, now, outcome, stopper, response, remote>>

SendReads ==
    /\ send = "read"
    /\ send' = "leave" /\ outcome' = [outcome EXCEPT ![now] = rev]
    /\ UNCHANGED <<event, flag, handles, rev, now, stopper, response, remote>>

SendReturns ==
    /\ send = "leave"
    /\ send' = "idle" /\ rev' = Nothing
    /\ UNCHANGED <<event, flag, handles, now, outcome, stopper, response, remote>>

-----------------------------------------------------------------------------
(* The action server: ActionServerAgent, or any other (external).          *)

Moves(g) == server[g] = "executing"

ServerAccepts(g) ==
    /\ server[g] = "requested"
    /\ server' = [server EXCEPT ![g] = "executing"]
    /\ response' = [response EXCEPT ![g] = "accepted"]
    /\ UNCHANGED <<event, flag, handles, rev, sender, stopper, asked, askedAll>>

ServerRejects(g) ==
    /\ server[g] = "requested"
    /\ server' = [server EXCEPT ![g] = "rejected"]
    /\ response' = [response EXCEPT ![g] = "rejected"]
    /\ UNCHANGED <<event, flag, handles, rev, sender, stopper, asked, askedAll>>

\* The goal succeeds or is aborted, which the client reads alike.
ServerEnds(g) ==
    /\ Moves(g)
    /\ server' = [server EXCEPT ![g] = "succeeded"]
    /\ UNCHANGED <<event, flag, handles, rev, sender, stopper, response, asked, askedAll>>

\* A cancel for a goal that is over, or not accepted yet, does nothing.
Stopped(goals) == [g \in Goal |-> IF g \in goals /\ Moves(g) THEN "cancelled" ELSE server[g]]

ServerCancels(g) ==
    /\ g \in asked
    /\ asked' = asked \ {g} /\ server' = Stopped({g})
    /\ UNCHANGED <<event, flag, handles, rev, sender, stopper, response, askedAll>>

ServerCancelsAll ==
    /\ askedAll
    /\ askedAll' = FALSE /\ server' = Stopped(Goal)
    /\ UNCHANGED <<event, flag, handles, rev, sender, stopper, response, asked>>

-----------------------------------------------------------------------------
(* The callbacks, in the ROS executor's thread.                            *)

Put(g, what) == rev' = [of |-> g, what |-> what]

\* Mutant: the callback does not return after a rejection.
GoalRejectedKept(g) ==
    /\ response[g] = "rejected"
    /\ response' = [response EXCEPT ![g] = "kept"]
    /\ handles' = handles \cup {g}
    /\ Put(g, "rejected")
    /\ UNCHANGED <<event, flag, sender, stopper, remote>>

\* goal_response_callback: a rejected goal is answered ...
GoalRejected(g) ==
    /\ response[g] = "rejected"
    /\ response' = [response EXCEPT ![g] = "done"]
    /\ Put(g, "rejected")
    /\ UNCHANGED <<event, flag, handles, sender, stopper, remote>>

\* ... the handle of an accepted one is kept, ...
GoalAccepted(g) ==
    /\ response[g] = "accepted"
    /\ response' = [response EXCEPT ![g] = "kept"]
    /\ handles' = handles \cup {g}
    /\ UNCHANGED <<event, flag, rev, sender, stopper, remote>>

\* Mutant: the callback does not look at `_cancelled`.
GoalUnwatched(g) ==
    /\ response[g] = "kept"
    /\ response' = [response EXCEPT ![g] = "watched"]
    /\ UNCHANGED <<event, flag, handles, rev, sender, stopper, remote>>

\* ... and if cancel() came meanwhile the goal is cancelled right away.
GoalWatched(g) ==
    /\ response[g] = "kept"
    /\ response' = [response EXCEPT ![g] = "watched"]
    /\ asked' = IF flag THEN asked \cup {g} ELSE asked
    /\ UNCHANGED <<event, flag, handles, rev, sender, stopper, server, askedAll>>

\* Mutant: a cancelled goal is forgotten without an answer.
ResultOfSuccess(g) ==
    /\ response[g] = "watched" /\ server[g] \in {"succeeded", "cancelled"}
    /\ response' = [response EXCEPT ![g] = "done"]
    /\ IF server[g] = "succeeded" THEN Put(g, "result") ELSE UNCHANGED rev
    /\ handles' = handles \ {g}
    /\ UNCHANGED <<event, flag, sender, stopper, remote>>

(***************************************************************************)
(* result_callback.  `_forget_goal` drops the goal's handle; where rclpy's *)
(* future does not carry it, every handle not known to be executing goes,  *)
(* and what is known may be late.                                          *)
(***************************************************************************)
Result(g) ==
    /\ response[g] = "watched" /\ server[g] \in {"succeeded", "cancelled"}
    /\ response' = [response EXCEPT ![g] = "done"]
    /\ Put(g, IF server[g] = "cancelled" THEN "cancelled" ELSE "result")
    /\ \/ handles' = handles \ {g}
       \/ \E known \in SUBSET handles : handles' = known
    /\ UNCHANGED <<event, flag, sender, stopper, remote>>

-----------------------------------------------------------------------------
(* cancel_all() and cancel(), in the threads of a Stop.                    *)

StopNode ==
    /\ stop = "idle" /\ stops < MaxStops
    /\ stop' = "event" /\ event' = TRUE /\ stops' = stops + 1
    /\ UNCHANGED <<flag, handles, rev, sender, taken, response, remote>>

CancelMarks ==
    /\ stop = "event"
    /\ stop' = "marked" /\ flag' = TRUE
    /\ UNCHANGED <<event, handles, rev, sender, taken, stops, response, remote>>

CancelTakes ==
    /\ stop = "marked"
    /\ stop' = "taken" /\ taken' = handles /\ handles' = {}
    /\ UNCHANGED <<event, flag, rev, sender, stops, response, remote>>

\* cancel_goal_async for each handle, then CANCEL_ALL (cancel_all_goals; a server
\* that takes goals has the cancel_goal service).
CancelAsks ==
    /\ stop = "taken"
    /\ stop' = "asked" /\ taken' = {}
    /\ asked' = asked \cup taken /\ askedAll' = TRUE
    /\ UNCHANGED <<event, flag, handles, rev, sender, stops, response, server>>

\* A send() blocked in its loop is woken.
CancelWakes ==
    /\ stop = "asked"
    /\ stop' = "idle" /\ Put(IF send = "idle" THEN NoGoal ELSE now, "stopped")
    /\ UNCHANGED <<event, flag, handles, sender, taken, stops, response, remote>>

\* begin_run re-arms the node; run_control._LOCK keeps it apart from a Stop.
ClearCancel ==
    /\ event /\ stop = "idle"
    /\ event' = FALSE
    /\ UNCHANGED <<flag, handles, rev, sender, stopper, response, remote>>

-----------------------------------------------------------------------------
SendProceeds ==
    \/ SendResets \/ SendClears \/ SendUnavailable
    \/ SendGoal \/ SendWakes \/ SendReads \/ SendReturns
Send == SendChecks \/ SendProceeds \/ SendTimesOut
Server(g) == ServerAccepts(g) \/ ServerRejects(g) \/ ServerEnds(g) \/ ServerCancels(g)
Callback(g) == GoalRejected(g) \/ GoalAccepted(g) \/ GoalWatched(g) \/ Result(g)
StopProceeds == CancelMarks \/ CancelTakes \/ CancelAsks \/ CancelWakes

Next ==
    \/ Send \/ StopNode \/ StopProceeds \/ ClearCancel
    \/ ServerCancelsAll
    \/ \E g \in Goal : Server(g) \/ Callback(g)

(***************************************************************************)
(* Threads and callbacks run, the server answers a goal request and        *)
(* carries out a cancel.  Nothing makes a goal end by itself, a skill      *)
(* send, or the clock of a timeout help.                                   *)
(***************************************************************************)
Fairness ==
    /\ WF_vars(SendProceeds) /\ WF_vars(StopProceeds)
    /\ WF_vars(ServerCancelsAll)
    /\ \A g \in Goal : /\ WF_vars(ServerAccepts(g) \/ ServerRejects(g))
                       /\ WF_vars(ServerCancels(g)) /\ WF_vars(Callback(g))

Spec == Init /\ [][Next]_vars
FairSpec == Spec /\ Fairness

-----------------------------------------------------------------------------
(* Properties.                                                             *)

TypeOK ==
    /\ event \in BOOLEAN /\ flag \in BOOLEAN /\ askedAll \in BOOLEAN
    /\ handles \subseteq Goal /\ taken \subseteq Goal /\ asked \subseteq Goal
    /\ rev \in Answer
    /\ send \in {"idle", "checked", "reset", "cleared", "wait", "read", "leave"}
    /\ now \in 0..MaxGoals
    /\ outcome \in [Goal -> Answer]
    /\ stop \in {"idle", "event", "marked", "taken", "asked"}
    /\ stops \in 0..MaxStops
    /\ response \in [Goal -> {"none", "sent", "accepted", "rejected", "kept",
                              "watched", "done"}]
    /\ server \in [Goal -> {"none", "requested", "executing", "succeeded",
                            "cancelled", "rejected"}]
    /\ \A g \in handles \cup taken \cup asked :
            server[g] \in {"executing", "succeeded", "cancelled"}

(***************************************************************************)
(* A goal in flight when the agent is cancelled stops, whichever of the    *)
(* request, the server's acceptance, the callback that keeps the handle    *)
(* and the cancel comes first, unless a later send() un-cancels the agent. *)
(***************************************************************************)
InFlight(g) == server[g] \in {"requested", "executing"}
CancelledGoalsEnd == \A g \in Goal : flag /\ InFlight(g) ~> (~InFlight(g) \/ ~flag)

(***************************************************************************)
(* A send() that waits when the agent is cancelled returns, even though    *)
(* the goal would never end by itself and even when the wake-up came just  *)
(* before send() dropped the last answer (`self.rev_data = None`).         *)
(***************************************************************************)
CancelledSendReturns == (flag /\ send = "wait") ~> send # "wait"

(***************************************************************************)
(* What a skill is told is about its own goal, unless an earlier send()    *)
(* left without its goal's answer (timed out, stopped, or itself misled)   *)
(* and that answer came late.  Nothing else of an earlier send() or of an  *)
(* earlier Stop is taken for the answer of a later one.                    *)
(***************************************************************************)
LeftEarly(h) == outcome[h].of # h \/ outcome[h].what \in {"timeout", "stopped"}
AnswersOwnGoal ==
    \A g \in Goal : outcome[g] # Nothing /\ outcome[g].of # g =>
        \E h \in Goal : h < g /\ outcome[g].of = h /\ LeftEarly(h)

(***************************************************************************)
(* run_control.py: "while the flag is set, an action / service agent       *)
(* refuses to send instead of starting a fresh motion".  When the Stop has *)
(* been carried out and the node is still cancelled, a goal that moves the *)
(* robot is at least about to be cancelled.                                *)
(***************************************************************************)
CancelDue(g) ==
    \/ askedAll \/ g \in asked
    \/ flag /\ response[g] \in {"sent", "accepted", "kept"}

StoppedRobotIsStill ==
    event /\ stop = "idle" => \A g \in Goal : Moves(g) => CancelDue(g)
=============================================================================
