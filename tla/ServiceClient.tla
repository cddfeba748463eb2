---------------------------- MODULE ServiceClient ----------------------------
(***************************************************************************)
(* ServiceClientAgent of connect/ros/node.py beside the action client of   *)
(* the same node: skills call a service, each in a thread of its own and   *)
(* several at once, and a Stop cancels both agents, each in a thread too.  *)
(* `cancel` cannot stop what the service does, it only ends the waiting.   *)
(* One action is one access to the agent's fields, or one locked section.  *)
(* Calls that do not wait, encodings and logging are left out.             *)
(***************************************************************************)
EXTENDS ActionClient

CONSTANTS
    MaxCalls, \* bound: service calls
    Skills    \* bound: how many goals and calls the skills make, in one run or another

ASSUME CallsAssumption == MaxCalls \in Nat
ASSUME SkillsAssumption == Skills \subseteq [goals : 0..MaxGoals, calls : 0..MaxCalls]

Call == 1..MaxCalls

VARIABLES
    skills,    \* how many they make
    callFlag,  \* ServiceClientAgent._cancelled
    futures,   \* _futures
    call,      \* where the send() of each call stands
    future,    \* its future
    told,      \* what it returned
    callStop,  \* where the agent's cancel() stands
    takenCalls \* the futures it took and has not cancelled yet

callers == <<callFlag, futures, call, future, told>>
callStopper == <<callStop, takenCalls>>
cvars == <<vars, skills, callers, callStopper>>

CInit ==
    /\ Init /\ skills \in Skills
    /\ callFlag = FALSE /\ futures = {}
    /\ call = [c \in Call |-> "none"] /\ future = [c \in Call |-> "none"]
    /\ told = [c \in Call |-> "nothing"]
    /\ callStop = "idle" /\ takenCalls = {}

-----------------------------------------------------------------------------
(* send(), in the threads of the skills.                                   *)

To(c, place) == call' = [call EXCEPT ![c] = place]
Tells(c, what) == told' = [told EXCEPT ![c] = what] /\ To(c, "over")

CallChecks(c) ==
    /\ call[c] = "none" /\ c <= skills.calls
    /\ IF event THEN Tells(c, "refused") ELSE To(c, "checked") /\ UNCHANGED told
    /\ UNCHANGED <<callFlag, futures, future>>

CallResets(c) ==
    /\ call[c] = "checked"
    /\ To(c, "armed") /\ callFlag' = FALSE
    /\ UNCHANGED <<futures, future, told>>

CallSends(c) ==
    /\ call[c] = "armed"
    /\ \/ To(c, "sent") /\ future' = [future EXCEPT ![c] = "open"] /\ UNCHANGED told
       \/ Tells(c, "refused") /\ UNCHANGED future
    /\ UNCHANGED <<callFlag, futures>>

CallWaits(c) ==
    /\ call[c] = "sent"
    /\ To(c, "waiting") /\ futures' = futures \cup {c}
    /\ UNCHANGED <<callFlag, future, told>>

\* The loop ends with the future, with the flag, or with the timeout; the future
\* leaves the list in any case.
Leaves(c, what) == Tells(c, what) /\ futures' = futures \ {c} /\ UNCHANGED callFlag

CallEnds(c) ==
    /\ call[c] = "waiting" /\ future[c] \in {"answered", "dropped"}
    /\ Leaves(c, IF future[c] = "answered" THEN "answer" ELSE "cancelled")
    /\ UNCHANGED future

CallSeesCancel(c) ==
    /\ call[c] = "waiting" /\ future[c] = "open" /\ callFlag
    /\ Leaves(c, "cancelled")
    /\ UNCHANGED future

CallTimesOut(c) ==
    /\ call[c] = "waiting" /\ future[c] = "open" /\ HasTimeout
    /\ Leaves(c, "timeout") /\ future' = [future EXCEPT ![c] = "dropped"]

\* The service answers, with an error where its function raised (ServiceServerAgent), or
\* does not (any other).
ServiceAnswers(c) ==
    /\ future[c] = "open"
    /\ future' = [future EXCEPT ![c] = "answered"]
    /\ UNCHANGED <<callFlag, futures, call, told>>

-----------------------------------------------------------------------------
(* cancel(), in its thread of cancel_all().                                *)

CallsMarked ==
    /\ callStop = "event"
    /\ callStop' = "marked" /\ callFlag' = TRUE
    /\ UNCHANGED <<futures, call, future, told, takenCalls>>

CallsTaken ==
    /\ callStop = "marked"
    /\ callStop' = "taken" /\ takenCalls' = futures /\ futures' = {}
    /\ UNCHANGED <<callFlag, call, future, told>>

\* Mutant: the futures are forgotten, not cancelled; the flag is there for them.
CallForgotten(c) ==
    /\ c \in takenCalls
    /\ takenCalls' = takenCalls \ {c}
    /\ UNCHANGED <<callers, callStop>>

CallDropped(c) ==
    /\ c \in takenCalls
    /\ takenCalls' = takenCalls \ {c}
    /\ future' = [future EXCEPT ![c] = IF @ = "open" THEN "dropped" ELSE @]
    /\ UNCHANGED <<callFlag, futures, call, told, callStop>>

CallsStopped ==
    /\ callStop = "taken" /\ takenCalls = {}
    /\ callStop' = "idle"
    /\ UNCHANGED <<callers, takenCalls>>

-----------------------------------------------------------------------------
CallProceeds(c) ==
    /\ CallResets(c) \/ CallSends(c) \/ CallWaits(c) \/ CallEnds(c) \/ CallSeesCancel(c)
    /\ UNCHANGED callStopper
CallStopProceeds == CallsMarked \/ CallsTaken \/ CallsStopped \/ \E c \in Call : CallDropped(c)

\* The service client's part of a step, and the action client's: a Stop begins
\* with both, and the node is cleared when both are done.
CallStep ==
    /\ \/ CallStopProceeds
       \/ \E c \in Call :
            \/ CallProceeds(c)
            \/ (CallChecks(c) \/ CallTimesOut(c) \/ ServiceAnswers(c)) /\ UNCHANGED callStopper
    /\ UNCHANGED <<vars, skills>>

GoalStep ==
    /\ \/ SendChecks /\ now < skills.goals
       \/ SendProceeds \/ SendTimesOut \/ StopProceeds \/ ServerCancelsAll
       \/ \E g \in Goal : Server(g) \/ Callback(g)
    /\ UNCHANGED <<skills, callers, callStopper>>

\* An agent that nobody has called has nothing to stop.
StopBoth ==
    /\ callStop = "idle" /\ StopNode
    /\ callStop' = IF skills.calls = 0 THEN "idle" ELSE "event"
    /\ UNCHANGED <<skills, callers, takenCalls>>

ClearBoth ==
    /\ callStop = "idle" /\ ClearCancel
    /\ UNCHANGED <<skills, callers, callStopper>>

CNext == CallStep \/ GoalStep \/ StopBoth \/ ClearBoth

\* The threads run; no service has to answer and no timeout to help.
CSpec ==
    /\ CInit /\ [][CNext]_cvars /\ Fairness
    /\ WF_cvars(CallStopProceeds /\ UNCHANGED <<vars, skills>>)
    /\ \A c \in Call : WF_cvars(CallProceeds(c) /\ UNCHANGED <<vars, skills>>)

-----------------------------------------------------------------------------
(* Properties.                                                             *)

CTypeOK ==
    /\ TypeOK
    /\ callFlag \in BOOLEAN /\ futures \subseteq Call /\ takenCalls \subseteq Call
    /\ call \in [Call -> {"none", "checked", "armed", "sent", "waiting", "over"}]
    /\ future \in [Call -> {"none", "open", "answered", "dropped"}]
    /\ told \in [Call -> {"nothing", "answer", "refused", "cancelled", "timeout"}]
    /\ callStop \in {"idle", "event", "marked", "taken"}

(***************************************************************************)
(* cancel(): "the caller stops blocking and the skill unwinds".  A call    *)
(* that waits when a Stop begins returns, though the service never answers *)
(* and another call of the same service takes the agent's flag back.       *)
(***************************************************************************)
StoppedCallsEnd ==
    \A c \in Call : callStop = "event" /\ call[c] = "waiting" ~> call[c] = "over"

\* A Stop ends every wait of a skill that it finds, on the action or on the service.
StoppedWaitsEnd == CancelledSendReturns /\ StoppedCallsEnd

(***************************************************************************)
(* The same of every call the Stop overlaps: when it has been carried out, *)
(* whoever still waits is about to be told.                                *)
(***************************************************************************)
NoCallOutlivesStop ==
    event /\ callStop = "idle" =>
        \A c \in Call : call[c] \in {"sent", "waiting"} /\ future[c] = "open" => callFlag
=============================================================================
