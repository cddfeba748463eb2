------------------------------- MODULE Dialog -------------------------------
(***************************************************************************)
(* interact/dialog.py with the question state of Run and the ANSWER branch *)
(* of RunManager.inject (interact/run_manager.py): the executive asks one  *)
(* question after the other through the robot's Ask skill (`io`, which     *)
(* says the question and then listens, in a thread of its own) while       *)
(* anybody may type an answer into the run or stop it.  The first of the   *)
(* three ends the ask.  `io` is external here; what it waits for in the    *)
(* browser, and how a typed answer and a Stop end that, is module Listens. *)
(***************************************************************************)
EXTENDS Naturals

CONSTANTS
    MaxAsks, \* bound: questions asked
    MaxSays  \* bound: utterances typed into the run

ASSUME BoundsAssumption == MaxAsks \in Nat /\ MaxSays \in Nat

Ask == 1..MaxAsks
Utterance == 1..MaxSays
NoQuestion == 0
NoAnswer == 0

Outcome == [kind : {"none", "typed", "heard", "silent", "stopped"}, by : 0..MaxSays]
Undecided == [kind |-> "none", by |-> NoAnswer]

VARIABLES
    question, \* Run._question: the ask it belongs to
    answer,   \* Run._answer: the utterance
    answered, \* Run._answered (an Event)
    cancel,   \* Run._cancel (an Event)
    pc,       \* where the executive stands
    asks,     \* the ask it is at: asks are numbered in order
    io,       \* the robot's side of each ask
    outcome,  \* what each ask returned
    say,      \* where the inject() of each utterance stands
    delivered \* history: the ask an utterance was accepted as the answer of

run == <<question, answer, answered, cancel>>
executive == <<pc, asks, outcome>>
clients == <<say, delivered>>
vars == <<run, executive, io, clients>>

Init ==
    /\ question = NoQuestion /\ answer = NoAnswer
    /\ answered = FALSE /\ cancel = FALSE
    /\ pc = "idle" /\ asks = 0
    /\ io = [n \in Ask |-> "none"]
    /\ outcome = [n \in Ask |-> Undecided]
    /\ say = [u \in Utterance |-> "unsaid"]
    /\ delivered = [u \in Utterance |-> NoQuestion]

-----------------------------------------------------------------------------
(* Run.                                                                    *)

\* Mutants: the answer to the question before, or its event, is not taken away.
SetAwaitingOnly(q) == question' = q /\ UNCHANGED <<answer, answered>>
SetAwaitingForText(q) == question' = q /\ answer' = NoAnswer /\ UNCHANGED answered

SetAwaiting(q) == question' = q /\ answer' = NoAnswer /\ answered' = FALSE

\* poll_answer(0): the typed answer, if there is one and the run is not stopped.
Typed == IF answered /\ ~cancel THEN answer ELSE NoAnswer

-----------------------------------------------------------------------------
(* dialog.ask, in the executive's thread.                                  *)

Return(kind, by) == outcome' = [outcome EXCEPT ![asks] = [kind |-> kind, by |-> by]]

AskQuestion ==
    /\ pc = "idle" /\ asks < MaxAsks
    /\ asks' = asks + 1
    /\ SetAwaiting(asks')
    /\ io' = [io EXCEPT ![asks'] = "saying"]
    /\ pc' = "poll"
    /\ UNCHANGED <<cancel, outcome, clients>>

\* Mutant: only the robot is listened to, until it has heard something.
PollLater ==
    /\ pc = "poll"
    /\ pc' = "stop"
    /\ UNCHANGED <<run, asks, io, outcome, clients>>

PollTyped ==
    /\ pc = "poll"
    /\ IF Typed # NoAnswer
       THEN Return("typed", Typed) /\ pc' = "release"
       ELSE pc' = "stop" /\ UNCHANGED outcome
    /\ UNCHANGED <<run, asks, io, clients>>

\* The robot's listens are ended (what that takes: Listens).
Release ==
    /\ pc = "release"
    /\ pc' = "join"
    /\ UNCHANGED <<run, asks, io, outcome, clients>>

\* t.join(join_s): the end of `io`, or two seconds.
Join ==
    /\ pc = "join"
    /\ pc' = "leave"
    /\ UNCHANGED <<run, asks, io, outcome, clients>>

\* Mutant: a stop is left to the robot's answer.
CheckNoStop ==
    /\ pc = "stop"
    /\ pc' = "wait"
    /\ UNCHANGED <<run, asks, io, outcome, clients>>

CheckStop ==
    /\ pc = "stop"
    /\ IF cancel
       THEN Return("stopped", NoAnswer) /\ pc' = "leave"
       ELSE pc' = "wait" /\ UNCHANGED outcome
    /\ UNCHANGED <<run, asks, io, clients>>

\* done.wait(poll)
Heard == io[asks] \in {"heard", "silent"}
WaitForRobot ==
    /\ pc = "wait"
    /\ pc' = IF Heard THEN "last" ELSE "poll"
    /\ UNCHANGED <<run, asks, io, outcome, clients>>

\* "An answer typed in the same instant wins."
LastLook ==
    /\ pc = "last"
    /\ IF Typed # NoAnswer THEN Return("typed", Typed) ELSE Return(io[asks], NoAnswer)
    /\ pc' = "leave"
    /\ UNCHANGED <<run, asks, io, clients>>

\* Mutant: no `finally`.
LeaveAtOnce ==
    /\ pc = "leave"
    /\ pc' = "idle"
    /\ UNCHANGED <<run, asks, io, outcome, clients>>

\* The `finally`: the question is withdrawn if nobody answered it, ...
Leave ==
    /\ pc = "leave"
    /\ pc' = IF question = asks THEN "withdraw" ELSE "idle"
    /\ UNCHANGED <<run, asks, io, outcome, clients>>

\* ... or if somebody does so just now.
Withdraw ==
    /\ pc = "withdraw"
    /\ SetAwaiting(NoQuestion)
    /\ pc' = "idle"
    /\ UNCHANGED <<cancel, asks, io, outcome, clients>>

-----------------------------------------------------------------------------
(* The robot's Ask skill (external), and the people.                       *)

IoListens(n) ==
    /\ io[n] = "saying"
    /\ io' = [io EXCEPT ![n] = "listening"]
    /\ UNCHANGED <<run, executive, clients>>

IoEnds(n) ==
    /\ io[n] \in {"saying", "listening"}
    /\ io' \in {[io EXCEPT ![n] = "heard"], [io EXCEPT ![n] = "silent"]}
    /\ UNCHANGED <<run, executive, clients>>

\* inject(): while a question waits the router takes what is said for an ANSWER, unless it
\* is a command (a keyword: stop, pause, resume).
Classify(u) ==
    /\ say[u] = "unsaid" /\ question # NoQuestion
    /\ say' = [say EXCEPT ![u] = "answer"]
    /\ UNCHANGED <<run, executive, io, delivered>>

\* Mutant: the question stays open after its answer.
DeliverOpen(u) ==
    /\ say[u] = "answer"
    /\ IF question # NoQuestion
       THEN /\ answer' = u /\ answered' = TRUE
            /\ say' = [say EXCEPT ![u] = "answered"]
            /\ delivered' = [delivered EXCEPT ![u] = question]
       ELSE /\ say' = [say EXCEPT ![u] = "queued"]
            /\ UNCHANGED <<answer, answered, delivered>>
    /\ UNCHANGED <<question, cancel, executive, io>>

\* Run._deliver_answer; with no question any more the answer is queued as NEW.
Deliver(u) ==
    /\ say[u] = "answer"
    /\ IF question # NoQuestion
       THEN /\ question' = NoQuestion /\ answer' = u /\ answered' = TRUE
            /\ say' = [say EXCEPT ![u] = "answered"]
            /\ delivered' = [delivered EXCEPT ![u] = question]
       ELSE /\ say' = [say EXCEPT ![u] = "queued"]
            /\ UNCHANGED <<question, answer, answered, delivered>>
    /\ UNCHANGED <<cancel, executive, io>>

\* Run._cancel_now.
Stop ==
    /\ ~cancel
    /\ cancel' = TRUE /\ answered' = TRUE
    /\ UNCHANGED <<question, answer, executive, io, clients>>

-----------------------------------------------------------------------------
Proceed ==
    \/ PollTyped \/ Release \/ Join \/ CheckStop \/ WaitForRobot \/ LastLook \/ Leave \/ Withdraw

Next ==
    \/ AskQuestion \/ Proceed
    \/ \E n \in Ask : IoListens(n) \/ IoEnds(n)
    \/ \E u \in Utterance : Classify(u) \/ Deliver(u)
    \/ Stop

(***************************************************************************)
(* The executive's thread runs.  The robot need not hear anything, nobody  *)
(* needs to answer.                                                        *)
(***************************************************************************)
Spec == Init /\ [][Next]_vars
FairSpec == Spec /\ WF_vars(Proceed)

-----------------------------------------------------------------------------
(* Properties.                                                             *)

\* An event without an answer means a stop: otherwise an ask would return "".
TypeOK ==
    /\ question \in 0..MaxAsks /\ answer \in 0..MaxSays
    /\ answered \in BOOLEAN /\ cancel \in BOOLEAN
    /\ pc \in {"idle", "poll", "release", "join", "stop", "wait", "last", "leave", "withdraw"}
    /\ asks \in 0..MaxAsks
    /\ io \in [Ask -> {"none", "saying", "listening", "heard", "silent"}]
    /\ outcome \in [Ask -> Outcome]
    /\ say \in [Utterance -> {"unsaid", "answer", "answered", "queued"}]
    /\ delivered \in [Utterance -> 0..MaxAsks]
    /\ answered /\ ~cancel => answer # NoAnswer

(***************************************************************************)
(* A typed answer is returned by the ask it was accepted for and by no     *)
(* later one, although it lies in the run until the next question is set,  *)
(* and may have come too late for its own ask to see it.                   *)
(***************************************************************************)
AnswersOwnQuestion ==
    \A n \in Ask : outcome[n].kind = "typed" => delivered[outcome[n].by] = n

(***************************************************************************)
(* Of several people who answer the same question one is told "answered";  *)
(* nobody's accepted answer is overwritten by the next one's, which is     *)
(* queued as a command instead.                                            *)
(***************************************************************************)
AnsweredOnce ==
    \A u, v \in Utterance :
        delivered[u] = delivered[v] /\ delivered[u] # NoQuestion => u = v

(***************************************************************************)
(* Nothing that is said between two asks is taken for an answer: the run   *)
(* waits on no question then, however the ask before ended.                *)
(***************************************************************************)
NoOpenQuestion == pc = "idle" => question = NoQuestion

(***************************************************************************)
(* A stop, or an answer, ends the ask even though the robot's listen would *)
(* go on for ever.                                                         *)
(***************************************************************************)
AskEnds ==
    /\ (cancel /\ pc # "idle") ~> pc = "idle"
    /\ (answered /\ pc = "poll") ~> pc = "idle"

(***************************************************************************)
(* docs/run_manager.md: an ANSWER is delivered to the waiting ask, "if no  *)
(* question is pending any more, it is queued as NEW"; a test: it is "not  *)
(* lost".  When an ask has returned and nobody stopped the run, what was   *)
(* accepted as its answer is what it returned.                             *)
(***************************************************************************)
AnswerNotLost ==
    ~cancel => \A u \in Utterance, n \in Ask :
        delivered[u] = n /\ (n < asks \/ pc = "idle") => outcome[n].by = u
=============================================================================
