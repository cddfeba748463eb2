------------------------- MODULE ActionClientProofs -------------------------
(* Proofs about ActionClient and ServiceClient, for any number of goals,    *)
(* calls and Stops, with the connection's timeout or without it.            *)
EXTENDS ServiceClient, TLAPS

-----------------------------------------------------------------------------
(* The inductive invariant.                                                 *)

Sending == {"checked", "reset", "cleared"}
Pending == {"sent", "accepted", "rejected", "kept", "watched"}

\* Nothing is known of a goal that was not sent, and a handle that is kept, or
\* about to be, is one of a goal the server took.
SentInOrder ==
    \A g \in Goal :
        /\ response[g] # "none" => g < now \/ (g = now /\ send \notin Sending)
        /\ response[g] = "none" => server[g] = "none"
        /\ server[g] = "requested" => response[g] = "sent"
        /\ response[g] \in {"accepted", "kept", "watched"} =>
                server[g] \in {"executing", "succeeded", "cancelled"}

\* The skills are answered one after the other.
ToldInOrder ==
    /\ \A g \in Goal : outcome[g] # Nothing =>
            g < now \/ (g = now /\ send \in {"idle", "leave"})
    /\ send # "idle" => now \in Goal

\* A goal whose answer can still come was not answered, or its send() left early.
LateIsLeft == \A g \in Goal : response[g] \in Pending => LeftEarly(g)

\* While a send() waits, rev_data is about its goal or came late.
RevKnown ==
    send \in {"cleared", "wait", "read"} /\ rev # Nothing =>
        \/ /\ rev.of = now
           /\ rev.what \in {"timeout", "stopped"} \/ response[now] = "done"
        \/ rev.of \in Goal /\ rev.of < now /\ LeftEarly(rev.of)

IInv == SentInOrder /\ ToldInOrder /\ LateIsLeft /\ RevKnown /\ AnswersOwnGoal

-----------------------------------------------------------------------------
(* Types.                                                                   *)

LEMMA NowNat == now \in 0..MaxGoals => now \in Nat
  BY BoundsAssumption

LEMMA InitTyped == Init => TypeOK
<1> SUFFICES ASSUME Init PROVE TypeOK
  OBVIOUS
<1>1. Nothing \in Answer
  BY BoundsAssumption DEF Nothing, Answer, NoGoal
<1>2. now \in 0..MaxGoals /\ stops \in 0..MaxStops
  BY BoundsAssumption DEF Init, NoGoal
<1> QED
  BY <1>1, <1>2 DEF Init, TypeOK

LEMMA SendTyped == TypeOK /\ SentInOrder /\ ToldInOrder /\ Send => TypeOK'
<1> USE BoundsAssumption DEF TypeOK, Answer, Nothing, NoGoal, Goal, sender, stopper, remote
<1> SUFFICES ASSUME TypeOK, SentInOrder, ToldInOrder, Send PROVE TypeOK'
  OBVIOUS
<1>1. CASE SendChecks
  <2>1. now' \in 1..MaxGoals
    BY <1>1 DEF SendChecks
  <2>2. CASE event
    <3>1. [of |-> now', what |-> "refused"] \in Answer
      BY <2>1
    <3>2. outcome' = [outcome EXCEPT ![now'] = [of |-> now', what |-> "refused"]]
      BY <1>1, <2>2 DEF SendChecks
    <3>3. outcome' \in [Goal -> Answer]
      BY <3>1, <3>2
    <3> QED
      BY <1>1, <2>1, <2>2, <3>3 DEF SendChecks
  <2>3. CASE ~event
    BY <1>1, <2>1, <2>3 DEF SendChecks
  <2> QED
    BY <2>2, <2>3
<1>2. CASE SendResets
  BY <1>2 DEF SendResets
<1>3. CASE SendClears
  BY <1>3 DEF SendClears
<1>4. CASE SendUnavailable
  BY <1>4 DEF SendUnavailable
<1>5. CASE SendGoal
  <2>1. now \in Goal /\ server[now] = "none"
    BY <1>5 DEF SendGoal, SentInOrder, ToldInOrder, Sending
  <2>2. now \notin handles \cup taken \cup asked
    BY <2>1
  <2> QED
    BY <1>5, <2>1, <2>2 DEF SendGoal
<1>6. CASE SendWakes
  BY <1>6 DEF SendWakes
<1>7. CASE SendReads
  BY <1>7 DEF SendReads
<1>8. CASE SendReturns
  BY <1>8 DEF SendReturns
<1>9. CASE SendTimesOut
  BY <1>9 DEF SendTimesOut
<1> QED
  BY <1>1, <1>2, <1>3, <1>4, <1>5, <1>6, <1>7, <1>8, <1>9 DEF Send, SendProceeds

LEMMA RemoteTyped ==
    ASSUME TypeOK, SentInOrder, NEW g \in Goal, Server(g) \/ Callback(g)
    PROVE  TypeOK'
<1> USE BoundsAssumption DEF TypeOK, Answer, Nothing, NoGoal, sender, stopper, remote
<1>0. Goal \subseteq 0..MaxGoals
  BY DEF Goal
<1>1. CASE ServerAccepts(g)
  BY <1>1 DEF ServerAccepts
<1>2. CASE ServerRejects(g)
  BY <1>2 DEF ServerRejects
<1>3. CASE ServerEnds(g)
  BY <1>3 DEF ServerEnds, Moves
<1>4. CASE ServerCancels(g)
  BY <1>4 DEF ServerCancels, Stopped, Moves
<1>5. CASE GoalRejected(g)
  BY <1>0, <1>5 DEF GoalRejected, Put
<1>6. CASE GoalAccepted(g)
  BY <1>6 DEF GoalAccepted, SentInOrder
<1>7. CASE GoalWatched(g)
  BY <1>7 DEF GoalWatched, SentInOrder
<1>8. CASE Result(g)
  <2>1. handles' \subseteq handles
    BY <1>8 DEF Result
  <2>2. rev' \in Answer
    BY <1>0, <1>8 DEF Result, Put
  <2>3. response' \in [Goal -> {"none", "sent", "accepted", "rejected", "kept",
                                "watched", "done"}]
    BY <1>8 DEF Result
  <2> QED
    BY <1>8, <2>1, <2>2, <2>3 DEF Result
<1> QED
  BY <1>1, <1>2, <1>3, <1>4, <1>5, <1>6, <1>7, <1>8 DEF Server, Callback

LEMMA StopTyped == TypeOK /\ (StopNode \/ StopProceeds \/ ClearCancel) => TypeOK'
<1> USE BoundsAssumption DEF TypeOK, Answer, Nothing, NoGoal, sender, stopper, remote
<1>1. TypeOK /\ StopNode => TypeOK'
  BY DEF StopNode
<1>2. TypeOK /\ CancelMarks => TypeOK'
  BY DEF CancelMarks
<1>3. TypeOK /\ CancelTakes => TypeOK'
  BY DEF CancelTakes
<1>4. TypeOK /\ CancelAsks => TypeOK'
  BY DEF CancelAsks
<1>5. TypeOK /\ CancelWakes => TypeOK'
  BY DEF CancelWakes, Put
<1>6. TypeOK /\ ClearCancel => TypeOK'
  BY DEF ClearCancel
<1> QED
  BY <1>1, <1>2, <1>3, <1>4, <1>5, <1>6 DEF StopProceeds

-----------------------------------------------------------------------------
(* The invariant, kept by the skill's thread ...                            *)

LEMMA InitInv == Init => IInv
<1> SUFFICES ASSUME Init PROVE IInv
  OBVIOUS
<1>1. \A g \in Goal : outcome[g] = Nothing /\ response[g] = "none" /\ server[g] = "none"
  BY DEF Init
<1> QED
  BY <1>1 DEF Init, IInv, SentInOrder, ToldInOrder, LateIsLeft, RevKnown, AnswersOwnGoal, Pending

\* A goal that was not numbered yet, or is being prepared, has no answer.
LEMMA Untold ==
    ASSUME TypeOK, ToldInOrder, NEW g \in Goal,
           g > now \/ (g = now /\ send \notin {"idle", "leave"})
    PROVE  outcome[g] = Nothing /\ LeftEarly(g)
<1>1. g \in Nat /\ now \in Nat
  BY BoundsAssumption DEF Goal, TypeOK
<1>2. outcome[g] = Nothing
  BY <1>1 DEF ToldInOrder
<1> QED
  BY <1>1, <1>2 DEF LeftEarly, Nothing, NoGoal, Goal

LEMMA ChecksInv == TypeOK /\ IInv /\ SendChecks => IInv'
<1> SUFFICES ASSUME TypeOK, IInv, SendChecks PROVE IInv'
  OBVIOUS
<1> DEFINE new == now + 1
<1>1. now \in Nat /\ new \in Goal /\ now' = new /\ now < new /\ new > now
  BY BoundsAssumption DEF SendChecks, TypeOK, Goal
<1>2. \A g \in Goal : g \in Nat
  BY DEF Goal
<1>3. outcome[new] = Nothing
  BY <1>1, Untold DEF IInv
<1>4. response[new] = "none"
  BY <1>1, <1>2 DEF IInv, SentInOrder
<1>5. /\ UNCHANGED <<response, server, rev>>
      /\ \A g \in Goal : g # new => outcome'[g] = outcome[g]
      /\ \/ outcome'[new] = [of |-> new, what |-> "refused"] /\ send' = "idle"
         \/ outcome'[new] = Nothing /\ send' = "checked"
  BY <1>1, <1>3 DEF SendChecks, TypeOK, remote
<1>6. SentInOrder'
  BY <1>1, <1>2, <1>4, <1>5 DEF IInv, SentInOrder, Sending
<1>7. ToldInOrder'
  BY <1>1, <1>2, <1>5 DEF IInv, ToldInOrder
<1>8. LateIsLeft'
  BY <1>4, <1>5 DEF IInv, LateIsLeft, LeftEarly, Pending
<1>9. RevKnown'
  BY <1>5 DEF RevKnown
<1>10. AnswersOwnGoal'
  <2> SUFFICES ASSUME NEW g \in Goal, outcome'[g] # Nothing, outcome'[g].of # g
               PROVE  \E h \in Goal : h < g /\ outcome'[g].of = h /\ LeftEarly(h)'
    BY DEF AnswersOwnGoal
  <2>1. g # new
    BY <1>5
  <2>2. outcome'[g] = outcome[g] /\ outcome[g] # Nothing
    BY <1>5, <2>1
  <2>3. PICK h \in Goal : h < g /\ outcome[g].of = h /\ LeftEarly(h)
    BY <2>2 DEF IInv, AnswersOwnGoal
  <2>4. g < new
    BY <1>1, <1>2, <2>2 DEF IInv, ToldInOrder
  <2>5. h # new
    BY <1>1, <1>2, <2>3, <2>4
  <2> QED
    BY <1>5, <2>2, <2>3, <2>5 DEF LeftEarly
<1> QED
  BY <1>6, <1>7, <1>8, <1>9, <1>10 DEF IInv

LEMMA UnavailableInv == TypeOK /\ IInv /\ SendUnavailable => IInv'
<1> SUFFICES ASSUME TypeOK, IInv, SendUnavailable PROVE IInv'
  OBVIOUS
<1>1. now \in Goal /\ \A g \in Goal : g \in Nat
  BY DEF IInv, ToldInOrder, SendUnavailable, Goal
<1>2. response[now] = "none"
  BY <1>1 DEF IInv, SentInOrder, SendUnavailable, Sending
<1>3. outcome[now] = Nothing
  BY <1>1, Untold DEF IInv, SendUnavailable
<1>4. /\ UNCHANGED <<response, server, rev, now>> /\ send' = "idle"
      /\ \A g \in Goal : g # now => outcome'[g] = outcome[g]
      /\ outcome'[now] = [of |-> now, what |-> "refused"]
  BY <1>1 DEF SendUnavailable, TypeOK, remote
<1>5. SentInOrder'
  BY <1>4 DEF IInv, SentInOrder, Sending
<1>6. ToldInOrder'
  BY <1>1, <1>4 DEF IInv, ToldInOrder
<1>7. LateIsLeft'
  BY <1>2, <1>4 DEF IInv, LateIsLeft, LeftEarly, Pending
<1>8. RevKnown'
  BY <1>4 DEF RevKnown
<1>9. AnswersOwnGoal'
  <2> SUFFICES ASSUME NEW g \in Goal, outcome'[g] # Nothing, outcome'[g].of # g
               PROVE  \E h \in Goal : h < g /\ outcome'[g].of = h /\ LeftEarly(h)'
    BY DEF AnswersOwnGoal
  <2>1. g # now /\ outcome'[g] = outcome[g]
    BY <1>4
  <2>2. PICK h \in Goal : h < g /\ outcome[g].of = h /\ LeftEarly(h)
    BY <2>1 DEF IInv, AnswersOwnGoal
  <2>3. h # now
    BY <1>1, <2>1, <2>2 DEF IInv, ToldInOrder
  <2> QED
    BY <1>4, <2>1, <2>2, <2>3 DEF LeftEarly
<1> QED
  BY <1>5, <1>6, <1>7, <1>8, <1>9 DEF IInv

\* What is read is about the goal, or came late of one that was left early.
LEMMA ReadsInv == TypeOK /\ IInv /\ SendReads => IInv'
<1> SUFFICES ASSUME TypeOK, IInv, SendReads PROVE IInv'
  OBVIOUS
<1>1. now \in Goal /\ \A g \in Goal : g \in Nat /\ g # NoGoal
  BY DEF IInv, ToldInOrder, SendReads, Goal, NoGoal
<1>2. outcome[now] = Nothing
  BY <1>1, Untold DEF IInv, SendReads
<1>3. /\ UNCHANGED <<response, server, rev, now>> /\ send' = "leave"
      /\ \A g \in Goal : g # now => outcome'[g] = outcome[g]
      /\ outcome'[now] = rev
  BY <1>1 DEF SendReads, TypeOK, remote
<1>4. SentInOrder'
  BY <1>3 DEF IInv, SentInOrder, Sending, SendReads
<1>5. ToldInOrder'
  BY <1>1, <1>3 DEF IInv, ToldInOrder
<1>6. rev = Nothing \/ (rev.of = now /\ (rev.what \in {"timeout", "stopped"} \/ response[now] = "done"))
        \/ (rev.of \in Goal /\ rev.of < now /\ LeftEarly(rev.of))
  BY DEF IInv, RevKnown, SendReads
<1>7. LateIsLeft'
  <2> SUFFICES ASSUME NEW g \in Goal, response'[g] \in Pending PROVE LeftEarly(g)'
    BY DEF LateIsLeft
  <2>1. CASE g # now
    BY <1>3, <2>1 DEF IInv, LateIsLeft, LeftEarly
  <2>2. CASE g = now
    <3>1. response[now] # "done"
      BY <1>3, <2>2 DEF Pending
    <3>2. rev.of # now \/ rev.what \in {"timeout", "stopped"}
      BY <1>1, <1>6, <3>1 DEF Nothing, NoGoal
    <3> QED
      BY <1>3, <2>2, <3>2 DEF LeftEarly
  <2> QED
    BY <2>1, <2>2
<1>8. RevKnown'
  BY <1>3 DEF RevKnown
<1>9. AnswersOwnGoal'
  <2> SUFFICES ASSUME NEW g \in Goal, outcome'[g] # Nothing, outcome'[g].of # g
               PROVE  \E h \in Goal : h < g /\ outcome'[g].of = h /\ LeftEarly(h)'
    BY DEF AnswersOwnGoal
  <2>1. CASE g # now
    <3>1. outcome'[g] = outcome[g]
      BY <1>3, <2>1
    <3>2. PICK h \in Goal : h < g /\ outcome[g].of = h /\ LeftEarly(h)
      BY <3>1 DEF IInv, AnswersOwnGoal
    <3>3. h # now
      BY <1>1, <1>2, <3>1, <3>2 DEF IInv, ToldInOrder
    <3> QED
      BY <1>3, <3>1, <3>2, <3>3 DEF LeftEarly
  <2>2. CASE g = now
    <3>1. rev.of \in Goal /\ rev.of < now /\ LeftEarly(rev.of)
      BY <1>3, <1>6, <2>2
    <3>2. rev.of # now
      BY <1>1, <3>1
    <3> QED
      BY <1>3, <2>2, <3>1, <3>2 DEF LeftEarly
  <2> QED
    BY <2>1, <2>2
<1> QED
  BY <1>4, <1>5, <1>7, <1>8, <1>9 DEF IInv

LEMMA SendInv == TypeOK /\ IInv /\ Send => IInv'
<1> SUFFICES ASSUME TypeOK, IInv, Send PROVE IInv'
  OBVIOUS
<1> USE DEF remote, stopper, sender
<1>0. \A g \in Goal : g \in Nat
  BY DEF Goal
<1>1. CASE SendChecks
  BY <1>1, ChecksInv
<1>2. CASE SendResets
  BY <1>2 DEF SendResets, IInv, SentInOrder, ToldInOrder, LateIsLeft, LeftEarly, RevKnown,
              AnswersOwnGoal, Sending
<1>3. CASE SendClears
  BY <1>3 DEF SendClears, IInv, SentInOrder, ToldInOrder, LateIsLeft, LeftEarly, RevKnown,
              AnswersOwnGoal, Sending
<1>4. CASE SendUnavailable
  BY <1>4, UnavailableInv
<1>5. CASE SendGoal
  <2>1. now \in Goal /\ response[now] = "none" /\ LeftEarly(now)
    BY <1>0, <1>5, Untold DEF SendGoal, IInv, SentInOrder, ToldInOrder, Sending
  <2>2. /\ UNCHANGED <<rev, now, outcome>> /\ send' = "wait" /\ send = "cleared"
        /\ response'[now] = "sent" /\ server'[now] = "requested"
        /\ \A g \in Goal : g # now => response'[g] = response[g] /\ server'[g] = server[g]
    BY <1>5, <2>1 DEF SendGoal, TypeOK
  <2>3. SentInOrder'
    BY <2>1, <2>2 DEF IInv, SentInOrder, Sending
  <2>4. ToldInOrder'
    BY <2>2 DEF IInv, ToldInOrder
  <2>5. LateIsLeft'
    BY <2>1, <2>2 DEF IInv, LateIsLeft, LeftEarly
  <2>6. RevKnown'
    BY <2>1, <2>2 DEF IInv, RevKnown, LeftEarly
  <2>7. AnswersOwnGoal'
    BY <2>2 DEF IInv, AnswersOwnGoal, LeftEarly
  <2> QED
    BY <2>3, <2>4, <2>5, <2>6, <2>7 DEF IInv
<1>6. CASE SendWakes
  BY <1>6 DEF SendWakes, IInv, SentInOrder, ToldInOrder, LateIsLeft, LeftEarly, RevKnown,
              AnswersOwnGoal, Sending
<1>7. CASE SendReads
  BY <1>7, ReadsInv
<1>8. CASE SendReturns
  BY <1>8 DEF SendReturns, IInv, SentInOrder, ToldInOrder, LateIsLeft, LeftEarly, RevKnown,
              AnswersOwnGoal, Sending
<1>9. CASE SendTimesOut
  BY <1>9 DEF SendTimesOut, IInv, SentInOrder, ToldInOrder, LateIsLeft, LeftEarly, RevKnown,
              AnswersOwnGoal, Sending
<1> QED
  BY <1>1, <1>2, <1>3, <1>4, <1>5, <1>6, <1>7, <1>8, <1>9 DEF Send, SendProceeds

-----------------------------------------------------------------------------
(* ... by the action server and the callbacks ...                           *)

\* What follows for the invariant when only what is on its way changes: a goal
\* that is not pending stays so, and no goal becomes unsent again.
LEMMA RemoteInv ==
    ASSUME TypeOK, IInv, UNCHANGED <<now, send, outcome>>, SentInOrder',
           \A g \in Goal : response'[g] \in Pending => response[g] \in Pending,
           \A g \in Goal : response[g] = "done" => response'[g] = "done",
           \/ UNCHANGED rev
           \/ \E g \in Goal : /\ rev'.of = g /\ response'[g] = "done"
                             /\ response[g] \in Pending
    PROVE  IInv'
<1>1. \A g \in Goal : g \in Nat
  BY DEF Goal
<1>2. ToldInOrder'
  BY DEF IInv, ToldInOrder
<1>3. LateIsLeft'
  BY DEF IInv, LateIsLeft, LeftEarly
<1>4. AnswersOwnGoal'
  BY DEF IInv, AnswersOwnGoal, LeftEarly
<1>5. RevKnown'
  <2> SUFFICES ASSUME send \in {"cleared", "wait", "read"}, rev' # Nothing
               PROVE  \/ /\ rev'.of = now
                         /\ rev'.what \in {"timeout", "stopped"} \/ response'[now] = "done"
                      \/ rev'.of \in Goal /\ rev'.of < now /\ LeftEarly(rev'.of)
    BY DEF RevKnown, LeftEarly
  <2>0. now \in Goal
    BY DEF IInv, ToldInOrder
  <2>1. CASE UNCHANGED rev
    BY <2>0, <2>1 DEF IInv, RevKnown
  <2>2. CASE ~UNCHANGED rev
    <3>1. PICK g \in Goal : rev'.of = g /\ response'[g] = "done" /\ response[g] \in Pending
      BY <2>2
    <3>2. g < now \/ g = now
      BY <3>1 DEF IInv, SentInOrder, Pending
    <3>3. LeftEarly(g)
      BY <3>1 DEF IInv, LateIsLeft
    <3> QED
      BY <1>1, <3>1, <3>2, <3>3
  <2> QED
    BY <2>1, <2>2
<1> QED
  BY <1>2, <1>3, <1>4, <1>5 DEF IInv

LEMMA ServerInv ==
    ASSUME TypeOK, IInv, NEW g \in Goal, Server(g)
    PROVE  IInv'
<1> USE DEF sender, stopper
<1>1. CASE ServerAccepts(g) \/ ServerRejects(g)
  <2>1. server[g] = "requested" /\ response[g] = "sent"
    BY <1>1 DEF ServerAccepts, ServerRejects, IInv, SentInOrder
  <2>2. /\ UNCHANGED <<rev, now, send, outcome>>
        /\ \A h \in Goal : h # g => response'[h] = response[h] /\ server'[h] = server[h]
        /\ \/ response'[g] = "accepted" /\ server'[g] = "executing"
           \/ response'[g] = "rejected" /\ server'[g] = "rejected"
    BY <1>1 DEF ServerAccepts, ServerRejects, TypeOK
  <2>3. SentInOrder'
    BY <2>1, <2>2 DEF IInv, SentInOrder, Sending
  <2> QED
    BY <2>1, <2>2, <2>3, RemoteInv DEF Pending
<1>2. CASE ServerEnds(g) \/ ServerCancels(g)
  <2>1. UNCHANGED <<rev, now, send, outcome, response>>
    BY <1>2 DEF ServerEnds, ServerCancels
  <2>2. \A h \in Goal : server'[h] # server[h] =>
            server[h] = "executing" /\ server'[h] \in {"succeeded", "cancelled"}
    BY <1>2 DEF ServerEnds, ServerCancels, Stopped, Moves, TypeOK
  <2>3. SentInOrder'
    BY <2>1, <2>2 DEF IInv, SentInOrder, Sending
  <2> QED
    BY <2>1, <2>3, RemoteInv
<1> QED
  BY <1>1, <1>2 DEF Server

LEMMA CallbackInv ==
    ASSUME TypeOK, IInv, NEW g \in Goal, Callback(g)
    PROVE  IInv'
<1> USE DEF sender, stopper, remote
<1>1. CASE GoalAccepted(g) \/ GoalWatched(g)
  <2>1. /\ UNCHANGED <<rev, now, send, outcome, server>>
        /\ \A h \in Goal : h # g => response'[h] = response[h]
        /\ \/ response[g] = "accepted" /\ response'[g] = "kept"
           \/ response[g] = "kept" /\ response'[g] = "watched"
    BY <1>1 DEF GoalAccepted, GoalWatched, TypeOK
  <2>2. SentInOrder'
    BY <2>1 DEF IInv, SentInOrder, Sending
  <2> QED
    BY <2>1, <2>2, RemoteInv DEF Pending
<1>2. CASE GoalRejected(g) \/ Result(g)
  <2>1. /\ UNCHANGED <<now, send, outcome, server>> /\ rev'.of = g
        /\ \A h \in Goal : h # g => response'[h] = response[h]
        /\ response[g] \in {"rejected", "watched"} /\ response'[g] = "done"
    BY <1>2 DEF GoalRejected, Result, Put, TypeOK
  <2>2. SentInOrder'
    BY <2>1 DEF IInv, SentInOrder, Sending
  <2> QED
    BY <2>1, <2>2, RemoteInv DEF Pending
<1> QED
  BY <1>1, <1>2 DEF Callback

-----------------------------------------------------------------------------
(* ... and by a Stop.                                                       *)

LEMMA StopInv == TypeOK /\ IInv /\ (StopNode \/ StopProceeds \/ ClearCancel) => IInv'
<1> USE DEF sender, stopper, remote
<1> SUFFICES ASSUME TypeOK, IInv, StopNode \/ StopProceeds \/ ClearCancel PROVE IInv'
  OBVIOUS
<1>1. /\ UNCHANGED <<now, send, outcome, response, server>>
      /\ \/ UNCHANGED rev
         \/ rev'.of = (IF send = "idle" THEN NoGoal ELSE now) /\ rev'.what = "stopped"
  BY DEF StopNode, StopProceeds, CancelMarks, CancelTakes, CancelAsks, CancelWakes,
         ClearCancel, Put
<1>2. SentInOrder'
  BY <1>1 DEF IInv, SentInOrder, Sending
<1>3. ToldInOrder' /\ LateIsLeft' /\ AnswersOwnGoal'
  BY <1>1 DEF IInv, ToldInOrder, LateIsLeft, AnswersOwnGoal, LeftEarly
<1>4. RevKnown'
  BY <1>1 DEF IInv, RevKnown, LeftEarly
<1> QED
  BY <1>2, <1>3, <1>4 DEF IInv

LEMMA StepInv == TypeOK /\ IInv /\ [Next]_vars => TypeOK' /\ IInv'
<1> SUFFICES ASSUME TypeOK, IInv, [Next]_vars PROVE TypeOK' /\ IInv'
  OBVIOUS
<1>1. CASE Send
  BY <1>1, SendTyped, SendInv DEF IInv
<1>2. CASE StopNode \/ StopProceeds \/ ClearCancel
  BY <1>2, StopTyped, StopInv
<1>3. CASE \E g \in Goal : Server(g) \/ Callback(g)
  BY <1>3, RemoteTyped, ServerInv, CallbackInv DEF IInv
<1>4. CASE ServerCancelsAll
  <2>1. TypeOK'
    BY <1>4 DEF TypeOK, ServerCancelsAll, Stopped, Moves, sender, stopper
  <2>2. /\ UNCHANGED <<rev, now, send, outcome, response>>
        /\ \A h \in Goal : server'[h] # server[h] =>
                server[h] = "executing" /\ server'[h] = "cancelled"
    BY <1>4 DEF ServerCancelsAll, Stopped, Moves, TypeOK, sender, stopper
  <2>3. SentInOrder'
    BY <2>2 DEF IInv, SentInOrder, Sending
  <2> QED
    BY <2>1, <2>2, <2>3, RemoteInv
<1>5. CASE UNCHANGED vars
  <2> USE DEF vars, sender, stopper, remote
  <2>1. TypeOK'
    BY <1>5 DEF TypeOK
  <2>2. SentInOrder'
    BY <1>5 DEF IInv, SentInOrder, Sending
  <2> QED
    BY <1>5, <2>1, <2>2, RemoteInv
<1> QED
  BY <1>1, <1>2, <1>3, <1>4, <1>5 DEF Next

-----------------------------------------------------------------------------
(* Both agents of the node.                                                 *)

\* A step of the two agents is one of the action client, or leaves it alone.
LEMMA ActionSteps == ASSUME CNext PROVE [Next]_vars
  BY DEF CNext, CallStep, GoalStep, StopBoth, ClearBoth, Next, Send

LEMMA CallSteps ==
    ASSUME CTypeOK, [CNext]_cvars
    PROVE  /\ callFlag' \in BOOLEAN /\ futures' \subseteq Call /\ takenCalls' \subseteq Call
           /\ call' \in [Call -> {"none", "checked", "armed", "sent", "waiting", "over"}]
           /\ future' \in [Call -> {"none", "open", "answered", "dropped"}]
           /\ told' \in [Call -> {"nothing", "answer", "refused", "cancelled", "timeout"}]
           /\ callStop' \in {"idle", "event", "marked", "taken"}
<1> USE DEF CTypeOK, callers, callStopper
<1>1. CASE CallStopProceeds
  BY <1>1 DEF CallStopProceeds, CallsMarked, CallsTaken, CallsStopped, CallDropped
<1>2. ASSUME NEW c \in Call, CallProceeds(c)
      PROVE  callStop' = callStop /\ takenCalls' = takenCalls /\ callFlag' \in BOOLEAN
             /\ futures' \subseteq Call
             /\ call' \in [Call -> {"none", "checked", "armed", "sent", "waiting", "over"}]
             /\ future' \in [Call -> {"none", "open", "answered", "dropped"}]
             /\ told' \in [Call -> {"nothing", "answer", "refused", "cancelled", "timeout"}]
  <2>1. CASE CallResets(c)
    BY <1>2, <2>1 DEF CallProceeds, CallResets, To
  <2>2. CASE CallSends(c)
    BY <1>2, <2>2 DEF CallProceeds, CallSends, To, Tells
  <2>3. CASE CallWaits(c)
    BY <1>2, <2>3 DEF CallProceeds, CallWaits, To
  <2>4. CASE CallEnds(c)
    BY <1>2, <2>4 DEF CallProceeds, CallEnds, Leaves, Tells, To
  <2>5. CASE CallSeesCancel(c)
    BY <1>2, <2>5 DEF CallProceeds, CallSeesCancel, Leaves, Tells, To
  <2> QED
    BY <1>2, <2>1, <2>2, <2>3, <2>4, <2>5 DEF CallProceeds
<1>3. ASSUME NEW c \in Call, CallChecks(c) \/ CallTimesOut(c) \/ ServiceAnswers(c)
      PROVE  callFlag' \in BOOLEAN /\ futures' \subseteq Call
             /\ call' \in [Call -> {"none", "checked", "armed", "sent", "waiting", "over"}]
             /\ future' \in [Call -> {"none", "open", "answered", "dropped"}]
             /\ told' \in [Call -> {"nothing", "answer", "refused", "cancelled", "timeout"}]
  BY <1>3 DEF CallChecks, CallTimesOut, ServiceAnswers, Leaves, Tells, To
<1>4. CASE CallStep
  BY <1>1, <1>2, <1>3, <1>4 DEF CallStep
<1>5. CASE GoalStep \/ StopBoth \/ ClearBoth \/ UNCHANGED cvars
  BY <1>5 DEF GoalStep, StopBoth, ClearBoth, cvars
<1> QED
  BY <1>4, <1>5 DEF CNext

(***************************************************************************)
(* The fields of both agents keep their types, and whatever handle is      *)
(* kept, taken or cancelled is one of a goal the server accepted           *)
(* (ActionClientAgent._goal_handles, ServiceClientAgent._futures).         *)
(***************************************************************************)
THEOREM TypeCorrect == CSpec => []CTypeOK
<1>1. CInit => CTypeOK /\ IInv
  <2>1. CInit => TypeOK /\ IInv
    BY InitTyped, InitInv DEF CInit
  <2> QED
    BY <2>1 DEF CInit, CTypeOK
<1>2. (CTypeOK /\ IInv) /\ [CNext]_cvars => (CTypeOK /\ IInv)'
  <2> SUFFICES ASSUME CTypeOK, IInv, [CNext]_cvars PROVE CTypeOK' /\ IInv'
    OBVIOUS
  <2>1. [Next]_vars
    BY ActionSteps DEF cvars
  <2>2. TypeOK' /\ IInv'
    BY <2>1, StepInv DEF CTypeOK
  <2> QED
    BY <2>2, CallSteps DEF CTypeOK
<1> QED
  BY <1>1, <1>2, PTL DEF CSpec

(***************************************************************************)
(* The wait of send() on rev_data: a skill is told of its own goal, or of  *)
(* an earlier one whose send() had left early, in every order of the       *)
(* skills, the callbacks and the Stops.                                    *)
(***************************************************************************)
THEOREM OwnGoalAnswered == CSpec => []AnswersOwnGoal
<1>1. CInit => TypeOK /\ IInv
  BY InitTyped, InitInv DEF CInit
<1>2. (TypeOK /\ IInv) /\ [CNext]_cvars => (TypeOK /\ IInv)'
  <2> SUFFICES ASSUME TypeOK, IInv, [CNext]_cvars PROVE TypeOK' /\ IInv'
    OBVIOUS
  <2>1. [Next]_vars
    BY ActionSteps DEF cvars
  <2> QED
    BY <2>1, StepInv
<1>3. IInv => AnswersOwnGoal
  BY DEF IInv
<1> QED
  BY <1>1, <1>2, <1>3, PTL DEF CSpec
=============================================================================
