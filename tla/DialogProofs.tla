---------------------------- MODULE DialogProofs ----------------------------
(* Proofs about Dialog and Listens, for any number of questions and         *)
(* utterances and whatever the skill opens in the browser: who is told      *)
(* what, in every order of the ask, the people and a Stop.                  *)
EXTENDS Listens, TLAPS

-----------------------------------------------------------------------------
(* The inductive invariant.                                                 *)

\* Between a question and its end the executive is at an ask, and its last look
\* comes when the robot has ended.
AtAsk ==
    /\ pc # "idle" => asks \in Ask
    /\ pc = "last" => io[asks] \in {"heard", "silent"}

\* The question that waits is the one the executive is at.
OneQuestion == question \in {NoQuestion, asks}

\* An answer belongs to a question that was asked, and an utterance is the answer
\* of one question at most.
DeliveredOnce ==
    /\ \A u \in Utterance : delivered[u] # NoQuestion =>
            delivered[u] <= asks /\ say[u] = "answered"
    /\ question # NoQuestion => \A u \in Utterance : delivered[u] # question

\* The answer that lies in the run is one to the question asked last.
AnswerOfLast == answer # NoAnswer => answer \in Utterance /\ delivered[answer] = asks

\* What an ask returned as typed was typed.
TypedByPeople == \A n \in Ask : outcome[n].kind = "typed" => outcome[n].by \in Utterance

IInv ==
    /\ TypeOK /\ AtAsk /\ OneQuestion /\ DeliveredOnce /\ AnswerOfLast /\ TypedByPeople
    /\ AnswersOwnQuestion /\ AnsweredOnce /\ NoOpenQuestion

LEMMA Bounds == NoQuestion \in 0..MaxAsks /\ NoAnswer \in 0..MaxSays
  BY BoundsAssumption DEF NoQuestion, NoAnswer

LEMMA InitInv == Init => IInv
<1> SUFFICES ASSUME Init PROVE IInv
  OBVIOUS
<1>1. Undecided \in Outcome
  BY BoundsAssumption DEF Undecided, Outcome, NoAnswer
<1>2. asks \in 0..MaxAsks
  BY Bounds DEF Init, NoQuestion
<1>3. TypeOK
  BY <1>1, <1>2, Bounds DEF Init, TypeOK
<1> QED
  BY <1>3 DEF Init, IInv, AtAsk, OneQuestion, DeliveredOnce, AnswerOfLast, TypedByPeople,
     AnswersOwnQuestion, AnsweredOnce, NoOpenQuestion, NoQuestion, Undecided

-----------------------------------------------------------------------------
(* The steps of the executive.                                              *)

\* A new question is one nobody answered yet.
LEMMA AskInv == IInv /\ AskQuestion => IInv'
<1> SUFFICES ASSUME IInv, AskQuestion PROVE IInv'
  OBVIOUS
<1> USE DEF clients
<1>1. /\ asks \in Nat /\ asks' = asks + 1 /\ asks' \in Ask /\ asks' # NoQuestion
      /\ question' = asks' /\ answer' = NoAnswer /\ answered' = FALSE /\ pc' = "poll"
      /\ UNCHANGED <<cancel, outcome, say, delivered>>
  BY BoundsAssumption DEF IInv, TypeOK, AskQuestion, SetAwaiting, Ask, NoQuestion
<1>2. \A u \in Utterance : delivered[u] # NoQuestion => delivered[u] < asks' /\ delivered[u] \in Nat
  BY <1>1, BoundsAssumption DEF IInv, DeliveredOnce, TypeOK
<1>3. TypeOK'
  <2>1. asks' \in 0..MaxAsks
    BY <1>1 DEF Ask
  <2>2. io' \in [Ask -> {"none", "saying", "listening", "heard", "silent"}]
    BY DEF AskQuestion, IInv, TypeOK
  <2> QED
    BY <1>1, <2>1, <2>2, Bounds DEF IInv, TypeOK
<1>4. DeliveredOnce'
  BY <1>1, <1>2 DEF IInv, DeliveredOnce
<1>5. AtAsk' /\ OneQuestion' /\ AnswerOfLast' /\ TypedByPeople' /\ NoOpenQuestion'
  BY <1>1 DEF IInv, AtAsk, OneQuestion, AnswerOfLast, TypedByPeople, NoOpenQuestion
<1>6. AnswersOwnQuestion' /\ AnsweredOnce'
  BY <1>1 DEF IInv, AnswersOwnQuestion, AnsweredOnce
<1> QED
  BY <1>3, <1>4, <1>5, <1>6 DEF IInv

\* A typed answer that is returned is the answer to the question asked last.
LEMMA ReturnTyped ==
    ASSUME IInv, Typed # NoAnswer
    PROVE  Typed \in Utterance /\ delivered[Typed] = asks
  BY DEF IInv, AnswerOfLast, Typed

LEMMA ReturnInv ==
    ASSUME IInv, asks \in Ask, UNCHANGED <<run, asks, io, clients>>,
           NEW kind, NEW by, Return(kind, by),
           \/ kind = "typed" /\ by \in Utterance /\ delivered[by] = asks
           \/ kind \in {"heard", "silent", "stopped"} /\ by = NoAnswer
    PROVE  /\ outcome' \in [Ask -> Outcome]
           /\ TypedByPeople' /\ AnswersOwnQuestion'
<1> USE DEF clients
<1>1. [kind |-> kind, by |-> by] \in Outcome
  BY BoundsAssumption DEF Outcome, NoAnswer, Utterance
<1>2. outcome' \in [Ask -> Outcome]
  BY <1>1 DEF Return, IInv, TypeOK
<1>3. outcome'[asks] = [kind |-> kind, by |-> by]
      /\ \A n \in Ask : n # asks => outcome'[n] = outcome[n]
  BY DEF Return, IInv, TypeOK
<1> QED
  BY <1>2, <1>3 DEF IInv, TypedByPeople, AnswersOwnQuestion

LEMMA ProceedInv == IInv /\ Proceed => IInv'
<1> SUFFICES ASSUME IInv, Proceed PROVE IInv'
  OBVIOUS
<1> USE DEF run, clients
<1>0. asks \in Ask /\ asks # NoQuestion
  BY DEF IInv, AtAsk, Proceed, PollTyped, Release, Join, CheckStop, WaitForRobot, LastLook,
     Leave, Withdraw, Ask, NoQuestion
<1>1. CASE UNCHANGED <<run, outcome>> /\ (Release \/ Join \/ WaitForRobot \/ Leave \/ PollTyped \/ CheckStop)
  <2>1. /\ UNCHANGED <<run, asks, io, clients, outcome>>
        /\ pc' \in {"release", "join", "stop", "wait", "last", "leave", "withdraw", "poll", "idle"}
        /\ pc' = "last" => io[asks] \in {"heard", "silent"}
        /\ pc' = "idle" => question # asks
    BY <1>1 DEF Release, Join, WaitForRobot, Leave, PollTyped, CheckStop, Heard, IInv, TypeOK
  <2>2. TypeOK'
    BY <2>1 DEF IInv, TypeOK
  <2>3. NoOpenQuestion'
    BY <2>1 DEF IInv, NoOpenQuestion, OneQuestion
  <2> QED
    BY <1>0, <2>1, <2>2, <2>3 DEF IInv, AtAsk, OneQuestion, DeliveredOnce, AnswerOfLast,
       TypedByPeople, AnswersOwnQuestion, AnsweredOnce
<1>2. ASSUME NEW kind, NEW by, Return(kind, by), UNCHANGED <<run, asks, io, clients>>,
             pc' \in {"release", "leave"},
             \/ kind = "typed" /\ by \in Utterance /\ delivered[by] = asks
             \/ kind \in {"heard", "silent", "stopped"} /\ by = NoAnswer
      PROVE  IInv'
  <2>1. outcome' \in [Ask -> Outcome] /\ TypedByPeople' /\ AnswersOwnQuestion'
    BY <1>0, <1>2, ReturnInv
  <2>2. TypeOK'
    BY <1>2, <2>1 DEF IInv, TypeOK
  <2> QED
    BY <1>0, <1>2, <2>1, <2>2 DEF IInv, AtAsk, OneQuestion, DeliveredOnce, AnswerOfLast,
       AnsweredOnce, NoOpenQuestion
<1>3. CASE PollTyped
  <2>1. CASE Typed # NoAnswer
    BY <1>2, <1>3, <2>1, ReturnTyped DEF PollTyped
  <2>2. CASE Typed = NoAnswer
    BY <1>1, <1>3, <2>2 DEF PollTyped
  <2> QED
    BY <2>1, <2>2
<1>4. CASE CheckStop
  <2>1. CASE cancel
    BY <1>2, <1>4, <2>1 DEF CheckStop
  <2>2. CASE ~cancel
    BY <1>1, <1>4, <2>2 DEF CheckStop
  <2> QED
    BY <2>1, <2>2
<1>5. CASE LastLook
  <2>1. CASE Typed # NoAnswer
    BY <1>2, <1>5, <2>1, ReturnTyped DEF LastLook
  <2>2. CASE Typed = NoAnswer
    <3>1. io[asks] \in {"heard", "silent"}
      BY <1>5 DEF LastLook, IInv, AtAsk
    <3> QED
      BY <1>2, <1>5, <2>2, <3>1 DEF LastLook
  <2> QED
    BY <2>1, <2>2
<1>6. CASE Release \/ Join \/ WaitForRobot \/ Leave
  BY <1>1, <1>6 DEF Release, Join, WaitForRobot, Leave
<1>7. CASE Withdraw
  <2>1. /\ question' = NoQuestion /\ answer' = NoAnswer /\ answered' = FALSE /\ pc' = "idle"
        /\ UNCHANGED <<cancel, asks, io, outcome, clients>>
    BY <1>7 DEF Withdraw, SetAwaiting
  <2>2. TypeOK'
    BY <2>1, Bounds DEF IInv, TypeOK
  <2> QED
    BY <2>1, <2>2 DEF IInv, AtAsk, OneQuestion, DeliveredOnce, AnswerOfLast,
       TypedByPeople, AnswersOwnQuestion, AnsweredOnce, NoOpenQuestion
<1> QED
  BY <1>3, <1>4, <1>5, <1>6, <1>7 DEF Proceed

-----------------------------------------------------------------------------
(* The steps of the others.                                                 *)

\* Whoever answers first is told so; his answer is one to the open question.
LEMMA DeliverInv == ASSUME IInv, NEW u \in Utterance, Deliver(u) PROVE IInv'
<1> USE DEF executive
<1>1. CASE question # NoQuestion
  <2>1. /\ question' = NoQuestion /\ answer' = u /\ answered' = TRUE
        /\ say'[u] = "answered" /\ delivered'[u] = question
        /\ \A v \in Utterance : v # u => say'[v] = say[v] /\ delivered'[v] = delivered[v]
        /\ UNCHANGED <<cancel, executive, io>>
    BY <1>1 DEF Deliver, IInv, TypeOK
  <2>2. question = asks /\ delivered[u] = NoQuestion /\ \A v \in Utterance : delivered[v] # asks
    BY <1>1 DEF IInv, OneQuestion, DeliveredOnce, Deliver
  <2>3. u \in 0..MaxSays /\ u # NoAnswer
    BY BoundsAssumption DEF Utterance, NoAnswer
  <2>4. TypeOK'
    BY <1>1, <2>1, <2>3, BoundsAssumption DEF IInv, TypeOK, Deliver, NoQuestion
  <2>5. DeliveredOnce'
    <3>1. asks <= asks
      BY BoundsAssumption DEF IInv, TypeOK
    <3> QED
      BY <2>1, <2>2, <3>1 DEF IInv, DeliveredOnce
  <2>6. AnswersOwnQuestion'
    <3> SUFFICES ASSUME NEW n \in Ask, outcome[n].kind = "typed"
                 PROVE  delivered'[outcome[n].by] = n
      BY <2>1 DEF AnswersOwnQuestion
    <3>1. outcome[n].by \in Utterance /\ delivered[outcome[n].by] = n
      BY DEF IInv, TypedByPeople, AnswersOwnQuestion
    <3>2. n # NoQuestion
      BY DEF Ask, NoQuestion
    <3> QED
      BY <2>1, <2>2, <3>1, <3>2
  <2>7. AnsweredOnce'
    BY <2>1, <2>2 DEF IInv, AnsweredOnce
  <2> QED
    BY <2>1, <2>2, <2>4, <2>5, <2>6, <2>7 DEF IInv, AtAsk, OneQuestion, AnswerOfLast, TypedByPeople,
       NoOpenQuestion
<1>2. CASE question = NoQuestion
  <2>1. /\ UNCHANGED <<question, answer, answered, delivered, cancel, executive, io>>
        /\ delivered[u] = NoQuestion
        /\ \A v \in Utterance : v # u => say'[v] = say[v]
    BY <1>2 DEF Deliver, IInv, TypeOK, DeliveredOnce
  <2>2. TypeOK'
    BY <1>2, <2>1 DEF IInv, TypeOK, Deliver
  <2> QED
    BY <2>1, <2>2 DEF IInv, AtAsk, OneQuestion, DeliveredOnce, AnswerOfLast, TypedByPeople,
       AnswersOwnQuestion, AnsweredOnce, NoOpenQuestion
<1> QED
  BY <1>1, <1>2

LEMMA OthersInv ==
    ASSUME IInv,
           \/ Stop \/ \E n \in Ask : IoListens(n) \/ IoEnds(n)
           \/ \E u \in Utterance : Classify(u)
           \/ UNCHANGED vars
    PROVE  IInv'
<1> USE DEF run, executive, clients, IInv
<1>1. CASE Stop
  <2>1. TypeOK'
    BY <1>1 DEF Stop, TypeOK
  <2> QED
    BY <1>1, <2>1 DEF Stop, AtAsk, OneQuestion, DeliveredOnce, AnswerOfLast, TypedByPeople,
       AnswersOwnQuestion, AnsweredOnce, NoOpenQuestion
<1>2. ASSUME NEW n \in Ask, IoListens(n) \/ IoEnds(n) PROVE IInv'
  <2>1. TypeOK'
    BY <1>2 DEF IoListens, IoEnds, TypeOK
  <2>2. AtAsk'
    BY <1>2 DEF IoListens, IoEnds, AtAsk, TypeOK
  <2> QED
    BY <1>2, <2>1, <2>2 DEF IoListens, IoEnds, OneQuestion, DeliveredOnce, AnswerOfLast,
       TypedByPeople, AnswersOwnQuestion, AnsweredOnce, NoOpenQuestion
<1>3. ASSUME NEW u \in Utterance, Classify(u) PROVE IInv'
  <2>1. TypeOK'
    BY <1>3 DEF Classify, TypeOK
  <2>2. DeliveredOnce'
    BY <1>3 DEF Classify, DeliveredOnce, TypeOK
  <2> QED
    BY <1>3, <2>1, <2>2 DEF Classify, AtAsk, OneQuestion, AnswerOfLast, TypedByPeople,
       AnswersOwnQuestion, AnsweredOnce, NoOpenQuestion
<1>4. CASE UNCHANGED vars
  BY <1>4 DEF vars, TypeOK, AtAsk, OneQuestion, DeliveredOnce, AnswerOfLast, TypedByPeople,
     AnswersOwnQuestion, AnsweredOnce, NoOpenQuestion
<1> QED
  BY <1>1, <1>2, <1>3, <1>4

LEMMA StepInv == IInv /\ [Next]_vars => IInv'
  BY AskInv, ProceedInv, DeliverInv, OthersInv DEF Next

-----------------------------------------------------------------------------
(* The dashboard's listens beside the dialogue.                             *)

\* A step of the two is one of the dialogue, or leaves it alone: the listens only
\* begin and end the robot's side of an ask, and let the executive go on.
LEMMA DialogRefined == ASSUME LNext PROVE [Next]_vars
<1>1. CASE DialogSteps
  BY <1>1 DEF DialogSteps, Next, Proceed
<1>2. CASE Released
  BY <1>2 DEF Released, Next, Proceed
<1>3. CASE EndersRun
  BY <1>3 DEF EndersRun, ReleaseLooks, StopLooks, Looks, ClickLooks, Ends, EndsWith
<1>4. ASSUME NEW n \in Ask,
             \/ Says(n) \/ SpeakOpens(n) \/ SpeakEnds(n) \/ ButtonsOpen(n) \/ ListenOpens(n)
             \/ RecordStarts(n) \/ ListenEnds(n) \/ ListenReads(n) \/ RecordEnds(n) \/ Returns(n)
      PROVE  [Next]_vars
  <2>1. UNCHANGED vars \/ IoListens(n) \/ IoEnds(n)
    BY <1>4 DEF Says, SpeakOpens, SpeakEnds, ButtonsOpen, ListenOpens, RecordStarts, ListenEnds,
       ListenReads, RecordEnds, Returns
  <2> QED
    BY <2>1 DEF Next
<1>5. ASSUME NEW s \in Slot, Browser(s) PROVE UNCHANGED vars
  BY <1>5 DEF Browser, PostLooks, PostWrites
<1> QED
  BY <1>1, <1>2, <1>3, <1>4, <1>5 DEF LNext, LSteps

LEMMA Invariance == LSpec => []IInv
<1>1. LInit => IInv
  BY InitInv DEF LInit
<1>2. IInv /\ [LNext]_lvars => IInv'
  BY DialogRefined, StepInv DEF lvars
<1> QED
  BY <1>1, <1>2, PTL DEF LSpec

(***************************************************************************)
(* Run._answer outlives the ask it belongs to; the ask that returns it is  *)
(* nevertheless the one it was accepted for, whoever else types, listens,  *)
(* clicks or stops meanwhile.                                              *)
(***************************************************************************)
THEOREM OwnQuestionAnswered == LSpec => []AnswersOwnQuestion
<1>1. IInv => AnswersOwnQuestion
  BY DEF IInv
<1> QED
  BY <1>1, Invariance, PTL

(***************************************************************************)
(* Run._deliver_answer tells one of several people that he answered, and   *)
(* dialog.ask leaves no question open behind it.                           *)
(***************************************************************************)
THEOREM OneAnswerEach == LSpec => [](AnsweredOnce /\ NoOpenQuestion)
<1>1. IInv => AnsweredOnce /\ NoOpenQuestion
  BY DEF IInv
<1> QED
  BY <1>1, Invariance, PTL

-----------------------------------------------------------------------------
(* The slots of _LISTEN_PENDING.                                            *)

(***************************************************************************)
(* Every open slot has the robot's thread that waits on it, or that has    *)
(* the buttons on the screen: listen_dashboard and choose_close take out   *)
(* what they put in.                                                       *)
(***************************************************************************)
SlotsOwned ==
    \A n \in Ask :
        /\ <<n, "speak">> \in pending => phase[n] = "speaking"
        /\ <<n, "listen">> \in pending => phase[n] = "listening"
        /\ <<n, "choose">> \in pending =>
                phase[n] \in {"said", "listening", "recording", "popped", "ended"}

ListenTypes ==
    /\ phase \in [Ask -> {"none", "speaking", "said", "listening", "recording", "popped", "ended",
                          "over"}]
    /\ result \in [Ask -> {"heard", "silent"}] /\ pending \subseteq Slot
    /\ slot \in [Slot -> Said]
    /\ post \in [Slot -> {"none", "found", "clicked", "done"}]
    /\ looked \subseteq Ender /\ snap \in [Ender -> SUBSET Slot]

LEMMA RobotThread ==
    ASSUME ListenTypes, SlotsOwned, NEW n \in Ask,
           \/ Says(n) \/ SpeakOpens(n) \/ SpeakEnds(n) \/ ButtonsOpen(n) \/ ListenOpens(n)
           \/ RecordStarts(n) \/ ListenEnds(n) \/ ListenReads(n) \/ RecordEnds(n) \/ Returns(n)
    PROVE  ListenTypes' /\ SlotsOwned'
<1> USE DEF robot, waits, enders
<1>0. /\ <<n, "speak">> \in Slot /\ <<n, "listen">> \in Slot /\ <<n, "choose">> \in Slot
      /\ "none" \in Said
  BY DEF Slot, Said
<1>1. CASE Says(n) \/ RecordStarts(n) \/ RecordEnds(n)
  BY <1>1 DEF Says, RecordStarts, RecordEnds, Goes, ListenTypes, SlotsOwned
<1>2. CASE SpeakOpens(n) \/ ListenOpens(n)
  BY <1>0, <1>2 DEF SpeakOpens, ListenOpens, Goes, Opens, ListenTypes, SlotsOwned
<1>3. CASE ButtonsOpen(n)
  BY <1>0, <1>3 DEF ButtonsOpen, Opens, ListenTypes, SlotsOwned
<1>4. CASE SpeakEnds(n) \/ ListenEnds(n)
  BY <1>0, <1>4 DEF SpeakEnds, ListenEnds, Goes, Closes, Forgets, ListenTypes, SlotsOwned
<1>5. CASE ListenReads(n)
  BY <1>0, <1>5 DEF ListenReads, Goes, Forgets, ListenTypes, SlotsOwned
<1>6. CASE Returns(n)
  <2>1. phase[n] = "ended" /\ phase' = [phase EXCEPT ![n] = "over"]
    BY <1>6 DEF Returns, Goes
  <2>2. pending' = pending \ {<<n, "choose">>}
    BY <1>6 DEF Returns, Closes
  <2>3. SlotsOwned'
    BY <2>1, <2>2 DEF SlotsOwned, ListenTypes
  <2>4. slot' \in [Slot -> Said] /\ post' \in [Slot -> {"none", "found", "clicked", "done"}]
    BY <1>0, <1>6 DEF Returns, Forgets, ListenTypes
  <2>5. result' \in [Ask -> {"heard", "silent"}] /\ looked' = looked /\ snap' = snap
    BY <1>6 DEF Returns, ListenTypes
  <2> QED
    BY <2>1, <2>2, <2>3, <2>4, <2>5 DEF ListenTypes
<1> QED
  BY <1>1, <1>2, <1>3, <1>4, <1>5, <1>6

LEMMA OthersListen ==
    ASSUME ListenTypes, SlotsOwned,
           \/ DialogSteps \/ Released \/ EndersRun \/ \E s \in Slot : Browser(s)
           \/ UNCHANGED lvars
    PROVE  ListenTypes' /\ SlotsOwned'
<1> USE DEF listens, robot, waits, enders
<1>1. CASE DialogSteps \/ UNCHANGED lvars
  BY <1>1 DEF DialogSteps, lvars, ListenTypes, SlotsOwned
<1>2. CASE Released
  BY <1>2 DEF Released, ListenTypes, SlotsOwned
<1>3. ASSUME NEW s \in Slot, Browser(s) PROVE ListenTypes' /\ SlotsOwned'
  <2>1. UNCHANGED <<phase, result, pending, looked, snap>>
    BY <1>3 DEF Browser, PostLooks, PostWrites
  <2>2. slot' \in [Slot -> Said]
    BY <1>3 DEF Browser, PostLooks, PostWrites, Write, Said, ListenTypes
  <2>3. post' \in [Slot -> {"none", "found", "clicked", "done"}]
    BY <1>3 DEF Browser, PostLooks, PostWrites, ListenTypes
  <2> QED
    BY <2>1, <2>2, <2>3 DEF ListenTypes, SlotsOwned
<1>4. ASSUME NEW h, NEW found, h \in Ender, found \subseteq Slot,
             looked' = looked \cup {h}, snap' = [snap EXCEPT ![h] = found],
             UNCHANGED <<phase, result, pending, slot>>,
             post' \in [Slot -> {"none", "found", "clicked", "done"}]
      PROVE  ListenTypes' /\ SlotsOwned'
  BY <1>4 DEF ListenTypes, SlotsOwned
<1>5. Executive \in Ender /\ Stopper \in Ender /\ \A n \in Ask : n \in Ender
  BY DEF Executive, Stopper, Ender
<1>6. CASE ReleaseLooks
  BY <1>4, <1>5, <1>6 DEF ReleaseLooks, Looks, OpenListens, ListenTypes
<1>7. CASE StopLooks
  BY <1>4, <1>5, <1>7 DEF StopLooks, Looks, ListenTypes
<1>8. ASSUME NEW n \in Ask, ClickLooks(n) PROVE ListenTypes' /\ SlotsOwned'
  <2>1. post' \in [Slot -> {"none", "found", "clicked", "done"}]
    BY <1>8 DEF ClickLooks, ListenTypes
  <2>2. OpenListens \subseteq Slot
    BY DEF OpenListens, ListenTypes
  <2> QED
    BY <1>4, <1>5, <1>8, <2>1, <2>2 DEF ClickLooks
<1>9. ASSUME NEW h \in Ender, Ends(h) PROVE ListenTypes' /\ SlotsOwned'
  <2> DEFINE v == IF h = Stopper THEN "stopped" ELSE "nothing"
  <2>1. UNCHANGED <<phase, result, pending, post, looked>>
    BY <1>9 DEF Ends, EndsWith
  <2>2. slot' \in [Slot -> Said]
    BY <1>9 DEF Ends, EndsWith, Write, Said, ListenTypes
  <2>3. snap' \in [Ender -> SUBSET Slot]
    BY <1>9 DEF Ends, EndsWith, ListenTypes
  <2> QED
    BY <2>1, <2>2, <2>3 DEF ListenTypes, SlotsOwned
<1> QED
  BY <1>1, <1>2, <1>3, <1>6, <1>7, <1>8, <1>9 DEF EndersRun

(***************************************************************************)
(* The fields of the dialogue and of the dashboard keep their types (an    *)
(* event without an answer means a stop), and no slot stays open without   *)
(* its waiter.                                                             *)
(***************************************************************************)
THEOREM TypeCorrect == LSpec => [](LTypeOK /\ SlotsOwned)
<1>1. LInit => ListenTypes /\ SlotsOwned
  BY DEF LInit, ListenTypes, SlotsOwned, Said
<1>2. ListenTypes /\ SlotsOwned /\ [LNext]_lvars => ListenTypes' /\ SlotsOwned'
  BY RobotThread, OthersListen DEF LNext, LSteps
<1>3. IInv /\ ListenTypes => LTypeOK
  BY DEF IInv, LTypeOK, ListenTypes
<1> QED
  BY <1>1, <1>2, <1>3, Invariance, PTL DEF LSpec
=============================================================================
