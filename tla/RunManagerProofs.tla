-------------------------- MODULE RunManagerProofs --------------------------
(***************************************************************************)
(* Proofs about RunManager for any number of runs and clients (its type    *)
(* invariant, that the active run is always the registered one, and that   *)
(* the lock-by-lock protocol implements RobotRuns), and about what the     *)
(* robot believes while a run goes on (Belief).                            *)
(***************************************************************************)
EXTENDS RunsAndBelief, TLAPS

-----------------------------------------------------------------------------
(* RunManager.                                                             *)

(***************************************************************************)
(* The inductive invariant.  ActiveRegistered alone is not inductive:      *)
(* finish() unlinks a run only after it was marked as over, which needs    *)
(* SessionsAgree; the outcome of finish() and the two Event flags agree    *)
(* with the state because every writer holds the run's lock, which is      *)
(* FlagsAgree; and a run that was not created yet is untouched by anybody, *)
(* which is Unborn.  CallsAllowed carries the role check of a call to its  *)
(* locked part and ChangesAllowed to the queue; ExecutiveWatched says that *)
(* only a session whose socket failed finishes a run under its executive.  *)
(***************************************************************************)
Unborn ==
    \A r \in Run : r > started => /\ state[r] = "none"
                                  /\ session[r] = "none"
                                  /\ exec[r] = "none"
                                  /\ pending[r] = << >>
                                  /\ ~cancel[r]

FlagsAgree ==
    \A r \in Run : /\ cancel[r] => state[r] \in {"cancelling", "done"}
                   /\ state[r] = "cancelling" => cancel[r]
                   /\ resume[r] <=> state[r] # "paused"

SessionsAgree == \A r \in Run : session[r] = "serving" <=> Active(r)

CallsAllowed ==
    \A c \in Client :
        call[c].verb # "idle" => /\ call[c].run \in 1..started
                                 /\ MayAct(c, call[c].run)

ChangesAllowed ==
    \A r \in Run : \A i \in DOMAIN pending[r] :
        RolePriority[pending[r][i]] >= RolePriority[starter[r]]

ExecutiveWatched ==
    \A r \in Run :
        session[r] \in {"marked", "unlinked", "closed"} /\ r \notin gone
            => exec[r] = "over"

IInv ==
    /\ TypeOK
    /\ ActiveRegistered
    /\ Unborn
    /\ FlagsAgree
    /\ SessionsAgree
    /\ CallsAllowed
    /\ ChangesAllowed
    /\ ExecutiveWatched
    /\ FramesOfLiveRuns

-----------------------------------------------------------------------------
(* The trimming never forgets an active run and invents no run.            *)
LEMMA TrimmedKeepsActive ==
    ASSUME NEW runs, NEW st, NEW r \in runs, st[r] \in ActiveStates
    PROVE  r \in Trimmed(runs, st)
  BY DEF Trimmed

(* What is left of the registry was in it before.                          *)
LEMMA TrimmedSubset ==
    ASSUME NEW runs, NEW st
    PROVE  Trimmed(runs, st) \subseteq runs
  BY DEF Trimmed

(* The initial state satisfies the inductive invariant.                    *)
LEMMA InitInv == Init => IInv
<1> SUFFICES ASSUME Init PROVE IInv
  OBVIOUS
<1>1. Idle \in Call
  BY RunsAssumption DEF Idle, Call, NoRun
<1>2. pending \in [Run -> Seq(Client)]
  BY DEF Init
<1>3. TypeOK
  BY <1>1, <1>2, RunsAssumption DEF Init, TypeOK, Phase, NoRun
<1>4. ActiveRegistered /\ Unborn /\ FlagsAgree /\ SessionsAgree
  BY DEF Init, ActiveRegistered, Unborn, FlagsAgree, SessionsAgree, Active, ActiveStates
<1>5. CallsAllowed /\ ChangesAllowed /\ ExecutiveWatched /\ FramesOfLiveRuns
  BY DEF Init, CallsAllowed, ChangesAllowed, ExecutiveWatched, FramesOfLiveRuns, Idle
<1>6. QED
  BY <1>3, <1>4, <1>5 DEF IInv

-----------------------------------------------------------------------------
(* Types, one step at a time.                                              *)
LEMMA ReturnType ==
    ASSUME TypeOK, NEW c \in Client, Return(c)
    PROVE  call' \in [Client -> Call]
<1>1. Idle \in Call
  BY RunsAssumption DEF Idle, Call, NoRun
<1>2. QED
  BY <1>1 DEF TypeOK, Return

LEMMA CancelNowType ==
    ASSUME TypeOK, NEW r, CancelNow(r)
    PROVE  /\ state' \in [Run -> Phase]
           /\ cancel' \in [Run -> BOOLEAN]
           /\ resume' \in [Run -> BOOLEAN]
  BY DEF CancelNow, TypeOK, Phase, life

LEMMA TypeStep == TypeOK /\ [Next]_vars => TypeOK'
<1> SUFFICES ASSUME TypeOK, [Next]_vars PROVE TypeOK'
  OBVIOUS
<1> USE DEF TypeOK, identity, life, registry, stack, executive, sessions
<1>1. ASSUME NEW c \in Client, Start(c) PROVE TypeOK'
  <2> DEFINE r == started + 1
  <2>1. r \in 1..MaxRuns
    BY <1>1, RunsAssumption DEF Start
  <2>2. kept' \subseteq kept \cup {r}
    BY <1>1, TrimmedSubset DEF Start
  <2>3. /\ started' \in 0..MaxRuns
        /\ current' \in 0..MaxRuns
        /\ kept' \subseteq Run
    <3>1. started' = r /\ current' = r
      BY <1>1 DEF Start
    <3>2. r \in 0..MaxRuns /\ r \in Run
      BY <2>1, RunsAssumption DEF Run
    <3>3. QED
      BY <2>2, <3>1, <3>2
  <2>4. /\ state' \in [Run -> Phase]
        /\ starter' \in [Run -> Client \cup {NoClient}]
    BY <1>1 DEF Start, Phase
  <2>5. /\ exec' \in [Run -> {"none", "boundary", "work", "over"}]
        /\ session' \in [Run -> {"none", "serving", "marked", "unlinked", "closed"}]
    BY <1>1 DEF Start
  <2>6. QED
    BY <1>1, <2>3, <2>4, <2>5 DEF Start
<1>2. ASSUME NEW c \in Client, NEW r \in Run, NEW verb \in Verb, Request(c, r, verb)
      PROVE  TypeOK'
  <2>1. [verb |-> verb, run |-> r] \in Call
    BY DEF Call, Run
  <2>2. QED
    BY <1>2, <2>1 DEF Request
<1>3. ASSUME NEW c \in Client, CancelRun(c) PROVE TypeOK'
  BY <1>3, ReturnType, CancelNowType DEF CancelRun
<1>4. ASSUME NEW c \in Client, PauseRun(c) PROVE TypeOK'
  BY <1>4, ReturnType DEF PauseRun, Phase
<1>5. ASSUME NEW c \in Client, ResumeRun(c) PROVE TypeOK'
  BY <1>5, ReturnType DEF ResumeRun, Phase
<1>6. ASSUME NEW c \in Client, QueueChange(c) PROVE TypeOK'
  <2> DEFINE r == call[c].run
  <2>1. CASE r \in Run
    <3>1. Append(pending[r], c) \in Seq(Client)
      BY <2>1
    <3>2. pending' = [pending EXCEPT ![r] = Append(pending[r], c)]
      BY <1>6 DEF QueueChange
    <3>3. pending' \in [Run -> Seq(Client)]
      BY <3>1, <3>2
    <3>4. QED
      BY <1>6, <3>3, ReturnType DEF QueueChange
  <2>2. CASE r \notin Run
    BY <1>6, <2>2, ReturnType DEF QueueChange
  <2>3. QED
    BY <2>1, <2>2
<1>7. ASSUME StopButton PROVE TypeOK'
  BY <1>7, CancelNowType DEF StopButton
<1>8. ASSUME NEW r \in Run, Boundary(r) PROVE TypeOK'
  <2>1. pending' \in [Run -> Seq(Client)]
    BY <1>8 DEF Boundary
  <2>2. /\ frames' \subseteq [run : Run, at : Nat]
        /\ clock' \in Nat
        /\ suspended' \in [Run -> Nat]
    <3>1. CASE Suspend(r)
      <4>1. [run |-> r, at |-> clock] \in [run : Run, at : Nat]
        OBVIOUS
      <4>2. suspended[r] + 1 \in Nat /\ clock + 1 \in Nat
        OBVIOUS
      <4>3. QED
        BY <3>1, <4>1, <4>2 DEF Suspend
    <3>2. CASE UNCHANGED <<frames, clock, suspended>>
      BY <3>2
    <3>3. QED
      BY <1>8, <3>1, <3>2 DEF Boundary
  <2>3. QED
    BY <1>8, <2>1, <2>2 DEF Boundary
<1>9. ASSUME NEW r \in Run, SeeCancel(r) PROVE TypeOK'
  BY <1>9 DEF SeeCancel
<1>10. ASSUME NEW r \in Run, StepDone(r) PROVE TypeOK'
  BY <1>10 DEF StepDone
<1>11. ASSUME NEW r \in Run, PlanEnd(r) PROVE TypeOK'
  BY <1>11 DEF PlanEnd
<1>12. ASSUME NEW r \in Run, ResumeTask(r) PROVE TypeOK'
  BY <1>12 DEF ResumeTask
<1>13. ASSUME NEW r \in Run, SocketFails(r) PROVE TypeOK'
  BY <1>13 DEF SocketFails
<1>14. ASSUME NEW r \in Run, FinishMark(r) PROVE TypeOK'
  BY <1>14 DEF FinishMark, Phase
<1>15. ASSUME NEW r \in Run, FinishUnlink(r) PROVE TypeOK'
  BY <1>15, RunsAssumption DEF FinishUnlink, NoRun
<1>16. ASSUME NEW r \in Run, FinishDrop(r) PROVE TypeOK'
  BY <1>16 DEF FinishDrop
<1>17. CASE UNCHANGED vars
  BY <1>17 DEF vars
<1> HIDE DEF TypeOK, identity, life, registry, stack, executive, sessions
<1>18. QED
  BY <1>1, <1>2, <1>3, <1>4, <1>5, <1>6, <1>7, <1>8, <1>9, <1>10, <1>11,
     <1>12, <1>13, <1>14, <1>15, <1>16, <1>17
  DEF Next, Control, Executive, Finish
-----------------------------------------------------------------------------
(* The inductive step.                                                     *)
LEMMA InvStep == IInv /\ [Next]_vars => IInv'
<1> SUFFICES ASSUME IInv, [Next]_vars PROVE IInv'
  OBVIOUS
<1>0. TypeOK'
  BY TypeStep DEF IInv
<1> USE DEF identity, life, registry, stack, executive, sessions
<1>1. ASSUME NEW c \in Client, Start(c) PROVE IInv'
  <2>1. ActiveRegistered'
    <3> DEFINE n == started + 1
    <3>1. n \in Run /\ state' = [state EXCEPT ![n] = "running"] /\ current' = n
      BY <1>0, <1>1 DEF Start, TypeOK
    <3>2. \A q \in Run : ~Active(q)
      BY <1>1 DEF Start, ActiveRun, IInv, ActiveRegistered, Run, NoRun
    <3>3. n \in kept'
      BY <1>1, <3>1, TrimmedKeepsActive DEF Start, IInv, TypeOK, ActiveStates
    <3>4. QED
      BY <3>1, <3>2, <3>3 DEF ActiveRegistered, Active
  <2>2. Unborn'
    BY <1>1 DEF Start, IInv, TypeOK, Unborn, Run
  <2>3. FlagsAgree'
    BY <1>0, <1>1 DEF Start, IInv, TypeOK, Unborn, FlagsAgree
  <2>4. SessionsAgree'
    BY <1>1 DEF Start, IInv, TypeOK, SessionsAgree, Active, ActiveStates
  <2>5. CallsAllowed'
    BY <1>1 DEF Start, IInv, TypeOK, CallsAllowed, MayAct, Run
  <2>6. ChangesAllowed'
    BY <1>1 DEF Start, IInv, TypeOK, Unborn, ChangesAllowed
  <2>7. ExecutiveWatched'
    BY <1>1 DEF Start, IInv, TypeOK, ExecutiveWatched
  <2>8. FramesOfLiveRuns'
    BY <1>1 DEF Start, IInv, FramesOfLiveRuns
  <2>9. QED
    BY <1>0, <2>1, <2>2, <2>3, <2>4, <2>5, <2>6, <2>7, <2>8 DEF IInv
<1>2. ASSUME NEW c \in Client, NEW r \in Run, NEW verb \in Verb, Request(c, r, verb) PROVE IInv'
  <2>1. ActiveRegistered'
    BY <1>2 DEF Request, IInv, ActiveRegistered, Active
  <2>2. Unborn'
    BY <1>2 DEF Request, IInv, Unborn
  <2>3. FlagsAgree'
    BY <1>2 DEF Request, IInv, FlagsAgree
  <2>4. SessionsAgree'
    BY <1>2 DEF Request, IInv, SessionsAgree, Active
  <2>5. CallsAllowed'
    BY <1>2 DEF Request, IInv, TypeOK, Unborn, SessionsAgree, CallsAllowed,
       MayAct, Run
  <2>6. ChangesAllowed'
    BY <1>2 DEF Request, IInv, ChangesAllowed
  <2>7. ExecutiveWatched'
    BY <1>2 DEF Request, IInv, ExecutiveWatched
  <2>8. FramesOfLiveRuns'
    BY <1>2 DEF Request, IInv, FramesOfLiveRuns
  <2>9. QED
    BY <1>0, <2>1, <2>2, <2>3, <2>4, <2>5, <2>6, <2>7, <2>8 DEF IInv
<1>3. ASSUME NEW c \in Client, CancelRun(c) PROVE IInv'
  <2>1. ActiveRegistered'
    BY <1>3 DEF CancelRun, CancelNow, At, Return, Idle, IInv, TypeOK,
       ActiveRegistered, ChangesAllowed, ExecutiveWatched, Active
  <2>2. Unborn'
    BY <1>0, <1>3 DEF CancelRun, CancelNow, IInv, TypeOK, Unborn,
       SessionsAgree
  <2>3. FlagsAgree'
    BY <1>0, <1>3 DEF CancelRun, CancelNow, IInv, TypeOK, FlagsAgree, Run
  <2>4. SessionsAgree'
    BY <1>3 DEF CancelRun, CancelNow, IInv, TypeOK, SessionsAgree, Active,
       ActiveStates, Run
  <2>5. CallsAllowed'
    BY <1>3 DEF CancelRun, Return, Idle, IInv, CallsAllowed, MayAct
  <2>6. ChangesAllowed'
    BY <1>3 DEF CancelRun, IInv, ChangesAllowed
  <2>7. ExecutiveWatched'
    BY <1>3 DEF CancelRun, IInv, ExecutiveWatched
  <2>8. FramesOfLiveRuns'
    BY <1>3 DEF CancelRun, IInv, FramesOfLiveRuns
  <2>9. QED
    BY <1>0, <2>1, <2>2, <2>3, <2>4, <2>5, <2>6, <2>7, <2>8 DEF IInv
<1>4. ASSUME NEW c \in Client, PauseRun(c) PROVE IInv'
  <2>1. ActiveRegistered'
    BY <1>4 DEF PauseRun, IInv, TypeOK, ActiveRegistered, Active, ActiveStates
  <2>2. Unborn'
    BY <1>4 DEF PauseRun, IInv, TypeOK, Unborn
  <2>3. FlagsAgree'
    BY <1>0, <1>4 DEF PauseRun, IInv, TypeOK, FlagsAgree
  <2>4. SessionsAgree'
    BY <1>4 DEF PauseRun, IInv, TypeOK, ActiveRegistered, SessionsAgree,
       Active, ActiveStates
  <2>5. CallsAllowed'
    BY <1>4 DEF PauseRun, Return, Idle, IInv, CallsAllowed, MayAct
  <2>6. ChangesAllowed'
    BY <1>4 DEF PauseRun, IInv, ChangesAllowed
  <2>7. ExecutiveWatched'
    BY <1>4 DEF PauseRun, IInv, ExecutiveWatched
  <2>8. FramesOfLiveRuns'
    BY <1>4 DEF PauseRun, IInv, FramesOfLiveRuns
  <2>9. QED
    BY <1>0, <2>1, <2>2, <2>3, <2>4, <2>5, <2>6, <2>7, <2>8 DEF IInv
<1>5. ASSUME NEW c \in Client, ResumeRun(c) PROVE IInv'
  <2>1. ActiveRegistered'
    BY <1>5 DEF ResumeRun, IInv, TypeOK, ActiveRegistered, Active,
       ActiveStates
  <2>2. Unborn'
    BY <1>5 DEF ResumeRun, IInv, TypeOK, Unborn
  <2>3. FlagsAgree'
    BY <1>0, <1>5 DEF ResumeRun, IInv, TypeOK, FlagsAgree
  <2>4. SessionsAgree'
    BY <1>5 DEF ResumeRun, IInv, TypeOK, ActiveRegistered, SessionsAgree,
       Active, ActiveStates
  <2>5. CallsAllowed'
    BY <1>5 DEF ResumeRun, Return, Idle, IInv, CallsAllowed, MayAct
  <2>6. ChangesAllowed'
    BY <1>5 DEF ResumeRun, IInv, ChangesAllowed
  <2>7. ExecutiveWatched'
    BY <1>5 DEF ResumeRun, IInv, ExecutiveWatched
  <2>8. FramesOfLiveRuns'
    BY <1>5 DEF ResumeRun, IInv, FramesOfLiveRuns
  <2>9. QED
    BY <1>0, <2>1, <2>2, <2>3, <2>4, <2>5, <2>6, <2>7, <2>8 DEF IInv
<1>6. ASSUME NEW c \in Client, QueueChange(c) PROVE IInv'
  <2>1. ActiveRegistered'
    BY <1>6 DEF QueueChange, IInv, ActiveRegistered, Active
  <2>2. Unborn'
    BY <1>6 DEF QueueChange, At, IInv, TypeOK, Unborn, CallsAllowed,
       ChangesAllowed, Run
  <2>3. FlagsAgree'
    BY <1>6 DEF QueueChange, IInv, FlagsAgree
  <2>4. SessionsAgree'
    BY <1>6 DEF QueueChange, IInv, SessionsAgree, Active
  <2>5. CallsAllowed'
    BY <1>6 DEF QueueChange, Return, Idle, IInv, CallsAllowed, MayAct
  <2>6. ChangesAllowed'
    BY <1>0, <1>6 DEF QueueChange, At, Return, Idle, IInv, TypeOK,
       ActiveRegistered, Unborn, FlagsAgree, SessionsAgree, CallsAllowed,
       ChangesAllowed, ExecutiveWatched, FramesOfLiveRuns, Active,
       ActiveStates, MayAct, Run, NoRun
  <2>7. ExecutiveWatched'
    BY <1>6 DEF QueueChange, IInv, ExecutiveWatched
  <2>8. FramesOfLiveRuns'
    BY <1>6 DEF QueueChange, IInv, FramesOfLiveRuns
  <2>9. QED
    BY <1>0, <2>1, <2>2, <2>3, <2>4, <2>5, <2>6, <2>7, <2>8 DEF IInv
<1>7. ASSUME StopButton PROVE IInv'
  <2>1. ActiveRegistered'
    BY <1>7 DEF StopButton, CancelNow, IInv, TypeOK, ActiveRegistered, Active
  <2>2. Unborn'
    BY <1>0, <1>7 DEF StopButton, CancelNow, IInv, TypeOK, Unborn, Active,
       ActiveStates
  <2>3. FlagsAgree'
    BY <1>0, <1>7 DEF StopButton, CancelNow, IInv, TypeOK, FlagsAgree, Run
  <2>4. SessionsAgree'
    <3>1. \/ state' = state
          \/ state' = [state EXCEPT ![ActiveRun] = "cancelling"] /\ Active(ActiveRun)
      BY <1>7 DEF StopButton, CancelNow
    <3> QED
      BY <1>7, <3>1 DEF StopButton, IInv, TypeOK, SessionsAgree, Active, ActiveStates
  <2>5. CallsAllowed'
    BY <1>7 DEF StopButton, IInv, CallsAllowed, MayAct
  <2>6. ChangesAllowed'
    BY <1>7 DEF StopButton, IInv, ChangesAllowed
  <2>7. ExecutiveWatched'
    BY <1>7 DEF StopButton, IInv, ExecutiveWatched
  <2>8. FramesOfLiveRuns'
    BY <1>7 DEF StopButton, IInv, FramesOfLiveRuns
  <2>9. QED
    BY <1>0, <2>1, <2>2, <2>3, <2>4, <2>5, <2>6, <2>7, <2>8 DEF IInv
<1>8. ASSUME NEW r \in Run, Boundary(r) PROVE IInv'
  <2>1. ActiveRegistered'
    BY <1>8 DEF Boundary, IInv, ActiveRegistered, Active
  <2>2. Unborn'
    BY <1>8 DEF Boundary, IInv, Unborn
  <2>3. FlagsAgree'
    BY <1>8 DEF Boundary, IInv, FlagsAgree
  <2>4. SessionsAgree'
    BY <1>8 DEF Boundary, IInv, SessionsAgree, Active
  <2>5. CallsAllowed'
    BY <1>8 DEF Boundary, IInv, CallsAllowed, MayAct
  <2>6. ChangesAllowed'
    BY <1>8 DEF Boundary, IInv, ChangesAllowed
  <2>7. ExecutiveWatched'
    BY <1>8 DEF Boundary, IInv, ExecutiveWatched
  <2>8. FramesOfLiveRuns'
    BY <1>8 DEF Boundary, Suspend, IInv, ExecutiveWatched, FramesOfLiveRuns
  <2>9. QED
    BY <1>0, <2>1, <2>2, <2>3, <2>4, <2>5, <2>6, <2>7, <2>8 DEF IInv
<1>9. ASSUME NEW r \in Run, SeeCancel(r) PROVE IInv'
  <2>1. ActiveRegistered'
    BY <1>9 DEF SeeCancel, IInv, ActiveRegistered, Active
  <2>2. Unborn'
    BY <1>9 DEF SeeCancel, IInv, Unborn
  <2>3. FlagsAgree'
    BY <1>9 DEF SeeCancel, IInv, FlagsAgree
  <2>4. SessionsAgree'
    BY <1>9 DEF SeeCancel, IInv, SessionsAgree, Active
  <2>5. CallsAllowed'
    BY <1>9 DEF SeeCancel, IInv, CallsAllowed, MayAct
  <2>6. ChangesAllowed'
    BY <1>9 DEF SeeCancel, IInv, ChangesAllowed
  <2>7. ExecutiveWatched'
    BY <1>9 DEF SeeCancel, IInv, ExecutiveWatched
  <2>8. FramesOfLiveRuns'
    BY <1>9 DEF SeeCancel, IInv, FramesOfLiveRuns
  <2>9. QED
    BY <1>0, <2>1, <2>2, <2>3, <2>4, <2>5, <2>6, <2>7, <2>8 DEF IInv
<1>10. ASSUME NEW r \in Run, StepDone(r) PROVE IInv'
  <2>1. ActiveRegistered'
    BY <1>10 DEF StepDone, IInv, ActiveRegistered, Active
  <2>2. Unborn'
    BY <1>10 DEF StepDone, IInv, Unborn
  <2>3. FlagsAgree'
    BY <1>10 DEF StepDone, IInv, FlagsAgree
  <2>4. SessionsAgree'
    BY <1>10 DEF StepDone, IInv, SessionsAgree, Active
  <2>5. CallsAllowed'
    BY <1>10 DEF StepDone, IInv, CallsAllowed, MayAct
  <2>6. ChangesAllowed'
    BY <1>10 DEF StepDone, IInv, ChangesAllowed
  <2>7. ExecutiveWatched'
    BY <1>10 DEF StepDone, IInv, ExecutiveWatched
  <2>8. FramesOfLiveRuns'
    BY <1>10 DEF StepDone, IInv, FramesOfLiveRuns
  <2>9. QED
    BY <1>0, <2>1, <2>2, <2>3, <2>4, <2>5, <2>6, <2>7, <2>8 DEF IInv
<1>11. ASSUME NEW r \in Run, PlanEnd(r) PROVE IInv'
  <2>1. ActiveRegistered'
    BY <1>11 DEF PlanEnd, IInv, ActiveRegistered, Active
  <2>2. Unborn'
    BY <1>11 DEF PlanEnd, IInv, Unborn
  <2>3. FlagsAgree'
    BY <1>11 DEF PlanEnd, IInv, FlagsAgree
  <2>4. SessionsAgree'
    BY <1>11 DEF PlanEnd, IInv, SessionsAgree, Active
  <2>5. CallsAllowed'
    BY <1>11 DEF PlanEnd, IInv, CallsAllowed, MayAct
  <2>6. ChangesAllowed'
    BY <1>11 DEF PlanEnd, IInv, ChangesAllowed
  <2>7. ExecutiveWatched'
    BY <1>11 DEF PlanEnd, IInv, ExecutiveWatched
  <2>8. FramesOfLiveRuns'
    BY <1>11 DEF PlanEnd, IInv, FramesOfLiveRuns
  <2>9. QED
    BY <1>0, <2>1, <2>2, <2>3, <2>4, <2>5, <2>6, <2>7, <2>8 DEF IInv
<1>12. ASSUME NEW r \in Run, ResumeTask(r) PROVE IInv'
  <2>1. ActiveRegistered'
    BY <1>12 DEF ResumeTask, IInv, ActiveRegistered, Active
  <2>2. Unborn'
    BY <1>12 DEF ResumeTask, IInv, Unborn
  <2>3. FlagsAgree'
    BY <1>12 DEF ResumeTask, IInv, FlagsAgree
  <2>4. SessionsAgree'
    BY <1>12 DEF ResumeTask, IInv, SessionsAgree, Active
  <2>5. CallsAllowed'
    BY <1>12 DEF ResumeTask, IInv, CallsAllowed, MayAct
  <2>6. ChangesAllowed'
    BY <1>12 DEF ResumeTask, IInv, ChangesAllowed
  <2>7. ExecutiveWatched'
    BY <1>12 DEF ResumeTask, IInv, ExecutiveWatched
  <2>8. FramesOfLiveRuns'
    BY <1>12 DEF ResumeTask, IInv, FramesOfLiveRuns
  <2>9. QED
    BY <1>0, <2>1, <2>2, <2>3, <2>4, <2>5, <2>6, <2>7, <2>8 DEF IInv
<1>13. ASSUME NEW r \in Run, SocketFails(r) PROVE IInv'
  <2>1. ActiveRegistered'
    BY <1>13 DEF SocketFails, IInv, ActiveRegistered, Active
  <2>2. Unborn'
    BY <1>13 DEF SocketFails, IInv, Unborn
  <2>3. FlagsAgree'
    BY <1>13 DEF SocketFails, IInv, FlagsAgree
  <2>4. SessionsAgree'
    BY <1>13 DEF SocketFails, IInv, SessionsAgree, Active
  <2>5. CallsAllowed'
    BY <1>13 DEF SocketFails, IInv, CallsAllowed, MayAct
  <2>6. ChangesAllowed'
    BY <1>13 DEF SocketFails, IInv, ChangesAllowed
  <2>7. ExecutiveWatched'
    BY <1>13 DEF SocketFails, IInv, ExecutiveWatched
  <2>8. FramesOfLiveRuns'
    BY <1>13 DEF SocketFails, IInv, FramesOfLiveRuns
  <2>9. QED
    BY <1>0, <2>1, <2>2, <2>3, <2>4, <2>5, <2>6, <2>7, <2>8 DEF IInv
<1>14. ASSUME NEW r \in Run, FinishMark(r) PROVE IInv'
  <2>1. ActiveRegistered'
    BY <1>14 DEF FinishMark, IInv, ActiveRegistered, Active, ActiveStates
  <2>2. Unborn'
    BY <1>14 DEF FinishMark, IInv, Unborn
  <2>3. FlagsAgree'
    BY <1>14 DEF FinishMark, IInv, TypeOK, FlagsAgree
  <2>4. SessionsAgree'
    BY <1>14 DEF FinishMark, IInv, TypeOK, SessionsAgree, Active, ActiveStates
  <2>5. CallsAllowed'
    BY <1>14 DEF FinishMark, IInv, CallsAllowed, MayAct
  <2>6. ChangesAllowed'
    BY <1>14 DEF FinishMark, IInv, ChangesAllowed
  <2>7. ExecutiveWatched'
    BY <1>14 DEF FinishMark, IInv, ExecutiveWatched
  <2>8. FramesOfLiveRuns'
    BY <1>14 DEF FinishMark, IInv, FramesOfLiveRuns
  <2>9. QED
    BY <1>0, <2>1, <2>2, <2>3, <2>4, <2>5, <2>6, <2>7, <2>8 DEF IInv
<1>15. ASSUME NEW r \in Run, FinishUnlink(r) PROVE IInv'
  <2>1. ActiveRegistered'
    BY <1>15 DEF FinishUnlink, IInv, ActiveRegistered, SessionsAgree, Active
  <2>2. Unborn'
    BY <1>15 DEF FinishUnlink, IInv, Unborn
  <2>3. FlagsAgree'
    BY <1>15 DEF FinishUnlink, IInv, FlagsAgree
  <2>4. SessionsAgree'
    BY <1>15 DEF FinishUnlink, IInv, SessionsAgree, Active
  <2>5. CallsAllowed'
    BY <1>15 DEF FinishUnlink, IInv, CallsAllowed, MayAct
  <2>6. ChangesAllowed'
    BY <1>15 DEF FinishUnlink, IInv, ChangesAllowed
  <2>7. ExecutiveWatched'
    BY <1>15 DEF FinishUnlink, IInv, ExecutiveWatched
  <2>8. FramesOfLiveRuns'
    BY <1>15 DEF FinishUnlink, IInv, FramesOfLiveRuns
  <2>9. QED
    BY <1>0, <2>1, <2>2, <2>3, <2>4, <2>5, <2>6, <2>7, <2>8 DEF IInv
<1>16. ASSUME NEW r \in Run, FinishDrop(r) PROVE IInv'
  <2>1. ActiveRegistered'
    BY <1>16 DEF FinishDrop, IInv, ActiveRegistered, Active
  <2>2. Unborn'
    BY <1>16 DEF FinishDrop, IInv, Unborn
  <2>3. FlagsAgree'
    BY <1>16 DEF FinishDrop, IInv, FlagsAgree
  <2>4. SessionsAgree'
    BY <1>16 DEF FinishDrop, IInv, SessionsAgree, Active
  <2>5. CallsAllowed'
    BY <1>16 DEF FinishDrop, IInv, CallsAllowed, MayAct
  <2>6. ChangesAllowed'
    BY <1>16 DEF FinishDrop, IInv, ChangesAllowed
  <2>7. ExecutiveWatched'
    BY <1>16 DEF FinishDrop, IInv, ExecutiveWatched
  <2>8. FramesOfLiveRuns'
    BY <1>16 DEF FinishDrop, IInv, FramesOfLiveRuns
  <2>9. QED
    BY <1>0, <2>1, <2>2, <2>3, <2>4, <2>5, <2>6, <2>7, <2>8 DEF IInv
<1>17. CASE UNCHANGED vars
  BY <1>0, <1>17 DEF vars, IInv, ActiveRegistered, Unborn, FlagsAgree,
     SessionsAgree, CallsAllowed, ChangesAllowed, ExecutiveWatched,
     FramesOfLiveRuns, Active, MayAct
<1>18. QED
  BY <1>1, <1>2, <1>3, <1>4, <1>5, <1>6, <1>7, <1>8, <1>9, <1>10, <1>11,
     <1>12, <1>13, <1>14, <1>15, <1>16, <1>17 DEF Next, Control, Executive,
     Finish

(* The inductive invariant holds throughout.                               *)
LEMMA Invariance == Spec => []IInv
  BY InitInv, InvStep, PTL DEF Spec

-----------------------------------------------------------------------------
(* RunManager keeps its types: what the threads store is what the fields   *)
(* of Run and RunManager are declared to hold.                             *)
THEOREM TypeCorrect == Spec => []TypeOK
<1>1. IInv => TypeOK
  BY DEF IInv
<1>2. QED
  BY <1>1, Invariance, PTL

(* An active run is always the registered one: start(), the two-step       *)
(* finish() of an older run and `_trim` never lose it.                     *)
THEOREM ActiveIsRegistered == Spec => []ActiveRegistered
<1>1. IInv => ActiveRegistered
  BY DEF IInv
<1>2. QED
  BY <1>1, Invariance, PTL

(* A suspended task of a watched run is dropped by the run's finish().     *)
THEOREM FramesDropped == Spec => []FramesOfLiveRuns
<1>1. IInv => FramesOfLiveRuns
  BY DEF IInv
<1>2. QED
  BY <1>1, Invariance, PTL

-----------------------------------------------------------------------------
(* Every step of the locks, the executive and the sessions is a step of    *)
(* RobotRuns, or leaves the states of the runs alone.                      *)
LEMMA StepSimulates ==
    IInv /\ [Next]_vars => [Abstract!Next]_state
<1> SUFFICES ASSUME IInv, [Next]_vars PROVE [Abstract!Next]_state
  OBVIOUS
<1> USE DEF life, IInv, TypeOK, Abstract!Next, Abstract!Become
<1>1. ASSUME NEW c \in Client, Start(c) PROVE [Abstract!Next]_state
  <2> DEFINE n == started + 1
  <2>1. n \in Run /\ state' = [state EXCEPT ![n] = "running"]
    BY <1>1, RunsAssumption DEF Start, Run
  <2>2. state[n] = "none"
    BY <2>1 DEF Unborn, Run
  <2>3. \A q \in Run : ~Active(q)
    BY <1>1 DEF Start, ActiveRun, ActiveRegistered, Run, NoRun
  <2>4. Abstract!Start(n)
    BY <2>1, <2>2, <2>3 DEF Abstract!Start, Abstract!ActivePhase, Active, ActiveStates
  <2>5. QED
    BY <2>1, <2>4
<1>2. ASSUME NEW r \in Run, CancelNow(r) PROVE [Abstract!Next]_state
  BY <1>2 DEF CancelNow, Active, ActiveStates, Abstract!Cancel
<1>3. ASSUME NEW c \in Client, CancelRun(c) PROVE [Abstract!Next]_state
  <2>1. call[c].run \in Run
    BY <1>3, RunsAssumption DEF CancelRun, At, CallsAllowed, Verb, Run
  <2>2. QED
    BY <1>2, <1>3, <2>1 DEF CancelRun
<1>4. ASSUME NEW c \in Client, PauseRun(c) PROVE [Abstract!Next]_state
  <2>1. call[c].run \in Run
    BY <1>4, RunsAssumption DEF PauseRun, At, CallsAllowed, Verb, Run
  <2>2. QED
    BY <1>4, <2>1 DEF PauseRun, Abstract!Pause
<1>5. ASSUME NEW c \in Client, ResumeRun(c) PROVE [Abstract!Next]_state
  <2>1. call[c].run \in Run
    BY <1>5, RunsAssumption DEF ResumeRun, At, CallsAllowed, Verb, Run
  <2>2. QED
    BY <1>5, <2>1 DEF ResumeRun, Abstract!Resume
<1>6. ASSUME StopButton PROVE [Abstract!Next]_state
  <2>1. ActiveRun \in Run
    BY <1>6 DEF StopButton, ActiveRun, Run, NoRun
  <2>2. QED
    BY <1>2, <1>6, <2>1 DEF StopButton
<1>7. ASSUME NEW r \in Run, FinishMark(r) PROVE [Abstract!Next]_state
  <2>1. PICK ok \in BOOLEAN :
            state' = [state EXCEPT ![r] = IF ok \/ cancel[r] THEN "done" ELSE "failed"]
    BY <1>7 DEF FinishMark
  <2>2. state[r] \in ActiveStates
    BY <1>7 DEF FinishMark, SessionsAgree, Active
  <2>3. CASE ok \/ cancel[r]
    <3>1. Abstract!End(r)
      BY <2>1, <2>2, <2>3 DEF Abstract!End, Abstract!ActivePhase, ActiveStates
    <3>2. QED
      BY <3>1
  <2>4. CASE ~(ok \/ cancel[r])
    <3>1. state[r] # "cancelling"
      BY <2>4 DEF FlagsAgree
    <3>2. Abstract!Fail(r)
      BY <2>1, <2>2, <2>4, <3>1 DEF Abstract!Fail, ActiveStates
    <3>3. QED
      BY <3>2
  <2>5. QED
    BY <2>3, <2>4
<1>8. ASSUME NEW c \in Client, NEW r \in Run, NEW verb \in Verb,
             Request(c, r, verb)
      PROVE  [Abstract!Next]_state
  BY <1>8 DEF Request
<1>9. ASSUME NEW r \in Run,
             Executive(r) \/ SocketFails(r) \/ FinishUnlink(r) \/ FinishDrop(r)
      PROVE  [Abstract!Next]_state
  BY <1>9 DEF Executive, Boundary, SeeCancel, StepDone, PlanEnd, ResumeTask,
     SocketFails, FinishUnlink, FinishDrop
<1>10. ASSUME NEW c \in Client, QueueChange(c) PROVE [Abstract!Next]_state
  BY <1>10 DEF QueueChange
<1>11. CASE UNCHANGED vars
  BY <1>11 DEF vars
<1> HIDE DEF IInv, TypeOK, life, Abstract!Next, Abstract!Become
<1>12. QED
  BY <1>1, <1>3, <1>4, <1>5, <1>6, <1>7, <1>8, <1>9, <1>10, <1>11
  DEF Next, Control, Finish

(* The run manager implements its abstract promise: whatever the clients,  *)
(* executives and sessions do, at most one run is active, every run goes   *)
(* through its states once, and a cancelled run only ever ends as done.    *)
THEOREM Implements == Spec => ImplementsRobotRuns
<1>1. Init => Abstract!Init
  BY DEF Init, Abstract!Init
<1>2. QED
  BY <1>1, StepSimulates, Invariance, PTL
  DEF Spec, ImplementsRobotRuns, Abstract!Spec

-----------------------------------------------------------------------------
(* A step that pauses or resumes a run, or queues a change, is the locked  *)
(* part of a call whose role was checked against the run's starter.        *)
LEMMA RolesStep == IInv /\ IInv' /\ [Next]_vars => [RolesRespected]_vars
<1> SUFFICES ASSUME IInv, IInv', [Next]_vars PROVE RolesRespected \/ UNCHANGED vars
  OBVIOUS
<1>1. \A r \in Run : \A i \in DOMAIN pending'[r] :
          RolePriority[pending'[r][i]] >= RolePriority[starter'[r]]
  BY DEF IInv, ChangesAllowed
<1> DEFINE Toggled(r) == \/ state[r] = "running" /\ state'[r] = "paused"
                         \/ state[r] = "paused" /\ state'[r] = "running"
           ByPeer(r) == \E c \in Client : /\ call[c].run = r /\ call'[c] = Idle
                                          /\ RolePriority[c] >= RolePriority[starter[r]]
<1>2. ASSUME NEW c \in Client, PauseRun(c) \/ ResumeRun(c), NEW r \in Run, Toggled(r)
      PROVE  ByPeer(r)
  <2>1. call[c].run = r /\ call'[c] = Idle
    BY <1>2 DEF PauseRun, ResumeRun, Return, IInv, TypeOK
  <2>2. MayAct(c, r)
    BY <1>2, <2>1 DEF PauseRun, ResumeRun, At, IInv, CallsAllowed
  <2>3. QED
    BY <2>1, <2>2 DEF MayAct
<1>3. ASSUME NEW r \in Run, Toggled(r), ~\E c \in Client : PauseRun(c) \/ ResumeRun(c),
             ~UNCHANGED vars
      PROVE  FALSE
  <2>1. Next
    BY <1>3
  <2>2. ASSUME NEW q, CancelNow(q) PROVE FALSE
    BY <1>3, <2>2 DEF CancelNow, life, IInv, TypeOK
  <2>3. ASSUME NEW c \in Client, Start(c) PROVE FALSE
    BY <1>3, <2>3 DEF Start, ActiveRun, Active, ActiveStates, IInv, TypeOK,
       ActiveRegistered, Run, NoRun
  <2>4. ASSUME NEW q \in Run, FinishMark(q) PROVE FALSE
    BY <1>3, <2>4 DEF FinishMark, IInv, TypeOK
  <2>5. QED
    BY <1>3, <2>1, <2>2, <2>3, <2>4
    DEF Next, Control, Request, CancelRun, QueueChange, StopButton, Executive,
        Boundary, SeeCancel, StepDone, PlanEnd, ResumeTask, SocketFails, Finish,
        FinishUnlink, FinishDrop, life
<1>4. QED
  BY <1>1, <1>2, <1>3 DEF RolesRespected

(* Nobody ranked below a run's starter pauses, resumes or changes it.      *)
THEOREM RolesHold == Spec => RolesAlwaysRespected
  BY Invariance, RolesStep, PTL DEF Spec, RolesAlwaysRespected

-----------------------------------------------------------------------------
(***************************************************************************)
(* Belief.  ActsThere alone is not inductive: a drive must leave the base  *)
(* unmeasured until its step is over (DrivenIsUnmeasured), a step exists   *)
(* only while its run goes on (StepAtHand), and what a sensor or an effect *)
(* says of the place is compared with where the base is in every state,    *)
(* not only at the start of a step (PlaceKnown).                           *)
(***************************************************************************)
\* What a thread may be at while it saves.
Savers ==
    {[stage |-> s] : s \in {"no", "due", "written"}}
        \cup [stage : {"dumped", "opened"}, text : Mind!Saved]

\* A step is of the right kind of thing, and there is one only while a run goes on.
Fits(st) ==
    /\ st \in Mind!Step
    /\ (st.does \in {"Find", "Pick"}) = (st.on \in Object)
    /\ st.does \in {"Open", "Close"} => st.on \in Container
StepAtHand ==
    \/ doing = Mind!NoStep
    \/ /\ phase = "running"
       /\ \E s \in {"guarded", "started", "worked", "failed"}, st \in Mind!Step :
             Fits(st) /\ doing = [stage |-> s, step |-> st]

\* A skill that drives leaves no measurement behind.
DrivenIsUnmeasured ==
    doing.stage \in {"worked", "failed"} /\ doing.step.does = "MoveTo" => ~measured

\* The place believed is where the base is, if it was measured and nobody edited it; no
\* pose means no place.
PlaceKnown ==
    /\ measured /\ setBy \in {"belief", "sensor"} => belief.arrived \in {None, stands}
    /\ setBy = "unknown" => belief.arrived = None

MindTypes ==
    /\ stands \in Mind!Somewhere /\ hand \in Object \cup {None} /\ open \subseteq Container
    /\ belief \in Mind!Beliefs
    /\ prov \in [arrived : [source : Mind!Source, value : Mind!Somewhere],
                 state : [Container -> BOOLEAN \cup {None}]]
    /\ setBy \in Mind!Source /\ measured \in BOOLEAN
    /\ told \in Mind!Held \cup {"no"}
    /\ phase \in {"off", "idle", "running", "paused"}
    /\ again \in Mind!Somewhere
DiskTypes ==
    /\ saved \in Mind!Saved \cup {None, Torn} /\ tmp \in Mind!Saved \cup {None, Torn}
    /\ saver \in [Mind!Thread -> Savers]
CountTypes == steps \in 0..MaxSteps /\ events \in 0..MaxEvents

MindInv ==
    /\ MindTypes /\ DiskTypes /\ CountTypes
    /\ StepAtHand /\ DrivenIsUnmeasured /\ PlaceKnown

LEMMA MindTyped == MindInv => Mind!TypeOK
<1> SUFFICES ASSUME MindInv PROVE Mind!TypeOK
  OBVIOUS
<1>1. doing.stage \in {"none", "guarded", "started", "worked", "failed"}
  BY DEF MindInv, StepAtHand, Mind!NoStep
<1>2. \A t \in Mind!Thread : saver[t].stage \in {"no", "due", "dumped", "opened", "written"}
  BY DEF MindInv, DiskTypes, Savers
<1>3. QED
  BY <1>1, <1>2 DEF MindInv, MindTypes, DiskTypes, CountTypes, Mind!TypeOK

LEMMA MindActs == MindInv => ActsThere
  BY DEF MindInv, MindTypes, PlaceKnown, ActsThere, Mind!ActsThere, Mind!Source

LEMMA MindInit == ASSUME MaxSteps \in Nat, MaxEvents \in Nat PROVE Mind!Init => MindInv
<1> SUFFICES ASSUME Mind!Init PROVE MindInv
  OBVIOUS
<1>1. MindTypes
  BY DEF MindTypes, Mind!Init, Mind!Somewhere, Mind!Beliefs, Mind!NoProv, Mind!Source, Mind!Held
<1>2. DiskTypes
  BY DEF DiskTypes, Mind!Init, Mind!NotSaving, Savers
<1>3. CountTypes
  BY DEF CountTypes, Mind!Init
<1>4. QED
  BY <1>1, <1>2, <1>3 DEF MindInv, Mind!Init, StepAtHand, DrivenIsUnmeasured, PlaceKnown, Mind!NoStep

\* What only concerns the disk keeps what is known of the mind.
LEMMA MindRests ==
    ASSUME MindInv, UNCHANGED <<Mind!world, belief, prov, setBy, measured, phase, doing, again>>,
           told' \in Mind!Held \cup {"no"}, DiskTypes', CountTypes'
    PROVE  MindInv'
  BY DEF MindInv, MindTypes, StepAtHand, DrivenIsUnmeasured, PlaceKnown, Mind!world,
     Mind!Somewhere, Mind!Beliefs, Mind!Source, Mind!Held, Mind!NoStep

LEMMA SaverTurns ==
    ASSUME DiskTypes, NEW t \in Mind!Thread, NEW s \in Savers, Mind!Turn(t, s)
    PROVE  saver' \in [Mind!Thread -> Savers]
  BY DEF DiskTypes, Mind!Turn

LEMMA SavesTyped ==
    ASSUME DiskTypes, NEW t \in Mind!Thread, Mind!Saves(t) \/ UNCHANGED saver, UNCHANGED <<saved, tmp>>
    PROVE  DiskTypes'
<1>1. [stage |-> "due"] \in Savers
  BY DEF Savers
<1>2. QED
  BY <1>1 DEF DiskTypes, Mind!Saves

LEMMA SaveStepInv ==
    ASSUME MindInv, NEW t \in Mind!Thread, Mind!SaveStep(t)
    PROVE  MindInv'
<1>1. [holding |-> belief.holding, opened |-> belief.opened] \in Mind!Saved
  BY DEF MindInv, MindTypes, Mind!Beliefs, Mind!Saved
<1>2. saver[t].stage = "dumped" \/ saver[t].stage = "opened"
         => saver[t].text \in Mind!Saved /\ [saver[t] EXCEPT !.stage = "opened"] \in Savers
  BY DEF MindInv, DiskTypes, Savers
<1>3. DiskTypes'
  <2>1. CASE Mind!Dump(t)
    <3>1. [stage |-> "dumped", text |-> [holding |-> belief.holding, opened |-> belief.opened]] \in Savers
      BY <1>1 DEF Savers
    <3>2. QED
      BY <2>1, <3>1, SaverTurns DEF MindInv, DiskTypes, Mind!Dump
  <2>2. CASE Mind!Open(t)
    BY <2>2, <1>2, SaverTurns DEF MindInv, DiskTypes, Mind!Open
  <2>3. CASE Mind!WriteText(t)
    <3>1. [stage |-> "written"] \in Savers
      BY DEF Savers
    <3>2. QED
      BY <2>3, <1>2, <3>1, SaverTurns DEF MindInv, DiskTypes, Mind!WriteText
  <2>4. CASE Mind!Replace(t)
    <3>1. Mind!NotSaving \in Savers
      BY DEF Savers, Mind!NotSaving
    <3>2. QED
      BY <2>4, <3>1, SaverTurns DEF MindInv, DiskTypes, Mind!Replace
  <2>5. QED
    BY <2>1, <2>2, <2>3, <2>4 DEF Mind!SaveStep
<1>4. CountTypes'
  BY DEF MindInv, CountTypes, Mind!SaveStep, Mind!counts
<1>5. QED
  BY <1>3, <1>4, MindRests DEF MindInv, MindTypes, Mind!SaveStep, Mind!mind, Mind!run

LEMMA Happened ==
    ASSUME MaxEvents \in Nat, CountTypes, Mind!Happens
    PROVE  CountTypes'
  BY DEF CountTypes, Mind!Happens

LEMMA Stepped ==
    ASSUME MaxSteps \in Nat, CountTypes, steps < MaxSteps, steps' = steps + 1, UNCHANGED events
    PROVE  CountTypes'
  BY DEF CountTypes

LEMMA Counted ==
    ASSUME CountTypes, UNCHANGED Mind!counts
    PROVE  CountTypes'
  BY DEF CountTypes, Mind!counts

LEMMA DiskRests ==
    ASSUME DiskTypes, UNCHANGED Mind!disk
    PROVE  DiskTypes'
  BY DEF DiskTypes, Mind!disk

LEMMA CrashInv ==
    ASSUME MaxEvents \in Nat, MindInv, Mind!Crash
    PROVE  MindInv'
<1>1. DiskTypes'
  <2>1. Mind!NotSaving \in Savers
    BY DEF Savers, Mind!NotSaving
  <2>2. QED
    BY <2>1 DEF MindInv, DiskTypes, Mind!Crash
<1>2. CountTypes'
  BY Happened DEF MindInv, Mind!Crash
<1>3. MindTypes'
  BY DEF MindInv, MindTypes, Mind!Crash, Mind!world, Mind!Somewhere, Mind!Held
<1>4. QED
  BY <1>1, <1>2, <1>3 DEF MindInv, Mind!Crash, Mind!world, StepAtHand, DrivenIsUnmeasured, PlaceKnown, Mind!NoStep

LEMMA BootInv ==
    ASSUME MindInv, Mind!Boot
    PROVE  MindInv'
<1>1. Mind!Loaded.holding \in Mind!Held /\ Mind!Loaded.opened \in SUBSET Container
  BY DEF MindInv, DiskTypes, Mind!Loaded, Mind!Nothing, Mind!Saved, Mind!Held
<1>2. belief' \in Mind!Beliefs /\ belief'.arrived = None
  BY <1>1 DEF Mind!Boot, Mind!Beliefs, Mind!Somewhere
<1>3. MindTypes'
  BY <1>2 DEF MindInv, MindTypes, Mind!Boot, Mind!world, Mind!NoProv, Mind!Source, Mind!Somewhere
<1>4. DiskTypes' /\ CountTypes'
  BY DiskRests, Counted DEF MindInv, Mind!Boot
<1>5. StepAtHand' /\ DrivenIsUnmeasured' /\ PlaceKnown'
  BY <1>2 DEF MindInv, Mind!Boot, StepAtHand, DrivenIsUnmeasured, PlaceKnown, Mind!NoStep
<1>6. QED
  BY <1>3, <1>4, <1>5 DEF MindInv

\* A belief with one field set is a belief with that field and the others as before.
LEMMA BeliefSet ==
    ASSUME MindTypes
    PROVE  /\ \A p \in Mind!Somewhere :
                 LET b == [belief EXCEPT !.arrived = p] IN b \in Mind!Beliefs /\ b.arrived = p
           /\ \A x \in Mind!Held :
                 LET b == [belief EXCEPT !.holding = x]
                 IN b \in Mind!Beliefs /\ b.arrived = belief.arrived
           /\ \A c : LET b == [belief EXCEPT !.opened = @ \ {c}]
                     IN b \in Mind!Beliefs /\ b.arrived = belief.arrived
           /\ \A c \in Container :
                 LET b == [belief EXCEPT !.opened = @ \cup {c}]
                 IN b \in Mind!Beliefs /\ b.arrived = belief.arrived
  BY DEF MindTypes, Mind!Beliefs

\* mark() of a place by a known source.
LEMMA MarkTyped ==
    ASSUME MindTypes, NEW p \in Mind!Somewhere, NEW s \in Mind!Source
    PROVE  [prov EXCEPT !.arrived = Mind!Marked(s, p)]
               \in [arrived : [source : Mind!Source, value : Mind!Somewhere],
                    state : [Container -> BOOLEAN \cup {None}]]
  BY DEF MindTypes, Mind!Marked

LEMMA EditInv ==
    ASSUME MaxEvents \in Nat, MindInv, Mind!Edit
    PROVE  MindInv'
<1>1. DiskTypes'
  BY SavesTyped DEF MindInv, Mind!Edit, Mind!Thread
<1>2. CountTypes'
  BY Happened DEF MindInv, Mind!Edit
<1>3. UNCHANGED <<stands, hand, open, measured, phase, doing, again>>
  BY DEF Mind!Edit, Mind!world, Mind!run
<1>4. StepAtHand' /\ DrivenIsUnmeasured'
  BY <1>3 DEF MindInv, StepAtHand, DrivenIsUnmeasured
<1>5. CASE \E p \in Mind!Somewhere : Mind!Sets(p, "operator") /\ UNCHANGED told
  <2>1. PICK p \in Mind!Somewhere : Mind!Sets(p, "operator") /\ UNCHANGED told
    BY <1>5
  <2>2. belief' \in Mind!Beliefs
    BY <2>1, BeliefSet DEF MindInv, Mind!Sets
  <2>3. "operator" \in Mind!Source
    BY DEF Mind!Source
  <2>4. prov' \in [arrived : [source : Mind!Source, value : Mind!Somewhere],
                   state : [Container -> BOOLEAN \cup {None}]]
    BY <2>1, <2>3, MarkTyped DEF MindInv, Mind!Sets
  <2>5. MindTypes'
    BY <1>3, <2>1, <2>2, <2>3, <2>4 DEF MindInv, MindTypes, Mind!Sets
  <2>6. PlaceKnown'
    BY <2>1 DEF PlaceKnown, Mind!Sets
  <2>7. QED
    BY <1>1, <1>2, <1>4, <2>5, <2>6 DEF MindInv
<1>6. CASE \E x \in Object \cup {None} :
              belief' = [belief EXCEPT !.holding = x] /\ told' = x /\ UNCHANGED <<prov, setBy>>
  <2>1. belief' \in Mind!Beliefs /\ belief'.arrived = belief.arrived /\ told' \in Mind!Held
    BY <1>6, BeliefSet DEF MindInv, Mind!Held
  <2>2. MindTypes'
    BY <1>3, <1>6, <2>1 DEF MindInv, MindTypes
  <2>3. PlaceKnown'
    BY <1>3, <1>6, <2>1 DEF MindInv, PlaceKnown
  <2>4. QED
    BY <1>1, <1>2, <1>4, <2>2, <2>3 DEF MindInv
<1>7. QED
  BY <1>5, <1>6 DEF Mind!Edit

LEMMA BeginsInv ==
    ASSUME MindInv, Mind!Begins
    PROVE  MindInv'
<1>1. PICK posed \in BOOLEAN, felt \in BOOLEAN :
         LET place == Mind!PlaceRead(posed)
             dropped == felt /\ Mind!SeesEmpty /\ belief.holding # None
             now == [arrived |-> place, opened |-> Mind!OpenedRead,
                     holding |-> IF dropped THEN None ELSE belief.holding] IN
         /\ belief' = now
         /\ prov' = [arrived |-> Mind!Marked(IF posed THEN "sensor" ELSE "unknown", place),
                     state |-> Mind!StateRead]
         /\ setBy' = (IF posed THEN "sensor" ELSE "unknown") /\ measured' = posed
         /\ told' = IF dropped THEN "no" ELSE told
         /\ IF now # belief THEN Mind!Saves("run") ELSE UNCHANGED saver
  BY DEF Mind!Begins, Mind!Reconcile
<1>2. Mind!PlaceRead(posed) \in Mind!Somewhere
  BY DEF MindInv, MindTypes, Mind!PlaceRead, Mind!Somewhere
<1>3. Mind!OpenedRead \in SUBSET Container /\ Mind!StateRead \in [Container -> BOOLEAN \cup {None}]
  BY DEF MindInv, MindTypes, Mind!OpenedRead, Mind!StateRead, Mind!Beliefs
<1>4. belief.holding \in Mind!Held /\ None \in Mind!Held
  BY DEF MindInv, MindTypes, Mind!Beliefs, Mind!Held
<1>5. belief' \in Mind!Beliefs /\ belief'.arrived = Mind!PlaceRead(posed)
  BY <1>1, <1>2, <1>3, <1>4 DEF Mind!Beliefs
<1>6. prov' \in [arrived : [source : Mind!Source, value : Mind!Somewhere],
                 state : [Container -> BOOLEAN \cup {None}]]
  BY <1>1, <1>2, <1>3 DEF Mind!Marked, Mind!Source
<1>7. MindTypes'
  BY <1>1, <1>5, <1>6 DEF MindInv, MindTypes, Mind!Begins, Mind!world, Mind!Source
<1>8. DiskTypes'
  BY <1>1, SavesTyped DEF MindInv, Mind!Begins, Mind!Thread
<1>9. CountTypes'
  BY Counted DEF MindInv, Mind!Begins
<1>10. StepAtHand' /\ DrivenIsUnmeasured'
  BY DEF MindInv, StepAtHand, DrivenIsUnmeasured, Mind!Begins, Mind!NoStep
<1>11. PlaceKnown'
  BY <1>1, <1>5 DEF PlaceKnown, Mind!PlaceRead, Mind!Begins, Mind!world
<1>12. QED
  BY <1>7, <1>8, <1>9, <1>10, <1>11 DEF MindInv

LEMMA GuardInv ==
    ASSUME MaxSteps \in Nat, MindInv, NEW st \in Mind!Step, Mind!Guard(st)
    PROVE  MindInv'
<1>1. CountTypes'
  BY Stepped DEF MindInv, Mind!Guard
<1>2. Fits(st) /\ phase = "running"
  BY DEF Mind!Guard, Mind!MayCome, Mind!Boundary, Fits
<1>3. phase' = phase /\ doing' = [stage |-> "guarded", step |-> st]
  BY DEF Mind!Guard
<1>4. StepAtHand' /\ DrivenIsUnmeasured'
  BY <1>2, <1>3 DEF StepAtHand, DrivenIsUnmeasured, Fits
<1>5. UNCHANGED <<stands, hand, open, phase, again, saved, tmp, told>>
  BY DEF Mind!Guard, Mind!world
<1>6. CASE /\ Mind!Sets(stands, "sensor") /\ measured' = TRUE
           /\ IF stands # belief.arrived THEN Mind!Saves("run") ELSE UNCHANGED saver
  <2>1. stands \in Mind!Somewhere /\ "sensor" \in Mind!Source
    BY DEF MindInv, MindTypes, Mind!Source
  <2>2. belief' \in Mind!Beliefs /\ belief'.arrived = stands
    BY <1>6, <2>1, BeliefSet DEF MindInv, Mind!Sets
  <2>3. prov' \in [arrived : [source : Mind!Source, value : Mind!Somewhere],
                   state : [Container -> BOOLEAN \cup {None}]]
    BY <1>6, <2>1, MarkTyped DEF MindInv, Mind!Sets
  <2>4. MindTypes'
    BY <1>5, <1>6, <2>1, <2>2, <2>3 DEF MindInv, MindTypes, Mind!Sets
  <2>5. DiskTypes'
    BY <1>5, <1>6, SavesTyped DEF MindInv, Mind!Thread
  <2>6. PlaceKnown'
    BY <1>5, <1>6, <2>2 DEF PlaceKnown, Mind!Sets
  <2>7. QED
    BY <1>1, <1>4, <2>4, <2>5, <2>6 DEF MindInv
<1>7. CASE UNCHANGED <<belief, prov, setBy, measured, saver>>
  <2>1. MindTypes' /\ PlaceKnown'
    BY <1>5, <1>7 DEF MindInv, MindTypes, PlaceKnown
  <2>2. DiskTypes'
    BY <1>5, <1>7 DEF MindInv, DiskTypes
  <2>3. QED
    BY <1>1, <1>4, <2>1, <2>2 DEF MindInv
<1>8. QED
  BY <1>6, <1>7 DEF Mind!Guard

\* The step at hand, when there is one.
LEMMA AtHand ==
    ASSUME MindInv, doing.stage # "none"
    PROVE  /\ phase = "running"
           /\ Fits(doing.step)
           /\ doing.stage \in {"guarded", "started", "worked", "failed"}
           /\ doing = [stage |-> doing.stage, step |-> doing.step]
  BY DEF MindInv, StepAtHand, Mind!NoStep

\* A step that goes on is the same step.
LEMMA StepGoesOn ==
    ASSUME MindInv, doing.stage # "none", NEW s \in {"guarded", "started", "worked", "failed"},
           doing' = [doing EXCEPT !.stage = s], phase' = phase
    PROVE  StepAtHand' /\ doing'.stage = s /\ doing'.step = doing.step
<1>1. doing' = [stage |-> s, step |-> doing.step]
  BY AtHand
<1>2. QED
  BY <1>1, AtHand DEF StepAtHand, Fits

\* No step at hand is always right.
LEMMA NoStepAtHand ==
    ASSUME doing' = Mind!NoStep
    PROVE  StepAtHand' /\ DrivenIsUnmeasured'
  BY DEF StepAtHand, DrivenIsUnmeasured, Mind!NoStep

LEMMA ChecksInv ==
    ASSUME MindInv, Mind!Checks
    PROVE  MindInv'
<1>1. UNCHANGED <<stands, hand, open, prov, setBy, measured, again>>
  BY DEF Mind!Checks, Mind!world
<1>2. DiskTypes' /\ CountTypes'
  BY DiskRests, Counted DEF MindInv, Mind!Checks
<1>3. belief' \in Mind!Beliefs /\ belief'.arrived = belief.arrived
  <2>1. None \in Mind!Held
    BY DEF Mind!Held
  <2>2. Mind!Empty \in Mind!Beliefs /\ Mind!Empty.arrived = belief.arrived
    BY <2>1, BeliefSet DEF MindInv, Mind!Empty
  <2>3. belief' = belief \/ belief' = Mind!Empty
    BY DEF Mind!Checks
  <2>4. QED
    BY <2>2, <2>3 DEF MindInv, MindTypes
<1>4. told' \in Mind!Held \cup {"no"}
  BY DEF MindInv, MindTypes, Mind!Checks
<1>5. phase' \in {"idle", phase} /\ (phase' # phase => doing' = Mind!NoStep)
  BY DEF Mind!Checks
<1>6. MindTypes'
  BY <1>1, <1>3, <1>4, <1>5 DEF MindInv, MindTypes
<1>7. doing' = Mind!NoStep \/ (doing' = [doing EXCEPT !.stage = "started"] /\ phase' = phase)
  BY DEF Mind!Checks
<1>8. doing.stage # "none"
  BY DEF Mind!Checks
<1>9. StepAtHand' /\ DrivenIsUnmeasured'
  <2>1. CASE doing' = Mind!NoStep
    BY <2>1, NoStepAtHand
  <2>2. CASE doing' = [doing EXCEPT !.stage = "started"] /\ phase' = phase
    BY <2>2, <1>8, StepGoesOn DEF DrivenIsUnmeasured
  <2>3. QED
    BY <1>7, <2>1, <2>2
<1>10. PlaceKnown'
  BY <1>1, <1>3 DEF MindInv, PlaceKnown
<1>11. QED
  BY <1>2, <1>6, <1>9, <1>10 DEF MindInv

LEMMA SkillInv ==
    ASSUME MindInv, Mind!Skill
    PROVE  MindInv'
<1>1. doing.stage # "none" /\ Fits(doing.step)
  BY AtHand DEF Mind!Skill
<1>2. UNCHANGED <<belief, prov, setBy, told, phase, again>>
  BY DEF Mind!Skill
<1>3. DiskTypes' /\ CountTypes'
  BY DiskRests, Counted DEF MindInv, Mind!Skill
<1>4. /\ stands' \in Mind!Somewhere /\ hand' \in Object \cup {None} /\ open' \subseteq Container
      /\ doing.step.does # "MoveTo" => stands' = stands
  <2>1. CASE Mind!Works
    BY <1>1, <2>1 DEF MindInv, MindTypes, Mind!Works, Fits, Mind!Step, Mind!Somewhere
  <2>2. CASE Mind!Misses
    BY <2>2 DEF MindInv, MindTypes, Mind!Misses, Mind!Somewhere
  <2>3. QED
    BY <2>1, <2>2 DEF Mind!Skill
<1>5. measured' = (measured /\ doing.step.does # "MoveTo")
  BY DEF Mind!Skill
<1>6. MindTypes'
  <2>1. measured' \in BOOLEAN
    BY <1>5
  <2>2. QED
    BY <1>2, <1>4, <2>1 DEF MindInv, MindTypes
<1>7. \E s \in {"worked", "failed"} : doing' = [doing EXCEPT !.stage = s]
  BY DEF Mind!Skill
<1>8. StepAtHand' /\ doing'.step = doing.step
  BY <1>1, <1>2, <1>7, StepGoesOn
<1>9. DrivenIsUnmeasured' /\ PlaceKnown'
  BY <1>2, <1>4, <1>5, <1>8 DEF MindInv, DrivenIsUnmeasured, PlaceKnown
<1>10. QED
  BY <1>3, <1>6, <1>8, <1>9 DEF MindInv

\* What a skill's effect makes of the belief: a drive changes the place and nothing else
\* does.
LEMMA AfterTyped ==
    ASSUME MindInv, NEW st, Fits(st)
    PROVE  /\ Mind!After(st) \in Mind!Beliefs
           /\ Mind!After(st).arrived = IF st.does = "MoveTo" THEN st.on ELSE belief.arrived
           /\ st.does = "MoveTo" => st.on \in Place
<1>1. st.does \in {"MoveTo", "Find", "Pick", "Place", "Open", "Close"} /\ st.on \in Place \cup Object
  BY DEF Fits, Mind!Step
<1>2. belief \in Mind!Beliefs
  BY DEF MindInv, MindTypes
<1>3. CASE st.does = "MoveTo"
  BY <1>1, <1>3, BeliefSet DEF MindInv, Fits, Mind!After, Mind!Somewhere
<1>4. CASE st.does = "Pick"
  BY <1>1, <1>4, BeliefSet DEF MindInv, Fits, Mind!After, Mind!Held
<1>5. CASE st.does = "Place"
  BY <1>5, BeliefSet DEF MindInv, Mind!After, Mind!Held
<1>6. CASE st.does = "Open"
  BY <1>6, BeliefSet DEF MindInv, Fits, Mind!After
<1>7. CASE st.does = "Close"
  BY <1>7, BeliefSet DEF MindInv, Mind!After
<1>8. CASE st.does = "Find"
  BY <1>2, <1>8 DEF Mind!After
<1>9. QED
  BY <1>1, <1>3, <1>4, <1>5, <1>6, <1>7, <1>8

LEMMA EffectTyped ==
    ASSUME MindInv, NEW st, Fits(st), Mind!Effect(st), UNCHANGED <<saved, tmp>>
    PROVE  /\ belief' \in Mind!Beliefs
           /\ belief'.arrived = IF st.does = "MoveTo" THEN st.on ELSE belief.arrived
           /\ told' \in Mind!Held \cup {"no"}
           /\ DiskTypes'
<1>1. told' \in Mind!Held \cup {"no"}
  BY DEF MindInv, MindTypes, Mind!Effect
<1>2. DiskTypes'
  BY SavesTyped DEF MindInv, Mind!Effect, Mind!Thread
<1>3. QED
  BY <1>1, <1>2, AfterTyped DEF Mind!Effect

LEMMA SucceedsInv ==
    ASSUME MindInv, Mind!Succeeds
    PROVE  MindInv'
<1> DEFINE st == doing.step
<1>1. doing.stage # "none" /\ Fits(st)
  BY AtHand DEF Mind!Succeeds, Mind!Released
<1>2. Mind!Effect(st) /\ UNCHANGED <<stands, hand, open, phase, saved, tmp>> /\ again' = None
  BY DEF Mind!Succeeds, Mind!world
<1>3. CountTypes'
  BY Counted DEF MindInv, Mind!Succeeds
<1>4. StepAtHand' /\ DrivenIsUnmeasured'
  BY NoStepAtHand DEF Mind!Succeeds
<1>5. PICK seen \in BOOLEAN :
         /\ Mind!Passes(st, seen)
         /\ IF st.does = "MoveTo"
            THEN /\ setBy' = IF seen THEN "sensor" ELSE "belief"
                 /\ measured' = seen
                 /\ prov' = IF seen THEN [prov EXCEPT !.arrived = Mind!Marked("sensor", st.on)] ELSE prov
            ELSE UNCHANGED <<prov, setBy, measured>>
  BY DEF Mind!Succeeds
<1>6. belief' \in Mind!Beliefs /\ told' \in Mind!Held \cup {"no"} /\ DiskTypes'
  BY <1>1, <1>2, EffectTyped
<1>7. CASE st.does = "MoveTo"
  <2>1. belief'.arrived = st.on /\ st.on \in Place
    BY <1>1, <1>2, <1>7, EffectTyped, AfterTyped
  <2>2. setBy' \in Mind!Source /\ measured' \in BOOLEAN
    BY <1>5, <1>7 DEF Mind!Source
  <2>3. prov' \in [arrived : [source : Mind!Source, value : Mind!Somewhere],
                   state : [Container -> BOOLEAN \cup {None}]]
    <3>1. "sensor" \in Mind!Source /\ st.on \in Mind!Somewhere
      BY <2>1 DEF Mind!Source, Mind!Somewhere
    <3>2. QED
      BY <1>5, <1>7, <3>1, MarkTyped DEF MindInv, MindTypes
  <2>4. MindTypes'
    BY <1>2, <1>6, <2>2, <2>3 DEF MindInv, MindTypes, Mind!Somewhere
  <2>5. seen => stands = st.on
    BY <1>5, <1>7 DEF Mind!Passes
  <2>6. PlaceKnown'
    BY <1>2, <1>5, <1>7, <2>1, <2>5 DEF PlaceKnown
  <2>7. QED
    BY <1>3, <1>4, <1>6, <2>4, <2>6 DEF MindInv
<1>8. CASE st.does # "MoveTo"
  <2>1. belief'.arrived = belief.arrived
    BY <1>1, <1>2, <1>8, EffectTyped
  <2>2. MindTypes' /\ PlaceKnown'
    BY <1>2, <1>5, <1>6, <1>8, <2>1 DEF MindInv, MindTypes, PlaceKnown, Mind!Somewhere
  <2>3. QED
    BY <1>3, <1>4, <1>6, <2>2 DEF MindInv
<1>9. QED
  BY <1>7, <1>8

LEMMA StoppedInv ==
    ASSUME MindInv, Mind!Stopped
    PROVE  MindInv'
<1> DEFINE st == doing.step
<1>1. doing.stage \in {"worked", "failed"} /\ Fits(st)
  BY AtHand DEF Mind!Stopped
<1>2. UNCHANGED <<stands, hand, open, prov, measured, saved, tmp>> /\ again' = None /\ phase' = "idle"
  BY DEF Mind!Stopped, Mind!world
<1>3. CountTypes'
  BY Counted DEF MindInv, Mind!Stopped
<1>4. StepAtHand' /\ DrivenIsUnmeasured'
  BY NoStepAtHand DEF Mind!Stopped
<1>5. CASE doing.stage = "worked"
  <2>1. Mind!Effect(st) /\ setBy' = IF st.does = "MoveTo" THEN Mind!By(st.on) ELSE setBy
    BY <1>5 DEF Mind!Stopped
  <2>2. belief' \in Mind!Beliefs /\ told' \in Mind!Held \cup {"no"} /\ DiskTypes'
    BY <1>1, <1>2, <2>1, EffectTyped
  <2>3. setBy' \in Mind!Source
    BY <2>1 DEF MindInv, MindTypes, Mind!By, Mind!Source
  <2>4. MindTypes'
    BY <1>2, <2>2, <2>3 DEF MindInv, MindTypes, Mind!Somewhere
  <2>5. PlaceKnown'
    <3>1. CASE st.does = "MoveTo"
      <4>1. belief'.arrived = st.on /\ ~measured
        BY <1>1, <1>2, <2>1, <3>1, EffectTyped DEF MindInv, DrivenIsUnmeasured
      <4>2. QED
        BY <1>2, <2>1, <3>1, <4>1 DEF MindInv, PlaceKnown, Mind!By
    <3>2. CASE st.does # "MoveTo"
      BY <1>1, <1>2, <2>1, <3>2, EffectTyped DEF MindInv, PlaceKnown
    <3>3. QED
      BY <3>1, <3>2
  <2>6. QED
    BY <1>3, <1>4, <2>2, <2>4, <2>5 DEF MindInv
<1>6. CASE doing.stage = "failed"
  <2>1. UNCHANGED <<belief, told, saver, setBy>>
    BY <1>6 DEF Mind!Stopped
  <2>2. MindTypes' /\ PlaceKnown'
    BY <1>2, <2>1 DEF MindInv, MindTypes, PlaceKnown, Mind!Somewhere
  <2>3. DiskTypes'
    BY <1>2, <2>1 DEF MindInv, DiskTypes
  <2>4. QED
    BY <1>3, <1>4, <2>2, <2>3 DEF MindInv
<1>7. QED
  BY <1>1, <1>5, <1>6

LEMMA FailsInv ==
    ASSUME MindInv, Mind!Fails
    PROVE  MindInv'
<1>1. doing.stage # "none" /\ Fits(doing.step) /\ phase = "running"
  BY AtHand DEF Mind!Fails, Mind!NotDone
<1>2. UNCHANGED <<stands, hand, open, prov, setBy, measured>>
  BY DEF Mind!Fails, Mind!world
<1>3. DiskTypes' /\ CountTypes'
  BY DiskRests, Counted DEF MindInv, Mind!Fails
<1>4. /\ belief' \in Mind!Beliefs /\ belief'.arrived = belief.arrived
      /\ told' \in Mind!Held \cup {"no"}
      /\ again' \in Mind!Somewhere
      /\ phase' \in {"idle", phase} /\ doing' = Mind!NoStep
  <2>1. belief \in Mind!Beliefs /\ told \in Mind!Held \cup {"no"} /\ again \in Mind!Somewhere
    BY DEF MindInv, MindTypes
  <2>2. None \in Mind!Somewhere /\ None \in Mind!Held /\ Thing \in Mind!Held
    BY DEF Mind!Somewhere, Mind!Held
  <2>3. CASE Mind!RecoverMove
    <3>1. doing.step.on \in Place
      BY <1>1, <2>3, AfterTyped DEF Mind!RecoverMove
    <3>2. again' \in {doing.step.on, None} /\ UNCHANGED <<belief, told>>
          /\ phase' \in {"idle", phase} /\ doing' = Mind!NoStep
      BY <2>3 DEF Mind!RecoverMove, Mind!Ends, Mind!GoesOn
    <3>3. QED
      BY <2>1, <3>1, <3>2 DEF Mind!Somewhere
  <2>4. CASE Mind!RecoverPick
    <3>1. belief' \in {belief, [belief EXCEPT !.holding = Thing]} /\ told' \in {"no", told}
          /\ again' \in {None, again} /\ phase' \in {"idle", phase} /\ doing' = Mind!NoStep
      BY <2>4 DEF Mind!RecoverPick, Mind!Ends, Mind!GoesOn, Mind!Forgets
    <3>2. QED
      BY <2>1, <2>2, <3>1, BeliefSet DEF MindInv
  <2>5. CASE Mind!RecoverPlace
    <3>1. belief' \in {belief, Mind!Empty} /\ told' \in {"no", told}
          /\ again' \in {None, again} /\ phase' \in {"idle", phase} /\ doing' = Mind!NoStep
      BY <2>5 DEF Mind!RecoverPlace, Mind!Ends, Mind!GoesOn, Mind!Forgets
    <3>2. Mind!Empty \in Mind!Beliefs /\ Mind!Empty.arrived = belief.arrived
      BY <2>2, BeliefSet DEF MindInv, Mind!Empty
    <3>3. QED
      BY <2>1, <2>2, <3>1, <3>2
  <2>6. CASE Mind!RecoverFind
    <3>1. belief' \in {belief, [belief EXCEPT !.opened = @ \ {belief.arrived}]}
          /\ told' = told /\ again' = again /\ phase' = phase /\ doing' = Mind!NoStep
      BY <2>6 DEF Mind!RecoverFind, Mind!GoesOn
    <3>2. QED
      BY <2>1, <3>1, BeliefSet DEF MindInv
  <2>7. CASE Mind!RecoverOther
    BY <2>1, <2>7 DEF Mind!RecoverOther, Mind!GoesOn
  <2>8. QED
    BY <2>3, <2>4, <2>5, <2>6, <2>7 DEF Mind!Fails
<1>5. MindTypes' /\ PlaceKnown'
  BY <1>2, <1>4 DEF MindInv, MindTypes, PlaceKnown
<1>6. QED
  BY <1>3, <1>4, <1>5, NoStepAtHand DEF MindInv

LEMMA LooksAtGoalInv ==
    ASSUME MaxSteps \in Nat, MindInv, Mind!LooksAtGoal
    PROVE  MindInv'
<1>1. UNCHANGED <<hand, open, prov, told, phase, doing, again>> /\ ~measured'
      /\ measured' \in BOOLEAN /\ stands' \in Mind!Somewhere
  BY DEF Mind!LooksAtGoal, Mind!run
<1>2. DiskTypes'
  BY DiskRests DEF MindInv, Mind!LooksAtGoal
<1>3. CountTypes'
  BY Stepped DEF MindInv, Mind!LooksAtGoal
<1>4. /\ belief' \in Mind!Beliefs
      /\ setBy' = "belief" \/ (setBy' = setBy /\ belief'.arrived = belief.arrived)
  <2>1. CASE UNCHANGED <<belief, setBy>>
    BY <2>1 DEF MindInv, MindTypes
  <2>2. CASE \E p \in Place \ {belief.arrived} :
                belief' = [belief EXCEPT !.arrived = p] /\ setBy' = "belief"
    BY <2>2, BeliefSet DEF MindInv, Mind!Somewhere
  <2>3. QED
    BY <2>1, <2>2 DEF Mind!LooksAtGoal
<1>5. MindTypes'
  BY <1>1, <1>4 DEF MindInv, MindTypes, Mind!Source
<1>6. StepAtHand' /\ DrivenIsUnmeasured' /\ PlaceKnown'
  BY <1>1, <1>4 DEF MindInv, StepAtHand, DrivenIsUnmeasured, PlaceKnown
<1>7. QED
  BY <1>2, <1>3, <1>5, <1>6 DEF MindInv

LEMMA BetweenStepsInv ==
    ASSUME MindInv, Mind!GoalsChange \/ Mind!Rests
    PROVE  MindInv'
<1>1. /\ UNCHANGED <<stands, hand, open, belief, prov, setBy, measured, told, doing>>
      /\ UNCHANGED Mind!disk /\ UNCHANGED Mind!counts
      /\ again' = None /\ phase' \in {phase, "paused", "idle"} /\ doing = Mind!NoStep
  BY DEF Mind!GoalsChange, Mind!Rests, Mind!Boundary, Mind!world, Mind!mind
<1>2. MindTypes' /\ PlaceKnown'
  BY <1>1 DEF MindInv, MindTypes, PlaceKnown, Mind!Somewhere
<1>3. QED
  BY <1>1, <1>2, NoStepAtHand, DiskRests, Counted DEF MindInv

LEMMA PushedInv ==
    ASSUME MaxEvents \in Nat, MindInv, Mind!Pushed
    PROVE  MindInv'
<1>1. UNCHANGED <<hand, open, belief, prov, setBy, told, phase, doing, again>> /\ measured' = FALSE
      /\ stands' \in Mind!Somewhere
  BY DEF Mind!Pushed, Mind!run
<1>2. DiskTypes' /\ CountTypes'
  BY DiskRests, Happened DEF MindInv, Mind!Pushed
<1>3. MindTypes'
  BY <1>1 DEF MindInv, MindTypes
<1>4. StepAtHand' /\ DrivenIsUnmeasured' /\ PlaceKnown'
  BY <1>1 DEF MindInv, StepAtHand, DrivenIsUnmeasured, PlaceKnown
<1>5. QED
  BY <1>2, <1>3, <1>4 DEF MindInv

LEMMA SlipsInv ==
    ASSUME MaxEvents \in Nat, MindInv, Mind!Slips
    PROVE  MindInv'
<1>1. UNCHANGED <<stands, open, belief, prov, setBy, measured, told, phase, doing, again>>
      /\ hand' = None
  BY DEF Mind!Slips, Mind!mind, Mind!run
<1>2. DiskTypes' /\ CountTypes'
  BY DiskRests, Happened DEF MindInv, Mind!Slips
<1>3. MindTypes'
  BY <1>1 DEF MindInv, MindTypes
<1>4. StepAtHand' /\ DrivenIsUnmeasured' /\ PlaceKnown'
  BY <1>1 DEF MindInv, StepAtHand, DrivenIsUnmeasured, PlaceKnown
<1>5. QED
  BY <1>2, <1>3, <1>4 DEF MindInv

LEMMA MindRemains ==
    ASSUME MindInv, UNCHANGED Mind!vars
    PROVE  MindInv'
  BY MindRests, DiskRests, Counted
     DEF MindInv, MindTypes, Mind!vars, Mind!mind, Mind!run

LEMMA MindStep ==
    ASSUME MaxSteps \in Nat, MaxEvents \in Nat, MindInv, [Mind!Next]_(Mind!vars)
    PROVE  MindInv'
  BY SaveStepInv, CrashInv, BootInv, EditInv, BeginsInv, GuardInv, ChecksInv, SkillInv,
     SucceedsInv, StoppedInv, FailsInv, LooksAtGoalInv, BetweenStepsInv, PushedInv, SlipsInv,
     MindRemains DEF Mind!Next

(***************************************************************************)
(* A step at a place starts where the robot is believed to be, whatever    *)
(* pushed, drove, crashed or edited before: for any places, objects and    *)
(* containers and any number of steps and events.  Only a base that was    *)
(* not measured since it drove, and an operator's word, are left out.      *)
(***************************************************************************)
THEOREM ActsAtPlace ==
    ASSUME MaxSteps \in Nat, MaxEvents \in Nat
    PROVE  Mind!Spec => []ActsThere
<1>1. Mind!Init => MindInv
  BY MindInit
<1>2. MindInv /\ [Mind!Next]_(Mind!vars) => MindInv'
  BY MindStep
<1>3. MindInv => ActsThere
  BY MindActs
<1>4. QED
  BY <1>1, <1>2, <1>3, PTL DEF Mind!Spec

(* The belief, its provenance, the file and the step at hand keep their    *)
(* types.                                                                  *)
THEOREM BeliefTyped ==
    ASSUME MaxSteps \in Nat, MaxEvents \in Nat
    PROVE  Mind!Spec => []Mind!TypeOK
<1>1. Mind!Init => MindInv
  BY MindInit
<1>2. MindInv /\ [Mind!Next]_(Mind!vars) => MindInv'
  BY MindStep
<1>3. MindInv => Mind!TypeOK
  BY MindTyped
<1>4. QED
  BY <1>1, <1>2, <1>3, PTL DEF Mind!Spec
=============================================================================
