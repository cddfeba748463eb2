-------------------------- MODULE RunControlProofs --------------------------
(***************************************************************************)
(* Proofs about RunControl: its types, that a deferred stop always has its *)
(* timer, that no goal gets past the node's check while a stopped run is   *)
(* active, and who may cut a section, for every number of runs, sections,  *)
(* clients and failing sockets.                                            *)
(***************************************************************************)
EXTENDS RunControl, TLAPS

-----------------------------------------------------------------------------
(* The inductive invariant.                                                *)

\* TypeOK in parts: flags and phases, counters, and what a stop consists of.
FlagTypes ==
    /\ phase \in [Run -> {"none", "running", "cancelling", "done"}]
    /\ cancel \in [Run -> BOOLEAN] /\ deferred \in [Run -> BOOLEAN]
    /\ armed \in BOOLEAN /\ flag \in BOOLEAN
    /\ lock \in {"free", "command", "exec", "button"}
    /\ exec \in [Run -> {"none", "begin", "clear", "top", "go", "send", "sending",
                         "moving", "end", "stop", "over"}]
CountTypes ==
    /\ critical \in [Run -> 0..MaxSections] /\ seq \in [Run -> 0..MaxSections]
    /\ sect \in [Run -> [run : 0..MaxRuns, token : 0..MaxSections]]
    /\ goals \subseteq Run /\ button \in 0..MaxRuns
StopTypes ==
    /\ call \in [Client -> [at : {"idle", "hook", "stop"}, run : 0..MaxRuns,
                            seq : 0..MaxSections]]
    /\ timers \subseteq Timers /\ due \subseteq Timers /\ stopped \subseteq Run /\ gone \subseteq Run

\* The runs follow each other.
OneActive == \A r, q \in Run : Active(r) /\ Active(q) => r = q

\* A run that was cancelled is cancelling or over: the cancel is not undone.
CancelledPhase == \A r \in Run : cancel[r] => phase[r] \in {"cancelling", "done"}

\* Every stop under way, noted or carried out is the stop of a cancelled run.
StopsOfCancelled ==
    /\ \A c \in Client : call[c].at # "idle" => call[c].run \in Run /\ cancel[call[c].run]
    /\ \A r \in Run : deferred[r] \/ r \in stopped => cancel[r]
    /\ \A r \in Run : exec[r] = "stop" => sect[r].run \in Run /\ cancel[sect[r].run]
    /\ \A t \in due : cancel[t[1]]
    /\ button # NoRun => cancel[button] /\ lock = "button"

\* A run that has not begun has no executive.
ExecutivePhase == \A r \in Run : phase[r] = "none" => exec[r] = "none"

\* An executive in the middle of begin_run holds run_control._LOCK.
ClearHoldsLock ==
    /\ \A r \in Run : exec[r] = "clear" => lock = "exec"
    /\ \A r, q \in Run : exec[r] = "clear" /\ exec[q] = "clear" => r = q

(***************************************************************************)
(* The heart of it: from the stop of a run to its end the node stays       *)
(* cancelled, and no begin_run is between its check and its clear.         *)
(***************************************************************************)
StoppedDisarmed ==
    \A r \in stopped : Active(r) => ~armed /\ lock \notin {"command", "exec"}

IInv ==
    /\ FlagTypes /\ CountTypes /\ StopTypes
    /\ OneActive /\ CancelledPhase /\ StopsOfCancelled /\ ExecutivePhase
    /\ ClearHoldsLock /\ StoppedDisarmed /\ DeferredStopHasTimer

LEMMA Types == FlagTypes /\ CountTypes /\ StopTypes /\ (button # NoRun => lock = "button") => TypeOK
  BY DEF FlagTypes, CountTypes, StopTypes, TypeOK

LEMMA ActiveRunType ==
    \/ ActiveRun = NoRun /\ \A r \in Run : ~Active(r)
    \/ ActiveRun \in Run /\ Active(ActiveRun) /\ ActiveRun # NoRun
<1>1. CASE \E r \in Run : Active(r)
  BY <1>1 DEF ActiveRun, Run, NoRun
<1>2. CASE ~\E r \in Run : Active(r)
  BY <1>2 DEF ActiveRun
<1> QED
  BY <1>1, <1>2

LEMMA InitInv == Init => IInv
<1> SUFFICES ASSUME Init PROVE IInv
  OBVIOUS
<1>1. FlagTypes
  BY DEF Init, FlagTypes
<1>2. CountTypes
  BY BoundsAssumption DEF Init, CountTypes, NoSection, NoRun
<1>3. StopTypes
  BY BoundsAssumption DEF Init, StopTypes, IdleCall, NoRun
<1>4. QED
  BY <1>1, <1>2, <1>3 DEF Init, IInv, OneActive, Active, CancelledPhase,
     StopsOfCancelled, ExecutivePhase, ClearHoldsLock, StoppedDisarmed,
     DeferredStopHasTimer, IdleCall

-----------------------------------------------------------------------------
(* The inductive step.                                                     *)

\* An executive that only moves on disturbs nothing.
LEMMA OnlyMoves ==
    ASSUME IInv, NEW r \in Run, exec[r] # "none",
           NEW to \in {"top", "go", "send", "sending", "end", "over"}, Moves(r, to)
    PROVE  IInv'
<1> USE DEF runs, section, robot, stoppers
<1>1. FlagTypes'
  BY DEF Moves, IInv, FlagTypes
<1>2. CountTypes' /\ StopTypes' /\ OneActive' /\ CancelledPhase'
  BY DEF Moves, IInv, CountTypes, StopTypes, OneActive, CancelledPhase, Active
<1>3. \A q \in Run : exec'[q] \in {"clear", "stop"} => exec'[q] = exec[q]
  BY DEF Moves, IInv, FlagTypes
<1>4. StopsOfCancelled'
  BY <1>3 DEF Moves, IInv, StopsOfCancelled
<1>5. ExecutivePhase'
  BY DEF Moves, IInv, ExecutivePhase, FlagTypes
<1>6. ClearHoldsLock'
  BY <1>3 DEF Moves, IInv, ClearHoldsLock
<1>7. StoppedDisarmed' /\ DeferredStopHasTimer'
  BY DEF Moves, IInv, StoppedDisarmed, DeferredStopHasTimer, Active
<1> QED
  BY <1>1, <1>2, <1>4, <1>5, <1>6, <1>7 DEF IInv

LEMMA InvStep == IInv /\ [Next]_vars => IInv'
<1> SUFFICES ASSUME IInv, [Next]_vars PROVE IInv'
  OBVIOUS
<1> USE DEF runs, section, robot, executive, stoppers
<1>1. ASSUME CommandBegins PROVE IInv'
  <2>1. FlagTypes'
    BY <1>1 DEF CommandBegins, IInv, FlagTypes
  <2>2. StopsOfCancelled'
    BY <1>1 DEF CommandBegins, IInv, StopsOfCancelled
  <2>3. ClearHoldsLock'
    BY <1>1 DEF CommandBegins, IInv, ClearHoldsLock
  <2>4. StoppedDisarmed'
    BY <1>1 DEF CommandBegins, MayClear, IInv, StoppedDisarmed,
       StopsOfCancelled, Active, StopTypes
  <2>5. CountTypes' /\ StopTypes' /\ OneActive' /\ CancelledPhase'
         /\ ExecutivePhase' /\ DeferredStopHasTimer'
    BY <1>1 DEF CommandBegins, IInv, CountTypes, StopTypes, OneActive,
       CancelledPhase, ExecutivePhase, DeferredStopHasTimer, Active
  <2> QED
    BY <2>1, <2>2, <2>3, <2>4, <2>5 DEF IInv
<1>2. ASSUME CommandClears PROVE IInv'
  <2>1. FlagTypes'
    BY <1>2 DEF CommandClears, ClearsNode, IInv, FlagTypes
  <2>2. StopsOfCancelled'
    BY <1>2 DEF CommandClears, ClearsNode, IInv, StopsOfCancelled
  <2>3. ClearHoldsLock'
    BY <1>2 DEF CommandClears, ClearsNode, IInv, ClearHoldsLock
  <2>4. StoppedDisarmed'
    BY <1>2 DEF CommandClears, ClearsNode, IInv, StoppedDisarmed, Active
  <2>5. CountTypes' /\ StopTypes' /\ OneActive' /\ CancelledPhase'
         /\ ExecutivePhase' /\ DeferredStopHasTimer'
    BY <1>2 DEF CommandClears, ClearsNode, IInv, CountTypes, StopTypes, OneActive,
       CancelledPhase, ExecutivePhase, DeferredStopHasTimer, Active
  <2> QED
    BY <2>1, <2>2, <2>3, <2>4, <2>5 DEF IInv
<1>3. ASSUME NEW r \in Run, Start(r) PROVE IInv'
  <2>1. FlagTypes'
    BY <1>3 DEF Start, IInv, FlagTypes
  <2>2. OneActive'
    BY <1>3, ActiveRunType DEF Start, OneActive, Active
  <2>3. CancelledPhase'
    BY <1>3 DEF Start, IInv, CancelledPhase
  <2>4. StopsOfCancelled'
    BY <1>3 DEF Start, IInv, StopsOfCancelled
  <2>5. ExecutivePhase'
    BY <1>3 DEF Start, IInv, ExecutivePhase, Active, FlagTypes
  <2>6. ClearHoldsLock'
    BY <1>3 DEF Start, IInv, ClearHoldsLock
  <2>7. StoppedDisarmed'
    BY <1>3 DEF Start, IInv, StoppedDisarmed, StopsOfCancelled,
       CancelledPhase, Active
  <2>8. CountTypes' /\ StopTypes' /\ DeferredStopHasTimer'
    BY <1>3 DEF Start, IInv, CountTypes, StopTypes, DeferredStopHasTimer
  <2> QED
    BY <2>1, <2>2, <2>3, <2>4, <2>5, <2>6, <2>7, <2>8 DEF IInv
<1>4. ASSUME NEW r \in Run, ExecBegins(r) PROVE IInv'
  <2>1. FlagTypes'
    BY <1>4 DEF ExecBegins, IInv, FlagTypes
  <2>2. StopsOfCancelled'
    BY <1>4 DEF ExecBegins, IInv, StopsOfCancelled, FlagTypes
  <2>3. ExecutivePhase'
    BY <1>4 DEF ExecBegins, IInv, ExecutivePhase, Active, FlagTypes
  <2>4. ClearHoldsLock'
    BY <1>4 DEF ExecBegins, IInv, ClearHoldsLock, FlagTypes
  <2>5. StoppedDisarmed'
    BY <1>4 DEF ExecBegins, MayClear, IInv, StoppedDisarmed, StopsOfCancelled,
       Active, StopTypes
  <2>6. CountTypes' /\ StopTypes' /\ OneActive' /\ CancelledPhase'
         /\ DeferredStopHasTimer'
    BY <1>4 DEF ExecBegins, IInv, CountTypes, StopTypes, OneActive,
       CancelledPhase, DeferredStopHasTimer, Active
  <2> QED
    BY <2>1, <2>2, <2>3, <2>4, <2>5, <2>6 DEF IInv
<1>5. ASSUME NEW r \in Run, ExecClears(r) PROVE IInv'
  <2>1. FlagTypes'
    BY <1>5 DEF ExecClears, ClearsNode, IInv, FlagTypes
  <2>2. StopsOfCancelled'
    BY <1>5 DEF ExecClears, ClearsNode, IInv, StopsOfCancelled, ClearHoldsLock
  <2>3. ExecutivePhase'
    BY <1>5 DEF ExecClears, ClearsNode, IInv, ExecutivePhase, Active
  <2>4. ClearHoldsLock'
    BY <1>5 DEF ExecClears, ClearsNode, IInv, ClearHoldsLock, ExecutivePhase, OneActive,
       FlagTypes
  <2>5. StoppedDisarmed'
    BY <1>5 DEF ExecClears, ClearsNode, IInv, StoppedDisarmed, Active, ClearHoldsLock
  <2>6. CountTypes' /\ StopTypes' /\ OneActive' /\ CancelledPhase'
         /\ DeferredStopHasTimer'
    BY <1>5 DEF ExecClears, ClearsNode, IInv, CountTypes, StopTypes, OneActive,
       CancelledPhase, DeferredStopHasTimer, Active
  <2> QED
    BY <2>1, <2>2, <2>3, <2>4, <2>5, <2>6 DEF IInv
<1>6. ASSUME NEW r \in Run, Boundary(r) PROVE IInv'
  BY <1>6, OnlyMoves DEF Boundary
<1>7. ASSUME NEW r \in Run, PlanEnd(r) PROVE IInv'
  BY <1>7, OnlyMoves DEF PlanEnd
<1>8. ASSUME NEW r \in Run, BeginSkill(r) PROVE IInv'
  BY <1>8, OnlyMoves DEF BeginSkill
<1>9. ASSUME NEW r \in Run, BeginCritical(r) PROVE IInv'
  <2> DEFINE q == ActiveRun
  <2>1. q \in Run
    BY <1>9, ActiveRunType DEF BeginCritical
  <2>2. FlagTypes'
    BY <1>9, <2>1 DEF BeginCritical, IInv, FlagTypes
  <2>3. CountTypes'
    <3>1. seq[q] + 1 \in 0..MaxSections /\ q \in 0..MaxRuns
      <4>1. seq[q] \in 0..MaxSections
        BY <2>1 DEF IInv, CountTypes
      <4>2. seq[q] < MaxSections
        BY <1>9 DEF BeginCritical
      <4> HIDE DEF q
      <4> QED
        BY <2>1, <4>1, <4>2, BoundsAssumption DEF Run
    <3>2. /\ seq' = [seq EXCEPT ![q] = seq[q] + 1]
          /\ critical' = [critical EXCEPT ![q] = seq[q] + 1]
          /\ sect' = [sect EXCEPT ![r] = [run |-> q, token |-> seq[q] + 1]]
      BY <1>9, <2>1 DEF BeginCritical, IInv, CountTypes
    <3> HIDE DEF q
    <3> QED
      BY <1>9, <2>1, <3>1, <3>2 DEF BeginCritical, IInv, CountTypes
  <2>4. StopsOfCancelled'
    BY <1>9, <2>1 DEF BeginCritical, IInv, StopsOfCancelled, FlagTypes
  <2>5. ExecutivePhase'
    BY <1>9 DEF BeginCritical, IInv, ExecutivePhase, FlagTypes
  <2>6. ClearHoldsLock'
    BY <1>9 DEF BeginCritical, IInv, ClearHoldsLock, FlagTypes
  <2>7. DeferredStopHasTimer'
    BY <1>9, <2>1 DEF BeginCritical, IInv, DeferredStopHasTimer, FlagTypes, CountTypes
  <2>8. StopTypes' /\ OneActive' /\ CancelledPhase' /\ StoppedDisarmed'
    BY <1>9 DEF BeginCritical, IInv, StopTypes, OneActive, CancelledPhase,
       StoppedDisarmed, Active
  <2> QED
    BY <2>2, <2>3, <2>4, <2>5, <2>6, <2>7, <2>8 DEF IInv
<1>10. ASSUME NEW r \in Run, SendChecks(r) PROVE IInv'
  BY <1>10, OnlyMoves DEF SendChecks
<1>11. ASSUME NEW r \in Run, SendGoes(r) PROVE IInv'
  <2>1. FlagTypes'
    BY <1>11 DEF SendGoes, IInv, FlagTypes
  <2>2. CountTypes'
    BY <1>11 DEF SendGoes, IInv, CountTypes, Run
  <2>3. StopsOfCancelled'
    BY <1>11 DEF SendGoes, IInv, StopsOfCancelled
  <2>4. ExecutivePhase'
    BY <1>11 DEF SendGoes, IInv, ExecutivePhase, Active
  <2>5. ClearHoldsLock'
    BY <1>11 DEF SendGoes, IInv, ClearHoldsLock
  <2>6. StopTypes' /\ OneActive' /\ CancelledPhase' /\ StoppedDisarmed'
         /\ DeferredStopHasTimer'
    BY <1>11 DEF SendGoes, IInv, StopTypes, OneActive, CancelledPhase,
       StoppedDisarmed, DeferredStopHasTimer, Active
  <2> QED
    BY <2>1, <2>2, <2>3, <2>4, <2>5, <2>6 DEF IInv
<1>12. ASSUME NEW r \in Run, GoalDone(r) PROVE IInv'
  <2>1. FlagTypes'
    BY <1>12 DEF GoalDone, IInv, FlagTypes
  <2>2. CountTypes'
    BY <1>12, BoundsAssumption
    DEF GoalDone, IInv, CountTypes, Run, NoRun
  <2>3. StopsOfCancelled'
    BY <1>12 DEF GoalDone, IInv, StopsOfCancelled, FlagTypes
  <2>4. ExecutivePhase'
    BY <1>12 DEF GoalDone, IInv, ExecutivePhase, Active, FlagTypes
  <2>5. ClearHoldsLock'
    BY <1>12 DEF GoalDone, IInv, ClearHoldsLock, FlagTypes
  <2>6. StopTypes' /\ OneActive' /\ CancelledPhase' /\ StoppedDisarmed'
         /\ DeferredStopHasTimer'
    BY <1>12 DEF GoalDone, IInv, StopTypes, OneActive, CancelledPhase,
       StoppedDisarmed, DeferredStopHasTimer, Active
  <2> QED
    BY <2>1, <2>2, <2>3, <2>4, <2>5, <2>6 DEF IInv
<1>13. ASSUME NEW r \in Run, GoalCut(r) PROVE IInv'
  BY <1>13, OnlyMoves DEF GoalCut
<1>14. ASSUME NEW r \in Run, EndSkill(r) PROVE IInv'
  <2> DEFINE q == sect[r].run
             dueNow == InSection(r) /\ deferred[q]
  <2>1. exec[r] = "end" /\ exec' = [exec EXCEPT ![r] = IF dueNow THEN "stop" ELSE "top"]
        /\ sect' = [sect EXCEPT ![r] = IF dueNow THEN @ ELSE NoSection]
        /\ UNCHANGED <<runs, seq, robot, lock, stoppers, stopped, gone>>
    BY <1>14 DEF EndSkill, Leaves
  <2>2. \/ /\ q \in Run /\ critical' = [critical EXCEPT ![q] = 0]
           /\ deferred' = [deferred EXCEPT ![q] = FALSE]
        \/ UNCHANGED <<critical, deferred>>
    <3>1. InSection(r) => q \in Run
      BY BoundsAssumption DEF InSection, IInv, CountTypes, Run, NoRun
    <3> QED
      BY <1>14, <3>1 DEF EndSkill, Leaves
  <2>3. dueNow => q \in Run /\ cancel[q]
    <3>1. dueNow => q \in Run /\ deferred[q]
      BY BoundsAssumption DEF InSection, IInv, CountTypes, Run, NoRun
    <3> HIDE DEF q, dueNow
    <3> QED
      BY <3>1 DEF IInv, StopsOfCancelled
  <2>4. \A p \in Run : deferred'[p] => deferred[p] /\ critical'[p] = critical[p]
    BY <2>2 DEF IInv, FlagTypes, CountTypes
  <2> HIDE DEF q, dueNow
  <2>5. FlagTypes'
    BY <2>1, <2>2 DEF IInv, FlagTypes
  <2>6. CountTypes'
    BY <2>1, <2>2, BoundsAssumption DEF IInv, CountTypes, NoSection, NoRun
  <2>7. StopsOfCancelled'
    <3>1. \A p \in Run : exec'[p] = "stop" => sect'[p].run \in Run /\ cancel[sect'[p].run]
      <4>1. \A p \in Run : p # r => exec'[p] = exec[p] /\ sect'[p] = sect[p]
        BY <2>1 DEF IInv, FlagTypes, CountTypes
      <4>2. exec'[r] = "stop" => dueNow /\ sect'[r] = sect[r]
        BY <2>1 DEF IInv, FlagTypes, CountTypes
      <4>3. exec'[r] = "stop" => sect'[r].run \in Run /\ cancel[sect'[r].run]
        BY <4>2, <2>3 DEF q
      <4> QED
        BY <4>1, <4>3 DEF IInv, StopsOfCancelled
    <3> QED
      BY <2>1, <2>4, <3>1 DEF IInv, StopsOfCancelled
  <2>8. ExecutivePhase'
    BY <2>1 DEF IInv, ExecutivePhase, FlagTypes
  <2>9. ClearHoldsLock'
    BY <2>1 DEF IInv, ClearHoldsLock, FlagTypes
  <2>10. DeferredStopHasTimer'
    BY <2>1, <2>4 DEF IInv, DeferredStopHasTimer
  <2>11. StopTypes' /\ OneActive' /\ CancelledPhase' /\ StoppedDisarmed'
    BY <2>1 DEF IInv, StopTypes, OneActive, CancelledPhase, StoppedDisarmed, Active
  <2> QED
    BY <2>5, <2>6, <2>7, <2>8, <2>9, <2>10, <2>11 DEF IInv
<1>15. ASSUME NEW r \in Run, SectionStop(r) PROVE IInv'
  <2>1. sect[r].run \in Run /\ cancel[sect[r].run]
    BY <1>15 DEF SectionStop, IInv, StopsOfCancelled
  <2>2. FlagTypes'
    BY <1>15 DEF SectionStop, StopRobot, IInv, FlagTypes
  <2>3. CountTypes'
    BY <1>15, BoundsAssumption
    DEF SectionStop, StopRobot, IInv, CountTypes, NoSection, NoRun
  <2>4. StopTypes'
    BY <1>15, <2>1 DEF SectionStop, StopRobot, IInv, StopTypes
  <2>5. StopsOfCancelled'
    <3>1. \A p \in Run : exec'[p] = "stop" => exec[p] = "stop" /\ sect'[p] = sect[p]
      BY <1>15 DEF SectionStop, IInv, FlagTypes, CountTypes
    <3> QED
      BY <1>15, <2>1, <3>1 DEF SectionStop, StopRobot, IInv, StopsOfCancelled
  <2>6. ExecutivePhase'
    BY <1>15 DEF SectionStop, IInv, ExecutivePhase, FlagTypes
  <2>7. ClearHoldsLock'
    BY <1>15 DEF SectionStop, IInv, ClearHoldsLock, FlagTypes
  <2>8. StoppedDisarmed'
    BY <1>15 DEF SectionStop, StopRobot, StoppedDisarmed
  <2>9. OneActive' /\ CancelledPhase' /\ DeferredStopHasTimer'
    BY <1>15 DEF SectionStop, IInv, OneActive, CancelledPhase,
       DeferredStopHasTimer, Active
  <2> QED
    BY <2>2, <2>3, <2>4, <2>5, <2>6, <2>7, <2>8, <2>9 DEF IInv
<1>16. ASSUME NEW r \in Run, Finish(r) PROVE IInv'
  <2>1. FlagTypes'
    BY <1>16 DEF Finish, IInv, FlagTypes
  <2>2. OneActive'
    BY <1>16 DEF Finish, IInv, OneActive, Active
  <2>3. CancelledPhase'
    BY <1>16 DEF Finish, IInv, CancelledPhase
  <2>4. ExecutivePhase'
    BY <1>16 DEF Finish, IInv, ExecutivePhase, Active
  <2>5. StoppedDisarmed'
    BY <1>16 DEF Finish, IInv, StoppedDisarmed, Active
  <2>6. CountTypes' /\ StopTypes' /\ StopsOfCancelled' /\ ClearHoldsLock'
         /\ DeferredStopHasTimer'
    BY <1>16 DEF Finish, IInv, CountTypes, StopTypes, StopsOfCancelled,
       ClearHoldsLock, DeferredStopHasTimer
  <2> QED
    BY <2>1, <2>2, <2>3, <2>4, <2>5, <2>6 DEF IInv
<1>17. ASSUME NEW c \in Client, NEW r \in Run, ClientCancels(c, r) PROVE IInv'
  <2>1. FlagTypes'
    BY <1>17 DEF ClientCancels, CancelRun, IInv, FlagTypes
  <2>2. StopTypes'
    <3>1. r \in 0..MaxRuns /\ 0 \in 0..MaxSections
      BY BoundsAssumption DEF Run
    <3> QED
      BY <1>17, <3>1 DEF ClientCancels, IInv, StopTypes
  <2>3. OneActive'
    BY <1>17 DEF ClientCancels, CancelRun, IInv, OneActive, Active
  <2>4. CancelledPhase'
    BY <1>17 DEF ClientCancels, CancelRun, IInv, CancelledPhase, FlagTypes
  <2>5. StopsOfCancelled'
    BY <1>17 DEF ClientCancels, CancelRun, IInv, StopsOfCancelled, FlagTypes
  <2>6. ExecutivePhase'
    BY <1>17 DEF ClientCancels, CancelRun, IInv, ExecutivePhase, Active
  <2>7. StoppedDisarmed'
    BY <1>17 DEF ClientCancels, CancelRun, IInv, StoppedDisarmed, Active
  <2>8. CountTypes' /\ ClearHoldsLock' /\ DeferredStopHasTimer'
    BY <1>17 DEF ClientCancels, IInv, CountTypes, ClearHoldsLock,
       DeferredStopHasTimer
  <2> QED
    BY <2>1, <2>2, <2>3, <2>4, <2>5, <2>6, <2>7, <2>8 DEF IInv
<1>18. ASSUME NEW c \in Client, DeferStop(c) PROVE IInv'
  <2>1. FlagTypes'
    BY <1>18 DEF DeferStop, IInv, FlagTypes
  <2>2. StopTypes'
    <3> DEFINE r == call[c].run
    <3>1. r \in Run /\ critical[r] \in 0..MaxSections /\ seq[r] \in 0..MaxSections
      BY <1>18 DEF DeferStop, IInv, CountTypes, StopsOfCancelled
    <3>2. CASE critical[r] # 0
      <4>1. <<r, critical[r]>> \in Timers
        BY <3>1, <3>2, BoundsAssumption DEF Timers
      <4> QED
        BY <1>18, <3>2, <4>1, BoundsAssumption DEF DeferStop, IInv, StopTypes,
           IdleCall, NoRun
    <3>3. CASE critical[r] = 0
      BY <1>18, <3>1, <3>3 DEF DeferStop, IInv, StopTypes
    <3> QED
      BY <3>1, <3>2, <3>3
  <2>3. StopsOfCancelled'
    <3>1. call[c].run \in Run /\ cancel[call[c].run]
      BY <1>18 DEF DeferStop, IInv, StopsOfCancelled
    <3>2. \A d \in Client : call'[d].at # "idle" =>
              call[d].at # "idle" /\ call'[d].run = call[d].run
      BY <1>18 DEF DeferStop, IInv, StopTypes, IdleCall
    <3>3. \A q \in Run : deferred'[q] => deferred[q] \/ q = call[c].run
      BY <1>18 DEF DeferStop, IInv, FlagTypes
    <3> QED
      BY <1>18, <3>1, <3>2, <3>3 DEF DeferStop, IInv, StopsOfCancelled
  <2>4. DeferredStopHasTimer'
    BY <1>18 DEF DeferStop, IInv, DeferredStopHasTimer, FlagTypes
  <2>5. CountTypes' /\ OneActive' /\ CancelledPhase' /\ ExecutivePhase'
         /\ ClearHoldsLock' /\ StoppedDisarmed'
    BY <1>18 DEF DeferStop, IInv, CountTypes, OneActive, CancelledPhase,
       ExecutivePhase, ClearHoldsLock, StoppedDisarmed, Active
  <2> QED
    BY <2>1, <2>2, <2>3, <2>4, <2>5 DEF IInv
<1>19. ASSUME NEW c \in Client, ClientStops(c) PROVE IInv'
  <2>1. FlagTypes'
    BY <1>19 DEF ClientStops, StopRobot, IInv, FlagTypes
  <2>2. CountTypes'
    BY <1>19, BoundsAssumption
    DEF ClientStops, StopRobot, IInv, CountTypes, Run, NoRun
  <2>3. StopTypes'
    <3>1. call[c].run \in Run
      BY <1>19 DEF ClientStops, IInv, StopsOfCancelled
    <3> QED
      BY <1>19, <3>1, BoundsAssumption DEF ClientStops, StopRobot, IInv,
         StopTypes, IdleCall, NoRun
  <2>4. StopsOfCancelled'
    BY <1>19 DEF ClientStops, StopRobot, IInv, StopsOfCancelled, IdleCall
  <2>5. StoppedDisarmed'
    BY <1>19 DEF ClientStops, StopRobot, StoppedDisarmed
  <2>6. OneActive' /\ CancelledPhase' /\ ExecutivePhase' /\ ClearHoldsLock'
         /\ DeferredStopHasTimer'
    BY <1>19 DEF ClientStops, IInv, OneActive, CancelledPhase, ExecutivePhase,
       ClearHoldsLock, DeferredStopHasTimer, Active
  <2> QED
    BY <2>1, <2>2, <2>3, <2>4, <2>5, <2>6 DEF IInv
<1>20. ASSUME NEW t \in Timers, TimerFires(t) PROVE IInv'
  <2>1. FlagTypes'
    BY <1>20 DEF TimerFires, IInv, FlagTypes
  <2>2. StopTypes'
    BY <1>20 DEF TimerFires, IInv, StopTypes
  <2>3. StopsOfCancelled'
    BY <1>20 DEF TimerFires, IInv, StopsOfCancelled, FlagTypes, Timers
  <2>4. DeferredStopHasTimer'
    BY <1>20 DEF TimerFires, IInv, DeferredStopHasTimer, FlagTypes
  <2>5. CountTypes' /\ OneActive' /\ CancelledPhase' /\ ExecutivePhase'
         /\ ClearHoldsLock' /\ StoppedDisarmed'
    BY <1>20 DEF TimerFires, IInv, CountTypes, OneActive, CancelledPhase,
       ExecutivePhase, ClearHoldsLock, StoppedDisarmed, Active
  <2> QED
    BY <2>1, <2>2, <2>3, <2>4, <2>5 DEF IInv
<1>21. ASSUME NEW t \in Timers, TimerStops(t) PROVE IInv'
  <2>1. FlagTypes'
    BY <1>21 DEF TimerStops, StopRobot, IInv, FlagTypes
  <2>2. CountTypes'
    BY <1>21, BoundsAssumption
    DEF TimerStops, StopRobot, IInv, CountTypes, Run, NoRun, Timers
  <2>3. StopTypes'
    BY <1>21 DEF TimerStops, StopRobot, IInv, StopTypes, Timers
  <2>4. StopsOfCancelled'
    BY <1>21 DEF TimerStops, StopRobot, IInv, StopsOfCancelled
  <2>5. StoppedDisarmed'
    BY <1>21 DEF TimerStops, StopRobot, StoppedDisarmed
  <2>6. OneActive' /\ CancelledPhase' /\ ExecutivePhase' /\ ClearHoldsLock'
         /\ DeferredStopHasTimer'
    BY <1>21 DEF TimerStops, IInv, OneActive, CancelledPhase, ExecutivePhase,
       ClearHoldsLock, DeferredStopHasTimer, Active
  <2> QED
    BY <2>1, <2>2, <2>3, <2>4, <2>5, <2>6 DEF IInv
<1>22. ASSUME ButtonCancels PROVE IInv'
  <2>1. FlagTypes'
    BY <1>22 DEF ButtonCancels, CancelRun, IInv, FlagTypes
  <2>2. CountTypes'
    <3>1. button' \in 0..MaxRuns
      <4>1. button' = NoRun \/ button' \in Run
        BY <1>22, ActiveRunType DEF ButtonCancels
      <4> QED
        BY <4>1, BoundsAssumption DEF Run, NoRun
    <3>2. critical' = critical /\ seq' = seq /\ sect' = sect /\ goals' = goals
      BY <1>22 DEF ButtonCancels
    <3> QED
      BY <3>1, <3>2 DEF IInv, CountTypes
  <2>3. OneActive'
    BY <1>22, ActiveRunType DEF ButtonCancels, CancelRun, IInv, OneActive,
       Active, FlagTypes
  <2>4. CancelledPhase'
    BY <1>22 DEF ButtonCancels, CancelRun, IInv, CancelledPhase, FlagTypes
  <2>5. StopsOfCancelled'
    <3>1. \A r \in Run : cancel[r] => cancel'[r]
      BY <1>22 DEF ButtonCancels, CancelRun, IInv, FlagTypes
    <3>2. button' # NoRun => cancel'[button'] /\ lock' = "button"
      BY <1>22, ActiveRunType DEF ButtonCancels, CancelRun, IInv, FlagTypes
    <3>3. \A t \in due : t[1] \in Run
      BY DEF IInv, StopTypes, Timers
    <3> QED
      BY <1>22, <3>1, <3>2, <3>3 DEF ButtonCancels, IInv, StopsOfCancelled
  <2>6. ExecutivePhase'
    BY <1>22 DEF ButtonCancels, CancelRun, IInv, ExecutivePhase, Active,
       FlagTypes
  <2>7. ClearHoldsLock'
    BY <1>22 DEF ButtonCancels, IInv, ClearHoldsLock
  <2>8. StoppedDisarmed'
    BY <1>22, ActiveRunType DEF ButtonCancels, CancelRun, IInv,
       StoppedDisarmed, Active, FlagTypes, StopTypes
  <2>9. StopTypes' /\ DeferredStopHasTimer'
    BY <1>22 DEF ButtonCancels, IInv, StopTypes, DeferredStopHasTimer
  <2> QED
    BY <2>1, <2>2, <2>3, <2>4, <2>5, <2>6, <2>7, <2>8, <2>9 DEF IInv
<1>23. ASSUME ButtonStops PROVE IInv'
  <2>1. FlagTypes'
    BY <1>23 DEF ButtonStops, IInv, FlagTypes
  <2>2. CountTypes'
    BY <1>23, BoundsAssumption
    DEF ButtonStops, IInv, CountTypes, Run, NoRun
  <2>3. StopTypes'
    BY <1>23 DEF ButtonStops, IInv, StopTypes, CountTypes, Run, NoRun
  <2>4. StopsOfCancelled'
    BY <1>23 DEF ButtonStops, IInv, StopsOfCancelled
  <2>5. ClearHoldsLock'
    BY <1>23 DEF ButtonStops, IInv, ClearHoldsLock
  <2>6. StoppedDisarmed'
    BY <1>23 DEF ButtonStops, StoppedDisarmed
  <2>7. OneActive' /\ CancelledPhase' /\ ExecutivePhase' /\ DeferredStopHasTimer'
    BY <1>23 DEF ButtonStops, IInv, OneActive, CancelledPhase, ExecutivePhase,
       DeferredStopHasTimer, Active
  <2> QED
    BY <2>1, <2>2, <2>3, <2>4, <2>5, <2>6, <2>7 DEF IInv
<1>24. ASSUME NEW r \in Run, SocketFails(r) PROVE IInv'
  BY <1>24 DEF SocketFails, IInv, FlagTypes, CountTypes, StopTypes, OneActive,
     CancelledPhase, StopsOfCancelled, ExecutivePhase, ClearHoldsLock, StoppedDisarmed,
     DeferredStopHasTimer, Active
<1>25. CASE UNCHANGED vars
  BY <1>25 DEF vars, IInv, FlagTypes, CountTypes, StopTypes, OneActive, CancelledPhase,
     StopsOfCancelled, ExecutivePhase, ClearHoldsLock, StoppedDisarmed,
     DeferredStopHasTimer, Active
<1>26. QED
  BY <1>1, <1>2, <1>3, <1>4, <1>5, <1>6, <1>7, <1>8, <1>9, <1>10, <1>11,
     <1>12, <1>13, <1>14, <1>15, <1>16, <1>17, <1>18, <1>19, <1>20, <1>21,
     <1>22, <1>23, <1>24, <1>25 DEF Next, Executive

LEMMA Invariance == Spec => []IInv
  BY InitInv, InvStep, PTL DEF Spec

-----------------------------------------------------------------------------
(* Type correctness; the Stop button's run is only set under _LOCK.        *)
THEOREM TypeCorrect == Spec => []TypeOK
<1>1. IInv => TypeOK
  BY Types DEF IInv, StopsOfCancelled
<1> QED
  BY <1>1, Invariance, PTL

(***************************************************************************)
(* A stop that waits for a skill is never forgotten: as long as it is      *)
(* noted the section runs and its timer is armed.                          *)
(***************************************************************************)
THEOREM DeferredStopKept == Spec => []DeferredStopHasTimer
<1>1. IInv => DeferredStopHasTimer
  BY DEF IInv
<1> QED
  BY <1>1, Invariance, PTL

(***************************************************************************)
(* However many commands and sessions call begin_run, from the stop of a   *)
(* run to its end no executive sends: the cancel of an active run is never *)
(* cleared.                                                                *)
(***************************************************************************)
THEOREM StoppedRunSendsNothing == Spec => NoSendAfterStop
<1> DEFINE Quiet == \A r \in Run : exec[r] = "send" /\ exec'[r] = "sending"
                                  => \A q \in stopped : ~Active(q)
<1>1. ASSUME IInv, [Next]_vars PROVE Quiet
  <2> SUFFICES ASSUME NEW r \in Run, exec[r] = "send", exec'[r] = "sending"
               PROVE  \A q \in stopped : ~Active(q)
    OBVIOUS
  <2>1. armed
    <3>1. PICK q \in Run : Executive(q) \/ Start(q)
      BY <1>1 DEF Next, vars, executive, CommandBegins, CommandClears, SocketFails, Finish,
         ClientCancels, DeferStop, ClientStops, TimerFires, TimerStops, ButtonCancels,
         ButtonStops
    <3>2. ~Start(q) /\ (Executive(q) => q = r)
      BY <1>1 DEF Start, Executive, Moves, IInv, FlagTypes, ExecBegins, ExecClears, Boundary,
         PlanEnd, BeginSkill, BeginCritical, SendChecks, SendGoes, GoalDone, GoalCut, EndSkill,
         Leaves, SectionStop
    <3> QED
      BY <1>1, <3>1, <3>2 DEF Executive, Moves, IInv, FlagTypes, ExecBegins, ExecClears,
         Boundary, PlanEnd, BeginSkill, BeginCritical, SendChecks, SendGoes, GoalDone, GoalCut,
         EndSkill, Leaves, SectionStop
  <2> QED
    BY <1>1, <2>1 DEF IInv, StoppedDisarmed
<1>2. IInv /\ [Next]_vars => [Quiet]_vars
  BY <1>1
<1> QED
  BY <1>2, Invariance, PTL DEF Spec, NoSendAfterStop

-----------------------------------------------------------------------------
(* What the sections need beside: whose goals move the robot, and that a   *)
(* client's stop is older than the section it may meet.                    *)

GoalMoves == \A r \in goals : exec[r] = "moving"
SectionNumbered == \A r \in Run : critical[r] \in {0, seq[r]}
SectionHasToken == \A r \in Run : sect[r].run # NoRun => sect[r].token # 0
StopBeforeSection ==
    \A c \in Client, r \in Run :
        call[c].at = "stop" /\ call[c].run = r =>
            call[c].seq <= seq[r] /\ (critical[r] # 0 => call[c].seq < critical[r])

SectionInv == GoalMoves /\ SectionNumbered /\ SectionHasToken /\ StopBeforeSection

LEMMA InitSections == Init => SectionInv
  BY DEF Init, SectionInv, GoalMoves, SectionNumbered, SectionHasToken, StopBeforeSection,
     IdleCall, NoSection

\* A goal that goes out is the goal of the executive that sends it, and the one
\* that ends was its own.
LEMMA GoalStep == ASSUME IInv, GoalMoves, [Next]_vars PROVE GoalMoves'
<1> USE DEF robot, executive, Moves
<1>1. ASSUME NEW r \in Run, SendGoes(r) PROVE GoalMoves'
  <2>1. exec'[r] = "moving" /\ \A q \in Run : q # r => exec'[q] = exec[q]
    BY <1>1 DEF SendGoes, IInv, FlagTypes
  <2> QED
    BY <1>1, <2>1 DEF SendGoes, GoalMoves, IInv, CountTypes
<1>2. ASSUME NEW r \in Run, GoalDone(r) \/ GoalCut(r) PROVE GoalMoves'
  <2>1. r \notin goals' /\ goals' \subseteq goals
    BY <1>2 DEF GoalDone, GoalCut
  <2>2. \A q \in Run : q # r => exec'[q] = exec[q]
    BY <1>2 DEF GoalDone, GoalCut, IInv, FlagTypes
  <2> QED
    BY <2>1, <2>2 DEF GoalMoves, IInv, CountTypes
<1>3. ASSUME goals' \subseteq goals, NEW r \in Run, exec[r] # "moving",
             NEW to, exec' = [exec EXCEPT ![r] = to]
      PROVE  GoalMoves'
  <2>1. \A q \in goals : q # r /\ exec'[q] = exec[q]
    BY <1>3 DEF GoalMoves, IInv, CountTypes, FlagTypes
  <2> QED
    BY <1>3, <2>1 DEF GoalMoves
<1>4. CASE goals' \subseteq goals /\ UNCHANGED exec
  BY <1>4 DEF GoalMoves
<1>5. ASSUME NEW r \in Run, Start(r) PROVE GoalMoves'
  <2>1. exec[r] # "moving"
    BY <1>5 DEF Start, IInv, ExecutivePhase
  <2> QED
    BY <1>3, <1>5, <2>1 DEF Start
<1>6. ASSUME NEW r \in Run, ExecBegins(r) \/ ExecClears(r) \/ BeginCritical(r) \/ EndSkill(r)
                            \/ SectionStop(r)
      PROVE  GoalMoves'
  <2>1. exec[r] # "moving" /\ goals' \subseteq goals
    BY <1>6 DEF ExecBegins, ExecClears, BeginCritical, EndSkill, Leaves, SectionStop, StopRobot
  <2>2. \E to : exec' = [exec EXCEPT ![r] = to]
    BY <1>6 DEF ExecBegins, ExecClears, BeginCritical, EndSkill, Leaves, SectionStop
  <2> QED
    BY <1>3, <2>1, <2>2
<1>7. ASSUME NEW r \in Run, Boundary(r) \/ PlanEnd(r) \/ BeginSkill(r) \/ SendChecks(r)
      PROVE  GoalMoves'
  <2>1. exec[r] # "moving" /\ goals' \subseteq goals
    BY <1>7 DEF Boundary, PlanEnd, BeginSkill, SendChecks
  <2>2. \E to : exec' = [exec EXCEPT ![r] = to]
    BY <1>7 DEF Boundary, PlanEnd, BeginSkill, SendChecks
  <2> QED
    BY <1>3, <2>1, <2>2
<1>8. CASE (\E r \in Run : SocketFails(r) \/ Finish(r)) \/ CommandBegins \/ CommandClears
           \/ ButtonCancels \/ ButtonStops
  BY <1>4, <1>8 DEF SocketFails, Finish, CommandBegins, CommandClears, ButtonCancels, ButtonStops
<1>9. CASE (\E t \in Timers : TimerFires(t) \/ TimerStops(t)) \/ UNCHANGED vars
           \/ \E c \in Client : DeferStop(c) \/ ClientStops(c) \/ \E r \in Run : ClientCancels(c, r)
  BY <1>4, <1>9 DEF TimerFires, TimerStops, StopRobot, vars, DeferStop, ClientStops, ClientCancels
<1> QED
  BY <1>1, <1>2, <1>5, <1>6, <1>7, <1>8, <1>9 DEF Next, Executive

\* The token a section got is its number, which is not 0.
LEMMA TokenStep == ASSUME IInv, SectionHasToken, [Next]_vars PROVE SectionHasToken'
<1> USE DEF executive, Moves
<1>1. ASSUME NEW r \in Run, BeginCritical(r) PROVE SectionHasToken'
  <2>1. ActiveRun \in Run
    BY <1>1, ActiveRunType DEF BeginCritical
  <2>2. sect'[r].token # 0 /\ \A q \in Run : q # r => sect'[q] = sect[q]
    BY <1>1, <2>1, BoundsAssumption DEF BeginCritical, IInv, CountTypes
  <2> QED
    BY <2>2 DEF SectionHasToken
<1>2. ASSUME NEW r \in Run, EndSkill(r) \/ SectionStop(r) PROVE SectionHasToken'
  <2>1. \A q \in Run : sect'[q] \in {sect[q], NoSection}
    BY <1>2 DEF EndSkill, Leaves, SectionStop, IInv, CountTypes
  <2> QED
    BY <2>1 DEF SectionHasToken, NoSection
<1>3. CASE UNCHANGED sect
  BY <1>3 DEF SectionHasToken
<1>4. CASE ~UNCHANGED sect
  <2>1. \E r \in Run : BeginCritical(r) \/ EndSkill(r) \/ SectionStop(r)
    BY <1>4 DEF Next, Executive, vars, CommandBegins, CommandClears, Start, ExecBegins,
       ExecClears, Boundary, PlanEnd, BeginSkill, SendChecks, SendGoes, GoalDone, GoalCut,
       SocketFails, Finish, ClientCancels, DeferStop, ClientStops, TimerFires, TimerStops,
       ButtonCancels, ButtonStops
  <2> QED
    BY <1>1, <1>2, <2>1
<1> QED
  BY <1>3, <1>4

LEMMA SectionStep ==
    ASSUME IInv, SectionNumbered, StopBeforeSection, [Next]_vars
    PROVE  SectionNumbered' /\ StopBeforeSection'
<1> USE DEF section, stoppers, Moves
<1>0. \A c \in Client : call[c].seq \in Nat
  BY BoundsAssumption DEF IInv, StopTypes
<1>1. ASSUME NEW r \in Run, BeginCritical(r) PROVE SectionNumbered' /\ StopBeforeSection'
  <2> DEFINE q == ActiveRun
  <2>1. q \in Run
    BY <1>1, ActiveRunType DEF BeginCritical
  <2>2. /\ seq[q] \in Nat /\ seq'[q] = seq[q] + 1 /\ critical'[q] = seq[q] + 1
        /\ UNCHANGED call
        /\ \A p \in Run : p # q => seq'[p] = seq[p] /\ critical'[p] = critical[p]
    BY <1>1, <2>1, BoundsAssumption DEF BeginCritical, IInv, CountTypes
  <2> HIDE DEF q
  <2>3. SectionNumbered'
    BY <2>2 DEF SectionNumbered
  <2>4. StopBeforeSection'
    BY <1>0, <2>2 DEF StopBeforeSection
  <2> QED
    BY <2>3, <2>4
<1>2. ASSUME NEW r \in Run, EndSkill(r) PROVE SectionNumbered' /\ StopBeforeSection'
  <2>1. UNCHANGED <<seq, call>> /\ \A q \in Run : critical'[q] \in {0, critical[q]}
    BY <1>2, BoundsAssumption DEF EndSkill, Leaves, IInv, CountTypes
  <2> QED
    BY <2>1 DEF SectionNumbered, StopBeforeSection
<1>3. ASSUME NEW c \in Client, DeferStop(c) PROVE SectionNumbered' /\ StopBeforeSection'
  <2>1. UNCHANGED <<seq, critical>>
    BY <1>3 DEF DeferStop
  <2>2. \A d \in Client : d # c => call'[d] = call[d]
    BY <1>3 DEF DeferStop, IInv, StopTypes
  <2>3. \/ call'[c] = IdleCall
        \/ critical[call[c].run] = 0
           /\ call'[c] = [at |-> "stop", run |-> call[c].run, seq |-> seq[call[c].run]]
    BY <1>3 DEF DeferStop, IInv, StopTypes
  <2>4. \A r \in Run : seq[r] <= seq[r]
    BY BoundsAssumption DEF IInv, CountTypes
  <2> QED
    BY <2>1, <2>2, <2>3, <2>4 DEF SectionNumbered, StopBeforeSection, IdleCall
<1>4. ASSUME NEW c \in Client, ClientStops(c) \/ \E r \in Run : ClientCancels(c, r)
      PROVE  SectionNumbered' /\ StopBeforeSection'
  <2>1. UNCHANGED <<seq, critical>> /\ call'[c].at # "stop"
        /\ \A d \in Client : d # c => call'[d] = call[d]
    BY <1>4 DEF ClientStops, ClientCancels, IdleCall, IInv, StopTypes
  <2> QED
    BY <2>1 DEF SectionNumbered, StopBeforeSection
<1>5. CASE UNCHANGED <<seq, critical, call>>
  BY <1>5 DEF SectionNumbered, StopBeforeSection
<1>6. CASE ~UNCHANGED <<seq, critical, call>>
  <2>1. \/ \E r \in Run : BeginCritical(r) \/ EndSkill(r) \/ \E c \in Client : ClientCancels(c, r)
        \/ \E c \in Client : DeferStop(c) \/ ClientStops(c)
    BY <1>6 DEF Next, Executive, vars, CommandBegins, CommandClears, Start, ExecBegins,
       ExecClears, Boundary, PlanEnd, BeginSkill, SendChecks, SendGoes, GoalDone, GoalCut,
       SectionStop, SocketFails, Finish, TimerFires, TimerStops, ButtonCancels, ButtonStops
  <2> QED
    BY <1>1, <1>2, <1>3, <1>4, <2>1
<1> QED
  BY <1>5, <1>6

LEMMA SectionInvariance == Spec => [](IInv /\ SectionInv)
<1>1. IInv /\ SectionInv /\ [Next]_vars => SectionInv'
  BY GoalStep, TokenStep, SectionStep DEF SectionInv
<1> QED
  BY <1>1, InitSections, InitInv, InvStep, PTL DEF Spec

(***************************************************************************)
(* uninterruptible(): the goal of a skill that must not be cut is cut by   *)
(* the Stop button, by a timer that found the stop deferred, by a stop of  *)
(* another run or older than the section, or by the stop an executive left *)
(* behind owed, in every order of hooks, timers, sections and sockets.     *)
(***************************************************************************)
THEOREM SectionsKept == Spec => SectionsRespected
<1>1. ASSUME IInv, SectionInv, Next PROVE SectionCutOnlyWhenDue
  <2> SUFFICES ASSUME NEW r \in Run, CutsSection(r), lock # "button", due' = due,
                      ~\E q \in Run \ {r} : exec[q] = "stop" /\ exec'[q] = "top"
               PROVE  \E c \in Client : /\ call[c].at = "stop" /\ call'[c] = IdleCall
                                        /\ call[c].run # r \/ call[c].seq < sect[r].token
    BY DEF SectionCutOnlyWhenDue
  <2>1. r \in goals /\ r \notin goals' /\ exec'[r] = exec[r] /\ sect[r].run = r
        /\ critical[r] = sect[r].token
    BY DEF CutsSection, InSection
  <2>2. exec[r] = "moving" /\ critical[r] # 0
    BY <1>1, <2>1 DEF SectionInv, GoalMoves, SectionHasToken, Run, NoRun
  <2>3. \A q \in Run : ~(SendGoes(q) \/ SectionStop(q) \/ GoalDone(q))
    <3>1. ASSUME NEW q \in Run, SendGoes(q) PROVE FALSE
      BY <2>1, <3>1 DEF SendGoes
    <3>2. ASSUME NEW q \in Run, GoalDone(q) PROVE FALSE
      <4>1. q = r
        BY <2>1, <3>2 DEF GoalDone
      <4> QED
        BY <1>1, <2>1, <2>2, <3>2, <4>1 DEF GoalDone, IInv, FlagTypes
    <3>3. ASSUME NEW q \in Run, SectionStop(q) PROVE FALSE
      <4>1. exec[q] = "stop" /\ exec'[q] = "top"
        BY <1>1, <3>3 DEF SectionStop, IInv, FlagTypes
      <4> QED
        BY <2>2, <4>1
    <3> QED
      BY <3>1, <3>2, <3>3
  <2>4. \A t \in Timers : ~TimerStops(t)
    BY DEF TimerStops
  <2>5. ~ButtonStops
    BY DEF ButtonStops
  <2>6. PICK c \in Client : ClientStops(c)
    BY <1>1, <2>1, <2>3, <2>4, <2>5
    DEF Next, Executive, robot, Moves, CommandBegins, CommandClears, Start, ExecBegins,
        ExecClears, Boundary, PlanEnd, BeginSkill, BeginCritical, SendChecks, GoalCut, EndSkill,
        Leaves, SocketFails, Finish, ClientCancels, DeferStop, TimerFires, ButtonCancels
  <2>7. call[c].at = "stop" /\ call'[c] = IdleCall
    BY <1>1, <2>6 DEF ClientStops, IInv, StopTypes
  <2>8. call[c].run = r => call[c].seq < sect[r].token
    BY <1>1, <2>1, <2>2, <2>7 DEF SectionInv, StopBeforeSection
  <2> QED
    BY <2>7, <2>8
<1>2. IInv /\ SectionInv /\ [Next]_vars => [SectionCutOnlyWhenDue]_vars
  BY <1>1
<1> QED
  BY <1>2, SectionInvariance, PTL DEF Spec, SectionsRespected
=============================================================================
