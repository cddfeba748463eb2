---------------------------- MODULE MCRunControl ----------------------------
(* RunControl for TLC: two runs in a row and one cancelling client, besides  *)
(* the stop button and the timers.  In the behaviours of which a stop has to *)
(* end the run (Fairness of RunControl), no socket fails: nothing is         *)
(* promised after one did.                                                   *)
EXTENDS RunControl, TLC

CONSTANT c1

VARIABLE sound    \* no socket fails

MCVars == <<vars, sound>>

MCInit == Init /\ sound \in BOOLEAN
MCNext == Next /\ UNCHANGED sound /\ (sound => gone' = {})

Fair(A) == sound /\ A /\ UNCHANGED sound

MCSpec ==
    /\ MCInit /\ [][MCNext]_MCVars
    /\ WF_MCVars(Fair(CommandClears \/ ButtonStops)) /\ SF_MCVars(Fair(TakesLock))
    /\ WF_MCVars(Fair(DeferStop(c1))) /\ SF_MCVars(Fair(ClientStops(c1)))
    /\ \A t \in Timers : WF_MCVars(Fair(TimerFires(t)))
    /\ \A r \in Run : WF_MCVars(Fair(Proceeds(r)))

\* Every cancel is carried out, where threads are fair (RunControl).
CancelsCarriedOut == sound => StopCarriedOut
\* It ends its run, where threads are fair (RunControl).
CancelsEndRuns == sound => StopEndsRun
=============================================================================
