---------------------------- MODULE MCRunManager ----------------------------
(* RunsAndBelief for TLC: runs of an owner and a guest, and what the robot   *)
(* believes of a table, a drawer and a cup.  A behaviour is of one of the    *)
(* two, the other rests.                                                     *)
EXTENDS RunsAndBelief, TLC

CONSTANTS owner, guest, table, drawer, cup

MCClient == {owner, guest}
MCPriority == owner :> 3 @@ guest :> 1

VARIABLES part

MCInit == part \in {"runs", "mind"} /\ Init /\ Mind!Init /\ (part = "runs" => stands = None)
MCNext ==
    \/ part = "runs" /\ Next /\ UNCHANGED <<part, mindVars>>
    \/ part = "mind" /\ Mind!Next /\ UNCHANGED <<part, vars>>
MCVars == <<part, vars, mindVars>>
MCSpec == MCInit /\ [][MCNext]_MCVars
=============================================================================
