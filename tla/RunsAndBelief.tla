--------------------------- MODULE RunsAndBelief ---------------------------
(***************************************************************************)
(* One robot: the runs that clients start, pause and change (RunManager,   *)
(* extended) and what it believes of its world while a run goes on         *)
(* (Belief, an instance).  The manager never looks at the belief, and the  *)
(* belief knows of runs only that one begins, rests or ends: the two share *)
(* no variable.                                                            *)
(***************************************************************************)
EXTENDS RunManager

\* The constants of Belief.
CONSTANTS
    Place, Container, Object, None, Thing, Torn, Readable, Refutable, MaxSteps, MaxEvents

VARIABLES
    stands, hand, open, belief, prov, setBy, measured, phase, doing, again, saved, tmp, saver,
    told, steps, events

mindVars ==
    <<stands, hand, open, belief, prov, setBy, measured, phase, doing, again, saved, tmp, saver,
      told, steps, events>>

Mind == INSTANCE Belief WITH at <- stands, file <- saved

\* A step that acts at a place starts at the place: only a base that was not measured
\* since it drove, and an operator's word, are excepted (Belief).
ActsThere == Mind!ActsThere
=============================================================================
