----------------------------- MODULE MCStepLoop -----------------------------
(* StepLoop for TLC: one or two objects, two places, a task of one goal.   *)
EXTENDS StepLoop, TLC

CONSTANTS a, b, p, q

MCObject == {a, b}
MCOneObject == {a}
MCPlace == {p, q}
MCTask == {[object |-> a, to |-> p]}

\* A way that is blocked, an object that is not there, a grasp that fails or
\* is stopped, a release that fails or cannot be checked.
MCFailure ==
    {<<"MoveTo", q, "blocked">>, <<"Find", a, "absent">>,
     <<"Pick", a, "grasp_failed">>, <<"Pick", a, "estop">>,
     <<"Place", q, "blocked">>, <<"Place", q, "perception_unavailable">>}

\* No skill fails.
MCNoFailure == {}
=============================================================================
