------------------------------ MODULE MCSearch ------------------------------
(* Search for TLC, alone: a table with a drawer in it, which is a place too, *)
(* and a shelf; the same as in MCPlanning.                                   *)
EXTENDS Search

CONSTANTS cup, table, shelf, drawer

MCPlace == <<table, drawer, shelf>>
MCContainers == [p \in Places |-> IF p = shelf THEN {} ELSE {drawer}]
MCSightings == {None, [place |-> shelf, age |-> "now"]}
MCHabits == {None, table}
MCRankings == {<< >>, <<drawer, shelf>>}
=============================================================================
