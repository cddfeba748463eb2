----------------------------- MODULE MCPlanning -----------------------------
(* Planning for TLC: a behaviour is of one of its systems, the others rest.  *)
(* Understanding has one object and two places, one of them in the task.     *)
(* The gate gets the plan a planner should write for each task, and the ways *)
(* it may go wrong in it: a step too many anywhere, one left out, a part of  *)
(* it done twice.  The search has a table with a drawer in it, which is a    *)
(* place too, and a shelf.                                                   *)
EXTENDS Planning, TLC

CONSTANTS cup, pen, table, shelf, drawer, kitchen, hello, take, none

Step(a, o) == [action |-> a, object |-> o]
goal(t, o, f, p) == [type |-> t, object |-> o, from |-> f, to |-> p]
onTable == <<goal("on", cup, none, table)>>
inDrawer == <<goal("in", cup, table, drawer), goal("close", drawer, none, drawer)>>
both == <<goal("on", cup, none, table), goal("on", pen, shelf, table)>>
thenGo == <<goal("on", pen, drawer, table), goal("go", none, none, shelf)>>
tell == <<goal("go", none, none, table), goal("say", hello, none, shelf)>>
bring == <<goal("deliver", none, none, shelf), goal("say", hello, none, none)>>
return == <<goal("go", none, none, table), goal("go", none, none, shelf)>>

MCPlanActions == {"MoveTo", "Find", "Pick", "Place", "PutIn", "Open", "Close", "Say", "WaitForUnload"}
MCTasks == {onTable, inDrawer, both, thenGo, tell, bring}
MCReturn == {return}
MCWorlds ==
    [arrived : {table}, found : {none}, holding : {none}, opened : {{}, {drawer}}]
        \union [arrived : {shelf}, found : {none}, holding : {none, cup}, opened : {{}}]

take_(o, p) == <<Step("MoveTo", p), Step("Find", o), Step("Pick", o)>>
put(p) == <<Step("MoveTo", p), Step("Place", p)>>
Good(t) ==
    CASE t = onTable -> <<take_(cup, shelf), put(table)>>
      [] t = both -> <<take_(pen, shelf), put(table)>>
      [] t = thenGo -> <<take_(pen, drawer), put(table), <<Step("MoveTo", shelf)>>>>
      [] t = inDrawer -> <<<<Step("MoveTo", drawer), Step("Open", drawer)>>, take_(cup, table),
                           <<Step("MoveTo", drawer), Step("PutIn", drawer), Step("Close", drawer)>>>>
      [] OTHER -> << >>

\* A block with a step too many, or one too few.
Stray == {Step("MoveTo", shelf), Step("MoveTo", kitchen), Step("Find", cup), Step("Pick", cup),
          Step("Place", drawer), Step("Open", drawer), Step("Close", drawer),
          Step("Place", kitchen), Step("Fly", table), Step("Open", shelf)}
Slips(b) == {InsertAt(b, i, st) : i \in 1..(Len(b) + 1), st \in Stray}
                \union {RemoveAt(b, i) : i \in DOMAIN b}

\* A block too many, wherever it comes.
Detours(g) == ToSet(g) \union {<<Step("Find", pen), Step("Pick", pen)>>}

MCPlans(t) ==
    LET g == Good(t)
    IN  {g} \union UNION {{[g EXCEPT ![k] = b] : b \in Slips(g[k])} : k \in DOMAIN g}
            \union {InsertAt(g, k, b) : k \in 1..(Len(g) + 1), b \in Detours(g)}
MCEdits(t) == ToSet(Good(t)) \union {<<Step("Find", cup)>>}
MCFresh(t) == {Good(t), Good(t) \o <<<<Step("Open", drawer)>>>>}

MCContainers == (table :> {drawer}) @@ (drawer :> {drawer}) @@ (shelf :> {})
MCSightings == {none, [place |-> shelf, age |-> "now"], [place |-> drawer, age |-> "old"]}
MCHabits == {none, table}
MCEnv == <<table, drawer, shelf>>
MCRankings == {<< >>, <<drawer, shelf>>}

VARIABLES part

\* What rests while one system moves.
RestOfTalk == UNCHANGED <<part, gateVars, searchVars>>
RestOfGate == UNCHANGED <<part, vars, searchVars>>
RestOfSearch == UNCHANGED <<part, vars, gateVars>>

\* A system that is not the one that moves rests in one of its initial states.
GateRests ==
    /\ tasks = onTable /\ calls = 1
    /\ world = [arrived |-> table, found |-> none, holding |-> none, opened |-> {}]
SearchRests ==
    /\ \A p \in {table, drawer, shelf} : sighted[cup][p] = "none"
    /\ habit[cup] = none /\ Len(todo) = 1 /\ opened = {} /\ askHelp

MCInit ==
    /\ part \in {"talk", "gate", "search"}
    /\ Init /\ Gate!Init /\ Looking!Init
    /\ part = "talk" \/ used = 0
    /\ part = "gate" \/ GateRests
    /\ part = "search" \/ SearchRests

MCNext ==
    \/ part = "talk" /\ Next /\ RestOfTalk
    \/ part = "gate" /\ Gate!Next /\ RestOfGate
    \/ part = "search" /\ Looking!Next /\ RestOfSearch

MCVars == <<part, vars, gateVars, searchVars>>

\* The fairness of Understand.
MCSpec ==
    /\ MCInit /\ [][MCNext]_MCVars
    /\ WF_MCVars(part = "talk" /\ Next /\ ~(~cancelled /\ cancelled') /\ RestOfTalk)

\* The talk, when there is one, ends (Understand).
TalkEnds == part = "talk" => QuestionsEnd
=============================================================================
