------------------------------- MODULE Search -------------------------------
(***************************************************************************)
(* core/planning/search.py with its hooks (search_hooks.py, and             *)
(* `_recover_find` of assist_loop.py): where the robot looks next for what *)
(* it does not find.  A belief gathers what was seen and asked, keeps the  *)
(* places that were searched, and puts the looks of every new plan of the  *)
(* planner where it wants them.                                            *)
(*                                                                         *)
(* A look sees the object, sees that it is absent, or is not possible: no  *)
(* assumption is made on where the object is.  A plan is what the planner  *)
(* may give and the gate lets through.  Scores are in quarters, with the   *)
(* weights of SearchConfig; a run is short, so that no sighting ages in it. *)
(* The wording and the record are left out.                                *)
(***************************************************************************)
EXTENDS Integers, Sequences, FiniteSets, SequencesExt

CONSTANTS
    Object,
    Place,        \* the ENV keys in their order: a sequence
    Containers,   \* containers at a place, itself when it opens
    CanOpen,      \* the robot's manifest has an Open action
    None,
    Sightings,    \* what the object memory may hold of an object: place and age, or None
    Habits,       \* where past episodes may have picked an object up, or None
    Rankings,     \* what the model may answer; <<>> when it fails
    SearchMax,    \* cfg search_max
    MaxReplans    \* cfg max_replans

Places == ToSet(Place)
Opens(p) == p \in Containers[p]
Openable == {p \in Places : Opens(p)}

VARIABLES
    sighted,    \* object -> place -> "none", "old" (below trust) or "now"
    habit,      \* object -> where it was picked up, or None
    ranked,     \* object -> the ranking, None while it was not asked for
    searched,   \* object -> place -> what was closed there when it was searched, or None
    steps,      \* r.steps from r.i on
    arrived, opened,    \* the belief (WorldState)
    doubted,    \* r.doubted
    misses,     \* r.find_fails
    askHelp,    \* cfg ask_help, an option of each run
    helped,     \* r.helped: what the person was asked for, "where" or "pick", and the object
    replans,
    status,     \* "running"; "missed" or "unsure" after a look; "lost": it needs a plan; how it ended
    looked      \* history: object -> what was seen without it, and did not change since

belief == <<sighted, habit, ranked, searched>>
world == <<arrived, opened, doubted>>
run == <<askHelp, misses, helped, replans, status>>
vars == <<belief, steps, world, run, looked>>

Do(a, x) == [action |-> a, object |-> x]

-----------------------------------------------------------------------------
(* The belief.                                                             *)

\* prior(), habit(): 4 for a sighting now, 3 for where it was picked up before.
Prior(o, p) ==
    (CASE sighted[o][p] = "now" -> 4 [] sighted[o][p] = "old" -> 1 [] OTHER -> 0)
        + (IF habit[o] = p THEN 3 ELSE 0)

\* scores(): the prior, and at most 2 for a rank.
RankScore(o, p) ==
    IF ranked[o] \in {None, <<>>} \/ p \notin ToSet(ranked[o]) THEN 0
    ELSE LET n == Len(ranked[o]) IN
         (2 * (n + 1 - CHOOSE i \in 1..n : ranked[o][i] = p)) \div n
Score(o, p) == Prior(o, p) + RankScore(o, p)

\* order(): by score, and by place.
Before(o, i, j) ==
    \/ Score(o, Place[i]) > Score(o, Place[j])
    \/ Score(o, Place[i]) = Score(o, Place[j]) /\ i < j
Best(o, I) == Place[CHOOSE i \in I : \A j \in I \ {i} : Before(o, i, j)]

\* is_searched(): what was closed at the search is closed still.
IsSearched(o, p, op) ==
    p \in Places /\ searched[o][p] # None /\ searched[o][p] \cap op = {}
UnderSearch == {o \in Object : \E p \in Places : searched[o][p] # None}

\* Containers here that were closed then, are closed now and were not looked into.
ClosedHere(o, here, op) ==
    {c \in Containers[here] \cap searched[o][here] :
        CanOpen /\ c \notin op /\ (c = here \/ ~IsSearched(o, c, op))}

\* A place, and the inside of what opens; a look sees what this run opened, too.
Spots(p) == {<<p, "at">>, <<p, "in">>}
InView(p) == {<<p, "at">>} \cup {<<c, "in">> : c \in Containers[p] \cap opened \cap doubted}

\* A look at p opens p first when it is closed; when it cannot, it is no look.
NoLeg == [place |-> None, open |-> {}]
Leg(p, op) == [place |-> p, open |-> IF Opens(p) /\ p \notin op THEN {p} ELSE {}]
Possible(p, op) == CanOpen \/ Leg(p, op).open = {}

\* next_leg(): inside what is closed here, else at a place that is left, else nowhere.
Inside(o, here, op) ==
    IF here \in Places /\ searched[o][here] # None THEN ClosedHere(o, here, op) ELSE {}
\* Mutant: only a place that something speaks for is left.
LeftLikely(o, op) ==
    {i \in DOMAIN Place :
        Score(o, Place[i]) > 0 /\ ~IsSearched(o, Place[i], op) /\ Possible(Place[i], op)}
Left(o, op) == {i \in DOMAIN Place : ~IsSearched(o, Place[i], op) /\ Possible(Place[i], op)}
Nowhere(o, here, op) == Inside(o, here, op) = {} /\ Left(o, op) = {}
NextLeg(o, here, op) ==
    LET inside == Inside(o, here, op) IN
    IF Nowhere(o, here, op) THEN NoLeg
    ELSE IF inside # {} THEN LET c == CHOOSE c \in inside : TRUE IN [place |-> c, open |-> {c}]
    ELSE Leg(Best(o, Left(o, op)), op)

\* informed(): is there a place not searched that the belief knows something of?
Informed(o, op) ==
    \E p \in Places : Score(o, p) > 0 /\ ~IsSearched(o, p, op) /\ Possible(p, op)

-----------------------------------------------------------------------------
(* Steering a plan.                                                        *)

AtPlace == {"Place", "Open", "Close"}

\* Where the robot stands after the steps.
PosAfter(s, at) ==
    LET moves == {i \in DOMAIN s : s[i].action = "MoveTo"} IN
    IF moves = {} THEN at ELSE s[CHOOSE i \in moves : \A j \in moves : j <= i].object

\* Mutant: the plan is left to itself once the look stands elsewhere.
RestoreNothing(s, i, now, then) == s

\* _restore_place(): the first step that acts at the place the plan was at gets its
\* MoveTo back, unless the plan goes elsewhere before it.
RestorePlace(s, i, now, then) ==
    LET acts == {k \in i..Len(s) : s[k].action \in AtPlace \cup {"MoveTo"}} IN
    IF acts = {} THEN s
    ELSE LET k == CHOOSE k \in acts : \A j \in acts : k <= j IN
         IF s[k].action # "MoveTo" /\ s[k].object # now /\ s[k].object = then
         THEN InsertAt(s, k, Do("MoveTo", then)) ELSE s

\* Leg.steps()
LegSteps(leg, o, at) ==
    (IF leg.place # at THEN <<Do("MoveTo", leg.place)>> ELSE <<>>)
        \o (IF leg.open # {} THEN <<Do("Open", leg.place)>> ELSE <<>>) \o <<Do("Find", o)>>

\* _steer_one(): the first look for o in the plan s, put on the belief's leg.
SteerOne(s, o) ==
    LET finds == {j \in DOMAIN s : s[j] = Do("Find", o)}
        j == CHOOSE j \in finds : \A i \in finds : j <= i
        before == SubSeq(s, 1, j - 1)
        pos == PosAfter(before, arrived)
        op == opened \cup {s[i].object : i \in {i \in 1..(j - 1) : s[i].action = "Open"}}
        \* the MoveTo of this look, with nothing but Open and Close since
        moves == {k \in 1..(j - 1) : /\ s[k].action = "MoveTo"
                                     /\ \A i \in (k + 1)..(j - 1) : s[i].action \in {"Open", "Close"}}
        start == IF moves = {} THEN j ELSE CHOOSE k \in moves : TRUE
        wanted == IF IsSearched(o, pos, op) \/ Informed(o, op) THEN NextLeg(o, arrived, op)
                  ELSE NoLeg
        leg == IF wanted = NoLeg /\ pos \in Places /\ Opens(pos) /\ pos \notin op /\ CanOpen
               THEN [place |-> pos, open |-> {pos}] ELSE wanted
        kept == SubSeq(s, 1, start - 1)
        seg == LegSteps(leg, o, PosAfter(kept, arrived)) IN
    IF finds = {} THEN s
    ELSE IF leg = NoLeg \/ (leg.place = pos /\ leg.open \subseteq op) THEN s
    ELSE RestorePlace(kept \o seg \o SubSeq(s, j + 1, Len(s)), Len(kept \o seg) + 1, leg.place, pos)

\* steer(): every object under search, in the order their searches began.
Steer(s, order) == FoldLeft(SteerOne, s, order)

\* skip_relook(): o was seen here; a look for it right after, elsewhere, is removed.
SkipRelook(s, o, here) ==
    LET rest == {j \in DOMAIN s : s[j].action \notin {"MoveTo", "Open", "Close"}}
        j == CHOOSE j \in rest : \A i \in rest : j <= i
        to == PosAfter(SubSeq(s, 1, j - 1), None) IN
    IF rest = {} THEN s
    ELSE IF to \in {None, here} \/ s[j] # Do("Find", o) THEN s
    ELSE RestorePlace(SubSeq(s, j + 1, Len(s)), 1, here, to)

-----------------------------------------------------------------------------
(* The planner, and the gate.                                              *)

\* Does every step act where the robot then is?
Sound(s) ==
    \A i \in DOMAIN s : s[i].action \in AtPlace =>
        PosAfter(SubSeq(s, 1, i - 1), arrived) = s[i].object

Go(p) == <<Do("MoveTo", p)>>
GoOpen(p) == Go(p) \o <<Do("Open", p)>>
Look(o) == <<Do("Find", o)>>
Bring(o, q) == <<Do("Pick", o)>> \o Go(q) \o <<Do("Place", q)>>
Ways == {<<>>} \cup {Go(p) : p \in Places}
            \cup {GoOpen(p) : p \in Openable} \cup {GoOpen(p) \o Go(q) : p \in Openable, q \in Places}
Then(o) ==
    {<<>>} \cup {Bring(o, q) : q \in Places} \cup {<<Do("Close", p)>> : p \in Openable}
        \cup UNION {{Look(x), Go(q) \o Look(x)} : q \in Places, x \in Object}
Ends == UNION {Then(o) : o \in Object}
Written ==
    {s \in {w \o Look(o) \o t : w \in Ways, o \in Object, t \in Ends} :
        Sound(s) /\ \A i \in DOMAIN s : s[i].action = "Pick" => s[i - 1] = Do("Find", s[i].object)}

-----------------------------------------------------------------------------
(* The run.                                                                *)

\* picked_at(): where the robot's past episodes picked the object up, if anywhere.
Learned == habit \in [Object -> Habits]

\* _search_start(): a belief seeded from the object memory and past episodes; the robot
\* believes some containers open from an earlier run.
Init ==
    /\ \E m \in [Object -> Sightings] :
          sighted = [o \in Object |-> [p \in Places |->
                        IF m[o] # None /\ m[o].place = p THEN m[o].age ELSE "none"]]
    /\ Learned
    /\ ranked = [o \in Object |-> None]
    /\ searched = [o \in Object |-> [p \in Places |-> None]]
    /\ steps \in {w \o Look(o) : w \in Ways, o \in Object}
    /\ arrived = Place[1] /\ opened \in SUBSET Openable /\ doubted = {}
    /\ misses = [o \in Object |-> 0] /\ replans = 0
    /\ askHelp \in BOOLEAN /\ helped = {}
    /\ status = "running"
    /\ looked = [o \in Object |-> {}]

st == Head(steps)
Runs(a) == status = "running" /\ steps # <<>> /\ st.action = a
LooksFor(o) == status = "running" /\ steps # <<>> /\ st = Do("Find", o)
NextStep == steps' = Tail(steps) /\ UNCHANGED run

Moves ==
    /\ Runs("MoveTo") /\ NextStep
    /\ arrived' = st.object
    /\ UNCHANGED <<belief, opened, doubted, looked>>

OpensIt ==
    /\ Runs("Open") /\ NextStep
    /\ opened' = opened \cup {st.object} /\ doubted' = doubted \cup {st.object}
    /\ UNCHANGED <<belief, arrived, looked>>

ClosesIt ==
    /\ Runs("Close") /\ NextStep
    /\ opened' = opened \ {st.object}
    /\ UNCHANGED <<belief, arrived, doubted, looked>>

\* SearchBelief.changed(): the robot moves something here.
Handles ==
    /\ Runs("Pick") \/ Runs("Place")
    /\ NextStep
    /\ searched' = [o \in Object |-> [searched[o] EXCEPT ![arrived] = None]]
    /\ looked' = [o \in Object |-> looked[o] \ Spots(arrived)]
    /\ UNCHANGED <<sighted, habit, ranked, world>>

\* SearchBelief.found()
Finds ==
    \E o \in Object :
        /\ LooksFor(o)
        /\ searched' = [searched EXCEPT ![o] = [p \in Places |-> None]]
        /\ sighted' = [sighted EXCEPT ![o][arrived] = "now"]
        /\ steps' = SkipRelook(Tail(steps), o, arrived)
        /\ looked' = [looked EXCEPT ![o] = {}]
        /\ UNCHANGED <<habit, ranked, world, run>>

\* A step that fails for a reason of its own.
Fails ==
    /\ status = "running" /\ steps # <<>> /\ st.action # "Find"
    /\ status' = "lost"
    /\ UNCHANGED <<belief, steps, world, askHelp, misses, helped, replans, looked>>

BelievedOpen == Opens(arrived) /\ arrived \in opened \ doubted

\* `_recover_find`: nothing is in what was believed open; the belief in that goes
\* first, once.
Doubts ==
    /\ Runs("Find") /\ BelievedOpen
    /\ doubted' = doubted \cup {arrived} /\ opened' = opened \ {arrived}
    /\ status' = "lost"
    /\ UNCHANGED <<belief, steps, arrived, askHelp, misses, helped, replans, looked>>

Counted(s) ==
    /\ status' = s /\ misses' = [misses EXCEPT ![st.object] = @ + 1]
    /\ UNCHANGED <<steps, world, askHelp, helped, replans>>

\* rank(): the model's ranking, asked for once.
Ranks(o) ==
    \E x \in Rankings : ranked' = IF ranked[o] = None THEN [ranked EXCEPT ![o] = x] ELSE ranked

\* missed()
MissedHere(o) ==
    /\ searched' = [searched EXCEPT ![o][arrived] = Containers[arrived] \ opened]
    /\ sighted' = [sighted EXCEPT ![o][arrived] = "none"]

\* Absent (`_search_missed`): the place is searched, its sighting is gone, and the
\* model ranks the places, once.
Misses ==
    \E o \in Object :
        /\ LooksFor(o) /\ ~BelievedOpen
        /\ MissedHere(o) /\ Ranks(o)
        /\ looked' = [looked EXCEPT ![o] = @ \cup InView(arrived)]
        /\ Counted("missed")
        /\ UNCHANGED habit

\* The robot could not look, or saw it out of reach, near another place or none.
Unsure ==
    /\ Runs("Find")
    /\ \/ UNCHANGED sighted
       \/ \E p \in Places : sighted' = [sighted EXCEPT ![st.object][p] = "now"]
    /\ Counted("unsure")
    /\ UNCHANGED <<habit, ranked, searched, looked>>

\* `_recover_find`: with nowhere left, or after so many looks, the person is asked once,
\* unless the run asks for no help; without an answer, and the second time, it gives up.
Told(o, p) ==
    /\ searched' = [searched EXCEPT ![o][p] = None]
    /\ sighted' = [sighted EXCEPT ![o][p] = "now"]
    /\ looked' = [looked EXCEPT ![o] = @ \ Spots(p)]
    /\ status' = "lost"
    /\ UNCHANGED <<habit, ranked>>

Recovers ==
    LET o == st.object
        nowhere == status = "missed" /\ Nowhere(o, arrived, opened)
        ask == (misses[o] > SearchMax \/ nowhere) /\ askHelp /\ <<"where", o>> \notin helped
        up == IF nowhere THEN "nowhere" ELSE "failed" IN
    /\ status \in {"missed", "unsure"}
    /\ helped' = IF ask THEN helped \cup {<<"where", o>>} ELSE helped
    /\ \/ ask /\ \E p \in Places : Told(o, p)
       \/ /\ status' = IF ask \/ nowhere \/ misses[o] > SearchMax + 1 THEN up ELSE "lost"
          /\ UNCHANGED <<belief, looked>>
    /\ UNCHANGED <<steps, world, askHelp, misses, replans>>

\* `_recover_pick`: it cannot be picked; asked once, the person says where it is.
PickTold ==
    /\ Runs("Pick") /\ askHelp /\ <<"pick", st.object>> \notin helped
    /\ helped' = helped \cup {<<"pick", st.object>>}
    /\ \E p \in Places \ {arrived} : Told(st.object, p)
    /\ UNCHANGED <<steps, world, askHelp, misses, replans>>

\* _replan_suffix(): the planner's plan, steered for every object under search.
Replans ==
    /\ status = "lost"
    /\ IF replans < MaxReplans
       THEN /\ replans' = replans + 1 /\ status' = "running"
            /\ \E plan \in Written, order \in SetToSeqs(UnderSearch) :
                  steps' = Steer(plan, order)
       ELSE status' = "failed" /\ UNCHANGED <<replans, steps>>
    /\ UNCHANGED <<belief, world, askHelp, misses, helped, looked>>

Next ==
    \/ Moves \/ OpensIt \/ ClosesIt \/ Handles \/ Finds \/ Fails
    \/ Doubts \/ Misses \/ Unsure \/ Recovers \/ PickTold \/ Replans

Spec == Init /\ [][Next]_vars

-----------------------------------------------------------------------------
(* Properties.                                                             *)

TypeOK ==
    /\ sighted \in [Object -> [Places -> {"none", "old", "now"}]]
    /\ searched \in [Object -> [Places -> (SUBSET Places) \cup {None}]]
    /\ ranked \in [Object -> Rankings \cup {None}]
    /\ arrived \in Places /\ opened \subseteq Places
    /\ steps \in Seq([action : AtPlace \cup {"MoveTo", "Find", "Pick"}, object : Object \cup Places])
    /\ askHelp \in BOOLEAN /\ helped \subseteq {"where", "pick"} \X Object
    /\ status \in {"running", "missed", "unsure", "lost", "nowhere", "failed"}

\* Whatever the planner writes, the robot does not look for a thing again where it
\* was not, until something changed there: a container opened, an object moved, or a
\* person's word (docs/search.md, "a hard constraint").
NoLookTwice ==
    Runs("Find") => ~(InView(arrived) \subseteq looked[st.object])

\* Steering leaves a plan that passes the gate one that passes it.
SteeredPlansRun == Sound(steps)

\* The run says that there is nowhere left to look only when it asked, if it may ask
\* (option ask_help), and in any case only when it looked at every place it can and into every container that it believes open; what
\* was opened, closed, doubted and moved since its looks is seen again first.
GivesUpLast ==
    status = "nowhere" =>
        /\ askHelp => <<"where", st.object>> \in helped
        /\ \A p \in Places :
              \/ /\ <<p, "at">> \in looked[st.object]
                 /\ Opens(p) /\ p \in opened => <<p, "in">> \in looked[st.object]
              \/ Opens(p) /\ p \notin opened /\ ~CanOpen

\* It looked into every container it can open, too: fails for one that it only saw
\* closed, and left for another place of the planner's.
LooksInside ==
    status = "nowhere" /\ CanOpen =>
        \A p \in Places : Opens(p) => <<p, "in">> \in looked[st.object]
=============================================================================
