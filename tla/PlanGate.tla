------------------------------ MODULE PlanGate ------------------------------
(***************************************************************************)
(* core/planning: how AssistLoop comes to the plan it runs.  The planner's *)
(* plan (or the one compiled from go / say / deliver goals) loses the      *)
(* steps that do nothing, is checked as written in a simulated world, and  *)
(* its critical findings go back to the planner block by block, within the *)
(* run's budget of LLM calls; a plan that is still critical is asked for   *)
(* once more, and one that then still is never runs.                       *)
(*                                                                         *)
(* The rules of the actions are embodiplan's (external), as                *)
(* docs/action_model_divergence.md tabulates them for a robot with one     *)
(* hand whose Find only looks; a plan is grounded already, and a place it  *)
(* names that the robot does not know stays in it as it is.  A finding is  *)
(* its rule, not its words.  Left out: steps that name a skill call, the   *)
(* rooms a goal may be searched in, the ranking of places to search.       *)
(***************************************************************************)
EXTENDS Integers, Sequences, FiniteSets, SequencesExt, FiniteSetsExt

CONSTANTS
    Object,             \* what can be carried
    Place, Container,   \* the places of the ENV; those that open
    Named,              \* what else a step may name: rooms, sentences
    None,               \* no object, no place, nothing in the hand
    PlanActions,        \* robot.plan_actions
    Foreign,            \* bound: actions a plan may name and the robot has not
    Unbindable,         \* steps the robot's adapter cannot bind
    Tasks,              \* goals a run may have, in order
    Worlds,             \* beliefs it may start from
    Plans(_),           \* bound: the planner's plans for a task, as sub-goal blocks
    Edits(_),           \* bound: the steps it may make of a block again
    Fresh(_),           \* bound: its plans when it is told what was wrong
    DeliveryText,       \* what the robot says at a delivery
    Budget,             \* llm_budget
    Spent,              \* bound: LLM calls made before the plan
    EditRounds,         \* cfg edit_rounds
    EditReserve         \* cfg edit_reserve

VARIABLES
    goals,     \* r.goals
    world,     \* r.world: the belief the plan starts from
    blocks,    \* the planner's sub-goal blocks (<< >>: it has no repair, or no plan)
    steps,     \* r.steps
    used,      \* llm_budget.used
    base,      \* used0: its value when the edits began
    rounds,    \* edit rounds done
    history,   \* EditProgress.history: critical findings at each round
    failed,    \* r.plan_error: "none", "planner", "budget"
    certified, \* r.certified
    pc         \* "generate", "edit", "certify", "refine", "decide", then how it ended

vars == <<goals, world, blocks, steps, used, base, rounds, history, failed, certified, pc>>

LocActions == {"MoveTo", "Place", "PutIn", "Open", "Close"}
TemplateKinds == {"go", "say", "deliver"}
Step(a, o) == [action |-> a, object |-> o]
Objects(task) == {g.object : g \in ToSet(task)}

-----------------------------------------------------------------------------
(* The action model: what a step needs, and what it makes of the world.    *)

\* Where the person said each object is.
Source(task, o) ==
    LET gs == {i \in DOMAIN task : task[i].object = o}
    IN  IF gs = {} THEN None ELSE task[Max(gs)].from

\* Which rules step st breaks in world w.
Rules(st, w) ==
    LET a == st.action
        o == st.object
    IN  [unknown_action |-> a \notin PlanActions,
         empty_object |-> a \in {"MoveTo", "Find"} /\ o = None,
         already_there |-> a = "MoveTo" /\ o = w.arrived,
         find_held |-> a = "Find" /\ o = w.holding,
         already_holding |-> a = "Pick" /\ w.holding # None,
         no_find_before_pick |-> a = "Pick" /\ w.found = None,
         pick_not_found |-> a = "Pick" /\ w.found \notin {None, o},
         place_without_holding |-> a \in {"Place", "PutIn"} /\ w.holding = None,
         place_wrong_location |-> a \in {"Place", "PutIn"} /\ w.arrived # o,
         putin_closed_container |-> a = "PutIn" /\ o \in Container \ w.opened,
         not_openable |-> a \in {"Open", "Close"} /\ o \notin Container,
         hand_full |-> a \in {"Open", "Close"} /\ w.holding # None,
         interact_without_find |-> a \in {"Open", "Close"} /\ w.arrived # o,
         already_open |-> a = "Open" /\ o \in w.opened,
         close_not_opened |-> a = "Close" /\ o \notin w.opened]

\* The rules it breaks, for the goals of a task.
Broken(st, w, task) ==
    LET rules == Rules(st, w)
    IN  {r \in DOMAIN rules : rules[r]} \union
        (IF st.action = "Find" /\ Source(task, st.object) \notin {None, w.arrived}
         THEN {"find_wrong_place"} ELSE {})

Errors(st, w, task) == Broken(st, w, task) \ {"already_there"}

\* action_model.apply.
Apply(st, w) ==
    CASE st.action = "MoveTo" ->
            [w EXCEPT !.arrived = st.object,
                      !.found = IF w.found = st.object THEN @ ELSE None]
      [] st.action = "Find" -> [w EXCEPT !.found = st.object]
      [] st.action = "Pick" -> [w EXCEPT !.holding = st.object, !.found = None]
      [] st.action \in {"Place", "PutIn"} -> [w EXCEPT !.holding = None]
      [] st.action = "Open" -> [w EXCEPT !.opened = @ \union {st.object}]
      [] st.action = "Close" -> [w EXCEPT !.opened = @ \ {st.object}]
      [] OTHER -> w

-----------------------------------------------------------------------------
(* Whether a plan reaches its goals, as _missing and _reaches count it.    *)

\* What is in the hand, open and put where after a plan, its rules aside.
CountStep(c, st) ==
    CASE st.action = "Pick" -> [c EXCEPT !.holding = st.object]
      [] st.action \in {"Place", "PutIn"} /\ c.holding # None ->
            [c EXCEPT !.holding = None, !.on = [@ EXCEPT ![c.holding] = st]]
      [] st.action = "Open" -> [c EXCEPT !.opened = @ \union {st.object}]
      [] st.action = "Close" -> [c EXCEPT !.opened = @ \ {st.object}]
      [] OTHER -> c

Counted(plan, w) ==
    FoldLeft(CountStep,
        [holding |-> w.holding, opened |-> w.opened,
         on |-> [o \in Object |-> Step("nothing", None)]], plan)

\* Where the robot is after the first k steps of a plan.
Here(plan, k, at) ==
    LET moves == {i \in 1..k : plan[i].action = "MoveTo"}
    IN  IF moves = {} THEN at ELSE plan[Max(moves)].object

\* goals.reached: does the plan reach a go / say / deliver goal?
Reached(g, plan, at) ==
    \/ g.type = "go" /\ at = g.to
    \/ \E k \in DOMAIN plan :
        \/ g.type = "go" /\ plan[k].action = "MoveTo" /\ plan[k].object = g.to
        \/ g.type = "say" /\ plan[k] = Step("Say", g.object) /\ g.to \in {None, Here(plan, k, at)}
        \/ g.type = "deliver" /\ plan[k].action = "WaitForUnload" /\ Here(plan, k, at) = g.to

\* Of a count of the plan.
Achieves(g, c, plan, at) ==
    CASE g.type = "on" -> c.on[g.object] = Step("Place", g.to)
      [] g.type = "in" -> c.on[g.object] = Step("PutIn", g.to)
      [] g.type = "open" -> g.object \in c.opened
      [] g.type = "close" -> g.object \notin c.opened
      [] OTHER -> Reached(g, plan, at)

Missing(plan, w, task) ==
    LET c == Counted(plan, w)
    IN  {g \in ToSet(task) : ~Achieves(g, c, plan, w.arrived)}
Reaches(plan, w, task) == Missing(plan, w, task) = {} /\ (task # << >> \/ plan # << >>)

-----------------------------------------------------------------------------
(* The checker.                                                            *)

\* The destination of the first goal about an object (None: no goal, no place).
Destination(task, o) ==
    LET about == {i \in DOMAIN task : task[i].object = o}
    IN  IF o = None \/ about = {} THEN None ELSE task[Min(about)].to

\* The containers the goals need opened, and closed.
NeedOpen(task) == {g.to : g \in {h \in ToSet(task) : h.type = "in"}}
                    \union {g.object : g \in {h \in ToSet(task) : h.type = "open"}}
NeedClose(task) == {g.object : g \in {h \in ToSet(task) : h.type = "close"}}

\* A step the checker says one thing about, and whose effect it leaves out.
Skipped(st, broken) ==
    IF "unknown_action" \in broken THEN {"unknown_action"}
    ELSE IF st.action = "MoveTo" /\ st.object \notin Place THEN {"not_a_place"}
    ELSE broken \cap {"not_openable"}

\* A mutant: what was placed may be picked again.
NeverPlaced(o, task, placedOk) == FALSE

\* _word_pick: an earlier step put it where it has to go.
AlreadyPlaced(o, task, placedOk) == placedOk[o] # None /\ placedOk[o] = Destination(task, o)

\* _word_step: the critical findings of a step, one for each thing it says.
Worded(st, w, task, placedOk) ==
    LET a == st.action
        o == st.object
        broken == Errors(st, w, task)
        needed == (IF a = "Open" THEN NeedOpen(task) ELSE NeedClose(task))
                    \union {Source(task, x) : x \in Objects(task)}
        misplaced == IF o \notin Place THEN {"not_a_place"}
                     ELSE IF Destination(task, w.holding) \notin {None, o} THEN {"wrong_destination"}
                     ELSE broken \cap {"place_wrong_location"}
    IN  IF Skipped(st, broken) # {} THEN Skipped(st, broken)
        ELSE CASE a \in {"Open", "Close"} /\ o \notin needed -> broken \union {"not_needed"}
               [] a = "Pick" ->
                    {"cannot_pick" : x \in broken} \union
                    (IF AlreadyPlaced(o, task, placedOk) THEN {"already_placed"} ELSE {})
               [] a \in {"Place", "PutIn"} ->
                    (broken \ {"place_wrong_location"}) \union misplaced
               [] OTHER -> broken

\* The plan walked through in the simulated world, as written.
WalkStep(acc, st, i, task) ==
    [w |-> IF Skipped(st, Errors(st, acc.w, task)) # {} THEN acc.w ELSE Apply(st, acc.w),
     placedOk |-> IF st.action \in {"Place", "PutIn"} /\ acc.w.holding # None
                  THEN [acc.placedOk EXCEPT ![acc.w.holding] = st.object]
                  ELSE acc.placedOk,
     found |-> acc.found \union {<<i, x>> : x \in Worded(st, acc.w, task, acc.placedOk)}]

Walk(plan, w, task) ==
    FoldLeftDomain(LAMBDA acc, i : WalkStep(acc, plan[i], i, task),
        [w |-> w, placedOk |-> [o \in Object |-> None], found |-> {}], plan)

\* _check: the critical findings of a plan, as <<step, finding>>.
Critical(plan, w, task) ==
    LET early == {k \in 0..(Len(plan) - 1) : Reaches(SubSeq(plan, 1, k), w, task)}
    IN  Walk(plan, w, task).found \union
        (IF Missing(plan, w, task) # {} THEN {<<Len(plan) + 1, "not_achieved">>}
         ELSE IF early # {} THEN {<<Min(early) + 1, "goals_done">>} ELSE {})

\* _untouched: "on" goals the plan leaves out, whose object nobody knows the
\* place of: they may hold already, and are looked at after the run.
Untouched(task, plan) ==
    {g \in ToSet(task) :
        g.type = "on" /\ g.to # None /\ g.from = None /\ Step("Pick", g.object) \notin ToSet(plan)}

\* _hard_findings: steps no belief makes runnable.
Hard(plan) ==
    {i \in DOMAIN plan :
        \/ plan[i].action \notin PlanActions
        \/ plan[i].action \in LocActions /\ plan[i].object \notin Place
        \/ plan[i] \in Unbindable}

\* _blocking: what keeps a plan from running.
Blocked(plan, w, task) ==
    LET left == Untouched(task, plan)
        asked == IF left = ToSet(task) THEN task
                 ELSE Restrict(task, {i \in DOMAIN task : task[i] \notin left})
    IN  (plan # << >> /\ Critical(plan, w, asked) # {}) \/ Hard(plan) # {}

-----------------------------------------------------------------------------
(* plan_tidy: the steps that do nothing.                                   *)

Waypoint(plan, i) ==
    /\ plan[i].action = "MoveTo" /\ plan[i].object \notin Place
    /\ i < Len(plan) /\ plan[i + 1].action = "MoveTo"

\* A mutant: any Pick with a full hand does nothing.
NoopFullHand(st, w) ==
    Broken(st, w, << >>) # {} /\
    Broken(st, w, << >>) \subseteq {"already_holding", "no_find_before_pick", "pick_not_found",
                                     "find_held", "already_there"}

Noop(st, w) ==
    LET broken == Broken(st, w, << >>)
    IN  IF st.action = "Pick"
        THEN /\ w.holding # None /\ w.holding = st.object
             /\ broken \subseteq {"already_holding", "no_find_before_pick", "pick_not_found"}
        ELSE /\ broken # {}
             /\ broken \subseteq {"find_held", "already_there", "already_open", "close_not_opened"}

KeepStep(acc, plan, i) ==
    IF Waypoint(plan, i) \/ Noop(plan[i], acc.w) THEN acc
    ELSE [w |-> Apply(plan[i], acc.w), out |-> Append(acc.out, plan[i])]

Kept(plan, w) ==
    FoldLeftDomain(LAMBDA acc, i : KeepStep(acc, plan, i), [w |-> w, out |-> << >>], plan).out

Tidy(plan, w, task) ==
    LET out == Kept(plan, w)
        done == {k \in 1..(Len(out) - 1) : Reaches(SubSeq(out, 1, k), w, task)}
    IN  IF task # << >> /\ done # {} THEN SubSeq(out, 1, Min(done)) ELSE out

-----------------------------------------------------------------------------
(* goals.compile_steps: the plan of go / say / deliver goals.              *)

IsTemplate(task) == task # << >> /\ \A g \in ToSet(task) : g.type \in TemplateKinds

CompileStep(acc, g) ==
    LET there == g.to = None \/ (g.to = acc.at /\ g.type # "go")
        move == IF there THEN << >> ELSE <<Step("MoveTo", g.to)>>
        act == CASE g.type = "go" -> << >>
                 [] g.type = "say" -> <<Step("Say", g.object)>>
                 [] g.type = "deliver" ->
                        (IF "Say" \in PlanActions THEN <<Step("Say", DeliveryText)>> ELSE << >>)
                            \o <<Step("WaitForUnload", None)>>
    IN  [at |-> IF there THEN acc.at ELSE g.to, plan |-> acc.plan \o move \o act]

Compiled(task, at) == FoldLeft(CompileStep, [at |-> at, plan |-> << >>], task).plan

-----------------------------------------------------------------------------
(* subgoal_repair: the findings of each block go back to the planner.      *)

Join(bs) == FlattenSeq(bs)
Before(k) == Join(SubSeq(blocks, 1, k - 1))

\* The block from which on the earlier ones reach the goals already.
DoneAt ==
    LET ks == {k \in 2..Len(blocks) : blocks[k] # << >> /\ Reaches(Before(k), world, goals)}
    IN  IF ks = {} THEN Len(blocks) + 1 ELSE Min(ks)

Needless == {k \in DoneAt..Len(blocks) : blocks[k] # << >>}

\* The blocks that answer for a finding: the one its step is in, else the last;
\* the last with steps for what is not achieved.
Holds(k, f) == f[1] \in (Len(Before(k)) + 1)..(Len(Before(k)) + Len(blocks[k]))
LastOf(K, k) == k \in K /\ \A j \in K : j <= k
Answers(k, f) ==
    LET full == {j \in DOMAIN blocks : blocks[j] # << >>}
    IN  IF f[2] = "not_achieved" /\ full # {} THEN LastOf(full, k)
        ELSE \/ f[2] # "not_achieved" /\ Holds(k, f)
             \/ (f[2] = "not_achieved" \/ \A j \in DOMAIN blocks : ~Holds(j, f))
                    /\ LastOf(DOMAIN blocks, k)

ToRepair ==
    LET found == {f \in Critical(Join(blocks), world, goals) : f[2] # "goals_done"}
    IN  Needless \union {k \in DOMAIN blocks : \E f \in found : Answers(k, f)}

Findings == Cardinality(Critical(Join(blocks), world, goals))
Stalled == history # << >> /\ Findings >= Last(history)
Calls == Cardinality(ToRepair \ Needless)
Keep == Min({EditReserve, Budget \div 3})

\* Mutants: a round that looks at the calls left, not at the reserve; one that
\* looks at neither.
EditsStopUnreserved ==
    \/ rounds = EditRounds \/ Stalled \/ ToRepair = {}
    \/ Calls > 0 /\ Budget - used < Calls

\* What stops the edits before a round.
EditsStop ==
    \/ rounds = EditRounds
    \/ Stalled
    \/ ToRepair = {}
    \/ LET calls == Calls
       IN  /\ calls > 0
           /\ \/ Budget > used /\ Budget - used < calls + Keep
              \/ Budget = used /\ used # base

-----------------------------------------------------------------------------
(* The steps of the gate.                                                  *)

Init ==
    /\ goals \in Tasks
    /\ world \in Worlds
    /\ used \in Spent
    /\ blocks = << >> /\ steps = << >>
    /\ base = used /\ rounds = 0 /\ history = << >>
    /\ failed = "none" /\ certified = FALSE /\ pc = "generate"

Unedited == UNCHANGED <<rounds, history>>

\* The first plan: its blocks go to the repair when it has critical findings.
FirstPlan(plan, bs) ==
    /\ blocks' = bs
    /\ steps' = Tidy(plan, world, goals)
    /\ base' = used'
    /\ pc' = IF bs # << >> /\ Critical(steps', world, goals) # {} THEN "edit" ELSE "certify"
    /\ Unedited /\ UNCHANGED <<goals, world, certified>>

\* Goals of the robot's own actions: compiled, no LLM call.
Compile ==
    /\ pc = "generate" /\ IsTemplate(goals)
    /\ UNCHANGED <<used, failed>>
    /\ FirstPlan(Compiled(goals, world.arrived), << >>)

\* The planner's plan; a planner without the repair gives no blocks.
Generate ==
    /\ pc = "generate" /\ ~IsTemplate(goals) /\ used < Budget
    /\ used' = used + 1 /\ failed' = failed
    /\ \E bs \in Plans(goals) \union {<< >>} : FirstPlan(Join(bs), bs) \/ FirstPlan(Join(bs), << >>)

\* The planner is down, or the budget has no call left for it.
GenerateFails ==
    /\ pc = "generate" /\ ~IsTemplate(goals)
    /\ \/ used < Budget /\ used' = used + 1 /\ failed' = "planner"
       \/ used = Budget /\ used' = used /\ failed' = "budget"
    /\ FirstPlan(<< >>, << >>)

\* One round: a needless block is emptied, every other one is asked for
\* again; a call that fails, or answers no steps, leaves its block.
EditRound ==
    /\ pc = "edit"
    /\ used >= Budget => Calls = 0
    /\ ~EditsStop
    /\ \E new \in [ToRepair \ Needless -> Edits(goals) \union {<< >>}] :
        blocks' = [k \in DOMAIN blocks |->
                    CASE k \in Needless -> << >>
                      [] k \in DOMAIN new /\ new[k] # << >> -> new[k]
                      [] OTHER -> blocks[k]]
    /\ used' = used + Calls
    /\ rounds' = rounds + 1
    /\ history' = Append(history, Findings)
    /\ UNCHANGED <<goals, world, steps, base, failed, certified, pc>>

\* Not one edit was possible: the run ends for want of calls.
EditRefused ==
    /\ pc = "edit" /\ used = Budget
    /\ ~EditsStop /\ Calls > 0
    /\ failed' = "budget"
    /\ pc' = "certify"
    /\ UNCHANGED <<goals, world, blocks, steps, used, base, rounds, history, certified>>

EditsEnd ==
    /\ pc = "edit" /\ EditsStop
    /\ steps' = Tidy(Join(blocks), world, goals)
    /\ pc' = "certify"
    /\ Unedited /\ UNCHANGED <<goals, world, blocks, used, base, failed, certified>>

Certify ==
    /\ pc = "certify"
    /\ certified' = ~Blocked(steps, world, goals)
    /\ pc' = IF certified' \/ steps = << >> \/ IsTemplate(goals) \/ failed # "none"
             THEN "decide" ELSE "refine"
    /\ Unedited /\ UNCHANGED <<goals, world, blocks, steps, used, base, failed>>

\* _refine_plan: one fresh plan, told why the last one was rejected.
Refine ==
    /\ pc = "refine"
    /\ \/ /\ used < Budget
          /\ used' = used + 1 /\ failed' = failed
          /\ \E bs \in Fresh(goals) \union {<< >>} : steps' = Tidy(Join(bs), world, goals)
       \/ /\ used = Budget
          /\ used' = used /\ failed' = "budget" /\ steps' = << >>
    /\ certified' = ~Blocked(steps', world, goals)
    /\ pc' = "decide"
    /\ Unedited /\ UNCHANGED <<goals, world, blocks, base>>

\* Every goal is an object that may lie where it should: nothing to do but to look.
NothingToDo == goals # << >> /\ Untouched(goals, << >>) = ToSet(goals)

\* The end of _plan_phase; an empty plan may come with the planner's error.
Decide ==
    /\ pc = "decide"
    /\ \/ failed = "budget" /\ pc' = "failed"
       \/ failed # "budget" /\ steps = << >> /\ pc' = "failed"
       \/ failed = "none" /\ steps = << >> /\ NothingToDo /\ pc' = "execute"
       \/ failed # "budget" /\ steps # << >> /\ pc' = IF certified THEN "execute" ELSE "failed"
    /\ UNCHANGED <<goals, world, blocks, steps, used, base, rounds, history, failed, certified>>

Next == Compile \/ Generate \/ GenerateFails \/ EditRound \/ EditRefused \/ EditsEnd
            \/ Certify \/ Refine \/ Decide

Spec == Init /\ [][Next]_vars

-----------------------------------------------------------------------------
(* Properties.                                                             *)

TypeOK ==
    /\ goals \in Tasks /\ world \in Worlds
    /\ ToSet(steps) \union ToSet(Join(blocks)) \subseteq
        [action : PlanActions \union Foreign, object : Object \union Place \union Named \union {None}]
    /\ used \in 0..Budget /\ base \in 0..used
    /\ rounds \in 0..EditRounds /\ Len(history) = rounds
    /\ failed \in {"none", "planner", "budget"} /\ certified \in BOOLEAN
    /\ pc \in {"generate", "edit", "certify", "refine", "decide", "execute", "failed"}

\* What really becomes of the world when a plan runs: where each object was
\* put last and still is, and whether each step was one the rules allow.
RunStep(acc, st) ==
    [w |-> Apply(st, acc.w),
     ok |-> acc.ok /\ Errors(st, acc.w, << >>) = {},
     put |-> CASE st.action = "Pick" -> [acc.put EXCEPT ![st.object] = Step("nothing", None)]
               [] st.action \in {"Place", "PutIn"} /\ acc.w.holding # None ->
                    [acc.put EXCEPT ![acc.w.holding] = st]
               [] OTHER -> acc.put]

Reality(plan, w) ==
    FoldLeft(RunStep,
        [w |-> w, ok |-> TRUE, put |-> [o \in Object |-> Step("nothing", None)]], plan)

InReality(g, plan, w) ==
    LET end == Reality(plan, w)
    IN  CASE g.type = "on" -> end.put[g.object] = Step("Place", g.to)
          [] g.type = "in" -> end.put[g.object] = Step("PutIn", g.to)
          [] g.type = "open" -> g.object \in end.w.opened
          [] g.type = "close" -> g.object \notin end.w.opened
          [] OTHER -> Reached(g, plan, w.arrived)

\* docs/contract.md's certified gate: a plan that runs breaks no rule of the
\* actions at any of its steps, and when it has run every goal it was made for
\* really holds (an object put down is not taken up again, a container opened
\* not closed), but for the objects nobody knows the place of.
CertifiedPlansWork ==
    pc = "execute" =>
        /\ Reality(steps, world).ok
        /\ \A g \in ToSet(goals) \ Untouched(goals, steps) : InReality(g, steps, world)

\* Removing the steps that do nothing never costs a goal, and never gives the
\* checker more to find than the plan as the planner wrote it had.
TidyIsHarmless ==
    LET plan == Join(blocks)
        tidied == Tidy(plan, world, goals)
    IN  pc \in {"edit", "certify"} =>
        /\ Reaches(plan, world, goals) => Reaches(tidied, world, goals)
        /\ Cardinality(Critical(tidied, world, goals)) <= Cardinality(Critical(plan, world, goals))

\* The gate's repairs of one plan leave the calls set aside for the rest of the
\* run, whatever the planner answers and however many rounds it takes.
EditsLeaveReserve ==
    pc \in {"edit", "certify"} /\ used > base => Budget - used >= Keep

\* core/planning/goals.py:148: "The plan of template goals, in goal order": a
\* robot that was sent to several places, one after the other, ends at the last.
GoalsInOrder ==
    pc = "execute" /\ IsTemplate(goals) =>
        LET places == SelectSeq([i \in DOMAIN goals |-> goals[i].to], LAMBDA p : p # None)
        IN  places # << >> => Here(steps, Len(steps), world.arrived) = Last(places)
=============================================================================
