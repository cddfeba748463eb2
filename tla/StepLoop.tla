------------------------------ MODULE StepLoop ------------------------------
(***************************************************************************)
(* core/planning/assist_loop.py: the executive of one run, from its        *)
(* certified plan to its end.  Between two steps it holds while paused,    *)
(* stops when cancelled and takes what people said; a step is guarded, run *)
(* and checked; a failure goes through the recovery policy, the retries in *)
(* place and the questions to the person to the planner; a finished plan   *)
(* is looked at; a task that a new one interrupted is taken back.          *)
(*                                                                         *)
(* Goals are "object on place": open / close, containers, the compiled     *)
(* go / say goals and steps that are no-ops are left out.  The text of a   *)
(* failure may or may not be the text of the one before.  A question is    *)
(* answered at once (the asking is Dialog's).  A planner that fails, or    *)
(* that the LLM-call budget refuses, is a planner without a plan.          *)
(***************************************************************************)
EXTENDS Integers, Sequences, FiniteSets, SequencesExt

CONSTANTS
    Object, Place,
    NoObject, NoPlace,  \* None
    Stranger,           \* "unknown object", in the hand after a failed pick
    Task,               \* the goals the run starts with
    Failure,            \* bound: <<action, target, code>> the skills may end with
    MaxReplans,         \* cfg max_replans
    PickRetries,        \* cfg pick_retries
    SearchMax,          \* cfg search_max
    MaxChanges,         \* bound: changes people make during the run
    MaxPauses           \* bound: pauses of the run

ASSUME NonesAssumption ==
    {NoObject, Stranger} \cap Object = {} /\ NoObject # Stranger /\ NoPlace \notin Place
ASSUME TaskAssumption == Task \subseteq [object : Object, to : Place]
ASSUME SceneAssumption == IsFiniteSet(Object) /\ IsFiniteSet(Place)
ASSUME BudgetsAssumption ==
    {MaxReplans, PickRetries, SearchMax, MaxChanges, MaxPauses} \subseteq Nat

VARIABLES
    goals,    \* r.goals
    stack,    \* goals of the suspended tasks, last first (task stack, r.saved_goals)
    steps,    \* r.steps[r.i:], the plan from the next step on
    arrived, found, holding,   \* the belief (WorldState)
    placed,   \* r.placed: where each object was put, or seen at its goal
    picked,   \* the objects of the Picks in r.completed
    replans,  \* r.replans
    tries,    \* how often, by key: seen_fail, code_tries, pick_tries, move_tries, find_fails
    helped,   \* r.helped: what the person was asked for already
    looked,   \* r.looked_goals
    left,     \* goals the goal check has still to look at
    unmet,    \* whether it saw one that does not hold
    pc,       \* where the loop stands
    status,   \* of the run
    changes, pauses,  \* how many there were
    fresh,    \* history: objects seen since the last pause
    owed,     \* history: goals accepted and not taken back
    met       \* history: goals that held when their task was done

task == <<goals, stack>>
belief == <<arrived, found, holding>>
reached == <<placed, picked>>
budgets == <<replans, tries, helped>>
check == <<left, unmet>>
people == <<changes, pauses>>
history == <<fresh, owed, met>>
vars == <<task, steps, belief, reached, budgets, looked, check, pc, status, people, history>>

Goal == [object : Object, to : Place]
Step == [action : {"MoveTo", "Find", "Pick", "Place"},
         target : Object \cup Place, goal : Place \cup {NoPlace}]

Do(a, x) == [action |-> a, target |-> x, goal |-> NoPlace]
\* A Find that is to see whether a goal holds already (verify_goal).
LookFor(g) == [action |-> "Find", target |-> g.object, goal |-> g.to]

st == Head(steps)    \* the step the loop is at

\* `_goals_hold`
Hold(gs, pl, hand) == \A g \in gs : pl[g.object] = g.to /\ hand # g.object

Go(p) == pc' = p /\ UNCHANGED status
Again == Go("boundary")
Over(s) == pc' = "over" /\ status' = s

-----------------------------------------------------------------------------
(* What the loop gets from outside.                                        *)

\* A way to bring a goal about, from wherever the task may stand.
Bring(g) ==
    LET there == <<Do("MoveTo", g.to), Do("Place", g.to)>>
        take == <<Do("Pick", g.object)>> \o there
        fetch == <<Do("Find", g.object)>> \o take
    IN  {there, take} \cup {<<Do("MoveTo", p)>> \o fetch : p \in Place \ {g.to}}
\* The planner's answers that pass the gate.
Plans(gs) == UNION {Bring(g) : g \in gs}

\* contract/recovery.py, DEFAULT_RECOVERY: what matters here of each rule.
Rule(code) ==
    LET rule(a, n, then) == [action |-> a, retries |-> n, then |-> then]
    IN  CASE code \in {"estop", "cancelled", "software"} -> rule("stop", 1, "stop")
          [] code = "hw_fault" -> rule("health_check", 1, "stop")
          [] code = "perception_unavailable" -> rule("wait_health", 2, "stop")
          [] code = "timeout" -> rule("health_check", 1, "other")
          [] OTHER -> rule("other", 1, "other")

\* RecoveryRule.next_after
NextAfter(code, n) == IF n <= Rule(code).retries THEN Rule(code).action ELSE Rule(code).then

\* `_reconcile`: where the sensors say the robot is; an empty hand holds nothing.
Reconcile ==
    /\ arrived' \in Place \cup {NoPlace}
    /\ holding' \in {holding, NoObject}

\* action_model.apply: the effects of a step on the belief.
Effect(s) ==
    CASE s.action = "MoveTo" -> arrived' = s.target /\ found' = NoObject /\ UNCHANGED holding
      [] s.action = "Find" -> found' = s.target /\ UNCHANGED <<arrived, holding>>
      [] s.action = "Pick" -> holding' = s.target /\ found' = NoObject /\ UNCHANGED arrived
      [] s.action = "Place" -> holding' = NoObject /\ UNCHANGED <<arrived, found>>

\* `_effect` on r.placed, and `_step_succeeded` on a look at a goal.
PlacedBy(s) ==
    CASE s.action = "Place" /\ holding \in Object -> [placed EXCEPT ![holding] = s.target]
      [] s.action = "Find" /\ s.goal # NoPlace -> [placed EXCEPT ![s.target] = s.goal]
      [] OTHER -> placed

\* Why a step cannot run in the belief (`_precondition`): <<>> when it can.
Why(s, here, hand) ==
    CASE s.action = "Place" /\ here # s.target -> <<"at", here>>
      [] s.action = "Place" /\ hand = NoObject -> <<"empty">>
      [] s.action = "Pick" /\ hand # NoObject -> <<"holding", hand>>
      [] s.action = "Pick" /\ found # s.target -> <<"not_found">>
      [] OTHER -> << >>

-----------------------------------------------------------------------------
Init ==
    /\ goals = Task
    /\ stack = << >>
    /\ steps \in Plans(goals) \cup {<< >>}   \* none: the goal may hold already
    /\ arrived = NoPlace
    /\ found = NoObject
    /\ holding = NoObject
    /\ placed = [o \in Object |-> NoPlace]
    /\ picked = {}
    /\ replans = 0
    /\ tries = << >>
    /\ helped = {}
    /\ looked = {}
    /\ left = {}
    /\ unmet = FALSE
    /\ pc = "boundary"
    /\ status = "running"
    /\ changes = 0
    /\ pauses = 0
    /\ fresh = {}
    /\ owed = goals
    /\ met = {}

(***************************************************************************)
(* `_sage_replan` and its callers: a new rest of the plan (in `some`), the *)
(* second try when the gate refuses the first; without one the run fails.  *)
(* A cancel does not wait for the planner's answer (call_cancellable).     *)
(***************************************************************************)
Replan(some) ==
    IF replans >= MaxReplans
    THEN Over("failed") /\ UNCHANGED <<replans, steps>>
    ELSE /\ replans' \in {replans + n : n \in 1..2} \cap 0..MaxReplans
         /\ \/ steps' \in some /\ Again
            \/ steps' = << >> /\ Over("failed")
            \/ UNCHANGED steps /\ Over("aborted")

Count(k) == IF k \in DOMAIN tries THEN tries[k] ELSE 0
Bump(ks) == tries' = [k \in DOMAIN tries \cup ks |-> Count(k) + IF k \in ks THEN 1 ELSE 0]

-----------------------------------------------------------------------------
(* People.                                                                 *)

\* Mutant: a Pick that is next keeps its Find.
PausedOnly ==
    /\ pc = "boundary"
    /\ pauses < MaxPauses
    /\ pauses' = pauses + 1
    /\ Reconcile
    /\ fresh' = {}
    /\ UNCHANGED <<task, steps, found, reached, budgets, looked, check, pc, status, changes, owed, met>>

(***************************************************************************)
(* `_pause_point`: the run was held here; the belief is reconciled and     *)
(* (`_refind_after_pause`) a Pick that is next looks again first.          *)
(***************************************************************************)
Paused ==
    /\ pc = "boundary"
    /\ pauses < MaxPauses
    /\ pauses' = pauses + 1
    /\ Reconcile
    /\ IF found # NoObject /\ steps # << >> /\ st.action = "Pick"
       THEN found' = NoObject /\ steps' = <<Do("Find", st.target)>> \o steps
       ELSE UNCHANGED <<found, steps>>
    /\ fresh' = {}
    /\ UNCHANGED <<task, reached, budgets, looked, check, pc, status, changes, owed, met>>

\* `_apply_pending` takes one event.
Said ==
    /\ pc \in {"boundary", "changed"}
    /\ changes < MaxChanges
    /\ changes' = changes + 1
    /\ Go("changed")
    /\ UNCHANGED <<steps, belief, reached, budgets, looked, check, pauses, fresh, met>>

\* `_goal_edit`, MODIFY: a goal gets another destination.
Modified(g, p) ==
    /\ g \in goals /\ p # g.to
    /\ Said
    /\ goals' = (goals \ {g}) \cup {[g EXCEPT !.to = p]}
    /\ owed' = (owed \ {g}) \cup {[g EXCEPT !.to = p]}
    /\ UNCHANGED stack

\* `_goal_edit`, DROP: the held object is put back first (`_held_dropped`).
Dropped(g) ==
    /\ g \in goals
    /\ Said
    /\ IF holding = g.object /\ \A h \in goals \ {g} : h.object # g.object
       THEN \E back \in SUBSET {[g EXCEPT !.to = p] : p \in Place} :
                Cardinality(back) <= 1 /\ goals' = (goals \ {g}) \cup back
       ELSE goals' = goals \ {g}
    /\ owed' = owed \ {g}
    /\ UNCHANGED stack

\* `_goal_edit`, ADD, and `_new_command`, after the current task.
Added(g) ==
    /\ g \notin goals
    /\ Said
    /\ goals' = goals \cup {g}
    /\ owed' = owed \cup {g}
    /\ UNCHANGED stack

\* `_new_command`, first (`_suspend_for`): the held object is put down here.
NewFirst(g) ==
    /\ g \notin goals
    /\ Said
    /\ stack' = <<goals>> \o stack
    /\ goals' = {g} \cup IF holding # NoObject /\ arrived # NoPlace
                         THEN {[object |-> holding, to |-> arrived]} ELSE {}
    /\ owed' = owed \cup {g}

-----------------------------------------------------------------------------
(* The loop.                                                               *)

(***************************************************************************)
(* `_cancelled`: the cancel event, which may have been set at any time, is *)
(* read here, while a change is being read or asked about, in a call of    *)
(* the planner, after a skill and after a look, and nowhere else.          *)
(***************************************************************************)
Cancelled ==
    /\ pc \in {"boundary", "changed"}
    /\ Over("aborted")
    /\ UNCHANGED <<task, steps, belief, reached, budgets, looked, check, people, history>>

\* `_repair_goals`: nothing is left to do, or the planner repairs the plan.
Repair ==
    /\ pc \in {"changed", "resumed"}
    /\ IF Hold(goals, placed, holding)
       THEN steps' = << >> /\ Again /\ UNCHANGED replans
       ELSE Replan(Plans(goals) \cup {<< >>})
    /\ UNCHANGED <<task, belief, reached, tries, helped, looked, check, people, history>>

AtStep == pc = "boundary" /\ steps # << >>

\* `_guard` looks where the robot is, and before a Pick whether the hand is full.
Here == {arrived} \cup IF st.action = "MoveTo" THEN {} ELSE Place \cup {NoPlace}
Hand == {holding} \cup IF st.action = "Pick" THEN {NoObject} ELSE {}

\* `_run_step` up to the skill: the step's preconditions hold.
StepStarts ==
    /\ AtStep
    /\ \E here \in Here, hand \in Hand :
          Why(st, here, hand) = << >> /\ arrived' = here /\ holding' = hand
    /\ Go("running")
    /\ UNCHANGED <<task, steps, found, reached, budgets, looked, check, people, history>>

\* `_guard`: a precondition is violated; the second time for one reason ends the run.
StepRefused ==
    /\ AtStep
    /\ \E here \in Here, hand \in Hand :
          LET why == Why(st, here, hand)
              key == <<"pre", st.action, st.target, why>>
          IN  /\ why # << >>
              /\ arrived' = here /\ holding' = hand
              /\ Bump({key})
              /\ IF Count(key) = 0 THEN Replan(Plans(goals) \cup {<< >>})
                 ELSE Over("failed") /\ UNCHANGED <<steps, replans>>
    /\ UNCHANGED <<task, found, reached, helped, looked, check, people, history>>

\* `_guard`: the held object was lost on the way to where it is put.
HeldLost ==
    /\ AtStep /\ st.action = "Place"
    /\ \E here \in Here : Why(st, here, holding) = << >> /\ arrived' = here
    /\ holding' = NoObject
    /\ Over("failed")
    /\ UNCHANGED <<task, steps, found, reached, budgets, looked, check, people, history>>

\* `_run_step`, Unbindable: the adapter has no skill for the step.
StepUnbound ==
    /\ AtStep
    /\ \E here \in Here, hand \in Hand :
          Why(st, here, hand) = << >> /\ arrived' = here /\ holding' = hand
    /\ Replan(Plans(goals) \cup {<< >>})
    /\ UNCHANGED <<task, found, reached, tries, helped, looked, check, people, history>>

\* `_run_step`, cancelled meanwhile: the belief keeps what the skill did.
StepCancelled ==
    /\ pc = "running"
    /\ \/ Effect(st) /\ placed' = IF st.action = "Place" THEN PlacedBy(st) ELSE placed
       \/ UNCHANGED <<belief, placed>>
    /\ Over("aborted")
    /\ UNCHANGED <<task, steps, picked, budgets, looked, check, people, history>>

\* `_step_succeeded`: the rest of the plan is dropped once the goals hold.
StepSucceeds ==
    /\ pc = "running"
    /\ Effect(st)
    /\ placed' = PlacedBy(st)
    /\ picked' = picked \cup IF st.action = "Pick" THEN {st.target} ELSE {}
    /\ steps' = IF Hold(goals, placed', holding') THEN << >> ELSE Tail(steps)
    /\ fresh' = fresh \cup IF st.action = "Find" THEN {st.target} ELSE {}
    /\ Again
    /\ UNCHANGED <<task, budgets, looked, check, people, owed, met>>

-----------------------------------------------------------------------------
(* `_step_failed`.                                                         *)

\* A look at a goal the plan left out: it does not hold yet.
LookMissed ==
    /\ pc = "running"
    /\ st.goal # NoPlace
    /\ found' = NoObject
    /\ steps' = Tail(steps)
    /\ Again
    /\ UNCHANGED <<task, arrived, holding, reached, budgets, looked, check, people, history>>

(***************************************************************************)
(* The policy has counted a failure with this code (`_apply_policy`; the   *)
(* count only matters for a rule that can end in STOP).                    *)
(***************************************************************************)
StepFailed(code) ==
    /\ pc = "running"
    /\ st.goal = NoPlace /\ <<st.action, st.target, code>> \in Failure
    /\ UNCHANGED <<task, arrived, reached, looked, check, people, history>>

CodeKey(code) == <<"code", code, st.action, st.target>>
CodeKeys(code) == IF Rule(code).action = "other" THEN {} ELSE {CodeKey(code)}
TryKey == <<"try", st.action, st.target>>

Todo(code) == NextAfter(code, Count(CodeKey(code)) + 1)

\* Not retried, out of retries, or the robot is not healthy.
PolicyStops(code) ==
    /\ StepFailed(code)
    /\ Todo(code) \in {"stop", "wait_health", "health_check"}
    /\ Over("failed")
    /\ UNCHANGED <<steps, found, holding, budgets>>

\* Mutant: the tries of WAIT_HEALTH are not counted.
PolicyWaitsOn(code) ==
    /\ StepFailed(code)
    /\ Todo(code) = "wait_health"
    /\ found' = IF st.action = "Find" THEN NoObject ELSE found
    /\ Again
    /\ UNCHANGED <<steps, holding, budgets>>

\* WAIT_HEALTH: the robot is well again, the same step runs in place.
PolicyWaits(code) ==
    /\ StepFailed(code)
    /\ Todo(code) = "wait_health"
    /\ Bump({CodeKey(code)})
    /\ found' = IF st.action = "Find" THEN NoObject ELSE found
    /\ Again
    /\ UNCHANGED <<steps, holding, replans, helped>>

\* The same failure for the third time (how often the text was the same is left
\* open: the step has failed before, and was retried or replanned).
SameAgain(code) ==
    /\ StepFailed(code)
    /\ Todo(code) \in {"health_check", "other"}
    /\ st.action # "Find" /\ (Count(TryKey) > 0 \/ replans > 0)
    /\ Over("failed")
    /\ UNCHANGED <<steps, found, holding, budgets>>

\* None of these: the step's own recovery is next; `more` is what it counts.
Recovers(code, more) ==
    /\ StepFailed(code)
    /\ Todo(code) \in {"health_check", "other"}
    /\ Bump(CodeKeys(code) \cup more)

\* `_refuted`: the check after the skill says it did not happen.
Refuted(code) ==
    /\ Recovers(code, {})
    /\ found' = NoObject
    /\ holding' \in {holding} \cup IF st.action = "Place" THEN {NoObject} ELSE {}
    /\ Replan(Plans(goals) \cup {<< >>})
    /\ UNCHANGED helped

(***************************************************************************)
(* `_recover_find`: search on through the planner; when that was tried     *)
(* SearchMax times, or nowhere is left, ask the person once.               *)
(***************************************************************************)
FindMissed(code) ==
    /\ Recovers(code, {TryKey})
    /\ st.action = "Find"
    /\ found' = NoObject
    /\ \E nowhere \in {FALSE, code = "absent"} :
          LET n == Count(TryKey) + 1
              ask == (n > SearchMax \/ nowhere) /\ <<"where", st.target>> \notin helped
          IN  /\ helped' = helped \cup IF ask THEN {<<"where", st.target>>} ELSE {}
              /\ \/ /\ ask \/ ~(n > SearchMax + 1 \/ nowhere)
                    /\ Replan(Plans(goals) \cup {<< >>})
                 \/ /\ ask \/ n > SearchMax + 1 \/ nowhere
                    /\ Over("failed")
                    /\ UNCHANGED <<steps, replans>>
    /\ UNCHANGED holding

\* `_recover_pick`: something, but what, is in the hand.
PickedStranger(code) ==
    /\ Recovers(code, {})
    /\ st.action = "Pick"
    /\ holding' = Stranger
    /\ Over("failed")
    /\ UNCHANGED <<steps, found, replans, helped>>

LookAgain == steps' = <<Do("Find", st.target)>> \o steps /\ found' = NoObject /\ Again

(***************************************************************************)
(* `_recover_pick`: look and grasp again; then ask the person once, who    *)
(* helps, says where it is now, or does not; out of reach, ask at once.    *)
(***************************************************************************)
PickMissed(code) ==
    /\ Recovers(code, {TryKey})
    /\ st.action = "Pick"
    /\ \/ Count(TryKey) + 1 <= PickRetries /\ LookAgain /\ UNCHANGED <<replans, helped>>
       \/ /\ <<"pick", st.target>> \notin helped
          /\ helped' = helped \cup {<<"pick", st.target>>}
          /\ \/ LookAgain /\ UNCHANGED replans
             \/ found' = NoObject /\ Replan(Plans(goals) \cup {<< >>})
             \/ Over("failed") /\ UNCHANGED <<steps, found, replans>>
       \/ /\ <<"pick", st.target>> \in helped
          /\ Over("failed")
          /\ UNCHANGED <<steps, found, replans, helped>>
    /\ UNCHANGED holding

\* `_recover_move`: once more; then the person is asked, once, to clear the way.
MoveBlocked(code) ==
    /\ Recovers(code, {TryKey})
    /\ st.action = "MoveTo"
    /\ LET key == <<"move", st.target>>
           ask == Count(TryKey) > 0 /\ key \notin helped
       IN  /\ helped' = helped \cup IF ask THEN {key} ELSE {}
           /\ \/ (Count(TryKey) = 0 \/ ask) /\ Again
              \/ Count(TryKey) > 0 /\ Over("failed")
    /\ UNCHANGED <<steps, found, holding, replans>>

\* `_recover_place`: the object is gone, or the planner repairs the plan.
PlaceFailed(code) ==
    /\ Recovers(code, {})
    /\ st.action = "Place"
    /\ \/ holding' = NoObject /\ Over("failed") /\ UNCHANGED <<steps, replans>>
       \/ Replan(Plans(goals) \cup {<< >>}) /\ UNCHANGED holding
    /\ UNCHANGED <<found, helped>>

-----------------------------------------------------------------------------
(* `_plan_ended` and what follows.                                         *)

AtEnd == pc = "boundary" /\ steps = << >>

\* `_untouched`, less what `_look_at_untouched` leaves out.
ToLook == {g \in goals : /\ g.object \notin picked /\ g \notin looked
                         /\ placed[g.object] # g.to /\ holding # g.object}

\* The way to look at these goals, one after the other.
LookSteps(order) ==
    FlattenSeq([i \in DOMAIN order |->
        LET here == IF i = 1 THEN arrived ELSE order[i - 1].to
        IN  (IF here = order[i].to THEN << >> ELSE <<Do("MoveTo", order[i].to)>>)
            \o <<LookFor(order[i])>>])

\* The goals hold in the belief: they are looked at.
CheckStarts ==
    /\ AtEnd /\ Hold(goals, placed, holding)
    /\ left' = goals
    /\ unmet' = FALSE
    /\ Go("check")
    /\ UNCHANGED <<task, steps, belief, reached, budgets, looked, people, history>>

LookAtUntouched ==
    /\ AtEnd /\ ~Hold(goals, placed, holding)
    /\ ToLook # {}
    /\ looked' = looked \cup ToLook
    /\ \E order \in SetToSeqs(ToLook) : steps' = LookSteps(order)
    /\ Again
    /\ UNCHANGED <<task, belief, reached, budgets, check, people, history>>

PlanShort ==
    /\ AtEnd /\ ~Hold(goals, placed, holding)
    /\ ToLook = {}
    /\ Replan(Plans(goals))
    /\ UNCHANGED <<task, belief, reached, tries, helped, looked, check, people, history>>

(***************************************************************************)
(* `_observe_goals` looks at one goal: it is seen, not seen, or it cannot  *)
(* be told; a goal seen not to hold is withdrawn from the belief.          *)
(***************************************************************************)
GoalLooked(g) ==
    /\ pc = "check" /\ g \in left
    /\ left' = left \ {g}
    /\ arrived' \in {arrived, g.to}
    /\ \E seen \in {"yes", "no", "unknown"}, cancelled \in BOOLEAN :
          /\ seen # "unknown" => arrived' = g.to
          /\ found' = IF seen = "yes" THEN g.object
                      ELSE IF arrived' # arrived THEN NoObject ELSE found
          /\ fresh' = fresh \cup IF seen = "yes" THEN {g.object} ELSE {}
          /\ IF seen = "no" /\ ~cancelled
             THEN unmet' = TRUE /\ placed' = [placed EXCEPT ![g.object] = NoPlace]
             ELSE UNCHANGED <<unmet, placed>>
          /\ IF cancelled THEN Over("aborted") ELSE UNCHANGED <<pc, status>>
    /\ UNCHANGED <<task, steps, holding, picked, budgets, looked, people, owed, met>>

CheckEnds ==
    /\ pc = "check" /\ left = {}
    /\ IF unmet THEN Replan(Plans(goals)) ELSE Go("done") /\ UNCHANGED <<steps, replans>>
    /\ met' = IF unmet THEN met ELSE met \cup goals
    /\ UNCHANGED <<task, belief, reached, tries, helped, looked, check, people, fresh, owed>>

\* Mutant: the frame is popped, and the goals stay the new task's.
TakeBackNothing ==
    /\ pc = "done" /\ stack # << >>
    /\ stack' = Tail(stack)
    /\ Reconcile
    /\ IF Hold(goals, placed, holding')
       THEN Over("success") /\ met' = met \cup goals
       ELSE Go("resumed") /\ UNCHANGED met
    /\ UNCHANGED <<goals, steps, found, reached, budgets, looked, check, people, fresh, owed>>

(***************************************************************************)
(* `_resume_suspended`: back to the task the new one interrupted.  When    *)
(* its goals hold, the loop ends and `_final_check` finds a success.       *)
(***************************************************************************)
TakeBack ==
    /\ pc = "done" /\ stack # << >>
    /\ goals' = Head(stack)
    /\ stack' = Tail(stack)
    /\ Reconcile
    /\ IF Hold(goals', placed, holding')
       THEN Over("success") /\ met' = met \cup goals'
       ELSE Go("resumed") /\ UNCHANGED met
    /\ UNCHANGED <<steps, found, reached, budgets, looked, check, people, fresh, owed>>

\* `_final_check`
Finished ==
    /\ pc = "done" /\ stack = << >>
    /\ Over(IF Hold(goals, placed, holding) THEN "success" ELSE "failed")
    /\ UNCHANGED <<task, steps, belief, reached, budgets, looked, check, people, history>>

-----------------------------------------------------------------------------
People ==
    \/ Paused
    \/ \E g \in Goal : Added(g) \/ Dropped(g) \/ NewFirst(g)
    \/ \E g \in Goal, p \in Place : Modified(g, p)

FailedStep(code) ==
    \/ PolicyStops(code) \/ PolicyWaits(code) \/ SameAgain(code) \/ Refuted(code)
    \/ FindMissed(code) \/ PickedStranger(code) \/ PickMissed(code)
    \/ MoveBlocked(code) \/ PlaceFailed(code)

Loop ==
    \/ Cancelled \/ Repair
    \/ StepStarts \/ StepRefused \/ HeldLost \/ StepUnbound
    \/ StepCancelled \/ StepSucceeds \/ LookMissed
    \/ \E code \in {f[3] : f \in Failure} : FailedStep(code)
    \/ CheckStarts \/ LookAtUntouched \/ PlanShort
    \/ \E g \in Goal : GoalLooked(g)
    \/ CheckEnds \/ TakeBack \/ Finished

Next == People \/ Loop

Spec == Init /\ [][Next]_vars

(***************************************************************************)
(* The run's thread keeps running: a skill ends (it has a timeout), a      *)
(* pause is over when the loop goes on, a question ends without an answer. *)
(***************************************************************************)
FairSpec == Spec /\ WF_vars(Loop)

-----------------------------------------------------------------------------
(***************************************************************************)
(* The types, with the budgets that bound a run: replans never exceed      *)
(* max_replans, whichever of the callers of `_sage_replan` asked.          *)
(***************************************************************************)
TypeOK ==
    /\ goals \subseteq Goal
    /\ stack \in Seq(SUBSET Goal) /\ Len(stack) <= MaxChanges
    /\ steps \in Seq(Step)
    /\ arrived \in Place \cup {NoPlace}
    /\ found \in Object \cup {NoObject}
    /\ holding \in Object \cup {NoObject, Stranger}
    /\ placed \in [Object -> Place \cup {NoPlace}]
    /\ picked \subseteq Object
    /\ replans \in 0..MaxReplans
    /\ \A k \in DOMAIN tries : tries[k] \in Nat \ {0}
    /\ helped \subseteq {"where", "pick", "move"} \X (Object \cup Place)
    /\ looked \subseteq Goal
    /\ left \subseteq Goal
    /\ unmet \in BOOLEAN
    /\ pc \in {"boundary", "changed", "resumed", "running", "check", "done", "over"}
    /\ status \in {"running", "success", "failed", "aborted"}
    /\ changes \in 0..MaxChanges
    /\ pauses \in 0..MaxPauses
    /\ fresh \subseteq Object
    /\ owed \subseteq Goal
    /\ met \subseteq Goal

(***************************************************************************)
(* A run that ends in success, with no task left suspended, has done every *)
(* goal it accepted: those of its task and those people added, of every    *)
(* task that interrupted another one, less what was taken back.            *)
(***************************************************************************)
SuccessEarned == status = "success" /\ stack = << >> => owed \subseteq met

(***************************************************************************)
(* Retries in place, replans, questions, looks and searches all have their *)
(* budgets: whatever the skills, the planner and people do, the run ends.  *)
(***************************************************************************)
RunEnds == <>(pc = "over")

(***************************************************************************)
(* A Pick acts on what was seen since the last pause: "a Pick on a Find    *)
(* made before the pause looks again first" (assist_loop.py:1621).         *)
(***************************************************************************)
PickLooksFirst == pc = "running" /\ st.action = "Pick" => st.target \in fresh

(***************************************************************************)
(* It does while the plan is the one the run started with, retries in      *)
(* place included: no replan has put a Pick next since.                    *)
(***************************************************************************)
PlannedPickLooksFirst == replans = 0 => PickLooksFirst

(***************************************************************************)
(* A task that a new one interrupted is taken back when the new goals      *)
(* hold: no success leaves one on the task stack (docs/run_manager.md:134).*)
(***************************************************************************)
SuspendedTaskTakenBack == status = "success" => stack = << >>
=============================================================================
