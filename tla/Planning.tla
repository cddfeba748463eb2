------------------------------ MODULE Planning ------------------------------
(***************************************************************************)
(* Three systems that share no variable: what the person wants             *)
(* (Understand, extended), the plan for it (PlanGate), and where the robot *)
(* looks for what the plan does not find (Search).                         *)
(***************************************************************************)
EXTENDS Understand

CONSTANTS
    Thing, Spot, Container, Named, PlanActions, Foreign, Unbindable, Tasks, Worlds,
    Plans(_), Edits(_), Fresh(_), DeliveryText, GateBudget, Spent, EditRounds,
    EditReserve,                                                        \* PlanGate
    Sought, Env, Containers, CanOpen, Sightings, Habits, Rankings, SearchMax,
    MaxReplans                                                          \* Search

VARIABLES
    tasks, world, blocks, steps, calls, base, rounds, history, failed, certified, stage,
    sighted, habit, ranked, searched, todo, arrived, opened, doubted, askHelp, misses, helped,
    replans, status, looked

gateVars == <<tasks, world, blocks, steps, calls, base, rounds, history, failed, certified, stage>>
searchVars ==
    <<sighted, habit, ranked, searched, todo, arrived, opened, doubted, askHelp, misses, helped,
      replans, status, looked>>

Gate == INSTANCE PlanGate WITH
    goals <- tasks, used <- calls, pc <- stage,
    Object <- Thing, Place <- Spot, Budget <- GateBudget
Looking == INSTANCE Search WITH steps <- todo, Object <- Sought, Place <- Env

\* A planner answers blocks of steps, whatever is in them; a budget of 0 is no cap.
ASSUME GateAssumption ==
    /\ GateBudget \in Nat \ {0} /\ Spent \subseteq 0..GateBudget /\ EditReserve \in Nat
    /\ \A task \in Tasks : \A bs \in Plans(task) : DOMAIN bs = 1..Len(bs) /\ Len(bs) \in Nat
\* Goals, blocks and steps come in order.
ASSUME OrderAssumption ==
    \A task \in Tasks :
        /\ task \in Seq(ToSet(task))
        /\ \A bs \in Plans(task) \union Fresh(task) :
            bs \in Seq(ToSet(bs)) /\ \A b \in ToSet(bs) : b \in Seq(ToSet(b))
        /\ \A b \in Edits(task) : b \in Seq(ToSet(b))
\* A belief says where the robot is, what it found, what it holds and what is open.
ASSUME WorldAssumption ==
    /\ None \notin Spot /\ None \notin Thing
    /\ \A w \in Worlds : DOMAIN w = {"arrived", "found", "holding", "opened"}
\* What is moved can be carried, and no goal of another kind names it without a place:
\* the sentence of a "say" is not the name of a thing that is moved in the same task.
Moved == {"on", "in"}
ASSUME GoalAssumption ==
    \A task \in Tasks : \A g \in ToSet(task) : g.type \in Moved =>
        /\ g.object \in Thing
        /\ \A h \in ToSet(task) : h.object = g.object => h.type \in Moved \/ h.to # None
\* There is a goal, or the run ends before it is planned; where to go is a place of the
\* ENV, or it is asked for.
ASSUME PlaceAssumption ==
    \A task \in Tasks : task # << >> /\ \A g \in ToSet(task) : g.type = "go" => g.to \in Spot
\* containers_from_env(): what is at a place are ENV keys.
ASSUME EnvAssumption ==
    /\ None \notin ToSet(Env)
    /\ Containers \in [ToSet(Env) -> SUBSET ToSet(Env)]

\* A plan that runs works (PlanGate).
CertifiedPlansWork == Gate!CertifiedPlansWork
\* Tidying costs no goal and adds no finding (PlanGate).
TidyIsHarmless == Gate!TidyIsHarmless
\* Edits leave the calls they must (PlanGate).
EditsLeaveReserve == Gate!EditsLeaveReserve
\* Each step of a steered plan acts where the robot then is (Search).
SteeredPlansRun == Looking!SteeredPlansRun
\* Giving up comes last (Search).
GivesUpLast == Looking!GivesUpLast
=============================================================================
