--------------------------- MODULE StepLoopProofs ---------------------------
(* Proofs about StepLoop, for any objects, places, tasks and failures of the *)
(* skills, and any budgets, changes and pauses.                              *)
EXTENDS StepLoop, FiniteSetTheorems, WellFoundedInduction, TLAPS

-----------------------------------------------------------------------------
(* Induction over the naturals, from their well-foundedness.                *)

Below == {ss \in Nat \X Nat : ss[1] < ss[2]}

LEMMA NatWellFounded == IsWellFoundedOn(Below, Nat)
<1>1. OpToRel(<, Nat) = Below
  BY DEF OpToRel, Below
<1> QED
  BY <1>1, NatLessThanWellFounded

LEMMA Induct ==
    ASSUME NEW S, 0 \in S, \A n \in Nat : n \in S => n + 1 \in S
    PROVE  \A n \in Nat : n \in S
<1> SUFFICES ASSUME Nat \ S # {} PROVE FALSE
  OBVIOUS
<1>1. PICK x \in Nat \ S : \A y \in Nat \ S : <<y, x>> \notin Below
  BY NatWellFounded, WFMin
<1>2. x # 0 /\ x - 1 \in Nat
  BY <1>1
<1>3. x - 1 \notin S
  BY <1>2, (x - 1) + 1 = x
<1>4. <<x - 1, x>> \in Below
  BY <1>2 DEF Below
<1> QED
  BY <1>1, <1>2, <1>3, <1>4

-----------------------------------------------------------------------------
(* What the model is built from.                                            *)

\* FlattenSeq joins sequences into one.
LEMMA FlattenSeqType ==
    ASSUME NEW S, NEW seqs \in Seq(Seq(S))
    PROVE  FlattenSeq(seqs) \in Seq(S)
<1> DEFINE n == Len(seqs)
           Joins(g, k) == g = [i \in 1..k |-> IF i = 1 THEN seqs[i] ELSE g[i - 1] \o seqs[i]]
           E == {k \in Nat : k <= n => \E g : Joins(g, k)}
<1>0. n \in Nat /\ \A i \in 1..n : seqs[i] \in Seq(S)
  OBVIOUS
<1>1. 0 \in E
  <2>1. Joins([i \in 1..0 |-> 0], 0)
    OBVIOUS
  <2> QED
    BY <2>1
<1>2. ASSUME NEW k \in Nat, k \in E PROVE k + 1 \in E
  <2>1. CASE k + 1 > n
    <3> HIDE DEF Joins
    <3> QED
      BY <2>1, <1>0
  <2>2. CASE k + 1 <= n
    <3>1. \E g : Joins(g, k)
      <4>1. k <= n => \E g : Joins(g, k)
        BY <1>2
      <4> HIDE DEF Joins
      <4> QED
        BY <2>2, <4>1, <1>0
    <3>2. PICK g : Joins(g, k)
      BY <3>1
    <3> DEFINE h == [i \in 1..(k + 1) |->
                        IF i <= k THEN g[i] ELSE IF i = 1 THEN seqs[i] ELSE g[i - 1] \o seqs[i]]
    <3>3. ASSUME NEW i \in 1..(k + 1)
          PROVE  h[i] = IF i = 1 THEN seqs[i] ELSE h[i - 1] \o seqs[i]
      <4>1. CASE i <= k
        <5>1. h[i] = g[i] /\ i \in 1..k /\ (i # 1 => h[i - 1] = g[i - 1])
          BY <4>1
        <5>2. g[i] = IF i = 1 THEN seqs[i] ELSE g[i - 1] \o seqs[i]
          BY <5>1, <3>2
        <5> QED
          BY <5>1, <5>2
      <4>2. CASE i > k
        BY <4>2
      <4> QED
        BY <4>1, <4>2
    <3>4. Joins(h, k + 1)
      BY <3>3
    <3> HIDE DEF Joins, h
    <3> QED
      BY <3>4
  <2> HIDE DEF Joins
  <2> QED
    BY <2>1, <2>2, <1>0
<1>3. \E g : Joins(g, n)
  <2> HIDE DEF Joins
  <2>1. n \in E
    <3> HIDE DEF E
    <3> QED
      BY <1>0, <1>1, <1>2, Induct
  <2> QED
    BY <2>1, <1>0
<1> DEFINE f == CHOOSE g : Joins(g, n)
<1>4. Joins(f, n)
  BY <1>3
<1> HIDE DEF f
<1> DEFINE T == {k \in Nat : k = 0 \/ (k <= n => f[k] \in Seq(S))}
<1>5. \A i \in 1..n : f[i] = IF i = 1 THEN seqs[i] ELSE f[i - 1] \o seqs[i]
  BY <1>4
<1>6. ASSUME NEW k \in Nat, k \in T PROVE k + 1 \in T
  <2>1. CASE k + 1 > n
    BY <2>1, <1>0
  <2>2. CASE k = 0 /\ k + 1 <= n
    BY <2>2, <1>0, <1>5
  <2>3. CASE k # 0 /\ k + 1 <= n
    <3>1. f[k] \in Seq(S) /\ k + 1 \in 1..n /\ (k + 1) - 1 = k /\ k + 1 # 1
      BY <2>3, <1>0, <1>6
    <3>2. f[k + 1] = f[k] \o seqs[k + 1]
      BY <3>1, <1>5
    <3>3. seqs[k + 1] \in Seq(S)
      BY <3>1, <1>0
    <3>4. f[k + 1] \in Seq(S)
      BY <3>1, <3>2, <3>3
    <3> QED
      BY <3>4
  <2> QED
    BY <2>1, <2>2, <2>3, <1>0
<1>7. n \in T
  <2>1. 0 \in T
    OBVIOUS
  <2> HIDE DEF T
  <2> QED
    BY <1>0, <1>6, <2>1, Induct
<1>8. CASE n = 0
  BY <1>8 DEF FlattenSeq
<1>9. CASE n # 0
  <2>1. FlattenSeq(seqs) = f[n]
    BY <1>9 DEF FlattenSeq, f
  <2>2. f[n] \in Seq(S)
    BY <1>0, <1>9, <1>7
  <2> QED
    BY <2>1, <2>2
<1> QED
  BY <1>8, <1>9

LEMMA FiniteGoals == IsFiniteSet(Goal)
<1> DEFINE f == [x \in Object \X Place |-> [object |-> x[1], to |-> x[2]]]
<1>1. IsFiniteSet(Object \X Place)
  BY SceneAssumption, FS_Product
<1>2. f \in [Object \X Place -> Goal]
  BY DEF Goal
<1>3. ASSUME NEW g \in Goal PROVE \E x \in Object \X Place : f[x] = g
  <2>1. <<g.object, g.to>> \in Object \X Place /\ g = [object |-> g.object, to |-> g.to]
    BY DEF Goal
  <2>2. f[<<g.object, g.to>>] = g
    BY <2>1
  <2> QED
    BY <2>1, <2>2
<1>4. f \in Surjection(Object \X Place, Goal)
  BY <1>2, <1>3 DEF Surjection
<1> QED
  BY <1>1, <1>4, FS_Surjection

\* Every step is about what its action takes.
Aimed == {s \in Step : IF s.action \in {"MoveTo", "Place"} THEN s.target \in Place
                                                          ELSE s.target \in Object}

\* So are the plans the gate lets through ...
LEMMA PlansType == ASSUME NEW gs \in SUBSET Goal PROVE Plans(gs) \subseteq Seq(Aimed)
<1> SUFFICES ASSUME NEW g \in Goal PROVE Bring(g) \subseteq Seq(Aimed)
  BY DEF Plans
<1>1. /\ Do("MoveTo", g.to) \in Aimed /\ Do("Place", g.to) \in Aimed
      /\ Do("Pick", g.object) \in Aimed /\ Do("Find", g.object) \in Aimed
      /\ \A p \in Place : Do("MoveTo", p) \in Aimed
  BY DEF Goal, Aimed, Step, Do
<1> HIDE DEF Aimed
<1> DEFINE there == <<Do("MoveTo", g.to), Do("Place", g.to)>>
           take == <<Do("Pick", g.object)>> \o there
           fetch == <<Do("Find", g.object)>> \o take
<1>2. there \in Seq(Aimed)
  BY <1>1
<1>3. take \in Seq(Aimed)
  <2> HIDE DEF there
  <2> QED
    BY <1>1, <1>2
<1>4. fetch \in Seq(Aimed)
  <2> HIDE DEF take
  <2> QED
    BY <1>1, <1>3
<1>5. ASSUME NEW p \in Place PROVE <<Do("MoveTo", p)>> \o fetch \in Seq(Aimed)
  <2> HIDE DEF fetch
  <2> QED
    BY <1>1, <1>4
<1>6. Bring(g) = {there, take} \cup {<<Do("MoveTo", p)>> \o fetch : p \in Place \ {g.to}}
  BY DEF Bring
<1> QED
  BY <1>2, <1>3, <1>5, <1>6

\* ... and the way to look at some goals, on which nothing is picked.
Looking == {s \in Aimed : s.action \in {"MoveTo", "Find"}}

LEMMA LookStepsType ==
    ASSUME NEW S \in SUBSET Goal, NEW order \in SetToSeqs(S)
    PROVE  LookSteps(order) \in Seq(Looking)
<1> DEFINE here(i) == IF i = 1 THEN arrived ELSE order[i - 1].to
           part(i) == (IF here(i) = order[i].to THEN << >> ELSE <<Do("MoveTo", order[i].to)>>)
                      \o <<LookFor(order[i])>>
           parts == [i \in DOMAIN order |-> part(i)]
<1>1. IsFiniteSet(S) /\ Cardinality(S) \in Nat
  BY FiniteGoals, FS_Subset, FS_CardinalityType
<1>2. order \in [1..Cardinality(S) -> S] /\ DOMAIN order = 1..Cardinality(S)
  BY DEF SetToSeqs
<1>3. ASSUME NEW i \in DOMAIN order PROVE part(i) \in Seq(Looking)
  <2>1. order[i] \in Goal
    BY <1>2, <1>3
  <2>2. Do("MoveTo", order[i].to) \in Looking /\ LookFor(order[i]) \in Looking
    BY <2>1 DEF Goal, Looking, Aimed, Step, Do, LookFor
  <2> HIDE DEF Looking
  <2> QED
    BY <2>2
<1>4. parts \in Seq(Seq(Looking))
  <2> HIDE DEF part
  <2> QED
    BY <1>1, <1>2, <1>3
<1>5. LookSteps(order) = FlattenSeq(parts)
  BY DEF LookSteps
<1> QED
  BY <1>4, <1>5, FlattenSeqType

-----------------------------------------------------------------------------
(* Types, with the budgets.                                                 *)

\* One task is suspended a change.
TaskTypes ==
    /\ goals \subseteq Goal /\ owed \subseteq Goal /\ met \subseteq Goal
    /\ stack \in Seq(SUBSET Goal) /\ Len(stack) <= changes
    /\ changes \in 0..MaxChanges

\* While a skill runs there is a step it is for; something unidentified in the hand
\* ends the run.
LoopTypes ==
    /\ steps \in Seq(Aimed)
    /\ pc \in {"boundary", "changed", "resumed", "running", "check", "done", "over"}
    /\ pc = "running" => steps # << >>
    /\ status \in {"running", "success", "failed", "aborted"}
BeliefTypes ==
    /\ arrived \in Place \cup {NoPlace}
    /\ found \in Object \cup {NoObject}
    /\ holding \in Object \cup {NoObject, Stranger}
    /\ pc # "over" => holding # Stranger

BudgetTypes ==
    /\ replans \in 0..MaxReplans
    /\ \A k \in DOMAIN tries : tries[k] \in Nat \ {0}
    /\ helped \subseteq {"where", "pick", "move"} \X (Object \cup Place)
    /\ pauses \in 0..MaxPauses
SeenTypes ==
    /\ placed \in [Object -> Place \cup {NoPlace}]
    /\ picked \subseteq Object /\ fresh \subseteq Object
    /\ looked \subseteq Goal /\ left \subseteq Goal
    /\ unmet \in BOOLEAN

TypeInv == TaskTypes /\ LoopTypes /\ BeliefTypes /\ BudgetTypes /\ SeenTypes

LEMMA AimedSteps == Seq(Aimed) \subseteq Seq(Step)
<1>1. Aimed \subseteq Step
  BY DEF Aimed
<1> QED
  BY <1>1

LEMMA TypesHold == TypeInv => TypeOK
<1> SUFFICES ASSUME TypeInv PROVE TypeOK
  OBVIOUS
<1>1. Len(stack) <= MaxChanges
  BY BudgetsAssumption DEF TypeInv, TaskTypes
<1> QED
  BY <1>1, AimedSteps DEF TypeInv, TaskTypes, LoopTypes, BeliefTypes, BudgetTypes, SeenTypes,
     TypeOK

LEMMA InitTypes == Init => TypeInv
<1> SUFFICES ASSUME Init PROVE TypeInv
  OBVIOUS
<1>1. Task \subseteq Goal
  BY TaskAssumption DEF Goal
<1>2. steps \in Seq(Aimed)
  <2>1. Plans(Task) \subseteq Seq(Aimed) /\ << >> \in Seq(Aimed)
    BY <1>1, PlansType
  <2> QED
    BY <2>1 DEF Init
<1>3. 0 \in 0..MaxReplans /\ 0 \in 0..MaxChanges /\ 0 \in 0..MaxPauses
  BY BudgetsAssumption
<1>4. TaskTypes
  <2>1. stack \in Seq(SUBSET Goal) /\ Len(stack) = 0
    BY DEF Init
  <2> QED
    BY <1>1, <1>3, <2>1 DEF Init, TaskTypes
<1>5. BudgetTypes
  <2>1. DOMAIN tries = {}
    BY DEF Init
  <2> QED
    BY <1>3, <2>1 DEF Init, BudgetTypes
<1>6. LoopTypes
  BY <1>2 DEF Init, LoopTypes
<1>7. BeliefTypes
  BY NonesAssumption DEF Init, BeliefTypes
<1>8. SeenTypes
  BY DEF Init, SeenTypes
<1> QED
  BY <1>4, <1>5, <1>6, <1>7, <1>8 DEF TypeInv

\* What the loop finds at its next step.
LEMMA AtNext ==
    ASSUME TypeInv, steps # << >>
    PROVE  st \in Aimed /\ st \in Step /\ Tail(steps) \in Seq(Aimed)
<1>1. steps \in Seq(Aimed)
  BY DEF TypeInv, LoopTypes
<1>2. st \in Aimed /\ Tail(steps) \in Seq(Aimed)
  BY <1>1 DEF st
<1> QED
  BY <1>2 DEF Aimed

LEMMA Replanned ==
    ASSUME TypeInv, NEW some \in SUBSET Seq(Aimed), Replan(some)
    PROVE  /\ steps' \in Seq(Aimed)
           /\ replans' \in 0..MaxReplans
           /\ \/ pc' = "boundary" /\ status' = status
              \/ pc' = "over" /\ status' \in {"failed", "aborted"}
           /\ replans' = 0 => replans = 0 /\ steps' = steps /\ pc' = "over"
<1>1. MaxReplans \in Nat /\ replans \in 0..MaxReplans /\ steps \in Seq(Aimed)
  BY BudgetsAssumption DEF TypeInv, LoopTypes, BudgetTypes
<1>2. CASE replans >= MaxReplans
  BY <1>1, <1>2 DEF Replan, Over
<1>3. CASE ~ (replans >= MaxReplans)
  <2>1. replans' \in {replans + n : n \in 1..2} \cap 0..MaxReplans
    BY <1>3 DEF Replan
  <2>2. replans' \in 0..MaxReplans /\ replans' # 0
    BY <1>1, <2>1
  <2>3. << >> \in Seq(Aimed)
    OBVIOUS
  <2>4. /\ steps' \in some \cup {<< >>, steps}
        /\ \/ pc' = "boundary" /\ status' = status
           \/ pc' = "over" /\ status' \in {"failed", "aborted"}
    BY <1>3 DEF Replan, Over, Again, Go
  <2>5. steps' \in Seq(Aimed)
    BY <1>1, <2>3, <2>4
  <2> QED
    BY <2>2, <2>4, <2>5
<1> QED
  BY <1>2, <1>3

\* The plans asked for.
LEMMA SomePlans ==
    ASSUME TypeInv
    PROVE  Plans(goals) \in SUBSET Seq(Aimed) /\ Plans(goals) \cup {<< >>} \in SUBSET Seq(Aimed)
<1>1. Plans(goals) \subseteq Seq(Aimed)
  <2>1. goals \in SUBSET Goal
    BY DEF TypeInv, TaskTypes
  <2> QED
    BY <2>1, PlansType
<1>2. << >> \in Seq(Aimed)
  OBVIOUS
<1> QED
  BY <1>1, <1>2

LEMMA Bumped ==
    ASSUME TypeInv, NEW ks, Bump(ks)
    PROVE  \A k \in DOMAIN tries' : tries'[k] \in Nat \ {0}
  BY DEF Bump, Count, TypeInv, BudgetTypes

-----------------------------------------------------------------------------
(* People keep the types.                                                   *)

\* What a change of the task has to see to.
LEMMA SaidTypes ==
    ASSUME TypeInv, Said, TaskTypes'
    PROVE  TypeInv'
  BY DEF Said, Go, belief, reached, budgets, check, TypeInv, LoopTypes, BeliefTypes, BudgetTypes,
     SeenTypes

LEMMA ChangesCounted ==
    ASSUME TypeInv, Said
    PROVE  changes' \in 0..MaxChanges /\ changes' = changes + 1 /\ met' = met
  BY BudgetsAssumption DEF Said, TypeInv, TaskTypes

LEMMA PeopleTypes == ASSUME TypeInv, People PROVE TypeInv'
<1>1. CASE Paused
  <2>1. pauses' \in 0..MaxPauses
    BY <1>1, BudgetsAssumption DEF Paused, TypeInv, BudgetTypes
  <2>2. /\ arrived' \in Place \cup {NoPlace}
        /\ holding' \in Object \cup {NoObject, Stranger} /\ holding' # Stranger
    BY <1>1, NonesAssumption DEF Paused, Reconcile, TypeInv, BeliefTypes
  <2>3. steps' \in Seq(Aimed) /\ found' \in Object \cup {NoObject}
    <3>1. CASE found # NoObject /\ steps # << >> /\ st.action = "Pick"
      <4>1. Do("Find", st.target) \in Aimed
        BY <3>1, AtNext DEF Aimed, Step, Do
      <4>2. steps \in Seq(Aimed)
        BY DEF TypeInv, LoopTypes
      <4>3. <<Do("Find", st.target)>> \o steps \in Seq(Aimed)
        BY <4>1, <4>2
      <4> QED
        BY <1>1, <3>1, <4>3 DEF Paused
    <3>2. CASE ~ (found # NoObject /\ steps # << >> /\ st.action = "Pick")
      BY <1>1, <3>2 DEF Paused, TypeInv, LoopTypes, BeliefTypes
    <3> QED
      BY <3>1, <3>2
  <2> QED
    BY <1>1, <2>1, <2>2, <2>3 DEF Paused, task, reached, budgets, check, TypeInv, TaskTypes,
       LoopTypes, BeliefTypes, BudgetTypes, SeenTypes
<1>2. ASSUME NEW g \in Goal, Added(g) PROVE TypeInv'
  <2>1. Said
    BY <1>2 DEF Added
  <2> QED
    BY <1>2, <2>1, SaidTypes, ChangesCounted DEF Added, TypeInv, TaskTypes
<1>3. ASSUME NEW g \in Goal, Dropped(g) PROVE TypeInv'
  <2>1. Said
    BY <1>3 DEF Dropped
  <2>2. \A p \in Place : [g EXCEPT !.to = p] \in Goal
    BY DEF Goal
  <2>3. goals' \subseteq Goal
    BY <1>3, <2>2 DEF Dropped, TypeInv, TaskTypes
  <2> QED
    BY <1>3, <2>1, <2>3, SaidTypes, ChangesCounted DEF Dropped, TypeInv, TaskTypes
<1>4. ASSUME NEW g \in Goal, NewFirst(g) PROVE TypeInv'
  <2>1. Said
    BY <1>4 DEF NewFirst
  <2>2. goals' \subseteq Goal
    <3>1. pc # "over"
      BY <2>1 DEF Said
    <3>2. holding # NoObject /\ arrived # NoPlace => [object |-> holding, to |-> arrived] \in Goal
      BY <3>1 DEF TypeInv, BeliefTypes, Goal
    <3> QED
      BY <1>4, <3>2 DEF NewFirst
  <2>3. stack' \in Seq(SUBSET Goal) /\ Len(stack') = Len(stack) + 1
    BY <1>4 DEF NewFirst, TypeInv, TaskTypes
  <2>4. Len(stack) \in Nat
    BY DEF TypeInv, TaskTypes
  <2> QED
    BY <1>4, <2>1, <2>2, <2>3, <2>4, SaidTypes, ChangesCounted DEF NewFirst, TypeInv, TaskTypes
<1>5. ASSUME NEW g \in Goal, NEW p \in Place, Modified(g, p) PROVE TypeInv'
  <2>1. Said
    BY <1>5 DEF Modified
  <2>2. [g EXCEPT !.to = p] \in Goal
    BY DEF Goal
  <2> QED
    BY <1>5, <2>1, <2>2, SaidTypes, ChangesCounted DEF Modified, TypeInv, TaskTypes
<1> QED
  BY <1>1, <1>2, <1>3, <1>4, <1>5 DEF People

-----------------------------------------------------------------------------
(* The loop keeps the types.                                                *)

\* A step that leaves the tasks, the plan's looks and the people alone.
LEMMA LoopTypesKept ==
    ASSUME TypeInv, UNCHANGED <<goals, stack, owed, met, changes, pauses>>,
           LoopTypes', BeliefTypes', SeenTypes', replans' \in 0..MaxReplans,
           \A k \in DOMAIN tries' : tries'[k] \in Nat \ {0},
           helped' \subseteq {"where", "pick", "move"} \X (Object \cup Place)
    PROVE  TypeInv'
  BY DEF TypeInv, TaskTypes, BudgetTypes

\* What a step does to the belief.
LEMMA EffectTypes ==
    ASSUME TypeInv, steps # << >>, Effect(st), holding # Stranger
    PROVE  /\ arrived' \in Place \cup {NoPlace} /\ found' \in Object \cup {NoObject}
           /\ holding' \in Object \cup {NoObject}
           /\ PlacedBy(st) \in [Object -> Place \cup {NoPlace}]
<1>1. /\ st.action \in {"MoveTo", "Find", "Pick", "Place"} /\ st.goal \in Place \cup {NoPlace}
      /\ IF st.action \in {"MoveTo", "Place"} THEN st.target \in Place ELSE st.target \in Object
  BY AtNext DEF Aimed, Step
<1>2. /\ arrived' \in Place \cup {NoPlace} /\ found' \in Object \cup {NoObject}
      /\ holding' \in Object \cup {NoObject}
  BY <1>1 DEF Effect, TypeInv, BeliefTypes
<1>3. PlacedBy(st) \in [Object -> Place \cup {NoPlace}]
  BY <1>1 DEF PlacedBy, TypeInv, SeenTypes
<1> QED
  BY <1>2, <1>3

\* Where the robot may be seen to stand, and what in its hand.
LEMMA GuardTypes ==
    ASSUME TypeInv, pc # "over"
    PROVE  Here \subseteq Place \cup {NoPlace} /\ Hand \subseteq Object \cup {NoObject}
  BY DEF Here, Hand, TypeInv, BeliefTypes

LEMMA StepTypes ==
    ASSUME TypeInv, \/ StepStarts \/ StepRefused \/ HeldLost \/ StepUnbound
                    \/ StepCancelled \/ StepSucceeds \/ LookMissed
    PROVE  TypeInv'
<1> USE DEF AtStep, Go, Again, Over, task, belief, reached, budgets, check, people, history
<1>1. CASE StepStarts
  BY <1>1, GuardTypes, NonesAssumption, LoopTypesKept
     DEF StepStarts, TypeInv, LoopTypes, BeliefTypes, BudgetTypes, SeenTypes
<1>2. CASE StepRefused
  <2>1. PICK here \in Here, hand \in Hand :
          LET why == Why(st, here, hand)
              key == <<"pre", st.action, st.target, why>>
          IN  /\ arrived' = here /\ holding' = hand
              /\ Bump({key})
              /\ IF Count(key) = 0 THEN Replan(Plans(goals) \cup {<< >>})
                 ELSE Over("failed") /\ UNCHANGED <<steps, replans>>
    BY <1>2 DEF StepRefused
  <2>2. /\ steps' \in Seq(Aimed) /\ replans' \in 0..MaxReplans
        /\ \/ pc' = "boundary" /\ status' = status
           \/ pc' = "over" /\ status' \in {"failed", "aborted"}
    BY <2>1, SomePlans, Replanned DEF TypeInv, LoopTypes, BudgetTypes
  <2>3. \A k \in DOMAIN tries' : tries'[k] \in Nat \ {0}
    BY <2>1, Bumped
  <2> QED
    BY <1>2, <2>1, <2>2, <2>3, GuardTypes, NonesAssumption, LoopTypesKept
       DEF StepRefused, TypeInv, LoopTypes, BeliefTypes, BudgetTypes, SeenTypes
<1>3. CASE HeldLost
  BY <1>3, GuardTypes, LoopTypesKept
     DEF HeldLost, TypeInv, LoopTypes, BeliefTypes, BudgetTypes, SeenTypes
<1>4. CASE StepUnbound
  <2>1. /\ steps' \in Seq(Aimed) /\ replans' \in 0..MaxReplans
        /\ \/ pc' = "boundary" /\ status' = status
           \/ pc' = "over" /\ status' \in {"failed", "aborted"}
    BY <1>4, SomePlans, Replanned DEF StepUnbound
  <2> QED
    BY <1>4, <2>1, GuardTypes, NonesAssumption, LoopTypesKept
       DEF StepUnbound, TypeInv, LoopTypes, BeliefTypes, BudgetTypes, SeenTypes
<1>5. CASE StepCancelled
  <2>1. steps # << >> /\ holding # Stranger
    BY <1>5 DEF StepCancelled, TypeInv, LoopTypes, BeliefTypes
  <2> QED
    BY <1>5, <2>1, EffectTypes, LoopTypesKept
       DEF StepCancelled, TypeInv, LoopTypes, BeliefTypes, BudgetTypes, SeenTypes
<1>6. CASE StepSucceeds
  <2>1. steps # << >> /\ holding # Stranger
    BY <1>6 DEF StepSucceeds, TypeInv, LoopTypes, BeliefTypes
  <2>2. steps' \in Seq(Aimed)
    BY <1>6, <2>1, AtNext DEF StepSucceeds
  <2>3. /\ st.action = "Pick" => st.target \in Object
        /\ st.action = "Find" => st.target \in Object
    BY <2>1, AtNext DEF Aimed
  <2> QED
    BY <1>6, <2>1, <2>2, <2>3, EffectTypes, NonesAssumption, LoopTypesKept
       DEF StepSucceeds, TypeInv, LoopTypes, BeliefTypes, BudgetTypes, SeenTypes
<1>7. CASE LookMissed
  BY <1>7, AtNext, LoopTypesKept
     DEF LookMissed, TypeInv, LoopTypes, BeliefTypes, BudgetTypes, SeenTypes
<1> QED
  BY <1>1, <1>2, <1>3, <1>4, <1>5, <1>6, <1>7

\* A failed step and what it asks for: another plan, or nothing.
LEMMA ReplannedTypes ==
    ASSUME TypeInv, pc # "over", Replan(Plans(goals) \cup {<< >>}),
           UNCHANGED <<task, reached, looked, check, people, history, arrived>>,
           found' \in {found, NoObject}, holding' \in {holding, NoObject},
           \A k \in DOMAIN tries' : tries'[k] \in Nat \ {0},
           helped' \subseteq {"where", "pick", "move"} \X (Object \cup Place)
    PROVE  TypeInv'
<1>1. /\ steps' \in Seq(Aimed) /\ replans' \in 0..MaxReplans
      /\ \/ pc' = "boundary" /\ status' = status
         \/ pc' = "over" /\ status' \in {"failed", "aborted"}
  BY SomePlans, Replanned
<1>2. NoObject # Stranger
  BY NonesAssumption
<1> QED
  BY <1>1, <1>2, LoopTypesKept
     DEF TypeInv, LoopTypes, BeliefTypes, SeenTypes, task, reached, check, people, history

\* It ends the run, or is tried again as the plan is.
LEMMA RetriedTypes ==
    ASSUME TypeInv, pc # "over",
           UNCHANGED <<task, reached, looked, check, people, history, arrived, replans>>,
           steps' \in Seq(Aimed),
           \/ pc' = "boundary" /\ status' = status
           \/ pc' = "over" /\ status' = "failed",
           found' \in {found, NoObject},
           \/ holding' \in {holding, NoObject}
           \/ pc' = "over" /\ holding' = Stranger,
           \A k \in DOMAIN tries' : tries'[k] \in Nat \ {0},
           helped' \subseteq {"where", "pick", "move"} \X (Object \cup Place)
    PROVE  TypeInv'
<1>1. NoObject # Stranger
  BY NonesAssumption
<1> QED
  BY <1>1, LoopTypesKept
     DEF TypeInv, LoopTypes, BeliefTypes, BudgetTypes, SeenTypes, task, reached, check, people,
         history

LEMMA FailureTypes == ASSUME TypeInv, NEW code, FailedStep(code) PROVE TypeInv'
<1> USE DEF Go, Again, Over
<1>1. /\ StepFailed(code) /\ pc = "running"
      /\ UNCHANGED <<task, reached, looked, check, people, history, arrived>>
  BY DEF FailedStep, PolicyStops, PolicyWaits, SameAgain, Refuted, FindMissed, PickedStranger,
         PickMissed, MoveBlocked, PlaceFailed, Recovers, StepFailed
<1>2. /\ steps \in Seq(Aimed) /\ steps # << >>
      /\ helped \subseteq {"where", "pick", "move"} \X (Object \cup Place)
      /\ \A k \in DOMAIN tries : tries[k] \in Nat \ {0}
  BY <1>1 DEF TypeInv, LoopTypes, BudgetTypes
<1>3. st \in Aimed /\ st.target \in Object \cup Place
  BY <1>2, AtNext DEF Step
<1>4. \A ks : Recovers(code, ks) => \A k \in DOMAIN tries' : tries'[k] \in Nat \ {0}
  BY Bumped DEF Recovers
<1>5. CASE PolicyStops(code)
  BY <1>1, <1>2, <1>5, RetriedTypes DEF PolicyStops, budgets
<1>6. CASE PolicyWaits(code)
  BY <1>1, <1>2, <1>6, Bumped, RetriedTypes DEF PolicyWaits
<1>7. CASE SameAgain(code)
  BY <1>1, <1>2, <1>7, RetriedTypes DEF SameAgain, budgets
<1>8. CASE Refuted(code)
  BY <1>1, <1>2, <1>4, <1>8, ReplannedTypes DEF Refuted
<1>9. CASE FindMissed(code)
  <2>1. helped' \subseteq {"where", "pick", "move"} \X (Object \cup Place)
    BY <1>2, <1>3, <1>9 DEF FindMissed
  <2>2. CASE Replan(Plans(goals) \cup {<< >>})
    BY <1>1, <1>4, <1>9, <2>1, <2>2, ReplannedTypes DEF FindMissed
  <2>3. CASE Over("failed") /\ UNCHANGED <<steps, replans>>
    BY <1>1, <1>2, <1>4, <1>9, <2>1, <2>3, RetriedTypes DEF FindMissed
  <2> QED
    BY <1>9, <2>2, <2>3 DEF FindMissed
<1>10. CASE PickedStranger(code)
  BY <1>1, <1>2, <1>4, <1>10, RetriedTypes DEF PickedStranger
<1>11. CASE PickMissed(code)
  <2>1. helped' \subseteq {"where", "pick", "move"} \X (Object \cup Place)
    BY <1>2, <1>3, <1>11 DEF PickMissed
  <2>2. CASE LookAgain /\ UNCHANGED replans
    <3>1. Do("Find", st.target) \in Aimed
      BY <1>3, <1>11 DEF PickMissed, Aimed, Step, Do
    <3>2. <<Do("Find", st.target)>> \o steps \in Seq(Aimed)
      BY <1>2, <3>1
    <3> QED
      BY <1>1, <1>2, <1>4, <1>11, <2>1, <2>2, <3>2, RetriedTypes DEF PickMissed, LookAgain
  <2>3. CASE found' = NoObject /\ Replan(Plans(goals) \cup {<< >>})
    BY <1>1, <1>4, <1>11, <2>1, <2>3, ReplannedTypes DEF PickMissed
  <2>4. CASE Over("failed") /\ UNCHANGED <<steps, found, replans>>
    BY <1>1, <1>2, <1>4, <1>11, <2>1, <2>4, RetriedTypes DEF PickMissed
  <2> QED
    BY <1>11, <2>2, <2>3, <2>4 DEF PickMissed
<1>12. CASE MoveBlocked(code)
  <2>1. helped' \subseteq {"where", "pick", "move"} \X (Object \cup Place)
    BY <1>2, <1>3, <1>12 DEF MoveBlocked
  <2> QED
    BY <1>1, <1>2, <1>4, <1>12, <2>1, RetriedTypes DEF MoveBlocked
<1>13. CASE PlaceFailed(code)
  <2>1. CASE Replan(Plans(goals) \cup {<< >>}) /\ UNCHANGED holding
    BY <1>1, <1>2, <1>4, <1>13, <2>1, ReplannedTypes DEF PlaceFailed
  <2>2. CASE holding' = NoObject /\ Over("failed") /\ UNCHANGED <<steps, replans>>
    BY <1>1, <1>2, <1>4, <1>13, <2>2, RetriedTypes DEF PlaceFailed
  <2> QED
    BY <1>13, <2>1, <2>2 DEF PlaceFailed
<1> QED
  BY <1>5, <1>6, <1>7, <1>8, <1>9, <1>10, <1>11, <1>12, <1>13 DEF FailedStep

LEMMA LookTypes ==
    ASSUME TypeInv, \/ CheckStarts \/ LookAtUntouched \/ PlanShort
                    \/ \E g \in Goal : GoalLooked(g)
    PROVE  TypeInv'
<1> USE DEF AtEnd, Go, Again, Over, task, belief, reached, budgets, check, people, history
<1>1. CASE CheckStarts
  BY <1>1, LoopTypesKept
     DEF CheckStarts, TypeInv, TaskTypes, LoopTypes, BeliefTypes, BudgetTypes, SeenTypes
<1>2. CASE LookAtUntouched
  <2>1. ToLook \in SUBSET Goal
    BY DEF ToLook, TypeInv, TaskTypes
  <2>2. steps' \in Seq(Aimed)
    <3>1. steps' \in Seq(Looking) /\ Looking \subseteq Aimed
      BY <1>2, <2>1, LookStepsType DEF LookAtUntouched, Looking
    <3> QED
      BY <3>1
  <2> QED
    BY <1>2, <2>1, <2>2, LoopTypesKept
       DEF LookAtUntouched, TypeInv, LoopTypes, BeliefTypes, BudgetTypes, SeenTypes
<1>3. CASE PlanShort
  <2>1. /\ steps' \in Seq(Aimed) /\ replans' \in 0..MaxReplans
        /\ \/ pc' = "boundary" /\ status' = status
           \/ pc' = "over" /\ status' \in {"failed", "aborted"}
    BY <1>3, SomePlans, Replanned DEF PlanShort
  <2> QED
    BY <1>3, <2>1, LoopTypesKept
       DEF PlanShort, TypeInv, LoopTypes, BeliefTypes, BudgetTypes, SeenTypes
<1>4. ASSUME NEW g \in Goal, GoalLooked(g) PROVE TypeInv'
  <2>1. g.object \in Object /\ g.to \in Place
    BY DEF Goal
  <2> QED
    BY <1>4, <2>1, LoopTypesKept
       DEF GoalLooked, TypeInv, LoopTypes, BeliefTypes, BudgetTypes, SeenTypes
<1> QED
  BY <1>1, <1>2, <1>3, <1>4

LEMMA EndTypes == ASSUME TypeInv, CheckEnds \/ TakeBack \/ Finished PROVE TypeInv'
<1> USE DEF Go, Again, Over, task, belief, reached, budgets, check, people, history
<1>1. CASE CheckEnds
  <2>1. CASE unmet
    <3>1. /\ steps' \in Seq(Aimed) /\ replans' \in 0..MaxReplans
          /\ \/ pc' = "boundary" /\ status' = status
             \/ pc' = "over" /\ status' \in {"failed", "aborted"}
      BY <1>1, <2>1, SomePlans, Replanned DEF CheckEnds
    <3> QED
      BY <1>1, <2>1, <3>1, LoopTypesKept
         DEF CheckEnds, TypeInv, LoopTypes, BeliefTypes, BudgetTypes, SeenTypes
  <2>2. CASE ~unmet
    BY <1>1, <2>2
       DEF CheckEnds, TypeInv, TaskTypes, LoopTypes, BeliefTypes, BudgetTypes, SeenTypes
  <2> QED
    BY <2>1, <2>2
<1>2. CASE TakeBack
  <2>1. /\ stack' \in Seq(SUBSET Goal) /\ Len(stack') = Len(stack) - 1
        /\ goals' \subseteq Goal /\ Len(stack) \in Nat
    BY <1>2 DEF TakeBack, TypeInv, TaskTypes
  <2>2. met' \subseteq Goal /\ Len(stack') <= changes' /\ changes' = changes
    BY <1>2, <2>1 DEF TakeBack, TypeInv, TaskTypes
  <2>3. TaskTypes'
    BY <1>2, <2>1, <2>2 DEF TakeBack, TypeInv, TaskTypes
  <2>4. /\ arrived' \in Place \cup {NoPlace}
        /\ holding' \in Object \cup {NoObject, Stranger} /\ holding' # Stranger
    BY <1>2, NonesAssumption DEF TakeBack, Reconcile, TypeInv, BeliefTypes
  <2> QED
    BY <1>2, <2>3, <2>4
       DEF TakeBack, TypeInv, LoopTypes, BeliefTypes, BudgetTypes, SeenTypes
<1>3. CASE Finished
  BY <1>3 DEF Finished, TypeInv, TaskTypes, LoopTypes, BeliefTypes, BudgetTypes, SeenTypes
<1> QED
  BY <1>1, <1>2, <1>3

LEMMA RepairTypes == ASSUME TypeInv, Cancelled \/ Repair PROVE TypeInv'
<1> USE DEF Go, Again, Over, task, belief, reached, budgets, check, people, history
<1>1. CASE Cancelled
  BY <1>1, LoopTypesKept DEF Cancelled, TypeInv, LoopTypes, BeliefTypes, BudgetTypes, SeenTypes
<1>2. CASE Repair
  <2>1. /\ steps' \in Seq(Aimed) /\ replans' \in 0..MaxReplans
        /\ \/ pc' = "boundary" /\ status' = status
           \/ pc' = "over" /\ status' \in {"failed", "aborted"}
    <3>1. << >> \in Seq(Aimed) /\ replans \in 0..MaxReplans
      BY DEF TypeInv, BudgetTypes
    <3> QED
      BY <1>2, <3>1, SomePlans, Replanned DEF Repair
  <2> QED
    BY <1>2, <2>1, LoopTypesKept
       DEF Repair, TypeInv, LoopTypes, BeliefTypes, BudgetTypes, SeenTypes
<1> QED
  BY <1>1, <1>2

LEMMA NextTypes == ASSUME TypeInv, [Next]_vars PROVE TypeInv'
<1>1. CASE UNCHANGED vars
  BY <1>1 DEF vars, task, belief, reached, budgets, check, people, history,
     TypeInv, TaskTypes, LoopTypes, BeliefTypes, BudgetTypes, SeenTypes
<1>2. ASSUME NEW code \in {f[3] : f \in Failure}, FailedStep(code) PROVE TypeInv'
  BY <1>2, FailureTypes
<1>3. CASE Loop
  BY <1>2, <1>3, StepTypes, LookTypes, EndTypes, RepairTypes DEF Loop
<1> QED
  BY <1>1, <1>3, PeopleTypes DEF Next

(***************************************************************************)
(* The variables keep their types; replans stay within max_replans,        *)
(* whichever of the callers of `_sage_replan` asked, and no more           *)
(* tasks are suspended than people have changed.                           *)
(***************************************************************************)
THEOREM TypeCorrect == Spec => []TypeOK
  BY InitTypes, NextTypes, TypesHold, PTL DEF Spec

-----------------------------------------------------------------------------
(* A Pick follows its look.                                                 *)

\* The steps of a plan nobody has replanned: a Pick comes right after its Find, but
\* for one that is the next step already.
Paired(s) ==
    \A i \in 2..Len(s) : s[i].action = "Pick" =>
        s[i - 1].action = "Find" /\ s[i - 1].target = s[i].target

\* What such a Pick finds in the belief was seen since the last pause.
NextIsSeen == steps # << >> /\ st.action = "Pick" /\ found = st.target => st.target \in fresh

PickInv == TypeInv /\ (replans = 0 => Paired(steps) /\ NextIsSeen /\ PickLooksFirst)

LEMMA PairedFirst ==
    ASSUME NEW s \in Seq(Aimed), Paired(s), NEW d \in Aimed,
           s # << >> /\ Head(s).action = "Pick" => d.action = "Find" /\ d.target = Head(s).target
    PROVE  Paired(<<d>> \o s)
<1> DEFINE r == <<d>> \o s
<1>1. /\ Len(r) = Len(s) + 1 /\ Len(s) \in Nat
      /\ \A i \in 1..Len(r) : r[i] = IF i = 1 THEN d ELSE s[i - 1]
  OBVIOUS
<1>2. ASSUME NEW i \in 2..Len(r), r[i].action = "Pick"
      PROVE  r[i - 1].action = "Find" /\ r[i - 1].target = r[i].target
  <2>1. r[i] = s[i - 1] /\ i - 1 \in 1..Len(s)
    BY <1>1
  <2>2. CASE i = 2
    <3>1. s # << >> /\ Head(s) = r[i] /\ r[i - 1] = d
      BY <1>1, <2>1, <2>2
    <3> QED
      BY <1>2, <3>1
  <2>3. CASE i # 2
    <3>1. i - 1 \in 2..Len(s) /\ r[i - 1] = s[(i - 1) - 1]
      BY <1>1, <2>1, <2>3
    <3> QED
      BY <1>2, <2>1, <3>1 DEF Paired
  <2> QED
    BY <2>2, <2>3
<1> HIDE DEF r
<1>3. Paired(r)
  BY <1>2 DEF Paired
<1> QED
  BY <1>3 DEF r

LEMMA PairedRest ==
    ASSUME NEW s \in Seq(Aimed), s # << >>, Paired(s)
    PROVE  /\ Paired(Tail(s))
           /\ Tail(s) # << >> /\ Head(Tail(s)).action = "Pick" =>
                  Head(s).action = "Find" /\ Head(s).target = Head(Tail(s)).target
<1> DEFINE r == Tail(s)
<1>1. /\ Len(s) \in Nat /\ Len(r) = Len(s) - 1 /\ r \in Seq(Aimed)
      /\ \A i \in 1..Len(r) : r[i] = s[i + 1]
  OBVIOUS
<1>2. ASSUME NEW i \in 2..Len(r), r[i].action = "Pick"
      PROVE  r[i - 1].action = "Find" /\ r[i - 1].target = r[i].target
  <2>1. r[i] = s[i + 1] /\ r[i - 1] = s[i] /\ i + 1 \in 2..Len(s) /\ (i + 1) - 1 = i
    BY <1>1
  <2> QED
    BY <1>2, <2>1 DEF Paired
<1>3. ASSUME r # << >>, Head(r).action = "Pick"
      PROVE  Head(s).action = "Find" /\ Head(s).target = Head(r).target
  <2>1. 2 \in 2..Len(s) /\ Head(r) = s[2] /\ Head(s) = s[2 - 1]
    BY <1>1, <1>3
  <2> QED
    BY <1>3, <2>1 DEF Paired
<1> HIDE DEF r
<1>4. Paired(r)
  BY <1>2 DEF Paired
<1> QED
  BY <1>3, <1>4 DEF r

\* The plans the gate lets through are such plans.
LEMMA PlansPaired ==
    ASSUME NEW gs \in SUBSET Goal, NEW s \in Plans(gs)
    PROVE  Paired(s)
<1>1. PICK g \in Goal : s \in Bring(g)
  BY DEF Plans
<1> DEFINE move == Do("MoveTo", g.to)
           place == Do("Place", g.to)
           pick == Do("Pick", g.object)
           look == Do("Find", g.object)
           there == <<move, place>>
           take == <<pick>> \o there
           fetch == <<look>> \o take
<1>2. /\ move \in Aimed /\ place \in Aimed /\ pick \in Aimed /\ look \in Aimed
      /\ \A p \in Place : Do("MoveTo", p) \in Aimed
  BY DEF Goal, Aimed, Step, Do
<1>3. /\ move.action = "MoveTo" /\ place.action = "Place"
      /\ pick.action = "Pick" /\ pick.target = g.object
      /\ look.action = "Find" /\ look.target = g.object
  BY DEF Do
<1> HIDE DEF move, place, pick, look
<1>4. there \in Seq(Aimed) /\ there # << >> /\ Head(there) = move /\ Paired(there)
  BY <1>2, <1>3 DEF Paired
<1> HIDE DEF there
<1>5. take \in Seq(Aimed) /\ take # << >> /\ Head(take) = pick
  BY <1>2, <1>4
<1>6. Paired(take)
  BY <1>2, <1>3, <1>4, PairedFirst
<1> HIDE DEF take
<1>7. fetch \in Seq(Aimed) /\ fetch # << >> /\ Head(fetch) = look
  BY <1>2, <1>5
<1>8. Paired(fetch)
  BY <1>2, <1>3, <1>5, <1>6, PairedFirst
<1> HIDE DEF fetch
<1>9. ASSUME NEW p \in Place PROVE Paired(<<Do("MoveTo", p)>> \o fetch)
  BY <1>2, <1>3, <1>7, <1>8, PairedFirst
<1>10. s \in {there, take} \cup {<<Do("MoveTo", p)>> \o fetch : p \in Place}
  BY <1>1 DEF Bring, there, take, fetch, move, place, pick, look
<1> QED
  BY <1>4, <1>6, <1>9, <1>10

LEMMA InitPick == Init => PickInv
<1> SUFFICES ASSUME Init PROVE PickInv
  OBVIOUS
<1>1. TypeInv
  BY InitTypes
<1>2. Paired(steps)
  <2>1. steps = << >> \/ steps \in Plans(Task)
    BY DEF Init
  <2>2. Task \in SUBSET Goal
    BY TaskAssumption DEF Goal
  <2> QED
    BY <2>1, <2>2, PlansPaired DEF Paired
<1>3. NextIsSeen
  <2> SUFFICES ASSUME steps # << >>, st.action = "Pick", found = st.target PROVE FALSE
    BY DEF NextIsSeen
  <2>1. st.target \in Object
    BY <1>1, AtNext DEF Aimed
  <2> QED
    BY <2>1, NonesAssumption DEF Init
<1> QED
  BY <1>1, <1>2, <1>3 DEF Init, PickInv, PickLooksFirst

\* Most steps leave the plan alone or drop it, and see nothing new.
LEMMA PlanLeft ==
    ASSUME PickInv, TypeInv',
           replans' = 0 =>
               /\ replans = 0 /\ steps' \in {steps, << >>}
               /\ fresh' = fresh /\ found' \in {found, NoObject} /\ pc' # "running"
    PROVE  PickInv'
<1> SUFFICES ASSUME replans' = 0 PROVE (Paired(steps) /\ NextIsSeen /\ PickLooksFirst)'
  BY DEF PickInv
<1>1. Paired(steps') /\ PickLooksFirst'
  BY DEF PickInv, Paired, PickLooksFirst
<1>2. CASE steps' = steps
  <2>1. steps # << >> /\ st.action = "Pick" => st.target # NoObject
    BY AtNext, NonesAssumption DEF PickInv, Aimed
  <2> QED
    BY <1>1, <1>2, <2>1 DEF PickInv, NextIsSeen, st
<1>3. CASE steps' = << >>
  BY <1>1, <1>3 DEF NextIsSeen
<1> QED
  BY <1>2, <1>3

LEMMA PausedPick == ASSUME PickInv, Paused, TypeInv' PROVE PickInv'
<1> SUFFICES ASSUME replans' = 0 PROVE (Paired(steps) /\ NextIsSeen /\ PickLooksFirst)'
  BY DEF PickInv
<1>1. TypeInv /\ replans = 0 /\ Paired(steps) /\ NextIsSeen /\ pc' = "boundary"
  BY DEF PickInv, Paused, budgets
<1>2. CASE found # NoObject /\ steps # << >> /\ st.action = "Pick"
  <2>1. steps' = <<Do("Find", st.target)>> \o steps
    BY <1>2 DEF Paused
  <2>2. Do("Find", st.target) \in Aimed /\ steps \in Seq(Aimed)
    BY <1>1, <1>2, AtNext DEF Do, Aimed, Step, TypeInv, LoopTypes
  <2>3. Paired(steps')
    BY <1>1, <1>2, <2>1, <2>2, PairedFirst DEF Do, st
  <2>4. Head(steps').action = "Find"
    BY <2>1, <2>2 DEF Do
  <2> QED
    BY <1>1, <2>3, <2>4 DEF NextIsSeen, PickLooksFirst, st
<1>3. CASE ~ (found # NoObject /\ steps # << >> /\ st.action = "Pick")
  <2>1. steps' = steps /\ found' = found
    BY <1>3 DEF Paused
  <2>2. steps # << >> => st \in Aimed
    BY <1>1, AtNext
  <2>3. NextIsSeen'
    BY <1>3, <2>1, <2>2, NonesAssumption DEF NextIsSeen, st, Aimed
  <2> QED
    BY <1>1, <2>1, <2>3 DEF PickLooksFirst
<1> QED
  BY <1>2, <1>3

LEMMA PeoplePick == ASSUME PickInv, People PROVE PickInv'
<1>1. TypeInv'
  BY PeopleTypes DEF PickInv
<1>2. CASE Paused
  BY <1>1, <1>2, PausedPick
<1>3. ASSUME Said PROVE PickInv'
  BY <1>1, <1>3, PlanLeft DEF Said, Go, budgets, belief
<1> QED
  BY <1>2, <1>3 DEF People, Added, Dropped, NewFirst, Modified

\* A step of the plan: a Pick runs on what was seen, and a Find sees.
LEMMA StepPick ==
    ASSUME PickInv, TypeInv', \/ StepStarts \/ StepRefused \/ HeldLost \/ StepUnbound
                              \/ StepCancelled \/ StepSucceeds \/ LookMissed
    PROVE  PickInv'
<1> USE DEF AtStep, Go, Again, Over, belief, budgets, history
<1>1. TypeInv
  BY DEF PickInv
<1>2. CASE StepStarts
  <2>1. PICK here \in Here, hand \in Hand : Why(st, here, hand) = << >>
    BY <1>2 DEF StepStarts
  <2>2. st.action = "Pick" => found = st.target
    BY <2>1 DEF Why
  <2> QED
    BY <1>1, <1>2, <2>2 DEF StepStarts, PickInv, NextIsSeen, PickLooksFirst, st
<1>3. CASE StepRefused
  <2>1. replans' = 0 => replans = 0 /\ steps' = steps /\ pc' = "over"
    BY <1>1, <1>3, SomePlans, Replanned DEF StepRefused
  <2> QED
    BY <1>3, <2>1, PlanLeft DEF StepRefused
<1>4. CASE HeldLost
  BY <1>4, PlanLeft DEF HeldLost
<1>5. CASE StepUnbound
  <2>1. replans' = 0 => replans = 0 /\ steps' = steps /\ pc' = "over"
    BY <1>1, <1>5, SomePlans, Replanned DEF StepUnbound
  <2> QED
    BY <1>5, <2>1, PlanLeft DEF StepUnbound
<1>6. CASE StepCancelled
  <2>1. /\ st \in Aimed /\ steps' = steps /\ pc' = "over" /\ fresh' = fresh /\ replans' = replans
        /\ st.action = "Pick" => found' \in {found, NoObject}
    BY <1>1, <1>6, AtNext DEF StepCancelled, Effect, TypeInv, LoopTypes
  <2> QED
    BY <2>1, NonesAssumption DEF PickInv, NextIsSeen, PickLooksFirst, Aimed, st
<1>7. CASE StepSucceeds
  <2>1. /\ steps \in Seq(Aimed) /\ steps # << >> /\ st \in Aimed /\ pc' = "boundary"
        /\ replans' = replans /\ fresh \subseteq fresh' /\ Tail(steps) \in Seq(Aimed)
    BY <1>1, <1>7, AtNext DEF StepSucceeds, TypeInv, LoopTypes
  <2>2. CASE steps' = << >>
    BY <2>1, <2>2 DEF PickInv, Paired, NextIsSeen, PickLooksFirst
  <2>3. CASE steps' = Tail(steps)
    <3> SUFFICES ASSUME replans' = 0 PROVE (Paired(steps) /\ NextIsSeen)'
      BY <2>1 DEF PickInv, PickLooksFirst
    <3>1. /\ Paired(steps')
          /\ steps' # << >> /\ Head(steps').action = "Pick" =>
                 st.action = "Find" /\ st.target = Head(steps').target
      BY <2>1, <2>3, PairedRest DEF PickInv, st
    <3>2. st.action = "Find" => st.target \in fresh'
      BY <1>7 DEF StepSucceeds
    <3> QED
      BY <3>1, <3>2 DEF NextIsSeen, st
  <2> QED
    BY <1>7, <2>2, <2>3 DEF StepSucceeds
<1>8. CASE LookMissed
  <2>1. /\ steps \in Seq(Aimed) /\ steps # << >> /\ pc' = "boundary" /\ replans' = replans
        /\ found' = NoObject /\ steps' = Tail(steps) /\ fresh' = fresh
    BY <1>1, <1>8 DEF LookMissed, TypeInv, LoopTypes
  <2>2. Paired(steps) => Paired(steps')
    BY <2>1, PairedRest
  <2>3. steps' # << >> => st' \in Aimed
    BY <2>1 DEF st
  <2>4. NextIsSeen'
    BY <2>1, <2>3, NonesAssumption DEF NextIsSeen, Aimed
  <2> QED
    BY <2>1, <2>2, <2>4 DEF PickInv, PickLooksFirst
<1> QED
  BY <1>2, <1>3, <1>4, <1>5, <1>6, <1>7, <1>8

LEMMA FailurePick == ASSUME PickInv, TypeInv', NEW code, FailedStep(code) PROVE PickInv'
<1> USE DEF Go, Again, Over, belief, budgets, history
<1>1. TypeInv /\ StepFailed(code) /\ pc = "running" /\ fresh' = fresh
  BY DEF FailedStep, PolicyStops, PolicyWaits, SameAgain, Refuted, FindMissed, PickedStranger,
         PickMissed, MoveBlocked, PlaceFailed, Recovers, StepFailed, PickInv
<1>2. CASE Replan(Plans(goals) \cup {<< >>}) /\ found' \in {found, NoObject}
  <2>1. replans' = 0 => replans = 0 /\ steps' = steps /\ pc' = "over"
    BY <1>1, <1>2, SomePlans, Replanned
  <2> QED
    BY <1>1, <1>2, <2>1, PlanLeft
<1>3. CASE /\ steps' = steps /\ replans' = replans /\ found' \in {found, NoObject}
           /\ pc' \in {"boundary", "over"}
  BY <1>1, <1>3, PlanLeft
<1>4. CASE PickMissed(code) /\ LookAgain /\ UNCHANGED replans
  <2>1. /\ steps' = <<Do("Find", st.target)>> \o steps /\ found' = NoObject
        /\ pc' = "boundary" /\ st.action = "Pick"
    BY <1>4 DEF LookAgain, PickMissed
  <2>2. Do("Find", st.target) \in Aimed /\ steps \in Seq(Aimed) /\ steps # << >>
    BY <1>1, <2>1, AtNext DEF Do, Aimed, Step, TypeInv, LoopTypes
  <2>3. Paired(steps) => Paired(steps')
    BY <2>1, <2>2, PairedFirst DEF Do, st
  <2>4. Head(steps').action = "Find"
    BY <2>1, <2>2 DEF Do
  <2> QED
    BY <1>4, <2>1, <2>3, <2>4 DEF PickInv, NextIsSeen, PickLooksFirst, st
<1>5. CASE PolicyStops(code) \/ PolicyWaits(code) \/ SameAgain(code)
  BY <1>3, <1>5 DEF PolicyStops, PolicyWaits, SameAgain
<1>6. CASE Refuted(code) \/ PlaceFailed(code)
  BY <1>2, <1>3, <1>6 DEF Refuted, PlaceFailed
<1>7. CASE FindMissed(code) \/ PickedStranger(code) \/ MoveBlocked(code)
  BY <1>2, <1>3, <1>7 DEF FindMissed, PickedStranger, MoveBlocked
<1>8. CASE PickMissed(code)
  BY <1>2, <1>3, <1>4, <1>8 DEF PickMissed
<1> QED
  BY <1>5, <1>6, <1>7, <1>8 DEF FailedStep

\* The looks at the goals: nothing is picked on the way.
LEMMA LookPick ==
    ASSUME PickInv, TypeInv', \/ CheckStarts \/ LookAtUntouched \/ PlanShort
                              \/ \E g \in Goal : GoalLooked(g)
    PROVE  PickInv'
<1> USE DEF AtEnd, Go, Again, Over, belief, budgets, history
<1>1. TypeInv
  BY DEF PickInv
<1>2. CASE CheckStarts
  BY <1>2, PlanLeft DEF CheckStarts
<1>3. CASE LookAtUntouched
  <2>1. ToLook \in SUBSET Goal
    BY <1>1 DEF ToLook, TypeInv, TaskTypes
  <2>2. steps' \in Seq(Looking)
    BY <1>3, <2>1, LookStepsType DEF LookAtUntouched
  <2>3. \A i \in 1..Len(steps') : steps'[i].action # "Pick"
    BY <2>2 DEF Looking
  <2>4. Paired(steps')
    BY <2>2, <2>3 DEF Paired
  <2>5. steps' # << >> => st'.action # "Pick"
    BY <2>2, <2>3 DEF st
  <2> QED
    BY <1>3, <2>4, <2>5 DEF LookAtUntouched, PickInv, NextIsSeen, PickLooksFirst
<1>4. CASE PlanShort
  <2>1. replans' = 0 => replans = 0 /\ steps' = steps /\ pc' = "over"
    BY <1>1, <1>4, SomePlans, Replanned DEF PlanShort
  <2> QED
    BY <1>4, <2>1, PlanLeft DEF PlanShort
<1>5. ASSUME NEW g \in Goal, GoalLooked(g) PROVE PickInv'
  <2>1. /\ steps' = steps /\ replans' = replans /\ fresh \subseteq fresh' /\ pc' # "running"
        /\ found' \in {found, NoObject} \/ found' \in fresh'
    BY <1>5 DEF GoalLooked
  <2>2. steps # << >> => st.target \in Object \/ st.action # "Pick"
    BY <1>1, AtNext DEF Aimed
  <2> QED
    BY <2>1, <2>2, NonesAssumption DEF PickInv, NextIsSeen, PickLooksFirst, st
<1> QED
  BY <1>2, <1>3, <1>4, <1>5

LEMMA NextPick == ASSUME PickInv, [Next]_vars PROVE PickInv'
<1>1. TypeInv /\ TypeInv'
  BY NextTypes DEF PickInv
<1>2. CASE UNCHANGED vars
  BY <1>1, <1>2 DEF vars, belief, budgets, history, PickInv, Paired, NextIsSeen, PickLooksFirst,
     st
<1>3. CASE Cancelled
  BY <1>1, <1>3, PlanLeft DEF Cancelled, Over, belief, budgets, history
<1>4. CASE Repair
  <2>1. replans' = 0 => /\ replans = 0 /\ steps' \in {steps, << >>}
                        /\ pc' \in {"boundary", "over"}
    BY <1>1, <1>4, SomePlans, Replanned DEF Repair, Again, Go
  <2> QED
    BY <1>1, <1>4, <2>1, PlanLeft DEF Repair, belief, history
<1>5. CASE CheckEnds
  <2>1. replans' = 0 => replans = 0 /\ steps' = steps /\ pc' \in {"done", "over"}
    BY <1>1, <1>5, SomePlans, Replanned DEF CheckEnds, Go
  <2> QED
    BY <1>1, <1>5, <2>1, PlanLeft DEF CheckEnds, belief
<1>6. CASE TakeBack \/ Finished
  BY <1>1, <1>6, PlanLeft DEF TakeBack, Finished, Over, Go, belief, budgets, history
<1>7. CASE Loop
  BY <1>1, <1>3, <1>4, <1>5, <1>6, <1>7, StepPick, FailurePick, LookPick DEF Loop
<1> QED
  BY <1>2, <1>7, PeoplePick DEF Next

(***************************************************************************)
(* While nothing was replanned a Pick runs on what was seen since the last *)
(* pause, retries in place, looks at goals and changes included            *)
(* (`_refind_after_pause`).                                                *)
(***************************************************************************)
THEOREM PickSeen == Spec => []PlannedPickLooksFirst
<1>1. PickInv => PlannedPickLooksFirst
  BY DEF PickInv, PlannedPickLooksFirst
<1> QED
  BY <1>1, InitPick, NextPick, PTL DEF Spec

-----------------------------------------------------------------------------
(* The inductive invariant.                                                 *)

\* The suspended tasks, last first.
Suspended == {stack[i] : i \in DOMAIN stack}
StackKept == \E S : stack \in Seq(S)

\* What was accepted and not taken back is a goal of the task, of a suspended one,
\* or held when its task was done: no interruption and no change loses a goal.
NoGoalLost ==
    owed \subseteq goals \cup met \cup UNION Suspended

\* A task counts as done when its goals were found to hold, and a run ends there
\* only in success.
DoneHeld == pc = "done" \/ status = "success" => goals \subseteq met

\* A run has an outcome when it is over.
OverIsFinal == status # "running" <=> pc = "over"

IInv == StackKept /\ NoGoalLost /\ DoneHeld /\ OverIsFinal

-----------------------------------------------------------------------------
LEMMA InitInv == Init => IInv
  BY TaskAssumption DEF Init, IInv, StackKept, Suspended, NoGoalLost, DoneHeld, OverIsFinal, Goal

\* Whatever the planner answers to a request for a new rest of the plan, the loop
\* goes on at a boundary, or the run is over and no success.
LEMMA ReplanEnds ==
    ASSUME NEW some, Replan(some)
    PROVE  \/ pc' = "boundary" /\ status' = status
           \/ pc' = "over" /\ status' \in {"failed", "aborted"}
  BY DEF Replan, Over, Again, Go

\* A step of the loop that leaves the tasks and what held alone.
LEMMA Onward ==
    ASSUME IInv, UNCHANGED <<goals, stack, owed, met>>, pc # "over",
           \/ pc' \notin {"done", "over"} /\ status' = status
           \/ pc' = "over" /\ status' \in {"failed", "aborted"}
    PROVE  IInv'
  BY DEF IInv, StackKept, Suspended, NoGoalLost, DoneHeld, OverIsFinal

-----------------------------------------------------------------------------
(* The task stack.                                                         *)

\* Pushing a task adds it to the suspended ones.
LEMMA Pushed ==
    ASSUME StackKept, stack' = <<goals>> \o stack
    PROVE  StackKept' /\ Suspended' = Suspended \cup {goals}
<1>0. PICK R : stack \in Seq(R)
  BY DEF StackKept
<1> DEFINE S == R \cup {goals}
<1>1. stack \in Seq(S) /\ <<goals>> \in Seq(S)
  BY <1>0
<1>2. /\ stack' \in Seq(S) /\ Len(stack') = Len(stack) + 1
      /\ \A i \in 1..Len(stack') : stack'[i] = IF i = 1 THEN goals ELSE stack[i - 1]
  BY <1>1
<1>3. Suspended' = Suspended \cup {goals}
  <2>1. stack'[1] = goals /\ 1 \in DOMAIN stack'
    BY <1>1, <1>2
  <2>2. ASSUME NEW i \in DOMAIN stack PROVE stack[i] \in Suspended'
    <3>1. i + 1 \in DOMAIN stack' /\ stack'[i + 1] = stack[i]
      BY <1>1, <1>2
    <3> QED
      BY <3>1 DEF Suspended
  <2>3. ASSUME NEW i \in DOMAIN stack' PROVE stack'[i] \in Suspended \cup {goals}
    <3>1. i = 1 \/ (i - 1 \in DOMAIN stack /\ stack'[i] = stack[i - 1])
      BY <1>1, <1>2
    <3> QED
      BY <2>1, <3>1 DEF Suspended
  <2>4. Suspended \cup {goals} \subseteq Suspended'
    BY <2>1, <2>2 DEF Suspended
  <2>5. Suspended' \subseteq Suspended \cup {goals}
    BY <2>3 DEF Suspended
  <2> QED
    BY <2>4, <2>5
<1> QED
  BY <1>2, <1>3 DEF StackKept

\* Popping it leaves all but the one taken back.
LEMMA Popped ==
    ASSUME StackKept, stack # << >>, stack' = Tail(stack)
    PROVE  StackKept' /\ Suspended \subseteq Suspended' \cup {Head(stack)}
<1>1. PICK S : stack \in Seq(S)
  BY DEF StackKept
<1>2. /\ stack' \in Seq(S) /\ Len(stack') = Len(stack) - 1
      /\ \A i \in 1..Len(stack') : stack'[i] = stack[i + 1]
  BY <1>1
<1>3. StackKept'
  BY <1>2 DEF StackKept
<1>4. ASSUME NEW i \in DOMAIN stack, i # 1 PROVE stack[i] \in Suspended'
  <2>1. i - 1 \in DOMAIN stack' /\ stack'[i - 1] = stack[i]
    BY <1>1, <1>2, <1>4
  <2> QED
    BY <2>1 DEF Suspended
<1>5. \A i \in DOMAIN stack : stack[i] \in Suspended' \cup {Head(stack)}
  BY <1>1, <1>4
<1> QED
  BY <1>3, <1>5 DEF Suspended

-----------------------------------------------------------------------------
(* People.                                                                 *)

LEMMA PausedInv == ASSUME IInv, Paused PROVE IInv'
  BY Onward DEF Paused, task

\* A change leaves the task as it should be.
LEMMA Changed ==
    ASSUME IInv, Said, StackKept', NoGoalLost'
    PROVE  IInv'
  BY DEF Said, Go, IInv, DoneHeld, OverIsFinal

LEMMA PeopleInv == ASSUME IInv, People PROVE IInv'
<1>1. CASE Paused
  BY <1>1, PausedInv
<1>2. ASSUME NEW g \in Goal, Added(g) PROVE IInv'
  BY <1>2, Changed DEF Added, Said, IInv, StackKept, Suspended, NoGoalLost
<1>3. ASSUME NEW g \in Goal, Dropped(g) PROVE IInv'
  <2>1. goals \ {g} \subseteq goals'
    BY <1>3 DEF Dropped
  <2> QED
    BY <1>3, <2>1, Changed DEF Dropped, Said, IInv, StackKept, Suspended, NoGoalLost
<1>4. ASSUME NEW g \in Goal, NewFirst(g) PROVE IInv'
  <2>1. StackKept' /\ Suspended' = Suspended \cup {goals}
    BY <1>4, Pushed DEF NewFirst, IInv
  <2> QED
    BY <1>4, <2>1, Changed DEF NewFirst, Said, IInv, NoGoalLost
<1>5. ASSUME NEW g \in Goal, NEW p \in Place, Modified(g, p) PROVE IInv'
  BY <1>5, Changed DEF Modified, Said, IInv, StackKept, Suspended, NoGoalLost
<1> QED
  BY <1>1, <1>2, <1>3, <1>4, <1>5 DEF People
-----------------------------------------------------------------------------
(* The loop.                                                               *)

\* The end of a task, of a suspended one, and of the run.
LEMMA EndInv == ASSUME IInv, CheckEnds \/ TakeBack \/ Finished PROVE IInv'
<1>1. CASE CheckEnds
  <2>1. CASE unmet
    BY <1>1, <2>1, ReplanEnds, Onward DEF CheckEnds, task
  <2>2. CASE ~unmet
    BY <1>1, <2>2 DEF CheckEnds, Go, task, IInv, StackKept, Suspended, NoGoalLost, DoneHeld,
       OverIsFinal
  <2> QED
    BY <2>1, <2>2
<1>2. CASE TakeBack
  <2>1. StackKept' /\ Suspended \subseteq Suspended' \cup {goals'}
    BY <1>2, Popped DEF TakeBack, IInv
  <2>2. goals \subseteq met /\ met \subseteq met'
    BY <1>2 DEF TakeBack, IInv, DoneHeld
  <2>3. NoGoalLost'
    BY <1>2, <2>1, <2>2 DEF TakeBack, IInv, NoGoalLost
  <2> QED
    BY <1>2, <2>1, <2>3 DEF TakeBack, Over, Go, IInv, DoneHeld, OverIsFinal
<1>3. CASE Finished
  BY <1>3 DEF Finished, Over, task, history, IInv, StackKept, Suspended, NoGoalLost, DoneHeld,
     OverIsFinal
<1> QED
  BY <1>1, <1>2, <1>3

\* A step of the plan, up to its end.
LEMMA StepInv ==
    ASSUME IInv, \/ StepStarts \/ StepRefused \/ HeldLost \/ StepUnbound
                 \/ StepCancelled \/ StepSucceeds \/ LookMissed
    PROVE  IInv'
<1> USE DEF AtStep, Go, Again, Over, task, history
<1>1. CASE StepStarts
  BY <1>1, Onward DEF StepStarts
<1>2. CASE StepRefused
  BY <1>2, ReplanEnds, Onward DEF StepRefused
<1>3. CASE HeldLost
  BY <1>3, Onward DEF HeldLost
<1>4. CASE StepUnbound
  BY <1>4, ReplanEnds, Onward DEF StepUnbound
<1>5. CASE StepCancelled
  BY <1>5, Onward DEF StepCancelled
<1>6. CASE StepSucceeds
  BY <1>6, Onward DEF StepSucceeds
<1>7. CASE LookMissed
  BY <1>7, Onward DEF LookMissed
<1> QED
  BY <1>1, <1>2, <1>3, <1>4, <1>5, <1>6, <1>7

\* However a step fails, and whatever is made of it.
LEMMA FailureInv == ASSUME IInv, NEW code, FailedStep(code) PROVE IInv'
<1> USE DEF StepFailed, Recovers, Go, Again, Over, task, history
<1>1. CASE PolicyStops(code)
  BY <1>1, Onward DEF PolicyStops
<1>2. CASE PolicyWaits(code)
  BY <1>2, Onward DEF PolicyWaits
<1>3. CASE SameAgain(code)
  BY <1>3, Onward DEF SameAgain
<1>4. CASE Refuted(code)
  BY <1>4, ReplanEnds, Onward DEF Refuted
<1>5. CASE FindMissed(code)
  BY <1>5, ReplanEnds, Onward DEF FindMissed
<1>6. CASE PickedStranger(code)
  BY <1>6, Onward DEF PickedStranger
<1>7. CASE PickMissed(code)
  BY <1>7, ReplanEnds, Onward DEF PickMissed, LookAgain
<1>8. CASE MoveBlocked(code)
  BY <1>8, Onward DEF MoveBlocked
<1>9. CASE PlaceFailed(code)
  BY <1>9, ReplanEnds, Onward DEF PlaceFailed
<1> QED
  BY <1>1, <1>2, <1>3, <1>4, <1>5, <1>6, <1>7, <1>8, <1>9 DEF FailedStep

\* The end of a plan, and the look at the goals.
LEMMA LookInv ==
    ASSUME IInv, \/ CheckStarts \/ LookAtUntouched \/ PlanShort
                 \/ \E g \in Goal : GoalLooked(g)
    PROVE  IInv'
<1> USE DEF AtEnd, Go, Again, Over, task, history
<1>1. CASE CheckStarts
  BY <1>1, Onward DEF CheckStarts
<1>2. CASE LookAtUntouched
  BY <1>2, Onward DEF LookAtUntouched
<1>3. CASE PlanShort
  BY <1>3, ReplanEnds, Onward DEF PlanShort
<1>4. ASSUME NEW g \in Goal, GoalLooked(g) PROVE IInv'
  BY <1>4, Onward DEF GoalLooked
<1> QED
  BY <1>1, <1>2, <1>3, <1>4

LEMMA LoopInv == ASSUME IInv, Loop PROVE IInv'
<1>1. CASE Cancelled
  BY <1>1, Onward DEF Cancelled, Over, task, history
<1>2. CASE Repair
  BY <1>2, ReplanEnds, Onward DEF Repair, Go, Again, task, history
<1>3. ASSUME NEW code \in {f[3] : f \in Failure}, FailedStep(code) PROVE IInv'
  BY <1>3, FailureInv
<1> QED
  BY <1>1, <1>2, <1>3, StepInv, LookInv, EndInv DEF Loop

LEMMA NextInv == ASSUME IInv, [Next]_vars PROVE IInv'
<1>1. CASE UNCHANGED vars
  BY <1>1 DEF vars, task, history, IInv, StackKept, Suspended, NoGoalLost, DoneHeld, OverIsFinal
<1> QED
  BY <1>1, PeopleInv, LoopInv DEF Next

-----------------------------------------------------------------------------
(***************************************************************************)
(* A run that ends in success, with no task left suspended, has done every *)
(* goal it accepted and nobody took back, however often it was interrupted *)
(* and replanned (`_suspend_for`, `_resume_suspended`, `_goal_edit`).      *)
(***************************************************************************)
THEOREM SuccessIsEarned == Spec => []SuccessEarned
<1>1. IInv => SuccessEarned
  BY DEF IInv, NoGoalLost, DoneHeld, Suspended, SuccessEarned
<1> QED
  BY <1>1, InitInv, NextInv, PTL DEF Spec

\* Nothing is lost on the way there either, and a run that is over stays over.
THEOREM GoalsKept == Spec => [](NoGoalLost /\ OverIsFinal)
<1>1. IInv => NoGoalLost /\ OverIsFinal
  BY DEF IInv
<1> QED
  BY <1>1, InitInv, NextInv, PTL DEF Spec
=============================================================================
