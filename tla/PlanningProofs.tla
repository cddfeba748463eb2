--------------------------- MODULE PlanningProofs ---------------------------
(* Proofs about Planning, for any objects, places, plans and bounds: what    *)
(* is planned was confirmed wherever it may have been misheard or misread;   *)
(* a plan that runs reaches its goals; its repair leaves the calls that are  *)
(* set aside; a search gives up last; and each step of a plan that the belief*)
(* steers acts where the robot is.                                           *)
EXTENDS Planning, FiniteSetTheorems, WellFoundedInduction, TLAPS

IInv == HeardIsConfirmed /\ DoubtsAreConfirmed

-----------------------------------------------------------------------------
(* Numbers and sets of them.                                               *)

\* The order of the naturals, as a set of pairs.
Less == {ss \in Nat \X Nat : ss[1] < ss[2]}

\* Induction over the naturals, from their well-foundedness.
LEMMA Induct ==
    ASSUME NEW S, 0 \in S, \A n \in Nat : n \in S => n + 1 \in S
    PROVE  \A n \in Nat : n \in S
<1> SUFFICES ASSUME Nat \ S # {} PROVE FALSE
  OBVIOUS
<1>0. IsWellFoundedOn(Less, Nat)
  <2>1. OpToRel(<, Nat) = Less
    BY DEF OpToRel, Less
  <2>2. QED
    BY <2>1, NatLessThanWellFounded
<1>1. PICK x \in Nat \ S : \A y \in Nat \ S : <<y, x>> \notin Less
  BY <1>0, WFMin
<1>2. x # 0 /\ x - 1 \in Nat
  BY <1>1
<1>3. x - 1 \notin S
  BY <1>2, (x - 1) + 1 = x
<1>4. <<x - 1, x>> \in Less
  BY <1>2 DEF Less
<1>5. QED
  BY <1>1, <1>2, <1>3, <1>4

\* A set of steps of a plan has a last one.
LEMMA LastThere ==
    ASSUME NEW n \in Nat
    PROVE  \A T \in SUBSET (1..n) : T # {} => \E x \in T : \A y \in T : y <= x
<1> DEFINE Good == {k \in Nat : \A T \in SUBSET (1..k) : T # {} => \E x \in T : \A y \in T : y <= x}
<1>1. 0 \in Good
  <2>1. \A T \in SUBSET (1..0) : T = {}
    OBVIOUS
  <2> QED
    BY <2>1
<1>2. ASSUME NEW k \in Nat, k \in Good PROVE k + 1 \in Good
  <2> SUFFICES ASSUME NEW T \in SUBSET (1..(k + 1)), T # {}
               PROVE  \E x \in T : \A y \in T : y <= x
    OBVIOUS
  <2>1. CASE k + 1 \in T
    BY <2>1
  <2>2. CASE k + 1 \notin T
    <3>1. T \in SUBSET (1..k)
      BY <2>2
    <3> QED
      BY <3>1, <1>2
  <2> QED
    BY <2>1, <2>2
<1> HIDE DEF Good
<1>3. n \in Good
  BY <1>1, <1>2, Induct
<1> QED
  BY <1>3 DEF Good

\* So has it a first.
LEMMA FirstThere ==
    ASSUME NEW T \in SUBSET Nat, T # {}
    PROVE  \E x \in T : \A y \in T : x <= y
<1>0. IsWellFoundedOn(Less, Nat)
  <2>1. OpToRel(<, Nat) = Less
    BY DEF OpToRel, Less
  <2>2. QED
    BY <2>1, NatLessThanWellFounded
<1>1. PICK x \in T : \A y \in T : <<y, x>> \notin Less
  BY <1>0, WFMin
<1>2. \A y \in T : ~(y < x)
  BY <1>1 DEF Less
<1> QED
  BY <1>2

-----------------------------------------------------------------------------
(* The operators the steps are built from.                                 *)

\* What was said is a matter of the dialogue and of what was replaced in it.
LEMMA SaidSame ==
    ASSUME UNCHANGED <<dialogue, replaced>>
    PROVE  /\ Said' = Said
           /\ (Issues(goals))' = IF goals' = {} THEN {}
                                 ELSE (Said \ Asked(goals')) \union (Asked(goals') \ Said)
<1>1. Answered' = Answered
  BY DEF Answered
<1>2. Said' = Said
  BY <1>1 DEF Said
<1>3. (Asked(goals))' = Asked(goals')
  BY DEF Asked
<1> QED
  BY <1>2, <1>3 DEF Issues

\* A question that is asked, or not asked any more, does not lead to the plan.
LEMMA AskNextAsks == ASSUME AskNext PROVE pc' \in {"ask", "failed"}
  BY DEF AskNext

\* The plan follows a read-back at once only when nothing was heard and nothing
\* is in doubt.
LEMMA ReadBackReads ==
    ASSUME NEW doubt, ReadBack(doubt), pc' = "plan"
    PROVE  ~doubt /\ ~(dialogue # << >> /\ heard)
  BY DEF ReadBack

\* Neither does it follow the questions about what is in doubt.
LEMMA AskIssuesAsks ==
    ASSUME NEW doubt, AskIssues(doubt), pc' = "plan"
    PROVE  ~doubt /\ ~(dialogue # << >> /\ heard)
<1>1. CASE doubt /\ ~issueAsked
  BY <1>1, AskNextAsks DEF AskIssues
<1>2. CASE ~(doubt /\ ~issueAsked)
  <2>1. ReadBack(doubt)
    BY <1>2 DEF AskIssues
  <2> QED
    BY <2>1, ReadBackReads
<1> QED
  BY <1>1, <1>2

\* Goals read back are planned for at once only when they raise no doubt and none were heard.
LEMMA GoalReadbackReads ==
    ASSUME NEW gs, GoalReadback(gs), pc' = "plan"
    PROVE  Issues(gs) = {} /\ ~(dialogue # << >> /\ heard)
<1>1. ~(unsure' /\ ~sampled /\ Samples > 0)
  BY DEF GoalReadback
<1>2. AskIssues(unsure')
  BY <1>1 DEF GoalReadback
<1>3. ~unsure' /\ ~(dialogue # << >> /\ heard)
  BY <1>2, AskIssuesAsks
<1>4. unsure' = (Issues(gs) # {})
  BY DEF GoalReadback
<1> QED
  BY <1>3, <1>4

LEMMA RefusesAsks ==
    ASSUME NEW marked, Refuses(marked) PROVE pc' \in {"ask", "failed", "refused"}
  BY AskNextAsks DEF Refuses

\* An understanding plans only what has no issue and was not heard.
LEMMA UnderstoodReads ==
    ASSUME NEW how, NEW reading, Understood(how, reading), pc' = "plan"
    PROVE  dialogue' = dialogue /\ Issues(goals') = {} /\ ~(dialogue # << >> /\ heard)
<1>1. PICK marked \in BOOLEAN, missing \in BOOLEAN :
        LET refused == how = "unsafe"
                        \/ (how = "infeasible" /\ ~(dialogue # << >> /\ goals' # {}))
        IN  CASE refused -> Refuses(marked) /\ UNCHANGED <<confirms, doubts>>
              [] ~refused /\ missing /\ goals' # {} ->
                    pc' = "refused" /\ UNCHANGED <<dialogue, asked, confirms, doubts>>
              [] ~refused /\ ~(missing /\ goals' # {}) ->
                    /\ UNCHANGED dialogue
                    /\ IF goals' = {} \/ Ungrounded(goals') \/ Conflict(goals')
                       THEN AskNext /\ UNCHANGED <<confirms, doubts>>
                       ELSE GoalReadback(goals')
  BY DEF Understood
<1> DEFINE refused == how = "unsafe"
                        \/ (how = "infeasible" /\ ~(dialogue # << >> /\ goals' # {}))
<1>2. CASE refused
  <2>1. Refuses(marked)
    BY <1>1, <1>2
  <2> QED
    BY <2>1, RefusesAsks
<1>3. CASE ~refused /\ missing /\ goals' # {}
  BY <1>1, <1>3
<1>4. CASE ~refused /\ ~(missing /\ goals' # {})
  <2>1. dialogue' = dialogue
    BY <1>1, <1>4
  <2>2. \/ AskNext
        \/ GoalReadback(goals')
    BY <1>1, <1>4
  <2>3. ~AskNext
    BY AskNextAsks
  <2> QED
    BY <2>1, <2>2, <2>3, GoalReadbackReads
<1> HIDE DEF refused
<1> QED
  BY <1>2, <1>3, <1>4

-----------------------------------------------------------------------------
(* The steps.                                                              *)

LEMMA InitConfirmed == Init => IInv
  BY DEF Init, IInv, HeardIsConfirmed, DoubtsAreConfirmed

LEMMA NextConfirmed == IInv /\ [Next]_vars => IInv'
<1> SUFFICES ASSUME IInv, [Next]_vars
             PROVE  IInv'
  OBVIOUS
<1> USE DEF IInv, HeardIsConfirmed, DoubtsAreConfirmed
<1>1. CASE Read
  <2> SUFFICES ASSUME pc' = "plan"
               PROVE  IInv'
    OBVIOUS
  <2>1. PICK how, reading : Understood(how, reading)
    BY <1>1 DEF Read
  <2>2. dialogue' = dialogue /\ Issues(goals') = {} /\ ~(dialogue # << >> /\ heard)
    BY <2>1, UnderstoodReads
  <2>3. heard' = heard /\ replaced' = replaced
    BY <1>1 DEF Read, settings
  <2>4. (Issues(goals))' = {}
    BY <2>2, <2>3, SaidSame DEF Issues
  <2> QED
    BY <2>2, <2>3, <2>4
<1>2. CASE Resampled
  <2> SUFFICES ASSUME pc' = "plan"
               PROVE  IInv'
    OBVIOUS
  <2>1. dialogue' = dialogue /\ heard' = heard /\ replaced' = replaced
    BY <1>2 DEF Resampled, settings
  <2>2. CASE Best # {}
    <3>1. goals' \in Best /\ ReadBack(FALSE)
      BY <1>2, <2>2 DEF Resampled
    <3>2. Issues(goals') = {}
      BY <3>1 DEF Best, Consensus
    <3>3. (Issues(goals))' = {}
      BY <2>1, <3>2, SaidSame DEF Issues
    <3> QED
      BY <2>1, <3>1, <3>3, ReadBackReads
  <2>3. CASE Best = {}
    <3>1. AskIssues(TRUE)
      BY <1>2, <2>3 DEF Resampled
    <3> QED
      BY <3>1, AskIssuesAsks
  <2> QED
    BY <2>2, <2>3
<1>3. CASE Yes
  BY <1>3 DEF Yes, Confirmed
<1>4. CASE Unclear
  BY <1>4, AskNextAsks DEF Unclear, Confirmed
<1>5. CASE BareNo
  BY <1>5, AskNextAsks DEF BareNo, Confirmed
<1>6. CASE Corrects
  BY <1>6 DEF Corrects, Confirmed
<1>7. CASE Cancel \/ CallEndsRun \/ Resample \/ Answer \/ NoAnswer
  BY <1>7 DEF Cancel, CallEndsRun, Resample, Answer, NoAnswer, Ends
<1>8. CASE UNCHANGED vars
  <2>1. UNCHANGED <<pc, goals, agreed, heard, dialogue, replaced>>
    BY <1>8 DEF vars, people, settings
  <2>2. (Issues(goals))' = Issues(goals)
    BY <2>1, SaidSame DEF Issues
  <2> QED
    BY <2>1, <2>2
<1> QED
  BY <1>1, <1>2, <1>3, <1>4, <1>5, <1>6, <1>7, <1>8 DEF Next

(***************************************************************************)
(* Once an answer came through the microphone, only goals the person said  *)
(* yes to are planned (_read_back), whatever the model answers, however    *)
(* many objects, places, questions and samples there are.                  *)
(***************************************************************************)
THEOREM HeardConfirmed == Spec => []HeardIsConfirmed
<1>1. IInv => HeardIsConfirmed
  BY DEF IInv
<1> QED
  BY <1>1, InitConfirmed, NextConfirmed, PTL DEF Spec

(***************************************************************************)
(* Goals that leave out a place that was said, or name one nobody said,    *)
(* are planned only after a yes (_goal_readback): the samples' agreement   *)
(* does not get round it.                                                  *)
(***************************************************************************)
THEOREM DoubtsConfirmed == Spec => []DoubtsAreConfirmed
<1>1. IInv => DoubtsAreConfirmed
  BY DEF IInv
<1> QED
  BY <1>1, InitConfirmed, NextConfirmed, PTL DEF Spec

-----------------------------------------------------------------------------
(* The edits and their reserve (PlanGate).                                 *)

\* A round asks for some of the blocks again; what its calls add up to is a number.
ReserveInv ==
    /\ calls \in Nat /\ base \in Nat
    /\ tasks \in Tasks
    /\ IsFiniteSet(DOMAIN blocks)
    /\ EditsLeaveReserve

LEMMA KeepIsInt == Gate!Keep \in Int
<1> DEFINE a == EditReserve
           b == GateBudget \div 3
<1>1. a \in Nat /\ b \in Int
  BY GateAssumption
<1>2. \E x \in {a, b} : \A y \in {a, b} : x <= y
  BY <1>1
<1>3. Gate!Keep \in {a, b}
  BY <1>2 DEF Gate!Keep, Gate!Min
<1> QED
  BY <1>1, <1>3

LEMMA CallsCounted == ASSUME IsFiniteSet(DOMAIN blocks) PROVE Gate!Calls \in Nat
<1>1. Gate!ToRepair \ Gate!Needless \subseteq DOMAIN blocks
  BY DEF Gate!ToRepair
<1>2. IsFiniteSet(Gate!ToRepair \ Gate!Needless)
  BY <1>1, FS_Subset
<1>3. Gate!Calls = Cardinality(Gate!ToRepair \ Gate!Needless)
  BY DEF Gate!Calls, Gate!Cardinality, Cardinality
<1> QED
  BY <1>2, <1>3, FS_CardinalityType

\* Every plan has blocks like any sequence.
LEMMA BlocksFinite ==
    ASSUME tasks \in Tasks, NEW bs \in Plans(tasks) \union {<< >>}
    PROVE  IsFiniteSet(DOMAIN bs)
<1>1. CASE bs \in Plans(tasks)
  <2>1. DOMAIN bs = 1..Len(bs) /\ Len(bs) \in Nat
    BY <1>1, GateAssumption
  <2> QED
    BY <2>1, FS_Interval
<1>2. CASE bs = << >>
  BY <1>2, FS_EmptySet
<1> QED
  BY <1>1, <1>2

LEMMA InitReserve == Gate!Init => ReserveInv
<1> SUFFICES ASSUME Gate!Init PROVE ReserveInv
  OBVIOUS
<1>1. calls \in Nat /\ base = calls /\ tasks \in Tasks /\ blocks = << >>
  BY GateAssumption DEF Gate!Init
<1>2. IsFiniteSet(DOMAIN blocks)
  BY <1>1, FS_EmptySet
<1>3. EditsLeaveReserve
  BY <1>1 DEF EditsLeaveReserve, Gate!EditsLeaveReserve
<1> QED
  BY <1>1, <1>2, <1>3 DEF ReserveInv

\* The first plan starts the count: none of its calls is an edit's.
LEMMA FirstPlanKeeps ==
    ASSUME ReserveInv, NEW plan, NEW bs \in Plans(tasks) \union {<< >>},
           Gate!FirstPlan(plan, bs), calls' \in Nat
    PROVE  ReserveInv'
<1>1. base' = calls' /\ tasks' = tasks /\ blocks' = bs
  BY DEF Gate!FirstPlan
<1>2. IsFiniteSet(DOMAIN blocks')
  BY <1>1, BlocksFinite DEF ReserveInv
<1>3. EditsLeaveReserve'
  BY <1>1 DEF EditsLeaveReserve, Gate!EditsLeaveReserve, Gate!Keep
<1> QED
  BY <1>1, <1>2, <1>3 DEF ReserveInv

LEMMA NextReserve == ReserveInv /\ [Gate!Next]_(Gate!vars) => ReserveInv'
<1> SUFFICES ASSUME ReserveInv, [Gate!Next]_(Gate!vars) PROVE ReserveInv'
  OBVIOUS
<1> USE DEF EditsLeaveReserve, Gate!EditsLeaveReserve
<1>0. GateBudget \in Nat /\ Gate!Keep \in Int /\ (Gate!Keep)' = Gate!Keep /\ Gate!Calls \in Nat
  BY GateAssumption, KeepIsInt, CallsCounted DEF ReserveInv, Gate!Keep
<1>1. CASE Gate!Compile
  <2>1. Gate!FirstPlan(Gate!Compiled(tasks, world.arrived), << >>) /\ calls' = calls
    BY <1>1 DEF Gate!Compile
  <2> QED
    BY <2>1, FirstPlanKeeps DEF ReserveInv
<1>2. CASE Gate!Generate
  <2>1. calls' \in Nat
    BY <1>2 DEF Gate!Generate, ReserveInv
  <2>2. PICK bs \in Plans(tasks) \union {<< >>} :
          Gate!FirstPlan(Gate!Join(bs), bs) \/ Gate!FirstPlan(Gate!Join(bs), << >>)
    BY <1>2 DEF Gate!Generate
  <2> QED
    BY <2>1, <2>2, FirstPlanKeeps
<1>3. CASE Gate!GenerateFails
  <2>1. calls' \in Nat /\ Gate!FirstPlan(<< >>, << >>)
    BY <1>3 DEF Gate!GenerateFails, ReserveInv
  <2> QED
    BY <2>1, FirstPlanKeeps
<1>4. CASE Gate!EditRound
  <2>1. /\ calls' = calls + Gate!Calls /\ UNCHANGED <<base, tasks, stage>>
        /\ stage = "edit" /\ ~Gate!EditsStop
        /\ calls >= GateBudget => Gate!Calls = 0
    BY <1>4 DEF Gate!EditRound
  <2>2. DOMAIN blocks' = DOMAIN blocks
    BY <1>4 DEF Gate!EditRound
  <2>3. CASE Gate!Calls = 0
    <3>1. calls' = calls
      BY <1>0, <2>1, <2>3 DEF ReserveInv
    <3> QED
      BY <1>0, <2>1, <2>2, <3>1 DEF ReserveInv
  <2>4. CASE Gate!Calls > 0
    <3>0. GateBudget > calls
      BY <1>0, <2>1, <2>4, GateAssumption DEF ReserveInv
    <3>1. ~(GateBudget - calls < Gate!Calls + Gate!Keep)
      BY <2>1, <2>4, <3>0 DEF Gate!EditsStop
    <3>2. GateBudget - calls' >= Gate!Keep
      BY <1>0, <2>1, <3>1 DEF ReserveInv
    <3>3. calls' \in Nat
      BY <1>0, <2>1 DEF ReserveInv
    <3> QED
      BY <1>0, <2>1, <2>2, <3>2, <3>3 DEF ReserveInv
  <2> QED
    BY <1>0, <2>3, <2>4
<1>5. CASE Gate!EditRefused
  <2>1. calls = GateBudget /\ Gate!Calls > 0 /\ ~Gate!EditsStop /\ UNCHANGED <<blocks, calls, base, tasks>>
    BY <1>5 DEF Gate!EditRefused
  <2>2. calls = base
    BY <2>1 DEF Gate!EditsStop
  <2> QED
    BY <1>0, <2>1, <2>2 DEF ReserveInv
<1>6. CASE Gate!EditsEnd
  <2>1. stage = "edit" /\ UNCHANGED <<blocks, calls, base, tasks>>
    BY <1>6 DEF Gate!EditsEnd
  <2> QED
    BY <1>0, <2>1 DEF ReserveInv
<1>7. CASE Gate!Certify
  <2>1. stage' \in {"decide", "refine"} /\ UNCHANGED <<blocks, calls, base, tasks>>
    BY <1>7 DEF Gate!Certify
  <2> QED
    BY <1>0, <2>1 DEF ReserveInv
<1>8. CASE Gate!Refine
  <2>1. stage' = "decide" /\ calls' \in {calls, calls + 1} /\ UNCHANGED <<blocks, base, tasks>>
    BY <1>8 DEF Gate!Refine
  <2> QED
    BY <1>0, <2>1 DEF ReserveInv
<1>9. CASE Gate!Decide
  <2>1. stage' \in {"failed", "execute"} /\ UNCHANGED <<blocks, calls, base, tasks>>
    BY <1>9 DEF Gate!Decide
  <2> QED
    BY <1>0, <2>1 DEF ReserveInv
<1>10. CASE UNCHANGED Gate!vars
  <2>1. UNCHANGED <<blocks, calls, base, tasks, stage>>
    BY <1>10 DEF Gate!vars
  <2> QED
    BY <1>0, <2>1 DEF ReserveInv
<1> QED
  BY <1>1, <1>2, <1>3, <1>4, <1>5, <1>6, <1>7, <1>8, <1>9, <1>10 DEF Gate!Next

(***************************************************************************)
(* The edits of a plan leave the calls set aside for the rest of the run   *)
(* (subgoal_repair.repair_plan): for any planner, checker and budget, a    *)
(* round that would go below the reserve is not begun.                     *)
(***************************************************************************)
THEOREM ReserveKept == Gate!Spec => []EditsLeaveReserve
<1>1. ReserveInv => EditsLeaveReserve
  BY DEF ReserveInv
<1> QED
  BY <1>1, InitReserve, NextReserve, PTL DEF Gate!Spec

-----------------------------------------------------------------------------
(* Giving up comes last (Search).                                          *)

Places == Looking!Places

\* What was seen of a place without the object: all but what was closed then.
Seen(o, p) ==
    /\ <<p, "at">> \in looked[o]
    /\ Looking!Opens(p) /\ p \notin searched[o][p] => <<p, "in">> \in looked[o]

\* Each place that counts as searched was seen as far as it counts.
SearchInv ==
    /\ searched \in [Sought -> [Places -> (SUBSET Places) \union {None}]]
    /\ looked = [o \in Sought |-> looked[o]]
    /\ \A o \in Sought : \A p \in Places : searched[o][p] # None => Seen(o, p)
    /\ status = "missed" => Looking!st.object \in Sought
    /\ GivesUpLast

LEMMA PlacesAre == Places = {Env[i] : i \in DOMAIN Env} /\ None \notin Places
  BY EnvAssumption DEF Places, Looking!Places, Looking!ToSet, ToSet

\* What neither searches nor forgets keeps it.
LEMMA SearchRests ==
    ASSUME SearchInv, UNCHANGED <<searched, looked>>, status' \notin {"missed", "nowhere"}
    PROVE  SearchInv'
<1>1. \A o \in Sought : \A p \in Places : Seen(o, p) => Seen(o, p)'
  BY DEF Seen, Looking!Opens
<1>2. GivesUpLast'
  BY DEF GivesUpLast, Looking!GivesUpLast
<1> QED
  BY <1>1, <1>2 DEF SearchInv, Places, Looking!Places

\* A place that is not searched any more may be forgotten.
LEMMA SearchForgets ==
    ASSUME SearchInv, status' \notin {"missed", "nowhere"},
           searched' \in [Sought -> [Places -> (SUBSET Places) \union {None}]],
           looked' = [o \in Sought |-> looked'[o]],
           \A o \in Sought : \A p \in Places :
              \/ searched'[o][p] = None
              \/ /\ searched'[o][p] = searched[o][p]
                 /\ {<<p, "at">>, <<p, "in">>} \intersect looked[o] \subseteq looked'[o]
    PROVE  SearchInv'
<1>1. \A o \in Sought : \A p \in Places : searched'[o][p] # None => Seen(o, p)'
  <2> SUFFICES ASSUME NEW o \in Sought, NEW p \in Places, searched'[o][p] # None
               PROVE  Seen(o, p)'
    OBVIOUS
  <2>1. Seen(o, p) /\ searched'[o][p] = searched[o][p]
    BY DEF SearchInv
  <2>2. {<<p, "at">>, <<p, "in">>} \intersect looked[o] \subseteq looked'[o]
    OBVIOUS
  <2> QED
    BY <2>1, <2>2 DEF Seen, Looking!Opens
<1>2. GivesUpLast'
  BY DEF GivesUpLast, Looking!GivesUpLast
<1> QED
  BY <1>1, <1>2 DEF SearchInv, Places, Looking!Places

\* The person's word about a place voids the search there.
LEMMA ToldForgets ==
    ASSUME SearchInv, NEW o, NEW p \in Places, Looking!Told(o, p)
    PROVE  SearchInv'
<1>1. /\ searched' = [searched EXCEPT ![o][p] = None]
      /\ looked' = [looked EXCEPT ![o] = @ \ Looking!Spots(p)]
      /\ status' = "lost"
  BY DEF Looking!Told
<1>2. searched' \in [Sought -> [Places -> (SUBSET Places) \union {None}]]
  BY <1>1 DEF SearchInv
<1>3. looked' = [x \in Sought |-> looked'[x]]
  BY <1>1 DEF SearchInv
<1>4. ASSUME NEW x \in Sought, NEW q \in Places
      PROVE  \/ searched'[x][q] = None
             \/ /\ searched'[x][q] = searched[x][q]
                /\ {<<q, "at">>, <<q, "in">>} \intersect looked[x] \subseteq looked'[x]
  <2>1. CASE x = o /\ q = p
    BY <1>1, <2>1 DEF SearchInv
  <2>2. CASE x = o /\ q # p
    BY <1>1, <2>2 DEF SearchInv, Looking!Spots
  <2>3. CASE x # o
    BY <1>1, <2>3 DEF SearchInv
  <2> QED
    BY <2>1, <2>2, <2>3
<1> QED
  BY <1>1, <1>2, <1>3, <1>4, SearchForgets

LEMMA InitSearch == Looking!Init => SearchInv
<1> SUFFICES ASSUME Looking!Init PROVE SearchInv
  OBVIOUS
<1>1. /\ searched = [o \in Sought |-> [p \in Places |-> None]]
      /\ looked = [o \in Sought |-> {}]
      /\ status = "running"
  BY DEF Looking!Init, Places
<1> QED
  BY <1>1 DEF SearchInv, GivesUpLast, Looking!GivesUpLast

\* A place that was looked at is seen, inside too unless it was closed.
LEMMA MissesSees == ASSUME SearchInv, Looking!Misses PROVE SearchInv'
<1>1. PICK o \in Sought :
        /\ Looking!LooksFor(o)
        /\ ~Looking!BelievedOpen
        /\ searched' = [searched EXCEPT ![o][arrived] = Containers[arrived] \ opened]
        /\ looked' = [looked EXCEPT ![o] = @ \cup Looking!InView(arrived)]
        /\ status' = "missed" /\ todo' = todo
  BY DEF Looking!Misses, Looking!MissedHere, Looking!Counted
<1>2. (Looking!st)'.object = o
  BY <1>1 DEF Looking!LooksFor, Looking!st, Looking!Do
<1>3. arrived \in Places => Containers[arrived] \ opened \in SUBSET Places
  BY EnvAssumption DEF Places, Looking!Places, Looking!ToSet, ToSet
<1>4. searched' \in [Sought -> [Places -> (SUBSET Places) \union {None}]]
  BY <1>1, <1>3 DEF SearchInv
<1>5. looked' = [x \in Sought |-> looked'[x]]
  BY <1>1 DEF SearchInv
<1>6. ASSUME NEW x \in Sought, NEW p \in Places, searched'[x][p] # None
      PROVE  Seen(x, p)'
  <2>1. CASE x = o /\ p = arrived
    <3>1. searched'[x][p] = Containers[p] \ opened
      BY <1>1, <2>1 DEF SearchInv
    <3>2. looked'[x] = looked[x] \cup Looking!InView(p)
      BY <1>1, <2>1 DEF SearchInv
    <3>3. <<p, "at">> \in looked'[x]
      BY <3>2 DEF Looking!InView
    <3>4. Looking!Opens(p) /\ p \notin Containers[p] \ opened => p \in Containers[p] \cap opened \cap doubted
      BY <1>1, <2>1 DEF Looking!BelievedOpen, Looking!Opens
    <3>5. Looking!Opens(p) /\ p \notin searched'[x][p] => <<p, "in">> \in looked'[x]
      BY <3>1, <3>2, <3>4 DEF Looking!InView
    <3> QED
      BY <3>3, <3>5 DEF Seen, Looking!Opens
  <2>2. CASE ~(x = o /\ p = arrived)
    <3>1. searched'[x][p] = searched[x][p]
      BY <1>1, <2>2 DEF SearchInv
    <3>2. looked[x] \subseteq looked'[x]
      BY <1>1 DEF SearchInv
    <3>3. Seen(x, p)
      BY <1>6, <3>1 DEF SearchInv
    <3> QED
      BY <3>1, <3>2, <3>3 DEF Seen, Looking!Opens
  <2> QED
    BY <2>1, <2>2
<1>7. GivesUpLast'
  BY <1>1 DEF GivesUpLast, Looking!GivesUpLast
<1> QED
  BY <1>1, <1>2, <1>4, <1>5, <1>6, <1>7 DEF SearchInv, Places, Looking!Places

\* With nowhere left, every place was seen as far as it can be.
LEMMA NowhereLeft ==
    ASSUME SearchInv, NEW o \in Sought, Looking!Left(o, opened) = {}, NEW p \in Places
    PROVE  \/ /\ <<p, "at">> \in looked[o]
              /\ Looking!Opens(p) /\ p \in opened => <<p, "in">> \in looked[o]
           \/ Looking!Opens(p) /\ p \notin opened /\ ~CanOpen
<1>1. PICK i \in DOMAIN Env : Env[i] = p
  BY PlacesAre
<1>2. Looking!IsSearched(o, p, opened) \/ ~Looking!Possible(p, opened)
  BY <1>1 DEF Looking!Left
<1>3. CASE Looking!IsSearched(o, p, opened)
  <2>1. searched[o][p] # None /\ searched[o][p] \cap opened = {}
    BY <1>3 DEF Looking!IsSearched
  <2>2. Seen(o, p)
    BY <2>1 DEF SearchInv
  <2> QED
    BY <2>1, <2>2 DEF Seen
<1>4. CASE ~Looking!Possible(p, opened)
  BY <1>4 DEF Looking!Possible, Looking!Leg
<1> QED
  BY <1>2, <1>3, <1>4

LEMMA RecoversLast == ASSUME SearchInv, Looking!Recovers PROVE SearchInv'
<1> DEFINE o == Looking!st.object
           nowhere == status = "missed" /\ Looking!Nowhere(o, arrived, opened)
           ask == (misses[o] > SearchMax \/ nowhere) /\ askHelp /\ <<"where", o>> \notin helped
           up == IF nowhere THEN "nowhere" ELSE "failed"
<1>1. /\ helped' = IF ask THEN helped \cup {<<"where", o>>} ELSE helped
      /\ UNCHANGED <<todo, arrived, opened, askHelp>>
      /\ \/ \E p \in Places : Looking!Told(o, p)
         \/ /\ status' = IF ask \/ nowhere \/ misses[o] > SearchMax + 1 THEN up ELSE "lost"
            /\ UNCHANGED <<searched, looked>>
  BY DEF Looking!Recovers, Looking!belief, Looking!world, Places
<1>2. CASE \E p \in Places : Looking!Told(o, p)
  BY <1>2, ToldForgets
<1>3. CASE /\ status' = IF ask \/ nowhere \/ misses[o] > SearchMax + 1 THEN up ELSE "lost"
           /\ UNCHANGED <<searched, looked>>
  <2>1. CASE ~nowhere
    <3>1. status' \in {"failed", "lost"}
      BY <1>3, <2>1
    <3> QED
      BY <1>3, <3>1, SearchRests
  <2>2. CASE nowhere
    <3>1. o \in Sought /\ Looking!Left(o, opened) = {}
      BY <2>2 DEF SearchInv, Looking!Nowhere
    <3>2. (askHelp' => <<"where", o>> \in helped') /\ (Looking!st)'.object = o
      BY <1>1, <2>2 DEF Looking!st
    <3>3. status' = "nowhere"
      BY <1>3, <2>2
    <3>4. \A p \in Places : (\/ /\ <<p, "at">> \in looked[o]
                                /\ Looking!Opens(p) /\ p \in opened => <<p, "in">> \in looked[o]
                             \/ Looking!Opens(p) /\ p \notin opened /\ ~CanOpen)
      BY <3>1, NowhereLeft
    <3>5. GivesUpLast'
      BY <1>1, <1>3, <3>2, <3>4 DEF GivesUpLast, Looking!GivesUpLast, Looking!Opens, Places, Looking!Places
    <3>6. \A x \in Sought : \A p \in Places : Seen(x, p) => Seen(x, p)'
      BY <1>3 DEF Seen, Looking!Opens
    <3> QED
      BY <1>3, <3>3, <3>5, <3>6 DEF SearchInv, Places, Looking!Places
  <2> QED
    BY <2>1, <2>2
<1> QED
  BY <1>1, <1>2, <1>3

LEMMA NextSearch == SearchInv /\ [Looking!Next]_(Looking!vars) => SearchInv'
<1> SUFFICES ASSUME SearchInv, [Looking!Next]_(Looking!vars) PROVE SearchInv'
  OBVIOUS
<1> USE DEF Looking!belief, Looking!world, Looking!run
<1>1. CASE Looking!Moves
  <2>1. UNCHANGED <<searched, looked>> /\ status' = "running"
    BY <1>1 DEF Looking!Moves, Looking!NextStep, Looking!Runs
  <2> QED
    BY <2>1, SearchRests
<1>2. CASE Looking!OpensIt
  <2>1. UNCHANGED <<searched, looked>> /\ status' = "running"
    BY <1>2 DEF Looking!OpensIt, Looking!NextStep, Looking!Runs
  <2> QED
    BY <2>1, SearchRests
<1>3. CASE Looking!ClosesIt
  <2>1. UNCHANGED <<searched, looked>> /\ status' = "running"
    BY <1>3 DEF Looking!ClosesIt, Looking!NextStep, Looking!Runs
  <2> QED
    BY <2>1, SearchRests
<1>4. CASE Looking!Handles
  <2>1. /\ searched' = [o \in Sought |-> [searched[o] EXCEPT ![arrived] = None]]
        /\ looked' = [o \in Sought |-> looked[o] \ Looking!Spots(arrived)]
        /\ status' = "running"
    BY <1>4 DEF Looking!Handles, Looking!NextStep, Looking!Runs
  <2>2. searched' \in [Sought -> [Places -> (SUBSET Places) \union {None}]]
    BY <2>1 DEF SearchInv
  <2>3. ASSUME NEW o \in Sought, NEW p \in Places
        PROVE  \/ searched'[o][p] = None
               \/ /\ searched'[o][p] = searched[o][p]
                  /\ {<<p, "at">>, <<p, "in">>} \intersect looked[o] \subseteq looked'[o]
    BY <2>1 DEF SearchInv, Looking!Spots
  <2>4. looked' = [o \in Sought |-> looked'[o]]
    BY <2>1
  <2> QED
    BY <2>1, <2>2, <2>3, <2>4, SearchForgets
<1>5. CASE Looking!Finds
  <2>1. PICK o \in Sought :
          /\ searched' = [searched EXCEPT ![o] = [p \in Places |-> None]]
          /\ looked' = [looked EXCEPT ![o] = {}]
          /\ status' = "running"
    BY <1>5 DEF Looking!Finds, Looking!LooksFor, Places
  <2>2. searched' \in [Sought -> [Places -> (SUBSET Places) \union {None}]]
    BY <2>1 DEF SearchInv
  <2>3. ASSUME NEW x \in Sought, NEW p \in Places
        PROVE  \/ searched'[x][p] = None
               \/ /\ searched'[x][p] = searched[x][p]
                  /\ {<<p, "at">>, <<p, "in">>} \intersect looked[x] \subseteq looked'[x]
    BY <2>1 DEF SearchInv
  <2>4. looked' = [x \in Sought |-> looked'[x]]
    BY <2>1 DEF SearchInv
  <2> QED
    BY <2>1, <2>2, <2>3, <2>4, SearchForgets
<1>6. CASE Looking!Fails \/ Looking!Doubts
  <2>1. UNCHANGED <<searched, looked>> /\ status' = "lost"
    BY <1>6 DEF Looking!Fails, Looking!Doubts
  <2> QED
    BY <2>1, SearchRests
<1>7. CASE Looking!Misses
  BY <1>7, MissesSees
<1>8. CASE Looking!Unsure
  <2>1. UNCHANGED <<searched, looked>> /\ status' = "unsure"
    BY <1>8 DEF Looking!Unsure, Looking!Counted
  <2> QED
    BY <2>1, SearchRests
<1>9. CASE Looking!Recovers
  BY <1>9, RecoversLast
<1>10. CASE Looking!PickTold
  BY <1>10, ToldForgets DEF Looking!PickTold, Places
<1>11. CASE Looking!Replans
  <2>1. UNCHANGED <<searched, looked>> /\ status' \in {"running", "failed"}
    BY <1>11 DEF Looking!Replans
  <2> QED
    BY <2>1, SearchRests
<1>12. CASE UNCHANGED Looking!vars
  <2>1. UNCHANGED <<searched, looked, status, opened, askHelp, helped, todo>>
    BY <1>12 DEF Looking!vars
  <2>2. \A o \in Sought : \A p \in Places : Seen(o, p) => Seen(o, p)'
    BY <2>1 DEF Seen, Looking!Opens
  <2>3. GivesUpLast'
    BY <2>1 DEF SearchInv, GivesUpLast, Looking!GivesUpLast, Looking!st, Looking!Opens
  <2> QED
    BY <2>1, <2>2, <2>3 DEF SearchInv, Places, Looking!Places, Looking!st
<1> QED
  BY <1>1, <1>2, <1>3, <1>4, <1>5, <1>6, <1>7, <1>8, <1>9, <1>10, <1>11, <1>12 DEF Looking!Next

(***************************************************************************)
(* A run says that there is nowhere left to look (_recover_find) only when *)
(* it was at every place it can look at, looked into each that it believes *)
(* open, and asked the person, unless its option ask_help is off: for any  *)
(* places and containers, whatever the planner plans and is steered to,    *)
(* whatever opens, closes, moves and is told in between.                   *)
(***************************************************************************)
THEOREM GivingUpIsLast == Looking!Spec => []GivesUpLast
<1>1. SearchInv => GivesUpLast
  BY DEF SearchInv
<1> QED
  BY <1>1, InitSearch, NextSearch, PTL DEF Looking!Spec

-----------------------------------------------------------------------------
(* Each step of a steered plan acts where the robot then is (Search).       *)

\* A plan is a finite sequence.
IsPlan(s) == \E S : s \in Seq(S)

\* The robot stands at p when n steps of s are done that it begins at `at`.
StandsAt(s, at, n, p) ==
    \/ \E m \in 1..n : /\ s[m].action = "MoveTo" /\ s[m].object = p
                       /\ \A i \in (m + 1)..n : s[i].action # "MoveTo"
    \/ p = at /\ \A i \in 1..n : s[i].action # "MoveTo"

\* Each step acts where the robot then is.
RunsFrom(s, at) ==
    \A i \in 1..Len(s) : s[i].action \in Looking!AtPlace => StandsAt(s, at, i - 1, s[i].object)

\* A plan has a length and its steps are 1..Len.
LEMMA PlanIs ==
    ASSUME NEW s, IsPlan(s)
    PROVE  /\ Len(s) \in Nat /\ DOMAIN s = 1..Len(s)
           /\ \A i, j \in Nat : i >= 1 /\ j <= Len(s) =>
                /\ IsPlan(SubSeq(s, i, j))
                /\ Len(SubSeq(s, i, j)) = IF i <= j THEN j - i + 1 ELSE 0
                /\ \A k \in 1..(j - i + 1) : SubSeq(s, i, j)[k] = s[i + k - 1]
<1>1. PICK S : s \in Seq(S)
  BY DEF IsPlan
<1>2. Len(s) \in Nat /\ DOMAIN s = 1..Len(s)
  BY <1>1
<1>3. ASSUME NEW i \in Nat, NEW j \in Nat, i >= 1, j <= Len(s)
      PROVE  /\ SubSeq(s, i, j) \in Seq(S)
             /\ Len(SubSeq(s, i, j)) = IF i <= j THEN j - i + 1 ELSE 0
             /\ \A k \in 1..(j - i + 1) : SubSeq(s, i, j)[k] = s[i + k - 1]
  BY <1>1, <1>3
<1> QED
  BY <1>2, <1>3 DEF IsPlan

\* Two plans joined are a plan: the steps of the one and then those of the other.
LEMMA JoinIs ==
    ASSUME NEW s, IsPlan(s), NEW t, IsPlan(t)
    PROVE  /\ IsPlan(s \o t) /\ Len(s \o t) = Len(s) + Len(t)
           /\ \A i \in 1..Len(s) : (s \o t)[i] = s[i]
           /\ \A i \in 1..Len(t) : (s \o t)[Len(s) + i] = t[i]
<1>1. PICK S : s \in Seq(S)
  BY DEF IsPlan
<1>2. PICK T : t \in Seq(T)
  BY DEF IsPlan
<1>3. s \in Seq(S \union T) /\ t \in Seq(S \union T)
  BY <1>1, <1>2
<1> QED
  BY <1>3 DEF IsPlan

\* One step is a plan.
LEMMA OneIs == ASSUME NEW x PROVE IsPlan(<<x>>) /\ Len(<<x>>) = 1 /\ <<x>>[1] = x
<1>1. <<x>> \in Seq({x})
  OBVIOUS
<1> QED
  BY <1>1 DEF IsPlan

\* So is no step.
LEMMA NoneIs == IsPlan(<<>>) /\ Len(<<>>) = 0
<1>1. <<>> \in Seq({})
  OBVIOUS
<1> QED
  BY <1>1 DEF IsPlan

\* Where it stands is a matter of the steps done.
LEMMA SameStands ==
    ASSUME NEW s, NEW t, NEW at, NEW n \in Nat, NEW p, StandsAt(s, at, n, p),
           \A i \in 1..n : t[i] = s[i]
    PROVE  StandsAt(t, at, n, p)
<1>1. \A m \in 1..n : \A i \in (m + 1)..n : i \in 1..n
  OBVIOUS
<1> QED
  BY <1>1 DEF StandsAt

\* It stands at one place.
LEMMA StandsOnce ==
    ASSUME NEW s, NEW at, NEW n \in Nat, NEW p, NEW q, StandsAt(s, at, n, p), StandsAt(s, at, n, q)
    PROVE  p = q
  BY DEF StandsAt

\* PosAfter says where.
LEMMA PosAfterStands ==
    ASSUME NEW s, IsPlan(s), NEW at, NEW n \in Nat, n <= Len(s)
    PROVE  StandsAt(s, at, n, Looking!PosAfter(SubSeq(s, 1, n), at))
<1> DEFINE t == SubSeq(s, 1, n)
           moves == {i \in DOMAIN t : t[i].action = "MoveTo"}
<1>1. IsPlan(t) /\ Len(t) = n /\ DOMAIN t = 1..n /\ \A i \in 1..n : t[i] = s[i]
  BY PlanIs
<1> HIDE DEF t
<1>2. CASE moves = {}
  <2>1. Looking!PosAfter(t, at) = at
    BY <1>2 DEF Looking!PosAfter
  <2> QED
    BY <2>1, <1>1, <1>2 DEF StandsAt, t
<1>3. CASE moves # {}
  <2> DEFINE m == CHOOSE i \in moves : \A j \in moves : j <= i
  <2>1. \E i \in moves : \A j \in moves : j <= i
    BY <1>3, <1>1, LastThere
  <2>2. m \in moves /\ \A j \in moves : j <= m
    BY <2>1
  <2>3. Looking!PosAfter(t, at) = t[m].object
    BY <1>3 DEF Looking!PosAfter
  <2> HIDE DEF m
  <2>4. m \in 1..n /\ s[m].action = "MoveTo" /\ s[m].object = Looking!PosAfter(t, at)
    BY <2>2, <2>3, <1>1
  <2>5. ASSUME NEW i \in (m + 1)..n PROVE s[i].action # "MoveTo"
    BY <2>2, <2>4, <1>1
  <2> QED
    BY <2>4, <2>5 DEF StandsAt, t
<1> QED
  BY <1>2, <1>3

\* Sound, for any place to begin at.
LEMMA SoundIs ==
    ASSUME NEW s, IsPlan(s), NEW at
    PROVE  RunsFrom(s, at) <=>
            \A i \in DOMAIN s : s[i].action \in Looking!AtPlace =>
                Looking!PosAfter(SubSeq(s, 1, i - 1), at) = s[i].object
<1>1. DOMAIN s = 1..Len(s) /\ Len(s) \in Nat
  BY PlanIs
<1>2. ASSUME NEW i \in 1..Len(s)
      PROVE  StandsAt(s, at, i - 1, Looking!PosAfter(SubSeq(s, 1, i - 1), at))
  <2>1. i - 1 \in Nat /\ i - 1 <= Len(s)
    BY <1>1
  <2> QED
    BY <2>1, PosAfterStands
<1>3. ASSUME NEW i \in 1..Len(s)
      PROVE  StandsAt(s, at, i - 1, s[i].object) <=>
                Looking!PosAfter(SubSeq(s, 1, i - 1), at) = s[i].object
  <2>1. i - 1 \in Nat
    BY <1>1
  <2> QED
    BY <2>1, <1>2, StandsOnce
<1> QED
  BY <1>1, <1>3 DEF RunsFrom

\* A plan and then another, from where the first one ends.
LEMMA JoinRuns ==
    ASSUME NEW s, IsPlan(s), NEW t, IsPlan(t), NEW at, NEW here, NEW end,
           RunsFrom(s, at), StandsAt(s, at, Len(s), here),
           RunsFrom(t, here), StandsAt(t, here, Len(t), end)
    PROVE  /\ IsPlan(s \o t) /\ RunsFrom(s \o t, at)
           /\ StandsAt(s \o t, at, Len(s \o t), end)
<1> DEFINE u == s \o t
           L == Len(s)
<1>1. /\ IsPlan(u) /\ Len(u) = L + Len(t) /\ L \in Nat /\ Len(t) \in Nat
      /\ \A i \in 1..L : u[i] = s[i]
      /\ \A i \in 1..Len(t) : u[L + i] = t[i]
  BY JoinIs, PlanIs
<1> HIDE DEF u
<1>2. ASSUME NEW n \in 0..L, NEW p, StandsAt(s, at, n, p) PROVE StandsAt(u, at, n, p)
  <2>1. n <= L /\ \A i \in 1..n : u[i] = s[i]
    BY <1>1
  <2> QED
    BY <2>1, <1>2, SameStands
<1>3. ASSUME NEW n \in 0..Len(t), NEW p, StandsAt(t, here, n, p) PROVE StandsAt(u, at, L + n, p)
  <2>1. CASE \E m \in 1..n : /\ t[m].action = "MoveTo" /\ t[m].object = p
                             /\ \A i \in (m + 1)..n : t[i].action # "MoveTo"
    <3>1. PICK m \in 1..n : /\ t[m].action = "MoveTo" /\ t[m].object = p
                            /\ \A i \in (m + 1)..n : t[i].action # "MoveTo"
      BY <2>1
    <3>2. u[L + m] = t[m] /\ L + m \in 1..(L + n)
      BY <1>1, <3>1
    <3>3. ASSUME NEW i \in (L + m + 1)..(L + n) PROVE u[i].action # "MoveTo"
      <4>1. i - L \in (m + 1)..n /\ i - L \in 1..Len(t) /\ L + (i - L) = i
        BY <1>1
      <4> QED
        BY <4>1, <3>1, <1>1
    <3> QED
      BY <3>1, <3>2, <3>3 DEF StandsAt
  <2>2. CASE p = here /\ \A i \in 1..n : t[i].action # "MoveTo"
    <3>1. ASSUME NEW i \in (L + 1)..(L + n) PROVE u[i].action # "MoveTo"
      <4>1. i - L \in 1..n /\ i - L \in 1..Len(t) /\ L + (i - L) = i
        BY <1>1
      <4> QED
        BY <4>1, <2>2, <1>1
    <3>2. StandsAt(u, at, L, p)
      BY <1>2, <1>1, <2>2
    <3> QED
      BY <3>1, <3>2, <1>1 DEF StandsAt
  <2> QED
    BY <1>3, <2>1, <2>2 DEF StandsAt
<1>4. ASSUME NEW i \in 1..Len(u), u[i].action \in Looking!AtPlace
      PROVE  StandsAt(u, at, i - 1, u[i].object)
  <2>1. CASE i <= L
    <3>1. i - 1 \in 0..L /\ i \in 1..L /\ u[i] = s[i]
      BY <2>1, <1>1
    <3>2. StandsAt(s, at, i - 1, u[i].object)
      BY <3>1, <1>4 DEF RunsFrom
    <3> QED
      BY <3>1, <3>2, <1>2
  <2>2. CASE i > L
    <3>1. /\ i - L \in 1..Len(t) /\ L + (i - L) = i /\ (i - L) - 1 \in 0..Len(t)
          /\ L + ((i - L) - 1) = i - 1
      BY <2>2, <1>1
    <3>2. u[i] = t[i - L]
      BY <3>1, <1>1
    <3>3. StandsAt(t, here, (i - L) - 1, u[i].object)
      BY <3>1, <3>2, <1>4 DEF RunsFrom
    <3> QED
      BY <3>1, <3>3, <1>3
  <2> QED
    BY <2>1, <2>2, <1>1
<1>5. StandsAt(u, at, Len(u), end)
  BY <1>3, <1>1
<1> QED
  BY <1>1, <1>4, <1>5 DEF u, RunsFrom

\* The plans of one step, and of none.
LEMMA OneRuns ==
    ASSUME NEW at, NEW a, NEW x, a \in Looking!AtPlace => x = at
    PROVE  LET s == <<Looking!Do(a, x)>>
           IN  /\ IsPlan(s) /\ RunsFrom(s, at)
               /\ StandsAt(s, at, Len(s), IF a = "MoveTo" THEN x ELSE at)
<1> DEFINE s == <<Looking!Do(a, x)>>
<1>1. IsPlan(s) /\ Len(s) = 1 /\ s[1].action = a /\ s[1].object = x
  BY OneIs DEF Looking!Do
<1> HIDE DEF s
<1> QED
  BY <1>1 DEF RunsFrom, StandsAt, Looking!AtPlace, s

\* No step leaves the robot where it is.
LEMMA NoneRuns ==
    ASSUME NEW at
    PROVE  IsPlan(<<>>) /\ RunsFrom(<<>>, at) /\ StandsAt(<<>>, at, Len(<<>>), at)
  BY NoneIs DEF RunsFrom, StandsAt

\* The first steps of a plan.
LEMMA PrefixRuns ==
    ASSUME NEW s, IsPlan(s), NEW at, RunsFrom(s, at), NEW n \in Nat, n <= Len(s)
    PROVE  LET t == SubSeq(s, 1, n)
           IN  /\ IsPlan(t) /\ Len(t) = n /\ RunsFrom(t, at)
               /\ StandsAt(t, at, Len(t), Looking!PosAfter(t, at))
<1> DEFINE t == SubSeq(s, 1, n)
<1>1. IsPlan(t) /\ Len(t) = n /\ \A i \in 1..n : t[i] = s[i]
  BY PlanIs
<1>2. StandsAt(s, at, n, Looking!PosAfter(t, at))
  BY PosAfterStands
<1>3. StandsAt(t, at, n, Looking!PosAfter(t, at))
  <2> HIDE DEF t
  <2> QED
    BY <1>1, <1>2 DEF StandsAt
<1> HIDE DEF t
<1>4. ASSUME NEW i \in 1..n, t[i].action \in Looking!AtPlace
      PROVE  StandsAt(t, at, i - 1, t[i].object)
  <2>1. StandsAt(s, at, i - 1, s[i].object)
    BY <1>1, <1>4 DEF RunsFrom
  <2> QED
    BY <2>1, <1>1 DEF StandsAt
<1> QED
  BY <1>1, <1>3, <1>4 DEF t, RunsFrom

\* A step put in a plan.
LEMMA InsertIs ==
    ASSUME NEW s, IsPlan(s), NEW k \in 1..Len(s), NEW x
    PROVE  LET u == Looking!InsertAt(s, k, x)
           IN  /\ IsPlan(u) /\ Len(u) = Len(s) + 1
               /\ \A i \in 1..(k - 1) : u[i] = s[i]
               /\ u[k] = x
               /\ \A i \in k..Len(s) : u[i + 1] = s[i]
<1> DEFINE a == SubSeq(s, 1, k - 1)
           b == SubSeq(s, k, Len(s))
<1>0. Len(s) \in Nat /\ k \in Nat /\ k - 1 \in Nat
  BY PlanIs
<1>1. IsPlan(a) /\ Len(a) = k - 1 /\ \A i \in 1..(k - 1) : a[i] = s[i]
  <2>1. \A i \in 1..(k - 1) : a[i] = s[1 + i - 1] /\ 1 + i - 1 = i
    BY <1>0, PlanIs
  <2>2. IsPlan(a) /\ Len(a) = IF 1 <= k - 1 THEN (k - 1) - 1 + 1 ELSE 0
    BY <1>0, PlanIs
  <2> HIDE DEF a
  <2> QED
    BY <2>1, <2>2, <1>0
<1>2. /\ IsPlan(b) /\ Len(b) = Len(s) - k + 1
      /\ \A i \in 1..(Len(s) - k + 1) : b[i] = s[k + i - 1]
  <2>1. k >= 1 /\ k <= Len(s) /\ Len(s) <= Len(s)
    BY <1>0
  <2>2. /\ IsPlan(b)
        /\ Len(b) = IF k <= Len(s) THEN Len(s) - k + 1 ELSE 0
        /\ \A i \in 1..(Len(s) - k + 1) : b[i] = s[k + i - 1]
    BY <1>0, <2>1, PlanIs
  <2> HIDE DEF b
  <2> QED
    BY <2>1, <2>2
<1> HIDE DEF a, b
<1>3. IsPlan(<<x>>) /\ Len(<<x>>) = 1 /\ <<x>>[1] = x
  BY OneIs
<1> DEFINE c == a \o <<x>>
<1>4. IsPlan(c) /\ Len(c) = k /\ (\A i \in 1..(k - 1) : c[i] = s[i]) /\ c[k] = x
  <2> DEFINE one == <<x>>
  <2>1. IsPlan(one) /\ Len(one) = 1 /\ one[1] = x
    BY <1>3
  <2> HIDE DEF one
  <2>2. /\ IsPlan(a \o one) /\ Len(a \o one) = Len(a) + Len(one)
        /\ \A i \in 1..Len(a) : (a \o one)[i] = a[i]
        /\ \A i \in 1..Len(one) : (a \o one)[Len(a) + i] = one[i]
    <3>1. IsPlan(a) /\ IsPlan(one)
      BY <2>1, <1>1
    <3> QED
      BY ONLY <3>1, JoinIs
  <2>3. Len(a) + Len(one) = k /\ Len(a) + 1 = k /\ 1 \in 1..Len(one)
    BY <1>0, <1>1, <2>1
  <2>4. (a \o one)[Len(a) + 1] = x
    BY <2>1, <2>2, <2>3
  <2> QED
    BY <2>2, <2>3, <2>4, <1>1 DEF one
<1> HIDE DEF c
<1> DEFINE u == c \o b
<1>5. /\ IsPlan(u) /\ Len(u) = k + Len(b)
      /\ \A i \in 1..k : u[i] = c[i]
      /\ \A i \in 1..Len(b) : u[k + i] = b[i]
  <2>1. /\ IsPlan(u) /\ Len(u) = Len(c) + Len(b)
        /\ \A i \in 1..Len(c) : u[i] = c[i]
        /\ \A i \in 1..Len(b) : u[Len(c) + i] = b[i]
    <3>1. IsPlan(c) /\ IsPlan(b)
      BY <1>4, <1>2
    <3> QED
      BY ONLY <3>1, JoinIs
  <2> HIDE DEF u
  <2> QED
    BY <2>1, <1>4
<1>6. Looking!InsertAt(s, k, x) = u
  BY DEF Looking!InsertAt, u, c, a, b
<1> HIDE DEF u
<1>7. ASSUME NEW i \in k..Len(s) PROVE u[i + 1] = s[i]
  <2>1. i - k + 1 \in 1..Len(b) /\ k + (i - k + 1) = i + 1 /\ i - k + 1 \in 1..(Len(s) - k + 1)
          /\ k + (i - k + 1) - 1 = i
    BY <1>0, <1>2
  <2>2. b[i - k + 1] = s[i]
    BY <2>1, <1>2
  <2> QED
    BY <2>1, <2>2, <1>5
<1> QED
  BY <1>0, <1>2, <1>4, <1>5, <1>6, <1>7


\* What is left of a plan, after other steps that end elsewhere: the place it was at
\* is restored, and each step acts where the robot then is.
LEMMA RestoredRuns ==
    ASSUME NEW s, IsPlan(s), NEW at, RunsFrom(s, at),
           NEW h, IsPlan(h), NEW here, RunsFrom(h, here),
           NEW j \in Nat, j <= Len(s), NEW now, NEW then,
           StandsAt(s, at, j, then), StandsAt(h, here, Len(h), now)
    PROVE  LET t == Looking!RestorePlace(h \o SubSeq(s, j + 1, Len(s)), Len(h) + 1, now, then)
           IN  IsPlan(t) /\ RunsFrom(t, here)
<1> DEFINE L == Len(h)
           rest == SubSeq(s, j + 1, Len(s))
           t == h \o rest
           Acts(k) == t[k].action \in Looking!AtPlace \cup {"MoveTo"}
           acts == {k \in (L + 1)..Len(t) : Acts(k)}
<1>1. /\ L \in Nat /\ Len(s) \in Nat /\ IsPlan(t) /\ Len(t) = L + Len(s) - j
      /\ \A i \in 1..L : t[i] = h[i]
      /\ \A i \in (L + 1)..Len(t) : t[i] = s[i - L + j]
  <2>1. L \in Nat /\ Len(s) \in Nat
    BY PlanIs
  <2>2. /\ IsPlan(rest) /\ Len(rest) = Len(s) - j
        /\ \A k \in 1..(Len(s) - j) : rest[k] = s[j + k]
    <3>1. j + 1 \in Nat /\ j + 1 >= 1
      OBVIOUS
    <3>2. /\ IsPlan(rest)
          /\ Len(rest) = IF j + 1 <= Len(s) THEN Len(s) - (j + 1) + 1 ELSE 0
          /\ \A k \in 1..(Len(s) - (j + 1) + 1) : rest[k] = s[(j + 1) + k - 1]
      BY <3>1, <2>1, PlanIs
    <3> HIDE DEF rest
    <3> QED
      BY <3>2, <2>1
  <2> HIDE DEF rest
  <2>3. /\ IsPlan(t) /\ Len(t) = L + Len(rest)
        /\ \A i \in 1..L : t[i] = h[i]
        /\ \A i \in 1..Len(rest) : t[L + i] = rest[i]
    BY <2>2, JoinIs
  <2> HIDE DEF t
  <2>4. ASSUME NEW i \in (L + 1)..Len(t) PROVE t[i] = s[i - L + j]
    <3>1. i - L \in 1..Len(rest) /\ L + (i - L) = i /\ j + (i - L) = i - L + j
      BY <2>1, <2>2, <2>3
    <3> QED
      BY <3>1, <2>2, <2>3
  <2> QED
    BY <2>1, <2>2, <2>3, <2>4
<1> HIDE DEF t
<1>2. ASSUME NEW i \in 1..L, t[i].action \in Looking!AtPlace
      PROVE  StandsAt(t, here, i - 1, t[i].object)
  <2>1. StandsAt(h, here, i - 1, t[i].object)
    BY <1>1, <1>2 DEF RunsFrom
  <2>2. \A k \in 1..(i - 1) : t[k] = h[k]
    BY <1>1
  <2>3. i - 1 \in Nat
    BY <1>1
  <2> QED
    BY <2>1, <2>2, <2>3, SameStands
<1>3. StandsAt(t, here, L, now)
  BY <1>1, SameStands
<1> DEFINE Later(i) == \E m \in (L + 1)..(i - 1) :
                         /\ t[m].action = "MoveTo" /\ t[m].object = t[i].object
                         /\ \A k \in (m + 1)..(i - 1) : t[k].action # "MoveTo"
           Still(i) == t[i].object = then /\ \A k \in (L + 1)..(i - 1) : t[k].action # "MoveTo"
<1>4. ASSUME NEW i \in (L + 1)..Len(t), t[i].action \in Looking!AtPlace
      PROVE  Later(i) \/ Still(i)
  <2> DEFINE n == i - L + j
  <2>1. n \in (j + 1)..Len(s) /\ n \in 1..Len(s) /\ t[i] = s[n]
    BY <1>1
  <2>2. StandsAt(s, at, n - 1, t[i].object)
    BY <2>1, <1>4 DEF RunsFrom
  <2>3. \A k \in (j + 1)..(n - 1) : k - j + L \in (L + 1)..(i - 1) /\ t[k - j + L] = s[k]
    BY <1>1
  <2>4. \A k \in (L + 1)..(i - 1) : k - L + j \in (j + 1)..(n - 1) /\ t[k] = s[k - L + j]
    BY <1>1
  <2> HIDE DEF n
  <2>5. CASE \E m \in (j + 1)..(n - 1) : s[m].action = "MoveTo"
    <3>1. PICK m \in 1..(n - 1) : /\ s[m].action = "MoveTo" /\ s[m].object = t[i].object
                                  /\ \A k \in (m + 1)..(n - 1) : s[k].action # "MoveTo"
      BY <2>1, <2>2, <2>5 DEF StandsAt
    <3>2. m \in (j + 1)..(n - 1)
      BY <2>1, <2>5, <3>1
    <3>3. ASSUME NEW k \in (m - j + L + 1)..(i - 1) PROVE t[k].action # "MoveTo"
      <4>1. k \in (L + 1)..(i - 1) /\ k - L + j \in (m + 1)..(n - 1)
        BY <3>2, <2>1, <1>1 DEF n
      <4> QED
        BY <4>1, <3>1, <2>4
    <3> QED
      BY <2>3, <3>1, <3>2, <3>3
  <2>6. CASE \A m \in (j + 1)..(n - 1) : s[m].action # "MoveTo"
    <3>1. StandsAt(s, at, j, t[i].object)
      BY <2>1, <2>2, <2>6 DEF StandsAt
    <3>2. t[i].object = then
      BY <3>1, StandsOnce
    <3> QED
      BY <3>2, <2>4, <2>6
  <2> QED
    BY <2>5, <2>6
<1>5. \A i \in (L + 1)..Len(t) : Later(i) => StandsAt(t, here, i - 1, t[i].object)
  BY <1>1 DEF StandsAt
<1>6. CASE acts = {}
  <2>1. Looking!RestorePlace(t, L + 1, now, then) = t
    BY <1>6 DEF Looking!RestorePlace
  <2>2. ASSUME NEW i \in 1..Len(t), t[i].action \in Looking!AtPlace PROVE i \in 1..L
    <3>1. i \notin acts
      BY <1>6
    <3>2. i \notin (L + 1)..Len(t)
      BY <3>1, <2>2
    <3> QED
      BY <3>2, <1>1
  <2>3. RunsFrom(t, here)
    BY <2>2, <1>2 DEF RunsFrom
  <2> QED
    BY <2>1, <2>3, <1>1 DEF t
<1>7. CASE acts # {}
  <2> DEFINE k == CHOOSE k \in acts : \A i \in acts : k <= i
  <2>1. k \in acts /\ \A i \in acts : k <= i
    <3>1. acts \in SUBSET Nat
      BY <1>1
    <3>2. \E x \in acts : \A y \in acts : x <= y
      <4> HIDE DEF acts
      <4> QED
        BY <1>7, <3>1, FirstThere
    <3> QED
      BY <3>2
  <2> DEFINE goes == t[k].action # "MoveTo" /\ t[k].object # now /\ t[k].object = then
             u == Looking!InsertAt(t, k, Looking!Do("MoveTo", then))
  <2> HIDE DEF k
  <2>2. /\ k \in (L + 1)..Len(t) /\ Acts(k) /\ k \in Nat
        /\ \A i \in (L + 1)..(k - 1) : ~Acts(i)
    <3>1. k \in (L + 1)..Len(t) /\ Acts(k) /\ k \in Nat
      BY <2>1, <1>1
    <3>2. ASSUME NEW i \in (L + 1)..(k - 1) PROVE ~Acts(i)
      <4>1. i \in (L + 1)..Len(t) /\ ~(k <= i)
        BY <3>1, <1>1
      <4> QED
        BY <4>1, <2>1
    <3> QED
      BY <3>1, <3>2
  <2>3. Looking!RestorePlace(t, L + 1, now, then) = IF goes THEN u ELSE t
    <3> HIDE DEF u
    <3> QED
      BY <1>7 DEF Looking!RestorePlace, k, u
  <2> HIDE DEF acts
  <2>4. CASE ~goes
    <3>1. ASSUME NEW i \in (L + 1)..Len(t), t[i].action \in Looking!AtPlace
          PROVE  StandsAt(t, here, i - 1, t[i].object)
      <4>1. CASE Later(i)
        BY <4>1, <1>5
      <4>2. CASE Still(i)
        <5>1. k <= i
          <6>1. i \notin (L + 1)..(k - 1)
            BY <3>1, <2>2
          <6> QED
            BY <6>1, <2>2, <1>1
        <5>2. t[k].action # "MoveTo"
          <6>1. k = i \/ k \in (L + 1)..(i - 1)
            BY <5>1, <2>2, <1>1
          <6> QED
            BY <6>1, <4>2, <3>1 DEF Looking!AtPlace
        <5>3. t[k].object = then
          <6>1. t[k].action \in Looking!AtPlace
            BY <5>2, <2>2
          <6>2. ~Later(k)
            BY <2>2
          <6>3. Still(k)
            BY <6>1, <6>2, <2>2, <1>4
          <6> QED
            BY <6>3
        <5>4. then = now
          BY <5>2, <5>3, <2>4
        <5> QED
          BY <5>4, <4>2, <1>3, <1>1 DEF StandsAt
      <4> QED
        BY <4>1, <4>2, <3>1, <1>4
    <3>2. RunsFrom(t, here)
      <4>1. \A i \in 1..Len(t) : i \in 1..L \/ i \in (L + 1)..Len(t)
        BY <1>1
      <4> QED
        BY <4>1, <3>1, <1>2 DEF RunsFrom
    <3> QED
      BY <3>2, <2>3, <2>4, <1>1 DEF t
  <2>5. CASE goes
    <3>1. /\ IsPlan(u) /\ Len(u) = Len(t) + 1
          /\ \A i \in 1..(k - 1) : u[i] = t[i]
          /\ u[k] = Looking!Do("MoveTo", then)
          /\ \A i \in k..Len(t) : u[i + 1] = t[i]
      <4>1. k \in 1..Len(t)
        BY <1>1, <2>2
      <4>2. /\ IsPlan(u) /\ Len(u) = Len(t) + 1
            /\ \A i \in 1..(k - 1) : u[i] = t[i]
            /\ u[k] = Looking!Do("MoveTo", then)
            /\ \A i \in k..Len(t) : u[i + 1] = t[i]
        <5>1. IsPlan(t)
          BY <1>1
        <5> QED
          BY ONLY <4>1, <5>1, InsertIs
      <4> QED
        BY <4>2
    <3> HIDE DEF u
    <3>2. ASSUME NEW i \in (L + 1)..Len(t), t[i].action \in Looking!AtPlace
          PROVE  i \in k..Len(t) /\ StandsAt(u, here, i, t[i].object)
      <4>1. i >= k
        <5>1. i \notin (L + 1)..(k - 1)
          BY <3>2, <2>2
        <5> QED
          BY <5>1, <2>2, <1>1
      <4>2. CASE Later(i)
        <5>1. PICK m \in (L + 1)..(i - 1) :
                /\ t[m].action = "MoveTo" /\ t[m].object = t[i].object
                /\ \A n \in (m + 1)..(i - 1) : t[n].action # "MoveTo"
          BY <4>2
        <5>2. m > k
          <6>1. m \notin (L + 1)..(k - 1)
            BY <5>1, <2>2
          <6>2. m # k
            BY <5>1, <2>5
          <6> QED
            BY <6>1, <6>2, <2>2, <1>1
        <5>3. u[m + 1] = t[m] /\ m + 1 \in 1..i
          BY <5>2, <3>1, <2>2, <1>1
        <5>4. ASSUME NEW n \in (m + 2)..i PROVE u[n].action # "MoveTo"
          <6>1. n - 1 \in (m + 1)..(i - 1) /\ n - 1 \in k..Len(t) /\ (n - 1) + 1 = n
            BY <5>2, <2>2, <1>1, <3>2
          <6> QED
            BY <6>1, <5>1, <3>1
        <5> QED
          BY <5>1, <5>3, <5>4, <4>1 DEF StandsAt
      <4>3. CASE Still(i)
        <5>1. u[k].action = "MoveTo" /\ u[k].object = t[i].object
          BY <3>1, <4>3 DEF Looking!Do
        <5>2. ASSUME NEW n \in (k + 1)..i PROVE u[n].action # "MoveTo"
          <6>1. n - 1 \in (L + 1)..(i - 1) /\ n - 1 \in k..Len(t) /\ (n - 1) + 1 = n
            BY <2>2, <1>1
          <6> QED
            BY <6>1, <4>3, <3>1
        <5>3. k \in 1..i
          BY <4>1, <2>2, <1>1
        <5> QED
          BY <5>1, <5>2, <5>3 DEF StandsAt
      <4> QED
        BY <4>1, <4>2, <4>3, <3>2, <1>4, <2>2, <1>1
    <3>3. ASSUME NEW i \in 1..Len(u), u[i].action \in Looking!AtPlace
          PROVE  StandsAt(u, here, i - 1, u[i].object)
      <4>1. CASE i > k
        <5>1. i - 1 \in k..Len(t) /\ i - 1 \in (L + 1)..Len(t) /\ (i - 1) + 1 = i
          BY <4>1, <3>1, <2>2, <1>1
        <5>2. u[i] = t[i - 1]
          BY <5>1, <3>1
        <5> QED
          BY <5>1, <5>2, <3>2, <3>3
      <4>2. CASE i = k
        BY <4>2, <3>1, <3>3 DEF Looking!Do, Looking!AtPlace
      <4>3. CASE i < k
        <5>1. i \in 1..(k - 1) /\ i \in 1..Len(t) /\ u[i] = t[i] /\ i - 1 \in Nat
          BY <4>3, <3>1, <2>2, <1>1
        <5>2. i \in 1..L
          <6>1. i \notin (L + 1)..(k - 1)
            BY <5>1, <3>3, <2>2
          <6> QED
            BY <6>1, <5>1, <2>2, <1>1
        <5>3. StandsAt(t, here, i - 1, u[i].object)
          BY <5>1, <5>2, <3>3, <1>2
        <5>4. \A n \in 1..(i - 1) : u[n] = t[n]
          BY <5>1, <3>1, <2>2
        <5> QED
          BY <5>1, <5>3, <5>4, SameStands
      <4> QED
        BY <4>1, <4>2, <4>3, <2>2, <3>1
    <3>4. RunsFrom(u, here)
      BY <3>3 DEF RunsFrom
    <3> QED
      BY <3>1, <3>4, <2>3, <2>5 DEF t
  <2> QED
    BY <2>4, <2>5
<1> QED
  BY <1>6, <1>7

\* The greatest step of a set that holds the last one.
LEMMA MaxIs == ASSUME NEW k \in Nat, NEW T \in SUBSET (1..k), k \in T
    PROVE Looking!Max(T) = k
<1>1. \E x \in T : \A y \in T : x >= y
  OBVIOUS
<1>2. Looking!Max(T) \in T /\ \A y \in T : Looking!Max(T) >= y
  BY <1>1 DEF Looking!Max
<1>3. Looking!Max(T) >= k
  BY <1>2
<1>4. Looking!Max(T) \in 1..k
  BY <1>2
<1> QED
  BY <1>3, <1>4

\* A set of steps has its greatest one.
LEMMA MaxThere == ASSUME NEW n \in Nat, NEW T \in SUBSET (1..n), T # {}
    PROVE Looking!Max(T) \in T /\ \A y \in T : Looking!Max(T) >= y
<1>1. \E x \in T : \A y \in T : x >= y
  BY LastThere
<1> QED
  BY <1>1 DEF Looking!Max

\* The steering of s at each object of a set of the first n of an order: what
\* FoldLeft, in the library's definition, chooses for Steer.
Steered(s, order, n) ==
    CHOOSE f : f = [T \in SUBSET (1..n) |->
        IF T = {} THEN s
        ELSE Looking!SteerOne(f[T \ {Looking!Max(T)}], order[Looking!Max(T)])]

\* `it` folds the steering of one object over the first n of an order.
FoldsSteering(it, s, order, n) ==
    \A T \in SUBSET (1..n) : it[T] =
        IF T = {} THEN s
        ELSE Looking!SteerOne(it[T \ {Looking!Max(T)}], order[Looking!Max(T)])

\* There is such a fold.
LEMMA SteeredThere ==
    ASSUME NEW s, NEW order, NEW n \in Nat
    PROVE  FoldsSteering(Steered(s, order, n), s, order, n)
<1> DEFINE Eq(f, k) == f = [T \in SUBSET (1..k) |->
        IF T = {} THEN s
        ELSE Looking!SteerOne(f[T \ {Looking!Max(T)}], order[Looking!Max(T)])]
           Good == {k \in Nat : \E f : Eq(f, k)}
<1>1. 0 \in Good
  <2>1. Eq([T \in SUBSET (1..0) |-> s], 0)
    OBVIOUS
  <2> QED
    BY <2>1
<1>2. ASSUME NEW k \in Nat, k \in Good PROVE k + 1 \in Good
  <2>1. PICK f : Eq(f, k)
    BY <1>2
  <2> DEFINE g == [T \in SUBSET (1..(k + 1)) |->
                    IF k + 1 \in T THEN Looking!SteerOne(f[T \ {k + 1}], order[k + 1]) ELSE f[T]]
  <2>2. ASSUME NEW T \in SUBSET (1..(k + 1))
        PROVE  g[T] = IF T = {} THEN s
                      ELSE Looking!SteerOne(g[T \ {Looking!Max(T)}], order[Looking!Max(T)])
    <3>1. CASE k + 1 \in T
      <4>1. Looking!Max(T) = k + 1
        BY <3>1, MaxIs, k + 1 \in Nat
      <4>2. g[T \ {k + 1}] = f[T \ {k + 1}]
        OBVIOUS
      <4> QED
        BY <3>1, <4>1, <4>2
    <3>2. CASE k + 1 \notin T
      <4>1. T \in SUBSET (1..k)
        BY <3>2
      <4>2. \A U \in SUBSET T : g[U] = f[U]
        BY <4>1, <3>2
      <4>3. f[T] = IF T = {} THEN s
                   ELSE Looking!SteerOne(f[T \ {Looking!Max(T)}], order[Looking!Max(T)])
        BY <2>1, <4>1
      <4> QED
        BY <4>2, <4>3
    <3> QED
      BY <3>1, <3>2
  <2>3. Eq(g, k + 1)
    BY <2>2
  <2> HIDE DEF Eq
  <2> QED
    BY <2>3
<1>3. n \in Good
  <2> HIDE DEF Good
  <2> QED
    BY <1>1, <1>2, Induct
<1>4. \E f : Eq(f, n)
  BY <1>3
<1> DEFINE it == Steered(s, order, n)
<1>5. Eq(it, n)
  BY <1>4 DEF Steered
<1> HIDE DEF it
<1>6. FoldsSteering(it, s, order, n)
  BY <1>5 DEF FoldsSteering
<1> QED
  BY <1>6 DEF it

\* A leg goes to its place, opens what it must there and looks.
LEMMA LegRuns ==
    ASSUME NEW leg, NEW o, NEW at
    PROVE  LET t == Looking!LegSteps(leg, o, at)
           IN  IsPlan(t) /\ RunsFrom(t, at) /\ StandsAt(t, at, Len(t), leg.place)
<1> DEFINE a == IF leg.place # at THEN <<Looking!Do("MoveTo", leg.place)>> ELSE <<>>
           b == IF leg.open # {} THEN <<Looking!Do("Open", leg.place)>> ELSE <<>>
           c == <<Looking!Do("Find", o)>>
<1>1. IsPlan(a) /\ RunsFrom(a, at) /\ StandsAt(a, at, Len(a), leg.place)
  <2>1. CASE leg.place # at
    <3>1. "MoveTo" \notin Looking!AtPlace
      BY DEF Looking!AtPlace
    <3> QED
      BY <2>1, <3>1, OneRuns
  <2>2. CASE leg.place = at
    BY <2>2, NoneRuns
  <2> QED
    BY <2>1, <2>2
<1>2. IsPlan(b) /\ RunsFrom(b, leg.place) /\ StandsAt(b, leg.place, Len(b), leg.place)
  <2>1. CASE leg.open # {}
    BY <2>1, OneRuns
  <2>2. CASE leg.open = {}
    BY <2>2, NoneRuns
  <2> QED
    BY <2>1, <2>2
<1>3. IsPlan(c) /\ RunsFrom(c, leg.place) /\ StandsAt(c, leg.place, Len(c), leg.place)
  <2>1. "Find" \notin Looking!AtPlace
    BY DEF Looking!AtPlace
  <2> QED
    BY <2>1, OneRuns
<1>4. Looking!LegSteps(leg, o, at) = (a \o b) \o c
  BY DEF Looking!LegSteps
<1> HIDE DEF a, b, c
<1>5. IsPlan(a \o b) /\ RunsFrom(a \o b, at) /\ StandsAt(a \o b, at, Len(a \o b), leg.place)
  BY ONLY <1>1, <1>2, JoinRuns
<1> DEFINE d == a \o b
<1>6. IsPlan(d) /\ RunsFrom(d, at) /\ StandsAt(d, at, Len(d), leg.place)
  BY <1>5
<1> HIDE DEF d
<1>7. IsPlan(d \o c) /\ RunsFrom(d \o c, at) /\ StandsAt(d \o c, at, Len(d \o c), leg.place)
  BY ONLY <1>6, <1>3, JoinRuns
<1> QED
  BY <1>4, <1>7 DEF d

\* Putting a look on the belief's leg.
LEMMA SteerOneRuns ==
    ASSUME NEW s, IsPlan(s), RunsFrom(s, arrived), NEW o
    PROVE  IsPlan(Looking!SteerOne(s, o)) /\ RunsFrom(Looking!SteerOne(s, o), arrived)
<1> DEFINE finds == {j \in DOMAIN s : s[j] = Looking!Do("Find", o)}
           j == CHOOSE j \in finds : \A i \in finds : j <= i
           before == SubSeq(s, 1, j - 1)
           pos == Looking!PosAfter(before, arrived)
           op == opened \cup {s[i].object : i \in {i \in 1..(j - 1) : s[i].action = "Open"}}
           moves == {k \in 1..(j - 1) : /\ s[k].action = "MoveTo"
                                        /\ \A i \in (k + 1)..(j - 1) : s[i].action \in {"Open", "Close"}}
           start == IF moves = {} THEN j ELSE CHOOSE k \in moves : TRUE
           wanted == IF Looking!IsSearched(o, pos, op) \/ Looking!Informed(o, op)
                     THEN Looking!NextLeg(o, arrived, op) ELSE Looking!NoLeg
           leg == IF wanted = Looking!NoLeg /\ pos \in Looking!Places /\ Looking!Opens(pos)
                        /\ pos \notin op /\ CanOpen
                  THEN [place |-> pos, open |-> {pos}] ELSE wanted
           kept == SubSeq(s, 1, start - 1)
           seg == Looking!LegSteps(leg, o, Looking!PosAfter(kept, arrived))
           h == kept \o seg
           put == Looking!RestorePlace(h \o SubSeq(s, j + 1, Len(s)), Len(h) + 1, leg.place, pos)
<1>1. Looking!SteerOne(s, o) =
        IF finds = {} THEN s
        ELSE IF leg = Looking!NoLeg \/ (leg.place = pos /\ leg.open \subseteq op) THEN s ELSE put
  BY DEF Looking!SteerOne
<1>2. CASE finds = {}
  BY <1>1, <1>2
<1>3. CASE finds # {}
  <2>1. DOMAIN s = 1..Len(s) /\ Len(s) \in Nat
    BY PlanIs
  <2>2. j \in finds
    <3>1. finds \in SUBSET Nat
      BY <2>1
    <3>2. \E x \in finds : \A y \in finds : x <= y
      <4> HIDE DEF finds
      <4> QED
        BY <1>3, <3>1, FirstThere
    <3> QED
      BY <3>2
  <2>3. j \in 1..Len(s) /\ s[j].action = "Find"
    BY <2>1, <2>2 DEF Looking!Do
  <2> HIDE DEF j
  <2>4. start \in 1..j
    <3>1. CASE moves = {}
      BY <3>1, <2>3
    <3>2. CASE moves # {}
      <4> DEFINE m == CHOOSE k \in moves : TRUE
      <4>1. m \in moves
        BY <3>2
      <4> HIDE DEF m
      <4>2. m \in 1..(j - 1)
        BY <4>1
      <4> QED
        BY <3>2, <4>2, <2>3 DEF m
    <3> QED
      BY <3>1, <3>2
  <2> HIDE DEF start, leg
  <2>5. StandsAt(s, arrived, j, pos)
    <3>1. j - 1 \in Nat /\ j - 1 <= Len(s)
      BY <2>1, <2>3
    <3>2. StandsAt(s, arrived, j - 1, pos)
      BY <3>1, PosAfterStands
    <3> HIDE DEF pos
    <3> QED
      BY <3>1, <3>2, <2>3 DEF StandsAt
  <2>6. /\ IsPlan(kept) /\ RunsFrom(kept, arrived)
        /\ StandsAt(kept, arrived, Len(kept), Looking!PosAfter(kept, arrived))
    <3>1. start - 1 \in Nat /\ start - 1 <= Len(s)
      BY <2>1, <2>3, <2>4
    <3> QED
      BY <3>1, PrefixRuns
  <2> HIDE DEF kept
  <2>7. /\ IsPlan(seg) /\ RunsFrom(seg, Looking!PosAfter(kept, arrived))
        /\ StandsAt(seg, Looking!PosAfter(kept, arrived), Len(seg), leg.place)
    BY LegRuns
  <2> HIDE DEF seg
  <2>8. IsPlan(h) /\ RunsFrom(h, arrived) /\ StandsAt(h, arrived, Len(h), leg.place)
    BY ONLY <2>6, <2>7, JoinRuns
  <2> HIDE DEF h, pos
  <2>9. IsPlan(put) /\ RunsFrom(put, arrived)
    <3>1. j \in Nat /\ j <= Len(s)
      BY <2>1, <2>3
    <3>2. IsPlan(s) /\ RunsFrom(s, arrived)
      OBVIOUS
    <3> QED
      BY ONLY <3>1, <3>2, <2>5, <2>8, RestoredRuns
  <2> QED
    BY <1>1, <2>9
<1> QED
  BY <1>2, <1>3

\* Steering, in any order of the objects.
LEMMA SteerRuns ==
    ASSUME NEW s, IsPlan(s), RunsFrom(s, arrived),
           NEW order, NEW n \in Nat, DOMAIN order = 1..n
    PROVE  IsPlan(Looking!Steer(s, order)) /\ RunsFrom(Looking!Steer(s, order), arrived)
<1>0. Looking!Steer(s, order) = Steered(s, order, n)[1..n]
  BY DEF Looking!Steer, Looking!FoldLeft, Looking!MapThenFoldSet, Steered
<1>1. FoldsSteering(Steered(s, order, n), s, order, n)
  BY SteeredThere
<1> DEFINE Fine(x) == IsPlan(x) /\ RunsFrom(x, arrived)
           it == Steered(s, order, n)
           Good == {k \in Nat : k <= n => Fine(it[1..k])}
<1> HIDE DEF it
<1>2. \A T \in SUBSET (1..n) : it[T] = IF T = {} THEN s
        ELSE Looking!SteerOne(it[T \ {Looking!Max(T)}], order[Looking!Max(T)])
  BY <1>1 DEF it, FoldsSteering
<1>3. 0 \in Good
  <2>1. 1..0 = {} /\ {} \in SUBSET (1..n)
    OBVIOUS
  <2> QED
    BY <1>2, <2>1
<1>4. ASSUME NEW k \in Nat, k \in Good PROVE k + 1 \in Good
  <2> SUFFICES ASSUME k + 1 <= n PROVE Fine(it[1..(k + 1)])
    OBVIOUS
  <2>0. k + 1 \in Nat /\ k + 1 \in 1..(k + 1) /\ 1..(k + 1) \in SUBSET (1..(k + 1))
    OBVIOUS
  <2>1. Looking!Max(1..(k + 1)) = k + 1
    BY <2>0, MaxIs
  <2>2. (1..(k + 1)) \ {k + 1} = 1..k
    OBVIOUS
  <2>3. 1..(k + 1) \in SUBSET (1..n)
    OBVIOUS
  <2>4. 1..(k + 1) # {}
    BY <2>0
  <2>5. it[1..(k + 1)] = Looking!SteerOne(it[1..k], order[k + 1])
    BY <1>2, <2>1, <2>2, <2>3, <2>4
  <2> QED
    BY <2>5, <1>4, SteerOneRuns
<1> HIDE DEF Good
<1>5. n \in Good
  BY <1>3, <1>4, Induct
<1> QED
  BY <1>0, <1>5 DEF Good, it

\* A look for what was just seen here is left out.
LEMMA SkipRelookRuns ==
    ASSUME NEW s, IsPlan(s), RunsFrom(s, arrived), NEW o
    PROVE  /\ IsPlan(Looking!SkipRelook(s, o, arrived))
           /\ RunsFrom(Looking!SkipRelook(s, o, arrived), arrived)
<1> DEFINE rest == {j \in DOMAIN s : s[j].action \notin {"MoveTo", "Open", "Close"}}
           j == CHOOSE j \in rest : \A i \in rest : j <= i
           to == Looking!PosAfter(SubSeq(s, 1, j - 1), None)
           left == SubSeq(s, j + 1, Len(s))
<1>1. Looking!SkipRelook(s, o, arrived) =
        IF rest = {} THEN s
        ELSE IF to \in {None, arrived} \/ s[j] # Looking!Do("Find", o) THEN s
        ELSE Looking!RestorePlace(left, 1, arrived, to)
  BY DEF Looking!SkipRelook
<1>2. CASE rest = {} \/ to \in {None, arrived} \/ s[j] # Looking!Do("Find", o)
  BY <1>1, <1>2
<1>3. CASE rest # {} /\ to \notin {None, arrived} /\ s[j] = Looking!Do("Find", o)
  <2>1. DOMAIN s = 1..Len(s) /\ Len(s) \in Nat
    BY PlanIs
  <2>2. j \in rest
    <3>1. rest \in SUBSET Nat
      BY <2>1
    <3>2. \E x \in rest : \A y \in rest : x <= y
      <4> HIDE DEF rest
      <4> QED
        BY <1>3, <3>1, FirstThere
    <3> QED
      BY <3>2
  <2>3. j \in 1..Len(s) /\ s[j].action = "Find"
    BY <1>3, <2>1, <2>2 DEF Looking!Do
  <2> HIDE DEF j
  <2>4. StandsAt(s, arrived, j, to)
    <3>1. j - 1 \in Nat /\ j - 1 <= Len(s)
      BY <2>1, <2>3
    <3>2. StandsAt(s, None, j - 1, to)
      BY <3>1, PosAfterStands
    <3>3. to # None
      BY <1>3
    <3> HIDE DEF to
    <3> QED
      BY <3>1, <3>2, <3>3, <2>3 DEF StandsAt
  <2> HIDE DEF to
  <2>5. /\ IsPlan(<<>>) /\ RunsFrom(<<>>, arrived)
        /\ StandsAt(<<>>, arrived, Len(<<>>), arrived) /\ Len(<<>>) + 1 = 1
    BY NoneRuns
  <2>6. j \in Nat /\ j <= Len(s) /\ IsPlan(s) /\ RunsFrom(s, arrived)
    BY <2>1, <2>3
  <2>7. <<>> \o left = left
    <3>1. PICK S : s \in Seq(S)
      BY DEF IsPlan
    <3>2. left \in Seq(S)
      BY <3>1, <2>3
    <3> HIDE DEF left
    <3> QED
      BY <3>2
  <2> DEFINE put(t) == Looking!RestorePlace(t, Len(<<>>) + 1, arrived, to)
  <2>8. IsPlan(put(<<>> \o left)) /\ RunsFrom(put(<<>> \o left), arrived)
    BY ONLY <2>4, <2>5, <2>6, RestoredRuns
  <2> QED
    BY <1>1, <1>3, <2>5, <2>7, <2>8
<1> QED
  BY <1>2, <1>3

\* What is left of the plan runs from where the robot is; finitely many objects are
\* under search, for a look puts one there at the most.
PlanInv ==
    /\ IsPlan(todo) /\ RunsFrom(todo, arrived)
    /\ IsFiniteSet(Looking!UnderSearch)

\* After its first step, the rest of a plan runs from where that leaves the robot.
LEMMA TailRuns ==
    ASSUME NEW s, IsPlan(s), s # <<>>, NEW at, RunsFrom(s, at)
    PROVE  /\ IsPlan(Tail(s))
           /\ RunsFrom(Tail(s), IF Head(s).action = "MoveTo" THEN Head(s).object ELSE at)
<1> DEFINE t == Tail(s)
           to == IF s[1].action = "MoveTo" THEN s[1].object ELSE at
<1>1. PICK S : s \in Seq(S)
  BY DEF IsPlan
<1>2. /\ t \in Seq(S) /\ Len(t) = Len(s) - 1 /\ Len(s) \in Nat /\ Len(s) > 0
      /\ \A i \in 1..(Len(s) - 1) : t[i] = s[i + 1]
      /\ Head(s) = s[1]
  BY <1>1
<1> HIDE DEF t
<1>3. ASSUME NEW i \in 1..Len(t), t[i].action \in Looking!AtPlace
      PROVE  StandsAt(t, to, i - 1, t[i].object)
  <2>1. i + 1 \in 1..Len(s) /\ t[i] = s[i + 1] /\ (i + 1) - 1 = i
    BY <1>2
  <2>2. StandsAt(s, at, i, t[i].object)
    BY <2>1, <1>3 DEF RunsFrom
  <2>3. \A k \in 2..i : k - 1 \in 1..(i - 1) /\ t[k - 1] = s[k]
    BY <1>2
  <2>4. \A k \in 1..(i - 1) : k + 1 \in 2..i /\ t[k] = s[k + 1]
    BY <1>2
  <2>5. CASE \E m \in 2..i : s[m].action = "MoveTo"
    <3>1. PICK m \in 1..i : /\ s[m].action = "MoveTo" /\ s[m].object = t[i].object
                            /\ \A k \in (m + 1)..i : s[k].action # "MoveTo"
      BY <2>2, <2>5 DEF StandsAt
    <3>2. m \in 2..i
      BY <2>5, <3>1
    <3>3. ASSUME NEW k \in ((m - 1) + 1)..(i - 1) PROVE t[k].action # "MoveTo"
      <4>1. k \in 1..(i - 1) /\ k + 1 \in (m + 1)..i
        BY <3>2
      <4> QED
        BY <4>1, <2>4, <3>1
    <3> QED
      BY <3>1, <3>2, <3>3, <2>3 DEF StandsAt
  <2>6. CASE \A m \in 2..i : s[m].action # "MoveTo"
    <3>1. t[i].object = to
      <4>1. \A m \in 1..i : m = 1 \/ m \in 2..i
        OBVIOUS
      <4>2. 1 \in 1..i
        BY <1>2
      <4> QED
        BY <2>2, <2>6, <4>1, <4>2 DEF StandsAt
    <3>2. \A k \in 1..(i - 1) : t[k].action # "MoveTo"
      BY <2>4, <2>6
    <3> QED
      BY <3>1, <3>2 DEF StandsAt
  <2> QED
    BY <2>5, <2>6
<1> QED
  BY <1>2, <1>3 DEF IsPlan, RunsFrom, t

\* The ways to a look, and a look.
LEMMA WaysRun ==
    ASSUME NEW w \in Looking!Ways, NEW at
    PROVE  IsPlan(w) /\ RunsFrom(w, at) /\ \E end : StandsAt(w, at, Len(w), end)
<1> DEFINE Fine(s, from, end) == IsPlan(s) /\ RunsFrom(s, from) /\ StandsAt(s, from, Len(s), end)
<1>1. ASSUME NEW p, NEW from PROVE Fine(Looking!Go(p), from, p)
  <2>1. "MoveTo" \notin Looking!AtPlace
    BY DEF Looking!AtPlace
  <2> QED
    BY <2>1, OneRuns DEF Looking!Go
<1>2. ASSUME NEW p PROVE Fine(<<Looking!Do("Open", p)>>, p, p)
  BY OneRuns
<1>3. ASSUME NEW s, NEW t, NEW from, NEW mid, NEW end, Fine(s, from, mid), Fine(t, mid, end)
      PROVE  Fine(s \o t, from, end)
  BY <1>3, JoinRuns
<1>4. Fine(<<>>, at, at)
  BY NoneRuns
<1> HIDE DEF Fine
<1>5. \A p : Fine(Looking!GoOpen(p), at, p)
  BY <1>1, <1>2, <1>3 DEF Looking!GoOpen
<1>6. \A p, q : Fine(Looking!GoOpen(p) \o Looking!Go(q), at, q)
  BY <1>1, <1>3, <1>5
<1>7. \E end : Fine(w, at, end)
  <2>1. \/ w = <<>>
        \/ \E p \in Looking!Places : w = Looking!Go(p)
        \/ \E p \in Looking!Openable : w = Looking!GoOpen(p)
        \/ \E p \in Looking!Openable, q \in Looking!Places : w = Looking!GoOpen(p) \o Looking!Go(q)
    BY DEF Looking!Ways
  <2> QED
    BY <2>1, <1>1, <1>4, <1>5, <1>6
<1> QED
  BY <1>7 DEF Fine

\* A search begins with such a plan and nothing under search.
LEMMA FirstPlanRuns == Looking!Init => PlanInv
<1> SUFFICES ASSUME Looking!Init PROVE PlanInv
  OBVIOUS
<1>1. PICK w \in Looking!Ways, o \in Sought : todo = w \o Looking!Look(o)
  <2>1. todo \in {v \o Looking!Look(x) : v \in Looking!Ways, x \in Sought}
    BY DEF Looking!Init
  <2> QED
    BY <2>1
<1>2. PICK end : IsPlan(w) /\ RunsFrom(w, arrived) /\ StandsAt(w, arrived, Len(w), end)
  BY WaysRun
<1>3. LET f == Looking!Look(o)
      IN  IsPlan(f) /\ RunsFrom(f, end) /\ StandsAt(f, end, Len(f), end)
  <2>1. "Find" \notin Looking!AtPlace
    BY DEF Looking!AtPlace
  <2> QED
    BY <2>1, OneRuns DEF Looking!Look
<1>4. IsPlan(todo) /\ RunsFrom(todo, arrived)
  BY <1>1, <1>2, <1>3, JoinRuns
<1>5. Looking!UnderSearch = {}
  BY DEF Looking!Init, Looking!UnderSearch
<1> QED
  BY <1>4, <1>5, FS_EmptySet DEF PlanInv

\* The planner's plans are sequences of steps.
LEMMA WrittenIsPlan ==
    ASSUME NEW s \in Looking!Written
    PROVE  IsPlan(s) /\ RunsFrom(s, arrived)
<1>0. PICK w \in Looking!Ways, o \in Sought, t \in Looking!Ends :
        s = (w \o Looking!Look(o)) \o t
  BY DEF Looking!Written
<1>1. PICK x \in Sought : t \in Looking!Then(x)
  BY DEF Looking!Ends
<1>2. IsPlan(w)
  BY WaysRun
<1>3. \A a, y : IsPlan(<<Looking!Do(a, y)>>)
  BY OneIs
<1>4. \A a, b : IsPlan(a) /\ IsPlan(b) => IsPlan(a \o b)
  BY JoinIs
<1>5. IsPlan(t)
  <2>1. \A q : IsPlan(Looking!Go(q))
    BY <1>3 DEF Looking!Go
  <2>2. \A y, q : IsPlan(Looking!Bring(y, q))
    BY <1>3, <1>4, <2>1 DEF Looking!Bring
  <2>3. \A q, y : IsPlan(Looking!Look(y)) /\ IsPlan(Looking!Go(q) \o Looking!Look(y))
    BY <1>3, <1>4, <2>1 DEF Looking!Look
  <2>4. \/ t \in {<<>>} \cup {Looking!Bring(x, q) : q \in Looking!Places}
        \/ t \in {<<Looking!Do("Close", q)>> : q \in Looking!Openable}
        \/ t \in UNION {{Looking!Look(y), Looking!Go(q) \o Looking!Look(y)} :
                            q \in Looking!Places, y \in Sought}
    BY <1>1 DEF Looking!Then
  <2>5. CASE t \in {<<>>} \cup {Looking!Bring(x, q) : q \in Looking!Places}
    BY <2>5, <2>2, NoneIs
  <2>6. CASE t \in {<<Looking!Do("Close", q)>> : q \in Looking!Openable}
    BY <2>6, <1>3
  <2>7. CASE t \in UNION {{Looking!Look(y), Looking!Go(q) \o Looking!Look(y)} :
                            q \in Looking!Places, y \in Sought}
    <3>1. PICK q \in Looking!Places, y \in Sought :
            t = Looking!Look(y) \/ t = Looking!Go(q) \o Looking!Look(y)
      BY <2>7
    <3> QED
      BY <3>1, <2>3
  <2> QED
    BY <2>4, <2>5, <2>6, <2>7
<1>6. IsPlan(s)
  BY <1>0, <1>2, <1>3, <1>4, <1>5 DEF Looking!Look
<1>7. Looking!Sound(s)
  BY DEF Looking!Written
<1> QED
  BY <1>6, <1>7, SoundIs DEF Looking!Sound

\* A step puts one object under search, at the most.
LEMMA SearchedFew ==
    ASSUME SearchInv, [Looking!Next]_(Looking!vars)
    PROVE  \E o : Looking!UnderSearch' \subseteq Looking!UnderSearch \cup {o}
<1> USE DEF Looking!belief, Looking!world, Looking!run
<1>1. CASE \E o \in Sought : searched' = [searched EXCEPT ![o][arrived] = Containers[arrived] \ opened]
  <2>1. PICK o \in Sought : searched' = [searched EXCEPT ![o][arrived] = Containers[arrived] \ opened]
    BY <1>1
  <2>2. \A x \in Sought : x # o => searched'[x] = searched[x]
    BY <2>1 DEF SearchInv
  <2> QED
    BY <2>2 DEF Looking!UnderSearch
<1>2. CASE \A x \in Sought : \A p \in Places : searched'[x][p] = None \/ searched'[x][p] = searched[x][p]
  BY <1>2 DEF Looking!UnderSearch, Places
<1>3. CASE Looking!Handles
  <2>1. searched' = [o \in Sought |-> [searched[o] EXCEPT ![arrived] = None]]
    BY <1>3 DEF Looking!Handles
  <2> QED
    BY <1>2, <2>1 DEF SearchInv
<1>4. CASE Looking!Finds
  <2>1. PICK o \in Sought : searched' = [searched EXCEPT ![o] = [p \in Places |-> None]]
    BY <1>4 DEF Looking!Finds, Places
  <2> QED
    BY <1>2, <2>1 DEF SearchInv
<1>5. CASE Looking!Misses
  BY <1>1, <1>5 DEF Looking!Misses, Looking!MissedHere
<1>6. CASE \E o : \E p \in Places : Looking!Told(o, p)
  <2>1. PICK o : \E p \in Places : Looking!Told(o, p)
    BY <1>6
  <2>2. PICK p \in Places : Looking!Told(o, p)
    BY <2>1
  <2>3. searched' = [searched EXCEPT ![o][p] = None]
    BY <2>2 DEF Looking!Told
  <2> QED
    BY <1>2, <2>3 DEF SearchInv
<1>7. CASE UNCHANGED searched
  BY <1>2, <1>7
<1>8. CASE Looking!Recovers
  <2>1. (\E p \in Places : Looking!Told(Looking!st.object, p)) \/ UNCHANGED searched
    BY <1>8 DEF Looking!Recovers, Places
  <2> QED
    BY <1>6, <1>7, <2>1
<1>9. CASE Looking!PickTold
  BY <1>6, <1>9 DEF Looking!PickTold, Places
<1>10. CASE Looking!Moves \/ Looking!OpensIt \/ Looking!ClosesIt
  BY <1>7, <1>10 DEF Looking!Moves, Looking!OpensIt, Looking!ClosesIt
<1>11. CASE Looking!Fails \/ Looking!Doubts \/ Looking!Unsure \/ Looking!Replans
  BY <1>7, <1>11 DEF Looking!Fails, Looking!Doubts, Looking!Unsure, Looking!Replans
<1>12. CASE UNCHANGED Looking!vars
  BY <1>7, <1>12 DEF Looking!vars
<1> QED
  BY <1>3, <1>4, <1>5, <1>8, <1>9, <1>10, <1>11, <1>12 DEF Looking!Next

\* Every step of a search keeps it: one that runs takes the first step off, one that
\* replans steers a plan the planner wrote.
LEMMA NextPlanRuns == SearchInv /\ PlanInv /\ [Looking!Next]_(Looking!vars) => PlanInv'
<1> SUFFICES ASSUME SearchInv, PlanInv, [Looking!Next]_(Looking!vars) PROVE PlanInv'
  OBVIOUS
<1> USE DEF Looking!belief, Looking!world, Looking!run
<1>0. IsFiniteSet(Looking!UnderSearch)'
  <2>1. PICK o : Looking!UnderSearch' \subseteq Looking!UnderSearch \cup {o}
    BY SearchedFew
  <2>2. IsFiniteSet(Looking!UnderSearch \cup {o})
    BY FS_AddElement DEF PlanInv
  <2>3. IsFiniteSet(Looking!UnderSearch')
    BY <2>1, <2>2, FS_Subset
  <2> QED
    BY <2>3
<1>1. IsPlan(todo) /\ RunsFrom(todo, arrived)
  BY DEF PlanInv
<1> DEFINE Fine == IsPlan(todo') /\ RunsFrom(todo', arrived')
<1>2. CASE todo # <<>> /\ todo' = Tail(todo)
            /\ arrived' = IF Head(todo).action = "MoveTo" THEN Head(todo).object ELSE arrived
  <2>1. Fine
    BY <1>1, <1>2, TailRuns
  <2> QED
    BY <1>0, <2>1 DEF PlanInv
<1>3. CASE UNCHANGED <<todo, arrived>>
  BY <1>0, <1>1, <1>3 DEF PlanInv
<1>4. CASE Looking!Finds
  <2>1. PICK o \in Sought : /\ todo # <<>> /\ Head(todo) = Looking!Do("Find", o)
                            /\ todo' = Looking!SkipRelook(Tail(todo), o, arrived)
                            /\ arrived' = arrived
    BY <1>4 DEF Looking!Finds, Looking!LooksFor, Looking!st
  <2>2. Head(todo).action # "MoveTo"
    BY <2>1 DEF Looking!Do
  <2>3. IsPlan(Tail(todo)) /\ RunsFrom(Tail(todo), arrived)
    BY <1>1, <2>1, <2>2, TailRuns
  <2>4. Fine
    BY <2>1, <2>3, SkipRelookRuns
  <2> QED
    BY <1>0, <2>4 DEF PlanInv
<1>5. CASE Looking!Replans
  <2>1. CASE \E plan \in Looking!Written, order \in Looking!SetToSeqs(Looking!UnderSearch) :
                todo' = Looking!Steer(plan, order)
    <3>1. PICK plan \in Looking!Written, order \in Looking!SetToSeqs(Looking!UnderSearch) :
                todo' = Looking!Steer(plan, order)
      BY <2>1
    <3>2. Cardinality(Looking!UnderSearch) \in Nat
      BY FS_CardinalityType DEF PlanInv
    <3>3. DOMAIN order = 1..Cardinality(Looking!UnderSearch)
      <4>1. Looking!Cardinality(Looking!UnderSearch) = Cardinality(Looking!UnderSearch)
        BY DEF Looking!Cardinality, Cardinality
      <4>2. order \in [1..Looking!Cardinality(Looking!UnderSearch) -> Looking!UnderSearch]
        BY DEF Looking!SetToSeqs
      <4> QED
        BY <4>1, <4>2
    <3>4. IsPlan(plan) /\ RunsFrom(plan, arrived)
      BY WrittenIsPlan
    <3>5. IsPlan(todo') /\ RunsFrom(todo', arrived)
      BY <3>1, <3>2, <3>3, <3>4, SteerRuns
    <3>6. arrived' = arrived
      BY <1>5 DEF Looking!Replans
    <3> QED
      BY <1>0, <3>5, <3>6 DEF PlanInv
  <2>2. CASE UNCHANGED <<todo, arrived>>
    BY <1>3, <2>2
  <2> QED
    BY <1>5, <2>1, <2>2 DEF Looking!Replans
<1>6. CASE Looking!Moves \/ Looking!OpensIt \/ Looking!ClosesIt \/ Looking!Handles
  BY <1>2, <1>6 DEF Looking!Moves, Looking!OpensIt, Looking!ClosesIt, Looking!Handles,
                    Looking!Runs, Looking!NextStep, Looking!st
<1>7. CASE Looking!Fails \/ Looking!Doubts \/ Looking!Misses \/ Looking!Unsure
  BY <1>3, <1>7 DEF Looking!Fails, Looking!Doubts, Looking!Misses, Looking!Unsure, Looking!Counted
<1>8. CASE Looking!Recovers \/ Looking!PickTold
  BY <1>3, <1>8 DEF Looking!Recovers, Looking!PickTold
<1>9. CASE UNCHANGED Looking!vars
  BY <1>3, <1>9 DEF Looking!vars
<1> QED
  BY <1>4, <1>5, <1>6, <1>7, <1>8, <1>9 DEF Looking!Next

(***************************************************************************)
(* Whatever the belief puts first and however often it replans, each step  *)
(* that acts at a place (place, open, close) finds the robot there:        *)
(* _steer_one adds the moves of its legs, _restore_place brings the robot  *)
(* back for the steps that follow, and skip_relook takes only looks out.   *)
(***************************************************************************)
THEOREM SteeredRun == Looking!Spec => []SteeredPlansRun
<1>1. PlanInv => SteeredPlansRun
  BY SoundIs DEF PlanInv, SteeredPlansRun, Looking!SteeredPlansRun, Looking!Sound
<1> QED
  BY <1>1, InitSearch, NextSearch, FirstPlanRuns, NextPlanRuns, PTL DEF Looking!Spec

-----------------------------------------------------------------------------
(* Folds over a plan.                                                      *)

\* What one step does to each thing that is folded over a plan.
Did(kind, acc, s, i, task) ==
    CASE kind = "count" -> Gate!CountStep(acc, s[i])
      [] kind = "run" -> Gate!RunStep(acc, s[i])
      [] kind = "walk" -> Gate!WalkStep(acc, s[i], i, task)
      [] kind = "keep" -> Gate!KeepStep(acc, s, i)
      [] OTHER -> Gate!CompileStep(acc, s[i])

\* `it` folds it over the first n steps, in the library's way: a set of steps at a time.
FoldsPlan(it, kind, start, s, n, task) ==
    it = [T \in SUBSET (1..n) |->
            IF T = {} THEN start
            ELSE Did(kind, it[T \ {Gate!Max(T)}], s, Gate!Max(T), task)]

\* The greatest step of a set that holds the last one.
LEMMA GateMaxIs == ASSUME NEW k \in Nat, NEW T \in SUBSET (1..k), k \in T
    PROVE Gate!Max(T) = k
<1>1. Gate!Max(T) = Looking!Max(T)
  BY DEF Gate!Max, Looking!Max
<1> QED
  BY <1>1, MaxIs

\* A set of steps that has one has a greatest, and the gate finds it.
LEMMA GateMaxThere == ASSUME NEW n \in Nat, NEW T \in SUBSET (1..n), T # {}
    PROVE Gate!Max(T) \in T
<1>1. Gate!Max(T) = Looking!Max(T)
  BY DEF Gate!Max, Looking!Max
<1> QED
  BY <1>1, MaxThere

\* The fold over the first n steps exists, for each kind of fold.
LEMMA FoldThere ==
    ASSUME NEW kind, NEW start, NEW s, NEW task, NEW n \in Nat
    PROVE  \E f : FoldsPlan(f, kind, start, s, n, task)
<1> DEFINE Op(acc, i) == Did(kind, acc, s, i, task)
           Eq(f, k) == f = [T \in SUBSET (1..k) |->
                IF T = {} THEN start ELSE Op(f[T \ {Gate!Max(T)}], Gate!Max(T))]
           Good == {k \in Nat : \E f : Eq(f, k)}
<1> HIDE DEF Op
<1>1. 0 \in Good
  <2>1. Eq([T \in SUBSET (1..0) |-> start], 0)
    OBVIOUS
  <2> QED
    BY <2>1
<1>2. ASSUME NEW k \in Nat, k \in Good PROVE k + 1 \in Good
  <2>1. PICK f : Eq(f, k)
    BY <1>2
  <2> DEFINE g == [T \in SUBSET (1..(k + 1)) |->
                    IF k + 1 \in T THEN Op(f[T \ {k + 1}], k + 1) ELSE f[T]]
  <2>2. ASSUME NEW T \in SUBSET (1..(k + 1))
        PROVE  g[T] = IF T = {} THEN start ELSE Op(g[T \ {Gate!Max(T)}], Gate!Max(T))
    <3>1. CASE k + 1 \in T
      <4>1. Gate!Max(T) = k + 1
        BY <3>1, GateMaxIs, k + 1 \in Nat
      <4>2. g[T \ {k + 1}] = f[T \ {k + 1}]
        OBVIOUS
      <4> QED
        BY <3>1, <4>1, <4>2
    <3>2. CASE k + 1 \notin T
      <4>1. T \in SUBSET (1..k)
        BY <3>2
      <4>2. \A U \in SUBSET T : g[U] = f[U]
        BY <4>1, <3>2
      <4>3. f[T] = IF T = {} THEN start ELSE Op(f[T \ {Gate!Max(T)}], Gate!Max(T))
        BY <2>1, <4>1
      <4> QED
        BY <4>2, <4>3
    <3> QED
      BY <3>1, <3>2
  <2>3. Eq(g, k + 1)
    BY <2>2
  <2> HIDE DEF Eq
  <2> QED
    BY <2>3
<1>3. n \in Good
  <2> HIDE DEF Good
  <2> QED
    BY <1>1, <1>2, Induct
<1>4. PICK f : Eq(f, n)
  BY <1>3
<1>5. FoldsPlan(f, kind, start, s, n, task)
  BY <1>4 DEF FoldsPlan, Op
<1> QED
  BY <1>5

\* What that comes to, step by step.
FoldedSteps(it, kind, start, s, n, task) ==
    /\ it[1..0] = start
    /\ \A k \in Nat : k < n => it[1..(k + 1)] = Did(kind, it[1..k], s, k + 1, task)

\* Step by step: what has been folded when k steps are done.
LEMMA FoldSteps ==
    ASSUME NEW kind, NEW start, NEW s, NEW task, NEW n \in Nat, NEW it,
           FoldsPlan(it, kind, start, s, n, task)
    PROVE  FoldedSteps(it, kind, start, s, n, task)
<1> DEFINE Op(acc, i) == Did(kind, acc, s, i, task)
<1> HIDE DEF Op
<1>1. it = [T \in SUBSET (1..n) |->
            IF T = {} THEN start ELSE Op(it[T \ {Gate!Max(T)}], Gate!Max(T))]
  BY DEF FoldsPlan, Op
<1>2. it[1..0] = start
  <2>1. 1..0 = {} /\ {} \in SUBSET (1..n)
    OBVIOUS
  <2> QED
    BY <1>1, <2>1
<1>3. ASSUME NEW k \in Nat, k < n PROVE it[1..(k + 1)] = Op(it[1..k], k + 1)
  <2>1. k + 1 \in Nat /\ k + 1 \in 1..(k + 1) /\ 1..(k + 1) \in SUBSET (1..(k + 1))
    OBVIOUS
  <2>2. Gate!Max(1..(k + 1)) = k + 1
    BY <2>1, GateMaxIs
  <2>3. (1..(k + 1)) \ {k + 1} = 1..k
    OBVIOUS
  <2>4. 1..(k + 1) \in SUBSET (1..n) /\ 1..(k + 1) # {}
    BY <1>3
  <2> QED
    BY <1>1, <2>2, <2>3, <2>4
<1> QED
  BY <1>2, <1>3 DEF Op, FoldedSteps

\* What the goals are counted by is folded over the plan.
LEMMA CountedFolds ==
    ASSUME NEW plan, NEW w, NEW task, NEW n \in Nat, DOMAIN plan = 1..n
    PROVE  \E it : /\ FoldsPlan(it, "count",
                        [holding |-> w.holding, opened |-> w.opened,
                         on |-> [o \in Thing |-> Gate!Step("nothing", None)]], plan, n, task)
                   /\ Gate!Counted(plan, w) = it[1..n]
<1> DEFINE start == [holding |-> w.holding, opened |-> w.opened,
                    on |-> [o \in Thing |-> Gate!Step("nothing", None)]]
           F == CHOOSE it : it = [T \in SUBSET (1..n) |-> IF T = {} THEN start
                        ELSE Gate!CountStep(it[T \ {Gate!Max(T)}], plan[Gate!Max(T)])]
<1>1. Gate!Counted(plan, w) = F[1..n]
  BY DEF Gate!Counted, Gate!FoldLeft, Gate!MapThenFoldSet
<1>2. PICK f : FoldsPlan(f, "count", start, plan, n, task)
  BY FoldThere
<1> HIDE DEF start
<1>3. f = [T \in SUBSET (1..n) |-> IF T = {} THEN start
                        ELSE Gate!CountStep(f[T \ {Gate!Max(T)}], plan[Gate!Max(T)])]
  BY <1>2 DEF FoldsPlan, Did
<1>4. F = [T \in SUBSET (1..n) |-> IF T = {} THEN start
                        ELSE Gate!CountStep(F[T \ {Gate!Max(T)}], plan[Gate!Max(T)])]
  BY <1>3
<1> HIDE DEF F
<1>5. FoldsPlan(F, "count", start, plan, n, task)
  BY <1>4 DEF FoldsPlan, Did
<1> QED
  BY <1>1, <1>5 DEF start

\* What becomes of the world is folded over the plan.
LEMMA RealityFolds ==
    ASSUME NEW plan, NEW w, NEW task, NEW n \in Nat, DOMAIN plan = 1..n
    PROVE  \E it : /\ FoldsPlan(it, "run",
                        [w |-> w, ok |-> TRUE, put |-> [o \in Thing |-> Gate!Step("nothing", None)]], plan, n, task)
                   /\ Gate!Reality(plan, w) = it[1..n]
<1> DEFINE start == [w |-> w, ok |-> TRUE, put |-> [o \in Thing |-> Gate!Step("nothing", None)]]
           F == CHOOSE it : it = [T \in SUBSET (1..n) |-> IF T = {} THEN start
                        ELSE Gate!RunStep(it[T \ {Gate!Max(T)}], plan[Gate!Max(T)])]
<1>1. Gate!Reality(plan, w) = F[1..n]
  BY DEF Gate!Reality, Gate!FoldLeft, Gate!MapThenFoldSet
<1>2. PICK f : FoldsPlan(f, "run", start, plan, n, task)
  BY FoldThere
<1> HIDE DEF start
<1>3. f = [T \in SUBSET (1..n) |-> IF T = {} THEN start
                        ELSE Gate!RunStep(f[T \ {Gate!Max(T)}], plan[Gate!Max(T)])]
  BY <1>2 DEF FoldsPlan, Did
<1>4. F = [T \in SUBSET (1..n) |-> IF T = {} THEN start
                        ELSE Gate!RunStep(F[T \ {Gate!Max(T)}], plan[Gate!Max(T)])]
  BY <1>3
<1> HIDE DEF F
<1>5. FoldsPlan(F, "run", start, plan, n, task)
  BY <1>4 DEF FoldsPlan, Did
<1> QED
  BY <1>1, <1>5 DEF start

\* So is the plan of template goals, over the goals.
LEMMA CompiledFolds ==
    ASSUME NEW at, NEW task, NEW n \in Nat, DOMAIN task = 1..n
    PROVE  \E it : /\ FoldsPlan(it, "compile",
                        [at |-> at, plan |-> << >>], task, n, task)
                   /\ Gate!Compiled(task, at) = it[1..n].plan
<1> DEFINE start == [at |-> at, plan |-> << >>]
           F == CHOOSE it : it = [T \in SUBSET (1..n) |-> IF T = {} THEN start
                        ELSE Gate!CompileStep(it[T \ {Gate!Max(T)}], task[Gate!Max(T)])]
<1>1. Gate!Compiled(task, at) = F[1..n].plan
  BY DEF Gate!Compiled, Gate!FoldLeft, Gate!MapThenFoldSet
<1>2. PICK f : FoldsPlan(f, "compile", start, task, n, task)
  BY FoldThere
<1> HIDE DEF start
<1>3. f = [T \in SUBSET (1..n) |-> IF T = {} THEN start
                        ELSE Gate!CompileStep(f[T \ {Gate!Max(T)}], task[Gate!Max(T)])]
  BY <1>2 DEF FoldsPlan, Did
<1>4. F = [T \in SUBSET (1..n) |-> IF T = {} THEN start
                        ELSE Gate!CompileStep(F[T \ {Gate!Max(T)}], task[Gate!Max(T)])]
  BY <1>3
<1> HIDE DEF F
<1>5. FoldsPlan(F, "compile", start, task, n, task)
  BY <1>4 DEF FoldsPlan, Did
<1> QED
  BY <1>1, <1>5 DEF start

\* So is what the checker finds.
LEMMA WalkFolds ==
    ASSUME NEW plan, NEW w, NEW task, NEW n \in Nat, DOMAIN plan = 1..n
    PROVE  \E it : /\ FoldsPlan(it, "walk",
                        [w |-> w, placedOk |-> [o \in Thing |-> None], found |-> {}], plan, n, task)
                   /\ Gate!Walk(plan, w, task) = it[1..n]
<1> DEFINE start == [w |-> w, placedOk |-> [o \in Thing |-> None], found |-> {}]
           ids == [i \in DOMAIN plan |-> i]
           F == CHOOSE it : it = [T \in SUBSET DOMAIN ids |-> IF T = {} THEN start
                        ELSE Gate!WalkStep(it[T \ {Gate!Max(T)}], plan[ids[Gate!Max(T)]], ids[Gate!Max(T)], task)]
<1>0. DOMAIN ids = 1..n
  OBVIOUS
<1>1. Gate!Walk(plan, w, task) = F[DOMAIN ids]
  BY DEF Gate!Walk, Gate!FoldLeftDomain, Gate!FoldLeft, Gate!MapThenFoldSet
<1>2. PICK f : FoldsPlan(f, "walk", start, plan, n, task)
  BY FoldThere
<1> HIDE DEF start
<1>3. \A T \in SUBSET (1..n) : T # {} => ids[Gate!Max(T)] = Gate!Max(T)
  BY GateMaxThere
<1> HIDE DEF ids
<1>4. f = [T \in SUBSET DOMAIN ids |-> IF T = {} THEN start
                        ELSE Gate!WalkStep(f[T \ {Gate!Max(T)}], plan[ids[Gate!Max(T)]], ids[Gate!Max(T)], task)]
  BY <1>0, <1>2, <1>3 DEF FoldsPlan, Did
<1>5. F = [T \in SUBSET DOMAIN ids |-> IF T = {} THEN start
                        ELSE Gate!WalkStep(F[T \ {Gate!Max(T)}], plan[ids[Gate!Max(T)]], ids[Gate!Max(T)], task)]
  BY <1>4
<1> HIDE DEF F
<1>6. FoldsPlan(F, "walk", start, plan, n, task)
  BY <1>0, <1>3, <1>5 DEF FoldsPlan, Did
<1> QED
  BY <1>0, <1>1, <1>6 DEF start

\* So is what is left of a plan without the steps that do nothing.
LEMMA KeptFolds ==
    ASSUME NEW plan, NEW w, NEW task, NEW n \in Nat, DOMAIN plan = 1..n
    PROVE  \E it : /\ FoldsPlan(it, "keep",
                        [w |-> w, out |-> << >>], plan, n, task)
                   /\ Gate!Kept(plan, w) = it[1..n].out
<1> DEFINE start == [w |-> w, out |-> << >>]
           ids == [i \in DOMAIN plan |-> i]
           F == CHOOSE it : it = [T \in SUBSET DOMAIN ids |-> IF T = {} THEN start
                        ELSE Gate!KeepStep(it[T \ {Gate!Max(T)}], plan, ids[Gate!Max(T)])]
<1>0. DOMAIN ids = 1..n
  OBVIOUS
<1>1. Gate!Kept(plan, w) = F[DOMAIN ids].out
  BY DEF Gate!Kept, Gate!FoldLeftDomain, Gate!FoldLeft, Gate!MapThenFoldSet
<1>2. PICK f : FoldsPlan(f, "keep", start, plan, n, task)
  BY FoldThere
<1> HIDE DEF start
<1>3. \A T \in SUBSET (1..n) : T # {} => ids[Gate!Max(T)] = Gate!Max(T)
  BY GateMaxThere
<1> HIDE DEF ids
<1>4. f = [T \in SUBSET DOMAIN ids |-> IF T = {} THEN start
                        ELSE Gate!KeepStep(f[T \ {Gate!Max(T)}], plan, ids[Gate!Max(T)])]
  BY <1>0, <1>2, <1>3 DEF FoldsPlan, Did
<1>5. F = [T \in SUBSET DOMAIN ids |-> IF T = {} THEN start
                        ELSE Gate!KeepStep(F[T \ {Gate!Max(T)}], plan, ids[Gate!Max(T)])]
  BY <1>4
<1> HIDE DEF F
<1>6. FoldsPlan(F, "keep", start, plan, n, task)
  BY <1>0, <1>3, <1>5 DEF FoldsPlan, Did
<1> QED
  BY <1>0, <1>1, <1>6 DEF start

-----------------------------------------------------------------------------
(* Plans stay plans.                                                       *)

\* A plan's blocks are plans.
IsBlocks(bs) == IsPlan(bs) /\ \A k \in 1..Len(bs) : IsPlan(bs[k])

\* Blocks that are joined make a plan.
LEMMA JoinedIsPlan ==
    ASSUME NEW bs, IsBlocks(bs)
    PROVE  IsPlan(Gate!Join(bs))
<1>0. Len(bs) \in Nat /\ DOMAIN bs = 1..Len(bs)
  BY PlanIs DEF IsBlocks
<1>1. CASE Len(bs) = 0
  BY <1>1 DEF Gate!Join, Gate!FlattenSeq, IsBlocks
<1>2. CASE Len(bs) # 0
  <2> DEFINE Op(f, i) == IF i = 1 THEN bs[i] ELSE f[i - 1] \o bs[i]
             Eq(f, k) == f = [i \in 1..k |-> Op(f, i)]
             Good == {k \in Nat : \E f : Eq(f, k)}
             F == CHOOSE f : f = [i \in 1..Len(bs) |-> IF i = 1 THEN bs[i] ELSE f[i - 1] \o bs[i]]
  <2>1. Gate!Join(bs) = F[Len(bs)]
    BY <1>2 DEF Gate!Join, Gate!FlattenSeq
  <2>2. 0 \in Good
    <3>1. Eq([i \in 1..0 |-> bs], 0)
      OBVIOUS
    <3> QED
      BY <3>1
  <2>3. ASSUME NEW k \in Nat, k \in Good PROVE k + 1 \in Good
    <3>1. PICK f : Eq(f, k)
      BY <2>3
    <3> DEFINE g == [i \in 1..(k + 1) |-> IF i = k + 1 THEN Op(f, k + 1) ELSE f[i]]
    <3>2. Eq(g, k + 1)
      <4>1. ASSUME NEW i \in 1..(k + 1) PROVE g[i] = Op(g, i)
        <5>1. CASE i = k + 1
          BY <5>1
        <5>2. CASE i # k + 1
          <6>1. i \in 1..k /\ (i # 1 => i - 1 \in 1..k)
            BY <5>2
          <6>2. f[i] = Op(f, i)
            BY <6>1, <3>1
          <6> QED
            BY <6>1, <6>2
        <5> QED
          BY <5>1, <5>2
      <4> QED
        BY <4>1
    <3> HIDE DEF Eq
    <3> QED
      BY <3>2
  <2>4. Len(bs) \in Good
    <3> HIDE DEF Good
    <3> QED
      BY <2>2, <2>3, <1>0, Induct
  <2>5. PICK f : Eq(f, Len(bs))
    BY <2>4, <1>0
  <2>6. F = [i \in 1..Len(bs) |-> IF i = 1 THEN bs[i] ELSE F[i - 1] \o bs[i]]
    BY <2>5
  <2> HIDE DEF F
  <2> DEFINE Fine == {k \in Nat : k + 1 <= Len(bs) => IsPlan(F[k + 1])}
  <2>7. 0 \in Fine
    BY <2>6, <1>0, <1>2 DEF IsBlocks
  <2>8. ASSUME NEW k \in Nat, k \in Fine PROVE k + 1 \in Fine
    <3> SUFFICES ASSUME k + 2 <= Len(bs) PROVE IsPlan(F[k + 2])
      OBVIOUS
    <3>1. IsPlan(F[k + 1]) /\ IsPlan(bs[k + 2])
      BY <2>8, <1>0 DEF IsBlocks
    <3>2. k + 2 \in 1..Len(bs) /\ k + 2 # 1 /\ (k + 2) - 1 = k + 1
      BY <1>0
    <3>3. F[k + 2] = F[(k + 2) - 1] \o bs[k + 2]
      BY <2>6, <3>2
    <3> QED
      BY <3>1, <3>2, <3>3, JoinIs
  <2>9. Len(bs) - 1 \in Fine
    <3>1. Len(bs) - 1 \in Nat
      BY <1>0, <1>2
    <3> HIDE DEF Fine
    <3> QED
      BY <2>7, <2>8, <3>1, Induct
  <2> QED
    BY <2>1, <2>9, <1>0, <1>2
<1> QED
  BY <1>1, <1>2

\* One more step.
LEMMA AppendIs == ASSUME NEW s, IsPlan(s), NEW x PROVE IsPlan(Append(s, x))
<1>1. PICK S : s \in Seq(S)
  BY DEF IsPlan
<1>2. Append(s, x) \in Seq(S \union {x})
  BY <1>1
<1> QED
  BY <1>2 DEF IsPlan

\* A plan without the steps that do nothing is a plan.
LEMMA KeptIsPlan == ASSUME NEW plan, IsPlan(plan), NEW w PROVE IsPlan(Gate!Kept(plan, w))
<1> DEFINE n == Len(plan)
           start == [w |-> w, out |-> << >>]
<1>1. n \in Nat /\ DOMAIN plan = 1..n
  BY PlanIs
<1>2. PICK it : FoldsPlan(it, "keep", start, plan, n, {}) /\ Gate!Kept(plan, w) = it[1..n].out
  <2> HIDE DEF n
  <2> QED
    BY <1>1, KeptFolds
<1>3. FoldedSteps(it, "keep", start, plan, n, {})
  <2> HIDE DEF n, start
  <2> QED
    BY <1>1, <1>2, FoldSteps
<1> DEFINE Good == {k \in Nat : k <= n => IsPlan(it[1..k].out)}
<1>4. 0 \in Good
  BY <1>3, NoneIs DEF FoldedSteps
<1>5. ASSUME NEW k \in Nat, k \in Good PROVE k + 1 \in Good
  <2> SUFFICES ASSUME k + 1 <= n PROVE IsPlan(it[1..(k + 1)].out)
    OBVIOUS
  <2>1. IsPlan(it[1..k].out)
    BY <1>5, <1>1
  <2>2. it[1..(k + 1)] = Gate!KeepStep(it[1..k], plan, k + 1)
    BY <1>3, <1>1 DEF Did, FoldedSteps
  <2>3. \/ it[1..(k + 1)] = it[1..k]
        \/ it[1..(k + 1)].out = Append(it[1..k].out, plan[k + 1])
    BY <2>2 DEF Gate!KeepStep
  <2> QED
    BY <2>1, <2>3, AppendIs
<1>6. n \in Good
  <2> HIDE DEF Good
  <2> QED
    BY <1>1, <1>4, <1>5, Induct
<1> QED
  BY <1>1, <1>2, <1>6

\* So is it when it ends where the goals are reached.
LEMMA TidyIsPlan ==
    ASSUME NEW plan, IsPlan(plan), NEW w, NEW task
    PROVE  IsPlan(Gate!Tidy(plan, w, task))
<1> DEFINE out == Gate!Kept(plan, w)
           done == {k \in 1..(Len(out) - 1) : Gate!Reaches(SubSeq(out, 1, k), w, task)}
<1>1. IsPlan(out) /\ Len(out) \in Nat
  BY KeptIsPlan, PlanIs
<1>2. Gate!Tidy(plan, w, task) = IF task # << >> /\ done # {} THEN SubSeq(out, 1, Gate!Min(done)) ELSE out
  BY DEF Gate!Tidy
<1> HIDE DEF out
<1>3. CASE task # << >> /\ done # {}
  <2>1. done \in SUBSET (1..Len(out))
    BY <1>1
  <2>2. \E x \in done : \A y \in done : x <= y
    <3> HIDE DEF done
    <3> QED
      BY <1>1, <1>3, <2>1, FirstThere
  <2>3. Gate!Min(done) \in done
    <3> HIDE DEF done
    <3> QED
      BY <2>2 DEF Gate!Min
  <2>4. Gate!Min(done) \in Nat /\ Gate!Min(done) <= Len(out)
    BY <1>1, <2>1, <2>3
  <2> HIDE DEF done
  <2>5. IsPlan(SubSeq(out, 1, Gate!Min(done)))
    BY <1>1, <2>4, PlanIs
  <2> QED
    BY <1>2, <1>3, <2>5
<1>4. CASE ~(task # << >> /\ done # {})
  BY <1>1, <1>2, <1>4
<1> QED
  BY <1>3, <1>4

\* The steps for one template goal.
LEMMA CompileStepIsPlan ==
    ASSUME NEW acc, IsPlan(acc.plan), NEW g, g.type \in Gate!TemplateKinds
    PROVE  IsPlan(Gate!CompileStep(acc, g).plan)
<1> DEFINE there == g.to = None \/ (g.to = acc.at /\ g.type # "go")
           move == IF there THEN << >> ELSE <<Gate!Step("MoveTo", g.to)>>
           text == IF "Say" \in PlanActions THEN <<Gate!Step("Say", DeliveryText)>> ELSE << >>
           act == CASE g.type = "go" -> << >>
                    [] g.type = "say" -> <<Gate!Step("Say", g.object)>>
                    [] g.type = "deliver" -> text \o <<Gate!Step("WaitForUnload", None)>>
<1>1. Gate!CompileStep(acc, g).plan = acc.plan \o move \o act
  BY DEF Gate!CompileStep
<1>2. IsPlan(move)
  BY OneIs, NoneIs
<1>3. IsPlan(text)
  BY OneIs, NoneIs
<1>4. IsPlan(text \o <<Gate!Step("WaitForUnload", None)>>)
  <2> HIDE DEF text
  <2> QED
    BY <1>3, OneIs, JoinIs
<1>5. IsPlan(act)
  <2> HIDE DEF text
  <2>1. g.type \in {"go", "say", "deliver"}
    BY DEF Gate!TemplateKinds
  <2> QED
    BY <1>4, <2>1, OneIs, NoneIs
<1> HIDE DEF move, act
<1>6. IsPlan(acc.plan \o move)
  BY <1>2, JoinIs
<1> QED
  BY <1>1, <1>5, <1>6, JoinIs

\* The plan of template goals is one.
LEMMA CompiledIsPlan ==
    ASSUME NEW task, IsPlan(task), Gate!IsTemplate(task), NEW at
    PROVE  IsPlan(Gate!Compiled(task, at))
<1> DEFINE n == Len(task)
           start == [at |-> at, plan |-> << >>]
<1>1. n \in Nat /\ DOMAIN task = 1..n
  BY PlanIs
<1>2. PICK it : FoldsPlan(it, "compile", start, task, n, task) /\ Gate!Compiled(task, at) = it[1..n].plan
  <2> HIDE DEF n
  <2> QED
    BY <1>1, CompiledFolds
<1>3. FoldedSteps(it, "compile", start, task, n, task)
  <2> HIDE DEF n, start
  <2> QED
    BY <1>1, <1>2, FoldSteps
<1> DEFINE Good == {k \in Nat : k <= n => IsPlan(it[1..k].plan)}
<1>4. 0 \in Good
  BY <1>3, NoneIs DEF FoldedSteps
<1>5. ASSUME NEW k \in Nat, k \in Good PROVE k + 1 \in Good
  <2> SUFFICES ASSUME k + 1 <= n PROVE IsPlan(it[1..(k + 1)].plan)
    OBVIOUS
  <2>1. IsPlan(it[1..k].plan)
    BY <1>5, <1>1
  <2>2. it[1..(k + 1)] = Gate!CompileStep(it[1..k], task[k + 1])
    BY <1>3, <1>1 DEF Did, FoldedSteps
  <2>3. task[k + 1].type \in Gate!TemplateKinds
    BY <1>1 DEF Gate!IsTemplate, Gate!ToSet
  <2> QED
    BY <2>1, <2>2, <2>3, CompileStepIsPlan
<1>6. n \in Good
  <2> HIDE DEF Good
  <2> QED
    BY <1>1, <1>4, <1>5, Induct
<1> QED
  BY <1>1, <1>2, <1>6

-----------------------------------------------------------------------------
(* What the checker says nothing of.                                       *)

\* A step the checker says nothing about breaks no rule and is carried out; what was
\* put where it has to go is not picked again, and what is put down is put where it has to go.
LEMMA WordedNone ==
    ASSUME NEW st, NEW w, NEW task, NEW placedOk, Gate!Worded(st, w, task, placedOk) = {}
    PROVE  /\ Gate!Skipped(st, Gate!Errors(st, w, task)) = {}
           /\ Gate!Errors(st, w, task) = {}
           /\ st.action = "Pick" => ~Gate!AlreadyPlaced(st.object, task, placedOk)
           /\ st.action \in {"Place", "PutIn"} =>
                st.object \in Spot /\ Gate!Destination(task, w.holding) \in {None, st.object}
<1> DEFINE broken == Gate!Errors(st, w, task)
           skipped == Gate!Skipped(st, broken)
<1>1. skipped = {}
  <2> HIDE DEF broken, skipped
  <2>1. skipped # {} => Gate!Worded(st, w, task, placedOk) = skipped
    BY DEF Gate!Worded, broken, skipped
  <2> QED
    BY <2>1
<1> HIDE DEF broken, skipped
<1>2. CASE st.action \in {"Open", "Close"}
  BY <1>1, <1>2 DEF Gate!Worded, broken, skipped
<1>3. CASE st.action = "Pick"
  BY <1>1, <1>3 DEF Gate!Worded, broken, skipped
<1>4. CASE st.action \in {"Place", "PutIn"}
  <2> DEFINE misplaced == IF st.object \notin Spot THEN {"not_a_place"}
                     ELSE IF Gate!Destination(task, w.holding) \notin {None, st.object} THEN {"wrong_destination"}
                     ELSE broken \cap {"place_wrong_location"}
  <2>1. Gate!Worded(st, w, task, placedOk) = (broken \ {"place_wrong_location"}) \union misplaced
    BY <1>1, <1>4 DEF Gate!Worded, broken, skipped
  <2>2. misplaced = {}
    BY <2>1
  <2>3. st.object \in Spot /\ Gate!Destination(task, w.holding) \in {None, st.object}
    BY <2>2
  <2>4. broken = {}
    BY <2>1, <2>2, <2>3
  <2> QED
    BY <1>1, <1>4, <2>3, <2>4 DEF broken, skipped
<1>5. CASE st.action \notin {"Open", "Close", "Pick", "Place", "PutIn"}
  BY <1>1, <1>5 DEF Gate!Worded, broken, skipped
<1> QED
  BY <1>2, <1>3, <1>4, <1>5

\* The rules of a step, wherever the goals are to be found.
LEMMA ErrorsNone ==
    ASSUME NEW st, NEW w, NEW task, Gate!Errors(st, w, task) = {}
    PROVE  /\ Gate!Errors(st, w, << >>) = {}
           /\ st.action \in {"Place", "PutIn"} => w.holding # None
<1>1. Gate!Source(<< >>, st.object) = None
  BY DEF Gate!Source
<1>2. Gate!Errors(st, w, << >>) \subseteq Gate!Errors(st, w, task)
  BY <1>1 DEF Gate!Errors, Gate!Broken
<1>3. "place_without_holding" \notin Gate!Broken(st, w, task)
  BY DEF Gate!Errors
<1>4. ~Gate!Rules(st, w)["place_without_holding"]
  <2>1. "place_without_holding" \in DOMAIN Gate!Rules(st, w)
    BY DEF Gate!Rules
  <2> QED
    BY <1>3, <2>1 DEF Gate!Broken
<1> QED
  BY <1>2, <1>4 DEF Gate!Rules

-----------------------------------------------------------------------------
(* The world, the checker's walk and the count of the goals, in lockstep.  *)

\* What a belief says; nothing was put.
WorldFields == {"arrived", "found", "holding", "opened"}
Nothing == Gate!Step("nothing", None)

\* Where an object was put: the checker, the count of what is put where and the world
\* agree, and it was put where it has to go, if that is known.
Settled(o, a, c, r, task) ==
    /\ \/ c.on[o] = Nothing /\ a.placedOk[o] = None
       \/ /\ a.placedOk[o] = c.on[o].object /\ c.on[o].object \in Spot
          /\ Gate!Destination(task, o) \in {None, c.on[o].object}
    /\ Gate!Destination(task, o) # None => r.put[o] = c.on[o]

\* As long as the checker finds nothing, the world it walks through is the one that the
\* plan makes (r) and the one in which the goals are counted (c).
Agree(a, c, r, task) ==
    /\ r.w = a.w /\ r.ok /\ DOMAIN a.w = WorldFields
    /\ c.holding = a.w.holding /\ c.opened = a.w.opened
    /\ DOMAIN c = {"holding", "opened", "on"}
    /\ DOMAIN c.on = Thing /\ DOMAIN r.put = Thing /\ DOMAIN a.placedOk = Thing
    /\ \A o \in Thing : Settled(o, a, c, r, task)

\* A step the checker says nothing of keeps them in agreement.
LEMMA AgreeStep ==
    ASSUME NEW a, NEW c, NEW r, NEW st, NEW i, NEW task, Agree(a, c, r, task),
           Gate!Worded(st, a.w, task, a.placedOk) = {}
    PROVE  Agree(Gate!WalkStep(a, st, i, task), Gate!CountStep(c, st), Gate!RunStep(r, st), task)
<1> DEFINE a1 == Gate!WalkStep(a, st, i, task)
           c1 == Gate!CountStep(c, st)
           r1 == Gate!RunStep(r, st)
<1>0. /\ Gate!Skipped(st, Gate!Errors(st, a.w, task)) = {}
      /\ Gate!Errors(st, a.w, task) = {}
      /\ st.action = "Pick" => ~Gate!AlreadyPlaced(st.object, task, a.placedOk)
      /\ st.action \in {"Place", "PutIn"} =>
            st.object \in Spot /\ Gate!Destination(task, a.w.holding) \in {None, st.object}
  BY WordedNone
<1>1. /\ Gate!Errors(st, a.w, << >>) = {}
      /\ st.action \in {"Place", "PutIn"} => a.w.holding # None
  BY <1>0, ErrorsNone
<1>2. /\ r.w = a.w /\ r.ok /\ DOMAIN a.w = WorldFields
      /\ c.holding = a.w.holding /\ c.opened = a.w.opened
      /\ DOMAIN c = {"holding", "opened", "on"}
      /\ DOMAIN c.on = Thing /\ DOMAIN r.put = Thing /\ DOMAIN a.placedOk = Thing
      /\ \A o \in Thing : Settled(o, a, c, r, task)
  BY DEF Agree
<1>3. /\ a1.w = Gate!Apply(st, a.w) /\ r1.w = Gate!Apply(st, a.w) /\ r1.ok
      /\ a1.placedOk = IF st.action \in {"Place", "PutIn"} /\ a.w.holding # None
                       THEN [a.placedOk EXCEPT ![a.w.holding] = st.object] ELSE a.placedOk
      /\ r1.put = CASE st.action = "Pick" -> [r.put EXCEPT ![st.object] = Nothing]
                    [] st.action \in {"Place", "PutIn"} /\ r.w.holding # None ->
                        [r.put EXCEPT ![r.w.holding] = st]
                    [] OTHER -> r.put
  BY <1>0, <1>1, <1>2 DEF Gate!WalkStep, Gate!RunStep, Nothing
<1>4. c1 = CASE st.action = "Pick" -> [c EXCEPT !.holding = st.object]
             [] st.action \in {"Place", "PutIn"} /\ c.holding # None ->
                [c EXCEPT !.holding = None, !.on = [@ EXCEPT ![c.holding] = st]]
             [] st.action = "Open" -> [c EXCEPT !.opened = @ \union {st.object}]
             [] st.action = "Close" -> [c EXCEPT !.opened = @ \ {st.object}]
             [] OTHER -> c
  BY DEF Gate!CountStep
<1> HIDE DEF a1, c1, r1
<1> SUFFICES Agree(a1, c1, r1, task)
  BY DEF a1, c1, r1
<1>5. CASE st.action = "Pick"
  <2>1. /\ a1.w = [a.w EXCEPT !.holding = st.object, !.found = None]
        /\ a1.placedOk = a.placedOk /\ r1.put = [r.put EXCEPT ![st.object] = Nothing]
        /\ c1 = [c EXCEPT !.holding = st.object]
    BY <1>3, <1>4, <1>5 DEF Gate!Apply
  <2>2. /\ DOMAIN a1.w = WorldFields /\ c1.holding = a1.w.holding /\ c1.opened = a1.w.opened
        /\ DOMAIN c1 = {"holding", "opened", "on"} /\ c1.on = c.on
        /\ DOMAIN r1.put = Thing
    BY <2>1, <1>2 DEF WorldFields
  <2>3. ASSUME NEW o \in Thing PROVE Settled(o, a1, c1, r1, task)
    <3>1. Settled(o, a, c, r, task)
      BY <1>2
    <3>2. CASE o # st.object
      BY <2>1, <2>2, <3>1, <3>2, <1>2 DEF Settled
    <3>3. CASE o = st.object
      <4>1. ~Gate!AlreadyPlaced(o, task, a.placedOk)
        BY <1>0, <1>5, <3>3
      <4>2. r1.put[o] = Nothing
        BY <2>1, <1>2, <3>3
      <4>3. Gate!Destination(task, o) # None => c.on[o] = Nothing
        BY <3>1, <4>1, WorldAssumption DEF Settled, Gate!AlreadyPlaced
      <4> QED
        BY <2>1, <2>2, <3>1, <4>2, <4>3 DEF Settled
    <3> QED
      BY <3>2, <3>3
  <2> QED
    BY <2>1, <2>2, <2>3, <1>2, <1>3 DEF Agree
<1>6. CASE st.action \in {"Place", "PutIn"}
  <2> DEFINE h == a.w.holding
  <2>0. h # None /\ st.object \in Spot /\ Gate!Destination(task, h) \in {None, st.object}
    BY <1>0, <1>1, <1>6
  <2>1. /\ a1.w = [a.w EXCEPT !.holding = None]
        /\ a1.placedOk = [a.placedOk EXCEPT ![h] = st.object]
        /\ r1.put = [r.put EXCEPT ![h] = st]
        /\ c1 = [c EXCEPT !.holding = None, !.on = [@ EXCEPT ![h] = st]]
    BY <2>0, <1>2, <1>3, <1>4, <1>6 DEF Gate!Apply
  <2> HIDE DEF h
  <2>2. /\ DOMAIN a1.w = WorldFields /\ c1.holding = a1.w.holding /\ c1.opened = a1.w.opened
        /\ DOMAIN c1 = {"holding", "opened", "on"} /\ c1.on = [c.on EXCEPT ![h] = st]
        /\ DOMAIN r1.put = Thing /\ DOMAIN a1.placedOk = Thing
    BY <2>1, <1>2 DEF WorldFields
  <2>3. ASSUME NEW o \in Thing PROVE Settled(o, a1, c1, r1, task)
    <3>1. Settled(o, a, c, r, task)
      BY <1>2
    <3>2. CASE o # h
      BY <2>1, <2>2, <3>1, <3>2, <1>2 DEF Settled
    <3>3. CASE o = h
      <4>1. r1.put[o] = st /\ a1.placedOk[o] = st.object /\ c1.on[o] = st
        BY <2>1, <2>2, <1>2, <3>3
      <4> QED
        BY <4>1, <2>0, <3>3 DEF Settled
    <3> QED
      BY <3>2, <3>3
  <2>4. DOMAIN c1.on = Thing
    BY <2>2, <1>2
  <2> QED
    BY <2>1, <2>2, <2>3, <2>4, <1>2, <1>3 DEF Agree
<1>7. CASE st.action \notin {"Pick", "Place", "PutIn"}
  <2>1. a1.placedOk = a.placedOk /\ r1.put = r.put
    BY <1>3, <1>7
  <2>2. /\ DOMAIN a1.w = WorldFields /\ c1.holding = a1.w.holding /\ c1.opened = a1.w.opened
        /\ DOMAIN c1 = {"holding", "opened", "on"} /\ c1.on = c.on
    <3>1. CASE st.action = "MoveTo"
      BY <3>1, <1>2, <1>3, <1>4 DEF Gate!Apply, WorldFields
    <3>2. CASE st.action = "Find"
      BY <3>2, <1>2, <1>3, <1>4 DEF Gate!Apply, WorldFields
    <3>3. CASE st.action = "Open"
      BY <3>3, <1>2, <1>3, <1>4 DEF Gate!Apply, WorldFields
    <3>4. CASE st.action = "Close"
      BY <3>4, <1>2, <1>3, <1>4 DEF Gate!Apply, WorldFields
    <3>5. CASE st.action \notin {"MoveTo", "Find", "Open", "Close"}
      BY <3>5, <1>7, <1>2, <1>3, <1>4 DEF Gate!Apply, WorldFields
    <3> QED
      BY <3>1, <3>2, <3>3, <3>4, <3>5
  <2>3. ASSUME NEW o \in Thing PROVE Settled(o, a1, c1, r1, task)
    BY <2>1, <2>2, <1>2 DEF Settled
  <2> QED
    BY <2>1, <2>2, <2>3, <1>2, <1>3 DEF Agree
<1> QED
  BY <1>5, <1>6, <1>7

\* A plan with no critical finding breaks no rule, and what it puts where is what is counted.
LEMMA UncriticalAgrees ==
    ASSUME NEW plan, IsPlan(plan), NEW w \in Worlds, NEW task, Gate!Critical(plan, w, task) = {}
    PROVE  /\ \E a : Agree(a, Gate!Counted(plan, w), Gate!Reality(plan, w), task)
           /\ Gate!Missing(plan, w, task) = {}
<1> DEFINE n == Len(plan)
           wbase == [w |-> w, placedOk |-> [o \in Thing |-> None], found |-> {}]
           cbase == [holding |-> w.holding, opened |-> w.opened,
                     on |-> [o \in Thing |-> Gate!Step("nothing", None)]]
           rbase == [w |-> w, ok |-> TRUE, put |-> [o \in Thing |-> Gate!Step("nothing", None)]]
<1>1. n \in Nat /\ DOMAIN plan = 1..n
  BY PlanIs
<1>2. Gate!Walk(plan, w, task).found = {} /\ Gate!Missing(plan, w, task) = {}
  BY DEF Gate!Critical
<1> HIDE DEF n
<1>3. PICK itw : FoldsPlan(itw, "walk", wbase, plan, n, task) /\ Gate!Walk(plan, w, task) = itw[1..n]
  BY <1>1, WalkFolds
<1>4. PICK itc : FoldsPlan(itc, "count", cbase, plan, n, task) /\ Gate!Counted(plan, w) = itc[1..n]
  BY <1>1, CountedFolds
<1>5. PICK itr : FoldsPlan(itr, "run", rbase, plan, n, task) /\ Gate!Reality(plan, w) = itr[1..n]
  BY <1>1, RealityFolds
<1> HIDE DEF wbase, cbase, rbase
<1>6. /\ itw[1..0] = wbase
      /\ \A k \in Nat : k < n => itw[1..(k + 1)] = Gate!WalkStep(itw[1..k], plan[k + 1], k + 1, task)
  <2>1. FoldedSteps(itw, "walk", wbase, plan, n, task)
    BY <1>1, <1>3, FoldSteps
  <2> QED
    BY <2>1 DEF Did, FoldedSteps
<1>7. /\ itc[1..0] = cbase
      /\ \A k \in Nat : k < n => itc[1..(k + 1)] = Gate!CountStep(itc[1..k], plan[k + 1])
  <2>1. FoldedSteps(itc, "count", cbase, plan, n, task)
    BY <1>1, <1>4, FoldSteps
  <2> QED
    BY <2>1 DEF Did, FoldedSteps
<1>8. /\ itr[1..0] = rbase
      /\ \A k \in Nat : k < n => itr[1..(k + 1)] = Gate!RunStep(itr[1..k], plan[k + 1])
  <2>1. FoldedSteps(itr, "run", rbase, plan, n, task)
    BY <1>1, <1>5, FoldSteps
  <2> QED
    BY <2>1 DEF Did, FoldedSteps
<1> DEFINE Good == {k \in Nat : k <= n /\ itw[1..k].found = {} =>
                        Agree(itw[1..k], itc[1..k], itr[1..k], task)}
<1>9. 0 \in Good
  <2>1. Agree(wbase, cbase, rbase, task)
    BY WorldAssumption DEF Agree, Settled, Nothing, WorldFields, wbase, cbase, rbase
  <2> QED
    BY <2>1, <1>6, <1>7, <1>8
<1>10. ASSUME NEW k \in Nat, k \in Good PROVE k + 1 \in Good
  <2> SUFFICES ASSUME k + 1 <= n, itw[1..(k + 1)].found = {}
               PROVE  Agree(itw[1..(k + 1)], itc[1..(k + 1)], itr[1..(k + 1)], task)
    OBVIOUS
  <2> DEFINE a == itw[1..k]
             found == Gate!Worded(plan[k + 1], a.w, task, a.placedOk)
  <2>0. k < n
    BY <1>1
  <2>1. itw[1..(k + 1)].found = a.found \union {<<k + 1, x>> : x \in found}
    <3>1. itw[1..(k + 1)] = Gate!WalkStep(a, plan[k + 1], k + 1, task)
      BY <2>0, <1>6
    <3> HIDE DEF a
    <3> QED
      BY <3>1 DEF Gate!WalkStep
  <2>2. a.found = {} /\ found = {}
    <3> HIDE DEF a, found
    <3> QED
      BY <2>1
  <2>3. Agree(a, itc[1..k], itr[1..k], task)
    BY <2>0, <2>2, <1>10, <1>1
  <2>4. Agree(Gate!WalkStep(a, plan[k + 1], k + 1, task), Gate!CountStep(itc[1..k], plan[k + 1]),
              Gate!RunStep(itr[1..k], plan[k + 1]), task)
    <3> HIDE DEF a
    <3> QED
      BY <2>2, <2>3, AgreeStep
  <2> QED
    BY <2>0, <2>4, <1>6, <1>7, <1>8
<1>11. n \in Good
  <2> HIDE DEF Good
  <2> QED
    BY <1>1, <1>9, <1>10, Induct
<1>12. Agree(itw[1..n], itc[1..n], itr[1..n], task)
  BY <1>1, <1>2, <1>3, <1>11
<1> QED
  BY <1>2, <1>4, <1>5, <1>12

\* The goals a plan is asked for, in order: those it does not leave out.
AskedOf(plan, task) ==
    LET left == Gate!Untouched(task, plan)
    IN  IF left = Gate!ToSet(task) THEN task
        ELSE Gate!Restrict(task, {i \in DOMAIN task : task[i] \notin left})

\* All of them are goals of the task, and only those left out are missing.
LEMMA AskedIs ==
    ASSUME NEW plan, NEW task, IsPlan(task)
    PROVE  /\ DOMAIN AskedOf(plan, task) \subseteq Nat
           /\ Gate!ToSet(AskedOf(plan, task)) \subseteq Gate!ToSet(task)
           /\ Gate!ToSet(task) \ Gate!Untouched(task, plan) \subseteq Gate!ToSet(AskedOf(plan, task))
<1> DEFINE left == Gate!Untouched(task, plan)
           asks == AskedOf(plan, task)
<1>1. DOMAIN task \subseteq Nat
  BY PlanIs
<1>2. CASE left = Gate!ToSet(task)
  BY <1>1, <1>2 DEF AskedOf
<1>3. CASE left # Gate!ToSet(task)
  <2>1. asks = [i \in {j \in DOMAIN task : task[j] \notin left} |-> task[i]]
    BY <1>3 DEF AskedOf, Gate!Restrict
  <2> HIDE DEF asks, left
  <2>2. DOMAIN asks = {j \in DOMAIN task : task[j] \notin left}
    BY <2>1
  <2>3. \A i \in DOMAIN asks : asks[i] = task[i]
    BY <2>1, <2>2
  <2>4. Gate!ToSet(asks) = {asks[i] : i \in DOMAIN asks} /\ Gate!ToSet(task) = {task[i] : i \in DOMAIN task}
    BY DEF Gate!ToSet
  <2> QED
    BY <1>1, <2>2, <2>3, <2>4 DEF asks, left
<1> QED
  BY <1>2, <1>3

\* A plan that is not blocked works.
LEMMA UnblockedWorks ==
    ASSUME NEW task \in Tasks, NEW w \in Worlds, NEW plan, IsPlan(plan), plan # << >>,
           ~Gate!Blocked(plan, w, task)
    PROVE  /\ Gate!Reality(plan, w).ok
           /\ \A g \in Gate!ToSet(task) \ Gate!Untouched(task, plan) : Gate!InReality(g, plan, w)
<1> DEFINE asks == AskedOf(plan, task)
           c == Gate!Counted(plan, w)
           r == Gate!Reality(plan, w)
<1>0. IsPlan(task)
  BY OrderAssumption DEF IsPlan
<1>1. Gate!Critical(plan, w, asks) = {}
  BY DEF Gate!Blocked, AskedOf
<1>2. /\ DOMAIN asks \subseteq Nat
      /\ Gate!ToSet(asks) \subseteq Gate!ToSet(task)
      /\ Gate!ToSet(task) \ Gate!Untouched(task, plan) \subseteq Gate!ToSet(asks)
  BY <1>0, AskedIs
<1> HIDE DEF asks
<1>3. (\E a : Agree(a, c, r, asks)) /\ Gate!Missing(plan, w, asks) = {}
  BY <1>1, UncriticalAgrees
<1>4. \A g \in Gate!ToSet(asks) : Gate!Achieves(g, Gate!Counted(plan, w), plan, w.arrived)
  BY <1>3 DEF Gate!Missing
<1>5. PICK a : Agree(a, c, r, asks)
  BY <1>3
<1>6. \A g \in Gate!ToSet(task) : g.type \in Moved =>
        /\ g.object \in Thing
        /\ \A h \in Gate!ToSet(task) : h.object = g.object => h.type \in Moved \/ h.to # None
  BY GoalAssumption DEF Gate!ToSet, ToSet
<1>7. ASSUME NEW g \in Gate!ToSet(asks), g.type \in Moved
      PROVE  g.object \in Thing /\ c.on[g.object].object = g.to /\ c.on[g.object] # Nothing /\ g.to \in Spot
  <2>1. g.object \in Thing
    BY <1>2, <1>6, <1>7
  <2>2. c.on[g.object] = Gate!Step(IF g.type = "on" THEN "Place" ELSE "PutIn", g.to)
    BY <1>4, <1>7 DEF Gate!Achieves, Moved
  <2>3. c.on[g.object].object = g.to /\ c.on[g.object] # Nothing
    BY <2>2 DEF Gate!Step, Nothing
  <2>4. Settled(g.object, a, c, r, asks)
    BY <1>5, <2>1 DEF Agree
  <2> QED
    BY <2>1, <2>3, <2>4 DEF Settled
<1>8. ASSUME NEW g \in Gate!ToSet(asks), g.type \in Moved
      PROVE  Gate!Destination(asks, g.object) # None
  <2> DEFINE o == g.object
             about == {i \in DOMAIN asks : asks[i].object = o}
             first == Gate!Min(about)
  <2>1. about # {} /\ about \in SUBSET Nat
    BY <1>2, <1>8 DEF Gate!ToSet
  <2>2. first \in about
    <3> HIDE DEF about
    <3>1. \E x \in about : \A y \in about : x <= y
      BY <2>1, FirstThere
    <3> QED
      BY <3>1 DEF Gate!Min
  <2>3. o # None
    BY <1>7, <1>8, WorldAssumption
  <2>4. Gate!Destination(asks, o) = asks[first].to
    BY <2>1, <2>3 DEF Gate!Destination
  <2>5. asks[first] \in Gate!ToSet(asks) /\ asks[first].object = o
    BY <2>2 DEF Gate!ToSet
  <2> DEFINE h == asks[first]
  <2> HIDE DEF first, o
  <2>6. CASE h.type \in Moved
    BY <2>4, <2>5, <2>6, <1>7, WorldAssumption DEF o
  <2>7. CASE h.type \notin Moved
    <3>1. g \in Gate!ToSet(task) /\ h \in Gate!ToSet(task) /\ h.object = g.object
      BY <2>5, <1>2, <1>8 DEF o
    <3> QED
      BY <3>1, <2>4, <2>7, <1>6, <1>8 DEF o
  <2> QED
    BY <2>6, <2>7
<1>9. ASSUME NEW g \in Gate!ToSet(asks) PROVE Gate!InReality(g, plan, w)
  <2>1. Gate!Achieves(g, Gate!Counted(plan, w), plan, w.arrived)
    BY <1>4
  <2>2. CASE g.type \in Moved
    <3>1. r.put[g.object] = c.on[g.object]
      BY <1>5, <1>7, <1>8, <2>2 DEF Agree, Settled
    <3> QED
      BY <3>1, <2>1, <2>2 DEF Gate!Achieves, Gate!InReality, Moved
  <2>3. CASE g.type \notin Moved
    <3>1. c.opened = r.w.opened
      BY <1>5 DEF Agree
    <3> QED
      BY <3>1, <2>1, <2>3 DEF Gate!Achieves, Gate!InReality, Moved
  <2> QED
    BY <2>2, <2>3
<1>10. r.ok
  BY <1>5 DEF Agree
<1> QED
  BY <1>2, <1>9, <1>10

-----------------------------------------------------------------------------
(* A plan that is certified.                                               *)

\* Plans stay plans, and the one that is certified, or executed, is not blocked.
CertInv ==
    /\ tasks \in Tasks /\ world \in Worlds
    /\ IsPlan(steps) /\ IsBlocks(blocks)
    /\ stage = "decide" /\ certified => ~Gate!Blocked(steps, world, tasks)
    /\ stage = "execute" =>
        \/ steps # << >> /\ ~Gate!Blocked(steps, world, tasks)
        \/ steps = << >> /\ Gate!NothingToDo

\* What a planner answers is blocks of steps.
LEMMA AnswersAreBlocks ==
    ASSUME NEW task \in Tasks, NEW bs \in Plans(task) \union Fresh(task) \union {<< >>}
    PROVE  IsBlocks(bs) /\ IsPlan(Gate!Join(bs))
<1>1. IsBlocks(<< >>)
  BY NoneIs DEF IsBlocks
<1>2. CASE bs \in Plans(task) \union Fresh(task)
  <2>1. bs \in Seq(ToSet(bs)) /\ \A b \in ToSet(bs) : b \in Seq(ToSet(b))
    BY <1>2, OrderAssumption
  <2>2. IsPlan(bs) /\ \A b \in ToSet(bs) : IsPlan(b)
    BY <2>1 DEF IsPlan
  <2>3. \A k \in 1..Len(bs) : bs[k] \in ToSet(bs)
    BY <2>2, PlanIs DEF ToSet
  <2> QED
    BY <2>2, <2>3, JoinedIsPlan DEF IsBlocks
<1> QED
  BY <1>1, <1>2, JoinedIsPlan

\* A task is a sequence of goals.
LEMMA TasksArePlans == ASSUME NEW task \in Tasks PROVE IsPlan(task)
  BY OrderAssumption DEF IsPlan

\* The first plan.
LEMMA FirstPlanIsPlan ==
    ASSUME CertInv, NEW plan, IsPlan(plan), NEW bs, IsBlocks(bs), Gate!FirstPlan(plan, bs)
    PROVE  CertInv'
<1>1. /\ blocks' = bs /\ steps' = Gate!Tidy(plan, world, tasks)
      /\ tasks' = tasks /\ world' = world /\ stage' \in {"edit", "certify"}
  BY DEF Gate!FirstPlan
<1>2. IsPlan(steps')
  BY <1>1, TidyIsPlan
<1> QED
  BY <1>1, <1>2 DEF CertInv

\* A round puts other steps in some of the blocks.
LEMMA RoundKeepsBlocks ==
    ASSUME CertInv, Gate!EditRound
    PROVE  IsBlocks(blocks')
<1>1. PICK new \in [Gate!ToRepair \ Gate!Needless -> Edits(tasks) \union {<< >>}] :
        blocks' = [k \in DOMAIN blocks |->
                    CASE k \in Gate!Needless -> << >>
                      [] k \in DOMAIN new /\ new[k] # << >> -> new[k]
                      [] OTHER -> blocks[k]]
  BY DEF Gate!EditRound
<1>2. Len(blocks) \in Nat /\ DOMAIN blocks = 1..Len(blocks) /\ \A k \in 1..Len(blocks) : IsPlan(blocks[k])
  BY PlanIs DEF CertInv, IsBlocks
<1>3. ASSUME NEW b \in Edits(tasks) \union {<< >>} PROVE IsPlan(b)
  <2>1. CASE b \in Edits(tasks)
    <3>1. b \in Seq(ToSet(b))
      BY <2>1, OrderAssumption DEF CertInv
    <3> QED
      BY <3>1 DEF IsPlan
  <2> QED
    BY <2>1, NoneIs
<1>4. DOMAIN new = Gate!ToRepair \ Gate!Needless
  BY <1>1
<1>5. ASSUME NEW k \in 1..Len(blocks) PROVE IsPlan(blocks'[k])
  <2>1. blocks'[k] = CASE k \in Gate!Needless -> << >>
                      [] k \in DOMAIN new /\ new[k] # << >> -> new[k]
                      [] OTHER -> blocks[k]
    BY <1>1, <1>2
  <2>2. k \in DOMAIN new => new[k] \in Edits(tasks) \union {<< >>}
    BY <1>1, <1>4
  <2>3. \/ blocks'[k] \in {<< >>, blocks[k]}
        \/ k \in DOMAIN new /\ blocks'[k] = new[k]
    <3>1. CASE k \in Gate!Needless
      BY <2>1, <1>4, <3>1
    <3>2. CASE k \notin Gate!Needless /\ k \in DOMAIN new /\ new[k] # << >>
      BY <2>1, <3>2
    <3>3. CASE k \notin Gate!Needless /\ ~(k \in DOMAIN new /\ new[k] # << >>)
      BY <2>1, <3>3
    <3> QED
      BY <3>1, <3>2, <3>3
  <2> QED
    BY <2>2, <2>3, <1>2, <1>3, NoneIs
<1> DEFINE S == {blocks'[k] : k \in 1..Len(blocks)}
<1>6. blocks' \in [1..Len(blocks) -> S]
  BY <1>1, <1>2
<1>7. blocks' \in Seq(S) /\ Len(blocks') = Len(blocks)
  <2> HIDE DEF S
  <2> QED
    BY <1>2, <1>6
<1> QED
  BY <1>5, <1>7 DEF IsBlocks, IsPlan

\* It holds before there is a plan.
LEMMA InitCert == Gate!Init => CertInv
  BY NoneIs DEF Gate!Init, CertInv, IsBlocks

\* And every step of the gate keeps it.
LEMMA NextCert == CertInv /\ [Gate!Next]_(Gate!vars) => CertInv'
<1> SUFFICES ASSUME CertInv, [Gate!Next]_(Gate!vars) PROVE CertInv'
  OBVIOUS
<1>0. /\ tasks \in Tasks /\ world \in Worlds /\ IsPlan(steps) /\ IsBlocks(blocks)
      /\ IsPlan(Gate!Join(blocks)) /\ IsPlan(tasks)
  BY JoinedIsPlan, TasksArePlans DEF CertInv
<1>1. CASE Gate!Compile
  BY <1>0, <1>1, CompiledIsPlan, FirstPlanIsPlan, AnswersAreBlocks DEF Gate!Compile
<1>2. CASE Gate!Generate
  <2>1. PICK bs \in Plans(tasks) \union {<< >>} :
            Gate!FirstPlan(Gate!Join(bs), bs) \/ Gate!FirstPlan(Gate!Join(bs), << >>)
    BY <1>2 DEF Gate!Generate
  <2>2. IsBlocks(bs) /\ IsPlan(Gate!Join(bs)) /\ IsBlocks(<< >>)
    BY <1>0, AnswersAreBlocks
  <2> QED
    BY <2>1, <2>2, FirstPlanIsPlan
<1>3. CASE Gate!GenerateFails
  <2>1. IsBlocks(<< >>) /\ IsPlan(<< >>)
    BY <1>0, AnswersAreBlocks, NoneIs
  <2> QED
    BY <1>3, <2>1, FirstPlanIsPlan DEF Gate!GenerateFails
<1>4. CASE Gate!EditRound
  <2>1. IsBlocks(blocks')
    BY <1>4, RoundKeepsBlocks
  <2> QED
    BY <1>0, <1>4, <2>1 DEF Gate!EditRound, CertInv
<1>5. CASE Gate!EditRefused
  BY <1>0, <1>5 DEF Gate!EditRefused, CertInv
<1>6. CASE Gate!EditsEnd
  <2>1. IsPlan(steps')
    BY <1>0, <1>6, TidyIsPlan DEF Gate!EditsEnd
  <2> QED
    BY <1>0, <1>6, <2>1 DEF Gate!EditsEnd, CertInv
<1>7. CASE Gate!Certify
  BY <1>0, <1>7 DEF Gate!Certify, CertInv, Gate!Unedited
<1>8. CASE Gate!Refine
  <2>1. IsPlan(steps')
    <3>1. CASE steps' = << >>
      BY <3>1, NoneIs
    <3>2. ASSUME NEW bs \in Fresh(tasks) \union {<< >>}, steps' = Gate!Tidy(Gate!Join(bs), world, tasks)
          PROVE  IsPlan(steps')
      BY <1>0, <3>2, AnswersAreBlocks, TidyIsPlan
    <3> QED
      BY <1>8, <3>1, <3>2 DEF Gate!Refine
  <2>2. /\ tasks' = tasks /\ world' = world /\ blocks' = blocks /\ stage' = "decide"
        /\ certified' = ~Gate!Blocked(steps', world, tasks)
    BY <1>8 DEF Gate!Refine
  <2> QED
    BY <1>0, <2>1, <2>2 DEF CertInv
<1>9. CASE Gate!Decide
  BY <1>0, <1>9 DEF Gate!Decide, CertInv, Gate!NothingToDo
<1>10. CASE UNCHANGED Gate!vars
  BY <1>0, <1>10 DEF Gate!vars, CertInv, Gate!NothingToDo
<1> QED
  BY <1>1, <1>2, <1>3, <1>4, <1>5, <1>6, <1>7, <1>8, <1>9, <1>10 DEF Gate!Next

\* With nothing to do but to look, a plan of no steps breaks no rule and owes no goal.
LEMMA NothingWorks ==
    ASSUME CertInv, steps = << >>, Gate!NothingToDo
    PROVE  /\ Gate!Reality(steps, world).ok
           /\ Gate!ToSet(tasks) \ Gate!Untouched(tasks, steps) = {}
<1> DEFINE start == [w |-> world, ok |-> TRUE, put |-> [o \in Thing |-> Gate!Step("nothing", None)]]
<1>1. DOMAIN steps = 1..0
  BY PlanIs, NoneIs
<1>2. PICK it : FoldsPlan(it, "run", start, steps, 0, tasks) /\ Gate!Reality(steps, world) = it[1..0]
  BY <1>1, RealityFolds, 0 \in Nat
<1>3. it[1..0] = start
  <2> HIDE DEF start
  <2>1. FoldedSteps(it, "run", start, steps, 0, tasks)
    BY <1>2, FoldSteps, 0 \in Nat
  <2> QED
    BY <2>1 DEF FoldedSteps
<1> QED
  BY <1>2, <1>3 DEF Gate!NothingToDo

(***************************************************************************)
(* A plan that runs works.  When _check finds nothing critical in it and   *)
(* _hard_findings nothing at all, no step of it breaks a rule of the       *)
(* actions, and once it has run every goal that is not left to be looked   *)
(* at afterwards really holds, though _missing only counts what the steps  *)
(* say: _word_pick lets nothing be picked again that was put where it      *)
(* belongs, and _word_place nothing be put elsewhere.                      *)
(***************************************************************************)
THEOREM CertifiedWork == Gate!Spec => []CertifiedPlansWork
<1>1. CertInv => CertifiedPlansWork
  <2> SUFFICES ASSUME CertInv, stage = "execute"
               PROVE  /\ Gate!Reality(steps, world).ok
                      /\ \A g \in Gate!ToSet(tasks) \ Gate!Untouched(tasks, steps) :
                            Gate!InReality(g, steps, world)
    BY DEF CertifiedPlansWork, Gate!CertifiedPlansWork
  <2>1. CASE steps # << >> /\ ~Gate!Blocked(steps, world, tasks)
    BY <2>1, UnblockedWorks DEF CertInv
  <2>2. CASE steps = << >> /\ Gate!NothingToDo
    BY <2>2, NothingWorks
  <2> QED
    BY <2>1, <2>2 DEF CertInv
<1> QED
  BY <1>1, InitCert, NextCert, PTL DEF Gate!Spec

(***************************************************************************)
(* What a plan and its beginnings are, and where a walk of one begins.     *)
(***************************************************************************)

\* Two plans of the same steps are one.
LEMMA SamePlan ==
    ASSUME NEW s, NEW t, IsPlan(s), IsPlan(t), Len(s) = Len(t), \A i \in 1..Len(s) : s[i] = t[i]
    PROVE  s = t
<1>1. PICK S : s \in Seq(S)
  BY DEF IsPlan
<1>2. PICK T : t \in Seq(T)
  BY DEF IsPlan
<1>3. s \in [1..Len(s) -> S] /\ t \in [1..Len(s) -> T]
  BY <1>1, <1>2
<1> QED
  BY <1>3

\* What a plan with one more step is.
LEMMA AppendSteps ==
    ASSUME NEW s, IsPlan(s), NEW x
    PROVE  /\ IsPlan(Append(s, x)) /\ Len(Append(s, x)) = Len(s) + 1
           /\ \A i \in 1..Len(s) : Append(s, x)[i] = s[i]
           /\ Append(s, x)[Len(s) + 1] = x
<1>1. PICK S : s \in Seq(S)
  BY DEF IsPlan
<1>2. s \in Seq(S \union {x}) /\ x \in S \union {x}
  BY <1>1
<1> QED
  BY <1>2, AppendIs

\* The beginnings of a plan, one step longer each.
LEMMA Begins ==
    ASSUME NEW s, IsPlan(s)
    PROVE  /\ SubSeq(s, 1, 0) = << >> /\ SubSeq(s, 1, Len(s)) = s
           /\ \A k \in Nat : k < Len(s) => SubSeq(s, 1, k + 1) = Append(SubSeq(s, 1, k), s[k + 1])
<1>1. Len(s) \in Nat
  BY PlanIs
<1>2. ASSUME NEW k \in Nat, k <= Len(s)
      PROVE  IsPlan(SubSeq(s, 1, k)) /\ Len(SubSeq(s, 1, k)) = k /\ \A i \in 1..k : SubSeq(s, 1, k)[i] = s[i]
  BY <1>1, <1>2, PlanIs, 1 \in Nat
<1>3. SubSeq(s, 1, 0) = << >>
  BY <1>1, <1>2, NoneIs, SamePlan
<1>4. SubSeq(s, 1, Len(s)) = s
  <2> DEFINE t == SubSeq(s, 1, Len(s))
  <2>1. IsPlan(t) /\ Len(t) = Len(s) /\ \A i \in 1..Len(s) : t[i] = s[i]
    BY <1>1, <1>2
  <2> HIDE DEF t
  <2>2. t = s
    BY <2>1, SamePlan
  <2> QED
    BY <2>2 DEF t
<1>5. ASSUME NEW k \in Nat, k < Len(s) PROVE SubSeq(s, 1, k + 1) = Append(SubSeq(s, 1, k), s[k + 1])
  <2> DEFINE t == SubSeq(s, 1, k + 1)
             u == Append(SubSeq(s, 1, k), s[k + 1])
  <2>1. IsPlan(t) /\ Len(t) = k + 1 /\ \A i \in 1..(k + 1) : t[i] = s[i]
    BY <1>1, <1>2, <1>5
  <2>2. IsPlan(SubSeq(s, 1, k)) /\ Len(SubSeq(s, 1, k)) = k /\ \A i \in 1..k : SubSeq(s, 1, k)[i] = s[i]
    BY <1>1, <1>2, <1>5
  <2>3. IsPlan(u) /\ Len(u) = k + 1 /\ u[k + 1] = s[k + 1] /\ \A i \in 1..k : u[i] = s[i]
    BY <2>2, AppendSteps
  <2> HIDE DEF t, u
  <2>4. \A i \in 1..(k + 1) : t[i] = u[i]
    BY <2>1, <2>3
  <2>5. t = u
    BY <2>1, <2>3, <2>4, SamePlan
  <2> QED
    BY <2>5 DEF t, u
<1> QED
  BY <1>3, <1>4, <1>5

\* Two plans that begin alike.
BeginAlike(s, t, j) == \A i \in 1..j : s[i] = t[i]

\* A fold over a plan is one over its beginnings first.
LEMMA FoldPrefix ==
    ASSUME NEW kind \in {"count", "walk"}, NEW start, NEW s, NEW t, NEW task,
           NEW n \in Nat, NEW m \in Nat, NEW f, NEW g, NEW j \in Nat, j <= n, j <= m,
           FoldedSteps(f, kind, start, s, n, task), FoldedSteps(g, kind, start, t, m, task),
           BeginAlike(s, t, j)
    PROVE  f[1..j] = g[1..j]
<1> DEFINE Good == {k \in Nat : k <= j => f[1..k] = g[1..k]}
<1>1. 0 \in Good
  BY DEF FoldedSteps
<1>2. ASSUME NEW k \in Nat, k \in Good PROVE k + 1 \in Good
  <2> SUFFICES ASSUME k + 1 <= j PROVE f[1..(k + 1)] = g[1..(k + 1)]
    OBVIOUS
  <2>1. f[1..k] = g[1..k] /\ s[k + 1] = t[k + 1]
    BY <1>2 DEF BeginAlike
  <2>2. /\ f[1..(k + 1)] = Did(kind, f[1..k], s, k + 1, task)
        /\ g[1..(k + 1)] = Did(kind, g[1..k], t, k + 1, task)
    BY DEF FoldedSteps
  <2>3. Did(kind, f[1..k], s, k + 1, task) = Did(kind, g[1..k], t, k + 1, task)
    BY <2>1 DEF Did
  <2> QED
    BY <2>2, <2>3
<1>3. j \in Good
  <2> HIDE DEF Good
  <2> QED
    BY <1>1, <1>2, Induct
<1> QED
  BY <1>3

\* The belief a walk begins with, and a count of the goals.
WalkStart(w) == [w |-> w, placedOk |-> [o \in Thing |-> None], found |-> {}]
CountStart(w) == [holding |-> w.holding, opened |-> w.opened,
                  on |-> [o \in Thing |-> Gate!Step("nothing", None)]]

\* The checker walks through a plan step by step.
LEMMA WalkAppend ==
    ASSUME NEW s, IsPlan(s), NEW x, NEW w, NEW task
    PROVE  /\ Gate!Walk(<< >>, w, task) = WalkStart(w)
           /\ Gate!Walk(Append(s, x), w, task)
                = Gate!WalkStep(Gate!Walk(s, w, task), x, Len(s) + 1, task)
<1> DEFINE n == Len(s)
           t == Append(s, x)
<1>1. n \in Nat /\ n + 1 \in Nat /\ DOMAIN s = 1..n /\ IsPlan(t) /\ DOMAIN t = 1..(n + 1)
      /\ (\A i \in 1..n : t[i] = s[i]) /\ t[n + 1] = x
  BY PlanIs, AppendSteps
<1> HIDE DEF n, t
<1>2. PICK f : FoldsPlan(f, "walk", WalkStart(w), s, n, task) /\ Gate!Walk(s, w, task) = f[1..n]
  BY <1>1, WalkFolds DEF WalkStart
<1>3. PICK g : FoldsPlan(g, "walk", WalkStart(w), t, n + 1, task) /\ Gate!Walk(t, w, task) = g[1..(n + 1)]
  BY <1>1, WalkFolds DEF WalkStart
<1>4. FoldedSteps(f, "walk", WalkStart(w), s, n, task)
  BY <1>1, <1>2, FoldSteps
<1>5. FoldedSteps(g, "walk", WalkStart(w), t, n + 1, task)
  BY <1>1, <1>3, FoldSteps
<1>6. f[1..n] = g[1..n]
  <2>1. n <= n + 1 /\ n <= n /\ "walk" \in {"count", "walk"} /\ BeginAlike(s, t, n)
    BY <1>1 DEF BeginAlike
  <2> QED
    BY <1>1, <1>4, <1>5, <2>1, FoldPrefix
<1>7. g[1..(n + 1)] = Gate!WalkStep(g[1..n], x, n + 1, task)
  BY <1>1, <1>5 DEF FoldedSteps, Did
<1>8. Gate!Walk(<< >>, w, task) = WalkStart(w)
  <2>1. DOMAIN << >> = 1..0
    BY NoneIs, PlanIs
  <2>2. PICK h : FoldsPlan(h, "walk", WalkStart(w), << >>, 0, task) /\ Gate!Walk(<< >>, w, task) = h[1..0]
    BY <2>1, WalkFolds, 0 \in Nat DEF WalkStart
  <2>3. FoldedSteps(h, "walk", WalkStart(w), << >>, 0, task)
    BY <2>2, FoldSteps, 0 \in Nat
  <2> QED
    BY <2>2, <2>3 DEF FoldedSteps
<1> QED
  BY <1>2, <1>3, <1>6, <1>7, <1>8 DEF n, t

\* And what it counts, too.
LEMMA CountAppend ==
    ASSUME NEW s, IsPlan(s), NEW x, NEW w
    PROVE  /\ Gate!Counted(<< >>, w) = CountStart(w)
           /\ Gate!Counted(Append(s, x), w) = Gate!CountStep(Gate!Counted(s, w), x)
<1> DEFINE n == Len(s)
           t == Append(s, x)
           task == << >>
<1>1. n \in Nat /\ n + 1 \in Nat /\ DOMAIN s = 1..n /\ IsPlan(t) /\ DOMAIN t = 1..(n + 1)
      /\ (\A i \in 1..n : t[i] = s[i]) /\ t[n + 1] = x
  BY PlanIs, AppendSteps
<1> HIDE DEF n, t, task
<1>2. PICK f : FoldsPlan(f, "count", CountStart(w), s, n, task) /\ Gate!Counted(s, w) = f[1..n]
  <2>1. n \in Nat /\ DOMAIN s = 1..n
    BY <1>1
  <2> QED
    BY <2>1, CountedFolds DEF CountStart
<1>3. PICK g : FoldsPlan(g, "count", CountStart(w), t, n + 1, task) /\ Gate!Counted(t, w) = g[1..(n + 1)]
  <2>1. n + 1 \in Nat /\ DOMAIN t = 1..(n + 1)
    BY <1>1
  <2> QED
    BY <2>1, CountedFolds DEF CountStart
<1>4. FoldedSteps(f, "count", CountStart(w), s, n, task)
  BY <1>1, <1>2, FoldSteps
<1>5. FoldedSteps(g, "count", CountStart(w), t, n + 1, task)
  BY <1>1, <1>3, FoldSteps
<1>6. f[1..n] = g[1..n]
  <2>1. n <= n + 1 /\ n <= n /\ "count" \in {"count", "walk"} /\ BeginAlike(s, t, n)
    BY <1>1 DEF BeginAlike
  <2> QED
    BY <1>1, <1>4, <1>5, <2>1, FoldPrefix
<1>7. g[1..(n + 1)] = Gate!CountStep(g[1..n], x)
  BY <1>1, <1>5 DEF FoldedSteps, Did
<1>8. Gate!Counted(<< >>, w) = CountStart(w)
  <2>1. DOMAIN << >> = 1..0
    BY NoneIs, PlanIs
  <2>2. PICK h : FoldsPlan(h, "count", CountStart(w), << >>, 0, task) /\ Gate!Counted(<< >>, w) = h[1..0]
    BY <2>1, CountedFolds, 0 \in Nat DEF CountStart
  <2>3. FoldedSteps(h, "count", CountStart(w), << >>, 0, task)
    BY <2>2, FoldSteps, 0 \in Nat
  <2> QED
    BY <2>2, <2>3 DEF FoldedSteps
<1> QED
  BY <1>2, <1>3, <1>6, <1>7, <1>8 DEF n, t

\* Where the gate says that the robot is after n steps.
LEMMA HereStands ==
    ASSUME NEW s, NEW at, NEW n \in Nat
    PROVE  StandsAt(s, at, n, Gate!Here(s, n, at))
<1> DEFINE moves == {i \in 1..n : s[i].action = "MoveTo"}
<1>1. Gate!Here(s, n, at) = IF moves = {} THEN at ELSE s[Gate!Max(moves)].object
  BY DEF Gate!Here
<1>2. CASE moves = {}
  BY <1>1, <1>2 DEF StandsAt
<1>3. CASE moves # {}
  <2>1. Gate!Max(moves) \in moves /\ \A i \in moves : i <= Gate!Max(moves)
    <3>1. \E x \in moves : \A y \in moves : y <= x
      BY <1>3, LastThere
    <3>2. \A x \in moves : x >= x
      OBVIOUS
    <3> QED
      BY <3>1 DEF Gate!Max
  <2>2. \A i \in (Gate!Max(moves) + 1)..n : s[i].action # "MoveTo"
    BY <2>1
  <2> QED
    BY <1>1, <1>3, <2>1, <2>2 DEF StandsAt
<1> QED
  BY <1>2, <1>3

(***************************************************************************)
(* What the checker says of a step, and of what that depends.              *)
(***************************************************************************)

\* What the checker may say of a step.
Names ==
    {"unknown_action", "empty_object", "already_there", "find_held", "already_holding",
     "no_find_before_pick", "pick_not_found", "place_without_holding", "place_wrong_location",
     "putin_closed_container", "not_openable", "hand_full", "interact_without_find",
     "already_open", "close_not_opened", "find_wrong_place", "not_a_place", "not_needed",
     "cannot_pick", "already_placed", "wrong_destination"}

\* It says a few things at most.
LEMMA NamesFew == IsFiniteSet(Names) /\ "not_achieved" \notin Names /\ "goals_done" \notin Names
<1>1. ASSUME NEW a, NEW b, NEW c PROVE IsFiniteSet({a, b, c})
  <2>1. IsFiniteSet({a}) /\ IsFiniteSet({b}) /\ IsFiniteSet({c})
    BY FS_Singleton
  <2>2. IsFiniteSet({a} \union {b})
    BY <2>1, FS_Union
  <2>3. IsFiniteSet(({a} \union {b}) \union {c})
    BY <2>1, <2>2, FS_Union
  <2>4. ({a} \union {b}) \union {c} = {a, b, c}
    OBVIOUS
  <2> QED
    BY <2>3, <2>4
<1> DEFINE A1 == {"unknown_action", "empty_object", "already_there"}
           A2 == {"find_held", "already_holding", "no_find_before_pick"}
           A3 == {"pick_not_found", "place_without_holding", "place_wrong_location"}
           A4 == {"putin_closed_container", "not_openable", "hand_full"}
           A5 == {"interact_without_find", "already_open", "close_not_opened"}
           A6 == {"find_wrong_place", "not_a_place", "not_needed"}
           A7 == {"cannot_pick", "already_placed", "wrong_destination"}
<1>2. /\ IsFiniteSet(A1) /\ IsFiniteSet(A2) /\ IsFiniteSet(A3) /\ IsFiniteSet(A4)
      /\ IsFiniteSet(A5) /\ IsFiniteSet(A6) /\ IsFiniteSet(A7)
  BY <1>1
<1>3. Names = A1 \union A2 \union A3 \union A4 \union A5 \union A6 \union A7
  BY DEF Names
<1>4. "not_achieved" \notin Names /\ "goals_done" \notin Names
  BY DEF Names
<1> HIDE DEF A1, A2, A3, A4, A5, A6, A7
<1>5. IsFiniteSet(A1 \union A2 \union A3)
  BY <1>2, FS_Union
<1>6. IsFiniteSet(A1 \union A2 \union A3 \union A4 \union A5)
  BY <1>2, <1>5, FS_Union
<1>7. IsFiniteSet(A1 \union A2 \union A3 \union A4 \union A5 \union A6 \union A7)
  BY <1>2, <1>6, FS_Union
<1> QED
  BY <1>3, <1>4, <1>7

\* The rules have names.
RuleNames ==
    {"unknown_action", "empty_object", "already_there", "find_held", "already_holding",
     "no_find_before_pick", "pick_not_found", "place_without_holding", "place_wrong_location",
     "putin_closed_container", "not_openable", "hand_full", "interact_without_find",
     "already_open", "close_not_opened"}

\* They are the same for every step.
LEMMA RulesNamed == ASSUME NEW st, NEW w PROVE DOMAIN Gate!Rules(st, w) = RuleNames
  BY DEF Gate!Rules, RuleNames

\* Which rules a step breaks.
LEMMA BrokenIs ==
    ASSUME NEW st, NEW w, NEW task
    PROVE  /\ Gate!Broken(st, w, task) \subseteq RuleNames \union {"find_wrong_place"}
           /\ \A r \in RuleNames : r \in Gate!Broken(st, w, task) <=> Gate!Rules(st, w)[r]
           /\ "find_wrong_place" \in Gate!Broken(st, w, task) <=>
                st.action = "Find" /\ Gate!Source(task, st.object) \notin {None, w.arrived}
<1>1. "find_wrong_place" \notin RuleNames
  BY DEF RuleNames
<1> QED
  BY <1>1, RulesNamed DEF Gate!Broken

\* Whatever it says of a step is one of those few things.
LEMMA WordedNames ==
    ASSUME NEW st, NEW w, NEW task, NEW placedOk
    PROVE  Gate!Worded(st, w, task, placedOk) \subseteq Names
<1> DEFINE broken == Gate!Errors(st, w, task)
           skipped == Gate!Skipped(st, broken)
<1>1. broken \subseteq Names
  BY BrokenIs DEF Gate!Errors, RuleNames, Names
<1>2. skipped \subseteq Names
  BY DEF Gate!Skipped, Names
<1>3. /\ "not_a_place" \in Names /\ "not_needed" \in Names /\ "cannot_pick" \in Names
      /\ "already_placed" \in Names /\ "wrong_destination" \in Names
  BY DEF Names
<1>4. CASE skipped # {}
  <2>1. Gate!Worded(st, w, task, placedOk) = skipped
    BY <1>4 DEF Gate!Worded, broken, skipped
  <2> QED
    BY <1>2, <2>1
<1>5. CASE skipped = {}
  <2> HIDE DEF skipped
  <2>1. CASE st.action \in {"Open", "Close"}
    <3>1. Gate!Worded(st, w, task, placedOk) \in {broken, broken \union {"not_needed"}}
      BY <1>5, <2>1 DEF Gate!Worded, broken, skipped
    <3> QED
      BY <1>1, <1>3, <3>1
  <2>2. CASE st.action = "Pick"
    <3>1. Gate!Worded(st, w, task, placedOk) \subseteq {"cannot_pick", "already_placed"}
      BY <1>5, <2>2 DEF Gate!Worded, broken, skipped
    <3> QED
      BY <1>3, <3>1
  <2>3. CASE st.action \in {"Place", "PutIn"}
    <3>1. Gate!Worded(st, w, task, placedOk) \subseteq broken \union {"not_a_place", "wrong_destination"}
      BY <1>5, <2>3 DEF Gate!Worded, broken, skipped
    <3> QED
      BY <1>1, <1>3, <3>1
  <2>4. CASE st.action \notin {"Open", "Close", "Pick", "Place", "PutIn"}
    <3>1. Gate!Worded(st, w, task, placedOk) = broken
      BY <1>5, <2>4 DEF Gate!Worded, broken, skipped
    <3> QED
      BY <1>1, <3>1
  <2> QED
    BY <2>1, <2>2, <2>3, <2>4
<1> QED
  BY <1>4, <1>5

\* Two beliefs that differ in nothing but what was found last.
SameBut(w, v) ==
    /\ DOMAIN w = WorldFields /\ DOMAIN v = WorldFields
    /\ w.arrived = v.arrived /\ w.holding = v.holding /\ w.opened = v.opened

\* No step but a Pick asks what was found last.
LEMMA RulesSame ==
    ASSUME NEW st, NEW w, NEW v, NEW task, NEW placedOk, SameBut(w, v), st.action # "Pick"
    PROVE  /\ Gate!Errors(st, w, task) = Gate!Errors(st, v, task)
           /\ Gate!Worded(st, w, task, placedOk) = Gate!Worded(st, v, task, placedOk)
<1>1. Gate!Rules(st, w) = Gate!Rules(st, v)
  BY DEF Gate!Rules, SameBut
<1>2. Gate!Broken(st, w, task) = Gate!Broken(st, v, task)
  <2> w.arrived = v.arrived
    BY DEF SameBut
  <2> QED
    BY <1>1 DEF Gate!Broken
<1>3. Gate!Errors(st, w, task) = Gate!Errors(st, v, task)
  BY <1>2 DEF Gate!Errors
<1>4. w.holding = v.holding
  BY DEF SameBut
<1>5. Gate!Worded(st, w, task, placedOk) = Gate!Worded(st, v, task, placedOk)
  BY <1>3, <1>4 DEF Gate!Worded
<1> QED
  BY <1>3, <1>5

\* What the checker says of a Pick.
LEMMA PickWorded ==
    ASSUME NEW st, NEW w, NEW task, NEW placedOk, st.action = "Pick"
    PROVE  LET broken == Gate!Errors(st, w, task)
               again == Gate!AlreadyPlaced(st.object, task, placedOk)
           IN  /\ "Pick" \notin PlanActions =>
                    /\ Gate!Skipped(st, broken) = {"unknown_action"}
                    /\ Gate!Worded(st, w, task, placedOk) = {"unknown_action"}
               /\ "Pick" \in PlanActions =>
                    /\ Gate!Skipped(st, broken) = {}
                    /\ broken = {} <=> w.holding = None /\ w.found # None /\ w.found = st.object
                    /\ Gate!Worded(st, w, task, placedOk) =
                        (IF broken = {} THEN {} ELSE {"cannot_pick"}) \union
                        (IF again THEN {"already_placed"} ELSE {})
<1> DEFINE broken == Gate!Errors(st, w, task)
           again == Gate!AlreadyPlaced(st.object, task, placedOk)
<1>1. \A r \in RuleNames : r \in Gate!Broken(st, w, task) <=> Gate!Rules(st, w)[r]
  BY BrokenIs
<1>2. /\ "unknown_action" \in Gate!Broken(st, w, task) <=> "Pick" \notin PlanActions
      /\ "not_openable" \notin Gate!Broken(st, w, task)
      /\ "already_there" \notin Gate!Broken(st, w, task)
      /\ "already_holding" \in Gate!Broken(st, w, task) <=> w.holding # None
      /\ "no_find_before_pick" \in Gate!Broken(st, w, task) <=> w.found = None
      /\ "pick_not_found" \in Gate!Broken(st, w, task) <=> w.found \notin {None, st.object}
  BY <1>1 DEF Gate!Rules, RuleNames
<1>3. Gate!Broken(st, w, task) \subseteq
        {"unknown_action", "already_holding", "no_find_before_pick", "pick_not_found"}
  <2>1. \A r \in RuleNames \ {"unknown_action", "already_holding", "no_find_before_pick", "pick_not_found"} :
            ~Gate!Rules(st, w)[r]
    <3> DEFINE R == Gate!Rules(st, w)
    <3>1. /\ ~R["empty_object"] /\ ~R["already_there"] /\ ~R["find_held"]
          /\ ~R["place_without_holding"] /\ ~R["place_wrong_location"]
          /\ ~R["putin_closed_container"] /\ ~R["not_openable"] /\ ~R["hand_full"]
          /\ ~R["interact_without_find"] /\ ~R["already_open"] /\ ~R["close_not_opened"]
      BY DEF Gate!Rules
    <3> HIDE DEF R
    <3>2. \A r \in RuleNames \ {"unknown_action", "already_holding", "no_find_before_pick", "pick_not_found"} : ~R[r]
      BY <3>1 DEF RuleNames
    <3> QED
      BY <3>2 DEF R
  <2>2. ASSUME NEW r \in Gate!Broken(st, w, task),
               r \notin {"unknown_action", "already_holding", "no_find_before_pick", "pick_not_found"}
        PROVE  FALSE
    <3>1. r \in RuleNames \union {"find_wrong_place"}
      BY BrokenIs
    <3>2. CASE r \in RuleNames
      BY <1>1, <2>1, <2>2, <3>2
    <3>3. CASE r = "find_wrong_place"
      <4>1. st.action = "Find"
        BY <2>2, <3>3, BrokenIs
      <4> QED
        BY <4>1
    <3> QED
      BY <3>1, <3>2, <3>3
  <2> QED
    BY <2>2
<1>4. /\ "unknown_action" \in broken <=> "Pick" \notin PlanActions
      /\ "not_openable" \notin broken
  BY <1>2 DEF Gate!Errors
<1>5. "Pick" \in PlanActions =>
        (broken = {} <=> w.holding = None /\ w.found # None /\ w.found = st.object)
  BY <1>2, <1>3 DEF Gate!Errors
<1> HIDE DEF broken, again
<1>6. CASE "Pick" \notin PlanActions
  <2>1. Gate!Skipped(st, broken) = {"unknown_action"}
    BY <1>4, <1>6 DEF Gate!Skipped
  <2>2. Gate!Worded(st, w, task, placedOk) = Gate!Skipped(st, broken)
    BY <2>1 DEF Gate!Worded, broken
  <2> QED
    BY <1>6, <2>1, <2>2 DEF broken
<1>7. CASE "Pick" \in PlanActions
  <2>1. Gate!Skipped(st, broken) = {}
    BY <1>4, <1>7 DEF Gate!Skipped
  <2>2. Gate!Worded(st, w, task, placedOk) =
            {"cannot_pick" : x \in broken} \union (IF again THEN {"already_placed"} ELSE {})
    BY <2>1 DEF Gate!Worded, broken, again
  <2>3. {"cannot_pick" : x \in broken} = IF broken = {} THEN {} ELSE {"cannot_pick"}
    OBVIOUS
  <2> QED
    BY <1>5, <1>7, <2>1, <2>2, <2>3 DEF broken, again
<1> QED
  BY <1>6, <1>7

(***************************************************************************)
(* plan_tidy leaves out what does nothing in a world in which every other  *)
(* step takes effect; in the checker's some do not.  What the one tells of *)
(* the other.                                                              *)
(***************************************************************************)

\* Whose effect the checker leaves out.
LEMMA SkippedIs ==
    ASSUME NEW st, NEW w, NEW task
    PROVE  Gate!Skipped(st, Gate!Errors(st, w, task)) # {} <=>
            \/ st.action \notin PlanActions
            \/ st.action = "MoveTo" /\ st.object \notin Spot
            \/ st.action \in {"Open", "Close"} /\ st.object \notin Container
<1> DEFINE broken == Gate!Errors(st, w, task)
<1>1. "unknown_action" \in RuleNames /\ "not_openable" \in RuleNames
  BY DEF RuleNames
<1>2. /\ "unknown_action" \in Gate!Broken(st, w, task) <=> Gate!Rules(st, w)["unknown_action"]
      /\ "not_openable" \in Gate!Broken(st, w, task) <=> Gate!Rules(st, w)["not_openable"]
  BY <1>1, BrokenIs
<1>3. /\ "unknown_action" \in broken <=> st.action \notin PlanActions
      /\ "not_openable" \in broken <=> st.action \in {"Open", "Close"} /\ st.object \notin Container
  BY <1>2 DEF Gate!Rules, Gate!Errors
<1> HIDE DEF broken
<1>4. Gate!Skipped(st, broken) # {} <=>
        \/ "unknown_action" \in broken
        \/ st.action = "MoveTo" /\ st.object \notin Spot
        \/ "not_openable" \in broken
  BY DEF Gate!Skipped
<1> QED
  BY <1>3, <1>4 DEF broken

\* A step that does nothing, and why.
LEMMA NoopIs ==
    ASSUME NEW st, NEW w, Gate!Noop(st, w)
    PROVE  /\ st.action \in PlanActions
           /\ \/ st.action = "Pick" /\ w.holding # None /\ w.holding = st.object
              \/ st.action = "MoveTo" /\ st.object = w.arrived
              \/ st.action = "Find" /\ w.holding # None /\ w.holding = st.object
              \/ st.action = "Open" /\ st.object \in Container /\ st.object \in w.opened
              \/ st.action = "Close" /\ st.object \in Container /\ st.object \notin w.opened
<1> DEFINE broken == Gate!Broken(st, w, << >>)
           R == Gate!Rules(st, w)
<1>1. \A r \in RuleNames : r \in broken <=> R[r]
  BY BrokenIs
<1>2. "find_wrong_place" \notin broken
  <2>1. Gate!Source(<< >>, st.object) = None
    BY DEF Gate!Source
  <2> QED
    BY <2>1, BrokenIs
<1>3. broken \subseteq RuleNames
  BY <1>2, BrokenIs
<1>4. /\ R["unknown_action"] <=> st.action \notin PlanActions
      /\ R["empty_object"] <=> st.action \in {"MoveTo", "Find"} /\ st.object = None
      /\ R["already_there"] <=> st.action = "MoveTo" /\ st.object = w.arrived
      /\ R["find_held"] <=> st.action = "Find" /\ st.object = w.holding
      /\ R["not_openable"] <=> st.action \in {"Open", "Close"} /\ st.object \notin Container
      /\ R["already_open"] <=> st.action = "Open" /\ st.object \in w.opened
      /\ R["close_not_opened"] <=> st.action = "Close" /\ st.object \notin w.opened
  BY DEF Gate!Rules
<1> HIDE DEF R
<1>5. "unknown_action" \notin broken => st.action \in PlanActions
  BY <1>1, <1>4 DEF RuleNames
<1>6. CASE st.action = "Pick"
  <2>1. /\ w.holding # None /\ w.holding = st.object
        /\ broken \subseteq {"already_holding", "no_find_before_pick", "pick_not_found"}
    BY <1>6 DEF Gate!Noop
  <2> QED
    BY <1>5, <1>6, <2>1
<1>7. CASE st.action # "Pick"
  <2>1. /\ broken # {}
        /\ broken \subseteq {"find_held", "already_there", "already_open", "close_not_opened"}
    BY <1>7 DEF Gate!Noop
  <2> HIDE DEF broken
  <2>2. /\ "unknown_action" \notin broken /\ "empty_object" \notin broken /\ "not_openable" \notin broken
        /\ \/ "find_held" \in broken \/ "already_there" \in broken
           \/ "already_open" \in broken \/ "close_not_opened" \in broken
    BY <2>1
  <2>3. /\ ~R["empty_object"] /\ ~R["not_openable"]
        /\ R["find_held"] \/ R["already_there"] \/ R["already_open"] \/ R["close_not_opened"]
    BY <1>1, <2>2 DEF RuleNames
  <2> QED
    BY <1>4, <1>5, <2>2, <2>3
<1> QED
  BY <1>6, <1>7

\* What a step makes of two beliefs that differ in what was found last.
LEMMA ApplySame ==
    ASSUME NEW st, NEW w, NEW v, SameBut(w, v)
    PROVE  /\ SameBut(Gate!Apply(st, w), Gate!Apply(st, v))
           /\ Gate!Apply(st, w).found \notin {None, Gate!Apply(st, v).found} =>
                w.found \notin {None, v.found}
<1>0. /\ DOMAIN w = WorldFields /\ DOMAIN v = WorldFields
      /\ w.arrived = v.arrived /\ w.holding = v.holding /\ w.opened = v.opened
  BY DEF SameBut
<1>1. CASE st.action = "MoveTo"
  BY <1>0, <1>1 DEF SameBut, Gate!Apply, WorldFields
<1>2. CASE st.action = "Find"
  BY <1>0, <1>2 DEF SameBut, Gate!Apply, WorldFields
<1>3. CASE st.action = "Pick"
  BY <1>0, <1>3 DEF SameBut, Gate!Apply, WorldFields
<1>4. CASE st.action \in {"Place", "PutIn"}
  BY <1>0, <1>4 DEF SameBut, Gate!Apply, WorldFields
<1>5. CASE st.action = "Open"
  BY <1>0, <1>5 DEF SameBut, Gate!Apply, WorldFields
<1>6. CASE st.action = "Close"
  BY <1>0, <1>6 DEF SameBut, Gate!Apply, WorldFields
<1>7. CASE st.action \notin {"MoveTo", "Find", "Pick", "Place", "PutIn", "Open", "Close"}
  BY <1>0, <1>7 DEF SameBut, Gate!Apply, WorldFields
<1> QED
  BY <1>1, <1>2, <1>3, <1>4, <1>5, <1>6, <1>7

\* The steps that do nothing are found in a world w in which every other step takes
\* effect; in the checker's world v some do not.  What w says of v.
Knows(w, v) ==
    /\ "MoveTo" \in PlanActions /\ w.arrived \in Spot => v.arrived = w.arrived
    /\ "Pick" \in PlanActions /\ w.holding # None => v.holding = w.holding
    /\ "Open" \in PlanActions => w.opened \cap Container \subseteq v.opened
    /\ "Close" \in PlanActions => v.opened \cap Container \subseteq w.opened

\* It says as much after a step.
LEMMA KnowsNext ==
    ASSUME NEW st, NEW w, NEW v, NEW task, Knows(w, v),
           DOMAIN w = WorldFields, DOMAIN v = WorldFields
    PROVE  LET v1 == IF Gate!Skipped(st, Gate!Errors(st, v, task)) # {} THEN v ELSE Gate!Apply(st, v)
           IN  Knows(Gate!Apply(st, w), v1) /\ DOMAIN Gate!Apply(st, w) = WorldFields
<1> DEFINE v1 == IF Gate!Skipped(st, Gate!Errors(st, v, task)) # {} THEN v ELSE Gate!Apply(st, v)
           w1 == Gate!Apply(st, w)
<1>1. v1 = IF \/ st.action \notin PlanActions
              \/ st.action = "MoveTo" /\ st.object \notin Spot
              \/ st.action \in {"Open", "Close"} /\ st.object \notin Container
           THEN v ELSE Gate!Apply(st, v)
  BY SkippedIs
<1>2. w1 = Gate!Apply(st, w)
  OBVIOUS
<1> HIDE DEF v1, w1
<1> SUFFICES Knows(w1, v1) /\ DOMAIN w1 = WorldFields
  BY DEF v1, w1
<1>3. CASE st.action = "MoveTo"
  <2>1. /\ w1.arrived = st.object /\ w1.holding = w.holding /\ w1.opened = w.opened /\ DOMAIN w1 = WorldFields
    BY <1>2, <1>3 DEF Gate!Apply, WorldFields
  <2>2. /\ v1.holding = v.holding /\ v1.opened = v.opened
        /\ "MoveTo" \in PlanActions /\ st.object \in Spot => v1.arrived = st.object
    BY <1>1, <1>3 DEF Gate!Apply, WorldFields
  <2> QED
    BY <2>1, <2>2 DEF Knows
<1>4. CASE st.action = "Find"
  <2>1. /\ w1.arrived = w.arrived /\ w1.holding = w.holding /\ w1.opened = w.opened /\ DOMAIN w1 = WorldFields
    BY <1>2, <1>4 DEF Gate!Apply, WorldFields
  <2>2. /\ v1.arrived = v.arrived /\ v1.holding = v.holding /\ v1.opened = v.opened
    BY <1>1, <1>4 DEF Gate!Apply, WorldFields
  <2> QED
    BY <2>1, <2>2 DEF Knows
<1>5. CASE st.action = "Pick"
  <2>1. /\ w1.arrived = w.arrived /\ w1.holding = st.object /\ w1.opened = w.opened /\ DOMAIN w1 = WorldFields
    BY <1>2, <1>5 DEF Gate!Apply, WorldFields
  <2>2. /\ v1.arrived = v.arrived /\ v1.opened = v.opened
        /\ "Pick" \in PlanActions => v1.holding = st.object
    BY <1>1, <1>5 DEF Gate!Apply, WorldFields
  <2> QED
    BY <2>1, <2>2 DEF Knows
<1>6. CASE st.action \in {"Place", "PutIn"}
  <2>1. /\ w1.arrived = w.arrived /\ w1.holding = None /\ w1.opened = w.opened /\ DOMAIN w1 = WorldFields
    BY <1>2, <1>6 DEF Gate!Apply, WorldFields
  <2>2. /\ v1.arrived = v.arrived /\ v1.opened = v.opened
    BY <1>1, <1>6 DEF Gate!Apply, WorldFields
  <2> QED
    BY <2>1, <2>2 DEF Knows
<1>7. CASE st.action = "Open"
  <2>1. /\ w1.arrived = w.arrived /\ w1.holding = w.holding /\ w1.opened = w.opened \union {st.object}
        /\ DOMAIN w1 = WorldFields
    BY <1>2, <1>7 DEF Gate!Apply, WorldFields
  <2>2. /\ v1.arrived = v.arrived /\ v1.holding = v.holding
        /\ v1.opened \in {v.opened, v.opened \union {st.object}}
        /\ "Open" \in PlanActions /\ st.object \in Container => v1.opened = v.opened \union {st.object}
    BY <1>1, <1>7 DEF Gate!Apply, WorldFields
  <2>3. "Open" \in PlanActions => w1.opened \cap Container \subseteq v1.opened
    <3>1. CASE st.object \in Container
      BY <2>1, <2>2, <3>1 DEF Knows
    <3>2. CASE st.object \notin Container
      BY <2>1, <2>2, <3>2 DEF Knows
    <3> QED
      BY <3>1, <3>2
  <2>4. "Close" \in PlanActions => v1.opened \cap Container \subseteq w1.opened
    BY <2>1, <2>2 DEF Knows
  <2> QED
    BY <2>1, <2>2, <2>3, <2>4 DEF Knows
<1>8. CASE st.action = "Close"
  <2>1. /\ w1.arrived = w.arrived /\ w1.holding = w.holding /\ w1.opened = w.opened \ {st.object}
        /\ DOMAIN w1 = WorldFields
    BY <1>2, <1>8 DEF Gate!Apply, WorldFields
  <2>2. /\ v1.arrived = v.arrived /\ v1.holding = v.holding
        /\ v1.opened \in {v.opened, v.opened \ {st.object}}
        /\ "Close" \in PlanActions /\ st.object \in Container => v1.opened = v.opened \ {st.object}
    BY <1>1, <1>8 DEF Gate!Apply, WorldFields
  <2>3. "Open" \in PlanActions => w1.opened \cap Container \subseteq v1.opened
    BY <2>1, <2>2 DEF Knows
  <2>4. "Close" \in PlanActions => v1.opened \cap Container \subseteq w1.opened
    <3>1. CASE st.object \in Container
      BY <2>1, <2>2, <3>1 DEF Knows
    <3>2. CASE st.object \notin Container
      BY <2>1, <2>2, <3>2 DEF Knows
    <3> QED
      BY <3>1, <3>2
  <2> QED
    BY <2>1, <2>2, <2>3, <2>4 DEF Knows
<1>9. CASE st.action \notin {"MoveTo", "Find", "Pick", "Place", "PutIn", "Open", "Close"}
  <2>1. w1 = w /\ v1 = v
    BY <1>1, <1>2, <1>9 DEF Gate!Apply
  <2> QED
    BY <2>1
<1> QED
  BY <1>3, <1>4, <1>5, <1>6, <1>7, <1>8, <1>9

(***************************************************************************)
(* One step of a plan, walked as it was written and as far as it is kept.  *)
(***************************************************************************)

\* What is found at a step; findings of the first k steps.
FoundAt(i, W) == {<<i, x>> : x \in W}
Listed(found, k) == found \subseteq (1..k) \X Names

\* What those of the next step come to with them.
AddsUp(found, k, W) ==
    /\ Listed(found \union FoundAt(k + 1, W), k + 1)
    /\ IsFiniteSet(found) /\ Cardinality(found) \in Nat
    /\ IsFiniteSet(W) /\ Cardinality(W) \in Nat
    /\ Cardinality(found \union FoundAt(k + 1, W)) = Cardinality(found) + Cardinality(W)

\* Findings add up.
LEMMA FoundMore ==
    ASSUME NEW k \in Nat, NEW found, Listed(found, k), NEW W, W \subseteq Names
    PROVE  AddsUp(found, k, W)
<1> DEFINE more == FoundAt(k + 1, W)
<1>1. IsFiniteSet(W) /\ Cardinality(W) \in Nat
  BY NamesFew, FS_Subset, FS_CardinalityType
<1>2. IsFiniteSet(found) /\ Cardinality(found) \in Nat
  <2>1. IsFiniteSet(1..k)
    BY FS_Interval, 1 \in Int, k \in Int
  <2>2. IsFiniteSet((1..k) \X Names)
    BY <2>1, NamesFew, FS_Product
  <2> QED
    BY <2>2, FS_Subset, FS_CardinalityType DEF Listed
<1>3. IsFiniteSet(more) /\ Cardinality(more) = Cardinality(W)
  <2> DEFINE f == [x \in W |-> <<k + 1, x>>]
  <2>1. f \in [W -> more]
    BY DEF FoundAt
  <2>2. \A a, b \in W : f[a] = f[b] => a = b
    OBVIOUS
  <2>3. \A t \in more : \E x \in W : f[x] = t
    BY DEF FoundAt
  <2> HIDE DEF f, more
  <2>4. \A t \in more : \E x \in W : t = f[x]
    BY <2>3
  <2>5. f \in Bijection(W, more)
    BY <2>1, <2>2, <2>4 DEF Bijection, Injection, Surjection, IsInjective
  <2> QED
    BY <1>1, <2>5, FS_Bijection DEF ExistsBijection
<1>4. found \cap more = {}
  BY DEF Listed, FoundAt
<1>5. Listed(found \union more, k + 1)
  BY DEF Listed, FoundAt
<1> HIDE DEF more
<1>6. Cardinality(found \union more) = Cardinality(found) + Cardinality(W)
  <2>1. Cardinality(found \cap more) = 0
    BY <1>4, FS_EmptySet
  <2>2. Cardinality(found \union more)
            = Cardinality(found) + Cardinality(more) - Cardinality(found \cap more)
    BY <1>2, <1>3, <1>1, FS_Union
  <2> QED
    BY <1>1, <1>2, <1>3, <2>1, <2>2
<1> QED
  BY <1>1, <1>2, <1>5, <1>6 DEF more, AddsUp

\* The checker's walk A of some steps and its walk B of those that are kept of them: they
\* differ in what was found last, and w is the world in which no-ops are told.
Abreast(w, A, B) ==
    /\ SameBut(A.w, B.w) /\ A.placedOk = B.placedOk
    /\ Knows(w, A.w) /\ DOMAIN w = WorldFields

\* A found something that B did not: one Pick may be wrong in B that is not in A.
Debt(A, B) == IF "Pick" \in PlanActions /\ A.w.found \notin {None, B.w.found} THEN 1 ELSE 0

\* B found less than A, so much less that it can afford that.
Fewer(A, k, B, l) ==
    /\ Listed(A.found, k) /\ Listed(B.found, l)
    /\ Cardinality(B.found) + Debt(A, B) <= Cardinality(A.found)

\* What a step of the walk adds.
LEMMA WalkStepIs ==
    ASSUME NEW A, NEW st, NEW i, NEW task
    PROVE  LET A1 == Gate!WalkStep(A, st, i, task)
           IN  /\ A1.w = IF Gate!Skipped(st, Gate!Errors(st, A.w, task)) # {} THEN A.w
                         ELSE Gate!Apply(st, A.w)
               /\ A1.placedOk = IF st.action \in {"Place", "PutIn"} /\ A.w.holding # None
                                THEN [A.placedOk EXCEPT ![A.w.holding] = st.object]
                                ELSE A.placedOk
               /\ A1.found = A.found \union FoundAt(i, Gate!Worded(st, A.w, task, A.placedOk))
  BY DEF Gate!WalkStep, FoundAt

\* A step that is kept.
LEMMA KeptWalks ==
    ASSUME NEW w, NEW A, NEW B, Abreast(w, A, B), NEW k \in Nat, NEW l \in Nat, Fewer(A, k, B, l),
           NEW st, NEW task
    PROVE  /\ Abreast(Gate!Apply(st, w), Gate!WalkStep(A, st, k + 1, task), Gate!WalkStep(B, st, l + 1, task))
           /\ Fewer(Gate!WalkStep(A, st, k + 1, task), k + 1, Gate!WalkStep(B, st, l + 1, task), l + 1)
<1> DEFINE A1 == Gate!WalkStep(A, st, k + 1, task)
           B1 == Gate!WalkStep(B, st, l + 1, task)
           w1 == Gate!Apply(st, w)
           SA == Gate!Skipped(st, Gate!Errors(st, A.w, task))
           SB == Gate!Skipped(st, Gate!Errors(st, B.w, task))
           WA == Gate!Worded(st, A.w, task, A.placedOk)
           WB == Gate!Worded(st, B.w, task, B.placedOk)
<1>1. /\ A1.w = IF SA # {} THEN A.w ELSE Gate!Apply(st, A.w)
      /\ A1.placedOk = IF st.action \in {"Place", "PutIn"} /\ A.w.holding # None
                       THEN [A.placedOk EXCEPT ![A.w.holding] = st.object] ELSE A.placedOk
      /\ A1.found = A.found \union FoundAt(k + 1, WA)
  BY WalkStepIs
<1>2. /\ B1.w = IF SB # {} THEN B.w ELSE Gate!Apply(st, B.w)
      /\ B1.placedOk = IF st.action \in {"Place", "PutIn"} /\ B.w.holding # None
                       THEN [B.placedOk EXCEPT ![B.w.holding] = st.object] ELSE B.placedOk
      /\ B1.found = B.found \union FoundAt(l + 1, WB)
  BY WalkStepIs
<1>3. /\ SameBut(A.w, B.w) /\ A.placedOk = B.placedOk /\ Knows(w, A.w) /\ DOMAIN w = WorldFields
      /\ A.w.holding = B.w.holding /\ DOMAIN A.w = WorldFields
  BY DEF Abreast, SameBut
<1>4. SA # {} <=> SB # {}
  BY SkippedIs
<1>5. Knows(w1, A1.w) /\ DOMAIN w1 = WorldFields
  <2>1. /\ Knows(w1, IF SA # {} THEN A.w ELSE Gate!Apply(st, A.w))
        /\ DOMAIN w1 = WorldFields
    BY <1>3, KnowsNext
  <2> HIDE DEF A1, SA, w1
  <2> QED
    BY <1>1, <2>1
<1>6. WA \subseteq Names /\ WB \subseteq Names
  BY WordedNames
<1>7. /\ Listed(A1.found, k + 1) /\ Listed(B1.found, l + 1)
      /\ IsFiniteSet(WA) /\ IsFiniteSet(WB) /\ Cardinality(WA) \in Nat /\ Cardinality(WB) \in Nat
      /\ Cardinality(A.found) \in Nat /\ Cardinality(B.found) \in Nat
      /\ Cardinality(A1.found) = Cardinality(A.found) + Cardinality(WA)
      /\ Cardinality(B1.found) = Cardinality(B.found) + Cardinality(WB)
  <2>1. Listed(A.found, k) /\ Listed(B.found, l)
    BY DEF Fewer
  <2> DEFINE moreA == A.found \union FoundAt(k + 1, WA)
             moreB == B.found \union FoundAt(l + 1, WB)
  <2>2. A1.found = moreA /\ B1.found = moreB
    BY <1>1, <1>2
  <2> HIDE DEF A1, B1, WA, WB
  <2>3. /\ Listed(moreA, k + 1) /\ IsFiniteSet(WA) /\ Cardinality(WA) \in Nat
        /\ Cardinality(A.found) \in Nat /\ Cardinality(moreA) = Cardinality(A.found) + Cardinality(WA)
    <3>1. Listed(A.found, k) /\ WA \subseteq Names
      BY <1>6, <2>1
    <3>2. AddsUp(A.found, k, WA)
      BY <3>1, FoundMore
    <3> QED
      BY <3>2 DEF AddsUp
  <2>4. /\ Listed(moreB, l + 1) /\ IsFiniteSet(WB) /\ Cardinality(WB) \in Nat
        /\ Cardinality(B.found) \in Nat /\ Cardinality(moreB) = Cardinality(B.found) + Cardinality(WB)
    <3>1. Listed(B.found, l) /\ WB \subseteq Names
      BY <1>6, <2>1
    <3>2. AddsUp(B.found, l, WB)
      BY <3>1, FoundMore
    <3> QED
      BY <3>2 DEF AddsUp
  <2> HIDE DEF moreA, moreB
  <2> QED
    BY <2>2, <2>3, <2>4
<1>8. Cardinality(B.found) + Debt(A, B) <= Cardinality(A.found)
  BY DEF Fewer
<1>9. SameBut(A1.w, B1.w) /\ A1.placedOk = B1.placedOk
  <2>1. SameBut(Gate!Apply(st, A.w), Gate!Apply(st, B.w))
    BY <1>3, ApplySame
  <2> HIDE DEF A1, B1, SA, SB
  <2> QED
    BY <1>1, <1>2, <1>3, <1>4, <2>1
<1>10. A1.w.found \notin {None, B1.w.found} => A.w.found \notin {None, B.w.found}
  <2>1. Gate!Apply(st, A.w).found \notin {None, Gate!Apply(st, B.w).found} =>
            A.w.found \notin {None, B.w.found}
    BY <1>3, ApplySame
  <2> HIDE DEF A1, B1, SA, SB
  <2> QED
    BY <1>1, <1>2, <1>4, <2>1
<1>11. Debt(A, B) \in {0, 1} /\ Debt(A1, B1) \in {0, 1}
  BY DEF Debt
<1>12. Cardinality(WB) + Debt(A1, B1) <= Cardinality(WA) + Debt(A, B)
  <2>1. Debt(A1, B1) <= Debt(A, B)
    <3> HIDE DEF A1, B1
    <3> QED
      BY <1>10 DEF Debt
  <2>2. CASE st.action # "Pick"
    <3>1. WA = WB
      BY <1>3, <2>2, RulesSame
    <3> HIDE DEF WA, WB, A1, B1
    <3> QED
      BY <1>7, <1>11, <2>1, <3>1
  <2>3. CASE st.action = "Pick" /\ "Pick" \notin PlanActions
    <3>1. WA = {"unknown_action"} /\ WB = {"unknown_action"}
      BY <2>3, PickWorded
    <3> HIDE DEF WA, WB, A1, B1
    <3> QED
      BY <1>7, <1>11, <2>1, <3>1
  <2>4. CASE st.action = "Pick" /\ "Pick" \in PlanActions
    <3> DEFINE again == IF Gate!AlreadyPlaced(st.object, task, A.placedOk) THEN {"already_placed"} ELSE {}
    <3>1. /\ SA = {} /\ SB = {}
          /\ WA = (IF A.w.holding = None /\ A.w.found # None /\ A.w.found = st.object
                   THEN {} ELSE {"cannot_pick"}) \union again
          /\ WB = (IF B.w.holding = None /\ B.w.found # None /\ B.w.found = st.object
                   THEN {} ELSE {"cannot_pick"}) \union again
      BY <1>3, <2>4, PickWorded
    <3>2. A1.w = Gate!Apply(st, A.w)
      <4> HIDE DEF A1, SA
      <4> QED
        BY <1>1, <3>1
    <3>3. A1.w.found = None
      <4> HIDE DEF A1
      <4> QED
        BY <1>3, <2>4, <3>2 DEF Gate!Apply, WorldFields
    <3>4. Debt(A1, B1) = 0
      <4> HIDE DEF A1, B1
      <4> QED
        BY <3>3 DEF Debt
    <3> HIDE DEF WA, WB, A1, B1, again
    <3>5. CASE Debt(A, B) = 1
      <4>1. WB \subseteq WA \union {"cannot_pick"}
        BY <3>1
      <4>2. /\ IsFiniteSet(WA \union {"cannot_pick"})
            /\ Cardinality(WA \union {"cannot_pick"}) <= Cardinality(WA) + 1
        <5>1. IsFiniteSet(WA) /\ Cardinality(WA) \in Nat
          BY <1>7
        <5> QED
          BY <5>1, FS_AddElement
      <4>3. Cardinality(WB) <= Cardinality(WA \union {"cannot_pick"})
        BY <4>1, <4>2, FS_Subset
      <4>4. Cardinality(WA \union {"cannot_pick"}) \in Nat
        BY <4>2, FS_CardinalityType
      <4> QED
        BY <1>7, <3>4, <3>5, <4>2, <4>3, <4>4
    <3>6. CASE Debt(A, B) = 0
      <4>1. A.w.found \in {None, B.w.found}
        BY <2>4, <3>6 DEF Debt
      <4>2. WB \subseteq WA
        BY <1>3, <3>1, <4>1
      <4>3. Cardinality(WB) <= Cardinality(WA)
        BY <1>7, <4>2, FS_Subset
      <4> QED
        BY <1>7, <3>4, <3>6, <4>3
    <3> QED
      BY <1>11, <3>5, <3>6
  <2> QED
    BY <2>2, <2>3, <2>4
<1> HIDE DEF A1, B1, w1, WA, WB
<1>13. Cardinality(B1.found) + Debt(A1, B1) <= Cardinality(A1.found)
  BY <1>7, <1>8, <1>11, <1>12
<1>14. Abreast(w1, A1, B1)
  BY <1>5, <1>9 DEF Abreast
<1>15. Fewer(A1, k + 1, B1, l + 1)
  BY <1>7, <1>13 DEF Fewer
<1> QED
  BY <1>14, <1>15 DEF A1, B1, w1

\* A step that is left out: it leads nowhere, or does nothing.
LEMMA DroppedWalks ==
    ASSUME NEW w, NEW A, NEW B, Abreast(w, A, B), NEW k \in Nat, NEW l \in Nat, Fewer(A, k, B, l),
           NEW st, NEW task, (st.action = "MoveTo" /\ st.object \notin Spot) \/ Gate!Noop(st, w)
    PROVE  /\ Abreast(w, Gate!WalkStep(A, st, k + 1, task), B)
           /\ Fewer(Gate!WalkStep(A, st, k + 1, task), k + 1, B, l)
<1> DEFINE A1 == Gate!WalkStep(A, st, k + 1, task)
           SA == Gate!Skipped(st, Gate!Errors(st, A.w, task))
           WA == Gate!Worded(st, A.w, task, A.placedOk)
<1>1. /\ A1.w = IF SA # {} THEN A.w ELSE Gate!Apply(st, A.w)
      /\ A1.placedOk = IF st.action \in {"Place", "PutIn"} /\ A.w.holding # None
                       THEN [A.placedOk EXCEPT ![A.w.holding] = st.object] ELSE A.placedOk
      /\ A1.found = A.found \union FoundAt(k + 1, WA)
  BY WalkStepIs
<1>2. /\ SameBut(A.w, B.w) /\ A.placedOk = B.placedOk /\ Knows(w, A.w) /\ DOMAIN w = WorldFields
      /\ DOMAIN A.w = WorldFields
  BY DEF Abreast, SameBut
<1>3. WA \subseteq Names
  BY WordedNames
<1>4. /\ Listed(A1.found, k + 1) /\ IsFiniteSet(WA) /\ Cardinality(WA) \in Nat
      /\ Cardinality(A.found) \in Nat
      /\ Cardinality(A1.found) = Cardinality(A.found) + Cardinality(WA)
  <2>1. Listed(A.found, k)
    BY DEF Fewer
  <2> DEFINE moreA == A.found \union FoundAt(k + 1, WA)
  <2>2. A1.found = moreA
    BY <1>1
  <2> HIDE DEF A1, WA
  <2>3. /\ Listed(moreA, k + 1) /\ IsFiniteSet(WA) /\ Cardinality(WA) \in Nat
        /\ Cardinality(A.found) \in Nat /\ Cardinality(moreA) = Cardinality(A.found) + Cardinality(WA)
    <3>1. AddsUp(A.found, k, WA)
      BY <1>3, <2>1, FoundMore
    <3> QED
      BY <3>1 DEF AddsUp
  <2> HIDE DEF moreA
  <2> QED
    BY <2>2, <2>3
<1>5. /\ Listed(B.found, l) /\ Cardinality(B.found) \in Nat
      /\ Cardinality(B.found) + Debt(A, B) <= Cardinality(A.found)
  <2>1. Listed(B.found, l) /\ Cardinality(B.found) + Debt(A, B) <= Cardinality(A.found)
    BY DEF Fewer
  <2>2. {} \subseteq Names
    OBVIOUS
  <2>3. Cardinality(B.found) \in Nat
    BY <2>1, <2>2, FoundMore DEF AddsUp
  <2> QED
    BY <2>1, <2>3
<1>6. SA # {} <=> \/ st.action \notin PlanActions
                  \/ st.action = "MoveTo" /\ st.object \notin Spot
                  \/ st.action \in {"Open", "Close"} /\ st.object \notin Container
  BY SkippedIs
<1>7. Debt(A, B) \in {0, 1} /\ Debt(A1, B) \in {0, 1}
  BY DEF Debt
<1>8. st.action \notin {"Place", "PutIn"}
  BY NoopIs
<1>9. A1.placedOk = B.placedOk
  <2> HIDE DEF A1
  <2> QED
    BY <1>1, <1>2, <1>8
\* It changes at most what was found last, and what it does to that is told.
<1> DEFINE Told == /\ SameBut(A1.w, A.w)
                   /\ \/ Debt(A1, B) <= Debt(A, B)
                      \/ WA # {}
<1>10. ASSUME SA # {} PROVE Told
  <2>1. A1.w = A.w
    <3> HIDE DEF A1, SA
    <3> QED
      BY <1>1, <1>10
  <2> HIDE DEF A1, WA
  <2>2. SameBut(A1.w, A.w)
    BY <1>2, <2>1 DEF SameBut
  <2>3. Debt(A1, B) = Debt(A, B)
    BY <2>1 DEF Debt
  <2> QED
    BY <1>7, <2>2, <2>3
<1>11. ASSUME SA = {} PROVE Told
  <2>1. Gate!Noop(st, w) /\ A1.w = Gate!Apply(st, A.w)
    <3> HIDE DEF A1, SA
    <3> QED
      BY <1>1, <1>6, <1>11
  <2>2. /\ st.action \in PlanActions
        /\ st.action = "MoveTo" => st.object \in Spot
    BY <1>6, <1>11
  <2>3. \/ st.action = "Pick" /\ w.holding # None /\ w.holding = st.object
        \/ st.action = "MoveTo" /\ st.object = w.arrived
        \/ st.action = "Find" /\ w.holding # None /\ w.holding = st.object
        \/ st.action = "Open" /\ st.object \in Container /\ st.object \in w.opened
        \/ st.action = "Close" /\ st.object \in Container /\ st.object \notin w.opened
    BY <2>1, NoopIs
  <2>4. CASE st.action = "Pick" /\ w.holding # None /\ w.holding = st.object
    <3> HIDE DEF A1, WA, SA
    <3>1. A.w.holding = st.object
      BY <1>2, <2>2, <2>4 DEF Knows
    <3>2. A1.w = [A.w EXCEPT !.holding = st.object, !.found = None]
      BY <2>1, <2>4 DEF Gate!Apply
    <3>3. SameBut(A1.w, A.w) /\ A1.w.found = None
      BY <1>2, <3>1, <3>2 DEF SameBut, WorldFields
    <3>4. Debt(A1, B) = 0
      BY <3>3 DEF Debt
    <3> QED
      BY <1>7, <3>3, <3>4
  <2>5. CASE st.action = "MoveTo" /\ st.object = w.arrived
    <3> HIDE DEF A1, WA, SA
    <3>1. A.w.arrived = st.object
      BY <1>2, <2>2, <2>5 DEF Knows
    <3>2. A1.w = [A.w EXCEPT !.arrived = st.object, !.found = IF A.w.found = st.object THEN @ ELSE None]
      BY <2>1, <2>5 DEF Gate!Apply
    <3>3. SameBut(A1.w, A.w) /\ A1.w.found \in {None, A.w.found}
      BY <1>2, <3>1, <3>2 DEF SameBut, WorldFields
    <3>4. Debt(A1, B) <= Debt(A, B)
      BY <1>7, <3>3 DEF Debt
    <3> QED
      BY <3>3, <3>4
  <2>6. CASE st.action = "Find" /\ w.holding # None /\ w.holding = st.object
    <3>1. A1.w = [A.w EXCEPT !.found = st.object]
      <4> HIDE DEF A1
      <4> QED
        BY <2>1, <2>6 DEF Gate!Apply
    <3>2. SameBut(A1.w, A.w)
      <4> HIDE DEF A1
      <4> QED
        BY <1>2, <3>1 DEF SameBut, WorldFields
    <3>3. CASE "Pick" \notin PlanActions
      <4> HIDE DEF A1
      <4>1. Debt(A1, B) = 0
        BY <3>3 DEF Debt
      <4> QED
        BY <1>7, <3>2, <4>1
    <3>4. CASE "Pick" \in PlanActions
      <4>1. A.w.holding = st.object
        BY <1>2, <2>6, <3>4 DEF Knows
      <4>2. Gate!Rules(st, A.w)["find_held"]
        BY <2>6, <4>1 DEF Gate!Rules
      <4>3. "find_held" \in Gate!Errors(st, A.w, task)
        <5>1. "find_held" \in RuleNames
          BY DEF RuleNames
        <5>2. "find_held" \in Gate!Broken(st, A.w, task)
          BY <4>2, <5>1, BrokenIs
        <5> QED
          BY <5>2 DEF Gate!Errors
      <4>4. WA = Gate!Errors(st, A.w, task)
        BY <1>11, <2>6 DEF Gate!Worded
      <4> QED
        BY <3>2, <4>3, <4>4
    <3> QED
      BY <3>3, <3>4
  <2>7. CASE st.action = "Open" /\ st.object \in Container /\ st.object \in w.opened
    <3> HIDE DEF A1, WA, SA
    <3>1. st.object \in A.w.opened
      BY <1>2, <2>2, <2>7 DEF Knows
    <3>2. A1.w = [A.w EXCEPT !.opened = @ \union {st.object}]
      BY <2>1, <2>7 DEF Gate!Apply
    <3>3. A.w.opened \union {st.object} = A.w.opened
      BY <3>1
    <3>4. SameBut(A1.w, A.w) /\ A1.w.found = A.w.found
      BY <1>2, <3>2, <3>3 DEF SameBut, WorldFields
    <3>5. Debt(A1, B) = Debt(A, B)
      BY <3>4 DEF Debt
    <3> QED
      BY <1>7, <3>4, <3>5
  <2>8. CASE st.action = "Close" /\ st.object \in Container /\ st.object \notin w.opened
    <3> HIDE DEF A1, WA, SA
    <3>1. st.object \notin A.w.opened
      BY <1>2, <2>2, <2>8 DEF Knows
    <3>2. A1.w = [A.w EXCEPT !.opened = @ \ {st.object}]
      BY <2>1, <2>8 DEF Gate!Apply
    <3>3. A.w.opened \ {st.object} = A.w.opened
      BY <3>1
    <3>4. SameBut(A1.w, A.w) /\ A1.w.found = A.w.found
      BY <1>2, <3>2, <3>3 DEF SameBut, WorldFields
    <3>5. Debt(A1, B) = Debt(A, B)
      BY <3>4 DEF Debt
    <3> QED
      BY <1>7, <3>4, <3>5
  <2> QED
    BY <2>3, <2>4, <2>5, <2>6, <2>7, <2>8
<1> HIDE DEF A1, WA, SA
<1>12. Told
  BY <1>10, <1>11
<1>13. Cardinality(B.found) + Debt(A1, B) <= Cardinality(A1.found)
  <2>1. WA # {} => Cardinality(WA) # 0
    BY <1>4, FS_EmptySet
  <2> QED
    BY <1>4, <1>5, <1>7, <1>12, <2>1
<1>14. Abreast(w, A1, B)
  BY <1>2, <1>9, <1>12 DEF Abreast, SameBut, Knows
<1>15. Fewer(A1, k + 1, B, l)
  BY <1>4, <1>5, <1>13 DEF Fewer
<1> QED
  BY <1>14, <1>15 DEF A1

(***************************************************************************)
(* A whole plan, walked as it was written and as far as it is kept.        *)
(***************************************************************************)

\* The steps that are kept of a plan, one by one.
Keeps(it, plan, w, n) ==
    /\ it[1..0] = [w |-> w, out |-> << >>] /\ Gate!Kept(plan, w) = it[1..n].out
    /\ \A k \in Nat : k < n =>
        \/ /\ Gate!Waypoint(plan, k + 1) \/ Gate!Noop(plan[k + 1], it[1..k].w)
           /\ it[1..(k + 1)] = it[1..k]
        \/ /\ ~Gate!Waypoint(plan, k + 1) /\ ~Gate!Noop(plan[k + 1], it[1..k].w)
           /\ it[1..(k + 1)] = [w |-> Gate!Apply(plan[k + 1], it[1..k].w),
                                out |-> Append(it[1..k].out, plan[k + 1])]

\* plan_tidy keeps a plan's steps so.
LEMMA KeptThere ==
    ASSUME NEW plan, IsPlan(plan), NEW w
    PROVE  \E it : Keeps(it, plan, w, Len(plan))
<1> DEFINE n == Len(plan)
           start == [w |-> w, out |-> << >>]
           task == << >>
<1>1. n \in Nat /\ DOMAIN plan = 1..n
  BY PlanIs
<1> HIDE DEF n, task
<1>2. PICK it : FoldsPlan(it, "keep", start, plan, n, task) /\ Gate!Kept(plan, w) = it[1..n].out
  BY <1>1, KeptFolds
<1>3. FoldedSteps(it, "keep", start, plan, n, task)
  <2> HIDE DEF start
  <2> QED
    BY <1>1, <1>2, FoldSteps
<1>4. ASSUME NEW k \in Nat, k < n
      PROVE  it[1..(k + 1)] = Gate!KeepStep(it[1..k], plan, k + 1)
  BY <1>3, <1>4 DEF FoldedSteps, Did
<1>5. ASSUME NEW k \in Nat, k < n
      PROVE  \/ /\ Gate!Waypoint(plan, k + 1) \/ Gate!Noop(plan[k + 1], it[1..k].w)
                /\ it[1..(k + 1)] = it[1..k]
             \/ /\ ~Gate!Waypoint(plan, k + 1) /\ ~Gate!Noop(plan[k + 1], it[1..k].w)
                /\ it[1..(k + 1)] = [w |-> Gate!Apply(plan[k + 1], it[1..k].w),
                                     out |-> Append(it[1..k].out, plan[k + 1])]
  BY <1>4, <1>5 DEF Gate!KeepStep
<1>6. it[1..0] = start
  BY <1>3 DEF FoldedSteps
<1>7. Keeps(it, plan, w, n)
  BY <1>2, <1>5, <1>6 DEF Keeps
<1> QED
  BY <1>7 DEF n

\* The walk of the first k steps, of A; what is kept of them is walked by B.
Lighter(K, A, k, w, task) ==
    /\ IsPlan(K.out) /\ Abreast(K.w, A, Gate!Walk(K.out, w, task))
    /\ Fewer(A, k, Gate!Walk(K.out, w, task), Len(K.out))

\* The checker finds no more in what is kept of a plan.
LEMMA KeptIsLighter ==
    ASSUME NEW plan, IsPlan(plan), NEW w \in Worlds, NEW task
    PROVE  \E K : K.out = Gate!Kept(plan, w) /\ Lighter(K, Gate!Walk(plan, w, task), Len(plan), w, task)
<1> DEFINE n == Len(plan)
<1>1. n \in Nat /\ DOMAIN plan = 1..n
  BY PlanIs
<1>2. PICK itk : Keeps(itk, plan, w, n)
  BY KeptThere
<1> HIDE DEF n
<1>3. PICK ita : FoldsPlan(ita, "walk", WalkStart(w), plan, n, task) /\ Gate!Walk(plan, w, task) = ita[1..n]
  BY <1>1, WalkFolds DEF WalkStart
<1>4. FoldedSteps(ita, "walk", WalkStart(w), plan, n, task)
  BY <1>1, <1>3, FoldSteps
<1> DEFINE Good == {k \in Nat : k <= n => Lighter(itk[1..k], ita[1..k], k, w, task)}
<1>5. 0 \in Good
  <2>1. itk[1..0] = [w |-> w, out |-> << >>] /\ ita[1..0] = WalkStart(w)
    BY <1>2, <1>4 DEF Keeps, FoldedSteps
  <2>2. Gate!Walk(<< >>, w, task) = WalkStart(w) /\ IsPlan(<< >>) /\ Len(<< >>) = 0
    BY NoneIs, WalkAppend
  <2>3. DOMAIN w = WorldFields
    BY WorldAssumption DEF WorldFields
  <2>4. Abreast(w, WalkStart(w), WalkStart(w))
    BY <2>3 DEF Abreast, SameBut, Knows, WalkStart
  <2>5. Fewer(WalkStart(w), 0, WalkStart(w), 0)
    <3>1. Debt(WalkStart(w), WalkStart(w)) = 0 /\ WalkStart(w).found = {}
      BY DEF Debt, WalkStart
    <3>2. Cardinality({}) = 0 /\ Listed({}, 0)
      BY FS_EmptySet DEF Listed
    <3> QED
      BY <3>1, <3>2 DEF Fewer
  <2>6. Lighter([w |-> w, out |-> << >>], WalkStart(w), 0, w, task)
    BY <2>2, <2>4, <2>5 DEF Lighter
  <2> QED
    BY <2>1, <2>6
<1>6. ASSUME NEW k \in Nat, k \in Good PROVE k + 1 \in Good
  <2> SUFFICES ASSUME k + 1 <= n PROVE Lighter(itk[1..(k + 1)], ita[1..(k + 1)], k + 1, w, task)
    OBVIOUS
  <2> DEFINE K == itk[1..k]
             K1 == itk[1..(k + 1)]
             A == ita[1..k]
             B == Gate!Walk(K.out, w, task)
             l == Len(K.out)
             st == plan[k + 1]
  <2>1. Lighter(K, A, k, w, task)
    BY <1>1, <1>6
  <2>2. ita[1..(k + 1)] = Gate!WalkStep(A, st, k + 1, task)
    BY <1>1, <1>4 DEF FoldedSteps, Did
  <2>3. \/ /\ Gate!Waypoint(plan, k + 1) \/ Gate!Noop(st, K.w)
           /\ K1 = K
        \/ K1 = [w |-> Gate!Apply(st, K.w), out |-> Append(K.out, st)]
    BY <1>1, <1>2 DEF Keeps
  <2>4. Gate!Waypoint(plan, k + 1) => st.action = "MoveTo" /\ st.object \notin Spot
    BY DEF Gate!Waypoint
  <2> HIDE DEF K, K1, A, B, st
  <2>5. IsPlan(K.out) /\ Abreast(K.w, A, B) /\ Fewer(A, k, B, l)
    BY <2>1 DEF Lighter, B
  <2>6. l \in Nat
    BY <2>5, PlanIs
  <2>7. CASE K1 = K /\ (Gate!Waypoint(plan, k + 1) \/ Gate!Noop(st, K.w))
    <3>1. (st.action = "MoveTo" /\ st.object \notin Spot) \/ Gate!Noop(st, K.w)
      BY <2>4, <2>7
    <3>2. /\ Abreast(K.w, Gate!WalkStep(A, st, k + 1, task), B)
          /\ Fewer(Gate!WalkStep(A, st, k + 1, task), k + 1, B, l)
      <4> HIDE DEF l
      <4> QED
        BY <2>5, <2>6, <3>1, DroppedWalks
    <3>3. Lighter(K, Gate!WalkStep(A, st, k + 1, task), k + 1, w, task)
      BY <2>5, <3>2 DEF Lighter, B
    <3> QED
      BY <2>2, <2>7, <3>3 DEF K1
  <2>8. CASE K1 = [w |-> Gate!Apply(st, K.w), out |-> Append(K.out, st)]
    <3> DEFINE B1 == Gate!WalkStep(B, st, l + 1, task)
    <3>1. /\ Abreast(Gate!Apply(st, K.w), Gate!WalkStep(A, st, k + 1, task), B1)
          /\ Fewer(Gate!WalkStep(A, st, k + 1, task), k + 1, B1, l + 1)
      <4> HIDE DEF l
      <4> QED
        BY <2>5, <2>6, KeptWalks
    <3>2. /\ IsPlan(Append(K.out, st)) /\ Len(Append(K.out, st)) = l + 1
          /\ Gate!Walk(Append(K.out, st), w, task) = B1
      BY <2>5, AppendSteps, WalkAppend DEF B
    <3>3. K1.w = Gate!Apply(st, K.w) /\ K1.out = Append(K.out, st)
      BY <2>8
    <3> HIDE DEF B1, l
    <3>4. Lighter(K1, Gate!WalkStep(A, st, k + 1, task), k + 1, w, task)
      BY <3>1, <3>2, <3>3 DEF Lighter
    <3> QED
      BY <2>2, <3>4 DEF K1
  <2> QED
    BY <2>3, <2>7, <2>8
<1>7. n \in Good
  <2> HIDE DEF Good
  <2> QED
    BY <1>1, <1>5, <1>6, Induct
<1>8. Lighter(itk[1..n], ita[1..n], n, w, task) /\ Gate!Kept(plan, w) = itk[1..n].out
  BY <1>1, <1>2, <1>7 DEF Keeps
<1> QED
  BY <1>3, <1>8 DEF n

\* Nor in the beginning of one.
LEMMA WalkGrows ==
    ASSUME NEW s, IsPlan(s), NEW m \in Nat, m <= Len(s), NEW w, NEW task
    PROVE  Gate!Walk(SubSeq(s, 1, m), w, task).found \subseteq Gate!Walk(s, w, task).found
<1> DEFINE F(k) == Gate!Walk(SubSeq(s, 1, k), w, task).found
           Good == {k \in Nat : m <= k /\ k <= Len(s) => F(m) \subseteq F(k)}
<1>1. Len(s) \in Nat
  BY PlanIs
<1>2. 0 \in Good
  OBVIOUS
<1>3. ASSUME NEW k \in Nat, k \in Good PROVE k + 1 \in Good
  <2> SUFFICES ASSUME m <= k + 1, k + 1 <= Len(s) PROVE F(m) \subseteq F(k + 1)
    OBVIOUS
  <2>1. CASE m = k + 1
    BY <2>1
  <2>2. CASE m <= k
    <3> DEFINE t == SubSeq(s, 1, k)
               A == Gate!Walk(t, w, task)
    <3>1. F(m) \subseteq A.found
      BY <1>1, <1>3, <2>2
    <3>2. IsPlan(t) /\ SubSeq(s, 1, k + 1) = Append(t, s[k + 1])
      <4>1. k \in Nat /\ k < Len(s) /\ k <= Len(s) /\ 1 \in Nat /\ 1 >= 1
        BY <1>1
      <4>2. IsPlan(SubSeq(s, 1, k))
        BY <4>1, PlanIs
      <4>3. SubSeq(s, 1, k + 1) = Append(SubSeq(s, 1, k), s[k + 1])
        BY <4>1, Begins
      <4> QED
        BY <4>2, <4>3
    <3> HIDE DEF t
    <3>3. Gate!Walk(Append(t, s[k + 1]), w, task) = Gate!WalkStep(A, s[k + 1], Len(t) + 1, task)
      BY <3>2, WalkAppend
    <3>4. A.found \subseteq Gate!WalkStep(A, s[k + 1], Len(t) + 1, task).found
      BY DEF Gate!WalkStep
    <3> QED
      BY <3>1, <3>2, <3>3, <3>4
  <2> QED
    BY <2>1, <2>2
<1>4. Len(s) \in Good
  <2> HIDE DEF Good
  <2> QED
    BY <1>1, <1>2, <1>3, Induct
<1>5. F(m) \subseteq F(Len(s))
  BY <1>1, <1>4
<1> QED
  BY <1>5, Begins

(***************************************************************************)
(* What is kept goes, speaks and waits where the plan does.                *)
(***************************************************************************)

\* Where a step leads.
LEMMA ApplyMoves ==
    ASSUME NEW w, NEW st, DOMAIN w = WorldFields
    PROVE  /\ DOMAIN Gate!Apply(st, w) = WorldFields
           /\ Gate!Apply(st, w).arrived = IF st.action = "MoveTo" THEN st.object ELSE w.arrived
<1>1. CASE st.action = "MoveTo"
  BY <1>1 DEF Gate!Apply, WorldFields
<1>2. CASE st.action \in {"Find", "Open", "Close"}
  BY <1>2 DEF Gate!Apply, WorldFields
<1>3. CASE st.action = "Pick"
  BY <1>3 DEF Gate!Apply, WorldFields
<1>4. CASE st.action \in {"Place", "PutIn"}
  BY <1>4 DEF Gate!Apply, WorldFields
<1>5. CASE st.action \notin {"MoveTo", "Find", "Pick", "Place", "PutIn", "Open", "Close"}
  BY <1>5 DEF Gate!Apply
<1> QED
  BY <1>1, <1>2, <1>3, <1>4, <1>5

\* What is counted, step by step, in a world in which every step takes effect.
LEMMA CountNext ==
    ASSUME NEW c, NEW w, NEW st, c = [holding |-> c.holding, opened |-> c.opened, on |-> c.on],
           c.holding = w.holding, c.opened = w.opened, DOMAIN w = WorldFields
    PROVE  LET c1 == Gate!CountStep(c, st)
               w1 == Gate!Apply(st, w)
           IN  /\ c1 = [holding |-> c1.holding, opened |-> c1.opened, on |-> c1.on]
               /\ c1.holding = w1.holding /\ c1.opened = w1.opened
               /\ st.action = "MoveTo" \/ Gate!Noop(st, w) => c1 = c
<1> DEFINE c1 == Gate!CountStep(c, st)
           w1 == Gate!Apply(st, w)
<1>1. c1 = CASE st.action = "Pick" -> [c EXCEPT !.holding = st.object]
             [] st.action \in {"Place", "PutIn"} /\ c.holding # None ->
                [c EXCEPT !.holding = None, !.on = [@ EXCEPT ![c.holding] = st]]
             [] st.action = "Open" -> [c EXCEPT !.opened = @ \union {st.object}]
             [] st.action = "Close" -> [c EXCEPT !.opened = @ \ {st.object}]
             [] OTHER -> c
  BY DEF Gate!CountStep
<1>2. w1 = Gate!Apply(st, w)
  OBVIOUS
<1> HIDE DEF c1, w1
<1> SUFFICES /\ c1 = [holding |-> c1.holding, opened |-> c1.opened, on |-> c1.on]
             /\ c1.holding = w1.holding /\ c1.opened = w1.opened
             /\ st.action = "MoveTo" \/ Gate!Noop(st, w) => c1 = c
  BY DEF c1, w1
<1>3. CASE st.action = "MoveTo"
  <2>1. c1 = c
    BY <1>1, <1>3
  <2>2. w1.holding = w.holding /\ w1.opened = w.opened
    BY <1>2, <1>3 DEF Gate!Apply, WorldFields
  <2> QED
    BY <1>3, <2>1, <2>2
<1>4. CASE st.action = "Find"
  <2>1. c1 = c
    BY <1>1, <1>4
  <2>2. w1.holding = w.holding /\ w1.opened = w.opened
    BY <1>2, <1>4 DEF Gate!Apply, WorldFields
  <2> QED
    BY <1>4, <2>1, <2>2
<1>5. CASE st.action = "Pick"
  <2>1. c1 = [c EXCEPT !.holding = st.object]
    BY <1>1, <1>5
  <2>2. c1 = [holding |-> st.object, opened |-> c.opened, on |-> c.on]
    BY <2>1
  <2>3. w1.holding = st.object /\ w1.opened = w.opened
    BY <1>2, <1>5 DEF Gate!Apply, WorldFields
  <2>4. Gate!Noop(st, w) => c.holding = st.object
    BY <1>5, NoopIs
  <2>5. Gate!Noop(st, w) => c1 = c
    BY <2>2, <2>4
  <2> QED
    BY <1>5, <2>2, <2>3, <2>5
<1>6. CASE st.action \in {"Place", "PutIn"}
  <2>1. ~Gate!Noop(st, w)
    BY <1>6, NoopIs
  <2>2. w1.holding = None /\ w1.opened = w.opened
    BY <1>2, <1>6 DEF Gate!Apply, WorldFields
  <2>3. CASE c.holding # None
    <3>1. c1 = [c EXCEPT !.holding = None, !.on = [@ EXCEPT ![c.holding] = st]]
      BY <1>1, <1>6, <2>3
    <3>2. c1 = [holding |-> None, opened |-> c.opened, on |-> [c.on EXCEPT ![c.holding] = st]]
      BY <3>1
    <3> QED
      BY <1>6, <2>1, <2>2, <3>2
  <2>4. CASE c.holding = None
    <3>1. c1 = c
      BY <1>1, <1>6, <2>4
    <3> QED
      BY <1>6, <2>1, <2>2, <2>4, <3>1
  <2> QED
    BY <2>3, <2>4
<1>7. CASE st.action = "Open"
  <2>1. c1 = [c EXCEPT !.opened = @ \union {st.object}]
    BY <1>1, <1>7
  <2>2. c1 = [holding |-> c.holding, opened |-> c.opened \union {st.object}, on |-> c.on]
    BY <2>1
  <2>3. /\ w1.holding = w.holding /\ w1.opened = w.opened \union {st.object}
    BY <1>2, <1>7 DEF Gate!Apply, WorldFields
  <2>4. Gate!Noop(st, w) => c.opened \union {st.object} = c.opened
    BY <1>7, NoopIs
  <2>5. Gate!Noop(st, w) => c1 = c
    BY <2>2, <2>4
  <2> QED
    BY <1>7, <2>2, <2>3, <2>5
<1>8. CASE st.action = "Close"
  <2>1. c1 = [c EXCEPT !.opened = @ \ {st.object}]
    BY <1>1, <1>8
  <2>2. c1 = [holding |-> c.holding, opened |-> c.opened \ {st.object}, on |-> c.on]
    BY <2>1
  <2>3. /\ w1.holding = w.holding /\ w1.opened = w.opened \ {st.object}
    BY <1>2, <1>8 DEF Gate!Apply, WorldFields
  <2>4. Gate!Noop(st, w) => c.opened \ {st.object} = c.opened
    BY <1>8, NoopIs
  <2>5. Gate!Noop(st, w) => c1 = c
    BY <2>2, <2>4
  <2> QED
    BY <1>8, <2>2, <2>3, <2>5
<1>9. CASE st.action \notin {"MoveTo", "Find", "Pick", "Place", "PutIn", "Open", "Close"}
  <2>1. c1 = c /\ w1 = w
    BY <1>1, <1>2, <1>9 DEF Gate!Apply
  <2> QED
    BY <1>9, <2>1
<1> QED
  BY <1>3, <1>4, <1>5, <1>6, <1>7, <1>8, <1>9

\* A plan goes to a place, if it does not begin there.
GoesThere(s, at, p) == p = at \/ \E i \in 1..Len(s) : s[i].action = "MoveTo" /\ s[i].object = p

\* s does what the plan does in step j, where the plan does it.
DoesSo(s, plan, j, at) ==
    \E i \in 1..Len(s) : s[i] = plan[j] /\ \E p : StandsAt(plan, at, j, p) /\ StandsAt(s, at, i, p)

\* It still does when it is longer.
LEMMA DoesMore ==
    ASSUME NEW s, IsPlan(s), NEW x, NEW at
    PROVE  /\ \A p : GoesThere(s, at, p) => GoesThere(Append(s, x), at, p)
           /\ \A plan, j : DoesSo(s, plan, j, at) => DoesSo(Append(s, x), plan, j, at)
<1> DEFINE t == Append(s, x)
<1>1. /\ Len(s) \in Nat /\ Len(t) = Len(s) + 1 /\ \A i \in 1..Len(s) : t[i] = s[i]
  BY PlanIs, AppendSteps
<1> HIDE DEF t
<1>2. ASSUME NEW p, GoesThere(s, at, p) PROVE GoesThere(t, at, p)
  BY <1>1, <1>2 DEF GoesThere
<1>3. ASSUME NEW plan, NEW j, DoesSo(s, plan, j, at) PROVE DoesSo(t, plan, j, at)
  <2>1. PICK i \in 1..Len(s) : s[i] = plan[j] /\ \E p : StandsAt(plan, at, j, p) /\ StandsAt(s, at, i, p)
    BY <1>3 DEF DoesSo
  <2>2. PICK p : StandsAt(plan, at, j, p) /\ StandsAt(s, at, i, p)
    BY <2>1
  <2>3. i \in Nat /\ \A m \in 1..i : t[m] = s[m]
    BY <1>1
  <2>4. StandsAt(t, at, i, p)
    BY <2>2, <2>3, SameStands
  <2>5. i \in 1..Len(t) /\ t[i] = plan[j]
    BY <1>1, <2>1
  <2> QED
    BY <2>2, <2>4, <2>5 DEF DoesSo
<1> QED
  BY <1>2, <1>3 DEF t

\* Where the robot stands a step later.
LEMMA StandsNext ==
    ASSUME NEW s, NEW at, NEW k \in Nat, NEW p
    PROVE  /\ s[k + 1].action = "MoveTo" => StandsAt(s, at, k + 1, s[k + 1].object)
           /\ s[k + 1].action # "MoveTo" /\ StandsAt(s, at, k, p) => StandsAt(s, at, k + 1, p)
<1>1. ASSUME s[k + 1].action = "MoveTo" PROVE StandsAt(s, at, k + 1, s[k + 1].object)
  <2>1. k + 1 \in 1..(k + 1) /\ \A i \in (k + 1 + 1)..(k + 1) : s[i].action # "MoveTo"
    OBVIOUS
  <2> QED
    BY <1>1, <2>1 DEF StandsAt
<1>2. ASSUME s[k + 1].action # "MoveTo", StandsAt(s, at, k, p) PROVE StandsAt(s, at, k + 1, p)
  <2>1. CASE \E m \in 1..k : /\ s[m].action = "MoveTo" /\ s[m].object = p
                             /\ \A i \in (m + 1)..k : s[i].action # "MoveTo"
    <3>1. PICK m \in 1..k : /\ s[m].action = "MoveTo" /\ s[m].object = p
                            /\ \A i \in (m + 1)..k : s[i].action # "MoveTo"
      BY <2>1
    <3>2. m \in 1..(k + 1) /\ \A i \in (m + 1)..(k + 1) : s[i].action # "MoveTo"
      BY <1>2, <3>1
    <3> QED
      BY <3>1, <3>2 DEF StandsAt
  <2>2. CASE p = at /\ \A i \in 1..k : s[i].action # "MoveTo"
    <3>1. \A i \in 1..(k + 1) : s[i].action # "MoveTo"
      BY <1>2, <2>2
    <3> QED
      BY <2>2, <3>1 DEF StandsAt
  <2> QED
    BY <1>2, <2>1, <2>2 DEF StandsAt
<1> QED
  BY <1>1, <1>2

\* What is kept of the first k steps does what they do, where they do it.
Follows(K, plan, k, at) ==
    /\ IsPlan(K.out) /\ DOMAIN K.w = WorldFields
    /\ StandsAt(K.out, at, Len(K.out), K.w.arrived)
    /\ StandsAt(plan, at, k, K.w.arrived) \/ plan[k + 1].action = "MoveTo"
    /\ \A j \in 1..k : plan[j].action = "MoveTo" /\ plan[j].object \in Spot =>
            GoesThere(K.out, at, plan[j].object)
    /\ \A j \in 1..k : plan[j].action \in {"Say", "WaitForUnload"} => DoesSo(K.out, plan, j, at)

\* A step more, that is left out.
LEMMA FollowsDropped ==
    ASSUME NEW K, NEW plan, NEW k \in Nat, NEW at, Follows(K, plan, k, at),
           Gate!Waypoint(plan, k + 1) \/ Gate!Noop(plan[k + 1], K.w)
    PROVE  Follows(K, plan, k + 1, at)
<1> DEFINE st == plan[k + 1]
<1>1. /\ IsPlan(K.out) /\ DOMAIN K.w = WorldFields
      /\ StandsAt(K.out, at, Len(K.out), K.w.arrived)
      /\ StandsAt(plan, at, k, K.w.arrived) \/ st.action = "MoveTo"
      /\ \A j \in 1..k : plan[j].action = "MoveTo" /\ plan[j].object \in Spot =>
            GoesThere(K.out, at, plan[j].object)
      /\ \A j \in 1..k : plan[j].action \in {"Say", "WaitForUnload"} => DoesSo(K.out, plan, j, at)
  BY DEF Follows
<1>2. st.action \notin {"Say", "WaitForUnload"}
  BY NoopIs DEF Gate!Waypoint
<1>3. StandsAt(plan, at, k + 1, K.w.arrived) \/ plan[k + 1 + 1].action = "MoveTo"
  <2>1. CASE Gate!Waypoint(plan, k + 1)
    BY <2>1 DEF Gate!Waypoint
  <2>2. CASE Gate!Noop(st, K.w) /\ st.action = "MoveTo"
    <3>1. st.object = K.w.arrived
      BY <2>2, NoopIs
    <3> QED
      BY <2>2, <3>1, StandsNext
  <2>3. CASE Gate!Noop(st, K.w) /\ st.action # "MoveTo"
    BY <1>1, <2>3, StandsNext
  <2> QED
    BY <2>1, <2>2, <2>3
<1>4. ASSUME st.action = "MoveTo", st.object \in Spot PROVE GoesThere(K.out, at, st.object)
  <2>1. Gate!Noop(st, K.w)
    BY <1>4 DEF Gate!Waypoint
  <2>2. st.object = K.w.arrived
    BY <1>4, <2>1, NoopIs
  <2> QED
    BY <1>1, <2>2 DEF StandsAt, GoesThere
<1>5. \A j \in 1..(k + 1) : j \in 1..k \/ j = k + 1
  OBVIOUS
<1> QED
  BY <1>1, <1>2, <1>3, <1>4, <1>5 DEF Follows

\* A step more, that is kept.
LEMMA FollowsKept ==
    ASSUME NEW K, NEW plan, NEW k \in Nat, NEW at, Follows(K, plan, k, at), NEW K1,
           K1 = [w |-> Gate!Apply(plan[k + 1], K.w), out |-> Append(K.out, plan[k + 1])]
    PROVE  Follows(K1, plan, k + 1, at)
<1> DEFINE st == plan[k + 1]
           l == Len(K.out)
<1>1. /\ IsPlan(K.out) /\ DOMAIN K.w = WorldFields
      /\ StandsAt(K.out, at, l, K.w.arrived)
      /\ StandsAt(plan, at, k, K.w.arrived) \/ st.action = "MoveTo"
      /\ \A j \in 1..k : plan[j].action = "MoveTo" /\ plan[j].object \in Spot =>
            GoesThere(K.out, at, plan[j].object)
      /\ \A j \in 1..k : plan[j].action \in {"Say", "WaitForUnload"} => DoesSo(K.out, plan, j, at)
  BY DEF Follows
<1>0. K1.w = Gate!Apply(st, K.w) /\ K1.out = Append(K.out, st)
  OBVIOUS
<1>2. /\ l \in Nat /\ IsPlan(K1.out) /\ Len(K1.out) = l + 1 /\ K1.out[l + 1] = st
      /\ K1.out = Append(K.out, st) /\ \A i \in 1..l : K1.out[i] = K.out[i]
  <2> HIDE DEF st
  <2>1. l \in Nat
    BY <1>1, PlanIs
  <2>2. /\ IsPlan(Append(K.out, st)) /\ Len(Append(K.out, st)) = l + 1
        /\ \A i \in 1..l : Append(K.out, st)[i] = K.out[i]
        /\ Append(K.out, st)[l + 1] = st
    BY <1>1, AppendSteps
  <2>3. K1.out = Append(K.out, st)
    BY <1>0
  <2> HIDE DEF l
  <2> QED
    BY <2>1, <2>2, <2>3
<1>3. /\ DOMAIN K1.w = WorldFields
      /\ K1.w.arrived = IF st.action = "MoveTo" THEN st.object ELSE K.w.arrived
  BY <1>0, <1>1, ApplyMoves
<1> HIDE DEF l
<1>4. StandsAt(K1.out, at, l + 1, K1.w.arrived)
  <2>1. StandsAt(K1.out, at, l, K.w.arrived)
    BY <1>1, <1>2, SameStands
  <2> QED
    BY <1>2, <1>3, <2>1, StandsNext
<1>5. StandsAt(plan, at, k + 1, K1.w.arrived)
  BY <1>1, <1>3, StandsNext
<1>6. ASSUME NEW j \in 1..(k + 1), plan[j].action = "MoveTo", plan[j].object \in Spot
      PROVE  GoesThere(K1.out, at, plan[j].object)
  <2>1. CASE j = k + 1
    BY <1>2, <1>6, <2>1 DEF GoesThere
  <2>2. CASE j \in 1..k
    <3>1. GoesThere(K.out, at, plan[j].object)
      BY <1>1, <1>6, <2>2
    <3> QED
      BY <1>1, <1>2, <3>1, DoesMore
  <2> QED
    BY <2>1, <2>2
<1>7. ASSUME NEW j \in 1..(k + 1), plan[j].action \in {"Say", "WaitForUnload"}
      PROVE  DoesSo(K1.out, plan, j, at)
  <2>1. CASE j = k + 1
    BY <1>2, <1>4, <1>5, <2>1 DEF DoesSo
  <2>2. CASE j \in 1..k
    <3>1. DoesSo(K.out, plan, j, at)
      BY <1>1, <1>7, <2>2
    <3> QED
      BY <1>1, <1>2, <3>1, DoesMore
  <2> QED
    BY <2>1, <2>2
<1> QED
  BY <1>2, <1>3, <1>4, <1>5, <1>6, <1>7 DEF Follows

(***************************************************************************)
(* What is kept puts, opens and closes what the plan does, and so loses no *)
(* goal.                                                                   *)
(***************************************************************************)

\* What is kept of a plan puts, opens and closes the same.
LEMMA KeptCounts ==
    ASSUME NEW plan, IsPlan(plan), NEW w \in Worlds
    PROVE  Gate!Counted(Gate!Kept(plan, w), w) = Gate!Counted(plan, w)
<1> DEFINE n == Len(plan)
           task == << >>
<1>1. n \in Nat /\ DOMAIN plan = 1..n
  BY PlanIs
<1>2. PICK itk : Keeps(itk, plan, w, n)
  BY KeptThere
<1> HIDE DEF n, task
<1>3. PICK itc : FoldsPlan(itc, "count", CountStart(w), plan, n, task) /\ Gate!Counted(plan, w) = itc[1..n]
  BY <1>1, CountedFolds DEF CountStart
<1>4. FoldedSteps(itc, "count", CountStart(w), plan, n, task)
  BY <1>1, <1>3, FoldSteps
<1> DEFINE Alike(K, c) ==
                /\ IsPlan(K.out) /\ Gate!Counted(K.out, w) = c
                /\ c = [holding |-> c.holding, opened |-> c.opened, on |-> c.on]
                /\ c.holding = K.w.holding /\ c.opened = K.w.opened /\ DOMAIN K.w = WorldFields
           Good == {k \in Nat : k <= n => Alike(itk[1..k], itc[1..k])}
<1>5. 0 \in Good
  <2>1. itk[1..0] = [w |-> w, out |-> << >>] /\ itc[1..0] = CountStart(w)
    BY <1>2, <1>4 DEF Keeps, FoldedSteps
  <2>2. Gate!Counted(<< >>, w) = CountStart(w) /\ IsPlan(<< >>)
    BY NoneIs, CountAppend
  <2>3. DOMAIN w = WorldFields
    BY WorldAssumption DEF WorldFields
  <2>4. Alike([w |-> w, out |-> << >>], CountStart(w))
    BY <2>2, <2>3 DEF CountStart
  <2> HIDE DEF Alike
  <2> QED
    BY <2>1, <2>4
<1>6. ASSUME NEW k \in Nat, k \in Good PROVE k + 1 \in Good
  <2> DEFINE K == itk[1..k]
             K1 == itk[1..(k + 1)]
             c == itc[1..k]
             c1 == itc[1..(k + 1)]
             st == plan[k + 1]
  <2> SUFFICES ASSUME k + 1 <= n PROVE Alike(K1, c1)
    OBVIOUS
  <2>1. Alike(K, c)
    BY <1>1, <1>6
  <2>2. c1 = Gate!CountStep(c, st)
    BY <1>1, <1>4 DEF FoldedSteps, Did
  <2>3. \/ /\ Gate!Waypoint(plan, k + 1) \/ Gate!Noop(st, K.w)
           /\ K1 = K
        \/ K1 = [w |-> Gate!Apply(st, K.w), out |-> Append(K.out, st)]
    <3>1. k < n
      BY <1>1
    <3> HIDE DEF Alike
    <3> QED
      BY <3>1, <1>2 DEF Keeps
  <2>4. Gate!Waypoint(plan, k + 1) => st.action = "MoveTo"
    BY DEF Gate!Waypoint
  <2> HIDE DEF K, K1, c, c1, st
  <2>5. /\ c1 = [holding |-> c1.holding, opened |-> c1.opened, on |-> c1.on]
        /\ c1.holding = Gate!Apply(st, K.w).holding /\ c1.opened = Gate!Apply(st, K.w).opened
        /\ st.action = "MoveTo" \/ Gate!Noop(st, K.w) => c1 = c
    BY <2>1, <2>2, CountNext
  <2>6. CASE K1 = K /\ (Gate!Waypoint(plan, k + 1) \/ Gate!Noop(st, K.w))
    <3>1. c1 = c
      BY <2>4, <2>5, <2>6
    <3> QED
      BY <2>1, <2>6, <3>1
  <2>7. CASE K1 = [w |-> Gate!Apply(st, K.w), out |-> Append(K.out, st)]
    <3>1. K1.w = Gate!Apply(st, K.w) /\ K1.out = Append(K.out, st)
      BY <2>7
    <3>2. IsPlan(Append(K.out, st)) /\ Gate!Counted(Append(K.out, st), w) = c1
      BY <2>1, <2>2, AppendSteps, CountAppend
    <3>3. DOMAIN Gate!Apply(st, K.w) = WorldFields
      BY <2>1, ApplyMoves
    <3> QED
      BY <2>5, <3>1, <3>2, <3>3
  <2> QED
    BY <2>3, <2>6, <2>7
<1>7. n \in Good
  <2> HIDE DEF Good
  <2> QED
    BY <1>1, <1>5, <1>6, Induct
<1>8. Gate!Counted(itk[1..n].out, w) = itc[1..n]
  BY <1>1, <1>7
<1> QED
  BY <1>2, <1>3, <1>8 DEF Keeps

\* And goes, speaks and waits in the same places.
LEMMA KeptFollows ==
    ASSUME NEW plan, IsPlan(plan), NEW w \in Worlds
    PROVE  \E K : K.out = Gate!Kept(plan, w) /\ Follows(K, plan, Len(plan), w.arrived)
<1> DEFINE n == Len(plan)
<1>1. n \in Nat /\ DOMAIN plan = 1..n
  BY PlanIs
<1>2. PICK itk : Keeps(itk, plan, w, n)
  BY KeptThere
<1> HIDE DEF n
<1> DEFINE Good == {k \in Nat : k <= n => Follows(itk[1..k], plan, k, w.arrived)}
<1>3. 0 \in Good
  <2>1. itk[1..0] = [w |-> w, out |-> << >>]
    BY <1>2 DEF Keeps
  <2>2. DOMAIN w = WorldFields
    BY WorldAssumption DEF WorldFields
  <2>3. IsPlan(<< >>) /\ Len(<< >>) = 0
    BY NoneIs
  <2>4. \A s : StandsAt(s, w.arrived, 0, w.arrived)
    BY DEF StandsAt
  <2>5. Follows([w |-> w, out |-> << >>], plan, 0, w.arrived)
    BY <2>2, <2>3, <2>4 DEF Follows
  <2> QED
    BY <2>1, <2>5
<1>4. ASSUME NEW k \in Nat, k \in Good PROVE k + 1 \in Good
  <2> SUFFICES ASSUME k + 1 <= n PROVE Follows(itk[1..(k + 1)], plan, k + 1, w.arrived)
    OBVIOUS
  <2>1. Follows(itk[1..k], plan, k, w.arrived)
    BY <1>1, <1>4
  <2>2. \/ /\ Gate!Waypoint(plan, k + 1) \/ Gate!Noop(plan[k + 1], itk[1..k].w)
           /\ itk[1..(k + 1)] = itk[1..k]
        \/ itk[1..(k + 1)] = [w |-> Gate!Apply(plan[k + 1], itk[1..k].w),
                              out |-> Append(itk[1..k].out, plan[k + 1])]
    BY <1>1, <1>2 DEF Keeps
  <2> QED
    BY <2>1, <2>2, FollowsDropped, FollowsKept
<1>5. n \in Good
  <2> HIDE DEF Good
  <2> QED
    BY <1>1, <1>3, <1>4, Induct
<1> QED
  BY <1>1, <1>2, <1>5 DEF Keeps, n

\* A go, say or deliver goal is reached by what is kept.
LEMMA KeptReaches ==
    ASSUME NEW plan, IsPlan(plan), NEW w \in Worlds, NEW g, g.type = "go" => g.to \in Spot,
           Gate!Reached(g, plan, w.arrived)
    PROVE  Gate!Reached(g, Gate!Kept(plan, w), w.arrived)
<1> DEFINE n == Len(plan)
           at == w.arrived
           out == Gate!Kept(plan, w)
<1>1. PICK K : K.out = out /\ Follows(K, plan, n, at)
  BY KeptFollows
<1> HIDE DEF out, at
<1>2. n \in Nat /\ DOMAIN plan = 1..n /\ Len(out) \in Nat /\ DOMAIN out = 1..Len(out)
  BY <1>1, PlanIs DEF Follows
<1> HIDE DEF n
<1> SUFFICES Gate!Reached(g, out, at)
  BY DEF out, at
<1>3. CASE g.type = "go" /\ at = g.to
  BY <1>3 DEF Gate!Reached
<1>4. ASSUME NEW k \in DOMAIN plan, g.type = "go", plan[k].action = "MoveTo", plan[k].object = g.to
      PROVE  Gate!Reached(g, out, at)
  <2>1. GoesThere(out, at, g.to)
    BY <1>1, <1>2, <1>4 DEF Follows
  <2> QED
    BY <1>2, <1>4, <2>1 DEF GoesThere, Gate!Reached
<1>5. ASSUME NEW k \in DOMAIN plan, plan[k].action \in {"Say", "WaitForUnload"}
      PROVE  \E i \in DOMAIN out : out[i] = plan[k] /\ Gate!Here(out, i, at) = Gate!Here(plan, k, at)
  <2>1. DoesSo(out, plan, k, at)
    BY <1>1, <1>2, <1>5 DEF Follows
  <2>2. PICK i \in 1..Len(out) : out[i] = plan[k] /\ \E p : StandsAt(plan, at, k, p) /\ StandsAt(out, at, i, p)
    BY <2>1 DEF DoesSo
  <2>3. PICK p : StandsAt(plan, at, k, p) /\ StandsAt(out, at, i, p)
    BY <2>2
  <2>4. k \in Nat /\ i \in Nat
    BY <1>2, <2>2
  <2>5. Gate!Here(plan, k, at) = p
    BY <2>3, <2>4, HereStands, StandsOnce
  <2>6. Gate!Here(out, i, at) = p
    BY <2>3, <2>4, HereStands, StandsOnce
  <2> QED
    BY <1>2, <2>2, <2>5, <2>6
<1>6. ASSUME NEW k \in DOMAIN plan, g.type = "say", plan[k] = Gate!Step("Say", g.object),
             g.to \in {None, Gate!Here(plan, k, at)}
      PROVE  Gate!Reached(g, out, at)
  <2>1. plan[k].action = "Say"
    BY <1>6 DEF Gate!Step
  <2> QED
    BY <1>5, <1>6, <2>1 DEF Gate!Reached
<1>7. ASSUME NEW k \in DOMAIN plan, g.type = "deliver", plan[k].action = "WaitForUnload",
             Gate!Here(plan, k, at) = g.to
      PROVE  Gate!Reached(g, out, at)
  BY <1>5, <1>7 DEF Gate!Reached
<1>8. \/ g.type = "go" /\ at = g.to
      \/ \E k \in DOMAIN plan :
            \/ g.type = "go" /\ plan[k].action = "MoveTo" /\ plan[k].object = g.to
            \/ /\ g.type = "say" /\ plan[k] = Gate!Step("Say", g.object)
               /\ g.to \in {None, Gate!Here(plan, k, at)}
            \/ g.type = "deliver" /\ plan[k].action = "WaitForUnload" /\ Gate!Here(plan, k, at) = g.to
  BY DEF Gate!Reached, at
<1> QED
  BY <1>3, <1>4, <1>6, <1>7, <1>8

\* No goal is lost by what is left out.
LEMMA KeptAchieves ==
    ASSUME NEW plan, IsPlan(plan), NEW w \in Worlds, NEW task \in Tasks, Gate!Missing(plan, w, task) = {}
    PROVE  Gate!Missing(Gate!Kept(plan, w), w, task) = {}
<1> DEFINE out == Gate!Kept(plan, w)
           c == Gate!Counted(plan, w)
<1>1. Gate!Counted(out, w) = c
  BY KeptCounts
<1>2. \A g \in Gate!ToSet(task) : Gate!Achieves(g, c, plan, w.arrived)
  BY DEF Gate!Missing
<1>3. \A g \in Gate!ToSet(task) : g.type = "go" => g.to \in Spot
  BY PlaceAssumption DEF Gate!ToSet, ToSet
<1>4. ASSUME NEW g \in Gate!ToSet(task) PROVE Gate!Achieves(g, c, out, w.arrived)
  <2>1. Gate!Achieves(g, c, plan, w.arrived) /\ (g.type = "go" => g.to \in Spot)
    BY <1>2, <1>3
  <2>2. Gate!Reached(g, plan, w.arrived) => Gate!Reached(g, out, w.arrived)
    BY <2>1, KeptReaches
  <2> HIDE DEF c, out
  <2> QED
    BY <2>1, <2>2 DEF Gate!Achieves
<1> HIDE DEF out, c
<1>5. Gate!Missing(out, w, task) = {}
  BY <1>1, <1>4 DEF Gate!Missing
<1> QED
  BY <1>5 DEF out

\* What the checker says of a whole plan, besides of its steps: that it misses a goal, or that
\* it goes on when every goal is reached.
SaysAtEnd(plan, w, task) ==
    LET early == {k \in 0..(Len(plan) - 1) : Gate!Reaches(SubSeq(plan, 1, k), w, task)}
    IN  IF Gate!Missing(plan, w, task) # {} THEN {<<Len(plan) + 1, "not_achieved">>}
        ELSE IF early # {} THEN {<<Gate!Min(early) + 1, "goals_done">>} ELSE {}

\* That is at most one thing, and none it says of a step: findings can be counted.
LEMMA CriticalCounts ==
    ASSUME NEW plan, IsPlan(plan), NEW w, NEW task, Listed(Gate!Walk(plan, w, task).found, Len(plan))
    PROVE  /\ Cardinality(Gate!Walk(plan, w, task).found) \in Nat
           /\ Cardinality(Gate!Critical(plan, w, task)) = Cardinality(Gate!Walk(plan, w, task).found)
                + (IF SaysAtEnd(plan, w, task) = {} THEN 0 ELSE 1)
<1> DEFINE found == Gate!Walk(plan, w, task).found
           more == SaysAtEnd(plan, w, task)
<1>1. Gate!Critical(plan, w, task) = found \union more
  BY DEF Gate!Critical, SaysAtEnd
<1>2. IsFiniteSet(found) /\ Cardinality(found) \in Nat
  <2>1. Len(plan) \in Nat /\ {} \subseteq Names
    BY PlanIs
  <2>2. AddsUp(found, Len(plan), {})
    BY <2>1, FoundMore
  <2> QED
    BY <2>2 DEF AddsUp
<1>3. more = {} \/ \E x, name : more = {<<x, name>>} /\ name \in {"not_achieved", "goals_done"}
  BY DEF SaysAtEnd
<1> HIDE DEF more
<1>4. CASE more = {}
  BY <1>1, <1>2, <1>4 DEF more
<1>5. CASE \E x, name : more = {<<x, name>>} /\ name \in {"not_achieved", "goals_done"}
  <2>1. PICK x, name : more = {<<x, name>>} /\ name \in {"not_achieved", "goals_done"}
    BY <1>5
  <2>2. name \notin Names
    BY <2>1, NamesFew
  <2>3. <<x, name>> \notin found
    BY <2>2 DEF Listed
  <2>4. Cardinality(found \union {<<x, name>>}) = Cardinality(found) + 1
    <3> HIDE DEF found
    <3> QED
      BY <1>2, <2>3, FS_AddElement
  <2>5. more # {}
    BY <2>1
  <2> QED
    BY <1>1, <1>2, <2>1, <2>4, <2>5 DEF more
<1> QED
  BY <1>3, <1>4, <1>5

\* What is kept of a plan, up to where the goals are reached: no goal is lost, and the
\* checker says no more of it.
LEMMA TidyIsLighter ==
    ASSUME NEW plan, IsPlan(plan), NEW w \in Worlds, NEW task \in Tasks
    PROVE  LET tidied == Gate!Tidy(plan, w, task)
           IN  /\ Gate!Missing(plan, w, task) = {} => Gate!Missing(tidied, w, task) = {}
               /\ Cardinality(Gate!Critical(tidied, w, task)) <= Cardinality(Gate!Critical(plan, w, task))
<1> DEFINE out == Gate!Kept(plan, w)
           tidied == Gate!Tidy(plan, w, task)
           early(s) == {k \in 0..(Len(s) - 1) : Gate!Reaches(SubSeq(s, 1, k), w, task)}
           done == {k \in 1..(Len(out) - 1) : Gate!Reaches(SubSeq(out, 1, k), w, task)}
           A == Gate!Walk(plan, w, task).found
           B == Gate!Walk(out, w, task).found
           C == Gate!Walk(tidied, w, task).found
<1>1. task # << >>
  BY PlaceAssumption
<1>2. \A s : Gate!Reaches(s, w, task) <=> Gate!Missing(s, w, task) = {}
  BY <1>1 DEF Gate!Reaches
<1>3. tidied = IF done # {} THEN SubSeq(out, 1, Gate!Min(done)) ELSE out
  BY <1>1 DEF Gate!Tidy
<1>4. /\ IsPlan(plan) /\ IsPlan(out) /\ IsPlan(tidied)
      /\ Len(plan) \in Nat /\ Len(out) \in Nat /\ Len(tidied) \in Nat
  BY KeptIsPlan, TidyIsPlan, PlanIs
<1>5. Gate!Missing(plan, w, task) = {} => Gate!Missing(out, w, task) = {}
  BY KeptAchieves
<1>6. /\ Listed(A, Len(plan)) /\ Listed(B, Len(out)) /\ Cardinality(B) <= Cardinality(A)
      /\ Cardinality(A) \in Nat /\ Cardinality(B) \in Nat /\ IsFiniteSet(B)
  <2>1. PICK K : K.out = out /\ Lighter(K, Gate!Walk(plan, w, task), Len(plan), w, task)
    BY KeptIsLighter
  <2> DEFINE a == Gate!Walk(plan, w, task)
             b == Gate!Walk(out, w, task)
  <2>2. Fewer(a, Len(plan), b, Len(out))
    BY <2>1 DEF Lighter
  <2> HIDE DEF a, b, out
  <2>3. /\ Listed(a.found, Len(plan)) /\ Listed(b.found, Len(out))
        /\ Cardinality(b.found) + Debt(a, b) <= Cardinality(a.found)
    BY <2>2 DEF Fewer
  <2>4. Debt(a, b) \in {0, 1} /\ {} \subseteq Names
    BY DEF Debt
  <2>5. AddsUp(a.found, Len(plan), {}) /\ AddsUp(b.found, Len(out), {})
    BY <1>4, <2>3, <2>4, FoundMore
  <2> QED
    BY <2>3, <2>4, <2>5 DEF AddsUp, a, b
\* Where it stops.
<1>7. ASSUME done # {}
      PROVE  /\ Gate!Min(done) \in done /\ Gate!Min(done) \in Nat /\ Gate!Min(done) >= 1
             /\ Gate!Min(done) <= Len(out) /\ \A k \in done : Gate!Min(done) <= k
  <2>1. done \in SUBSET (1..Len(out))
    BY <1>4
  <2> HIDE DEF done
  <2>2. \E x \in done : \A y \in done : x <= y
    BY <1>4, <1>7, <2>1, FirstThere
  <2>3. Gate!Min(done) \in done /\ \A k \in done : Gate!Min(done) <= k
    BY <2>2 DEF Gate!Min
  <2>4. Gate!Min(done) \in 1..Len(out)
    BY <2>1, <2>3
  <2>5. Gate!Min(done) \in Nat /\ Gate!Min(done) >= 1 /\ Gate!Min(done) <= Len(out)
    <3> DEFINE m == Gate!Min(done)
               l == Len(out)
    <3>1. m \in 1..l /\ l \in Nat
      BY <1>4, <2>4
    <3> HIDE DEF m, l
    <3>2. m \in Nat /\ m >= 1 /\ m <= l
      BY <3>1
    <3> QED
      BY <3>2 DEF m, l
  <2> QED
    BY <2>3, <2>5
<1> HIDE DEF out, tidied, A, B, C
<1>8. Gate!Missing(plan, w, task) = {} => Gate!Missing(tidied, w, task) = {}
  <2>1. CASE done # {}
    <3>1. Gate!Reaches(SubSeq(out, 1, Gate!Min(done)), w, task)
      BY <1>7, <2>1
    <3> QED
      BY <1>2, <1>3, <2>1, <3>1
  <2>2. CASE done = {}
    BY <1>3, <1>5, <2>2
  <2> QED
    BY <2>1, <2>2
<1>9. C \subseteq B
  <2>1. CASE done # {}
    <3> DEFINE m == Gate!Min(done)
    <3>1. m \in Nat /\ m <= Len(out)
      BY <1>7, <2>1
    <3> HIDE DEF m, done
    <3>2. Gate!Walk(SubSeq(out, 1, m), w, task).found \subseteq B
      BY <1>4, <3>1, WalkGrows DEF B
    <3> QED
      BY <1>3, <2>1, <3>2 DEF C, m
  <2>2. CASE done = {}
    BY <1>3, <2>2 DEF B, C
  <2> QED
    BY <2>1, <2>2
<1>10. IsFiniteSet(C) /\ Cardinality(C) <= Cardinality(B)
  BY <1>6, <1>9, FS_Subset
<1>11. Listed(C, Len(tidied))
  <2>0. DOMAIN tidied = 1..Len(tidied) /\ Len(tidied) \in Nat
    BY <1>4, PlanIs
  <2>1. PICK it : FoldsPlan(it, "walk", WalkStart(w), tidied, Len(tidied), task) /\ Gate!Walk(tidied, w, task) = it[1..Len(tidied)]
    <3> DEFINE n == Len(tidied)
    <3>1. n \in Nat /\ DOMAIN tidied = 1..n
      BY <2>0
    <3> HIDE DEF n
    <3>2. \E it : FoldsPlan(it, "walk", WalkStart(w), tidied, n, task) /\ Gate!Walk(tidied, w, task) = it[1..n]
      BY <3>1, WalkFolds DEF WalkStart
    <3> QED
      BY <3>2 DEF n
  <2>2. FoldedSteps(it, "walk", WalkStart(w), tidied, Len(tidied), task)
    BY <1>4, <2>1, FoldSteps
  <2> DEFINE Good == {k \in Nat : k <= Len(tidied) => Listed(it[1..k].found, k)}
  <2>3. 0 \in Good
    BY <2>2 DEF FoldedSteps, WalkStart, Listed
  <2>4. ASSUME NEW k \in Nat, k \in Good PROVE k + 1 \in Good
    <3> SUFFICES ASSUME k + 1 <= Len(tidied) PROVE Listed(it[1..(k + 1)].found, k + 1)
      OBVIOUS
    <3> DEFINE a == it[1..k]
               W == Gate!Worded(tidied[k + 1], a.w, task, a.placedOk)
    <3>1. Listed(a.found, k)
      BY <1>4, <2>4
    <3>2. it[1..(k + 1)] = Gate!WalkStep(a, tidied[k + 1], k + 1, task)
      BY <1>4, <2>2 DEF FoldedSteps, Did
    <3>3. W \subseteq Names
      BY WordedNames
    <3> HIDE DEF a
    <3>4. it[1..(k + 1)].found = a.found \union FoundAt(k + 1, W)
      BY <3>2 DEF Gate!WalkStep, FoundAt
    <3> HIDE DEF W
    <3>5. AddsUp(a.found, k, W)
      BY <3>1, <3>3, FoundMore
    <3> QED
      BY <3>4, <3>5 DEF AddsUp
  <2>5. Len(tidied) \in Good
    <3> HIDE DEF Good
    <3> QED
      BY <1>4, <2>3, <2>4, Induct
  <2> QED
    BY <1>4, <2>1, <2>5 DEF C
<1>12. SaysAtEnd(tidied, w, task) # {} => SaysAtEnd(plan, w, task) # {}
  <2> SUFFICES ASSUME SaysAtEnd(plan, w, task) = {} PROVE SaysAtEnd(tidied, w, task) = {}
    OBVIOUS
  <2>1. Gate!Missing(plan, w, task) = {} /\ early(plan) = {}
    BY DEF SaysAtEnd
  <2>2. Gate!Missing(tidied, w, task) = {}
    BY <1>8, <2>1
  <2>3. early(tidied) = {}
    <3> SUFFICES ASSUME NEW k \in 0..(Len(tidied) - 1), Gate!Reaches(SubSeq(tidied, 1, k), w, task)
                 PROVE  FALSE
      OBVIOUS
    <3>1. CASE k = 0
      <4>1. Len(tidied) > 0
        BY <1>4, <3>1
      <4>2. Len(plan) > 0
        <5> SUFFICES ASSUME Len(plan) = 0 PROVE FALSE
          BY <1>4
        <5>1. PICK itk : Keeps(itk, plan, w, Len(plan))
          BY KeptThere
        <5>2. out = << >>
          BY <5>1 DEF Keeps, out
        <5>3. Len(out) = 0
          BY <5>2, NoneIs
        <5>4. done = {}
          BY <5>3
        <5> QED
          BY <1>3, <4>1, <5>3, <5>4
      <4>3. SubSeq(tidied, 1, 0) = << >> /\ SubSeq(plan, 1, 0) = << >>
        BY <1>4, Begins
      <4>4. 0 \in early(plan)
        <5>1. 0 \in 0..(Len(plan) - 1)
          BY <1>4, <4>2
        <5>2. Gate!Reaches(SubSeq(tidied, 1, 0), w, task)
          BY <3>1
        <5>3. Gate!Reaches(SubSeq(plan, 1, 0), w, task)
          BY <4>3, <5>2
        <5> QED
          BY <5>1, <5>3
      <4> QED
        BY <2>1, <4>4
    <3>2. CASE k > 0
      <4>1. CASE done # {}
        <5> DEFINE m == Gate!Min(done)
        <5>1. /\ m \in Nat /\ m >= 1 /\ m <= Len(out) /\ m \in done /\ \A i \in done : m <= i
          BY <1>7, <4>1
        <5>2. tidied = SubSeq(out, 1, m)
          BY <1>3, <4>1
        <5> HIDE DEF m
        <5>3. IsPlan(tidied) /\ Len(tidied) = m
          BY <1>4, <5>1, <5>2, PlanIs, 1 \in Nat
        <5>4. SubSeq(tidied, 1, k) = SubSeq(out, 1, k)
          <6>1. k \in Nat /\ 1 \in Nat /\ k <= Len(tidied) /\ k <= Len(out) /\ 1 <= k
            BY <1>4, <3>2, <5>1, <5>3
          <6>2. IsPlan(SubSeq(tidied, 1, k)) /\ Len(SubSeq(tidied, 1, k)) = k
                /\ \A i \in 1..k : SubSeq(tidied, 1, k)[i] = tidied[i]
            BY <5>3, <6>1, PlanIs
          <6>3. IsPlan(SubSeq(out, 1, k)) /\ Len(SubSeq(out, 1, k)) = k
                /\ \A i \in 1..k : SubSeq(out, 1, k)[i] = out[i]
            BY <1>4, <6>1, PlanIs
          <6>4. \A i \in 1..m : tidied[i] = out[i]
            BY <1>4, <5>1, <5>2, PlanIs, 1 \in Nat
          <6>5. \A i \in 1..k : SubSeq(tidied, 1, k)[i] = SubSeq(out, 1, k)[i]
            BY <5>1, <5>3, <6>1, <6>2, <6>3, <6>4
          <6> QED
            BY <6>2, <6>3, <6>5, SamePlan
        <5>5. k \in done
          <6>1. k \in 1..(Len(out) - 1)
            BY <1>4, <3>2, <5>1, <5>3
          <6>2. Gate!Reaches(SubSeq(tidied, 1, k), w, task)
            OBVIOUS
          <6>3. Gate!Reaches(SubSeq(out, 1, k), w, task)
            BY <5>4, <6>2
          <6> QED
            BY <6>1, <6>3
        <5> QED
          BY <5>1, <5>3, <5>5
      <4>2. CASE done = {}
        BY <1>3, <1>4, <3>2, <4>2
      <4> QED
        BY <4>1, <4>2
    <3> QED
      BY <1>4, <3>1, <3>2
  <2> QED
    BY <2>2, <2>3 DEF SaysAtEnd
<1>13. /\ Cardinality(Gate!Critical(plan, w, task)) = Cardinality(A) + (IF SaysAtEnd(plan, w, task) = {} THEN 0 ELSE 1)
       /\ Cardinality(Gate!Critical(tidied, w, task)) = Cardinality(C) + (IF SaysAtEnd(tidied, w, task) = {} THEN 0 ELSE 1)
       /\ Cardinality(C) \in Nat
  BY <1>4, <1>6, <1>11, CriticalCounts DEF A, C
<1>14. Cardinality(Gate!Critical(tidied, w, task)) <= Cardinality(Gate!Critical(plan, w, task))
  BY <1>6, <1>10, <1>12, <1>13
<1> QED
  BY <1>8, <1>14 DEF tidied

(***************************************************************************)
(* Tidying a plan costs no goal, and gives the checker no more to find     *)
(* than the plan as the planner wrote it had.  plan_tidy leaves steps out  *)
(* in a world in which every other step takes effect, while the checker    *)
(* walks through a world in which some do not: what the one says of the    *)
(* other is enough.  A Find of what is in the hand is left out, though the *)
(* robot may put it down and pick it up again without another: the checker *)
(* then says so of the Pick, and had as much to say of the Find.           *)
(***************************************************************************)
THEOREM TidyKeeps == Gate!Spec => []TidyIsHarmless
<1>1. CertInv => TidyIsHarmless
  <2> SUFFICES ASSUME CertInv PROVE Gate!TidyIsHarmless
    BY DEF TidyIsHarmless
  <2> DEFINE plan == Gate!Join(blocks)
             tidied == Gate!Tidy(plan, world, tasks)
  <2>1. IsPlan(plan) /\ world \in Worlds /\ tasks \in Tasks /\ tasks # << >>
    BY JoinedIsPlan, PlaceAssumption DEF CertInv
  <2> HIDE DEF plan
  <2>2. /\ Gate!Missing(plan, world, tasks) = {} => Gate!Missing(tidied, world, tasks) = {}
        /\ Cardinality(Gate!Critical(tidied, world, tasks)) <= Cardinality(Gate!Critical(plan, world, tasks))
    BY <2>1, TidyIsLighter
  <2> HIDE DEF tidied
  <2>3. Gate!Reaches(plan, world, tasks) => Gate!Reaches(tidied, world, tasks)
    BY <2>1, <2>2 DEF Gate!Reaches
  <2>4. /\ Gate!Reaches(plan, world, tasks) => Gate!Reaches(Gate!Tidy(plan, world, tasks), world, tasks)
        /\ Cardinality(Gate!Critical(Gate!Tidy(plan, world, tasks), world, tasks)) <= Cardinality(Gate!Critical(plan, world, tasks))
    BY <2>2, <2>3 DEF tidied
  <2>5. /\ Gate!Reaches(Gate!Join(blocks), world, tasks) => Gate!Reaches(Gate!Tidy(Gate!Join(blocks), world, tasks), world, tasks)
        /\ Cardinality(Gate!Critical(Gate!Tidy(Gate!Join(blocks), world, tasks), world, tasks)) <= Cardinality(Gate!Critical(Gate!Join(blocks), world, tasks))
    BY <2>4 DEF plan
  <2>6. \A S : Gate!Cardinality(S) = Cardinality(S)
    BY DEF Gate!Cardinality, Cardinality
  <2> QED
    BY <2>5, <2>6 DEF Gate!TidyIsHarmless
<1> QED
  BY <1>1, InitCert, NextCert, PTL DEF Gate!Spec
=============================================================================
