----------------------------- MODULE Understand -----------------------------
(***************************************************************************)
(* core/planning: how AssistLoop settles what the person wants before it   *)
(* plans.  A language model reads goals from the task and the answers so   *)
(* far; the goals are grounded on the places the robot knows and compared  *)
(* with the words that were said; what is missing or in doubt is asked,    *)
(* sampled again or read back; an answer the microphone took may have been *)
(* misheard, one that was typed may not.  Every call of the model counts   *)
(* against the run's budget, and a Stop ends the call it finds.            *)
(*                                                                         *)
(* Goals are "object on place"; words are the places they name.  A reading *)
(* whose place cannot be grounded is one with no place.  The goals the     *)
(* filter drops are ones the model may as well not have read, and the      *)
(* memory, which only makes the prompt, is left out.  A question and its   *)
(* silence retries (Dialog) end with what was said, or with silence.       *)
(***************************************************************************)
EXTENDS Integers, Sequences, FiniteSets, SequencesExt

CONSTANTS
    Object, Place,
    None,           \* no place
    TaskPlaces,     \* the places the task names
    ClarifyRounds,  \* cfg clarify_rounds
    Samples,        \* cfg understand_samples
    Retries,        \* cfg understand_retries
    Reasks,         \* cfg yes_no_reasks
    Confirms,       \* read-backs of one run: 2
    ConfirmTask,    \* cfg confirm_task
    Budget          \* llm_budget

ASSUME PlacesAssumption == None \notin Place /\ TaskPlaces \subseteq Place
ASSUME BoundsAssumption ==
    /\ {ClarifyRounds, Samples, Retries, Reasks, Confirms} \subseteq Nat
    /\ Budget \in Nat \ {0}    \* 0 would be no cap
    /\ ConfirmTask \in BOOLEAN

VARIABLES
    goals,      \* r.goals
    dialogue,   \* r.dialogue: the place each answer named
    asked,      \* r.asked
    confirms,   \* r.confirms
    reasked,    \* how often the read-back was asked again
    pinned,     \* r.pin_to
    replaced,   \* r.replaced
    heard,      \* r.heard > 0: an answer came through the microphone
    source,     \* _answer_source: where the last answer came from
    sampled,    \* r.sampled
    issueAsked, \* r.issue_asked
    unsure,     \* r.unsure # []
    samples,    \* the re-samples so far
    used,       \* llm_budget.used
    cancelled,  \* the run's cancel event
    pc,         \* "understand", "resample", "ask", "confirm", then how it ended
    agreed      \* history: the goals the person said yes to

settings == <<pinned, replaced>>
people == <<dialogue, asked, confirms, reasked, heard, source>>
doubts == <<sampled, issueAsked, unsure, samples>>
vars == <<goals, people, settings, doubts, used, cancelled, pc, agreed>>

Goal == [object : Object, to : Place]
\* A goal as the model read it and _ground_goals grounded it, on a place or on none.
Reading == [object : Object, to : Place \union {None}]
Ends == {"plan", "refused", "failed", "aborted"}

-----------------------------------------------------------------------------
(* What was said, and what the goals make of it.                           *)

Answered == {dialogue[i] : i \in DOMAIN dialogue} \ {None}
\* place_mentions of the task, without_places that were replaced, and of the answers.
Said == (TaskPlaces \ replaced) \union Answered
Asked(gs) == {g.to : g \in gs}

\* find_issues: a place that was said and no goal uses, a goal's place nobody said.
Issues(gs) == IF gs = {} THEN {} ELSE (Said \ Asked(gs)) \union (Asked(gs) \ Said)

\* conflicts: one object cannot end in two places.
Conflict(gs) == \E g, h \in gs : g.object = h.object /\ g.to # h.to

\* _ground_understood: a corrected destination replaces the model's.
Ground(reading) ==
    IF pinned = None THEN reading ELSE {[g EXCEPT !.to = pinned] : g \in reading}
\* Places.ground finds no place, or several.
Ungrounded(gs) == \E g \in gs : g.to = None

-----------------------------------------------------------------------------
(* The model's answers.                                                    *)

\* LLMBudget.take, once for each call of an understanding: the first and the
\* repairs of answers that are no JSON.
Takes(n) == used + n <= Budget /\ used' = used + n

\* ask_json: after 1 .. 1 + Retries calls the model answered JSON, or is down;
\* or no call of them all gave JSON; or the budget ran out between them.
AnswersJson == \E n \in 1..(1 + Retries) : Takes(n)
NeverJson == Takes(1 + Retries)
BudgetRunsOut == \E n \in 0..Retries : Takes(n) /\ used' = Budget

-----------------------------------------------------------------------------
(* What follows from an understanding.                                     *)

\* _ask_clarify: the next question, while there is one left.
AskNext ==
    IF asked >= ClarifyRounds
    THEN pc' = "failed" /\ UNCHANGED asked
    ELSE pc' = "ask" /\ asked' = asked + 1

\* A mutant: what was read back once is not read back again.
ReadBackOnce(doubt) ==
    IF confirms > 0 \/ ~((dialogue # << >> /\ heard) \/ ConfirmTask \/ doubt)
    THEN pc' = "plan" /\ UNCHANGED confirms
    ELSE pc' = "confirm" /\ confirms' = confirms + 1

\* _read_back: after a heard answer, in doubt, or always.
ReadBack(doubt) ==
    IF ~((dialogue # << >> /\ heard) \/ ConfirmTask \/ doubt)
    THEN pc' = "plan" /\ UNCHANGED confirms
    ELSE IF confirms >= Confirms
    THEN pc' = "failed" /\ UNCHANGED confirms
    ELSE pc' = "confirm" /\ confirms' = confirms + 1

\* A mutant: the doubt ends with its question.
AskIssuesOnce(doubt) ==
    IF doubt /\ ~issueAsked
    THEN issueAsked' = TRUE /\ AskNext /\ UNCHANGED confirms
    ELSE ReadBack(FALSE) /\ UNCHANGED <<issueAsked, asked>>

\* The end of _goal_readback: the doubt is asked about once, then read back.
AskIssues(doubt) ==
    IF doubt /\ ~issueAsked
    THEN issueAsked' = TRUE /\ AskNext /\ UNCHANGED confirms
    ELSE ReadBack(doubt) /\ UNCHANGED <<issueAsked, asked>>

\* _goal_readback: in doubt the model is sampled again first, once in a run.
GoalReadback(gs) ==
    /\ unsure' = (Issues(gs) # {})
    /\ IF unsure' /\ ~sampled /\ Samples > 0
       THEN sampled' = TRUE /\ samples' = << >> /\ pc' = "resample" /\ UNCHANGED <<issueAsked, asked, confirms>>
       ELSE AskIssues(unsure') /\ UNCHANGED <<sampled, samples>>

\* typed_refusal of a model's "unsafe" or "infeasible": an answer the
\* microphone took, with no word for it, was misheard and is asked again.
Refuses(marked) ==
    IF dialogue # << >> /\ source = "robot" /\ ~marked
    THEN dialogue' = Front(dialogue) /\ AskNext
    ELSE dialogue' = dialogue /\ pc' = "refused" /\ UNCHANGED asked

\* _understand_round, from the model's answer to what comes of it.
Understood(status, reading) ==
    /\ goals' = Ground(reading)
    /\ \E marked, missing \in BOOLEAN :
        LET refused == status = "unsafe"
                        \/ (status = "infeasible" /\ ~(dialogue # << >> /\ goals' # {}))
        IN  CASE refused -> Refuses(marked) /\ UNCHANGED <<confirms, doubts>>
              [] ~refused /\ missing /\ goals' # {} ->    \* _cannot_do
                    pc' = "refused" /\ UNCHANGED <<dialogue, asked, confirms, doubts>>
              [] ~refused /\ ~(missing /\ goals' # {}) ->
                    /\ UNCHANGED dialogue
                    /\ IF goals' = {} \/ Ungrounded(goals') \/ Conflict(goals')
                       THEN AskNext /\ UNCHANGED <<confirms, doubts>>
                       ELSE GoalReadback(goals')

-----------------------------------------------------------------------------
(* The steps of the phase.                                                 *)

Init ==
    /\ goals = {} /\ dialogue = << >> /\ asked = 0 /\ confirms = 0 /\ reasked = 0
    /\ pinned = None /\ replaced = {} /\ heard = FALSE /\ source = "robot"
    /\ sampled = FALSE /\ issueAsked = FALSE /\ unsure = FALSE /\ samples = << >>
    /\ used \in 0..Budget
    /\ cancelled = FALSE /\ pc = "understand" /\ agreed = {}

\* A Stop, at any time (it is seen at the next call, or after the next answer).
Cancel ==
    /\ pc \notin Ends /\ ~cancelled
    /\ cancelled' = TRUE
    /\ UNCHANGED <<goals, people, settings, doubts, used, pc, agreed>>

\* A call of the model that ends the run: down, out of budget, stopped.
CallEndsRun ==
    /\ pc \in {"understand", "resample"}
    /\ \/ ~cancelled /\ AnswersJson /\ pc' = "failed"                       \* LLMUnavailable
       \/ ~cancelled /\ BudgetRunsOut /\ pc = "understand" /\ pc' = "failed" \* LLMBudgetExceeded
       \/ cancelled /\ (Takes(1) \/ UNCHANGED used) /\ pc' = "aborted"
    /\ UNCHANGED <<goals, people, settings, doubts, cancelled, agreed>>

Read ==
    /\ pc = "understand" /\ ~cancelled
    /\ \/ AnswersJson /\ \E status \in {"clear", "ambiguous", "unsafe", "infeasible"},
                            reading \in SUBSET Reading : Understood(status, reading)
       \/ NeverJson /\ Understood("clear", {})
    /\ UNCHANGED <<reasked, settings, heard, source, cancelled, agreed>>

\* _resample: a reading counts when it needs no question of its own.
Resample ==
    /\ pc = "resample" /\ ~cancelled /\ Len(samples) < Samples
    /\ \/ AnswersJson /\ \E reading \in SUBSET Reading, usable \in BOOLEAN :
            samples' = Append(samples,
                IF usable /\ ~Ungrounded(Ground(reading)) THEN <<Ground(reading)>> ELSE << >>)
       \/ NeverJson /\ samples' = Append(samples, <<{}>>)
    /\ UNCHANGED <<goals, people, settings, sampled, issueAsked, unsure, cancelled, pc, agreed>>

\* consensus: goals without an issue that enough of the samples agree on.
Usable == FlattenSeq(samples)
Need == IF Len(Usable) >= 2 THEN 2 ELSE 1
Votes(gs) == Cardinality({i \in DOMAIN Usable : Usable[i] = gs})
Consensus == {gs \in ToSet(Usable) : gs # {} /\ Issues(gs) = {} /\ Votes(gs) >= Need}
Best == {gs \in Consensus : \A hs \in Consensus : Votes(gs) >= Votes(hs)}

Resampled ==
    /\ pc = "resample"
    /\ \/ Len(samples) = Samples /\ UNCHANGED used
       \/ Len(samples) < Samples /\ ~cancelled /\ BudgetRunsOut
    /\ samples' = << >>
    /\ IF Best # {}
       THEN /\ goals' \in Best /\ unsure' = FALSE
            /\ ReadBack(FALSE) /\ UNCHANGED <<issueAsked, asked>>
       ELSE AskIssues(TRUE) /\ UNCHANGED <<goals, unsure>>
    /\ UNCHANGED <<dialogue, reasked, heard, source, settings, sampled, cancelled, agreed>>

\* An answer to an open question: what it names, and how it came.
Answer ==
    /\ pc = "ask"
    /\ \E said \in Place \union {None}, how \in {"robot", "typed"} :
        /\ source' = how /\ heard' = (heard \/ how = "robot")
        /\ IF cancelled
           THEN pc' = "aborted" /\ UNCHANGED dialogue
           ELSE pc' = "understand" /\ dialogue' = Append(dialogue, said)
    /\ UNCHANGED <<goals, asked, confirms, reasked, settings, doubts, used, cancelled, agreed>>

\* Silence; a Stop ends the question the same way.
NoAnswer ==
    /\ pc \in {"ask", "confirm"}
    /\ source' = "none" /\ reasked' = 0
    /\ pc' = IF cancelled THEN "aborted" ELSE "failed"
    /\ UNCHANGED <<goals, dialogue, asked, confirms, heard, settings, doubts, used, cancelled, agreed>>

\* What the answer to a read-back leads to, however it came.
Confirmed(reply) ==
    /\ pc = "confirm"
    /\ \E how \in {"robot", "typed"} : source' = how /\ heard' = (heard \/ how = "robot")
    /\ IF cancelled
       THEN pc' = "aborted" /\ reasked' = 0 /\ UNCHANGED <<dialogue, asked, settings, agreed>>
       ELSE reply
    /\ UNCHANGED <<goals, confirms, doubts, used, cancelled>>

Yes == Confirmed(
    /\ pc' = "plan" /\ agreed' = goals /\ reasked' = 0
    /\ UNCHANGED <<dialogue, asked, settings>>)

\* A mutant: an unclear answer is asked again until it is clear.
UnclearAgain == Confirmed(UNCHANGED <<dialogue, asked, reasked, settings, pc, agreed>>)

\* "yet", noise: asked again; still unclear, it is a no.
Unclear == Confirmed(
    /\ UNCHANGED <<settings, agreed>>
    /\ IF reasked < Reasks
       THEN reasked' = reasked + 1 /\ UNCHANGED <<dialogue, asked, pc>>
       ELSE reasked' = 0 /\ dialogue' = Append(dialogue, None) /\ AskNext)

BareNo == Confirmed(
    /\ dialogue' = Append(dialogue, None)
    /\ AskNext /\ reasked' = 0
    /\ UNCHANGED <<settings, agreed>>)

\* "no, the shelf": the place named replaces the destination that was read
\* back, unless it is the place to take the object from.
Corrects == Confirmed(
    \E said \in Place \union {None}, taking \in BOOLEAN :
        /\ dialogue' = Append(dialogue, said)
        /\ pc' = "understand" /\ reasked' = 0
        /\ IF said # None /\ ~taking
           THEN /\ pinned' = said
                /\ replaced' = replaced \union (Asked(goals) \ {said})
           ELSE UNCHANGED settings
        /\ UNCHANGED <<asked, agreed>>)

Next == \/ Cancel \/ CallEndsRun \/ Read \/ Resample \/ Resampled
        \/ Answer \/ NoAnswer \/ Yes \/ Unclear \/ BareNo \/ Corrects

\* A call of the model answers or times out, a question ends by an answer or
\* by its silence (Dialog): the loop goes on.  Nobody has to press Stop.
Fairness == WF_vars(Next /\ ~(~cancelled /\ cancelled'))

Spec == Init /\ [][Next]_vars /\ Fairness

-----------------------------------------------------------------------------
(* Properties.                                                             *)

TypeOK ==
    /\ goals \subseteq Reading
    /\ dialogue \in Seq(Place \union {None}) /\ source \in {"robot", "typed", "none"}
    /\ asked \in 0..ClarifyRounds /\ confirms \in 0..Confirms /\ reasked \in 0..Reasks
    /\ pinned \in Place \union {None} /\ replaced \subseteq Place
    /\ {heard, sampled, issueAsked, unsure, cancelled} \subseteq BOOLEAN
    /\ Len(samples) <= Samples /\ used \in 0..Budget
    /\ pc \in Ends \union {"understand", "resample", "ask", "confirm"}
    /\ agreed \subseteq Goal
    /\ pc = "plan" => goals \subseteq Goal /\ goals # {}

\* "A misheard answer is only caught here" (_read_back): once the robot has
\* taken an answer through its microphone, it plans only goals the person has
\* said yes to, as they are, whatever was corrected or sampled since.
HeardIsConfirmed == pc = "plan" /\ heard /\ dialogue # << >> => agreed = goals

\* "A model that dropped or changed a goal must not plan" (_goal_readback):
\* goals that leave out a place the person named, or name one nobody said, are
\* planned only after the person said yes to them.
DoubtsAreConfirmed == pc = "plan" /\ Issues(goals) # {} => agreed = goals

\* However the model reads and whatever the person answers, the questions end:
\* each correction asks the model again, but there are only so many of each.
QuestionsEnd == <>(pc \in Ends)

\* docs/contract.md:214: "Two destinations for one object is a question to the
\* person (goal validator)."
OneDestination == pc = "plan" => ~Conflict(goals)
=============================================================================
