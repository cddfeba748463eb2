------------------------------- MODULE PlanRun -------------------------------
(***************************************************************************)
(* How a plan is executed: the typed plans (UnifiedAgent.run_direct), the  *)
(* open-loop plans of the LLM (UnifiedAgent.run), the closed loop          *)
(* (planning/loop.py, ClosedLoop) and the plan skills they call            *)
(* (plan_skill.py), which call skills and plan skills in turn.  A step is  *)
(* one skill call or an `&&` group, each member of it on a thread of its   *)
(* own (connect/parallel.py).                                              *)
(*                                                                         *)
(* A frame is a plan being executed, at the path of the members that led   *)
(* to it: << >> is the run's own plan, <<2, 1>> the plan skill called by   *)
(* the first member of the step of the plan skill called by the second     *)
(* member of the run's step.  A member of a step is running, or it is what *)
(* its call returned: "done" (isdone), "stop" (it ends the plan), "unreg"  *)
(* (its text says "not registered"), "estop" (a code no retry is allowed   *)
(* for); "raised": its thread ended with no result.                        *)
(*                                                                         *)
(* A hold between two steps is PausePoint's.  Parameters, and the results  *)
(* passed on to later steps, are left out, but for an input that refers to *)
(* what no step returned (`bad`).                                          *)
(***************************************************************************)
EXTENDS Integers, Sequences, FiniteSets, SequencesExt

CONSTANTS
    Code,       \* the skills that are code: a module's function, an HTTP call
    Agent,      \* the names of the device agents
    Names,      \* the names that steps call, registered or not
    Skills,     \* the plan skills: from the name to the plan
    Commands,   \* the plans of the runs
    Plans,      \* the planner's plans (closed loop)
    NoOp, Unbindable,  \* a planner's step that needs no skill; that has none
    MaxDepth,   \* plan_skill.MAX_DEPTH
    MaxReplans  \* cfg max_replans

PlanSkill == DOMAIN Skills
\* A call in a plan: `!`, `~`, a bad input.
Task == [skill : Names, skip : BOOLEAN, fail : BOOLEAN, bad : BOOLEAN]

VARIABLES
    kind,       \* which of the executives it is
    frames,     \* the plans being executed
    isdone,     \* ctx['isdone'] of the run's own plan
    completed,  \* r.completed
    replans,    \* r.replans
    cancelled,  \* the run's cancel event
    status,     \* how the run ended
    lost        \* history: failures that no `!` forgave

progress == <<isdone, completed, replans>>
vars == <<kind, frames, progress, cancelled, status, lost>>

Frame(plan, depth) == [plan |-> plan, at |-> 1, rets |-> << >>, depth |-> depth]
Root == << >>
\* ClosedLoop.run_blocking: plan, execute, finish.
Closed == kind \in {"closed", "plan_only"}
Step(p) == frames[p].plan[frames[p].at]
Returned(r) == r \cap {"running", "agent"} = {}
Idle(p) == p \in DOMAIN frames /\ frames[p].rets = << >>
Over(s) == status' = s /\ frames' = << >>

-----------------------------------------------------------------------------
(* A call of a skill: SkillRegistry.execute, and what its caller makes of  *)
(* the result.                                                             *)

\* `!` and `~` of a step.
Marked(t, r) == (IF t.skip THEN r \cup {"done"} ELSE r) \ (IF t.fail THEN {"done"} ELSE {})

(***************************************************************************)
(* What a step of the plan at `p` makes of it: a typed plan calls the      *)
(* device agent of that name when the text says "not registered"; the open *)
(* loop and the closed loop take it as it is.                              *)
(***************************************************************************)
Result(p, t, r) ==
    IF p = Root
    THEN CASE kind # "direct" -> r
           [] "raised" \in r -> r
           [] "unreg" \notin r -> Marked(t, r)
           [] OTHER -> IF t.skill \in Agent THEN {"agent"} ELSE { }
    ELSE IF "unreg" \in r THEN r ELSE Marked(t, r)

\* The open loop does not know the marks: it looks for a skill "!move".
Found(p, t) ==
    /\ t.skill \in Code \cup PlanSkill
    /\ p = Root /\ kind = "open" => ~t.skip /\ ~t.fail

\* The depth is a thread's own: a member of an `&&` group starts from zero.
DepthIn(p) == IF Len(Step(p)) > 1 THEN 0 ELSE frames[p].depth
\* Mutant: plan skills may nest without end.
NestsAlways(p, t) == t.skill \in PlanSkill /\ Found(p, t) /\ ~t.bad
Nests(p, t) == t.skill \in PlanSkill /\ Found(p, t) /\ ~t.bad /\ DepthIn(p) < MaxDepth

\* A member of the step as it starts.
Started(p, t) ==
    CASE t.bad -> IF p = Root THEN { } ELSE {"raised"}
      [] ~t.bad /\ ~Found(p, t) -> Result(p, t, {"unreg"})
      [] ~t.bad /\ Found(p, t) /\ t.skill \in PlanSkill /\ ~Nests(p, t) -> Result(p, t, { })
      [] OTHER -> {"running"}

(***************************************************************************)
(* History: a failure of a member counts, unless a `!` of the steps that   *)
(* led to it forgives it, or a device agent is called in its place.        *)
(***************************************************************************)
Forgiven(p, m, r) ==
    LET q == Append(p, m)
    IN  \/ \E k \in 1..Len(q) : Step(SubSeq(q, 1, k - 1))[q[k]].skip
        \/ "unreg" \in r /\ kind = "direct" /\ Step(Root)[q[1]].skill \in Agent
Lost(p, m, r) ==
    IF r \cap {"done", "raised", "running", "agent"} # { } \/ Forgiven(p, m, r) THEN { }
    ELSE {"failed"} \cup
         IF "estop" \notin r THEN { }
         ELSE IF \A k \in 0..Len(p) : Len(Step(SubSeq(p, 1, k))) = 1 THEN {"estop"}
         ELSE {"estop in a group"}

\* The step's members start, the plan skills among them with a frame of their own.
Starts(p) ==
    /\ LET g == Step(p)
           new == {Append(p, m) : m \in {n \in DOMAIN g : Nests(p, g[n])}}
       IN  frames' = [q \in DOMAIN frames \cup new |->
               IF q = p THEN [frames[p] EXCEPT !.rets = [m \in DOMAIN g |-> Started(p, g[m])]]
               ELSE IF q \in new THEN Frame(Skills[g[Last(q)].skill], DepthIn(p) + 1)
               ELSE frames[q]]
    /\ lost' = lost \cup UNION {Lost(p, m, Started(p, Step(p)[m])) : m \in DOMAIN Step(p)}

(***************************************************************************)
(* A skill that is code returns: done, done and the plan is to end here,   *)
(* failed, failed with an e-stop, failed with a text that says "not        *)
(* registered", or with no dict, which is a failure in a plan skill (None) *)
(* and in the closed loop, and which the other loops raise on.             *)
(***************************************************************************)
SkillReturns(p, m) ==
    /\ p \in DOMAIN frames /\ m \in DOMAIN frames[p].rets
    /\ frames[p].rets[m] = {"running"}
    /\ Step(p)[m].skill \in Code
    /\ \E r \in {{"done"}, {"done", "stop"}, { }, {"estop"}, {"unreg"}}
              \cup (IF p = Root /\ ~Closed THEN {{"raised"}} ELSE { }) :
          /\ frames' = [frames EXCEPT ![p].rets[m] = Result(p, Step(p)[m], r)]
          /\ lost' = lost \cup Lost(p, m, r)
    /\ UNCHANGED <<kind, progress, cancelled, status>>

\* A typed plan's device agent answers; an agent that raises has failed, `!` or not.
AgentReturns(m) ==
    /\ Root \in DOMAIN frames /\ m \in DOMAIN frames[Root].rets
    /\ frames[Root].rets[m] = {"agent"}
    /\ \E r \in {{"done"}, { }}, raises \in BOOLEAN :
          /\ raises => r = { }
          /\ frames' = [frames EXCEPT ![Root].rets[m] =
                           IF raises THEN { } ELSE Marked(Step(Root)[m], r)]
          /\ lost' = lost \cup Lost(Root, m, r)
    /\ UNCHANGED <<kind, progress, cancelled, status>>

\* Mutant: one member that is done is enough.
AnyDone(rs) == IF \E m \in DOMAIN rs : "done" \in rs[m] THEN {"done"} ELSE { }
\* `run_parallel_check`: only a result that says so fails the group.
AllDone(rs) == IF \A m \in DOMAIN rs : rs[m] \cap {"done", "raised"} # { } THEN {"done"} ELSE { }
Joined(rs) == IF Len(rs) = 1 THEN rs[1] ELSE AllDone(rs)

\* All the members of the step of `p` have returned.
Ended(p) ==
    /\ p \in DOMAIN frames /\ frames[p].rets # << >>
    /\ \A m \in DOMAIN frames[p].rets : Returned(frames[p].rets[m])

\* History: a group takes a member that ended with no result for one that is done.
Dropped(rs) == IF Len(rs) > 1 /\ \E m \in DOMAIN rs : "raised" \in rs[m] THEN {"raised"} ELSE { }

-----------------------------------------------------------------------------
(* plan_skill.run_plan_skill.                                              *)

\* The plan skill at `p` returns `r` to the step that called it.
Returns(p, r) ==
    LET q == Front(p)
    IN  frames' = [f \in DOMAIN frames \ {p} |->
            IF f = q THEN [frames[q] EXCEPT !.rets[Last(p)] = Result(q, Step(q)[Last(p)], r)]
            ELSE frames[f]]

PlanSkillStep(p) ==
    /\ p # Root /\ Idle(p)
    /\ IF cancelled THEN Returns(p, { }) /\ UNCHANGED lost ELSE Starts(p)
    /\ UNCHANGED <<kind, progress, cancelled, status>>

Next1(p) == frames' = [frames EXCEPT ![p].rets = << >>, ![p].at = @ + 1]

\* The step ends: the plan is over, stops where it is, or goes on.
PlanSkillStepEnds(p) ==
    /\ p # Root /\ Ended(p)
    /\ LET r == Joined(frames[p].rets) \ {"raised"}
       IN  IF "done" \notin r \/ "stop" \in r \/ frames[p].at = Len(frames[p].plan)
           THEN Returns(p, r)
           ELSE Next1(p)
    /\ lost' = lost \cup Dropped(frames[p].rets)
    /\ UNCHANGED <<kind, progress, cancelled, status>>

-----------------------------------------------------------------------------
(* UnifiedAgent.run (open loop) and run_direct.                            *)

\* No step, no plan in the LLM's answer, no LLM.
NoPlan ==
    /\ status = "new"
    /\ ~Closed /\ (kind = "open" \/ frames[Root].plan = << >>)
    /\ Over("error")
    /\ UNCHANGED <<kind, progress, cancelled, lost>>

PlanRead ==
    /\ status = "new" /\ ~Closed
    /\ frames[Root].plan # << >>
    /\ status' = "running"
    /\ UNCHANGED <<kind, frames, progress, cancelled, lost>>

RootAt == Idle(Root) /\ status = "running"
PlanOver == frames[Root].at > Len(frames[Root].plan)

CommandStep ==
    /\ RootAt /\ ~Closed
    /\ ~PlanOver /\ isdone /\ ~cancelled
    /\ Starts(Root)
    /\ UNCHANGED <<kind, progress, cancelled, status>>

\* A step that is done and says `stop` ends the plan.
CommandStepEnds ==
    /\ ~Closed /\ Ended(Root)
    /\ LET r == Joined(frames[Root].rets)
       IN  /\ r # {"raised"}
           /\ frames' = [frames EXCEPT ![Root].rets = << >>,
                  ![Root].at = IF {"done", "stop"} \subseteq r THEN Len(frames[Root].plan) + 1 ELSE @ + 1]
           /\ isdone' = ("done" \in r)
    /\ lost' = lost \cup Dropped(frames[Root].rets)
    /\ UNCHANGED <<kind, completed, replans, cancelled, status>>

\* A step of one task with no dict for a result: an `error` event, no `done`.
CommandCrashes ==
    /\ ~Closed /\ Ended(Root)
    /\ Joined(frames[Root].rets) = {"raised"}
    /\ Over("error")
    /\ UNCHANGED <<kind, progress, cancelled, lost>>

CommandDone ==
    /\ RootAt /\ ~Closed
    /\ PlanOver \/ ~isdone \/ cancelled
    /\ Over(IF cancelled THEN "aborted" ELSE IF isdone THEN "success" ELSE "failed")
    /\ UNCHANGED <<kind, progress, cancelled, lost>>

-----------------------------------------------------------------------------
(* ClosedLoop.                                                             *)

Bound(plan) == \A i \in DOMAIN plan : plan[i][1].skill # Unbindable

(***************************************************************************)
(* `_cl_plan`, `_planner_failed`: the planner answers, perhaps with an     *)
(* empty plan, or fails; a run that only plans ends here.                  *)
(***************************************************************************)
Planned ==
    /\ Closed /\ status = "new"
    /\ \/ Over("failed")
       \/ kind = "plan_only" /\ Over("planned")
       \/ /\ kind = "closed"
          /\ \E plan \in Plans \cup {<< >>} : frames' = [frames EXCEPT ![Root].plan = plan]
          /\ status' = "certify"
    /\ UNCHANGED <<kind, progress, cancelled, lost>>

\* `_cl_certify`: a plan this robot cannot run is asked for once more.
Certified ==
    /\ status = "certify"
    /\ IF Bound(frames[Root].plan) THEN status' = "running" /\ UNCHANGED <<frames, replans>>
       ELSE \/ Over("failed") /\ replans' \in {replans, replans + 1} \cap 0..MaxReplans
            \/ /\ replans < MaxReplans
               /\ replans' = replans + 1
               /\ \E plan \in Plans :
                     Bound(plan) /\ frames' = [frames EXCEPT ![Root].plan = plan]
               /\ status' = "running"
    /\ UNCHANGED <<kind, isdone, completed, cancelled, lost>>

ClosedCancelled ==
    /\ RootAt /\ Closed
    /\ ~PlanOver /\ cancelled
    /\ Over("aborted")
    /\ UNCHANGED <<kind, progress, cancelled, lost>>

\* Mutant: the replans are not counted.
ReplanUncounted ==
    \E rest \in Plans \cup {<< >>} :
        /\ replans' = replans
        /\ IF rest = << >> THEN Over("failed")
           ELSE /\ frames' = [frames EXCEPT ![Root] =
                                 [Frame(completed \o rest, 0) EXCEPT !.at = Len(completed) + 1]]
                /\ UNCHANGED status

\* `_cl_replan` and `_maybe_replan`: a new rest after the completed steps.
Replan ==
    IF replans >= MaxReplans THEN Over("failed") /\ UNCHANGED replans
    ELSE /\ replans' = replans + 1
         /\ \E rest \in Plans \cup {<< >>} :
               IF rest = << >> THEN Over("failed")
               ELSE /\ frames' = [frames EXCEPT ![Root] =
                                     [Frame(completed \o rest, 0) EXCEPT !.at = Len(completed) + 1]]
                    /\ UNCHANGED status

Completes == completed' = Append(completed, Step(Root))

\* `_cl_step` up to the skill: nothing to do, no skill for it here, or it starts.
ClosedStep ==
    /\ RootAt /\ Closed
    /\ ~PlanOver /\ ~cancelled
    /\ LET t == Step(Root)[1]
       IN  \/ /\ t.skill = NoOp
              /\ Next1(Root) /\ Completes
              /\ UNCHANGED <<replans, status, lost>>
           \/ /\ t.skill # NoOp
              /\ Replan
              /\ UNCHANGED <<completed, lost>>
           \/ /\ t.skill \notin {NoOp, Unbindable}
              /\ Starts(Root)
              /\ UNCHANGED <<completed, replans, status>>
    /\ UNCHANGED <<kind, isdone, cancelled>>

\* The recovery policy allows no retry: an e-stop; a skill that is not registered.
Stops(r) == "done" \notin r /\ r \cap {"estop", "unreg"} # { }
\* What may be replanned; some other text may say "not registered" too.
Retries(r) == "estop" \notin r \/ "done" \in r

\* Mutant: an e-stop is replanned like any other failure.
ClosedStepRetries ==
    /\ Closed /\ Ended(Root)
    /\ IF cancelled THEN Over("aborted") /\ UNCHANGED replans ELSE Replan
    /\ UNCHANGED <<kind, isdone, completed, cancelled, lost>>

\* Mutant: the step that failed is passed over.
ClosedStepPasses ==
    /\ Closed /\ Ended(Root)
    /\ Next1(Root)
    /\ IF "done" \in frames[Root].rets[1] THEN Completes ELSE UNCHANGED completed
    /\ UNCHANGED <<kind, isdone, replans, cancelled, status, lost>>

(***************************************************************************)
(* `_cl_step` after the skill, `_cl_succeeded`, `_cl_failed`: cancelled,   *)
(* it ends; done, the check still may say it is not; failed, it ends when  *)
(* no retry is allowed for the failure and is replanned otherwise.         *)
(***************************************************************************)
ClosedStepEnds ==
    /\ Closed /\ Ended(Root)
    /\ LET r == frames[Root].rets[1]
       IN  \/ /\ cancelled
              /\ Over("aborted")
              /\ UNCHANGED <<completed, replans>>
           \/ /\ ~cancelled /\ "done" \in r
              /\ Next1(Root) /\ Completes
              /\ UNCHANGED <<replans, status>>
           \/ /\ ~cancelled /\ Retries(r)
              /\ Replan
              /\ UNCHANGED completed
           \/ /\ ~cancelled /\ Stops(r)
              /\ Over("failed")
              /\ UNCHANGED <<completed, replans>>
    /\ UNCHANGED <<kind, isdone, cancelled, lost>>

\* `_cl_finish`, the plan at its end.
ClosedDone ==
    /\ RootAt /\ Closed
    /\ PlanOver
    /\ Over(IF completed = << >> THEN "failed" ELSE "success")
    /\ UNCHANGED <<kind, progress, cancelled, lost>>

Cancel ==
    /\ ~cancelled /\ status \in {"new", "certify", "running"}
    /\ cancelled' = TRUE
    /\ UNCHANGED <<kind, frames, progress, status, lost>>

-----------------------------------------------------------------------------
Init ==
    /\ kind \in {"direct", "open", "closed", "plan_only"}
    /\ \E plan \in IF Closed THEN {<< >>} ELSE Commands : frames = [p \in {Root} |-> Frame(plan, 0)]
    /\ isdone = TRUE
    /\ completed = << >>
    /\ replans = 0
    /\ cancelled = FALSE
    /\ status = "new"
    /\ lost = { }

Runs ==
    \/ \E p \in DOMAIN frames :
          \/ PlanSkillStep(p) \/ PlanSkillStepEnds(p)
          \/ \E m \in DOMAIN frames[p].rets : SkillReturns(p, m)
    \/ \E m \in IF Root \in DOMAIN frames THEN DOMAIN frames[Root].rets ELSE { } : AgentReturns(m)
    \/ NoPlan \/ PlanRead \/ CommandStep \/ CommandStepEnds \/ CommandCrashes \/ CommandDone
    \/ Planned \/ Certified \/ ClosedCancelled \/ ClosedStep \/ ClosedStepEnds \/ ClosedDone

Next == Cancel \/ Runs

(***************************************************************************)
(* The threads keep running: a skill and an agent return (they have        *)
(* timeouts), the planner answers or fails, a pause ends.                  *)
(***************************************************************************)
Spec == Init /\ [][Next]_vars /\ WF_vars(Runs)

-----------------------------------------------------------------------------
TypeOK ==
    /\ kind \in {"direct", "open", "closed", "plan_only"}
    /\ \A p \in DOMAIN frames :
          /\ p # Root => /\ Front(p) \in DOMAIN frames
                         /\ frames[Front(p)].rets[Last(p)] = {"running"}
          /\ frames[p].at \in 1..(Len(frames[p].plan) + 1)
          /\ frames[p].depth \in 0..MaxDepth
          /\ \A m \in DOMAIN frames[p].rets :
                frames[p].rets[m] \subseteq {"running", "agent", "raised", "done", "stop", "unreg", "estop"}
    /\ completed \in Seq(Seq(Task))
    /\ replans \in 0..MaxReplans
    /\ {isdone, cancelled} \subseteq BOOLEAN
    /\ status \in {"new", "certify", "running", "planned", "success", "failed", "aborted", "error"}
    /\ lost \subseteq {"failed", "raised", "estop", "estop in a group"}

(***************************************************************************)
(* A plan that ends in success hides no failure: no skill that it called,  *)
(* however deep in plan skills and groups, failed without a `!` that says  *)
(* so on the way to it.                                                    *)
(***************************************************************************)
NoFailureHidden == status = "success" /\ ~Closed => "failed" \notin lost

(***************************************************************************)
(* The closed loop is done only when each step of the plan it has now, the *)
(* completed prefix of every replan included, is completed in its place.   *)
(***************************************************************************)
CompletedPrefix ==
    Closed /\ Root \in DOMAIN frames =>
        completed = SubSeq(frames[Root].plan, 1, frames[Root].at - 1)

Running == UNION {{<<p, m>> : m \in {n \in DOMAIN frames[p].rets : ~Returned(frames[p].rets[n])}}
                      : p \in DOMAIN frames}

(***************************************************************************)
(* After an e-stop of a skill the closed loop moves the robot no more: no  *)
(* skill starts, in whatever plan skill it was stopped, and no plan is     *)
(* asked for.                                                              *)
(***************************************************************************)
EstopEnds ==
    [][Closed /\ "estop" \in lost => Running' \subseteq Running /\ UNCHANGED replans]_vars

(***************************************************************************)
(* Every run ends: the nesting of plan skills and the replans are bounded, *)
(* whatever a plan skill calls, itself included as a step of its own. The  *)
(* depth is a thread's (plan_skill.py:48): one that calls itself inside a  *)
(* `&&` group starts again from 0, and no constant of the runs has such a  *)
(* skill.                                                                  *)
(***************************************************************************)
RunEnds == <>(frames = << >>)

(***************************************************************************)
(* "On a failure the plan stops where it is" (plan_skill.py:26).           *)
(***************************************************************************)
FailureStopsPlan == status = "success" => "raised" \notin lost

(***************************************************************************)
(* "estop, cancelled, software | stop | stop | never retried"              *)
(* (docs/contract.md:142), of every e-stop.                                *)
(***************************************************************************)
EstopNeverRetried ==
    [][Closed /\ lost \cap {"estop", "estop in a group"} # { } => UNCHANGED replans]_vars
=============================================================================
