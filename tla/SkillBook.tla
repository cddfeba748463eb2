----------------------------- MODULE SkillBook ------------------------------
(***************************************************************************)
(* core/skill_registry.py with the edits of api/skills.py and the plan      *)
(* skills of core/plan_skill.py: skills that are code, and skills that are *)
(* plans of other skills, called by a name, by an alias, or by either in   *)
(* another spelling.  An edit holds the registry's lock, checks itself     *)
(* against what the file says, and is refused or saved as a whole; here it *)
(* is one action.  SharedJson has the file that machines share.            *)
(*                                                                         *)
(* Of a plan there is left whom it calls; its arguments, prefixes and      *)
(* comments are left out, and so is what a name may be made of.            *)
(***************************************************************************)
EXTENDS Naturals, FiniteSets

CONSTANTS
    Name,       \* what a skill may be called
    Norm,       \* normalize(): spellings of one name have one norm
    Configs,    \* the skills of SKILL_CONFIGS, as developers may leave it
    None,
    MaxCalls, MaxAliases, MaxEdits  \* bounds: of a plan, of a skill, of a run

VARIABLES
    book,       \* SkillRegistry._skills
    config,     \* SKILL_CONFIGS of the robot package
    edit,       \* the last edit: what it was, and what it renamed
    edits

vars == <<book, config, edit, edits>>

Skill == [plan : BOOLEAN, calls : SUBSET Name, aliases : SUBSET Name]
Code == [plan |-> FALSE, calls |-> {}, aliases |-> {}]
Known(b) == {n \in Name : b[n] # None}
PlanSkills(b) == {n \in Known(b) : b[n].plan}

Init ==
    /\ config \in Configs
    /\ book = [n \in Name |-> IF n \in config THEN Code ELSE None]
    /\ edit = [what |-> "none"] /\ edits = 0

TypeOK ==
    /\ book \in [Name -> Skill \cup {None}]
    /\ config \in Configs /\ edits \in 0..MaxEdits

-----------------------------------------------------------------------------
(* Names.                                                                  *)

\* resolve(): the name itself, else an alias, else either in another spelling.  Of
\* several skills the code takes the first of the book, here it is a fixed one.
Spelled(b, n) ==
    {s \in Known(b) : Norm[n] = Norm[s] \/ \E a \in b[s].aliases : Norm[n] = Norm[a]}
Meant(b, n) ==
    LET aliased == {s \in Known(b) : n \in b[s].aliases} IN
    IF n \in Known(b) THEN {n} ELSE IF aliased # {} THEN aliased ELSE Spelled(b, n)
Resolve(b, n) == IF Meant(b, n) = {} THEN None ELSE CHOOSE s \in Meant(b, n) : TRUE

\* check_aliases(): none is listed twice, nor a name or an alias of another skill.
AliasesFree(b, n, aliases) ==
    /\ \A a, c \in aliases : a # c => Norm[a] # Norm[c]
    /\ \A a \in aliases : Norm[a] # Norm[n] => Spelled([b EXCEPT ![n] = None], a) = {}

-----------------------------------------------------------------------------
(* Plan skills.                                                            *)

\* Whom the plans call, a call of `name` being one of `name` whatever it resolves to.
Canon(b, name, c) ==
    IF c = name THEN name ELSE IF Resolve(b, c) # None THEN Resolve(b, c) ELSE c
Graph(b, name, calls) ==
    [n \in PlanSkills(b) \cup {name} |->
        {Canon(b, name, c) : c \in IF n = name THEN calls ELSE b[n].calls}]

\* Does a plan end up calling itself?  Not if some set without it holds what it calls
\* and what the plans in the set call.
Reaches(g, name) ==
    ~\E S \in SUBSET (Name \ {name}) :
        g[name] \subseteq S /\ \A n \in S \cap DOMAIN g : g[n] \subseteq S

\* validate_plan()
ValidPlan(b, name, calls) ==
    /\ b[name] # None => b[name].plan
    /\ calls # {}
    /\ \A c \in calls : c = name \/ Resolve(b, c) # None
    /\ ~Reaches(Graph(b, name, calls), name)

-----------------------------------------------------------------------------
(* The edits.                                                              *)

Edits(what) ==
    /\ edits < MaxEdits /\ edits' = edits + 1
    /\ edit' = what
    /\ UNCHANGED config

\* POST /skills: a skill of either kind, in place of one of that name if there is one.
AddSkill(n, plan, calls, aliases) ==
    /\ Edits([what |-> "add", skill |-> n])
    /\ AliasesFree(book, n, aliases)
    /\ Resolve(book, n) \in {None, n}
    /\ IF plan THEN ValidPlan(book, n, calls) ELSE calls = {}
    /\ book' = [book EXCEPT ![n] = [plan |-> plan, calls |-> calls, aliases |-> aliases]]

\* PUT /skills/{n} with aliases, a plan or both.
UpdateSkill(n, calls, aliases) ==
    LET planned == book[n].plan /\ calls # book[n].calls IN
    /\ Edits([what |-> "update", skill |-> n])
    /\ n \in Known(book)
    /\ AliasesFree(book, n, aliases)
    /\ IF planned THEN ValidPlan(book, n, calls) ELSE calls = book[n].calls
    /\ book' = [book EXCEPT ![n].calls = calls, ![n].aliases = aliases]

\* PUT /skills/{old} with a name: plan skills only.  The plans that call it by that
\* name call it by the new one (rename_calls).
Renamed(b, old, new) ==
    [n \in Name |->
        IF n = old THEN None
        ELSE LET s == b[IF n = new THEN old ELSE n] IN
             IF s = None \/ n = new \/ old \notin s.calls THEN s
             ELSE [s EXCEPT !.calls = (@ \ {old}) \cup {new}]]

RenamePlan(old, new) ==
    /\ Edits([what |-> "rename", skill |-> old, to |-> new])
    /\ old # new /\ old \in PlanSkills(book) /\ new \notin Known(book)
    /\ Resolve(book, new) \in {None, old}
    /\ book' = Renamed(book, old, new)

\* Mutant: only the calls by its own name keep a skill.
DeleteUncalled(n) ==
    /\ Edits([what |-> "delete", skill |-> n])
    /\ n \in Known(book)
    /\ \A p \in PlanSkills(book) \ {n} : n \notin book[p].calls
    /\ book' = [book EXCEPT ![n] = None]

\* DELETE /skills/{n}: not while another plan calls it, by whatever name.
DeleteSkill(n) ==
    /\ Edits([what |-> "delete", skill |-> n])
    /\ n \in Known(book)
    /\ \A p \in PlanSkills(book) \ {n} : \A c \in book[p].calls : Resolve(book, c) # n
    /\ book' = [book EXCEPT ![n] = None]

\* POST /skills/reload after the developers changed the code: plans stay unless code
\* has their name, and code keeps the aliases it was given.
Reload ==
    /\ edits < MaxEdits /\ edits' = edits + 1
    /\ config' \in Configs
    /\ book' = [n \in Name |->
                   LET kept == IF book[n] = None THEN {} ELSE book[n].aliases IN
                   IF n \in config' THEN [Code EXCEPT !.aliases = kept]
                   ELSE IF n \in PlanSkills(book) THEN book[n] ELSE None]
    /\ edit' = [what |-> "reload"]

AtMost(k) == {X \in SUBSET Name : Cardinality(X) <= k}

Next ==
    \/ \E n \in Name :
          \/ \E calls \in AtMost(MaxCalls), aliases \in AtMost(MaxAliases) :
                \/ \E plan \in BOOLEAN : AddSkill(n, plan, calls, aliases)
                \/ UpdateSkill(n, calls, aliases)
          \/ \E m \in Name : RenamePlan(n, m)
          \/ DeleteSkill(n)
    \/ Reload

Spec == Init /\ [][Next]_vars

-----------------------------------------------------------------------------
(* Properties.                                                             *)

\* What the plan of n runs: the skills its calls resolve to.
Runs(b, n) == {Resolve(b, c) : c \in b[n].calls}

\* S holds all that n comes to run, through the plans it calls too.
ComesTo(b, n, S) ==
    Runs(b, n) \subseteq S /\ \A p \in S \cap PlanSkills(b) : Runs(b, p) \subseteq S

\* A plan that never comes back to itself, and one whose calls all resolve on the way.
Ends(b, n) == \E S \in SUBSET (Known(b) \cup {None}) : ComesTo(b, n, S) /\ n \notin S
Whole(b, n) == \E S \in SUBSET Known(b) : ComesTo(b, n, S) /\ n \notin S

\* No two skills answer to one spelling.  What check_aliases sees to; a reload may
\* bring code by a name that was somebody's alias.
NamesApart(b) == \A n \in Name : \A s, t \in Spelled(b, n) : s = t

\* Does the edit take an alias from a skill that stays?
TakesAliases ==
    \E n \in Known(book) \cap Known(book') : ~(book[n].aliases \subseteq book'[n].aliases)

\* Is the skill that is renamed called in another spelling of its name?
OtherSpelling ==
    /\ edit'.what = "rename"
    /\ \E n \in PlanSkills(book) : \E c \in book[n].calls :
          Resolve(book, c) = edit'.skill /\ c \notin {edit'.skill} \cup book[edit'.skill].aliases

\* What n is called after the edit.
Now(n) == IF edit'.what = "rename" /\ n = edit'.skill THEN edit'.to ELSE n

\* An edit that takes no alias away (adding, changing, renaming or deleting a skill)
\* leaves every other plan that was whole running the skills it ran, by their new
\* names, and never in a circle.
EditsKeepPlans ==
    [][edit'.what \notin {"none", "reload"} /\ NamesApart(book) /\ ~TakesAliases /\ ~OtherSpelling =>
          \A n \in PlanSkills(book) :
             Whole(book, n) /\ (edit'.skill # n \/ edit'.what = "rename")
             => Ends(book', Now(n)) /\ Runs(book', Now(n)) = {Now(s) : s \in Runs(book, n)}]_vars

\* "A plan that ends up calling itself would never finish" (validate_plan).  Fails where a
\* plan calls a skill that the developers removed: a plan that takes its place in another
\* spelling, or as an alias, is not seen as the one that is called.
PlansEnd == \A n \in PlanSkills(book) : Ends(book, n)
=============================================================================
