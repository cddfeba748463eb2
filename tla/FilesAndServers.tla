-------------------------- MODULE FilesAndServers --------------------------
(***************************************************************************)
(* Four systems that share no variable: the files that processes and       *)
(* machines share (SharedJson, extended), the servers of a connection      *)
(* (ServerPool), the skills and the plans that call them (SkillBook), and  *)
(* the command line tools that edit robot packages (SkillTools).           *)
(***************************************************************************)
EXTENDS SharedJson, Sequences

CONSTANTS
    Thread, MaxServers, Pools, Recovering,                              \* ServerPool
    Spelling, Norm, Configs, None, MaxCalls, MaxAliases, MaxChanges,    \* SkillBook
    Package, Identifier, Site, Default, Start, MaxTools                 \* SkillTools

VARIABLES
    servers, recovered, status, cooling, hits, thread, order, met, counted, reads, ranOut, cold,
    touched,
    book, config, edit, changes,
    pack, tool, writes, calls

poolVars ==
    <<servers, recovered, status, cooling, hits, thread, order, met, counted, reads, ranOut, cold,
      touched>>
bookVars == <<book, config, edit, changes>>
toolVars == <<pack, tool, writes, calls>>

Pool == INSTANCE ServerPool WITH at <- thread
Book == INSTANCE SkillBook WITH edits <- changes, Name <- Spelling, MaxEdits <- MaxChanges
Tools == INSTANCE SkillTools WITH Name <- Identifier

\* A package is one, or is not there yet; a fork may start from the site `default`.
ASSUME PackagesAssumption ==
    /\ IsFiniteSet(Identifier)
    /\ Default \in Site
    /\ Start \subseteq [Package -> Tools!Pack \cup {None}]
    /\ None \notin Tools!Pack /\ None \notin Tools!File /\ None \notin Tools!Entry

\* A connection has up to MaxServers servers.
ASSUME PoolsAssumption ==
    MaxServers \in Nat /\ \A s \in Pools : s \in Seq(STRING) /\ Len(s) <= MaxServers

\* A name is no None, and the code of a robot package is skills with names.
ASSUME NamesAssumption ==
    /\ None \notin Spelling /\ None \notin Book!Skill
    /\ Configs \subseteq SUBSET Spelling

\* order() lists every server in its place (ServerPool).
OrderRight == Pool!OrderRight
\* A server that works again stays in use (ServerPool).
RecoveredStaysUsed == Pool!RecoveredStaysUsed
\* Edits of skills leave the other plans what they were (SkillBook).
EditsKeepPlans == Book!EditsKeepPlans
\* A tool takes no other skill away (SkillTools).
OthersStay == Tools!OthersStay
\* A rename takes no skill away; it fails (SkillTools).
RenameKeepsSkills == Tools!RenameKeepsSkills
=============================================================================
