----------------------------- MODULE SkillTools -----------------------------
(***************************************************************************)
(* The command line tools that edit robot packages: new_skill, copy_skill, *)
(* rename_skill, delete_skill and new_robot.  A tool reads the package,     *)
(* plans what it does, and then writes one file after the other; it may be *)
(* interrupted between any two writes or in the middle of one, and is not  *)
(* rolled back: write_text() truncates the file first, so that what was in *)
(* it is lost.                                                             *)
(*                                                                         *)
(* Skills, functions and modules share one set of identifiers, because a   *)
(* rename replaces a word wherever it stands.  Of a module's text there is  *)
(* left what it defines, which functions it imports from the package and   *)
(* whether Python can read it (nothing else is known of one it cannot);    *)
(* templates, private helpers and banners are left out.  A package is one  *)
(* a robot runs on, or a fork that is not there yet.                       *)
(***************************************************************************)
EXTENDS Naturals, FiniteSets, SequencesExt

CONSTANTS
    Package,    \* the robot packages
    Name,       \* identifiers: of skills, of functions, of modules
    Site,       \* the sites a package may have, `default` among them
    Default,
    None,       \* no such file, entry, package or marker
    Start,      \* the packages as they may be at first
    MaxTools    \* bound: how often a tool is called

Entry == [module : Name, func : Name]
File == [defs : SUBSET Name, uses : SUBSET Entry, parses : BOOLEAN]
\* `table`: SKILL_CONFIGS is whole; of one that was cut off nothing can be read.
Pack == [files : [Name -> File \cup {None}], config : [Name -> Entry \cup {None}],
         table : BOOLEAN, external : SUBSET Name,
         sites : SUBSET Site, active : Site \cup {None}, world : BOOLEAN]

VARIABLES
    pack,       \* the packages on the disk
    tool,       \* the tool that runs, and what it is about
    writes,     \* what it still has to write, in order
    calls

vars == <<pack, tool, writes, calls>>

NoTool == [does |-> "nothing"]

Init ==
    /\ pack \in Start
    /\ tool = NoTool /\ writes = <<>> /\ calls = 0

TypeOK ==
    /\ pack \in [Package -> Pack \cup {None}]
    /\ calls \in 0..MaxTools

Is(p) == pack[p] # None
Registered(p) == {s \in Name : pack[p].config[s] # None}
Modules(p) == {m \in Name : pack[p].files[m] # None}

\* The modules M can be imported: each is there, can be read, and finds among them
\* what it imports.
Offers(k, M) ==
    {e \in Entry : e.module \in M /\ k.files[e.module] # None
                   /\ e.func \in k.files[e.module].defs}
Imports(k, M) ==
    \A m \in M : k.files[m] # None /\ k.files[m].parses /\ k.files[m].uses \subseteq Offers(k, M)

\* A skill works: it is registered, its module can be imported and has its function.
WorksWith(k, s, M) == k.config[s] # None /\ k.config[s] \in Offers(k, M) /\ Imports(k, M)
Works(k, s) == \E M \in SUBSET Name : WorksWith(k, s, M)

Calls(t, ws) ==
    /\ tool = NoTool /\ calls < MaxTools
    /\ calls' = calls + 1
    /\ tool' = t /\ writes' = ws
    /\ UNCHANGED pack

\* The writes: of a module (or its removal), of the table, of a module's name.
WritesFile(p, m, f) == [what |-> "file", in |-> p, name |-> m, to |-> f]
WritesEntry(p, s, e) == [what |-> "entry", in |-> p, name |-> s, to |-> e]
WritesConfig(p, c) == [what |-> "config", in |-> p, to |-> c]
Moves(p, old, new) == [what |-> "move", in |-> p, name |-> old, to |-> new]
WritesPack(p, k) == [what |-> "pack", in |-> p, to |-> k]

-----------------------------------------------------------------------------
(* The tools.                                                              *)

\* A new module of one function, or the function at the end of the one there is.
Made(file, f) ==
    IF file = None THEN [defs |-> {f}, uses |-> {}, parses |-> TRUE]
    ELSE IF file.parses THEN [file EXCEPT !.defs = @ \cup {f}] ELSE file

\* A line of its own in the table, before the brace that closes it, if there is one.
Registers(p, s, e) == IF pack[p].table THEN <<WritesEntry(p, s, e)>> ELSE <<>>

\* new_skill <s> [<m>]: the function, then its entry.  One that is registered, or
\* defined in the module, is left alone.
NewSkill(p, s, m) ==
    LET have == pack[p].files[m] IN
    /\ Is(p) /\ s \notin Registered(p)
    /\ have # None => s \notin have.defs
    /\ Calls([does |-> "new", in |-> p, skill |-> s],
             <<WritesFile(p, m, Made(have, s))>> \o Registers(p, s, [module |-> m, func |-> s]))

\* new_skill --template external: a service of its own, which nothing registers.
NewExternal(p, s) ==
    /\ Is(p) /\ s \notin pack[p].external
    /\ Calls([does |-> "new", in |-> p, skill |-> s],
             <<WritesPack(p, [pack[p] EXCEPT !.external = @ \cup {s}])>>)

\* A module without one of its functions; the table without one of its lines.
Spliced(file, f) == [file EXCEPT !.defs = @ \ {f}]
Unregisters(p, s) == WritesEntry(p, s, None)

\* Mutant: the function goes, whoever else names it.
DeleteWhole(p, s) ==
    LET e == pack[p].config[s]
        file == pack[p].files[e.module]
        gone == Spliced(file, e.func) IN
    /\ Is(p) /\ s \in Registered(p)
    /\ Calls([does |-> "delete", in |-> p, skill |-> s, entry |-> e],
             (IF file = None \/ e.func \notin file.defs THEN <<>>
              ELSE <<WritesFile(p, e.module, gone)>>) \o <<Unregisters(p, s)>>)

\* delete_skill <s>: its function, if it is found and no other entry names it; its
\* module, when no other entry names it and it defines nothing else; then its entry.
\* That another module imports the function is not looked at.
DeleteSkill(p, s) ==
    LET e == pack[p].config[s]
        others == {pack[p].config[t] : t \in Registered(p) \ {s}}
        file == pack[p].files[e.module]
        aliased == e \in others
        alone == \A o \in others : o.module # e.module
        gone == IF alone /\ file.defs = {e.func} THEN None
                ELSE Spliced(file, e.func) IN
    /\ Is(p) /\ s \in Registered(p)
    /\ Calls([does |-> "delete", in |-> p, skill |-> s, entry |-> e],
             (IF aliased \/ file = None \/ e.func \notin file.defs THEN <<>>
              ELSE <<WritesFile(p, e.module, gone)>>) \o <<Unregisters(p, s)>>)

\* What a word-boundary replacement makes of a package: of its table, of a module.
Word(x, old, new) == IF x = old THEN new ELSE x
Words(X, old, new) == {Word(x, old, new) : x \in X}
RenamedEntry(e, old, new) ==
    IF e = None THEN None
    ELSE [module |-> Word(e.module, old, new), func |-> Word(e.func, old, new)]
RenamedConfig(c, old, new) ==
    [s \in Name |-> IF s = old THEN None
                    ELSE RenamedEntry(c[IF s = new THEN old ELSE s], old, new)]
RenamedFile(f, old, new) ==
    [f EXCEPT !.defs = Words(@, old, new), !.uses = {RenamedEntry(e, old, new) : e \in @}]

\* The module of a skill whose name it has moves too, when the skill owns it.
Dedicated(p, s) ==
    LET e == pack[p].config[s] IN
    /\ \A t \in Registered(p) \ {s} : pack[p].config[t].module # e.module
    /\ pack[p].files[e.module] # None
    /\ pack[p].files[e.module].defs = {e.func}

MovesFile(p, old) == Dedicated(p, old) /\ pack[p].config[old].module = old

\* A skill under another name, in the table only.
Rekeyed(c, old, new) == [c EXCEPT ![old] = None, ![new] = c[old]]

\* rename_skill <old> <new>: a skill whose function has its name is renamed wherever
\* the word stands (configs/ sorts before skills/), any other in the table only.
RenameSkill(p, old, new) ==
    LET word == pack[p].config[old].func = old
        new_text(m) == RenamedFile(pack[p].files[m], old, new)
        found == {m \in Modules(p) : new_text(m) # pack[p].files[m]}
        texts == SetToSeq({WritesFile(p, m, new_text(m)) : m \in found})
        moved == MovesFile(p, old) /\ new \notin Modules(p) IN
    /\ Is(p) /\ old # new /\ old \in Registered(p) /\ new \notin Registered(p)
    /\ Calls([does |-> "rename", in |-> p, skill |-> old, to |-> new,
              told |-> word /\ MovesFile(p, old) /\ ~moved,
              had |-> {s \in Name : Works(pack[p], s)}],
             IF word
             THEN <<WritesConfig(p, RenamedConfig(pack[p].config, old, new))>> \o texts
                      \o (IF moved THEN <<Moves(p, old, new)>> ELSE <<>>)
             ELSE <<WritesConfig(p, Rekeyed(pack[p].config, old, new))>>)

\* The modules a module needs: itself and what it imports, as far as it is there.
Needs(p, m, deps) ==
    LET Used(n) == {u.module : u \in pack[p].files[n].uses}
        Step(M) == M \cup (IF deps THEN UNION {Used(n) : n \in M \cap Modules(p)} ELSE {})
        reach[n \in Nat] == IF n = 0 THEN {m} ELSE Step(reach[n - 1]) IN
    reach[Cardinality(Name)] \cap Modules(p)

\* copy_skill <s> --from p --to q: the modules it needs, kept where the destination
\* has its own unless forced; then its entry, unless the name is registered there.
CopySkill(p, q, s, deps, force) ==
    LET m == pack[p].config[s].module
        texts == {WritesFile(q, n, pack[p].files[n]) :
                     n \in {n \in Needs(p, m, deps) : force \/ pack[q].files[n] = None}}
        entry == Registers(q, s, pack[p].config[s]) IN
    /\ p # q /\ Is(p) /\ Is(q) /\ s \in Registered(p)
    /\ Calls([does |-> "copy", in |-> q, skill |-> s, from |-> p, deps |-> deps, force |-> force],
             SetToSeq(texts) \o (IF s \in Registered(q) THEN <<>> ELSE entry))

\* The sites of a fork: the source's, or one empty `default` and no marker.  The
\* belief of the source's last run does not come along.
Carried(k) == [k EXCEPT !.world = FALSE]
Reset(k) == [Carried(k) EXCEPT !.sites = {Default}, !.active = None]

\* The tree, without caches, and its package under its new name wherever it stands.
Forked(p, q) == WritesPack(q, pack[p])

\* new_robot <q> --from p: the tree under its new name, then its sites.  A package
\* that is there is in the way unless forced, and is then removed first.
NewRobot(p, q, reset, force) ==
    /\ p # q /\ Is(p) /\ (Is(q) => force)
    /\ Calls([does |-> "fork", in |-> q, from |-> p, reset |-> reset],
             (IF Is(q) THEN <<WritesPack(q, None)>> ELSE <<>>)
                 \o <<Forked(p, q),
                      WritesPack(q, IF reset THEN Reset(pack[p]) ELSE Carried(pack[p]))>>)

-----------------------------------------------------------------------------
(* The writes.                                                             *)

Written(k, w) ==
    CASE w.what = "file" -> [k EXCEPT !.files[w.name] = w.to]
      [] w.what = "entry" -> [k EXCEPT !.config[w.name] = w.to]
      [] w.what = "config" -> [k EXCEPT !.config = w.to]
      [] w.what = "move" -> [k EXCEPT !.files[w.to] = k.files[w.name], !.files[w.name] = None]
      [] w.what = "pack" -> w.to

Write ==
    /\ writes # <<>>
    /\ pack' = [pack EXCEPT ![Head(writes).in] = Written(@, Head(writes))]
    /\ writes' = Tail(writes)
    /\ UNCHANGED <<tool, calls>>

Ends ==
    /\ tool # NoTool /\ writes = <<>>
    /\ tool' = NoTool
    /\ UNCHANGED <<pack, writes, calls>>

\* Ctrl-C, a full disk, a file that cannot be read: what is written stays.
Interrupted ==
    /\ writes # <<>>
    /\ writes' = <<>> /\ tool' = NoTool
    /\ UNCHANGED <<pack, calls>>

\* What is left of a module, of a package whose tree was copied or removed.
CutFile(f) ==
    {[defs |-> D, uses |-> U, parses |-> TRUE] : D \in SUBSET f.defs, U \in SUBSET f.uses}
        \cup {[defs |-> {}, uses |-> {}, parses |-> FALSE]}
NoTable(k) == [k EXCEPT !.config = [s \in Name |-> None], !.table = FALSE]
CutTree(k) ==
    {[c EXCEPT !.files = [m \in Name |-> IF m \in D THEN @[m] ELSE None]] :
        c \in {k, NoTable(k)}, D \in SUBSET Name}

\* What a write that is cut off may leave.  A file is removed or moved at once.
Cut(k, w) ==
    CASE w.what = "file" ->
            IF w.to = None THEN {} ELSE {[k EXCEPT !.files[w.name] = f] : f \in CutFile(w.to)}
      [] w.what \in {"entry", "config"} -> {NoTable(k)}
      [] w.what = "move" -> {}
      [] w.what = "pack" ->
            IF w.to = None THEN CutTree(k)
            ELSE IF k = None THEN CutTree(w.to)
            ELSE {[w.to EXCEPT !.active = k.active, !.world = k.world]}

\* ... and in the middle of a write: the file was truncated first.
InterruptedWriting ==
    /\ writes # <<>>
    /\ \E k \in Cut(pack[Head(writes).in], Head(writes)) :
          pack' = [pack EXCEPT ![Head(writes).in] = k]
    /\ writes' = <<>> /\ tool' = NoTool
    /\ UNCHANGED calls

Next ==
    \/ \E p \in Package, s \in Name :
          \/ \E m \in Name : NewSkill(p, s, m) \/ RenameSkill(p, s, m)
          \/ NewExternal(p, s) \/ DeleteSkill(p, s)
          \/ \E q \in Package, deps, force \in BOOLEAN : CopySkill(p, q, s, deps, force)
    \/ \E p, q \in Package, reset, force \in BOOLEAN : NewRobot(p, q, reset, force)
    \/ Write \/ Ends \/ Interrupted \/ InterruptedWriting

Spec == Init /\ [][Next]_vars

-----------------------------------------------------------------------------
(* Properties.                                                             *)

(***************************************************************************)
(* A tool about one skill takes no other one away: what worked, by the     *)
(* modules M, still does after each write, interrupted or not.  Two things *)
(* the code does are excepted: delete_skill breaks what imports the        *)
(* function it removes, and a write that is cut off loses the file it      *)
(* truncated, the skills that need that module, or the table.              *)
(* (copy --force replaces modules, which is what it is asked; a rename has *)
(* a property of its own.)                                                 *)
(***************************************************************************)
AboutOne == tool.does \in {"new", "delete", "copy"} /\ (tool.does = "copy" => ~tool.force)
UsesDeleted(k, M) == tool.does = "delete" /\ \E m \in M : tool.entry \in k.files[m].uses
Hits(w, M) == w.what = "entry" \/ (w.what = "file" /\ w.name \in M)
LostByCut(M) == tool # NoTool /\ tool' = NoTool /\ pack' # pack /\ Hits(Head(writes), M)

OthersStay ==
    [][AboutOne =>
          \A p \in Package, s \in Name \ {tool.skill}, M \in SUBSET Name :
             /\ Is(p) /\ WorksWith(pack[p], s, M)
             /\ ~UsesDeleted(pack[p], M) /\ ~LostByCut(M)
             => Works(pack'[p], s)]_vars

\* A rename that ran to its end, and did not say that a file is in the way, leaves
\* every skill of the package that worked working.
RenameKeepsSkills ==
    tool.does = "rename" /\ ~tool.told /\ writes = <<>> =>
        \A s \in tool.had : Works(pack[tool.in], Word(s, tool.skill, tool.to))
=============================================================================
