------------------------- MODULE MCFilesAndServers --------------------------
(* FilesAndServers for TLC: a connection with two servers, or with one and   *)
(* one switched off; two processes on one machine or two; skills of which    *)
(* one, d, is another spelling of c; a robot package that is forked or       *)
(* copied to.  A behaviour is of one of these systems, the others rest.      *)
EXTENDS FilesAndServers, Sequences, TLC

CONSTANTS t1, t2, p1, p2, k1, k2, v1, a, b, c, d, r1, r2, lab, home

MCThread == {t1, t2}
MCPools == {<<"ollama", "cloud">>, <<"off", "whisper">>}
MCMachines == {(p1 :> 1) @@ (p2 :> 1), (p1 :> 1) @@ (p2 :> 2)}
Symmetry == Permutations(MCThread) \cup Permutations({k1, k2})

Words == {a, b, c}
Module(defs, uses) == [defs |-> defs, uses |-> uses, parses |-> TRUE]
Entry(m, f) == [module |-> m, func |-> f]
Files == (a :> Module({a}, {})) @@ (b :> Module({b}, {Entry(a, a)})) @@ (c :> None)
\* One skill a module, or two of one function.
Packages ==
    {[files |-> Files, config |-> t, table |-> TRUE, external |-> {}, sites |-> {lab, home},
      active |-> lab, world |-> TRUE] :
        t \in {(a :> Entry(a, a)) @@ (b :> Entry(b, b)) @@ (c :> None),
               (a :> Entry(a, a)) @@ (b :> Entry(a, a)) @@ (c :> None)}}
NewPackage ==
    [files |-> [n \in Words |-> None], config |-> [n \in Words |-> None], table |-> TRUE,
     external |-> {}, sites |-> {home}, active |-> None, world |-> FALSE]
MCStart == {(r1 :> x) @@ (r2 :> y) : x \in Packages, y \in {NewPackage, None}}
TwoSpellings == [n \in {a, b, c, d} |-> IF n = d THEN c ELSE n]

VARIABLES part

\* What rests while one system moves.
RestOfPool == UNCHANGED <<part, vars, bookVars, toolVars>>
RestOfFile == UNCHANGED <<part, poolVars, bookVars, toolVars>>
RestOfBook == UNCHANGED <<part, vars, poolVars, toolVars>>
RestOfTools == UNCHANGED <<part, vars, poolVars, bookVars>>

MCInit ==
    /\ part \in {"pool", "file", "book", "tools"}
    /\ Init /\ Pool!Init /\ Book!Init /\ Tools!Init
    /\ part = "pool" \/ servers[1] = "off"
    /\ part = "file" \/ host[p2] = 1
    /\ part = "book" \/ config = {a}
    /\ part = "tools" \/ (pack[r2] = None /\ pack[r1].config[b].module = b)

\* A lock keeps nobody out of the other machine: whether a save there has it is all one.
LockMatters == host[p1] # host[p2] => lockless' = {}

MCNext ==
    \/ part = "pool" /\ Pool!Next /\ RestOfPool
    \/ part = "file" /\ Next /\ LockMatters /\ RestOfFile
    \/ part = "book" /\ Book!Next /\ RestOfBook
    \/ part = "tools" /\ Tools!Next /\ RestOfTools

MCVars == <<part, vars, poolVars, bookVars, toolVars>>
MCSpec == MCInit /\ [][MCNext]_MCVars
=============================================================================
