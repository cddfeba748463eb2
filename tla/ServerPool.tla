----------------------------- MODULE ServerPool -----------------------------
(***************************************************************************)
(* connect/pool.py: one connection served by an ordered list of servers.   *)
(* Several threads call it at once; a call reads the order of the servers  *)
(* without the lock, tries one after the other and marks what it finds.    *)
(* Health checks and warm-ups mark the servers too.  What a request meets  *)
(* is marked later: seconds for a timeout, a slow answer or a warm-up.     *)
(*                                                                         *)
(* Of `until` the model keeps whether it lies in the future (`cooling`).   *)
(* order() compares every `until` with one `now`: a cooldown that runs out *)
(* while it reads is still one for it (`ranOut`).  `last_used`, which only *)
(* names the server in a label, is left out.                               *)
(***************************************************************************)
EXTENDS Naturals, Sequences, FiniteSets, SequencesExt

CONSTANTS
    Thread,     \* the threads that use the pool
    MaxServers, \* bound: servers of a connection
    Pools,      \* the connections: sequences of "ollama" | "cloud" | "whisper" | "off"
    Recovering  \* bound: the servers that may recover for good

Server == 1..MaxServers

VARIABLES
    servers,  \* the configured servers (`off`: enabled is false)
    recovered,\* the environment: the servers that from now on always answer quickly
    status, cooling, hits,  \* ServerState: status, until > now, slow_hits
    at,       \* where each thread stands
    order,    \* the order it goes by; its head is the server it is at
    met,      \* what its request met, until it is marked
    counted,  \* the slow_hits it counted
    reads, ranOut, \* order(): the last `until` it has read, what ran out meanwhile
    cold, touched  \* history: cooling when order() began, marked while it read

conf == <<servers, recovered>>
state == <<status, cooling, hits>>
reading == <<reads, ranOut, cold, touched>>
vars == <<conf, state, at, order, met, counted, reading>>

Nothing == "nothing"
Enabled == {i \in 1..Len(servers) : servers[i] # "off"}
At(t) == order[t][1]

Init ==
    /\ servers \in Pools /\ recovered = {}
    /\ status = [i \in Server |-> "unknown"]
    /\ cooling = [i \in Server |-> FALSE] /\ hits = [i \in Server |-> 0]
    /\ at = [t \in Thread |-> "idle"]
    /\ order = [t \in Thread |-> <<>>] /\ counted = [t \in Thread |-> 0]
    /\ met = [t \in Thread |-> Nothing]
    /\ reads = [t \in Thread |-> 0] /\ ranOut = [t \in Thread |-> {}]
    /\ cold = [t \in Thread |-> {}] /\ touched = [t \in Thread |-> {}]

Goes(t, to, servs) ==
    /\ at' = [at EXCEPT ![t] = to] /\ order' = [order EXCEPT ![t] = servs]
    /\ met' = [met EXCEPT ![t] = Nothing] /\ counted' = [counted EXCEPT ![t] = 0]
Ends(t) == Goes(t, "idle", <<>>)
GoesOn(t, to) == Goes(t, to, Tail(order[t]))

Mark(i, s) ==
    /\ status' = [status EXCEPT ![i] = s]
    /\ cooling' = [cooling EXCEPT ![i] = s \in {"slow", "down"}]
    /\ hits' = [hits EXCEPT ![i] = IF s = "slow" THEN @ ELSE 0]
    /\ touched' = [t \in Thread |-> IF at[t] = "order" THEN touched[t] \cup {i} ELSE {}]
    /\ ranOut' = [t \in Thread |-> ranOut[t] \ {i}]
    /\ cold' = [t \in Thread |-> cold[t] \ {i}]
    /\ UNCHANGED reads

-----------------------------------------------------------------------------
(* The environment: what a request to a server meets, and the clock.       *)

Health(i) == IF i \in recovered THEN {"quick"}
             ELSE {"quick", "slow", "dead"} \cup (IF servers[i] = "ollama" THEN {"cpu"} ELSE {})

\* A request of a call, of a health check or of a warm-up.  A check asks no
\* cloud server.
Asks(t) == at[t] \in {"call", "check", "warm"} /\ order[t] # <<>> /\ met[t] = Nothing
IsCloud(t) == at[t] = "check" /\ servers[At(t)] = "cloud"

Meets(t) ==
    /\ Asks(t) /\ ~IsCloud(t)
    /\ \E h \in Health(At(t)) : met' = [met EXCEPT ![t] = h]
    /\ UNCHANGED <<conf, state, at, order, counted, reading>>

Recovers(i) ==
    /\ i <= Len(servers) /\ i \in Recovering \ recovered
    /\ recovered' = recovered \cup {i}
    /\ UNCHANGED <<servers, state, at, order, met, counted, reading>>

Expires(i) ==
    /\ cooling[i]
    /\ cooling' = [cooling EXCEPT ![i] = FALSE]
    /\ ranOut' = [t \in Thread |-> IF at[t] = "order" THEN ranOut[t] \cup {i} ELSE {}]
    /\ UNCHANGED <<conf, status, hits, at, order, met, counted, reads, cold, touched>>

-----------------------------------------------------------------------------
(* order(): two list comprehensions over the enabled servers, each reading *)
(* `until` server by server; the second adds those still in a cooldown.    *)

Begin(t) ==
    /\ at[t] = "idle"
    /\ Goes(t, "order", <<>>)
    /\ cold' = [cold EXCEPT ![t] = {i \in Server : cooling[i]}]
    /\ UNCHANGED <<conf, state, reads, ranOut, touched>>

\* Whose `until` is the n-th of the two lists; those that are still to be read.
Second(n) == n > Len(servers)
Nth(n) == IF Second(n) THEN n - Len(servers) ELSE n
Unread(t) == {n \in reads[t]+1 .. 2 * Len(servers) : Nth(n) \in Enabled}
Reads(t, n) == at[t] = "order" /\ n \in Unread(t) /\ \A k \in Unread(t) : n <= k
InCooldown(t, i) == cooling[i] \/ i \in ranOut[t]

\* Mutant: the configured order, whatever is in a cooldown.
ReadConfigured(t, n) ==
    /\ Reads(t, n)
    /\ order' = [order EXCEPT ![t] = IF Second(n) THEN @ ELSE Append(@, Nth(n))]
    /\ reads' = [reads EXCEPT ![t] = n]
    /\ UNCHANGED <<conf, state, at, met, counted, ranOut, cold, touched>>

ReadUntil(t, n) ==
    /\ Reads(t, n)
    /\ order' = [order EXCEPT ![t] =
                    IF InCooldown(t, Nth(n)) = Second(n) THEN Append(@, Nth(n)) ELSE @]
    /\ reads' = [reads EXCEPT ![t] = n]
    /\ UNCHANGED <<conf, state, at, met, counted, ranOut, cold, touched>>

Forgets(t) ==
    /\ reads' = [reads EXCEPT ![t] = 0] /\ ranOut' = [ranOut EXCEPT ![t] = {}]
    /\ cold' = [cold EXCEPT ![t] = {}] /\ touched' = [touched EXCEPT ![t] = {}]

\* call() goes through the order; planner_server() only takes the first Ollama
\* server of it.
Ordered(t) ==
    /\ at[t] = "order" /\ Unread(t) = {}
    /\ Goes(t, "call", order[t]) \/ Ends(t)
    /\ Forgets(t) /\ UNCHANGED <<conf, state>>

-----------------------------------------------------------------------------
(* call(): one server after the other, until one answers.                  *)

\* PoolError: no server enabled, or every server failed.
Raises(t) ==
    /\ at[t] = "call" /\ order[t] = <<>>
    /\ Ends(t) /\ UNCHANGED <<conf, state, reading>>

Calls(t, h) == at[t] = "call" /\ met[t] = h

Fails(t) ==
    /\ Calls(t, "dead")
    /\ Mark(At(t), "down") /\ GoesOn(t, "call")
    /\ UNCHANGED conf

\* Mutant: the count is looked at after a quick answer too.
AnswersCounted(t) ==
    /\ Calls(t, "quick")
    /\ Mark(At(t), IF hits[At(t)] >= 2 THEN "slow" ELSE "ok") /\ Ends(t)
    /\ UNCHANGED conf

\* _after_call: an answer within slow_sec.
AnswersQuickly(t) ==
    /\ Calls(t, "quick")
    /\ Mark(At(t), "ok") /\ Ends(t)
    /\ UNCHANGED conf

\* A slow one of Ollama: /api/ps tells whether the model is on the CPU.
AnswersFromCpu(t) ==
    /\ Calls(t, "cpu")
    /\ Mark(At(t), "slow") /\ Ends(t)
    /\ UNCHANGED conf

AnswersLongly(t) ==
    /\ Calls(t, "slow") /\ servers[At(t)] = "ollama"
    /\ Mark(At(t), "ok") /\ Ends(t)
    /\ UNCHANGED conf

\* A slow one of another server is counted ...
AnswersSlowly(t) ==
    /\ Calls(t, "slow") /\ servers[At(t)] # "ollama"
    /\ hits' = [hits EXCEPT ![At(t)] = IF @ < 2 THEN @ + 1 ELSE @]
    /\ counted' = [counted EXCEPT ![t] = hits'[At(t)]]
    /\ at' = [at EXCEPT ![t] = "count"]
    /\ UNCHANGED <<conf, status, cooling, order, met, reading>>

\* ... and what it counted is acted on later.
SlowAgain(t) ==
    /\ at[t] = "count" /\ counted[t] >= 2
    /\ Mark(At(t), "slow") /\ Ends(t)
    /\ UNCHANGED conf

SlowOnce(t) ==
    /\ at[t] = "count" /\ counted[t] < 2
    /\ status' = [status EXCEPT ![At(t)] = "ok"] /\ Ends(t)
    /\ UNCHANGED <<conf, cooling, hits, reading>>

-----------------------------------------------------------------------------
(* check(): PoolProxy.ping asks the enabled servers until one is fine, the *)
(* status poll (DeviceManager._probe_pool) each one in a thread of its own. *)

Ping(t) ==
    /\ at[t] = "idle"
    /\ LET all == SelectSeq([i \in 1..Len(servers) |-> i], LAMBDA i : i \in Enabled)
       IN \E servs \in {all} \union {<<i>> : i \in Enabled} : Goes(t, "check", servs)
    /\ UNCHANGED <<conf, state, reading>>

NoneFine(t) ==
    /\ at[t] = "check" /\ order[t] = <<>>
    /\ Ends(t) /\ UNCHANGED <<conf, state, reading>>

\* A cloud server keeps the state of its last call.
CheckCloud(t) ==
    /\ Asks(t) /\ IsCloud(t)
    /\ IF status[At(t)] \in {"ok", "unknown"} THEN Ends(t) ELSE GoesOn(t, "check")
    /\ UNCHANGED <<conf, state, reading>>

Checks(t, h) == at[t] = "check" /\ met[t] = h

CheckFails(t) ==
    /\ Checks(t, "dead")
    /\ Mark(At(t), "down") /\ GoesOn(t, "check")
    /\ UNCHANGED conf

CheckFindsCpu(t) ==
    /\ Checks(t, "cpu")
    /\ Mark(At(t), "slow") /\ Ends(t)
    /\ UNCHANGED conf

\* It works, however slowly.  The state is read without the lock; `ok` is written later.
Works(i) == status[i] \in {"unknown", "down"} \/ (status[i] = "slow" /\ ~cooling[i])
CheckReads(t) ==
    /\ Checks(t, "quick") \/ Checks(t, "slow")
    /\ IF Works(At(t)) THEN Goes(t, "works", order[t]) ELSE Ends(t)
    /\ UNCHANGED <<conf, state, reading>>

CheckMarks(t) ==
    /\ at[t] = "works"
    /\ Mark(At(t), "ok") /\ Ends(t)
    /\ UNCHANGED conf

-----------------------------------------------------------------------------
(* warm() of one server: it loads the model.                               *)

WarmStarts(t, i) ==
    /\ at[t] = "idle" /\ i <= Len(servers)
    /\ Goes(t, "warm", <<i>>)
    /\ UNCHANGED <<conf, state, reading>>

WarmEnds(t) ==
    /\ at[t] = "warm" /\ met[t] # Nothing
    /\ Mark(At(t), CASE met[t] = "dead" -> "down" [] met[t] = "cpu" -> "slow" [] OTHER -> "ok")
    /\ Ends(t)
    /\ UNCHANGED conf

-----------------------------------------------------------------------------
Proceeds(t) ==
    \/ \E n \in 1 .. 2 * MaxServers : ReadUntil(t, n)
    \/ Ordered(t) \/ Meets(t)
    \/ Raises(t) \/ Fails(t) \/ AnswersQuickly(t) \/ AnswersFromCpu(t) \/ AnswersLongly(t)
    \/ AnswersSlowly(t) \/ SlowAgain(t) \/ SlowOnce(t)
    \/ NoneFine(t) \/ CheckCloud(t) \/ CheckFails(t) \/ CheckFindsCpu(t) \/ CheckReads(t)
    \/ CheckMarks(t) \/ WarmEnds(t)

Next ==
    \/ \E i \in Server : Recovers(i) \/ Expires(i)
    \/ \E t \in Thread :
          Begin(t) \/ Ping(t) \/ (\E i \in Server : WarmStarts(t, i)) \/ Proceeds(t)

Spec == Init /\ [][Next]_vars

-----------------------------------------------------------------------------
(* Properties.                                                             *)

TypeOK ==
    /\ servers \in Pools /\ recovered \subseteq Server
    /\ status \in [Server -> {"unknown", "ok", "slow", "down"}]
    /\ cooling \in [Server -> BOOLEAN] /\ hits \in [Server -> 0..2]
    /\ at \in [Thread -> {"idle", "order", "call", "count", "check", "works",
                       "warm"}]
    /\ met \in [Thread -> {Nothing, "quick", "slow", "cpu", "dead"}]
    /\ counted \in [Thread -> 0..2]
    /\ order \in [Thread -> Seq(Server)]
    /\ reads \in [Thread -> 0 .. 2 * MaxServers]
    /\ \A t \in Thread : ToSet(order[t]) \subseteq IF at[t] = "warm" THEN 1..Len(servers)
                                                      ELSE Enabled

(***************************************************************************)
(* "The ones not in a cooldown first, each group in the configured order", *)
(* and every one of them: whatever the other threads marked while order()  *)
(* read, it lists each server they left alone once, and in its place.      *)
(***************************************************************************)
OrderRight ==
    \A t \in Thread : at[t] = "order" /\ Unread(t) = {} =>
        LET Left == Enabled \ touched[t]
            Before(i, j) == IF i \in cold[t] THEN j \in cold[t] /\ i < j
                            ELSE j \in cold[t] \/ i < j
        IN /\ Left \subseteq ToSet(order[t]) /\ ToSet(order[t]) \subseteq Enabled
           /\ \A k, l \in DOMAIN order[t] :
                 k < l /\ order[t][k] \in Left /\ order[t][l] \in Left
                 => Before(order[t][k], order[t][l])

(***************************************************************************)
(* "After that it is tried first again, so the pool returns to the main    *)
(* server once it works": a server that answers quickly, is out of its     *)
(* cooldown and of which nobody has a bad answer in hand stays so, however *)
(* many calls, checks and warm-ups go on, and whatever was counted of it   *)
(* before.  (A bad answer met before it recovered may be marked long after *)
(* and costs it another cooldown.)                                         *)
(***************************************************************************)
BadAnswerPending(i) ==
    \E t \in Thread : (at[t] = "count" \/ met[t] \in {"dead", "cpu", "slow"}) /\ At(t) = i
InUse(i) == i \in recovered /\ ~cooling[i] /\ ~BadAnswerPending(i)
RecoveredStaysUsed == [][\A i \in Server : InUse(i) => InUse(i)']_vars

(***************************************************************************)
(* "When every server is in its cooldown they are still tried in order":   *)
(* a call that raises has gone through every enabled server.               *)
(***************************************************************************)
OrderComplete ==
    \A t \in Thread : at[t] = "order" /\ Unread(t) = {} => Enabled \subseteq ToSet(order[t])

(***************************************************************************)
(* "skipped until then (slow / down)": a server is skipped because it is   *)
(* slow or down.                                                           *)
(***************************************************************************)
SkippedIsSlowOrDown == \A i \in Server : cooling[i] => status[i] \in {"slow", "down"}
=============================================================================
