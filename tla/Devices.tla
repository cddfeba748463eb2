------------------------------ MODULE Devices ------------------------------
(***************************************************************************)
(* core/device_manager.py with the site switch of state.py: the connections *)
(* of this process and how they get into the connections.json of the site. *)
(* API calls run in threads of their own, boot loads in another one, and   *)
(* other machines save the same files.                                     *)
(*                                                                         *)
(* Connecting a device is slow, and what fails to connect is registered    *)
(* all the same; a SwitchBot that connects as the default takes that from  *)
(* the others before it is registered.  SharedJson.save is one step here   *)
(* (module SharedJson has its own).  The status cache, renamed   *)
(* sites and the node's agents are left out.                               *)
(***************************************************************************)
EXTENDS Naturals, FiniteSets

CONSTANTS
    Conn, Value,   \* agent names; what a connection may say
    Bot, Model,    \* the names of the SwitchBots, and of the language models
    NoConn,        \* no connection of that name
    NoDoc,         \* no file, nothing read yet
    Site, BootSite,
    Thread, boot,  \* the API's threads, and the one that loads at boot
    Async,         \* bootstrap: the API is served while it loads
    MaxCalls,      \* bound: calls of the API
    MaxOthers      \* bound: saves of other machines

\* `chosen`: a SwitchBot is the default one, a model the active one.
Config == [value : Value, chosen : BOOLEAN]
Doc == [Conn -> Config \union {NoConn}]
Empty == [c \in Conn |-> NoConn]
Items(d) == IF d = NoDoc THEN Empty ELSE d
Keys(d) == {c \in Conn : Items(d)[c] # NoConn}
All == Thread \union {boot}
NoCall == [op |-> "none"]

VARIABLES
    connects,   \* _connects: the configs it holds
    location,   \* AgentState.location
    store,      \* the site _store writes to
    base,       \* _store.base
    known,      \* _known: names this process has held
    loading,    \* _loading
    saver,      \* who holds _save_lock
    files,      \* the connections.json of each site
    at, call,   \* where each thread stands, and the call it serves
    left, out,  \* what it has still to load; the document it is saving
    touched,    \* history: what a call added, edited or removed
    calls, others

process == <<connects, location, store, base, known, loading>>
counts == <<touched, calls, others>>
vars == <<process, saver, files, at, call, left, out, counts>>

Init ==
    /\ connects = Empty /\ location = BootSite /\ store = BootSite
    /\ base = NoDoc /\ known = {} /\ loading = FALSE /\ saver = {}
    /\ files \in [Site -> {Empty, [c \in Conn |-> CHOOSE v \in Config : TRUE]} \union {NoDoc}]
    /\ at = [t \in All |-> IF t = boot THEN "read" ELSE "idle"]
    /\ call = [t \in All |-> NoCall]
    /\ left = [t \in All |-> Empty] /\ out = [t \in All |-> Empty]
    /\ touched = {} /\ calls = 0 /\ others = 0

Serves(t) == t # boot /\ at[t] = "idle" /\ (Async \/ at[boot] = "idle")
Goes(t, to) == at' = [at EXCEPT ![t] = to]

-----------------------------------------------------------------------------
(* _save: what is held is looked up first, and merged under the lock.      *)

\* After its save a load goes on, an update to another name removes the old one.
Return(t) ==
    /\ Goes(t, CASE call[t].op = "load" -> "load"
                 [] call[t].op = "update" /\ call[t].old # call[t].conn -> "pop"
                 [] OTHER -> "idle")
    /\ call' = [call EXCEPT ![t] = CASE @.op = "load" -> @
                 [] @.op = "update" /\ @.old # @.conn -> [op |-> "remove", conn |-> @.old]
                 [] OTHER -> NoCall]

SaveChecks(t) ==
    /\ at[t] = "save"
    /\ IF loading THEN Return(t) ELSE Goes(t, "snapshot") /\ UNCHANGED call
    /\ UNCHANGED <<process, saver, files, left, out, counts>>

Snapshot(t) ==
    /\ at[t] = "snapshot"
    /\ Goes(t, "lock") /\ out' = [out EXCEPT ![t] = connects]
    /\ UNCHANGED <<process, saver, files, call, left, counts>>

\* Of the base, what this process never held is passed through.
SaveLocks(t) ==
    /\ at[t] = "lock" /\ saver = {}
    /\ Goes(t, "write") /\ saver' = {t}
    /\ known' = known \union Keys(out[t])
    /\ out' = [out EXCEPT ![t] =
                [c \in Conn |-> IF @[c] = NoConn /\ c \notin known' THEN Items(base)[c] ELSE @[c]]]
    /\ UNCHANGED <<connects, location, store, base, loading, files, call, left, counts>>

merge_map(b, m, theirs) == [c \in Conn |-> IF m[c] # b[c] THEN m[c] ELSE theirs[c]]
Merged(t) == IF files[store] = NoDoc THEN out[t] ELSE merge_map(Items(base), out[t], files[store])

\* _store.save; what it returns is not taken over.
SaveWrites(t) ==
    /\ at[t] = "write"
    /\ files' = [files EXCEPT ![store] = Merged(t)] /\ base' = Merged(t)
    /\ saver' = {} /\ out' = [out EXCEPT ![t] = Empty]
    /\ Return(t)
    /\ UNCHANGED <<connects, location, store, known, loading, left, counts>>

SaveFails(t) ==
    /\ at[t] = "write"
    /\ saver' = {} /\ out' = [out EXCEPT ![t] = Empty]
    /\ Return(t)
    /\ UNCHANGED <<process, files, left, counts>>

-----------------------------------------------------------------------------
(* The API's calls.                                                        *)

SameType(c, d) == (c \in Bot <=> d \in Bot) /\ (c \in Model <=> d \in Model)

Call(t) ==
    /\ Serves(t)
    /\ calls < MaxCalls /\ calls' = calls + 1
    /\ \E c \in Conn, d \in Conn, v \in Config, s \in Site :
        \/ call' = [call EXCEPT ![t] = [op |-> "add", conn |-> c, config |-> v]] /\ Goes(t, "connect")
        \/ call' = [call EXCEPT ![t] = [op |-> "remove", conn |-> c]] /\ Goes(t, "pop")
        \/ /\ connects[d] # NoConn /\ SameType(c, d)
           /\ call' = [call EXCEPT ![t] = [op |-> "update", old |-> d, conn |-> c, config |-> v]]
           /\ Goes(t, "connect")
        \/ /\ s # location
           /\ call' = [call EXCEPT ![t] = [op |-> "switch", site |-> s]] /\ Goes(t, "teardown")
    /\ location' = IF call'[t].op = "switch" THEN call'[t].site ELSE location
    /\ UNCHANGED <<connects, store, base, known, loading, saver, files, left, out, touched, others>>

\* Of the connections `peers`, c is the chosen one.
Chosen(c, peers) ==
    [d \in Conn |-> IF d \in peers /\ connects[d] # NoConn
                    THEN [connects[d] EXCEPT !.chosen = (d = c)] ELSE connects[d]]

\* add_connect, of any type: it connects or not; the default SwitchBot is chosen, ...
Connect(t) ==
    /\ at[t] = "connect"
    /\ LET c == call[t].conn IN
        connects' = IF c \in Bot /\ call[t].config.chosen THEN Chosen(c, Bot \ {c}) ELSE connects
    /\ touched' = touched \union {d \in Conn : connects'[d] # connects[d]}
    /\ Goes(t, "register")
    /\ UNCHANGED <<location, store, base, known, loading, saver, files, call, left, out, calls, others>>

\* ... and connected or not, the entry is registered.
Register(t) ==
    /\ at[t] = "register"
    /\ connects' = [connects EXCEPT ![call[t].conn] = call[t].config]
    /\ touched' = touched \union IF call[t].op = "load" THEN {} ELSE {call[t].conn}
    /\ Goes(t, "save")
    /\ UNCHANGED <<location, store, base, known, loading, saver, files, call, left, out, calls, others>>

\* remove_connect.
Pop(t) ==
    /\ at[t] = "pop"
    /\ IF connects[call[t].conn] = NoConn
       THEN Return(t) /\ UNCHANGED <<connects, touched>>
       ELSE /\ connects' = [connects EXCEPT ![call[t].conn] = NoConn]
            /\ touched' = touched \union {call[t].conn}
            /\ Goes(t, "save") /\ UNCHANGED call
    /\ UNCHANGED <<location, store, base, known, loading, saver, files, left, out, calls, others>>

\* set_active: the flag in the configs of the models, edited in place.
Activate(t) ==
    /\ Serves(t)
    /\ calls < MaxCalls /\ calls' = calls + 1
    /\ \E c \in Model : connects[c] # NoConn /\ connects' = Chosen(c, Model)
    /\ touched' = touched \union {d \in Conn : connects'[d] # connects[d]}
    /\ Goes(t, "save")
    /\ UNCHANGED <<location, store, base, known, loading, saver, files, call, left, out, others>>

-----------------------------------------------------------------------------
(* load_saved, at boot and after a switch.                                 *)

\* reload_from: everything is disconnected and forgotten, ...
Teardown(t) ==
    /\ at[t] = "teardown"
    /\ connects' = Empty
    /\ Goes(t, "repoint")
    /\ UNCHANGED <<location, store, base, known, loading, saver, files, call, left, out, counts>>

\* ... the store is that of the new site, with the base of the old one, ...
Repoint(t) ==
    /\ at[t] = "repoint"
    /\ store' = call[t].site
    /\ Goes(t, "read")
    /\ UNCHANGED <<connects, location, base, known, loading, saver, files, call, left, out, counts>>

\* ... which is read.
LoadReads(t) ==
    /\ at[t] = "read"
    /\ base' = files[store]
    /\ left' = [left EXCEPT ![t] = Items(files[store])]
    /\ IF files[store] = NoDoc
       THEN known' = {} /\ Goes(t, "idle") /\ call' = [call EXCEPT ![t] = NoCall]
       ELSE UNCHANGED known /\ Goes(t, "start") /\ call' = [call EXCEPT ![t] = [op |-> "load"]]
    /\ UNCHANGED <<connects, location, store, loading, saver, files, out, counts>>

LoadStarts(t) ==
    /\ at[t] = "start"
    /\ known' = Keys(left[t]) /\ loading' = TRUE
    /\ Goes(t, "load")
    /\ UNCHANGED <<connects, location, store, base, saver, files, call, left, out, counts>>

\* One connection after the other, each with its own (suppressed) save.
LoadAdds(t) ==
    /\ at[t] = "load"
    /\ \E c \in Keys(left[t]) :
        /\ call' = [call EXCEPT ![t] = [op |-> "load", conn |-> c, config |-> left[t][c]]]
        /\ left' = [left EXCEPT ![t][c] = NoConn]
    /\ Goes(t, "connect")
    /\ UNCHANGED <<process, saver, files, out, counts>>

LoadEnds(t) ==
    /\ at[t] = "load" /\ Keys(left[t]) = {}
    /\ loading' = FALSE
    /\ Goes(t, "save") /\ call' = [call EXCEPT ![t] = NoCall]
    /\ UNCHANGED <<connects, location, store, base, known, saver, files, left, out, counts>>

\* Another machine on the site adds, edits or removes a connection.
OtherSaves ==
    /\ others < MaxOthers /\ others' = others + 1
    /\ \E s \in Site, c \in Conn, v \in Config \union {NoConn} :
        files' = [files EXCEPT ![s] = [Items(@) EXCEPT ![c] = v]]
    /\ UNCHANGED <<process, saver, at, call, left, out, touched, calls>>

Save(t) == SaveChecks(t) \/ Snapshot(t) \/ SaveLocks(t) \/ SaveWrites(t) \/ SaveFails(t)
Load(t) == Teardown(t) \/ Repoint(t) \/ LoadReads(t) \/ LoadStarts(t) \/ LoadAdds(t) \/ LoadEnds(t)
Edit(t) == Call(t) \/ Connect(t) \/ Register(t) \/ Pop(t) \/ Activate(t)

Next == OtherSaves \/ \E t \in All : Edit(t) \/ Save(t) \/ Load(t)

Spec == Init /\ [][Next]_vars

-----------------------------------------------------------------------------
(* Properties.                                                             *)

TypeOK ==
    /\ connects \in Doc /\ base \in Doc \union {NoDoc} /\ known \subseteq Conn
    /\ {location, store} \subseteq Site /\ loading \in BOOLEAN /\ saver \subseteq All
    /\ files \in [Site -> Doc \union {NoDoc}]
    /\ left \in [All -> Doc] /\ out \in [All -> Doc] /\ touched \subseteq Conn
    /\ at \in [All -> {"idle", "connect", "register", "pop", "save", "snapshot", "lock", "write",
                       "teardown", "repoint", "read", "start", "load"}]
    /\ saver = {t \in All : at[t] = "write"}

\* _save's docstring: "connections this process added / edited / removed win,
\* the rest is kept".  A save that nothing else in this process overlaps leaves
\* alone what no call of this process named, whatever another machine made of it.
Alone(t) ==
    /\ \A u \in All \ {t} : at[u] = "idle"
    /\ \A c \in Keys(connects) : out[t][c] = connects[c]
RestIsKept ==
    [][\A t \in All : at[t] = "write" /\ at'[t] # "write" /\ Alone(t) =>
            \A c \in Conn \ touched : Items(files'[store])[c] = Items(files[store])[c]]_vars

\* The same of a save that other calls, a load or a switch overlap.
RestIsAlwaysKept ==
    [][\A t \in All : at[t] = "write" /\ at'[t] # "write" =>
            \A c \in Conn \ touched : Items(files'[store])[c] = Items(files[store])[c]]_vars

\* When every call has been served, each connection in memory is in the file.
HeldIsSaved ==
    (\A t \in All : at[t] = "idle") => Keys(connects) \subseteq Keys(files[store])
=============================================================================
