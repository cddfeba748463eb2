----------------------------- MODULE SharedJson -----------------------------
(***************************************************************************)
(* core/shared_json.py with the managers that own such a file (buttons,    *)
(* skills, configuration): every process keeps the whole document in       *)
(* memory, looks whether the file changed before it uses or edits it, and  *)
(* saves by merging its own changes into what the file holds by then.      *)
(* Processes of one machine exclude each other with flock; it does not     *)
(* reach other machines, and a save that cannot have it (no fcntl, a file  *)
(* system without locks) goes on without.  Writes fail, processes crash at *)
(* any step, and the file may be found damaged.                            *)
(*                                                                         *)
(* A document maps keys to values; the order of its items is left out.     *)
(***************************************************************************)
EXTENDS Naturals, FiniteSets

CONSTANTS
    Process, Machines, \* the processes, and on which machines they may be
    Key, Value,
    NoValue,           \* _MISSING: the document has no such item
    NoDoc, Torn,       \* no file; a file that does not parse
    MaxEdits,          \* bound: edits people make
    MaxFaults          \* bound: damaged files, crashes, copies and writes that fail

Doc == [Key -> Value \cup {NoValue}]
ASSUME DocsAssumption == NoDoc # Torn /\ NoDoc \notin Doc /\ Torn \notin Doc
Empty == [k \in Key |-> NoValue]
Known(d) == IF d \in Doc THEN d ELSE Empty    \* `d or {}`
NoEdit == <<>>
NoStamp == 0

VARIABLES
    host,           \* the machine of each process
    file, version,  \* the file, and a number for its (mtime_ns, size)
    bak,            \* the file's .bak
    at, todo,       \* where each process stands, and the edit it is about to make
    mine,           \* the owner's document
    base, stamp,    \* SharedJson.base, _stamp
    seen,           \* the stamp read before the content
    out,            \* the document being saved
    lockless,       \* the processes whose save goes on without the lock (fd is None)
    raced, missed,  \* history: something else replaced the file between this save's
                    \* read and its replace, between its replace and its stat
    edits, faults, damaged

disk == <<file, version, bak>>
memory == <<mine, base, stamp>>
counts == <<edits, faults, damaged>>
history == <<raced, missed>>
vars == <<host, disk, at, todo, memory, seen, out, lockless, history, counts>>

Init ==
    /\ host \in Machines
    /\ file = NoDoc /\ version = NoStamp /\ bak = NoDoc
    /\ at = [p \in Process |-> "idle"] /\ todo = [p \in Process |-> NoEdit]
    /\ mine = [p \in Process |-> Empty]
    /\ base = [p \in Process |-> NoDoc] /\ stamp = [p \in Process |-> NoStamp]
    /\ seen = [p \in Process |-> NoStamp] /\ out = [p \in Process |-> Empty]
    /\ lockless = {}
    /\ raced = [p \in Process |-> FALSE] /\ missed = [p \in Process |-> FALSE]
    /\ edits = 0 /\ faults = 0 /\ damaged = FALSE

Goes(p, to) == at' = [at EXCEPT ![p] = to]

-----------------------------------------------------------------------------
(* The owner: refresh(), then the edit.                                    *)

\* A get, or an edit of one item (NoValue removes it).
Call(p) ==
    /\ at[p] = "idle"
    /\ Goes(p, "look")
    /\ \/ UNCHANGED <<todo, edits>>
       \/ /\ edits < MaxEdits /\ edits' = edits + 1
          /\ \E k \in Key, v \in Value \cup {NoValue} : todo' = [todo EXCEPT ![p] = <<k, v>>]
    /\ UNCHANGED <<host, lockless, disk, memory, seen, out, history, faults, damaged>>

\* changed(); an owner with unsaved edits does not reload.
Unsaved(p) == mine[p] # Known(base[p])
Looks(p) ==
    /\ at[p] = "look"
    /\ Goes(p, IF version # NoStamp /\ version # stamp[p] /\ ~Unsaved(p) THEN "read" ELSE "edit")
    /\ UNCHANGED <<host, lockless, disk, todo, memory, seen, out, history, counts>>

\* _read_disk: the stamp is read before the content ...
Stamps(p) ==
    /\ at[p] = "read"
    /\ Goes(p, "content") /\ seen' = [seen EXCEPT ![p] = version]
    /\ UNCHANGED <<host, lockless, disk, todo, memory, out, history, counts>>

Adopts(p, doc, s) ==
    /\ base' = [base EXCEPT ![p] = doc] /\ stamp' = [stamp EXCEPT ![p] = s]
    /\ mine' = [mine EXCEPT ![p] = IF doc \in Doc THEN doc ELSE @]

\* Mutant: the backup is taken for the version the stamp is of.
ReadsStamped(p) ==
    /\ at[p] = "content"
    /\ Goes(p, "edit")
    /\ IF file # Torn THEN Adopts(p, file, seen[p])
                      ELSE Adopts(p, IF bak = Torn THEN NoDoc ELSE bak, seen[p])
    /\ seen' = [seen EXCEPT ![p] = NoStamp] /\ missed' = [missed EXCEPT ![p] = FALSE]
    /\ UNCHANGED <<host, lockless, disk, todo, out, raced, counts>>

\* ... and a file that does not parse is replaced by its backup, without a stamp.
Reads(p) ==
    /\ at[p] = "content"
    /\ Goes(p, "edit")
    /\ CASE file \in Doc -> Adopts(p, file, seen[p])
         [] file = NoDoc -> Adopts(p, NoDoc, NoStamp)
         [] OTHER -> Adopts(p, IF bak = Torn THEN NoDoc ELSE bak, NoStamp)
    /\ seen' = [seen EXCEPT ![p] = NoStamp] /\ missed' = [missed EXCEPT ![p] = FALSE]
    /\ UNCHANGED <<host, lockless, disk, todo, out, raced, counts>>

Edits(p) ==
    /\ at[p] = "edit"
    /\ todo' = [todo EXCEPT ![p] = NoEdit]
    /\ IF todo[p] = NoEdit
       THEN Goes(p, "idle") /\ UNCHANGED mine
       ELSE Goes(p, "lock") /\ mine' = [mine EXCEPT ![p][todo[p][1]] = todo[p][2]]
    /\ UNCHANGED <<host, lockless, disk, base, stamp, seen, out, history, counts>>

-----------------------------------------------------------------------------
(* save().                                                                 *)

Saving(p) == at[p] \in {"locked", "write", "backup", "copying", "replace", "settle"}

\* Who holds the flock of its machine.
Holds(p) == Saving(p) /\ p \notin lockless

\* flock, held until the end of save().
Locks(p) ==
    /\ at[p] = "lock"
    /\ \A q \in Process : host[q] = host[p] => ~Holds(q)
    /\ Goes(p, "locked")
    /\ UNCHANGED <<host, lockless, disk, todo, memory, seen, out, history, counts>>

\* `except Exception: self._close()`: the save goes on without.
LockFails(p) ==
    /\ at[p] = "lock"
    /\ Goes(p, "locked") /\ lockless' = lockless \cup {p}
    /\ UNCHANGED <<host, disk, todo, memory, seen, out, history, counts>>

\* A key that `mine` changed since `base` takes mine, every other key theirs.
merge_map(b, m, theirs) == [k \in Key |-> IF m[k] # b[k] THEN m[k] ELSE theirs[k]]

\* Mutant: what the process remembers of the file instead of what it holds now.
MergesRemembered(p) ==
    /\ at[p] = "locked"
    /\ Goes(p, "write") /\ out' = [out EXCEPT ![p] = mine[p]]
    /\ raced' = [raced EXCEPT ![p] = FALSE]
    /\ UNCHANGED <<host, lockless, disk, todo, memory, seen, missed, counts>>

Merges(p) ==
    /\ at[p] = "locked"
    /\ Goes(p, "write")
    /\ LET theirs == IF file = Torn THEN bak ELSE file
       IN out' = [out EXCEPT ![p] = IF theirs \in Doc THEN merge_map(Known(base[p]), mine[p], theirs)
                                                      ELSE mine[p]]
    /\ raced' = [raced EXCEPT ![p] = FALSE]
    /\ UNCHANGED <<host, lockless, disk, todo, memory, seen, missed, counts>>

\* The tmp file is the process's own; an error leaves the edit unsaved.
Fault == faults < MaxFaults /\ faults' = faults + 1
WriteFails(p) ==
    /\ at[p] = "write" /\ Fault
    /\ Goes(p, "idle") /\ out' = [out EXCEPT ![p] = Empty] /\ lockless' = lockless \ {p}
    /\ UNCHANGED <<host, disk, todo, memory, seen, history, edits, damaged>>

\* Mutant: the file itself is opened for writing.
WritesInPlace(p) ==
    /\ at[p] = "write"
    /\ Goes(p, IF file = NoDoc THEN "replace" ELSE "backup")
    /\ file' = Torn
    /\ UNCHANGED <<host, lockless, version, bak, todo, memory, seen, out, history, counts>>

Writes(p) ==
    /\ at[p] = "write"
    /\ Goes(p, IF file = NoDoc THEN "replace" ELSE "backup")
    /\ UNCHANGED <<host, lockless, disk, todo, memory, seen, out, history, counts>>

\* copyfile: not atomic, and its errors are ignored.
CopyStarts(p) ==
    /\ at[p] = "backup"
    /\ Goes(p, "copying") /\ bak' = Torn
    /\ UNCHANGED <<host, lockless, file, version, todo, memory, seen, out, history, counts>>

CopyEnds(p) ==
    /\ at[p] = "copying"
    /\ Goes(p, "replace")
    /\ \/ bak' = file /\ UNCHANGED faults
       \/ Fault /\ UNCHANGED bak
    /\ UNCHANGED <<host, lockless, file, version, todo, memory, seen, out, history, edits, damaged>>

\* The saves of `others` under way are overtaken by a new file; p's own is none.
Overtakes(others, p) ==
    /\ raced' = [q \in Process |-> raced[q] \/ (q \in others /\ Saving(q))]
    /\ missed' = [q \in Process |-> q # p /\ (missed[q] \/ (q \in others /\ at[q] = "settle"))]

\* Whom flock does not keep out of p's save, nor p out of theirs.
OutOfLock(p) == {q \in Process \ {p} : host[q] # host[p] \/ q \in lockless \/ p \in lockless}

\* os.replace.
Replaces(p) ==
    /\ at[p] = "replace"
    /\ Goes(p, "settle")
    /\ file' = out[p] /\ version' = version + 1
    /\ Overtakes(OutOfLock(p), p)
    /\ UNCHANGED <<host, lockless, bak, todo, memory, seen, out, counts>>

\* base and stamp are set, flock is released, the owner adopts the document.
Settles(p) ==
    /\ at[p] = "settle"
    /\ Goes(p, "idle") /\ Adopts(p, out[p], version)
    /\ out' = [out EXCEPT ![p] = Empty] /\ raced' = [raced EXCEPT ![p] = FALSE]
    /\ lockless' = lockless \ {p}
    /\ UNCHANGED <<host, disk, todo, seen, missed, counts>>

-----------------------------------------------------------------------------
\* The process dies and starts again: it loads the file (load_saved).
Crash(p) ==
    /\ at[p] # "idle" /\ Fault
    /\ Goes(p, "read") /\ todo' = [todo EXCEPT ![p] = NoEdit]
    /\ mine' = [mine EXCEPT ![p] = Empty]
    /\ base' = [base EXCEPT ![p] = NoDoc] /\ stamp' = [stamp EXCEPT ![p] = NoStamp]
    /\ seen' = [seen EXCEPT ![p] = NoStamp] /\ out' = [out EXCEPT ![p] = Empty]
    /\ raced' = [raced EXCEPT ![p] = FALSE] /\ missed' = [missed EXCEPT ![p] = FALSE]
    /\ lockless' = lockless \ {p}
    /\ UNCHANGED <<host, disk, edits, damaged>>

\* The environment: a file that does not parse any more.
Damage ==
    /\ file \in Doc /\ Fault
    /\ file' = Torn /\ version' = version + 1 /\ damaged' = TRUE
    /\ Overtakes(Process, NoDoc)
    /\ UNCHANGED <<host, lockless, bak, at, todo, memory, seen, out, edits>>

-----------------------------------------------------------------------------
Refresh(p) == Call(p) \/ Looks(p) \/ Stamps(p) \/ Reads(p) \/ Edits(p)
Save(p) ==
    \/ Locks(p) \/ LockFails(p) \/ Merges(p) \/ WriteFails(p) \/ Writes(p)
    \/ CopyStarts(p) \/ CopyEnds(p) \/ Replaces(p) \/ Settles(p)

Next == Damage \/ \E p \in Process : Refresh(p) \/ Save(p) \/ Crash(p)

Spec == Init /\ [][Next]_vars

-----------------------------------------------------------------------------
(* Properties.                                                             *)

TypeOK ==
    /\ file \in Doc \cup {NoDoc, Torn} /\ bak \in Doc \cup {NoDoc, Torn}
    /\ version \in Nat /\ edits \in Nat /\ faults \in Nat /\ damaged \in BOOLEAN
    /\ at \in [Process -> {"idle", "look", "read", "content", "edit", "lock", "locked", "write",
                           "backup", "copying", "replace", "settle"}]
    /\ mine \in [Process -> Doc] /\ out \in [Process -> Doc]
    /\ base \in [Process -> Doc \cup {NoDoc}]
    /\ todo \in [Process -> {NoEdit} \cup (Key \X (Value \cup {NoValue}))]
    /\ stamp \in [Process -> Nat] /\ seen \in [Process -> Nat]
    /\ raced \in [Process -> BOOLEAN] /\ missed \in [Process -> BOOLEAN]
    /\ lockless \subseteq Process
    /\ \A p, q \in Process : Holds(p) /\ Holds(q) /\ host[p] = host[q] => p = q

(***************************************************************************)
(* A save puts every change the process made since its base into the file, *)
(* and leaves every other item as the file holds it at that moment, even   *)
(* one that another process saved after this one last read it; unless the  *)
(* file was damaged, or replaced during the save by another machine or     *)
(* where one of the two saves goes on without the lock.                    *)
(***************************************************************************)
Changed(p, k) == mine[p][k] # Known(base[p])[k]
SaveMerges ==
    [][\A p \in Process : at[p] = "replace" /\ at'[p] = "settle" =>
            \A k \in Key : CASE Changed(p, k) -> file'[k] = mine[p][k]
                             [] raced[p] \/ damaged -> TRUE
                             [] OTHER -> file'[k] = Known(file)[k]]_vars

(***************************************************************************)
(* "A later change is still noticed": a process whose stamp is the file's  *)
(* holds what the file holds.  Reads and replaces of others may fall       *)
(* between its stat and its read; only a save that flock does not keep out *)
(* between its own replace and stat goes unnoticed (or damage there).      *)
(***************************************************************************)
ChangesNoticed ==
    \A p \in Process : at[p] = "idle" /\ stamp[p] # NoStamp /\ stamp[p] = version =>
        base[p] = file \/ missed[p]

(***************************************************************************)
(* "The file never disappears; the previous version is kept": one crash,   *)
(* one failing copy or one damaged file does not cost both the file and    *)
(* its backup (a save that runs on holds the third copy).                  *)
(***************************************************************************)
OneCopyWhole ==
    faults <= 1 /\ bak # NoDoc =>
        file \in Doc \/ bak \in Doc \/ \E p \in Process : at[p] \in {"copying", "replace"}
=============================================================================
