----------------------- MODULE FilesAndServersProofs -----------------------
(***************************************************************************)
(* Proofs about systems that share nothing: SharedJson, for any processes  *)
(* on any machines, any keys and values, and any number of edits, crashes  *)
(* and faults; ServerPool, for any threads and servers; SkillTools, for    *)
(* any packages, modules and skills; SkillBook, for any skills, plans,     *)
(* names and aliases.                                                      *)
(***************************************************************************)
EXTENDS FilesAndServers, SequenceTheorems, FiniteSetTheorems, TLAPS

-----------------------------------------------------------------------------
(* SharedJson: the inductive invariant.                                    *)

\* The file, once it is there, never disappears, and nothing is remembered or
\* backed up of a file that never was.
FileStays ==
    /\ bak # NoDoc => file # NoDoc
    /\ \A p \in Process : /\ base[p] # NoDoc => file # NoDoc
                          /\ at[p] \in {"backup", "copying", "settle"} => file # NoDoc

\* Only damage makes the file one that does not parse.
TornIsDamage == file = Torn => damaged /\ faults > 0

\* A backup does not parse while it is being copied; a fault may leave it so, but
\* then the file is whole or a save holds the third copy.
BackupWhole == faults = 0 /\ bak = Torn => \E p \in Process : at[p] = "copying"

\* What is going to be written has this process's changes and, unless the file was
\* replaced from elsewhere since, everything else as the file has it.
Written(p) == at[p] \in {"write", "backup", "copying", "replace"}
OutMerges ==
    \A p \in Process : Written(p) =>
        \A k \in Key :
            /\ Changed(p, k) => out[p][k] = mine[p][k]
            /\ ~Changed(p, k) /\ ~raced[p] /\ ~damaged => out[p][k] = Known(file)[k]

IInv == TypeOK /\ FileStays /\ TornIsDamage /\ BackupWhole /\ OneCopyWhole /\ OutMerges

-----------------------------------------------------------------------------
(* Documents.                                                               *)

LEMMA EmptyDoc == Empty \in Doc
  BY DEF Empty, Doc

LEMMA KnownDoc == \A d : Known(d) \in Doc /\ (d \in Doc => Known(d) = d)
  BY EmptyDoc DEF Known

\* merge_map keeps what was changed, takes the rest from the file, and gives a
\* document.
LEMMA MergeMap ==
    ASSUME NEW b \in Doc, NEW m \in Doc, NEW t \in Doc
    PROVE  /\ merge_map(b, m, t) \in Doc
           /\ \A k \in Key : IF m[k] # b[k] THEN merge_map(b, m, t)[k] = m[k]
                                           ELSE merge_map(b, m, t)[k] = t[k]
  BY DEF merge_map, Doc

LEMMA InitInv == Init => IInv
<1> SUFFICES ASSUME Init PROVE IInv
  OBVIOUS
<1>1. TypeOK
  BY EmptyDoc DEF Init, TypeOK, Holds, Saving, NoStamp
<1> QED
  BY <1>1, DocsAssumption DEF Init, IInv, FileStays, TornIsDamage, BackupWhole, OneCopyWhole,
     OutMerges, Written

-----------------------------------------------------------------------------
(* What every step does to the place of one process.                        *)

LEMMA GoesTo ==
    ASSUME TypeOK, NEW p \in Process, NEW to, Goes(p, to)
    PROVE  at'[p] = to /\ \A q \in Process : q # p => at'[q] = at[q]
  BY DEF TypeOK, Goes

\* The processes of one machine that hold the lock exclude each other as long as none
\* comes to hold it but through flock.
LEMMA Excluded ==
    ASSUME TypeOK, UNCHANGED host, NEW p \in Process,
           \A q \in Process : q # p => at'[q] = at[q] /\ (q \in lockless' <=> q \in lockless),
           Holds(p)' => Holds(p) \/ \A q \in Process : host[q] = host[p] => ~Holds(q)
    PROVE  (\A q, r \in Process : Holds(q) /\ Holds(r) /\ host[q] = host[r] => q = r)'
  BY DEF TypeOK, Holds, Saving

-----------------------------------------------------------------------------
(* refresh() and the edit.                                                  *)

\* A step before flock: nothing is written, and only the process's own place and
\* memory change.
LEMMA Unlocked ==
    ASSUME IInv, TypeOK', NEW p \in Process, UNCHANGED <<file, bak, out, raced, damaged, faults>>,
           \A q \in Process : q # p => at'[q] = at[q] /\ mine'[q] = mine[q] /\ base'[q] = base[q],
           at[p] \in {"idle", "look", "read", "content", "edit", "lock"},
           at'[p] \in {"idle", "look", "read", "content", "edit", "lock", "locked"},
           base'[p] # NoDoc => file # NoDoc
    PROVE  IInv'
<1>1. FileStays'
  BY DEF IInv, FileStays
<1>2. TornIsDamage'
  BY DEF IInv, TornIsDamage
<1>3. BackupWhole'
  BY DEF IInv, BackupWhole
<1>4. OneCopyWhole'
  BY DEF IInv, OneCopyWhole
<1>5. OutMerges'
  BY DEF IInv, OutMerges, Written, Changed
<1> QED
  BY <1>1, <1>2, <1>3, <1>4, <1>5 DEF IInv

LEMMA RefreshInv == ASSUME IInv, NEW p \in Process, Refresh(p) PROVE IInv'
<1> USE DEF disk, memory, counts, history
<1>0. TypeOK
  BY DEF IInv
<1>1. CASE Call(p)
  <2>1. at[p] = "idle" /\ at'[p] = "look" /\ \A q \in Process : q # p => at'[q] = at[q]
    BY <1>0, <1>1, GoesTo DEF Call
  <2>2. edits' \in Nat
    BY <1>0, <1>1 DEF Call, TypeOK
  <2>3. todo' \in [Process -> {NoEdit} \cup (Key \X (Value \cup {NoValue}))]
    BY <1>0, <1>1 DEF Call, TypeOK
  <2>4. (\A q, r \in Process : Holds(q) /\ Holds(r) /\ host[q] = host[r] => q = r)'
    BY <1>0, <1>1, <2>1, Excluded DEF Call, Holds, Saving
  <2>5. TypeOK'
    BY <1>0, <1>1, <2>2, <2>3, <2>4 DEF Call, TypeOK, Goes
  <2> QED
    BY <1>1, <2>1, <2>5, Unlocked DEF Call, IInv, FileStays
<1>2. CASE Looks(p)
  <2>1. /\ at[p] = "look" /\ at'[p] \in {"read", "edit"}
        /\ \A q \in Process : q # p => at'[q] = at[q]
    BY <1>0, <1>2, GoesTo DEF Looks
  <2>2. (\A q, r \in Process : Holds(q) /\ Holds(r) /\ host[q] = host[r] => q = r)'
    BY <1>0, <1>2, <2>1, Excluded DEF Looks, Holds, Saving
  <2>3. TypeOK'
    BY <1>0, <1>2, <2>2 DEF Looks, TypeOK, Goes
  <2> QED
    BY <1>2, <2>1, <2>3, Unlocked DEF Looks, IInv, FileStays
<1>3. CASE Stamps(p)
  <2>1. at[p] = "read" /\ at'[p] = "content" /\ \A q \in Process : q # p => at'[q] = at[q]
    BY <1>0, <1>3, GoesTo DEF Stamps
  <2>2. (\A q, r \in Process : Holds(q) /\ Holds(r) /\ host[q] = host[r] => q = r)'
    BY <1>0, <1>3, <2>1, Excluded DEF Stamps, Holds, Saving
  <2>3. TypeOK'
    BY <1>0, <1>3, <2>2 DEF Stamps, TypeOK, Goes
  <2> QED
    BY <1>3, <2>1, <2>3, Unlocked DEF Stamps, IInv, FileStays
<1>4. CASE Reads(p)
  <2>1. at[p] = "content" /\ at'[p] = "edit" /\ \A q \in Process : q # p => at'[q] = at[q]
    BY <1>0, <1>4, GoesTo DEF Reads
  <2>2. PICK doc \in Doc \cup {NoDoc}, s \in Nat : Adopts(p, doc, s) /\ (doc # NoDoc => file # NoDoc)
    <3>1. CASE file \in Doc
      BY <1>0, <1>4, <3>1, DocsAssumption DEF Reads, TypeOK
    <3>2. CASE file = NoDoc
      BY <1>4, <3>2, DocsAssumption DEF Reads, NoStamp
    <3>3. CASE file \notin Doc /\ file # NoDoc
      <4>1. Adopts(p, IF bak = Torn THEN NoDoc ELSE bak, NoStamp)
        BY <1>4, <3>3 DEF Reads
      <4> QED
        BY <1>0, <3>3, <4>1 DEF TypeOK, NoStamp
    <3> QED
      BY <3>1, <3>2, <3>3
  <2>3. base' \in [Process -> Doc \cup {NoDoc}] /\ mine' \in [Process -> Doc]
        /\ stamp' \in [Process -> Nat] /\ base'[p] = doc
        /\ \A q \in Process : q # p => mine'[q] = mine[q] /\ base'[q] = base[q]
    BY <1>0, <2>2 DEF Adopts, TypeOK
  <2>4. seen' \in [Process -> Nat] /\ missed' \in [Process -> BOOLEAN]
    BY <1>0, <1>4 DEF Reads, TypeOK, NoStamp
  <2>5. (\A q, r \in Process : Holds(q) /\ Holds(r) /\ host[q] = host[r] => q = r)'
    BY <1>0, <1>4, <2>1, Excluded DEF Reads, Holds, Saving
  <2>6. TypeOK'
    BY <1>0, <1>4, <2>3, <2>4, <2>5 DEF Reads, TypeOK, Goes
  <2> QED
    BY <1>4, <2>1, <2>2, <2>3, <2>6, Unlocked DEF Reads
<1>5. CASE Edits(p)
  <2>1. /\ at[p] = "edit" /\ at'[p] \in {"idle", "lock"}
        /\ \A q \in Process : q # p => at'[q] = at[q]
    BY <1>0, <1>5, GoesTo DEF Edits
  <2>2. mine' \in [Process -> Doc] /\ \A q \in Process : q # p => mine'[q] = mine[q]
    <3>1. CASE todo[p] = NoEdit
      BY <1>0, <1>5, <3>1 DEF Edits, TypeOK
    <3>2. CASE todo[p] # NoEdit
      <4>1. todo[p] \in Key \X (Value \cup {NoValue})
        BY <1>0, <3>2 DEF TypeOK
      <4>2. todo[p][1] \in Key /\ todo[p][2] \in Value \cup {NoValue} /\ mine[p] \in Doc
        BY <1>0, <4>1 DEF TypeOK
      <4>3. [mine[p] EXCEPT ![todo[p][1]] = todo[p][2]] \in Doc
        BY <4>2 DEF Doc
      <4>4. mine' = [mine EXCEPT ![p] = [mine[p] EXCEPT ![todo[p][1]] = todo[p][2]]]
        BY <1>0, <1>5, <3>2 DEF Edits, TypeOK
      <4> QED
        BY <1>0, <4>3, <4>4 DEF TypeOK
    <3> QED
      BY <3>1, <3>2
  <2>3. todo' \in [Process -> {NoEdit} \cup (Key \X (Value \cup {NoValue}))]
    BY <1>0, <1>5 DEF Edits, TypeOK
  <2>4. (\A q, r \in Process : Holds(q) /\ Holds(r) /\ host[q] = host[r] => q = r)'
    BY <1>0, <1>5, <2>1, Excluded DEF Edits, Holds, Saving
  <2>5. at' \in [Process -> {"idle", "look", "read", "content", "edit", "lock", "locked", "write",
                           "backup", "copying", "replace", "settle"}]
    BY <1>0, <1>5 DEF Edits, TypeOK, Goes
  <2>6. TypeOK'
    BY <1>0, <1>5, <2>2, <2>3, <2>4, <2>5 DEF Edits, TypeOK
  <2> QED
    BY <1>5, <2>1, <2>2, <2>6, Unlocked DEF Edits, IInv, FileStays
<1> QED
  BY <1>1, <1>2, <1>3, <1>4, <1>5 DEF Refresh

-----------------------------------------------------------------------------
(* save().                                                                  *)

Places == {"idle", "look", "read", "content", "edit", "lock", "locked", "write",
           "backup", "copying", "replace", "settle"}

LEMMA LocksInv == ASSUME IInv, NEW p \in Process, Locks(p) \/ LockFails(p) PROVE IInv'
<1> USE DEF disk, memory, counts, history
<1>0. TypeOK
  BY DEF IInv
<1>1. at[p] = "lock" /\ at'[p] = "locked" /\ \A q \in Process : q # p => at'[q] = at[q]
  BY <1>0, GoesTo DEF Locks, LockFails
<1>2. (\A q, r \in Process : Holds(q) /\ Holds(r) /\ host[q] = host[r] => q = r)'
  <2>1. CASE Locks(p)
    BY <1>0, <1>1, <2>1, Excluded DEF Locks
  <2>2. CASE LockFails(p)
    BY <1>0, <1>1, <2>2, Excluded DEF LockFails, Holds
  <2> QED
    BY <2>1, <2>2
<1>3. TypeOK'
  BY <1>0, <1>2 DEF Locks, LockFails, TypeOK, Goes
<1> QED
  BY <1>1, <1>3, Unlocked DEF Locks, LockFails, IInv, FileStays

\* The merge takes every change of its own, and the rest from the file.
LEMMA MergesInv == ASSUME IInv, NEW p \in Process, Merges(p) PROVE IInv'
<1> USE DEF disk, memory, counts, history
<1> DEFINE theirs == IF file = Torn THEN bak ELSE file
           doc == IF theirs \in Doc THEN merge_map(Known(base[p]), mine[p], theirs) ELSE mine[p]
<1>0. TypeOK
  BY DEF IInv
<1>1. at[p] = "locked" /\ at'[p] = "write" /\ \A q \in Process : q # p => at'[q] = at[q]
  BY <1>0, GoesTo DEF Merges
<1>2. mine[p] \in Doc /\ Known(base[p]) \in Doc
  BY <1>0, KnownDoc DEF TypeOK
<1>3. doc \in Doc
  BY <1>2, MergeMap
<1>4. \A k \in Key :
        /\ Changed(p, k) => doc[k] = mine[p][k]
        /\ ~Changed(p, k) /\ ~damaged => doc[k] = Known(file)[k]
  <2>1. CASE theirs \in Doc
    <3>1. \A k \in Key : IF Changed(p, k) THEN doc[k] = mine[p][k] ELSE doc[k] = theirs[k]
      BY <1>2, <2>1, MergeMap DEF Changed
    <3>2. ~damaged => theirs = file /\ Known(file) = file
      BY <2>1, KnownDoc DEF IInv, TornIsDamage
    <3> QED
      BY <3>1, <3>2
  <2>2. CASE theirs \notin Doc
    <3>1. doc = mine[p]
      BY <2>2
    <3>2. ~damaged => file = NoDoc
      BY <1>0, <2>2 DEF IInv, TornIsDamage, TypeOK
    <3>3. ~damaged => Known(base[p]) = Known(file)
      BY <1>0, <3>2, DocsAssumption DEF IInv, FileStays
    <3> QED
      BY <3>1, <3>3 DEF Changed
  <2> QED
    BY <2>1, <2>2
<1>5. /\ out' \in [Process -> Doc] /\ out'[p] = doc
      /\ \A q \in Process : q # p => out'[q] = out[q]
  BY <1>0, <1>3 DEF Merges, TypeOK
<1>6. /\ raced' \in [Process -> BOOLEAN] /\ raced'[p] = FALSE
      /\ \A q \in Process : q # p => raced'[q] = raced[q]
  BY <1>0 DEF Merges, TypeOK
<1>7. (\A q, r \in Process : Holds(q) /\ Holds(r) /\ host[q] = host[r] => q = r)'
  BY <1>0, <1>1, Excluded DEF Merges, Holds, Saving
<1>8. TypeOK'
  BY <1>0, <1>5, <1>6, <1>7 DEF Merges, TypeOK, Goes
<1>9. OutMerges'
  BY <1>1, <1>4, <1>5, <1>6 DEF Merges, IInv, OutMerges, Written, Changed
<1>10. FileStays' /\ TornIsDamage' /\ BackupWhole' /\ OneCopyWhole'
  BY <1>1 DEF Merges, IInv, FileStays, TornIsDamage, BackupWhole, OneCopyWhole
<1> QED
  BY <1>8, <1>9, <1>10 DEF IInv

\* A fault is the first one, or more than one was.
LEMMA FaultCounts ==
    ASSUME TypeOK, Fault PROVE faults' \in Nat /\ faults' > 0 /\ (faults' <= 1 => faults = 0)
  BY DEF TypeOK, Fault

\* Up to the first fault the file is whole as soon as there is a backup of it.
LEMMA WholeBefore ==
    ASSUME IInv, faults = 0, bak # NoDoc PROVE file \in Doc
  BY DEF IInv, TypeOK, FileStays, TornIsDamage

LEMMA WriteFailsInv == ASSUME IInv, NEW p \in Process, WriteFails(p) PROVE IInv'
<1> USE DEF disk, memory, counts, history
<1>0. TypeOK
  BY DEF IInv
<1>1. at[p] = "write" /\ at'[p] = "idle" /\ \A q \in Process : q # p => at'[q] = at[q]
  BY <1>0, GoesTo DEF WriteFails
<1>2. out' \in [Process -> Doc] /\ \A q \in Process : q # p => out'[q] = out[q]
  BY <1>0, EmptyDoc DEF WriteFails, TypeOK
<1>3. (\A q, r \in Process : Holds(q) /\ Holds(r) /\ host[q] = host[r] => q = r)'
  BY <1>0, <1>1, Excluded DEF WriteFails, Holds, Saving
<1>4. faults' \in Nat /\ faults' > 0 /\ (faults' <= 1 => faults = 0)
  BY <1>0, FaultCounts DEF WriteFails
<1>5. TypeOK'
  BY <1>0, <1>2, <1>3, <1>4 DEF WriteFails, TypeOK, Goes
<1>6. OneCopyWhole'
  BY <1>4, WholeBefore DEF WriteFails, OneCopyWhole
<1>7. OutMerges'
  BY <1>1, <1>2 DEF WriteFails, IInv, OutMerges, Written, Changed
<1>8. FileStays' /\ TornIsDamage' /\ BackupWhole'
  BY <1>1, <1>4 DEF WriteFails, IInv, FileStays, TornIsDamage, BackupWhole
<1> QED
  BY <1>5, <1>6, <1>7, <1>8 DEF IInv

LEMMA WritesInv == ASSUME IInv, NEW p \in Process, Writes(p) PROVE IInv'
<1> USE DEF disk, memory, counts, history
<1>0. TypeOK
  BY DEF IInv
<1>1. /\ at[p] = "write" /\ at'[p] = (IF file = NoDoc THEN "replace" ELSE "backup")
      /\ \A q \in Process : q # p => at'[q] = at[q]
  BY <1>0, GoesTo DEF Writes
<1>2. (\A q, r \in Process : Holds(q) /\ Holds(r) /\ host[q] = host[r] => q = r)'
  BY <1>0, <1>1, Excluded DEF Writes, Holds, Saving
<1>3. at' \in [Process -> Places]
  BY <1>0 DEF Writes, TypeOK, Goes, Places
<1>4. TypeOK'
  BY <1>0, <1>2, <1>3 DEF Writes, TypeOK, Places
<1>5. OutMerges'
  BY <1>1 DEF Writes, IInv, OutMerges, Written, Changed
<1>6. FileStays' /\ TornIsDamage' /\ BackupWhole' /\ OneCopyWhole'
  BY <1>1 DEF Writes, IInv, FileStays, TornIsDamage, BackupWhole, OneCopyWhole
<1> QED
  BY <1>4, <1>5, <1>6 DEF IInv

\* While the backup is copied the save goes on: it holds the third copy.
LEMMA CopyInv == ASSUME IInv, NEW p \in Process, CopyStarts(p) \/ CopyEnds(p) PROVE IInv'
<1> USE DEF disk, memory, counts, history
<1>0. TypeOK
  BY DEF IInv
<1>1. /\ at[p] \in {"backup", "copying"} /\ at'[p] \in {"copying", "replace"}
      /\ CopyStarts(p) => at'[p] = "copying"
      /\ \A q \in Process : q # p => at'[q] = at[q]
  BY <1>0, GoesTo DEF CopyStarts, CopyEnds
<1>2. file # NoDoc
  BY <1>1 DEF IInv, FileStays
<1>3. (\A q, r \in Process : Holds(q) /\ Holds(r) /\ host[q] = host[r] => q = r)'
  BY <1>0, <1>1, Excluded DEF CopyStarts, CopyEnds, Holds, Saving
<1>4. /\ bak' \in Doc \cup {NoDoc, Torn} /\ faults' \in Nat
      /\ \/ faults' = faults
         \/ faults' > 0 /\ bak' = bak
      /\ CopyEnds(p) /\ faults' = faults => bak' = file
  BY <1>0, FaultCounts DEF CopyStarts, CopyEnds, TypeOK, Fault
<1>5. TypeOK'
  BY <1>0, <1>3, <1>4 DEF CopyStarts, CopyEnds, TypeOK, Goes
<1>6. OneCopyWhole'
  BY <1>1 DEF OneCopyWhole
<1>7. OutMerges'
  BY <1>1 DEF CopyStarts, CopyEnds, IInv, OutMerges, Written, Changed
<1>8. FileStays'
  BY <1>1, <1>2 DEF CopyStarts, CopyEnds, IInv, FileStays
<1>9. faults' >= faults /\ faults \in Nat
  BY <1>0, FaultCounts DEF CopyStarts, CopyEnds, TypeOK, Fault
<1>10. TornIsDamage'
  BY <1>4, <1>9 DEF CopyStarts, CopyEnds, IInv, TornIsDamage
<1>11. BackupWhole'
  <2>1. CASE CopyStarts(p)
    BY <1>1, <2>1 DEF BackupWhole
  <2>2. CASE CopyEnds(p)
    <3> SUFFICES ASSUME faults' = 0 PROVE bak' # Torn
      BY DEF BackupWhole
    <3>1. faults = 0 /\ faults' = faults
      BY <1>4, <1>9
    <3> QED
      BY <1>4, <2>2, <3>1 DEF IInv, TornIsDamage
  <2> QED
    BY <2>1, <2>2
<1> QED
  BY <1>5, <1>6, <1>7, <1>8, <1>10, <1>11 DEF IInv

\* os.replace: whoever else holds the lock is on another machine, and the saves that
\* the lock does not keep out are overtaken.
LEMMA ReplacesInv == ASSUME IInv, NEW p \in Process, Replaces(p) PROVE IInv'
<1> USE DEF disk, memory, counts, history
<1>0. TypeOK
  BY DEF IInv
<1>1. at[p] = "replace" /\ at'[p] = "settle" /\ \A q \in Process : q # p => at'[q] = at[q]
  BY <1>0, GoesTo DEF Replaces
<1>2. file' = out[p] /\ file' \in Doc /\ file' # NoDoc /\ file' # Torn
  BY <1>0, DocsAssumption DEF Replaces, TypeOK
<1>3. (\A q, r \in Process : Holds(q) /\ Holds(r) /\ host[q] = host[r] => q = r)'
  BY <1>0, <1>1, Excluded DEF Replaces, Holds, Saving
<1>4. raced' \in [Process -> BOOLEAN] /\ missed' \in [Process -> BOOLEAN]
      /\ \A q \in Process : raced'[q] = (raced[q] \/ (q \in OutOfLock(p) /\ Saving(q)))
  BY <1>0 DEF Replaces, Overtakes, TypeOK
<1>5. TypeOK'
  BY <1>0, <1>2, <1>3, <1>4 DEF Replaces, TypeOK, Goes
<1>6. OutMerges'
  <2> SUFFICES ASSUME NEW q \in Process, Written(q)', NEW k \in Key
               PROVE  /\ Changed(q, k) => out[q][k] = mine[q][k]
                      /\ ~Changed(q, k) /\ ~raced'[q] /\ ~damaged => FALSE
    BY DEF OutMerges, Replaces, Changed
  <2>1. q # p /\ Written(q)
    BY <1>1 DEF Written
  <2>2. Saving(p) /\ Saving(q)
    BY <1>1, <2>1 DEF Saving, Written
  <2>3. q \in OutOfLock(p)
    BY <1>0, <2>1, <2>2 DEF TypeOK, Holds, OutOfLock
  <2>4. raced'[q]
    BY <1>4, <2>2, <2>3
  <2> QED
    BY <2>1, <2>4 DEF IInv, OutMerges, Changed
<1>7. FileStays' /\ TornIsDamage' /\ OneCopyWhole'
  BY <1>2 DEF FileStays, TornIsDamage, OneCopyWhole
<1>8. BackupWhole'
  BY <1>1 DEF Replaces, IInv, BackupWhole
<1> QED
  BY <1>5, <1>6, <1>7, <1>8 DEF IInv

LEMMA SettlesInv == ASSUME IInv, NEW p \in Process, Settles(p) PROVE IInv'
<1> USE DEF disk, memory, counts, history
<1>0. TypeOK
  BY DEF IInv
<1>1. at[p] = "settle" /\ at'[p] = "idle" /\ \A q \in Process : q # p => at'[q] = at[q]
  BY <1>0, GoesTo DEF Settles
<1>2. out[p] \in Doc /\ file # NoDoc
  BY <1>0, <1>1 DEF TypeOK, IInv, FileStays
<1>3. base' \in [Process -> Doc \cup {NoDoc}] /\ mine' \in [Process -> Doc]
      /\ stamp' \in [Process -> Nat]
      /\ \A q \in Process : q # p => mine'[q] = mine[q] /\ base'[q] = base[q]
  BY <1>0, <1>2 DEF Settles, Adopts, TypeOK
<1>4. out' \in [Process -> Doc] /\ raced' \in [Process -> BOOLEAN]
      /\ \A q \in Process : q # p => out'[q] = out[q] /\ raced'[q] = raced[q]
  BY <1>0, EmptyDoc DEF Settles, TypeOK
<1>5. (\A q, r \in Process : Holds(q) /\ Holds(r) /\ host[q] = host[r] => q = r)'
  BY <1>0, <1>1, Excluded DEF Settles, Holds, Saving
<1>6. TypeOK'
  BY <1>0, <1>3, <1>4, <1>5 DEF Settles, TypeOK, Goes
<1>7. OutMerges'
  BY <1>1, <1>3, <1>4 DEF Settles, IInv, OutMerges, Written, Changed
<1>8. FileStays' /\ TornIsDamage' /\ BackupWhole' /\ OneCopyWhole'
  BY <1>1, <1>2, <1>3 DEF Settles, IInv, FileStays, TornIsDamage, BackupWhole, OneCopyWhole
<1> QED
  BY <1>6, <1>7, <1>8 DEF IInv

-----------------------------------------------------------------------------
(* Faults.                                                                  *)

LEMMA CrashInv == ASSUME IInv, NEW p \in Process, Crash(p) PROVE IInv'
<1> USE DEF disk, memory, counts, history
<1>0. TypeOK
  BY DEF IInv
<1>1. at'[p] = "read" /\ \A q \in Process : q # p => at'[q] = at[q]
  BY <1>0, GoesTo DEF Crash
<1>2. /\ mine' \in [Process -> Doc] /\ out' \in [Process -> Doc]
      /\ base' \in [Process -> Doc \cup {NoDoc}] /\ base'[p] = NoDoc
      /\ stamp' \in [Process -> Nat] /\ seen' \in [Process -> Nat]
      /\ raced' \in [Process -> BOOLEAN] /\ missed' \in [Process -> BOOLEAN]
      /\ todo' \in [Process -> {NoEdit} \cup (Key \X (Value \cup {NoValue}))]
  BY <1>0, EmptyDoc DEF Crash, TypeOK, NoStamp
<1>3. \A q \in Process : q # p =>
        mine'[q] = mine[q] /\ base'[q] = base[q] /\ out'[q] = out[q] /\ raced'[q] = raced[q]
  BY <1>0 DEF Crash, TypeOK
<1>4. (\A q, r \in Process : Holds(q) /\ Holds(r) /\ host[q] = host[r] => q = r)'
  BY <1>0, <1>1, Excluded DEF Crash, Holds, Saving
<1>5. faults' \in Nat /\ faults' > 0 /\ (faults' <= 1 => faults = 0)
  BY <1>0, FaultCounts DEF Crash
<1>6. TypeOK'
  BY <1>0, <1>2, <1>4, <1>5 DEF Crash, TypeOK, Goes
<1>7. OneCopyWhole'
  BY <1>5, WholeBefore DEF Crash, OneCopyWhole
<1>8. OutMerges'
  BY <1>1, <1>3 DEF Crash, IInv, OutMerges, Written, Changed
<1>9. FileStays' /\ TornIsDamage' /\ BackupWhole'
  BY <1>1, <1>2, <1>3, <1>5 DEF Crash, IInv, FileStays, TornIsDamage, BackupWhole
<1> QED
  BY <1>6, <1>7, <1>8, <1>9 DEF IInv

LEMMA DamageInv == IInv /\ Damage => IInv'
<1> SUFFICES ASSUME IInv, Damage PROVE IInv'
  OBVIOUS
<1> USE DEF disk, memory, counts, history
<1>0. TypeOK
  BY DEF IInv
<1>1. raced' \in [Process -> BOOLEAN] /\ missed' \in [Process -> BOOLEAN]
  BY <1>0 DEF Damage, Overtakes, TypeOK
<1>2. faults' \in Nat /\ faults' > 0 /\ (faults' <= 1 => faults = 0)
  BY <1>0, FaultCounts DEF Damage
<1>3. TypeOK'
  BY <1>0, <1>1, <1>2 DEF Damage, TypeOK, Holds, Saving
<1>4. OneCopyWhole'
  BY <1>0, <1>2 DEF Damage, IInv, OneCopyWhole, BackupWhole, TypeOK
<1>5. OutMerges'
  BY DEF Damage, IInv, OutMerges, Written, Changed
<1>6. FileStays' /\ TornIsDamage' /\ BackupWhole'
  BY <1>2, DocsAssumption DEF Damage, IInv, FileStays, TornIsDamage, BackupWhole
<1> QED
  BY <1>3, <1>4, <1>5, <1>6 DEF IInv

-----------------------------------------------------------------------------
LEMMA StepInv == IInv /\ [Next]_vars => IInv'
<1> SUFFICES ASSUME IInv, [Next]_vars PROVE IInv'
  OBVIOUS
<1>1. CASE UNCHANGED vars
  <2> USE DEF vars, disk, memory, counts, history
  <2>1. TypeOK'
    BY <1>1 DEF IInv, TypeOK, Holds, Saving
  <2>2. OutMerges'
    BY <1>1 DEF IInv, OutMerges, Written, Changed
  <2> QED
    BY <1>1, <2>1, <2>2 DEF IInv, FileStays, TornIsDamage, BackupWhole, OneCopyWhole
<1> QED
  BY <1>1, RefreshInv, LocksInv, MergesInv, WriteFailsInv, WritesInv, CopyInv, ReplacesInv,
     SettlesInv, CrashInv, DamageInv DEF Next, Save

LEMMA Invariance == Spec => []IInv
  BY InitInv, StepInv, PTL DEF Spec

(***************************************************************************)
(* The types of SharedJson's fields, and that of the processes of one      *)
(* machine that got flock one is in save() at a time.                      *)
(***************************************************************************)
THEOREM TypeCorrect == Spec => []TypeOK
<1>1. IInv => TypeOK
  BY DEF IInv
<1> QED
  BY <1>1, Invariance, PTL

(***************************************************************************)
(* _write: one crash, one failing copy or one damaged file never costs     *)
(* both the file and its .bak.                                             *)
(***************************************************************************)
THEOREM CopyKept == Spec => []OneCopyWhole
<1>1. IInv => OneCopyWhole
  BY DEF IInv
<1> QED
  BY <1>1, Invariance, PTL

(***************************************************************************)
(* save(): what is written has every change of the process, and the other  *)
(* items as the file has them at that moment, for any number of processes  *)
(* that look, edit, save and crash in any order; a save that flock does    *)
(* not keep apart from it, on another machine or without the lock, is the  *)
(* one exception that is no damage.                                        *)
(***************************************************************************)
THEOREM SavesMerge == Spec => SaveMerges
<1> DEFINE Merged ==
      \A p \in Process : at[p] = "replace" /\ at'[p] = "settle" =>
          \A k \in Key : CASE Changed(p, k) -> file'[k] = mine[p][k]
                           [] raced[p] \/ damaged -> TRUE
                           [] OTHER -> file'[k] = Known(file)[k]
<1>1. ASSUME IInv, Next PROVE Merged
  <2> SUFFICES ASSUME NEW p \in Process, at[p] = "replace", at'[p] = "settle", NEW k \in Key
               PROVE  CASE Changed(p, k) -> file'[k] = mine[p][k]
                        [] raced[p] \/ damaged -> TRUE
                        [] OTHER -> file'[k] = Known(file)[k]
    OBVIOUS
  <2>1. \A q \in Process, to \in Places : Goes(q, to) => q = p
    BY <1>1 DEF IInv, TypeOK, Goes
  <2>2. \A to \in Places : Goes(p, to) => to = "settle"
    BY <1>1 DEF IInv, TypeOK, Goes
  <2>3. Replaces(p)
    BY <1>1, <2>1, <2>2 DEF Next, Refresh, Save, Call, Looks, Stamps, Reads, Edits, Locks, LockFails,
       Merges, WriteFails, Writes, CopyStarts, CopyEnds, Replaces, Settles, Crash, Damage, Places
  <2>4. /\ Changed(p, k) => out[p][k] = mine[p][k]
        /\ ~Changed(p, k) /\ ~raced[p] /\ ~damaged => out[p][k] = Known(file)[k]
    BY <1>1 DEF IInv, OutMerges, Written, Changed
  <2>5. file' = out[p]
    BY <2>3 DEF Replaces
  <2> QED
    BY <2>4, <2>5
<1>2. IInv /\ [Next]_vars => [Merged]_vars
  BY <1>1
<1> QED
  BY <1>2, Invariance, PTL DEF Spec, SaveMerges

-----------------------------------------------------------------------------
(***************************************************************************)
(* ServerPool.  A server that recovered answers every request quickly: a   *)
(* thread can put it into a cooldown only with an answer it had met before *)
(* (BadIn), and meets no other one.                                        *)
(***************************************************************************)
PoolInv == recovered \subseteq Pool!Server /\ cooling \in [Pool!Server -> BOOLEAN]

\* Something is met where a request was sent.
MetWhere ==
    \A t \in Thread : met[t] # Pool!Nothing => thread[t] \in {"call", "check", "warm", "count"}
UseInv ==
    PoolInv /\ DOMAIN thread = Thread /\ DOMAIN order = Thread /\ DOMAIN met = Thread /\ MetWhere

BadIn(t, i) == (thread[t] = "count" \/ met[t] \in {"dead", "cpu", "slow"}) /\ Pool!At(t) = i

LEMMA PoolInit == Pool!Init => PoolInv
  BY DEF Pool!Init, PoolInv

\* What a mark makes of the cooldowns.
LEMMA MarkCools ==
    ASSUME PoolInv, NEW i, NEW s, Pool!Mark(i, s)
    PROVE  /\ cooling' \in [Pool!Server -> BOOLEAN]
           /\ \A j \in Pool!Server :
                 cooling'[j] = IF j = i THEN s \in {"slow", "down"} ELSE cooling[j]
<1> DEFINE cools == s \in {"slow", "down"}
<1>1. cools \in BOOLEAN /\ cooling' = [cooling EXCEPT ![i] = cools]
  BY DEF Pool!Mark
<1> HIDE DEF cools
<1>2. /\ cooling' \in [Pool!Server -> BOOLEAN]
      /\ \A j \in Pool!Server : cooling'[j] = IF j = i THEN cools ELSE cooling[j]
  BY <1>1 DEF PoolInv
<1>3. QED
  BY <1>2 DEF cools

\* What a thread does on its own.
ThreadMoves(t) ==
    \/ Pool!Begin(t) \/ Pool!Ping(t) \/ Pool!Proceeds(t)
    \/ \E i \in Pool!Server : Pool!WarmStarts(t, i)

\* No step of a thread lets a server recover, and it puts one into a cooldown only with
\* a bad answer in hand.
LEMMA ThreadCools ==
    ASSUME PoolInv, NEW t \in Thread, ThreadMoves(t)
    PROVE  /\ recovered' = recovered /\ cooling' \in [Pool!Server -> BOOLEAN]
           /\ \A i \in Pool!Server : ~cooling[i] /\ ~BadIn(t, i) => ~cooling'[i]
<1> DEFINE Good ==
        /\ recovered' = recovered /\ cooling' \in [Pool!Server -> BOOLEAN]
        /\ \A i \in Pool!Server : ~cooling[i] /\ ~BadIn(t, i) => ~cooling'[i]
<1>1. ASSUME UNCHANGED <<recovered, cooling>> PROVE Good
  BY <1>1 DEF PoolInv
<1>2. ASSUME NEW s, Pool!Mark(Pool!At(t), s), recovered' = recovered,
             s \notin {"slow", "down"} \/ BadIn(t, Pool!At(t))
      PROVE  Good
  BY <1>2, MarkCools DEF PoolInv, BadIn
<1>3. CASE Pool!Begin(t) \/ Pool!Ping(t) \/ Pool!Ordered(t) \/ Pool!Meets(t) \/ Pool!Raises(t)
             \/ (\E n \in 1 .. 2 * MaxServers : Pool!ReadUntil(t, n))
             \/ (\E i \in Pool!Server : Pool!WarmStarts(t, i))
             \/ Pool!NoneFine(t) \/ Pool!CheckCloud(t) \/ Pool!CheckReads(t)
             \/ Pool!AnswersSlowly(t) \/ Pool!SlowOnce(t)
  <2>1. UNCHANGED <<recovered, cooling>>
    BY <1>3 DEF Pool!Begin, Pool!Ping, Pool!ReadUntil, Pool!Ordered, Pool!Meets, Pool!Raises,
       Pool!WarmStarts, Pool!NoneFine, Pool!CheckCloud, Pool!CheckReads, Pool!AnswersSlowly,
       Pool!SlowOnce, Pool!conf, Pool!state
  <2>2. QED
    BY <1>1, <2>1
<1>4. CASE \/ Pool!Fails(t) \/ Pool!CheckFails(t) \/ Pool!AnswersFromCpu(t)
           \/ Pool!CheckFindsCpu(t) \/ Pool!SlowAgain(t)
  <2>1. /\ BadIn(t, Pool!At(t)) /\ recovered' = recovered
        /\ \E s \in {"slow", "down"} : Pool!Mark(Pool!At(t), s)
    BY <1>4 DEF Pool!Fails, Pool!CheckFails, Pool!AnswersFromCpu, Pool!CheckFindsCpu,
       Pool!SlowAgain, Pool!Calls, Pool!Checks, Pool!conf, BadIn
  <2>2. QED
    BY <1>2, <2>1
<1>5. CASE Pool!AnswersQuickly(t) \/ Pool!AnswersLongly(t) \/ Pool!CheckMarks(t)
  BY <1>2, <1>5 DEF Pool!AnswersQuickly, Pool!AnswersLongly, Pool!CheckMarks, Pool!conf
<1>6. CASE Pool!WarmEnds(t)
  <2> DEFINE s == CASE met[t] = "dead" -> "down" [] met[t] = "cpu" -> "slow" [] OTHER -> "ok"
  <2>1. Pool!Mark(Pool!At(t), s) /\ recovered' = recovered
    BY <1>6 DEF Pool!WarmEnds, Pool!conf
  <2>2. s \notin {"slow", "down"} \/ BadIn(t, Pool!At(t))
    BY DEF BadIn
  <2> HIDE DEF s
  <2>3. QED
    BY <1>2, <2>1, <2>2
<1>7. QED
  BY <1>3, <1>4, <1>5, <1>6 DEF ThreadMoves, Pool!Proceeds

\* A step of the environment.
LEMMA OtherStep ==
    ASSUME PoolInv, NEW i \in Pool!Server, Pool!Recovers(i) \/ Pool!Expires(i)
    PROVE  PoolInv' /\ \A j \in Pool!Server : ~cooling[j] => ~cooling'[j]
<1>1. CASE Pool!Recovers(i)
  BY <1>1 DEF PoolInv, Pool!Recovers, Pool!state
<1>2. CASE Pool!Expires(i)
  BY <1>2 DEF PoolInv, Pool!Expires, Pool!conf
<1>3. QED
  BY <1>1, <1>2

LEMMA PoolStep == ASSUME PoolInv, [Pool!Next]_(Pool!vars) PROVE PoolInv'
<1>1. ASSUME NEW t \in Thread, ThreadMoves(t) PROVE PoolInv'
  BY <1>1, ThreadCools DEF PoolInv
<1>2. CASE UNCHANGED Pool!vars
  BY <1>2 DEF PoolInv, Pool!vars, Pool!conf, Pool!state
<1>3. QED
  BY <1>1, <1>2, OtherStep DEF Pool!Next, ThreadMoves

\* Where a thread goes it has met nothing yet.
LEMMA GoesClean ==
    ASSUME UseInv, NEW t \in Thread, NEW to, NEW servs, Pool!Goes(t, to, servs), to # "count"
    PROVE  /\ DOMAIN thread' = Thread /\ DOMAIN order' = Thread /\ DOMAIN met' = Thread
           /\ \A u \in Thread : u # t => /\ thread'[u] = thread[u] /\ order'[u] = order[u]
                                         /\ met'[u] = met[u]
           /\ thread'[t] # "count" /\ met'[t] = Pool!Nothing
  BY DEF UseInv, Pool!Goes

\* A thread meets no bad answer of a server that recovered.
LEMMA ThreadMeets ==
    ASSUME UseInv, NEW t \in Thread, ThreadMoves(t)
    PROVE  /\ DOMAIN thread' = Thread /\ DOMAIN order' = Thread /\ DOMAIN met' = Thread
           /\ MetWhere'
           /\ \A i \in recovered : \A u \in Thread : BadIn(u, i)' => BadIn(u, i)
<1> DEFINE Good ==
        /\ DOMAIN thread' = Thread /\ DOMAIN order' = Thread /\ DOMAIN met' = Thread
        /\ MetWhere'
        /\ \A i \in recovered : \A u \in Thread : BadIn(u, i)' => BadIn(u, i)
<1>1. ASSUME NEW to, NEW servs, Pool!Goes(t, to, servs), to # "count" PROVE Good
  BY <1>1, GoesClean DEF UseInv, MetWhere, BadIn, Pool!At, Pool!Nothing
<1>2. CASE \E n \in 1 .. 2 * MaxServers : Pool!ReadUntil(t, n)
  <2>1. /\ thread[t] = "order" /\ thread' = thread /\ met' = met /\ DOMAIN order' = Thread
        /\ \A u \in Thread : u # t => order'[u] = order[u]
    BY <1>2 DEF Pool!ReadUntil, Pool!Reads, UseInv
  <2>2. met[t] = Pool!Nothing
    BY <2>1 DEF UseInv, MetWhere
  <2>3. QED
    BY <2>1, <2>2 DEF UseInv, MetWhere, BadIn, Pool!At, Pool!Nothing
<1>3. CASE Pool!Meets(t)
  <2>1. PICK h \in Pool!Health(Pool!At(t)) : met' = [met EXCEPT ![t] = h]
    BY <1>3 DEF Pool!Meets
  <2>2. thread' = thread /\ order' = order /\ thread[t] \in {"call", "check", "warm"}
    BY <1>3 DEF Pool!Meets, Pool!Asks
  <2>3. Pool!At(t) \in recovered => h = "quick"
    BY <2>1 DEF Pool!Health
  <2>4. DOMAIN met' = Thread /\ met'[t] = h /\ \A u \in Thread : u # t => met'[u] = met[u]
    BY <2>1 DEF UseInv
  <2>5. \A i \in recovered : \A u \in Thread : BadIn(u, i)' => BadIn(u, i)
    BY <2>2, <2>3, <2>4 DEF BadIn, Pool!At
  <2>6. QED
    BY <2>2, <2>4, <2>5 DEF UseInv, MetWhere
<1>4. CASE Pool!AnswersSlowly(t)
  <2>1. /\ met[t] = "slow" /\ met' = met /\ order' = order
        /\ thread' = [thread EXCEPT ![t] = "count"]
    BY <1>4 DEF Pool!AnswersSlowly, Pool!Calls
  <2>2. QED
    BY <2>1 DEF UseInv, MetWhere, BadIn, Pool!At
<1>5. CASE \/ Pool!Begin(t) \/ Pool!Ping(t) \/ Pool!Ordered(t) \/ Pool!Raises(t)
           \/ (\E i \in Pool!Server : Pool!WarmStarts(t, i))
           \/ Pool!Fails(t) \/ Pool!AnswersQuickly(t) \/ Pool!AnswersFromCpu(t)
           \/ Pool!AnswersLongly(t) \/ Pool!SlowAgain(t) \/ Pool!SlowOnce(t)
           \/ Pool!NoneFine(t) \/ Pool!CheckCloud(t) \/ Pool!CheckFails(t)
           \/ Pool!CheckFindsCpu(t) \/ Pool!CheckReads(t) \/ Pool!CheckMarks(t)
           \/ Pool!WarmEnds(t)
  <2>1. \E to \in {"idle", "order", "call", "check", "works", "warm"} :
           \E servs : Pool!Goes(t, to, servs)
    BY <1>5 DEF Pool!Begin, Pool!Ping, Pool!Ordered, Pool!Raises, Pool!WarmStarts, Pool!Fails,
       Pool!AnswersQuickly, Pool!AnswersFromCpu, Pool!AnswersLongly, Pool!SlowAgain,
       Pool!SlowOnce, Pool!NoneFine, Pool!CheckCloud, Pool!CheckFails, Pool!CheckFindsCpu,
       Pool!CheckReads, Pool!CheckMarks, Pool!WarmEnds, Pool!Ends, Pool!GoesOn
  <2>2. QED
    BY <1>1, <2>1
<1>6. QED
  BY <1>2, <1>3, <1>4, <1>5 DEF ThreadMoves, Pool!Proceeds

LEMMA UseStep ==
    ASSUME UseInv, [Pool!Next]_(Pool!vars)
    PROVE  UseInv' /\ \A i \in Pool!Server : Pool!InUse(i) => Pool!InUse(i)'
<1>0. \A i : Pool!BadAnswerPending(i) <=> \E t \in Thread : BadIn(t, i)
  BY DEF Pool!BadAnswerPending, BadIn
<1>00. \A i : Pool!BadAnswerPending(i)' <=> \E t \in Thread : BadIn(t, i)'
  BY DEF Pool!BadAnswerPending, BadIn
<1>1. PoolInv'
  BY PoolStep DEF UseInv
<1>2. ASSUME NEW t \in Thread, ThreadMoves(t)
      PROVE  UseInv' /\ \A i \in Pool!Server : Pool!InUse(i) => Pool!InUse(i)'
  <2>1. /\ recovered' = recovered
        /\ \A i \in Pool!Server : ~cooling[i] /\ ~BadIn(t, i) => ~cooling'[i]
    BY <1>2, ThreadCools DEF UseInv
  <2>2. UseInv'
    BY <1>1, <1>2, ThreadMeets DEF UseInv
  <2>3. \A i \in recovered : \A u \in Thread : BadIn(u, i)' => BadIn(u, i)
    BY <1>2, ThreadMeets
  <2>4. QED
    BY <1>0, <1>00, <2>1, <2>2, <2>3 DEF Pool!InUse
<1>3. ASSUME UNCHANGED <<thread, order, met>>, recovered \subseteq recovered',
             \A j \in Pool!Server : ~cooling[j] => ~cooling'[j]
      PROVE  UseInv' /\ \A i \in Pool!Server : Pool!InUse(i) => Pool!InUse(i)'
  <2>1. UseInv'
    BY <1>1, <1>3 DEF UseInv, MetWhere
  <2>2. \A i : Pool!BadAnswerPending(i)' <=> Pool!BadAnswerPending(i)
    BY <1>3 DEF Pool!BadAnswerPending, Pool!At
  <2>3. QED
    BY <1>3, <2>1, <2>2 DEF Pool!InUse
<1>4. ASSUME NEW i \in Pool!Server, Pool!Recovers(i) \/ Pool!Expires(i)
      PROVE  UNCHANGED <<thread, order, met>> /\ recovered \subseteq recovered'
  BY <1>4 DEF Pool!Recovers, Pool!Expires, Pool!conf
<1>5. CASE UNCHANGED Pool!vars
  BY <1>3, <1>5 DEF Pool!vars, Pool!conf, Pool!state
<1>6. ASSUME NEW i \in Pool!Server, Pool!Recovers(i) \/ Pool!Expires(i)
      PROVE  UseInv' /\ \A j \in Pool!Server : Pool!InUse(j) => Pool!InUse(j)'
  <2>1. \A j \in Pool!Server : ~cooling[j] => ~cooling'[j]
    BY <1>6, OtherStep DEF UseInv
  <2>2. QED
    BY <1>3, <1>4, <1>6, <2>1
<1>7. QED
  BY <1>2, <1>5, <1>6 DEF Pool!Next, ThreadMoves

(***************************************************************************)
(* The pool returns to a server that works again, and stays with it as     *)
(* soon as the bad answers met before are marked: for any number of        *)
(* threads and servers and any configuration of them.                      *)
(***************************************************************************)
THEOREM RecoveredStays == Pool!Spec => RecoveredStaysUsed
<1>1. Pool!Init => UseInv
  BY PoolInit DEF Pool!Init, UseInv, MetWhere
<1>2. UseInv /\ [Pool!Next]_(Pool!vars) => UseInv'
  BY UseStep
<1>3. UseInv /\ [Pool!Next]_(Pool!vars) =>
         [\A i \in Pool!Server : Pool!InUse(i) => Pool!InUse(i)']_(Pool!vars)
  BY UseStep
<1>4. QED
  BY <1>1, <1>2, <1>3, PTL DEF Pool!Spec, RecoveredStaysUsed, Pool!RecoveredStaysUsed

(***************************************************************************)
(* order().  What it has listed so far: of the servers that nobody marked  *)
(* meanwhile, each one whose place in the two lists has been read, and     *)
(* they stand in the order of their places.                                *)
(***************************************************************************)
Left(t) == Pool!Enabled \ touched[t]
Place(t, i) == IF i \in cold[t] THEN i + Len(servers) ELSE i

OrderSoFar(t) ==
    /\ order[t] \in Seq(Pool!Enabled)
    /\ \A i \in Left(t) : Pool!InCooldown(t, i) <=> i \in cold[t]
    /\ \A i \in Left(t) :
          Place(t, i) <= reads[t] => \E k \in 1..Len(order[t]) : order[t][k] = i
    /\ \A k \in 1..Len(order[t]) :
          order[t][k] \in Left(t) => Place(t, order[t][k]) <= reads[t]
    /\ \A k, l \in 1..Len(order[t]) :
          k < l /\ order[t][k] \in Left(t) /\ order[t][l] \in Left(t)
          => Place(t, order[t][k]) < Place(t, order[t][l])

OrderInv ==
    /\ PoolInv /\ servers \in Pools
    /\ DOMAIN thread = Thread /\ DOMAIN order = Thread
    /\ reads \in [Thread -> Nat]
    /\ ranOut \in [Thread -> SUBSET Pool!Server]
    /\ cold \in [Thread -> SUBSET Pool!Server] /\ DOMAIN touched = Thread
    /\ \A t \in Thread : IF thread[t] = "order" THEN OrderSoFar(t)
                         ELSE /\ reads[t] = 0 /\ ranOut[t] = {}
                              /\ cold[t] = {} /\ touched[t] = {}

LEMMA ServersTyped ==
    ASSUME servers \in Pools
    PROVE  /\ servers \in Seq(STRING) /\ Len(servers) \in Nat /\ Len(servers) <= MaxServers
           /\ Pool!Enabled \subseteq Pool!Server /\ Pool!Enabled \subseteq 1..Len(servers)
           /\ Pool!Server \subseteq Nat
<1>1. servers \in Seq(STRING) /\ Len(servers) <= MaxServers /\ MaxServers \in Nat
  BY PoolsAssumption
<1>2. QED
  BY <1>1 DEF Pool!Enabled, Pool!Server

\* What a step of others leaves as it is, as far as they leave it alone.
LEMMA OrderStays ==
    ASSUME OrderInv, NEW t \in Thread, thread[t] = "order", servers' = servers,
           order'[t] = order[t], reads'[t] = reads[t], touched[t] \subseteq touched'[t],
           \A i \in Pool!Server \ touched'[t] :
              /\ i \in cold'[t] <=> i \in cold[t]
              /\ Pool!InCooldown(t, i)' <=> Pool!InCooldown(t, i)
    PROVE  OrderSoFar(t)'
<1>1. OrderSoFar(t)
  BY DEF OrderInv
<1>2. Pool!Enabled' = Pool!Enabled /\ Pool!Enabled \subseteq Pool!Server
  BY ServersTyped DEF Pool!Enabled, OrderInv
<1>3. /\ \A i \in Left(t)' : i \in Left(t) /\ Place(t, i)' = Place(t, i)
  BY <1>2 DEF Left, Place
<1>4. \A i \in Left(t)' : Pool!InCooldown(t, i)' <=> i \in cold'[t]
  BY <1>1, <1>2, <1>3 DEF OrderSoFar, Left
<1>5. QED
  BY <1>1, <1>2, <1>3, <1>4 DEF OrderSoFar

\* A mark.
LEMMA OrderMarked ==
    ASSUME OrderInv, NEW i, NEW s, Pool!Mark(i, s), UNCHANGED <<servers, recovered>>,
           DOMAIN thread' = Thread, DOMAIN order' = Thread,
           \A t \in Thread : \/ thread'[t] = thread[t] /\ order'[t] = order[t]
                             \/ thread[t] # "order" /\ thread'[t] # "order"
    PROVE  OrderInv'
<1>1. PoolInv'
  BY MarkCools DEF OrderInv, PoolInv
<1>2. /\ reads' = reads
      /\ touched' = [t \in Thread |-> IF thread[t] = "order" THEN touched[t] \cup {i} ELSE {}]
      /\ ranOut' = [t \in Thread |-> ranOut[t] \ {i}]
      /\ cold' = [t \in Thread |-> cold[t] \ {i}]
  BY DEF Pool!Mark
<1>3. \A j \in Pool!Server : j # i => cooling'[j] = cooling[j]
  BY MarkCools DEF OrderInv
<1>4. ASSUME NEW t \in Thread, thread[t] = "order" PROVE thread'[t] = "order" /\ OrderSoFar(t)'
  <2>1. thread'[t] = "order" /\ order'[t] = order[t] /\ reads'[t] = reads[t]
    BY <1>2, <1>4
  <2>2. touched'[t] = touched[t] \cup {i}
    BY <1>2, <1>4
  <2>3. \A j \in Pool!Server \ touched'[t] :
           /\ j \in cold'[t] <=> j \in cold[t]
           /\ Pool!InCooldown(t, j)' <=> Pool!InCooldown(t, j)
    BY <1>2, <1>3, <2>2 DEF Pool!InCooldown
  <2>4. QED
    BY <1>4, <2>1, <2>2, <2>3, OrderStays
<1>5. ASSUME NEW t \in Thread, thread[t] # "order"
      PROVE  /\ thread'[t] # "order"
             /\ reads'[t] = 0 /\ ranOut'[t] = {} /\ cold'[t] = {} /\ touched'[t] = {}
  BY <1>2, <1>5 DEF OrderInv
<1>6. /\ reads' \in [Thread -> Nat]
      /\ ranOut' \in [Thread -> SUBSET Pool!Server]
      /\ cold' \in [Thread -> SUBSET Pool!Server] /\ DOMAIN touched' = Thread
  BY <1>2 DEF OrderInv
<1>7. QED
  BY <1>1, <1>4, <1>5, <1>6 DEF OrderInv

\* Nothing is marked, and nobody begins or ends reading.
LEMMA OrderUnmarked ==
    ASSUME OrderInv, PoolInv', UNCHANGED <<servers, cooling, reads, ranOut, cold, touched>>,
           DOMAIN thread' = Thread, DOMAIN order' = Thread,
           \A t \in Thread : \/ thread'[t] = thread[t] /\ order'[t] = order[t]
                             \/ thread[t] # "order" /\ thread'[t] # "order"
    PROVE  OrderInv'
<1>1. ASSUME NEW t \in Thread, thread[t] = "order" PROVE thread'[t] = "order" /\ OrderSoFar(t)'
  <2>1. thread'[t] = "order" /\ order'[t] = order[t] /\ reads'[t] = reads[t]
    BY <1>1
  <2>2. \A j : Pool!InCooldown(t, j)' <=> Pool!InCooldown(t, j)
    BY DEF Pool!InCooldown
  <2>3. QED
    BY <1>1, <2>1, <2>2, OrderStays
<1>2. QED
  BY <1>1 DEF OrderInv

\* One read: it lists the server if this is its place.
LEMMA OrderReads ==
    ASSUME OrderInv, NEW t \in Thread, NEW n \in 1 .. 2 * MaxServers, Pool!ReadUntil(t, n)
    PROVE  OrderSoFar(t)'
<1> DEFINE i == Pool!Nth(n)
           q == order[t]
           N == Len(servers)
<1>1. /\ thread[t] = "order" /\ OrderSoFar(t) /\ q \in Seq(Pool!Enabled)
  BY DEF Pool!ReadUntil, Pool!Reads, OrderInv, OrderSoFar
<1>2. /\ N \in Nat /\ reads[t] \in Nat /\ n \in Nat
      /\ \A j \in Pool!Enabled : j \in Nat /\ 1 <= j /\ j <= N
  BY ServersTyped DEF OrderInv
<1>3. /\ i \in Pool!Enabled /\ reads[t] < n /\ n <= 2 * N
      /\ \A k \in Pool!Unread(t) : n <= k
  BY <1>2 DEF Pool!ReadUntil, Pool!Reads, Pool!Unread
<1>4. /\ UNCHANGED <<servers, cooling, ranOut, cold, touched>> /\ Pool!Enabled' = Pool!Enabled
      /\ reads'[t] = n
      /\ order'[t] = IF Pool!InCooldown(t, i) = Pool!Second(n) THEN Append(q, i) ELSE q
  BY DEF Pool!ReadUntil, Pool!conf, Pool!state, Pool!Enabled, OrderInv
<1>5. \A j \in Left(t) : /\ Pool!Nth(Place(t, j)) = j /\ Place(t, j) \in 1 .. 2 * N
                         /\ Pool!Second(Place(t, j)) <=> j \in cold[t]
  BY <1>2 DEF Left, Place, Pool!Nth, Pool!Second
<1>6. \A j \in Left(t) : Place(t, j) > reads[t] => Place(t, j) >= n
  BY <1>2, <1>3, <1>5 DEF Pool!Unread, Left
<1>7. /\ Left(t)' = Left(t) /\ \A j : Place(t, j)' = Place(t, j)
      /\ \A j : Pool!InCooldown(t, j)' <=> Pool!InCooldown(t, j)
  BY <1>4 DEF Left, Place, Pool!InCooldown
<1>8. i \in Left(t) => (Place(t, i) = n <=> (i \in cold[t] <=> Pool!Second(n)))
  BY <1>2, <1>3 DEF Place, Pool!Nth, Pool!Second
<1>9. i \in Left(t) => (order'[t] = IF Place(t, i) = n THEN Append(q, i) ELSE q)
  <2>1. i \in Left(t) => (Pool!InCooldown(t, i) <=> i \in cold[t])
    BY <1>1 DEF OrderSoFar
  <2>2. Pool!InCooldown(t, i) \in BOOLEAN /\ Pool!Second(n) \in BOOLEAN
    BY <1>3, ServersTyped DEF Pool!InCooldown, Pool!Second, OrderInv, PoolInv
  <2>3. QED
    BY <1>4, <1>8, <2>1, <2>2
<1> HIDE DEF i, q, N
<1>10. order'[t] \in {q, Append(q, i)}
  BY <1>4
<1>11. order'[t] \in Seq(Pool!Enabled)
  BY <1>1, <1>3, <1>10
<1>12. \A k \in 1..Len(q) : q[k] \in Left(t) => Place(t, q[k]) <= reads[t]
  BY <1>1 DEF OrderSoFar, q
<1>13. ASSUME NEW j \in Left(t), Place(t, j) <= n
       PROVE  \E k \in 1..Len(order'[t]) : order'[t][k] = j
  <2>1. CASE Place(t, j) <= reads[t]
    <3>1. PICK k \in 1..Len(q) : q[k] = j
      BY <1>1, <2>1 DEF OrderSoFar, q
    <3>2. k \in 1..Len(order'[t]) /\ order'[t][k] = j
      BY <1>1, <1>3, <1>10, <3>1
    <3>3. QED
      BY <3>2
  <2>2. CASE Place(t, j) > reads[t]
    <3>1. Place(t, j) = n /\ j = i
      BY <1>2, <1>5, <1>6, <1>13, <2>2 DEF i, N
    <3>2. order'[t] = Append(q, i)
      BY <1>9, <3>1
    <3>3. Len(order'[t]) \in 1..Len(order'[t]) /\ order'[t][Len(order'[t])] = i
      BY <1>1, <1>3, <3>2
    <3>4. QED
      BY <3>1, <3>3
  <2>3. QED
    BY <1>2, <1>5, <2>1, <2>2
<1>14. ASSUME NEW k \in 1..Len(order'[t]), order'[t][k] \in Left(t)
       PROVE  /\ Place(t, order'[t][k]) <= n
              /\ k \in 1..Len(q) => q[k] = order'[t][k] /\ Place(t, order'[t][k]) < n
              /\ k \notin 1..Len(q) => k = Len(q) + 1 /\ Place(t, order'[t][k]) = n
  <2>1. CASE k \in 1..Len(q)
    <3>1. q[k] = order'[t][k]
      BY <1>1, <1>3, <1>10, <2>1
    <3>2. QED
      BY <1>2, <1>3, <1>5, <1>12, <1>14, <2>1, <3>1
  <2>2. CASE k \notin 1..Len(q)
    <3>1. order'[t] = Append(q, i) /\ k = Len(q) + 1 /\ order'[t][k] = i
      BY <1>1, <1>3, <1>10, <2>2
    <3>2. order'[t] # q
      BY <1>1, <1>3, <3>1
    <3>3. Place(t, i) = n
      BY <1>9, <1>14, <3>1, <3>2
    <3>4. QED
      BY <1>2, <2>2, <3>1, <3>3
  <2>3. QED
    BY <2>1, <2>2
<1>15. ASSUME NEW k \in 1..Len(order'[t]), NEW l \in 1..Len(order'[t]), k < l,
              order'[t][k] \in Left(t), order'[t][l] \in Left(t)
       PROVE  Place(t, order'[t][k]) < Place(t, order'[t][l])
  <2>1. CASE l \in 1..Len(q)
    <3>1. k \in 1..Len(q)
      BY <1>1, <1>15, <2>1
    <3>2. QED
      BY <1>1, <1>14, <1>15, <2>1, <3>1 DEF OrderSoFar, q
  <2>2. CASE l \notin 1..Len(q)
    <3>1. l = Len(q) + 1 /\ Place(t, order'[t][l]) = n
      BY <1>14, <1>15, <2>2
    <3>2. k \in 1..Len(q)
      BY <1>1, <1>15, <3>1
    <3>3. QED
      BY <1>14, <1>15, <3>1, <3>2
  <2>3. QED
    BY <2>1, <2>2
<1>16. \A j \in Left(t) : Pool!InCooldown(t, j) <=> j \in cold[t]
  BY <1>1 DEF OrderSoFar
<1>17. QED
  BY <1>4, <1>7, <1>11, <1>13, <1>14, <1>15, <1>16 DEF OrderSoFar

LEMMA OrderStep ==
    ASSUME OrderInv, [Pool!Next]_(Pool!vars)
    PROVE  OrderInv'
<1>0. PoolInv'
  BY PoolStep DEF OrderInv
<1>1. ASSUME NEW i \in Pool!Server, Pool!Recovers(i) PROVE OrderInv'
  BY <1>0, <1>1, OrderUnmarked DEF Pool!Recovers, Pool!state, Pool!reading, OrderInv
<1>2. ASSUME NEW i \in Pool!Server, Pool!Expires(i) PROVE OrderInv'
  <2>1. /\ UNCHANGED <<servers, thread, order, reads, cold, touched>>
        /\ cooling' = [cooling EXCEPT ![i] = FALSE]
        /\ ranOut' = [t \in Thread |-> IF thread[t] = "order" THEN ranOut[t] \cup {i} ELSE {}]
    BY <1>2 DEF Pool!Expires, Pool!conf
  <2>2. ASSUME NEW t \in Thread, thread[t] = "order" PROVE OrderSoFar(t)'
    <3>1. \A j \in Pool!Server : Pool!InCooldown(t, j)' <=> Pool!InCooldown(t, j)
      BY <1>2, <2>1, <2>2 DEF Pool!Expires, Pool!InCooldown, OrderInv, PoolInv
    <3>2. QED
      BY <2>1, <2>2, <3>1, OrderStays
  <2>3. QED
    BY <1>0, <2>1, <2>2 DEF OrderInv
<1>3. ASSUME NEW t \in Thread, Pool!Meets(t) PROVE OrderInv'
  BY <1>0, <1>3, OrderUnmarked DEF Pool!Meets, Pool!conf, Pool!state, Pool!reading, OrderInv
<1>4. ASSUME NEW t \in Thread, Pool!Begin(t) PROVE OrderInv'
  <2>1. /\ thread[t] = "idle" /\ thread' = [thread EXCEPT ![t] = "order"]
        /\ order' = [order EXCEPT ![t] = <<>>]
        /\ cold' = [cold EXCEPT ![t] = {i \in Pool!Server : cooling[i]}]
        /\ UNCHANGED <<servers, cooling, reads, ranOut, touched>>
    BY <1>4 DEF Pool!Begin, Pool!Goes, Pool!conf, Pool!state
  <2>2. thread'[t] = "order" /\ OrderSoFar(t)'
    <3>1. /\ thread'[t] = "order" /\ order'[t] = <<>> /\ reads'[t] = 0 /\ ranOut'[t] = {}
          /\ cold'[t] = {i \in Pool!Server : cooling[i]}
      BY <2>1 DEF OrderInv
    <3>2. Pool!Enabled' \subseteq Pool!Server /\ Pool!Enabled' \subseteq Nat \ {0}
      BY <2>1, ServersTyped DEF OrderInv, Pool!Enabled, Pool!Server
    <3>3. ASSUME NEW i \in Left(t)'
          PROVE  (Pool!InCooldown(t, i)' <=> i \in cold'[t]) /\ ~(Place(t, i)' <= reads'[t])
      <4>1. i \in Pool!Server /\ i \in Nat \ {0} /\ cooling[i] \in BOOLEAN
        BY <3>2 DEF Left, OrderInv, PoolInv
      <4>2. Pool!InCooldown(t, i)' <=> i \in cold'[t]
        BY <2>1, <3>1, <4>1 DEF Pool!InCooldown
      <4>3. Len(servers)' \in Nat
        BY <2>1, ServersTyped DEF OrderInv
      <4>4. Place(t, i)' \in Nat \ {0}
        BY <4>1, <4>3 DEF Place
      <4>5. ~(Place(t, i)' <= 0)
        BY <4>4
      <4>6. QED
        BY <3>1, <4>2, <4>5
    <3>4. order'[t] \in Seq(Pool!Enabled') /\ 1..Len(order'[t]) = {}
      BY <3>1
    <3>5. QED
      BY <2>1, <3>1, <3>3, <3>4 DEF OrderSoFar
  <2>3. ASSUME NEW u \in Thread, u # t, thread[u] = "order" PROVE OrderSoFar(u)'
    <3>1. \A j : Pool!InCooldown(u, j)' <=> Pool!InCooldown(u, j)
      BY <2>1 DEF Pool!InCooldown
    <3>2. order'[u] = order[u] /\ cold'[u] = cold[u]
      BY <2>1, <2>3 DEF OrderInv
    <3>3. QED
      BY <2>1, <2>3, <3>1, <3>2, OrderStays
  <2>4. QED
    BY <1>0, <2>1, <2>2, <2>3 DEF OrderInv
<1>5. ASSUME NEW t \in Thread, NEW n \in 1 .. 2 * MaxServers, Pool!ReadUntil(t, n) PROVE OrderInv'
  <2>1. OrderSoFar(t)'
    BY <1>5, OrderReads
  <2>2. /\ thread[t] = "order" /\ n \in Nat
        /\ DOMAIN order' = Thread /\ \A u \in Thread : u # t => order'[u] = order[u]
        /\ reads' = [reads EXCEPT ![t] = n]
        /\ UNCHANGED <<servers, cooling, thread, ranOut, cold, touched>>
    BY <1>5, PoolsAssumption DEF Pool!ReadUntil, Pool!Reads, Pool!conf, Pool!state, OrderInv
  <2>3. ASSUME NEW u \in Thread, u # t, thread[u] = "order" PROVE OrderSoFar(u)'
    <3>1. \A j : Pool!InCooldown(u, j)' <=> Pool!InCooldown(u, j)
      BY <2>2 DEF Pool!InCooldown
    <3>2. order'[u] = order[u] /\ reads'[u] = reads[u]
      BY <2>2, <2>3 DEF OrderInv
    <3>3. QED
      BY <2>2, <2>3, <3>1, <3>2, OrderStays
  <2>4. QED
    BY <1>0, <2>1, <2>2, <2>3 DEF OrderInv
<1>6. ASSUME NEW t \in Thread, Pool!Ordered(t) PROVE OrderInv'
  <2>1. /\ UNCHANGED <<servers, cooling>>
        /\ DOMAIN thread' = Thread /\ DOMAIN order' = Thread /\ thread'[t] # "order"
        /\ \A u \in Thread : u # t => thread'[u] = thread[u] /\ order'[u] = order[u]
    BY <1>6 DEF Pool!Ordered, Pool!Ends, Pool!Goes, Pool!conf, Pool!state, OrderInv
  <2>2. /\ reads' = [reads EXCEPT ![t] = 0] /\ ranOut' = [ranOut EXCEPT ![t] = {}]
        /\ cold' = [cold EXCEPT ![t] = {}] /\ touched' = [touched EXCEPT ![t] = {}]
    BY <1>6 DEF Pool!Ordered, Pool!Forgets
  <2>3. ASSUME NEW u \in Thread, u # t, thread[u] = "order" PROVE OrderSoFar(u)'
    <3>1. \A j : Pool!InCooldown(u, j)' <=> Pool!InCooldown(u, j)
      BY <2>1, <2>2, <2>3 DEF Pool!InCooldown, OrderInv
    <3>2. /\ order'[u] = order[u] /\ reads'[u] = reads[u]
          /\ cold'[u] = cold[u] /\ touched'[u] = touched[u]
      BY <2>1, <2>2, <2>3 DEF OrderInv
    <3>3. QED
      BY <2>1, <2>3, <3>1, <3>2, OrderStays
  <2>4. QED
    BY <1>0, <2>1, <2>2, <2>3 DEF OrderInv
<1>7. ASSUME NEW t \in Thread,
             \/ Pool!Fails(t) \/ Pool!AnswersQuickly(t) \/ Pool!AnswersFromCpu(t)
             \/ Pool!AnswersLongly(t) \/ Pool!SlowAgain(t)
             \/ Pool!CheckFails(t) \/ Pool!CheckFindsCpu(t) \/ Pool!CheckMarks(t)
             \/ Pool!WarmEnds(t)
      PROVE  OrderInv'
  <2>1. /\ UNCHANGED <<servers, recovered>>
        /\ thread[t] \in {"call", "count", "check", "works", "warm"}
        /\ \E s : Pool!Mark(Pool!At(t), s)
        /\ \E to \in {"idle", "call", "check"} : \E q : Pool!Goes(t, to, q)
    BY <1>7 DEF Pool!Fails, Pool!AnswersQuickly, Pool!AnswersFromCpu, Pool!AnswersLongly,
       Pool!SlowAgain, Pool!CheckFails, Pool!CheckFindsCpu, Pool!CheckMarks, Pool!WarmEnds,
       Pool!conf, Pool!Calls, Pool!Checks, Pool!Ends, Pool!GoesOn
  <2>2. PICK to \in {"idle", "call", "check"} : \E q : Pool!Goes(t, to, q)
    BY <2>1
  <2>3. PICK q : Pool!Goes(t, to, q)
    BY <2>2
  <2>4. /\ DOMAIN thread' = Thread /\ DOMAIN order' = Thread
        /\ \A u \in Thread : \/ thread'[u] = thread[u] /\ order'[u] = order[u]
                             \/ thread[u] # "order" /\ thread'[u] # "order"
    BY <2>1, <2>2, <2>3 DEF Pool!Goes, OrderInv
  <2>5. QED
    BY <2>1, <2>4, OrderMarked
<1>8. ASSUME NEW t \in Thread,
             \/ Pool!Ping(t) \/ Pool!Raises(t) \/ Pool!NoneFine(t) \/ Pool!CheckCloud(t)
             \/ Pool!CheckReads(t) \/ Pool!AnswersSlowly(t) \/ Pool!SlowOnce(t)
             \/ \E i \in Pool!Server : Pool!WarmStarts(t, i)
      PROVE  OrderInv'
  <2>1. UNCHANGED <<servers, cooling, reads, ranOut, cold, touched>>
    BY <1>8 DEF Pool!Ping, Pool!Raises, Pool!NoneFine, Pool!CheckCloud, Pool!CheckReads,
       Pool!AnswersSlowly, Pool!SlowOnce, Pool!WarmStarts, Pool!conf, Pool!state, Pool!reading
  <2>2. thread[t] \in {"idle", "call", "count", "check"}
    BY <1>8 DEF Pool!Ping, Pool!Raises, Pool!NoneFine, Pool!CheckCloud, Pool!CheckReads,
       Pool!AnswersSlowly, Pool!SlowOnce, Pool!WarmStarts, Pool!Asks, Pool!IsCloud,
       Pool!Calls, Pool!Checks
  <2>3. \/ \E to \in {"idle", "check", "works", "warm"} : \E q : Pool!Goes(t, to, q)
        \/ order' = order /\ thread' = [thread EXCEPT ![t] = "count"]
    <3>1. CASE Pool!Ping(t)
      BY <3>1 DEF Pool!Ping
    <3>2. CASE Pool!CheckCloud(t) \/ Pool!CheckReads(t)
      BY <3>2 DEF Pool!CheckCloud, Pool!CheckReads, Pool!Ends, Pool!GoesOn
    <3>3. CASE Pool!AnswersSlowly(t)
      BY <3>3 DEF Pool!AnswersSlowly
    <3>4. CASE Pool!Raises(t) \/ Pool!NoneFine(t) \/ Pool!SlowOnce(t)
      BY <3>4 DEF Pool!Raises, Pool!NoneFine, Pool!SlowOnce, Pool!Ends
    <3>5. CASE \E i \in Pool!Server : Pool!WarmStarts(t, i)
      BY <3>5 DEF Pool!WarmStarts
    <3>6. QED
      BY <1>8, <3>1, <3>2, <3>3, <3>4, <3>5
  <2>4. /\ DOMAIN thread' = Thread /\ DOMAIN order' = Thread
        /\ \A u \in Thread : \/ thread'[u] = thread[u] /\ order'[u] = order[u]
                             \/ thread[u] # "order" /\ thread'[u] # "order"
    <3>1. CASE order' = order /\ thread' = [thread EXCEPT ![t] = "count"]
      BY <2>2, <3>1 DEF OrderInv
    <3>2. CASE \E to \in {"idle", "check", "works", "warm"} : \E q : Pool!Goes(t, to, q)
      <4>1. PICK to \in {"idle", "check", "works", "warm"} : \E q : Pool!Goes(t, to, q)
        BY <3>2
      <4>2. PICK q : Pool!Goes(t, to, q)
        BY <4>1
      <4>3. QED
        BY <2>2, <4>2 DEF Pool!Goes, OrderInv
    <3>3. QED
      BY <2>3, <3>1, <3>2
  <2>5. QED
    BY <1>0, <2>1, <2>4, OrderUnmarked
<1>9. CASE UNCHANGED Pool!vars
  BY <1>0, <1>9, OrderUnmarked DEF Pool!vars, Pool!conf, Pool!state, Pool!reading, OrderInv
<1>10. QED
  BY <1>1, <1>2, <1>3, <1>4, <1>5, <1>6, <1>7, <1>8, <1>9 DEF Pool!Next, Pool!Proceeds

(***************************************************************************)
(* order(): every enabled server that is left alone is listed, once, those *)
(* outside a cooldown before those in one, and each group as configured,   *)
(* whatever the other threads mark and whichever cooldowns end meanwhile.  *)
(***************************************************************************)
THEOREM OrderIsRight == Pool!Spec => []OrderRight
<1>1. Pool!Init => OrderInv
  BY PoolInit DEF Pool!Init, OrderInv
<1>2. OrderInv /\ [Pool!Next]_(Pool!vars) => OrderInv'
  BY OrderStep
<1>3. OrderInv => OrderRight
  <2> SUFFICES ASSUME OrderInv, NEW t \in Thread, thread[t] = "order", Pool!Unread(t) = {}
               PROVE  /\ Left(t) \subseteq Pool!ToSet(order[t]) /\ Pool!ToSet(order[t]) \subseteq Pool!Enabled
                      /\ \A k, l \in DOMAIN order[t] :
                            k < l /\ order[t][k] \in Left(t) /\ order[t][l] \in Left(t)
                            => IF order[t][k] \in cold[t]
                               THEN order[t][l] \in cold[t] /\ order[t][k] < order[t][l]
                               ELSE order[t][l] \in cold[t] \/ order[t][k] < order[t][l]
    BY DEF OrderRight, Pool!OrderRight, Left
  <2>1. OrderSoFar(t) /\ order[t] \in Seq(Pool!Enabled) /\ DOMAIN order[t] = 1..Len(order[t])
    <3>1. OrderSoFar(t)
      BY DEF OrderInv
    <3>2. order[t] \in Seq(Pool!Enabled)
      BY <3>1 DEF OrderSoFar
    <3>3. QED
      BY <3>1, <3>2
  <2>2. /\ Len(servers) \in Nat /\ reads[t] \in Nat
        /\ \A j \in Pool!Enabled : j \in Nat /\ 1 <= j /\ j <= Len(servers)
    BY ServersTyped DEF OrderInv
  <2>3. ASSUME NEW i \in Left(t) PROVE Place(t, i) <= reads[t]
    <3>1. i \in Pool!Enabled
      BY DEF Left
    <3>2. Place(t, i) \in 1 .. 2 * Len(servers) /\ Pool!Nth(Place(t, i)) = i
      BY <2>2, <3>1 DEF Place, Pool!Nth, Pool!Second
    <3>3. QED
      BY <2>2, <3>1, <3>2 DEF Pool!Unread
  <2>4. Left(t) \subseteq Pool!ToSet(order[t]) /\ Pool!ToSet(order[t]) \subseteq Pool!Enabled
    BY <2>1, <2>3 DEF OrderSoFar, Pool!ToSet
  <2>5. ASSUME NEW k \in DOMAIN order[t], NEW l \in DOMAIN order[t], k < l,
               order[t][k] \in Left(t), order[t][l] \in Left(t)
        PROVE  IF order[t][k] \in cold[t]
               THEN order[t][l] \in cold[t] /\ order[t][k] < order[t][l]
               ELSE order[t][l] \in cold[t] \/ order[t][k] < order[t][l]
    <3>1. Place(t, order[t][k]) < Place(t, order[t][l])
      BY <2>1, <2>5 DEF OrderSoFar
    <3>2. order[t][k] \in Pool!Enabled /\ order[t][l] \in Pool!Enabled
      BY <2>5 DEF Left
    <3>3. QED
      BY <2>2, <3>1, <3>2 DEF Place
  <2>6. QED
    BY <2>4, <2>5
<1>4. QED
  BY <1>1, <1>2, <1>3, PTL DEF Pool!Spec

-----------------------------------------------------------------------------
(***************************************************************************)
(* SkillTools.  OthersStay is not inductive alone: what a tool has still to *)
(* write must spare the other skills too, also after the writes before it  *)
(* (SparesIn, SparesLater), each module is written once, and a package that *)
(* is written into is there (Planned).                                     *)
(***************************************************************************)

\* A package, or none yet.
PackNone == Tools!Pack \cup {None}

\* What the tools write.
ToolWrites ==
    [what : {"file"}, in : Package, name : Identifier, to : Tools!File \cup {None}]
        \cup [what : {"entry"}, in : Package, name : Identifier, to : Tools!Entry \cup {None}]
        \cup [what : {"config"}, in : Package, to : [Identifier -> Tools!Entry \cup {None}]]
        \cup [what : {"move"}, in : Package, name : Identifier, to : Identifier]
        \cup [what : {"pack"}, in : Package, to : Tools!Pack \cup {None}]

\* What a write makes of a module that is there: it adds to it, or takes the function of
\* the deleted entry out of it, which no other entry names.
Adds(f, to) == to # None /\ f.defs \subseteq to.defs /\ to.uses = f.uses /\ to.parses = f.parses
TakesOut(f, to, e) ==
    \/ to = None /\ f.defs = {e.func}
    \/ to # None /\ to.defs = f.defs \ {e.func} /\ to.uses = f.uses /\ to.parses = f.parses
TakesEntryOut(k, w, t) ==
    /\ t.does = "delete" /\ t.entry \in Tools!Entry /\ t.entry.module = w.name
    /\ \A s \in Identifier \ {t.skill} : k.config[s] # t.entry
    /\ TakesOut(k.files[w.name], w.to, t.entry)

\* A write that takes nothing from a package but what belongs to the skill of tool t.
SparesIn(k, w, t) ==
    /\ w.what \in {"file", "entry", "pack"}
    /\ w.what = "entry" => w.name = t.skill
    /\ w.what = "file" /\ k.files[w.name] # None =>
          Adds(k.files[w.name], w.to) \/ TakesEntryOut(k, w, t)
    /\ w.what = "pack" => w.to # None /\ w.to.files = k.files /\ w.to.config = k.config

\* Tools about one skill that leave the others alone.
AboutOne(t) == t.does \in {"new", "delete", "copy"} /\ (t.does = "copy" => ~t.force)

\* What a tool has still to write: either a package, or files and entries of a package
\* that is there, each module at most once when the others are to be left alone.  Only
\* the first write removes a package.
Planned(t, ws) ==
    /\ ws \in Seq(ToolWrites)
    /\ \A i \in 1..Len(ws) : ws[i].what # "pack" => pack[ws[i].in] # None
    /\ \A i, j \in 1..Len(ws) : ws[i].what = "pack" => ws[j].what = "pack"
    /\ \A i \in 1..Len(ws) :
          ws[i].what = "pack" /\ ws[i].to = None => i = 1 /\ pack[ws[i].in] # None
    /\ AboutOne(t) =>
          /\ \A i \in 1..Len(ws) :
                pack[ws[i].in] # None /\ SparesIn(pack[ws[i].in], ws[i], t)
          /\ \A i, j \in 1..Len(ws) :
                i # j /\ ws[i].what = "file" /\ ws[j].what = "file" => ws[i].name # ws[j].name

ToolsInv == pack \in [Package -> PackNone] /\ Planned(tool, writes)

\* A list of a finite set has each of its members, once.
LEMMA Listed ==
    ASSUME NEW S, IsFiniteSet(S)
    PROVE  /\ Tools!SetToSeq(S) \in Seq(S)
           /\ \A i, j \in 1..Len(Tools!SetToSeq(S)) :
                 i # j => Tools!SetToSeq(S)[i] # Tools!SetToSeq(S)[j]
<1>1. Cardinality(S) \in Nat /\ ExistsBijection(1..Cardinality(S), S)
  BY FS_CardinalityType
<1>2. PICK f : f \in Bijection(1..Cardinality(S), S)
  BY <1>1 DEF ExistsBijection
<1>a. f \in [1..Cardinality(S) -> S] /\ Tools!IsInjective(f)
  BY <1>2 DEF Bijection, Injection, Tools!IsInjective, IsInjective
<1>3. /\ Tools!SetToSeq(S) \in [1..Cardinality(S) -> S]
      /\ Tools!IsInjective(Tools!SetToSeq(S))
  <2>1. Tools!Cardinality(S) = Cardinality(S)
    BY DEF Tools!Cardinality, Cardinality
  <2>2. QED
    BY <1>a, <2>1, Zenon DEF Tools!SetToSeq
<1>4. Len(Tools!SetToSeq(S)) = Cardinality(S) /\ Tools!SetToSeq(S) \in Seq(S)
  BY <1>1, <1>3
<1>5. QED
  BY <1>3, <1>4 DEF Tools!IsInjective

\* A list of one thing for each of finitely many.
LEMMA ListedOf ==
    ASSUME NEW X, IsFiniteSet(X), NEW f, DOMAIN f = X
    PROVE  IsFiniteSet({f[x] : x \in X})
<1>1. [x \in X |-> f[x]] \in Surjection(X, {f[x] : x \in X})
  BY DEF Surjection
<1>2. QED
  BY <1>1, FS_Surjection DEF ExistsSurjection

\* Each kind of write makes a package of a package.
LEMMA WrittenPack ==
    ASSUME NEW k \in PackNone, NEW w \in ToolWrites, w.what # "pack" => k # None
    PROVE  /\ Tools!Written(k, w) \in PackNone
           /\ w.what # "pack" => Tools!Written(k, w) # None
<1> USE PackagesAssumption DEF ToolWrites, Tools!Written, PackNone
<1>1. CASE w.what = "file"
  BY <1>1 DEF Tools!Pack
<1>2. CASE w.what = "entry"
  BY <1>2 DEF Tools!Pack
<1>3. CASE w.what = "config"
  BY <1>3 DEF Tools!Pack
<1>4. CASE w.what = "move"
  <2>1. k \in Tools!Pack /\ w.name \in Identifier /\ w.to \in Identifier
    BY <1>4
  <2>2. Tools!Written(k, w) =
           [k EXCEPT !.files = [[k.files EXCEPT ![w.to] = k.files[w.name]]
                                   EXCEPT ![w.name] = None]]
    BY <1>4, <2>1 DEF Tools!Pack
  <2>3. [[k.files EXCEPT ![w.to] = k.files[w.name]] EXCEPT ![w.name] = None]
           \in [Identifier -> Tools!File \cup {None}]
    BY <2>1 DEF Tools!Pack
  <2>4. \A F \in [Identifier -> Tools!File \cup {None}] : [k EXCEPT !.files = F] \in Tools!Pack
    BY <2>1 DEF Tools!Pack
  <2> HIDE DEF Tools!Written
  <2>5. QED
    <3> DEFINE F == [[k.files EXCEPT ![w.to] = k.files[w.name]] EXCEPT ![w.name] = None]
               r == Tools!Written(k, w)
    <3>1. r = [k EXCEPT !.files = F] /\ F \in [Identifier -> Tools!File \cup {None}]
      BY <2>2, <2>3
    <3>2. r \in Tools!Pack
      BY <3>1, <2>4
    <3>3. None \notin Tools!Pack
      BY PackagesAssumption
    <3> HIDE DEF F, r
    <3>4. r \in PackNone /\ r # None
      BY <3>2, <3>3 DEF PackNone
    <3>5. QED
      BY <3>4 DEF r
<1>5. CASE w.what = "pack"
  BY <1>5
<1>6. QED
  BY <1>1, <1>2, <1>3, <1>4, <1>5

\* What a write that is cut off leaves is a package too.
LEMMA CutPack ==
    ASSUME NEW k \in PackNone, NEW w \in ToolWrites, NEW c \in Tools!Cut(k, w),
           w.what # "pack" => k # None, w.what = "pack" /\ w.to = None => k # None
    PROVE  c \in Tools!Pack
<1>1. \A x \in Tools!Pack : Tools!NoTable(x) \in Tools!Pack
  BY DEF Tools!NoTable, Tools!Pack
<1>2. ASSUME NEW x \in Tools!Pack, NEW y \in Tools!CutTree(x) PROVE y \in Tools!Pack
  <2>1. PICK z \in {x, Tools!NoTable(x)}, D \in SUBSET Identifier :
           y = [z EXCEPT !.files = [m \in Identifier |-> IF m \in D THEN @[m] ELSE None]]
    BY <1>2 DEF Tools!CutTree
  <2>2. z \in Tools!Pack
    BY <1>1
  <2>3. QED
    BY <2>1, <2>2 DEF Tools!Pack
<1>3. CASE w.what = "file"
  <2>1. k \in Tools!Pack /\ w.name \in Identifier /\ w.to \in Tools!File \cup {None}
    BY <1>3 DEF PackNone, ToolWrites
  <2>2. w.to # None /\ \E f \in Tools!CutFile(w.to) : c = [k EXCEPT !.files[w.name] = f]
    BY <1>3 DEF Tools!Cut
  <2>3. ASSUME NEW f \in Tools!CutFile(w.to) PROVE f \in Tools!File
    <3>1. w.to.defs \in SUBSET Identifier /\ w.to.uses \in SUBSET Tools!Entry
      BY <2>1, <2>2 DEF Tools!File
    <3>2. CASE f = [defs |-> {}, uses |-> {}, parses |-> FALSE]
      BY <3>2 DEF Tools!File
    <3>3. CASE \E D \in SUBSET w.to.defs, U \in SUBSET w.to.uses :
                  f = [defs |-> D, uses |-> U, parses |-> TRUE]
      <4>1. PICK D \in SUBSET w.to.defs, U \in SUBSET w.to.uses :
                  f = [defs |-> D, uses |-> U, parses |-> TRUE]
        BY <3>3
      <4>2. D \in SUBSET Identifier /\ U \in SUBSET Tools!Entry
        BY <3>1
      <4>3. QED
        BY <4>1, <4>2 DEF Tools!File
    <3>4. QED
      BY <3>2, <3>3 DEF Tools!CutFile
  <2>4. QED
    BY <2>1, <2>2, <2>3 DEF Tools!Pack
<1>4. CASE w.what \in {"entry", "config"}
  BY <1>1, <1>4 DEF Tools!Cut, PackNone
<1>5. CASE w.what = "move"
  BY <1>5 DEF Tools!Cut
<1>6. CASE w.what = "pack"
  <2>1. w.to \in PackNone
    BY <1>6 DEF ToolWrites, PackNone
  <2>2. CASE w.to = None
    BY <1>2, <1>6, <2>2 DEF Tools!Cut, PackNone
  <2>3. CASE w.to # None /\ k = None
    BY <1>2, <1>6, <2>1, <2>3 DEF Tools!Cut, PackNone
  <2>4. CASE w.to # None /\ k # None
    <3>1. w.to \in Tools!Pack /\ k \in Tools!Pack
      BY <2>1, <2>4 DEF PackNone
    <3>2. c = [w.to EXCEPT !.active = k.active, !.world = k.world]
      BY <1>6, <2>4 DEF Tools!Cut
    <3>3. QED
      BY <3>1, <3>2 DEF Tools!Pack
  <2>5. QED
    BY <2>2, <2>3, <2>4
<1>7. QED
  BY <1>3, <1>4, <1>5, <1>6 DEF ToolWrites

\* A skill goes on working by modules that import what they did.
LEMMA StillWorks ==
    ASSUME NEW k \in Tools!Pack, NEW k2, NEW s \in Identifier, NEW M \in SUBSET Identifier,
           NEW N \in SUBSET M, Tools!WorksWith(k, s, M), k2.config[s] = k.config[s],
           \A m \in N : /\ k2.files[m] # None /\ k2.files[m].uses = k.files[m].uses
                        /\ k2.files[m].parses = k.files[m].parses,
           NEW lost,
           \A e \in Tools!Offers(k, M) : e # lost => e \in Tools!Offers(k2, N),
           k.config[s] # lost, \A m \in N : lost \notin k.files[m].uses
    PROVE  Tools!Works(k2, s)
<1>1. Tools!Imports(k2, N)
  BY DEF Tools!Imports, Tools!WorksWith
<1>2. k2.config[s] # None /\ k2.config[s] \in Tools!Offers(k2, N)
  BY DEF Tools!WorksWith
<1>3. N \in SUBSET Identifier
  OBVIOUS
<1>4. QED
  BY <1>1, <1>2, <1>3 DEF Tools!Works, Tools!WorksWith

\* It does when the table and its modules are left alone.
LEMMA Untouched ==
    ASSUME NEW k \in Tools!Pack, NEW k2, NEW s \in Identifier, NEW M \in SUBSET Identifier,
           Tools!WorksWith(k, s, M), k2.config[s] = k.config[s],
           \A m \in M : k2.files[m] = k.files[m]
    PROVE  Tools!Works(k2, s)
<1>1. Tools!Offers(k2, M) = Tools!Offers(k, M)
  BY DEF Tools!Offers
<1>2. Tools!WorksWith(k2, s, M)
  BY <1>1 DEF Tools!WorksWith, Tools!Imports
<1>3. QED
  BY <1>2 DEF Tools!Works

LEMMA Spared ==
    ASSUME NEW k \in Tools!Pack, NEW w \in ToolWrites, NEW t, SparesIn(k, w, t),
           NEW s \in Identifier, s # t.skill, NEW M \in SUBSET Identifier,
           Tools!WorksWith(k, s, M),
           t.does = "delete" => \A m \in M : t.entry \notin k.files[m].uses
    PROVE  Tools!Works(Tools!Written(k, w), s)
<1> DEFINE k2 == Tools!Written(k, w)
<1>0. /\ k.files \in [Identifier -> Tools!File \cup {None}]
      /\ k.config \in [Identifier -> Tools!Entry \cup {None}]
  BY DEF Tools!Pack
<1>1. CASE w.what = "file"
  <2>1. /\ k2.config = k.config /\ k2.files = [k.files EXCEPT ![w.name] = w.to]
        /\ w.name \in Identifier /\ w.to \in Tools!File \cup {None}
    BY <1>1 DEF Tools!Written, Tools!Pack, ToolWrites
  <2> DEFINE f == k.files[w.name]
  <2>2. \A m \in Identifier \ {w.name} : k2.files[m] = k.files[m]
    BY <1>0, <2>1
  <2>3. k2.files[w.name] = w.to
    BY <1>0, <2>1
  <2> HIDE DEF k2
  <2>4. CASE w.name \notin M
    <3>1. k2.config[s] = k.config[s] /\ \A m \in M : k2.files[m] = k.files[m]
      BY <2>1, <2>2, <2>4
    <3>2. Tools!Works(k2, s)
      BY <3>1, Untouched
    <3>3. QED
      BY <3>2 DEF k2
  <2>5. CASE w.name \in M
    <3>1. f # None /\ f \in Tools!File /\ f.defs \in SUBSET Identifier
      BY <1>0, <2>1, <2>5 DEF Tools!WorksWith, Tools!Imports, Tools!File
    <3>2. CASE Adds(f, w.to)
      <4>1. \A m \in M : /\ k2.files[m] # None /\ k2.files[m].uses = k.files[m].uses
                         /\ k2.files[m].parses = k.files[m].parses
        BY <2>2, <2>3, <3>2 DEF Adds, Tools!WorksWith, Tools!Imports
      <4>2. \A e \in Tools!Offers(k, M) : e \in Tools!Offers(k2, M)
        BY <2>2, <2>3, <3>2 DEF Adds, Tools!Offers
      <4>3. PICK lost : lost # k.config[s] /\ \A m \in M : lost \notin k.files[m].uses
        <5>1. None # k.config[s] /\ \A m \in M : None \notin k.files[m].uses
          BY <1>0, PackagesAssumption DEF Tools!WorksWith, Tools!Imports, Tools!File
        <5>2. QED
          BY <5>1
      <4>4. QED
        BY <2>1, <4>1, <4>2, <4>3, StillWorks DEF k2
    <3>3. CASE TakesEntryOut(k, w, t)
      <4> DEFINE e == t.entry
      <4>1. /\ e \in Tools!Entry /\ e.module = w.name /\ TakesOut(f, w.to, e)
            /\ k.config[s] # e /\ \A m \in M : e \notin k.files[m].uses
        BY <3>3 DEF TakesEntryOut
      <4>2. \A x \in Tools!Entry : x.module = e.module /\ x.func = e.func => x = e
        BY <4>1 DEF Tools!Entry
      <4> HIDE DEF e
      <4>3. CASE w.to # None
        <5>1. w.to.defs = f.defs \ {e.func} /\ w.to.uses = f.uses /\ w.to.parses = f.parses
          BY <4>1, <4>3 DEF TakesOut
        <5>2. \A m \in M : /\ k2.files[m] # None /\ k2.files[m].uses = k.files[m].uses
                           /\ k2.files[m].parses = k.files[m].parses
          BY <2>2, <2>3, <4>3, <5>1 DEF Tools!WorksWith, Tools!Imports
        <5>3. \A x \in Tools!Offers(k, M) : x # e => x \in Tools!Offers(k2, M)
          BY <2>2, <2>3, <4>1, <4>2, <4>3, <5>1 DEF Tools!Offers
        <5>4. QED
          BY <2>1, <4>1, <5>2, <5>3, StillWorks DEF k2
      <4>4. CASE w.to = None
        <5> DEFINE N == M \ {w.name}
        <5>1. f.defs = {e.func}
          BY <4>1, <4>4 DEF TakesOut
        <5>2. \A m \in N : /\ k2.files[m] # None /\ k2.files[m].uses = k.files[m].uses
                           /\ k2.files[m].parses = k.files[m].parses
          BY <2>2 DEF Tools!WorksWith, Tools!Imports
        <5>3. \A x \in Tools!Offers(k, M) : x # e => x \in Tools!Offers(k2, N)
          BY <2>2, <4>1, <4>2, <5>1 DEF Tools!Offers
        <5>4. N \in SUBSET M /\ \A m \in N : e \notin k.files[m].uses
          BY <4>1
        <5> HIDE DEF N
        <5>5. QED
          BY <2>1, <4>1, <5>2, <5>3, <5>4, StillWorks DEF k2
      <4>5. QED
        BY <4>3, <4>4
    <3>4. QED
      BY <1>1, <3>1, <3>2, <3>3 DEF SparesIn
  <2>6. QED
    BY <2>4, <2>5
<1>2. CASE w.what = "entry"
  <2>1. w.name = t.skill
    BY <1>2 DEF SparesIn
  <2>2. /\ k2.files = k.files
        /\ k2.config = [k.config EXCEPT ![w.name] = w.to]
    BY <1>2 DEF Tools!Written, Tools!Pack
  <2>3. k2.config[s] = k.config[s]
    BY <1>0, <2>1, <2>2
  <2> HIDE DEF k2
  <2>4. QED
    BY <2>2, <2>3, Untouched DEF k2
<1>3. CASE w.what = "pack"
  <2>1. w.to.files = k.files /\ w.to.config = k.config /\ Tools!Written(k, w) = w.to
    BY <1>3 DEF SparesIn, Tools!Written
  <2>2. QED
    BY <2>1, Untouched
<1>4. QED
  BY <1>1, <1>2, <1>3 DEF SparesIn

\* A write that is cut off spares those who need neither the file nor the table.
LEMMA CutSpares ==
    ASSUME NEW k \in Tools!Pack, NEW w \in ToolWrites, NEW t, SparesIn(k, w, t),
           NEW s \in Identifier, NEW M \in SUBSET Identifier,
           Tools!WorksWith(k, s, M), ~Tools!Hits(w, M), NEW c \in Tools!Cut(k, w)
    PROVE  Tools!Works(c, s)
<1>0. k.files \in [Identifier -> Tools!File \cup {None}]
  BY DEF Tools!Pack
<1>1. CASE w.what = "file"
  <2>1. w.to # None /\ \E f \in Tools!CutFile(w.to) : c = [k EXCEPT !.files[w.name] = f]
    BY <1>1 DEF Tools!Cut
  <2>2. PICK f \in Tools!CutFile(w.to) : c = [k EXCEPT !.files[w.name] = f]
    BY <2>1
  <2>3. c.config = k.config /\ c.files = [k.files EXCEPT ![w.name] = f]
    BY <2>2 DEF Tools!Pack
  <2>4. w.name \notin M
    BY <1>1 DEF Tools!Hits
  <2>5. \A m \in M : c.files[m] = k.files[m]
    BY <1>0, <2>3, <2>4
  <2>6. c.config[s] = k.config[s]
    BY <2>3
  <2>7. QED
    BY <2>5, <2>6, Untouched, Zenon
<1>2. CASE w.what = "pack"
  <2>1. w.to # None /\ w.to.files = k.files /\ w.to.config = k.config
    BY <1>2 DEF SparesIn
  <2>2. c = [w.to EXCEPT !.active = k.active, !.world = k.world] /\ w.to \in Tools!Pack
    BY <1>2, <2>1, PackagesAssumption DEF Tools!Cut, ToolWrites
  <2>3. c.files = k.files /\ c.config = k.config
    BY <2>1, <2>2 DEF Tools!Pack
  <2>4. QED
    BY <2>3, Untouched
<1>3. QED
  BY <1>1, <1>2 DEF SparesIn, Tools!Hits

\* A write that spares the others still does after another one that does.
LEMMA SparesLater ==
    ASSUME NEW k \in Tools!Pack, NEW w \in ToolWrites, NEW v \in ToolWrites, NEW t,
           SparesIn(k, w, t), SparesIn(k, v, t),
           w.what = "pack" <=> v.what = "pack",
           w.what = "file" /\ v.what = "file" => w.name # v.name
    PROVE  SparesIn(Tools!Written(k, w), v, t)
<1> DEFINE k2 == Tools!Written(k, w)
<1>1. CASE v.what = "entry"
  BY <1>1 DEF SparesIn
<1>2. CASE v.what = "pack"
  <2>1. k2 = w.to /\ w.to.files = k.files /\ w.to.config = k.config
    BY <1>2 DEF SparesIn, Tools!Written
  <2>2. QED
    BY <1>2, <2>1 DEF SparesIn
<1>3. CASE v.what = "file"
  <2>1. /\ k.files \in [Identifier -> Tools!File \cup {None}]
        /\ k.config \in [Identifier -> Tools!Entry \cup {None}]
    BY DEF Tools!Pack
  <2>2. /\ \A s \in Identifier \ {t.skill} : k2.config[s] = k.config[s]
        /\ k2.files[v.name] = k.files[v.name]
    <3>1. CASE w.what = "file"
      <4>1. k2.config = k.config /\ k2.files = [k.files EXCEPT ![w.name] = w.to]
        BY <3>1 DEF Tools!Written, Tools!Pack
      <4>2. v.name \in Identifier /\ w.name # v.name
        BY <1>3, <3>1 DEF ToolWrites
      <4>3. QED
        BY <2>1, <4>1, <4>2
    <3>2. CASE w.what = "entry"
      <4>1. k2.files = k.files /\ k2.config = [k.config EXCEPT ![t.skill] = w.to]
        BY <3>2 DEF Tools!Written, Tools!Pack, SparesIn
      <4>2. QED
        BY <2>1, <4>1
    <3>3. QED
      BY <1>3, <3>1, <3>2 DEF SparesIn
  <2> HIDE DEF k2
  <2>3. k2.files[v.name] # None => Adds(k2.files[v.name], v.to) \/ TakesEntryOut(k2, v, t)
    <3>1. k.files[v.name] # None => Adds(k.files[v.name], v.to) \/ TakesEntryOut(k, v, t)
      BY <1>3 DEF SparesIn
    <3>2. TakesEntryOut(k, v, t) => TakesEntryOut(k2, v, t)
      BY <2>2 DEF TakesEntryOut
    <3>3. QED
      BY <2>2, <3>1, <3>2
  <2>4. QED
    BY <1>3, <2>3 DEF SparesIn, k2
<1>4. QED
  BY <1>1, <1>2, <1>3 DEF SparesIn

\* What worked goes on working, but for the two exceptions.
OthersKept ==
    \A p \in Package, s \in Identifier, M \in SUBSET Identifier :
       /\ AboutOne(tool) /\ tool.skill # s
       /\ pack[p] # None /\ Tools!WorksWith(pack[p], s, M)
       /\ ~Tools!UsesDeleted(pack[p], M) /\ ~Tools!LostByCut(M)
       => Tools!Works(pack'[p], s)

LEMMA NothingLost == ASSUME pack' = pack PROVE OthersKept
BY DEF OthersKept, Tools!Works

\* The next write is done: the others stay as they should, and nobody else loses.
LEMMA WriteStep ==
    ASSUME ToolsInv, Tools!Write
    PROVE  ToolsInv' /\ OthersKept
<1> DEFINE w == Head(writes)
           q == w.in
<1>1. /\ w \in ToolWrites /\ w = writes[1] /\ 1 \in 1..Len(writes)
      /\ writes' = Tail(writes) /\ writes' \in Seq(ToolWrites)
      /\ \A i \in 1..Len(writes') : i + 1 \in 1..Len(writes) /\ writes'[i] = writes[i + 1]
  BY HeadTailProperties DEF ToolsInv, Planned, Tools!Write
<1>2. /\ q \in Package /\ pack[q] \in PackNone
      /\ pack' = [pack EXCEPT ![q] = Tools!Written(pack[q], w)]
  BY <1>1 DEF ToolsInv, Tools!Write, ToolWrites
<1>3. w.what # "pack" => pack[q] # None
  BY <1>1 DEF ToolsInv, Planned
<1>4. /\ Tools!Written(pack[q], w) \in PackNone
      /\ w.what # "pack" => Tools!Written(pack[q], w) # None
  BY <1>1, <1>2, <1>3, WrittenPack
<1>5. pack' \in [Package -> PackNone]
  BY <1>2, <1>4 DEF ToolsInv
<1>6. \A i \in 1..Len(writes') : writes'[i] \in ToolWrites /\ writes'[i].in \in Package
  BY <1>1, ElementOfSeq DEF ToolWrites
<1>7. \A i \in 1..Len(writes') : writes'[i].what # "pack" => pack'[writes'[i].in] # None
  <2> SUFFICES ASSUME NEW i \in 1..Len(writes'), writes'[i].what # "pack"
               PROVE  pack'[writes'[i].in] # None
    OBVIOUS
  <2>1. w.what # "pack" /\ pack[writes'[i].in] # None
    BY <1>1 DEF ToolsInv, Planned
  <2>2. QED
    BY <1>2, <1>4, <1>6, <2>1 DEF ToolsInv
<1>a. \A i \in 1..Len(writes') : ~(writes'[i].what = "pack" /\ writes'[i].to = None)
  BY <1>1 DEF ToolsInv, Planned
<1>8. \A i, j \in 1..Len(writes') : writes'[i].what = "pack" => writes'[j].what = "pack"
  BY <1>1 DEF ToolsInv, Planned
<1>9. ASSUME AboutOne(tool)
      PROVE  /\ pack[q] \in Tools!Pack /\ SparesIn(pack[q], w, tool)
             /\ Tools!Written(pack[q], w) # None
             /\ \A i \in 1..Len(writes') :
                   /\ pack'[writes'[i].in] # None
                   /\ SparesIn(pack'[writes'[i].in], writes'[i], tool)
             /\ \A i, j \in 1..Len(writes') :
                   i # j /\ writes'[i].what = "file" /\ writes'[j].what = "file"
                       => writes'[i].name # writes'[j].name
  <2>1. pack[q] # None /\ SparesIn(pack[q], w, tool)
    BY <1>1, <1>9 DEF ToolsInv, Planned
  <2>2. pack[q] \in Tools!Pack
    BY <1>2, <2>1 DEF PackNone
  <2>3. Tools!Written(pack[q], w) # None
    BY <1>4, <2>1 DEF SparesIn, Tools!Written
  <2>4. ASSUME NEW i \in 1..Len(writes')
        PROVE  pack'[writes'[i].in] # None /\ SparesIn(pack'[writes'[i].in], writes'[i], tool)
    <3> DEFINE v == writes'[i]
    <3>1. /\ v \in ToolWrites /\ v.in \in Package
          /\ pack[v.in] # None /\ SparesIn(pack[v.in], v, tool)
          /\ w.what = "pack" <=> v.what = "pack"
          /\ w.what = "file" /\ v.what = "file" => w.name # v.name
      BY <1>1, <1>6, <1>9 DEF ToolsInv, Planned
    <3>2. CASE v.in = q
      <4>1. pack'[v.in] = Tools!Written(pack[q], w)
        BY <1>2, <3>2 DEF ToolsInv
      <4>2. QED
        BY <1>1, <2>1, <2>2, <2>3, <3>1, <3>2, <4>1, SparesLater
    <3>3. CASE v.in # q
      BY <1>2, <3>1, <3>3 DEF ToolsInv
    <3>4. QED
      BY <3>2, <3>3
  <2>5. \A i, j \in 1..Len(writes') :
           i # j /\ writes'[i].what = "file" /\ writes'[j].what = "file"
               => writes'[i].name # writes'[j].name
    BY <1>1, <1>9 DEF ToolsInv, Planned
  <2>6. QED
    BY <2>1, <2>2, <2>3, <2>4, <2>5
<1>10. tool' = tool
  BY DEF Tools!Write
<1>11. ToolsInv'
  BY <1>1, <1>5, <1>7, <1>a, <1>8, <1>9, <1>10 DEF ToolsInv, Planned, AboutOne
<1>12. ASSUME NEW p \in Package, NEW s \in Identifier, NEW M \in SUBSET Identifier,
              AboutOne(tool), tool.skill # s, Tools!WorksWith(pack[p], s, M),
              ~Tools!UsesDeleted(pack[p], M)
       PROVE  Tools!Works(pack'[p], s)
  <2>1. CASE p = q
    <3>1. pack'[p] = Tools!Written(pack[q], w)
      BY <1>2, <2>1 DEF ToolsInv
    <3>2. tool.does = "delete" => \A m \in M : tool.entry \notin pack[q].files[m].uses
      BY <1>12, <2>1 DEF Tools!UsesDeleted
    <3>3. pack[q] \in Tools!Pack /\ SparesIn(pack[q], w, tool)
      BY <1>9, <1>12
    <3>4. QED
      BY <1>1, <1>12, <2>1, <3>1, <3>2, <3>3, Spared
  <2>2. CASE p # q
    BY <1>2, <1>12, <2>2 DEF ToolsInv, Tools!Works
  <2>3. QED
    BY <2>1, <2>2
<1>13. OthersKept
  BY <1>12 DEF OthersKept
<1>14. QED
  BY <1>11, <1>13

\* The next write is cut off: what is truncated is lost, and no more.
LEMMA CutStep ==
    ASSUME ToolsInv, Tools!InterruptedWriting
    PROVE  ToolsInv' /\ OthersKept
<1> DEFINE w == Head(writes)
           q == w.in
<1>1. w \in ToolWrites /\ w = writes[1] /\ 1 \in 1..Len(writes) /\ q \in Package
  BY HeadTailProperties DEF ToolsInv, Planned, Tools!InterruptedWriting, ToolWrites
<1>2. PICK c \in Tools!Cut(pack[q], w) : pack' = [pack EXCEPT ![q] = c]
  BY DEF Tools!InterruptedWriting
<1>3. /\ pack[q] \in PackNone
      /\ w.what # "pack" => pack[q] # None
      /\ w.what = "pack" /\ w.to = None => pack[q] # None
  BY <1>1 DEF ToolsInv, Planned
<1>4. c \in Tools!Pack
  BY <1>1, <1>3, CutPack
<1>5. ToolsInv'
  <2>1. pack' \in [Package -> PackNone]
    BY <1>2, <1>4 DEF ToolsInv, PackNone
  <2>2. writes' = <<>>
    BY DEF Tools!InterruptedWriting
  <2>3. QED
    BY <2>1, <2>2 DEF ToolsInv, Planned
<1>6. ASSUME NEW p \in Package, NEW s \in Identifier, NEW M \in SUBSET Identifier,
             AboutOne(tool), pack[p] # None, Tools!WorksWith(pack[p], s, M), ~Tools!LostByCut(M)
      PROVE  Tools!Works(pack'[p], s)
  <2>1. CASE p # q \/ pack' = pack
    BY <1>2, <1>6, <2>1 DEF ToolsInv, Tools!Works
  <2>2. CASE p = q /\ pack' # pack
    <3>1. tool # Tools!NoTool /\ tool' = Tools!NoTool
      BY <1>6 DEF AboutOne, Tools!NoTool, Tools!InterruptedWriting
    <3>2. ~Tools!Hits(w, M)
      BY <1>6, <2>2, <3>1 DEF Tools!LostByCut
    <3>3. pack[q] \in Tools!Pack /\ SparesIn(pack[q], w, tool)
      BY <1>1, <1>3, <1>6, <2>2 DEF ToolsInv, Planned, PackNone
    <3>4. pack'[p] = c
      BY <1>2, <2>2 DEF ToolsInv
    <3>5. QED
      BY <1>1, <1>6, <2>2, <3>2, <3>3, <3>4, CutSpares
  <2>3. QED
    BY <2>1, <2>2
<1>7. OthersKept
  BY <1>6 DEF OthersKept
<1>8. QED
  BY <1>5, <1>7

\* What a tool has planned is what it starts with.
LEMMA ToolStarts ==
    ASSUME ToolsInv, NEW t, NEW ws, Tools!Calls(t, ws), Planned(t, ws)
    PROVE  ToolsInv'
BY DEF ToolsInv, Planned, Tools!Calls, AboutOne

\* Plans one after the other.
LEMMA OneThenOther ==
    ASSUME NEW t, NEW a, NEW b, Planned(t, a), Planned(t, b),
           \A i \in 1..Len(a) : a[i].what # "pack", \A i \in 1..Len(b) : b[i].what # "pack",
           \A i \in 1..Len(a), j \in 1..Len(b) :
              a[i].what = "file" /\ b[j].what = "file" => ~AboutOne(t)
    PROVE  Planned(t, a \o b)
<1>1. a \in Seq(ToolWrites) /\ b \in Seq(ToolWrites) /\ Len(a) \in Nat /\ Len(b) \in Nat
  BY DEF Planned
<1>2. /\ a \o b \in Seq(ToolWrites)
      /\ Len(a \o b) = Len(a) + Len(b)
      /\ \A i \in 1..Len(a \o b) : (a \o b)[i] = IF i <= Len(a) THEN a[i] ELSE b[i - Len(a)]
  BY <1>1, ConcatProperties
<1>3. \A i \in 1..Len(a \o b) : i \in 1..Len(a) \/ i - Len(a) \in 1..Len(b)
  BY <1>1, <1>2
<1>4. \A i \in 1..Len(a \o b) :
         (a \o b)[i].what # "pack" /\ pack[(a \o b)[i].in] # None
  BY <1>1, <1>2, <1>3 DEF Planned
<1>5. ASSUME AboutOne(t), NEW i \in 1..Len(a \o b)
      PROVE  SparesIn(pack[(a \o b)[i].in], (a \o b)[i], t)
  BY <1>1, <1>2, <1>3, <1>5 DEF Planned
<1>6. ASSUME AboutOne(t), NEW i \in 1..Len(a \o b), NEW j \in 1..Len(a \o b), i # j,
             (a \o b)[i].what = "file", (a \o b)[j].what = "file"
      PROVE  (a \o b)[i].name # (a \o b)[j].name
  <2>1. CASE i <= Len(a) /\ j <= Len(a)
    BY <1>1, <1>2, <1>6, <2>1 DEF Planned
  <2>2. CASE ~(i <= Len(a)) /\ ~(j <= Len(a))
    <3>1. i - Len(a) \in 1..Len(b) /\ j - Len(a) \in 1..Len(b) /\ i - Len(a) # j - Len(a)
      BY <1>1, <1>2, <2>2, <1>6
    <3>2. QED
      BY <1>2, <1>6, <2>2, <3>1 DEF Planned
  <2>3. CASE i <= Len(a) /\ ~(j <= Len(a))
    BY <1>1, <1>2, <1>3, <1>6, <2>3
  <2>4. CASE ~(i <= Len(a)) /\ j <= Len(a)
    BY <1>1, <1>2, <1>3, <1>6, <2>4
  <2>5. QED
    BY <2>1, <2>2, <2>3, <2>4
<1>7. QED
  BY <1>2, <1>4, <1>5, <1>6 DEF Planned

LEMMA NothingPlanned == ASSUME NEW t PROVE Planned(t, <<>>)
BY DEF Planned

LEMMA ListOfOne == ASSUME NEW w PROVE <<>> \o <<w>> = <<w>>
<1>1. <<w>> \in Seq({w})
  OBVIOUS
<1>2. QED
  BY <1>1, ConcatEmptySeq

LEMMA ListOfTwo == ASSUME NEW v, NEW w PROVE <<v>> \o <<w>> = <<v, w>>
<1>1. <<v>> \in Seq({v, w}) /\ <<w>> \in Seq({v, w}) /\ Len(<<v>>) = 1 /\ Len(<<w>>) = 1
  OBVIOUS
<1>2. /\ <<v>> \o <<w>> \in Seq({v, w}) /\ Len(<<v>> \o <<w>>) = 2
      /\ (<<v>> \o <<w>>)[1] = v /\ (<<v>> \o <<w>>)[2] = w
  BY <1>1, ConcatProperties
<1>3. /\ <<v, w>> \in Seq({v, w}) /\ Len(<<v, w>>) = 2
      /\ <<v, w>>[1] = v /\ <<v, w>>[2] = w
  OBVIOUS
<1>4. \A i \in 1..Len(<<v>> \o <<w>>) : (<<v>> \o <<w>>)[i] = <<v, w>>[i]
  BY <1>2, <1>3
<1>5. QED
  BY ONLY <1>2, <1>3, <1>4, SeqEqual

\* One write.
LEMMA OnePlanned ==
    ASSUME NEW t, NEW w \in ToolWrites,
           w.what # "pack" \/ w.to = None => pack[w.in] # None,
           AboutOne(t) => pack[w.in] # None /\ SparesIn(pack[w.in], w, t)
    PROVE  Planned(t, <<w>>)
BY DEF Planned

\* A file each of finitely many modules, listed in some order.
LEMMA ListPlanned ==
    ASSUME NEW t, NEW T \in SUBSET ToolWrites, IsFiniteSet(T),
           \A v \in T : /\ v.what = "file" /\ pack[v.in] # None
                        /\ AboutOne(t) => SparesIn(pack[v.in], v, t),
           \A v, w \in T : v # w => v.name # w.name
    PROVE  /\ Planned(t, Tools!SetToSeq(T))
           /\ \A i \in 1..Len(Tools!SetToSeq(T)) : Tools!SetToSeq(T)[i].what = "file"
<1> DEFINE ws == Tools!SetToSeq(T)
<1>1. ws \in Seq(T) /\ \A i, j \in 1..Len(ws) : i # j => ws[i] # ws[j]
  BY Listed
<1> HIDE DEF ws
<1>2. \A i \in 1..Len(ws) : ws[i] \in T
  BY <1>1, ElementOfSeq
<1>3. ws \in Seq(ToolWrites)
  BY <1>1
<1>4. \A i \in 1..Len(ws) :
         /\ ws[i].what = "file" /\ pack[ws[i].in] # None
         /\ AboutOne(t) => SparesIn(pack[ws[i].in], ws[i], t)
  BY <1>2
<1>5. \A i, j \in 1..Len(ws) : i # j => ws[i].name # ws[j].name
  BY <1>1, <1>2
<1>6. QED
  BY <1>3, <1>4, <1>5 DEF Planned, ws

LEMMA NewPlanned ==
    ASSUME ToolsInv, NEW p \in Package, NEW s \in Identifier, NEW m \in Identifier,
           Tools!NewSkill(p, s, m)
    PROVE  ToolsInv'
<1> DEFINE k == pack[p]
           have == k.files[m]
           t == [does |-> "new", in |-> p, skill |-> s]
           v == Tools!WritesFile(p, m, Tools!Made(have, s))
           w == Tools!WritesEntry(p, s, [module |-> m, func |-> s])
           last == IF k.table THEN <<w>> ELSE <<>>
<1>1. k \in Tools!Pack /\ k # None
  BY DEF ToolsInv, PackNone, Tools!NewSkill, Tools!Is
<1>2. have \in Tools!File \cup {None}
  BY <1>1 DEF Tools!Pack
<1>3. /\ Tools!Made(have, s) \in Tools!File
      /\ have # None => Adds(have, Tools!Made(have, s))
  <2>1. CASE have = None
    BY <2>1 DEF Tools!Made, Tools!File
  <2>2. CASE have # None
    <3>1. have \in Tools!File /\ (Tools!Made(have, s) = IF have.parses THEN
                                   [have EXCEPT !.defs = have.defs \cup {s}] ELSE have)
      BY <1>2, <2>2 DEF Tools!Made
    <3>2. \A f \in Tools!File : /\ [f EXCEPT !.defs = f.defs \cup {s}] \in Tools!File
                                /\ Adds(f, f) /\ Adds(f, [f EXCEPT !.defs = f.defs \cup {s}])
      <4> SUFFICES ASSUME NEW f \in Tools!File
                   PROVE  /\ [f EXCEPT !.defs = f.defs \cup {s}] \in Tools!File
                          /\ Adds(f, f) /\ Adds(f, [f EXCEPT !.defs = f.defs \cup {s}])
        OBVIOUS
      <4> DEFINE g == [f EXCEPT !.defs = f.defs \cup {s}]
      <4>1. g \in Tools!File /\ g.defs = f.defs \cup {s} /\ g.uses = f.uses /\ g.parses = f.parses
        BY DEF Tools!File
      <4>2. f # None /\ g # None
        BY <4>1, PackagesAssumption
      <4> HIDE DEF g
      <4>3. Adds(f, f) /\ Adds(f, g)
        BY <4>1, <4>2 DEF Adds
      <4>4. QED
        BY <4>1, <4>3 DEF g
    <3>3. CASE have.parses
      BY <3>1, <3>2, <3>3
    <3>4. CASE ~have.parses
      BY <3>1, <3>2, <3>4
    <3>5. QED
      BY <3>3, <3>4
  <2>3. QED
    BY <2>1, <2>2
<1>4. v \in ToolWrites /\ v.what = "file" /\ v.in = p /\ v.name = m /\ v.to = Tools!Made(have, s)
  BY <1>3 DEF Tools!WritesFile, ToolWrites
<1>5. w \in ToolWrites /\ w.what = "entry" /\ w.in = p /\ w.name = s
  BY DEF Tools!WritesEntry, ToolWrites, Tools!Entry
<1>6. SparesIn(k, v, t) /\ SparesIn(k, w, t)
  BY <1>3, <1>4, <1>5 DEF SparesIn
<1>7. Tools!Calls(t, <<v>> \o last)
  BY DEF Tools!NewSkill, Tools!Registers
<1> HIDE DEF v, w, t
<1>8. Planned(t, <<v>>)
  BY <1>1, <1>4, <1>6, OnePlanned
<1>9. Planned(t, last) /\ \A i \in 1..Len(last) : last[i] = w
  <2>1. CASE k.table
    <3>1. \A i \in 1..Len(<<w>>) : <<w>>[i] = w
      OBVIOUS
    <3>2. QED
      BY <1>1, <1>5, <1>6, <2>1, <3>1, OnePlanned
  <2>2. CASE ~k.table
    BY <2>2, NothingPlanned
  <2>3. QED
    BY <2>1, <2>2
<1> HIDE DEF last
<1>10. \A i \in 1..Len(<<v>>) : <<v>>[i] = v
  OBVIOUS
<1>11. v.what # "pack" /\ w.what # "pack" /\ w.what # "file"
  BY <1>4, <1>5
<1>12. Planned(t, <<v>> \o last)
  BY <1>8, <1>9, <1>10, <1>11, OneThenOther
<1>13. QED
  BY <1>7, <1>12, ToolStarts

LEMMA ExternalPlanned ==
    ASSUME ToolsInv, NEW p \in Package, NEW s \in Identifier, Tools!NewExternal(p, s)
    PROVE  ToolsInv'
<1> DEFINE k == pack[p]
           t == [does |-> "new", in |-> p, skill |-> s]
           w == Tools!WritesPack(p, [k EXCEPT !.external = @ \cup {s}])
<1>1. k \in Tools!Pack /\ k # None
  BY DEF ToolsInv, PackNone, Tools!NewExternal, Tools!Is
<1>2. /\ w \in ToolWrites /\ w.what = "pack" /\ w.in = p /\ w.to \in Tools!Pack
      /\ w.to.files = k.files /\ w.to.config = k.config
  BY <1>1 DEF Tools!WritesPack, ToolWrites, Tools!Pack
<1>3. SparesIn(k, w, t) /\ w.to # None
  BY <1>2, PackagesAssumption DEF SparesIn
<1> HIDE DEF w
<1>4. Planned(t, <<w>>)
  BY <1>1, <1>2, <1>3, OnePlanned
<1>5. Tools!Calls(t, <<w>>)
  BY DEF Tools!NewExternal, w
<1>6. QED
  BY <1>4, <1>5, ToolStarts

LEMMA DeletePlanned ==
    ASSUME ToolsInv, NEW p \in Package, NEW s \in Identifier, Tools!DeleteSkill(p, s)
    PROVE  ToolsInv'
<1> DEFINE k == pack[p]
           e == k.config[s]
           others == {k.config[t] : t \in Tools!Registered(p) \ {s}}
           text == k.files[e.module]
           aliased == e \in others
           alone == \A o \in others : o.module # e.module
           gone == IF alone /\ text.defs = {e.func} THEN None ELSE Tools!Spliced(text, e.func)
           t == [does |-> "delete", in |-> p, skill |-> s, entry |-> e]
           v == Tools!WritesFile(p, e.module, gone)
           w == Tools!WritesEntry(p, s, None)
           first == IF aliased \/ text = None \/ e.func \notin text.defs THEN <<>> ELSE <<v>>
<1>1. k \in Tools!Pack /\ k # None /\ s \in Tools!Registered(p)
  BY DEF ToolsInv, PackNone, Tools!DeleteSkill, Tools!Is
<1>2. e \in Tools!Entry /\ e.module \in Identifier /\ text \in Tools!File \cup {None}
  BY <1>1 DEF Tools!Pack, Tools!Registered, Tools!Entry
<1>3. Tools!Calls(t, first \o <<w>>)
  BY DEF Tools!DeleteSkill, Tools!Unregisters
<1>4. w \in ToolWrites /\ w.what = "entry" /\ w.in = p /\ w.name = s
  BY DEF Tools!WritesEntry, ToolWrites
<1>5. SparesIn(k, w, t)
  BY <1>4 DEF SparesIn
<1>6. Planned(t, <<w>>)
  BY <1>1, <1>4, <1>5, OnePlanned
<1>7. CASE aliased \/ text = None \/ e.func \notin text.defs
  <2>1. first \o <<w>> = <<w>>
    BY <1>7, ListOfOne
  <2>2. QED
    BY <1>3, <1>6, <2>1, ToolStarts
<1>8. CASE ~(aliased \/ text = None \/ e.func \notin text.defs)
  <2>1. text \in Tools!File /\ gone \in Tools!File \cup {None}
    BY <1>2, <1>8 DEF Tools!Spliced, Tools!File
  <2>2. v \in ToolWrites /\ v.what = "file" /\ v.in = p /\ v.name = e.module /\ v.to = gone
    BY <1>2, <2>1 DEF Tools!WritesFile, ToolWrites
  <2>3. SparesIn(k, v, t)
    <3>1. ASSUME NEW u \in Identifier \ {s} PROVE k.config[u] # e
      BY <1>2, <1>8, PackagesAssumption DEF Tools!Registered
    <3>2. TakesOut(text, gone, e)
      <4>1. CASE alone /\ text.defs = {e.func}
        <5>1. gone = None
          BY <4>1
        <5>2. QED
          BY <4>1, <5>1 DEF TakesOut
      <4>2. CASE ~(alone /\ text.defs = {e.func})
        <5> DEFINE g == Tools!Spliced(text, e.func)
        <5>1. gone = g
          BY <4>2
        <5>2. /\ g \in Tools!File /\ g.defs = text.defs \ {e.func}
              /\ g.uses = text.uses /\ g.parses = text.parses
          BY <2>1 DEF Tools!Spliced, Tools!File
        <5>3. g # None
          BY <5>2, PackagesAssumption
        <5> HIDE DEF g, gone
        <5>4. QED
          BY <5>1, <5>2, <5>3 DEF TakesOut
      <4>3. QED
        BY <4>1, <4>2
    <3>3. TakesEntryOut(k, v, t)
      BY <1>2, <2>2, <3>1, <3>2 DEF TakesEntryOut
    <3>4. QED
      BY <2>2, <3>3 DEF SparesIn
  <2> HIDE DEF v, w
  <2>4. Planned(t, <<v>>)
    BY <1>1, <2>2, <2>3, OnePlanned
  <2>5. \A i \in 1..Len(<<v>>) : <<v>>[i] = v
    OBVIOUS
  <2>6. \A i \in 1..Len(<<w>>) : <<w>>[i] = w
    OBVIOUS
  <2>7. Planned(t, <<v>> \o <<w>>)
    BY <1>4, <1>6, <2>2, <2>4, <2>5, <2>6, OneThenOther
  <2>8. first = <<v>>
    BY <1>8
  <2>9. QED
    BY <1>3, <2>7, <2>8, ToolStarts
<1>9. QED
  BY <1>7, <1>8

LEMMA RenamePlanned ==
    ASSUME ToolsInv, NEW p \in Package, NEW old \in Identifier, NEW new \in Identifier,
           Tools!RenameSkill(p, old, new)
    PROVE  ToolsInv'
<1> DEFINE k == pack[p]
           word == k.config[old].func = old
           X == {m \in Tools!Modules(p) : Tools!RenamedFile(k.files[m], old, new) # k.files[m]}
           f == [m \in X |-> Tools!WritesFile(p, m, Tools!RenamedFile(k.files[m], old, new))]
           texts == Tools!SetToSeq({f[m] : m \in X})
           moved == Tools!MovesFile(p, old) /\ new \notin Tools!Modules(p)
           t == [does |-> "rename", in |-> p, skill |-> old, to |-> new,
                 told |-> word /\ Tools!MovesFile(p, old) /\ ~moved,
                 had |-> {s \in Identifier : Tools!Works(k, s)}]
           u == Tools!WritesConfig(p, Tools!RenamedConfig(k.config, old, new))
           v == Tools!WritesConfig(p, Tools!Rekeyed(k.config, old, new))
           w == Tools!Moves(p, old, new)
           last == IF moved THEN <<w>> ELSE <<>>
<1>1. k \in Tools!Pack /\ k # None
  BY DEF ToolsInv, PackNone, Tools!RenameSkill, Tools!Is
<1>2. k.config \in [Identifier -> Tools!Entry \cup {None}]
  BY <1>1 DEF Tools!Pack
<1>3. \A e \in Tools!Entry \cup {None} : Tools!RenamedEntry(e, old, new) \in Tools!Entry \cup {None}
  BY DEF Tools!RenamedEntry, Tools!Word, Tools!Entry
<1>4. Tools!RenamedConfig(k.config, old, new) \in [Identifier -> Tools!Entry \cup {None}]
  BY <1>2, <1>3 DEF Tools!RenamedConfig
<1>5. Tools!Rekeyed(k.config, old, new) \in [Identifier -> Tools!Entry \cup {None}]
  BY <1>2 DEF Tools!Rekeyed
<1>6. u \in ToolWrites /\ u.what = "config" /\ u.in = p
  BY <1>4 DEF Tools!WritesConfig, ToolWrites
<1>7. v \in ToolWrites /\ v.what = "config" /\ v.in = p
  BY <1>5 DEF Tools!WritesConfig, ToolWrites
<1>8. w \in ToolWrites /\ w.what = "move" /\ w.in = p
  BY DEF Tools!Moves, ToolWrites
<1>9. \A m \in X : k.files[m] \in Tools!File
  BY <1>1 DEF Tools!Modules, Tools!Pack
<1>10. \A m \in X : Tools!RenamedFile(k.files[m], old, new) \in Tools!File
  <2> SUFFICES ASSUME NEW m \in X PROVE Tools!RenamedFile(k.files[m], old, new) \in Tools!File
    OBVIOUS
  <2>1. \A e \in Tools!Entry : Tools!RenamedEntry(e, old, new) \in Tools!Entry
    <3>1. \A e \in Tools!Entry : e # None
      BY PackagesAssumption
    <3>2. QED
      BY <3>1 DEF Tools!RenamedEntry, Tools!Word, Tools!Entry
  <2>2. k.files[m].defs \in SUBSET Identifier /\ k.files[m].uses \in SUBSET Tools!Entry
    BY <1>9 DEF Tools!File
  <2> DEFINE D == Tools!Words(k.files[m].defs, old, new)
             U == {Tools!RenamedEntry(e, old, new) : e \in k.files[m].uses}
  <2>3. D \in SUBSET Identifier
    BY <2>2 DEF Tools!Words, Tools!Word
  <2>4. U \in SUBSET Tools!Entry
    BY <2>1, <2>2
  <2>5. Tools!RenamedFile(k.files[m], old, new) = [k.files[m] EXCEPT !.defs = D, !.uses = U]
    BY DEF Tools!RenamedFile
  <2> HIDE DEF D, U
  <2>6. QED
    BY <1>9, <2>3, <2>4, <2>5 DEF Tools!File
<1>11. X \in SUBSET Identifier
  BY DEF Tools!Modules
<1>12. \A m \in X : f[m] \in ToolWrites /\ f[m].what = "file" /\ f[m].name = m /\ f[m].in = p
  BY <1>10, <1>11 DEF Tools!WritesFile, ToolWrites
<1>13. ~AboutOne(t)
  BY DEF AboutOne
<1>14. DOMAIN f = X
  OBVIOUS
<1>15. IF word THEN Tools!Calls(t, <<u>> \o texts \o last) ELSE Tools!Calls(t, <<v>>)
  <2>1. texts = Tools!SetToSeq({Tools!WritesFile(p, m, Tools!RenamedFile(k.files[m], old, new)) :
                                   m \in X})
    <3>1. {f[m] : m \in X} =
             {Tools!WritesFile(p, m, Tools!RenamedFile(k.files[m], old, new)) : m \in X}
      OBVIOUS
    <3>2. QED
      BY <3>1
  <2>2. QED
    BY <2>1 DEF Tools!RenameSkill
<1> HIDE DEF u, v, w, f, t
<1>16. Planned(t, texts) /\ \A i \in 1..Len(texts) : texts[i].what = "file"
  <2> DEFINE T == {f[m] : m \in X}
  <2>1. \A x \in T : /\ x \in ToolWrites /\ x.what = "file" /\ pack[x.in] # None
                     /\ AboutOne(t) => SparesIn(pack[x.in], x, t)
    BY <1>1, <1>12, <1>13
  <2>2. \A x, y \in T : x # y => x.name # y.name
    BY <1>12
  <2>3. IsFiniteSet(T)
    BY <1>11, <1>14, FS_Subset, PackagesAssumption, ListedOf
  <2>4. texts = Tools!SetToSeq(T)
    OBVIOUS
  <2> HIDE DEF T, texts
  <2>5. QED
    BY <2>1, <2>2, <2>3, <2>4, ListPlanned
<1>17. Planned(t, <<u>>) /\ Planned(t, <<v>>) /\ Planned(t, <<w>>)
  BY <1>1, <1>6, <1>7, <1>8, <1>13, OnePlanned
<1>18. /\ \A i \in 1..Len(<<u>>) : <<u>>[i] = u
       /\ \A i \in 1..Len(<<w>>) : <<w>>[i] = w
  OBVIOUS
<1>19. Planned(t, last) /\ \A i \in 1..Len(last) : last[i].what # "pack"
  <2>1. CASE moved
    BY <1>8, <1>17, <1>18, <2>1
  <2>2. CASE ~moved
    BY <2>2, NothingPlanned
  <2>3. QED
    BY <2>1, <2>2
<1> HIDE DEF texts, last
<1>20. /\ Planned(t, <<u>> \o texts)
       /\ \A i \in 1..Len(<<u>> \o texts) : (<<u>> \o texts)[i].what # "pack"
  <2>1. Planned(t, <<u>> \o texts)
    BY <1>6, <1>13, <1>16, <1>17, <1>18, OneThenOther
  <2>2. /\ <<u>> \in Seq(ToolWrites) /\ texts \in Seq(ToolWrites) /\ Len(<<u>>) = 1
    BY <1>6, <1>16 DEF Planned
  <2>3. \A i \in 1..Len(<<u>> \o texts) :
           \/ (<<u>> \o texts)[i] = u
           \/ \E j \in 1..Len(texts) : (<<u>> \o texts)[i] = texts[j]
    <3>1. /\ Len(<<u>> \o texts) = 1 + Len(texts) /\ Len(texts) \in Nat
          /\ \A i \in 1..1 + Len(texts) :
                (<<u>> \o texts)[i] = IF i <= 1 THEN <<u>>[i] ELSE texts[i - 1]
      BY <2>2, ConcatProperties
    <3>2. QED
      BY <3>1
  <2>4. QED
    BY <1>6, <1>16, <2>1, <2>3
<1>21. Planned(t, <<u>> \o texts \o last)
  BY <1>13, <1>19, <1>20, OneThenOther
<1>22. QED
  BY <1>15, <1>17, <1>21, ToolStarts

LEMMA CopyPlanned ==
    ASSUME ToolsInv, NEW p \in Package, NEW q \in Package, NEW s \in Identifier,
           NEW deps \in BOOLEAN, NEW force \in BOOLEAN, Tools!CopySkill(p, q, s, deps, force)
    PROVE  ToolsInv'
<1> DEFINE k == pack[p]
           to == pack[q]
           m == k.config[s].module
           X == {n \in Tools!Needs(p, m, deps) : force \/ to.files[n] = None}
           f == [n \in X |-> Tools!WritesFile(q, n, k.files[n])]
           texts == Tools!SetToSeq({f[n] : n \in X})
           t == [does |-> "copy", in |-> q, skill |-> s, from |-> p, deps |-> deps, force |-> force]
           w == Tools!WritesEntry(q, s, k.config[s])
           last == IF s \in Tools!Registered(q) \/ ~to.table THEN <<>> ELSE <<w>>
<1>1. k \in Tools!Pack /\ k # None /\ to \in Tools!Pack /\ to # None
  BY DEF ToolsInv, PackNone, Tools!CopySkill, Tools!Is
<1>2. X \in SUBSET Identifier /\ \A n \in X : k.files[n] \in Tools!File
  BY <1>1 DEF Tools!Needs, Tools!Modules, Tools!Pack
<1>3. \A n \in X : /\ f[n] \in ToolWrites /\ f[n].what = "file" /\ f[n].name = n /\ f[n].in = q
                   /\ f[n].to = k.files[n]
  BY <1>2 DEF Tools!WritesFile, ToolWrites
<1>4. \A n \in X : AboutOne(t) => SparesIn(to, f[n], t)
  <2> SUFFICES ASSUME NEW n \in X, AboutOne(t)  PROVE SparesIn(to, f[n], t)
    OBVIOUS
  <2>1. to.files[n] = None
    BY DEF AboutOne
  <2> HIDE DEF f
  <2>2. QED
    BY <1>3, <2>1 DEF SparesIn
<1>5. w \in ToolWrites /\ w.what = "entry" /\ w.in = q /\ w.name = s
  BY <1>1 DEF Tools!WritesEntry, ToolWrites, Tools!Pack
<1>6. SparesIn(to, w, t)
  BY <1>5 DEF SparesIn
<1>7. t.skill = s /\ DOMAIN f = X
  OBVIOUS
<1>8. Tools!Calls(t, texts \o last)
  <2>1. {f[n] : n \in X} = {Tools!WritesFile(q, n, k.files[n]) : n \in X}
    OBVIOUS
  <2>2. texts = Tools!SetToSeq({Tools!WritesFile(q, n, k.files[n]) : n \in X})
    BY <2>1
  <2>3. QED
    BY <2>2 DEF Tools!CopySkill, Tools!Registers
<1> HIDE DEF f, w, t, X
<1>9. Planned(t, texts) /\ \A i \in 1..Len(texts) : texts[i].what = "file"
  <2> DEFINE T == {f[n] : n \in X}
  <2>1. \A x \in T : /\ x \in ToolWrites /\ x.what = "file" /\ pack[x.in] # None
                     /\ AboutOne(t) => SparesIn(pack[x.in], x, t)
    BY <1>1, <1>3, <1>4, <1>7
  <2>2. \A x, y \in T : x # y => x.name # y.name
    BY <1>3
  <2>3. IsFiniteSet(T)
    BY <1>2, <1>7, FS_Subset, PackagesAssumption, ListedOf
  <2>4. texts = Tools!SetToSeq(T)
    OBVIOUS
  <2> HIDE DEF T, texts
  <2>5. QED
    BY <2>1, <2>2, <2>3, <2>4, ListPlanned
<1>10. Planned(t, <<w>>) /\ \A i \in 1..Len(<<w>>) : <<w>>[i] = w
  BY <1>1, <1>5, <1>6, <1>7, OnePlanned
<1>11. Planned(t, last) /\ \A i \in 1..Len(last) : last[i].what = "entry"
  <2>1. CASE s \in Tools!Registered(q) \/ ~to.table
    BY <2>1, NothingPlanned
  <2>2. CASE ~(s \in Tools!Registered(q) \/ ~to.table)
    BY <1>5, <1>10, <2>2
  <2>3. QED
    BY <2>1, <2>2
<1> HIDE DEF texts, last
<1>12. Planned(t, texts \o last)
  BY <1>9, <1>11, OneThenOther
<1>13. QED
  BY <1>8, <1>12, ToolStarts

LEMMA ForkPlanned ==
    ASSUME ToolsInv, NEW p \in Package, NEW q \in Package, NEW reset \in BOOLEAN,
           NEW force \in BOOLEAN, Tools!NewRobot(p, q, reset, force)
    PROVE  ToolsInv'
<1> DEFINE k == pack[p]
           t == [does |-> "fork", in |-> q, from |-> p, reset |-> reset]
           u == Tools!WritesPack(q, None)
           v == Tools!Forked(p, q)
           w == Tools!WritesPack(q, IF reset THEN Tools!Reset(k) ELSE Tools!Carried(k))
           first == IF Tools!Is(q) THEN <<u>> ELSE <<>>
<1>1. k \in Tools!Pack
  BY DEF ToolsInv, PackNone, Tools!NewRobot, Tools!Is
<1>2. Tools!Carried(k) \in Tools!Pack
  BY <1>1 DEF Tools!Carried, Tools!Pack
<1>3. Tools!Reset(k) \in Tools!Pack
  BY <1>2, PackagesAssumption DEF Tools!Reset, Tools!Pack
<1>4. /\ u \in ToolWrites /\ u.what = "pack" /\ u.in = q
      /\ v \in ToolWrites /\ v.what = "pack" /\ v.to # None
      /\ w \in ToolWrites /\ w.what = "pack" /\ w.to # None
  BY <1>1, <1>2, <1>3, PackagesAssumption DEF Tools!Forked, Tools!WritesPack, ToolWrites
<1>5. Tools!Calls(t, first \o <<v, w>>)
  BY DEF Tools!NewRobot
<1>6. ~AboutOne(t)
  BY DEF AboutOne
<1> HIDE DEF t, u, v, w
<1>7. /\ first \in Seq(ToolWrites) /\ \A i \in 1..Len(first) : first[i].what = "pack"
      /\ Len(first) <= 1 /\ \A i \in 1..Len(first) : pack[first[i].in] # None
      /\ <<v, w>> \in Seq(ToolWrites)
      /\ \A i \in 1..Len(<<v, w>>) : <<v, w>>[i].what = "pack" /\ <<v, w>>[i].to # None
  BY <1>4 DEF Tools!Is
<1> HIDE DEF first
<1>8. /\ first \o <<v, w>> \in Seq(ToolWrites)
      /\ \A i \in 1..Len(first \o <<v, w>>) :
            /\ (first \o <<v, w>>)[i].what = "pack"
            /\ (first \o <<v, w>>)[i].to = None =>
                  i = 1 /\ pack[(first \o <<v, w>>)[i].in] # None
  <2>1. /\ first \o <<v, w>> \in Seq(ToolWrites) /\ Len(first) \in Nat
        /\ Len(first \o <<v, w>>) = Len(first) + Len(<<v, w>>)
        /\ \A i \in 1..Len(first) + Len(<<v, w>>) :
              (first \o <<v, w>>)[i] =
                  IF i <= Len(first) THEN first[i] ELSE <<v, w>>[i - Len(first)]
    BY <1>7, ConcatProperties
  <2>2. \A i \in 1..Len(first \o <<v, w>>) :
           i \in 1..Len(first) \/ i - Len(first) \in 1..Len(<<v, w>>)
    BY <2>1
  <2>3. QED
    BY <1>7, <2>1, <2>2
<1>9. Planned(t, first \o <<v, w>>)
  BY <1>6, <1>8 DEF Planned
<1>10. QED
  BY <1>5, <1>9, ToolStarts

LEMMA ToolsStep ==
    ASSUME ToolsInv, [Tools!Next]_(Tools!vars)
    PROVE  ToolsInv' /\ OthersKept
<1>1. CASE Tools!Write \/ Tools!InterruptedWriting
  BY <1>1, WriteStep, CutStep
<1>2. CASE Tools!Ends \/ Tools!Interrupted \/ UNCHANGED Tools!vars
  <2>1. /\ pack' = pack
        /\ (tool' = tool /\ writes' = writes) \/ writes' = <<>>
    BY <1>2 DEF Tools!Ends, Tools!Interrupted, Tools!vars
  <2>2. CASE writes' = <<>>
    BY <2>1, <2>2, NothingLost DEF ToolsInv, Planned
  <2>3. CASE tool' = tool /\ writes' = writes
    BY <2>1, <2>3, NothingLost DEF ToolsInv, Planned
  <2>4. QED
    BY <2>1, <2>2, <2>3, NothingLost
<1>3. ASSUME NEW p \in Package, NEW s \in Identifier,
             \/ \E m \in Identifier : Tools!NewSkill(p, s, m) \/ Tools!RenameSkill(p, s, m)
             \/ Tools!NewExternal(p, s) \/ Tools!DeleteSkill(p, s)
             \/ \E q \in Package, deps, force \in BOOLEAN : Tools!CopySkill(p, q, s, deps, force)
             \/ \E q \in Package, reset, force \in BOOLEAN : Tools!NewRobot(p, q, reset, force)
      PROVE  ToolsInv' /\ pack' = pack
  <2>1. pack' = pack
    BY <1>3 DEF Tools!NewSkill, Tools!RenameSkill, Tools!NewExternal, Tools!DeleteSkill,
                Tools!CopySkill, Tools!NewRobot, Tools!Calls
  <2>2. QED
    BY <1>3, <2>1, NewPlanned, RenamePlanned, ExternalPlanned, DeletePlanned, CopyPlanned, ForkPlanned
<1>4. ASSUME NEW p \in Package, NEW q \in Package, NEW reset \in BOOLEAN, NEW force \in BOOLEAN,
             Tools!NewRobot(p, q, reset, force)
      PROVE  ToolsInv' /\ pack' = pack
  BY <1>4, ForkPlanned DEF Tools!NewRobot, Tools!Calls
<1>5. QED
  BY <1>1, <1>2, <1>3, <1>4, NothingLost DEF Tools!Next

(***************************************************************************)
(* A tool about one skill leaves every other one working, however many     *)
(* packages, modules and skills there are and however they import one      *)
(* another; what it breaks are those that import what delete_skill removes *)
(* and those that need a file, or the table, whose write is cut off.       *)
(***************************************************************************)
THEOREM OtherSkillsStay == Tools!Spec => OthersStay
<1>1. Tools!Init => ToolsInv
  BY PackagesAssumption, NothingPlanned DEF Tools!Init, ToolsInv, PackNone
<1>2. ToolsInv /\ [Tools!Next]_(Tools!vars) => ToolsInv'
  BY ToolsStep
<1>3. ToolsInv /\ [Tools!Next]_(Tools!vars) =>
         [Tools!AboutOne =>
             \A p \in Package, s \in Identifier \ {tool.skill}, M \in SUBSET Identifier :
                /\ Tools!Is(p) /\ Tools!WorksWith(pack[p], s, M)
                /\ ~Tools!UsesDeleted(pack[p], M) /\ ~Tools!LostByCut(M)
                => Tools!Works(pack'[p], s)]_(Tools!vars)
  BY ToolsStep DEF OthersKept, AboutOne, Tools!AboutOne, Tools!Is
<1>4. QED
  BY <1>1, <1>2, <1>3, PTL DEF Tools!Spec, OthersStay, Tools!OthersStay

-----------------------------------------------------------------------------
(***************************************************************************)
(* SkillBook.  An edit looks at the names, so the proof does too: what a   *)
(* spelling means is what Spelled says, as long as the names are apart.    *)
(***************************************************************************)

BookOf == [Spelling -> Book!Skill \cup {None}]

\* Resolving finds one of the skills that answer to the spelling, if there is any.
LEMMA Resolving ==
    ASSUME NEW b \in BookOf, NEW c \in Spelling
    PROVE  /\ Book!Spelled(b, c) # {} => Book!Resolve(b, c) \in Book!Spelled(b, c)
           /\ Book!Spelled(b, c) = {} => Book!Resolve(b, c) = None
           /\ Book!Spelled(b, c) \subseteq Spelling
<1>1. Book!Meant(b, c) \subseteq Book!Spelled(b, c)
  BY DEF Book!Meant, Book!Spelled, Book!Known
<1>2. Book!Spelled(b, c) # {} => Book!Meant(b, c) # {}
  BY DEF Book!Meant
<1>3. QED
  BY <1>1, <1>2 DEF Book!Resolve, Book!Spelled, Book!Known

\* With the names apart, it finds the one that answers.
LEMMA ResolvesTo ==
    ASSUME NEW b \in BookOf, Book!NamesApart(b), NEW c \in Spelling
    PROVE  /\ \A s \in Book!Spelled(b, c) : Book!Resolve(b, c) = s
           /\ Book!Resolve(b, c) # None => Book!Spelled(b, c) = {Book!Resolve(b, c)}
           /\ Book!Resolve(b, c) = None => Book!Spelled(b, c) = {}
<1>1. \A s, t \in Book!Spelled(b, c) : s = t
  BY DEF Book!NamesApart
<1>2. QED
  BY <1>1, Resolving, NamesAssumption

\* Spellings of one name mean the same.
LEMMA SameName ==
    ASSUME NEW b \in BookOf, NEW c \in Spelling, NEW d \in Spelling, Norm[c] = Norm[d]
    PROVE  Book!Spelled(b, c) = Book!Spelled(b, d)
BY DEF Book!Spelled

(***************************************************************************)
(* A skill m is put into the book, or changed, with a name and aliases that *)
(* are free: m answers to nothing that another skill answers to.           *)
(***************************************************************************)
LEMMA PutSpelled ==
    ASSUME NEW b \in BookOf, Book!NamesApart(b), NEW m \in Spelling, NEW x \in Book!Skill,
           Book!AliasesFree(b, m, x.aliases), Book!Resolve(b, m) \in {None, m},
           NEW c \in Spelling
    PROVE  LET b2 == [b EXCEPT ![m] = x] IN
           /\ b2 \in BookOf /\ b2[m] = x /\ \A n \in Spelling : n # m => b2[n] = b[n]
           /\ \A s : s # m => (s \in Book!Spelled(b2, c) <=> s \in Book!Spelled(b, c))
           /\ \A s \in Book!Spelled(b, c) : s # m => m \notin Book!Spelled(b2, c)
<1> DEFINE b2 == [b EXCEPT ![m] = x]
<1>1. b2 \in BookOf /\ b2[m] = x /\ \A n \in Spelling : n # m => b2[n] = b[n]
  BY DEF BookOf
<1>2. x.aliases \subseteq Spelling
  BY DEF Book!Skill
<1> HIDE DEF b2
<1>3. \A s : s # m => (s \in Book!Spelled(b2, c) <=> s \in Book!Spelled(b, c))
  BY <1>1 DEF Book!Spelled, Book!Known
<1>4. ASSUME NEW s \in Book!Spelled(b, c), s # m, m \in Book!Spelled(b2, c) PROVE FALSE
  <2>1. s \in Spelling /\ b[s] # None
    BY <1>4 DEF Book!Spelled, Book!Known
  <2>2. Norm[c] # Norm[m]
    BY <1>4, <2>1, SameName, ResolvesTo, NamesAssumption
  <2>3. PICK a \in x.aliases : Norm[c] = Norm[a]
    BY <1>1, <1>4, <2>2 DEF Book!Spelled, Book!Known
  <2>4. a \in Spelling /\ s \in Book!Spelled(b, a)
    BY <1>2, <1>4, <2>3, SameName
  <2>5. s \in Book!Spelled([b EXCEPT ![m] = None], a)
    BY <1>4, <2>1, <2>4 DEF Book!Spelled, Book!Known, BookOf
  <2>6. QED
    BY <2>2, <2>3, <2>5 DEF Book!AliasesFree
<1>5. QED
  BY <1>1, <1>3, <1>4 DEF b2

\* With the aliases it had among them, what resolved resolves as before, and what did
\* not may be m now.
LEMMA PutResolves ==
    ASSUME NEW b \in BookOf, Book!NamesApart(b), NEW m \in Spelling, NEW x \in Book!Skill,
           Book!AliasesFree(b, m, x.aliases), Book!Resolve(b, m) \in {None, m},
           b[m] # None => b[m].aliases \subseteq x.aliases,
           NEW c \in Spelling
    PROVE  LET b2 == [b EXCEPT ![m] = x] IN
           /\ Book!Resolve(b, c) # None => Book!Resolve(b2, c) = Book!Resolve(b, c)
           /\ Book!Resolve(b, c) = None => Book!Resolve(b2, c) \in {None, m}
<1> DEFINE b2 == [b EXCEPT ![m] = x]
<1>1. /\ b2 \in BookOf /\ b2[m] = x
      /\ \A s : s # m => (s \in Book!Spelled(b2, c) <=> s \in Book!Spelled(b, c))
      /\ \A s \in Book!Spelled(b, c) : s # m => m \notin Book!Spelled(b2, c)
  BY PutSpelled
<1> HIDE DEF b2
<1>2. m \in Book!Spelled(b, c) => m \in Book!Spelled(b2, c)
  BY <1>1, NamesAssumption DEF Book!Spelled, Book!Known
<1>3. CASE Book!Resolve(b, c) # None
  <2>1. Book!Spelled(b, c) = {Book!Resolve(b, c)}
    BY <1>3, ResolvesTo
  <2>2. Book!Spelled(b2, c) = Book!Spelled(b, c)
    BY <1>1, <1>2, <2>1
  <2>3. QED
    BY <1>1, <1>3, <2>1, <2>2, Resolving DEF b2
<1>4. CASE Book!Resolve(b, c) = None
  <2>1. Book!Spelled(b2, c) \subseteq {m}
    BY <1>1, <1>4, ResolvesTo
  <2>2. Book!Resolve(b2, c) \in {None, m}
    BY <1>1, <2>1, Resolving
  <2>3. QED
    BY <1>4, <2>2 DEF b2
<1>5. QED
  BY <1>3, <1>4

\* A skill is deleted: what resolved to another one still does.
LEMMA DeleteResolves ==
    ASSUME NEW b \in BookOf, Book!NamesApart(b), NEW m \in Spelling,
           NEW c \in Spelling, Book!Resolve(b, c) # m
    PROVE  Book!Resolve([b EXCEPT ![m] = None], c) = Book!Resolve(b, c)
<1> DEFINE b2 == [b EXCEPT ![m] = None]
<1>1. b2 \in BookOf /\ b2[m] = None /\ \A n \in Spelling : n # m => b2[n] = b[n]
  BY DEF BookOf
<1> HIDE DEF b2
<1>2. Book!Spelled(b2, c) = Book!Spelled(b, c) \ {m}
  BY <1>1 DEF Book!Spelled, Book!Known
<1>3. m \notin Book!Spelled(b, c)
  BY ResolvesTo
<1>4. Book!Resolve(b2, c) = Book!Resolve(b, c)
  BY <1>1, <1>2, <1>3, Resolving, ResolvesTo, NamesAssumption
<1>5. QED
  BY <1>4 DEF b2

\* A rename touches the plans that call the skill, and in them only the calls.
OnlyCalls(b, b2, old, new) ==
    \A n \in Spelling : n \notin {old, new} =>
       /\ (b2[n] = None) = (b[n] = None)
       /\ b[n] # None =>
             /\ b2[n].plan = b[n].plan /\ b2[n].aliases = b[n].aliases
             /\ b2[n].calls = IF old \in b[n].calls
                              THEN (b[n].calls \ {old}) \cup {new} ELSE b[n].calls

LEMMA RenamedTyped ==
    ASSUME NEW b \in BookOf, NEW old \in Spelling, NEW new \in Spelling,
           old \in Book!Known(b), new \notin Book!Known(b)
    PROVE  LET b2 == Book!Renamed(b, old, new) IN
           /\ b2 \in BookOf /\ old # new /\ b2[old] = None /\ b2[new] = b[old]
           /\ OnlyCalls(b, b2, old, new)
<1> DEFINE b2 == Book!Renamed(b, old, new)
<1>1. old # new /\ b[old] \in Book!Skill /\ b[new] = None
  BY DEF Book!Known, BookOf
<1>2. b2[old] = None /\ b2[new] = b[old]
  BY <1>1 DEF Book!Renamed
<1>3. ASSUME NEW n \in Spelling, n \notin {old, new}
      PROVE  /\ b2[n] \in Book!Skill \cup {None} /\ (b2[n] = None <=> b[n] = None)
             /\ b[n] # None =>
                   /\ b2[n].plan = b[n].plan /\ b2[n].aliases = b[n].aliases
                   /\ b2[n].calls = IF old \in b[n].calls
                                    THEN (b[n].calls \ {old}) \cup {new} ELSE b[n].calls
  <2>1. b2[n] = IF b[n] = None \/ old \notin b[n].calls THEN b[n]
                ELSE [b[n] EXCEPT !.calls = (@ \ {old}) \cup {new}]
    BY <1>3 DEF Book!Renamed
  <2>2. CASE b[n] = None
    BY <2>1, <2>2
  <2>3. CASE b[n] # None
    <3>1. b[n] \in Book!Skill
      BY <2>3 DEF BookOf
    <3>2. b2[n] = [plan |-> b[n].plan, aliases |-> b[n].aliases,
                   calls |-> IF old \in b[n].calls
                             THEN (b[n].calls \ {old}) \cup {new} ELSE b[n].calls]
      BY <2>1, <2>3, <3>1 DEF Book!Skill
    <3>3. b2[n] \in Book!Skill
      BY <3>1, <3>2 DEF Book!Skill
    <3>4. QED
      BY <2>3, <3>2, <3>3, NamesAssumption
  <2>4. QED
    BY <2>2, <2>3
<1>4. b2 \in BookOf
  BY <1>1, <1>2, <1>3 DEF Book!Renamed, BookOf
<1> HIDE DEF b2
<1>5. OnlyCalls(b, b2, old, new)
  BY <1>3 DEF OnlyCalls
<1>6. QED
  BY <1>1, <1>2, <1>4, <1>5 DEF b2

(***************************************************************************)
(* A plan is renamed, to a name that no other skill answers to.            *)
(***************************************************************************)
LEMMA RenameSpelled ==
    ASSUME NEW b \in BookOf, Book!NamesApart(b), NEW old \in Spelling, NEW new \in Spelling,
           old \in Book!Known(b), new \notin Book!Known(b), Book!Resolve(b, new) \in {None, old}
    PROVE  LET b2 == Book!Renamed(b, old, new) IN
           /\ b2 \in BookOf /\ new \in Book!Known(b2) /\ b2[new] = b[old]
           /\ \A c \in Spelling : Book!Spelled(b2, c) \ {new} = Book!Spelled(b, c) \ {old}
           /\ \A c \in Spelling : \A s \in Book!Spelled(b, c) \ {old} : new \notin Book!Spelled(b2, c)
<1> DEFINE b2 == Book!Renamed(b, old, new)
<1>1. /\ b2 \in BookOf /\ old # new /\ b2[old] = None /\ b2[new] = b[old]
      /\ b[old] # None /\ b[new] = None /\ OnlyCalls(b, b2, old, new)
  BY RenamedTyped DEF Book!Known
<1> HIDE DEF b2
<1>2. \A n \in Spelling : n \notin {old, new} =>
         (b2[n] = None <=> b[n] = None) /\ (b[n] # None => b2[n].aliases = b[n].aliases)
  BY <1>1 DEF OnlyCalls
<1>3. \A c \in Spelling : Book!Spelled(b2, c) \ {new} = Book!Spelled(b, c) \ {old}
  BY <1>1, <1>2 DEF Book!Spelled, Book!Known
<1>4. ASSUME NEW c \in Spelling, NEW s \in Book!Spelled(b, c) \ {old}
      PROVE  new \notin Book!Spelled(b2, c)
  <2>1. Book!Spelled(b, c) = {s}
    BY <1>4 DEF Book!NamesApart
  <2>2. Norm[c] # Norm[new]
    BY <2>1, SameName, ResolvesTo, Resolving, NamesAssumption
  <2>3. \A a \in b[old].aliases : Norm[c] # Norm[a]
    BY <1>4, <2>1 DEF Book!Spelled
  <2>4. QED
    BY <1>1, <2>2, <2>3 DEF Book!Spelled
<1>5. new \in Book!Known(b2)
  BY <1>1 DEF Book!Known
<1>6. QED
  BY <1>1, <1>3, <1>4, <1>5 DEF b2

\* What resolved to another skill still does; the name of the plan, new in the other
\* plans, and its aliases go with it.
LEMMA RenameResolves ==
    ASSUME NEW b \in BookOf, Book!NamesApart(b), NEW old \in Spelling, NEW new \in Spelling,
           old \in Book!Known(b), new \notin Book!Known(b), Book!Resolve(b, new) \in {None, old},
           NEW c \in Spelling
    PROVE  LET b2 == Book!Renamed(b, old, new) IN
           /\ Book!Resolve(b2, new) = new /\ Book!Resolve(b2, old) \in {None, new}
           /\ Book!Resolve(b, c) \notin {None, old} => Book!Resolve(b2, c) = Book!Resolve(b, c)
           /\ Book!Resolve(b, c) = old /\ c \in b[old].aliases => Book!Resolve(b2, c) = new
<1> DEFINE b2 == Book!Renamed(b, old, new)
<1>1. /\ b2 \in BookOf /\ new \in Book!Known(b2) /\ b2[new] = b[old]
      /\ \A d \in Spelling : Book!Spelled(b2, d) \ {new} = Book!Spelled(b, d) \ {old}
      /\ \A d \in Spelling : \A s \in Book!Spelled(b, d) \ {old} : new \notin Book!Spelled(b2, d)
  BY RenameSpelled
<1> HIDE DEF b2
<1>2. Book!Resolve(b2, new) = new
  <2>1. Book!Spelled(b, new) \subseteq {old}
    BY ResolvesTo
  <2>2. Book!Spelled(b2, new) = {new}
    BY <1>1, <2>1 DEF Book!Spelled
  <2>3. QED
    BY <1>1, <2>2, Resolving
<1>3. Book!Resolve(b2, old) \in {None, new}
  <2>1. Book!Spelled(b, old) = {old}
    BY ResolvesTo, NamesAssumption DEF Book!Spelled
  <2>2. Book!Spelled(b2, old) \subseteq {new}
    BY <1>1, <2>1
  <2>3. QED
    BY <1>1, <2>2, Resolving
<1>4. ASSUME Book!Resolve(b, c) \notin {None, old}
      PROVE  Book!Resolve(b2, c) = Book!Resolve(b, c)
  <2>1. Book!Spelled(b, c) = {Book!Resolve(b, c)}
    BY <1>4, ResolvesTo
  <2>2. Book!Spelled(b2, c) = {Book!Resolve(b, c)}
    BY <1>1, <1>4, <2>1
  <2>3. QED
    BY <1>1, <2>2, Resolving
<1>5. ASSUME Book!Resolve(b, c) = old, c \in b[old].aliases
      PROVE  Book!Resolve(b2, c) = new
  <2>1. Book!Spelled(b, c) = {old}
    BY <1>5, ResolvesTo, NamesAssumption
  <2>2. new \in Book!Spelled(b2, c)
    BY <1>1, <1>5 DEF Book!Spelled
  <2>3. Book!Spelled(b2, c) = {new}
    BY <1>1, <2>1, <2>2
  <2>4. QED
    BY <1>1, <2>3, Resolving
<1>6. QED
  BY <1>2, <1>3, <1>4, <1>5 DEF b2

\* The calls of a plan are spellings.
LEMMA CallsSpelled ==
    ASSUME NEW b \in BookOf, NEW n \in Book!PlanSkills(b)
    PROVE  n \in Spelling /\ b[n] \in Book!Skill /\ b[n].calls \subseteq Spelling
BY DEF Book!PlanSkills, Book!Known, BookOf, Book!Skill

\* What a whole plan comes to run is the least set that holds it.
LEMMA LeastWhole ==
    ASSUME NEW b, NEW n, Book!Whole(b, n)
    PROVE  \E W \in SUBSET Book!Known(b) :
              /\ Book!ComesTo(b, n, W) /\ n \notin W
              /\ \A S \in SUBSET Book!Known(b) : Book!ComesTo(b, n, S) => W \subseteq S
<1> DEFINE W == {k \in Book!Known(b) :
                    \A S \in SUBSET Book!Known(b) : Book!ComesTo(b, n, S) => k \in S}
<1>1. PICK T \in SUBSET Book!Known(b) : Book!ComesTo(b, n, T) /\ n \notin T
  BY DEF Book!Whole
<1>2. W \subseteq T
  BY <1>1
<1>3. Book!ComesTo(b, n, W)
  BY <1>1 DEF Book!ComesTo
<1>4. QED
  BY <1>1, <1>2, <1>3

(***************************************************************************)
(* A plan that comes to run m may come to run what m calls now: that is a  *)
(* set the check of m's plan left m out of, so n is not in it either, or m *)
(* would have been.                                                        *)
(***************************************************************************)
LEMMA PutKeeps ==
    ASSUME NEW b \in BookOf, Book!NamesApart(b), NEW m \in Spelling, NEW x \in Book!Skill,
           Book!AliasesFree(b, m, x.aliases), Book!Resolve(b, m) \in {None, m},
           b[m] # None => b[m].aliases \subseteq x.aliases,
           x.plan => \/ m \in Book!PlanSkills(b) /\ x.calls = b[m].calls
                     \/ Book!ValidPlan(b, m, x.calls),
           NEW n \in Book!PlanSkills(b), n # m, Book!Whole(b, n)
    PROVE  LET b2 == [b EXCEPT ![m] = x] IN
           Book!Ends(b2, n) /\ Book!Runs(b2, n) = Book!Runs(b, n)
<1> DEFINE b2 == [b EXCEPT ![m] = x]
<1>1. b2 \in BookOf /\ b2[m] = x /\ \A k \in Spelling : k # m => b2[k] = b[k]
  BY DEF BookOf
<1>2. \A c \in Spelling :
         /\ Book!Resolve(b, c) # None => Book!Resolve(b2, c) = Book!Resolve(b, c)
         /\ Book!Resolve(b, c) = None => Book!Resolve(b2, c) \in {None, m}
  BY PutResolves
<1> HIDE DEF b2
<1>3. PICK W \in SUBSET Book!Known(b) :
         /\ Book!ComesTo(b, n, W) /\ n \notin W
         /\ \A S \in SUBSET Book!Known(b) : Book!ComesTo(b, n, S) => W \subseteq S
  BY LeastWhole
<1>4. Book!Known(b) \subseteq Book!Known(b2) /\ None \notin W /\ n \in Spelling
  BY <1>1, NamesAssumption DEF Book!Known, Book!PlanSkills
<1>5. ASSUME NEW k \in (W \cup {n}) \cap Book!PlanSkills(b), k # m
      PROVE  Book!Runs(b2, k) = Book!Runs(b, k) /\ Book!Runs(b, k) \subseteq W
  <2>1. Book!Runs(b, k) \subseteq W
    BY <1>3 DEF Book!ComesTo
  <2>2. b2[k] = b[k] /\ b[k].calls \subseteq Spelling
    BY <1>1, <1>5, CallsSpelled
  <2>3. \A c \in b[k].calls : Book!Resolve(b2, c) = Book!Resolve(b, c)
    BY <1>2, <1>4, <2>1, <2>2 DEF Book!Runs
  <2>4. QED
    BY <2>1, <2>2, <2>3 DEF Book!Runs
<1>6. \A k \in Spelling : k # m => (k \in Book!PlanSkills(b2) <=> k \in Book!PlanSkills(b))
  BY <1>1 DEF Book!PlanSkills, Book!Known
<1>7. Book!Runs(b2, n) = Book!Runs(b, n) /\ Book!Runs(b, n) \subseteq W
  BY <1>5
<1> SUFFICES Book!Ends(b2, n)
  BY <1>7 DEF b2
<1>8. ASSUME NEW S \in SUBSET (Book!Known(b2) \cup {None}), W \subseteq S, n \notin S,
             \A p \in S \cap Book!PlanSkills(b2) : Book!Runs(b2, p) \subseteq S
      PROVE  Book!Ends(b2, n)
  BY <1>7, <1>8 DEF Book!Ends, Book!ComesTo
<1>9. CASE m \in W /\ Book!ValidPlan(b, m, x.calls)
  <2> DEFINE g == Book!Graph(b, m, x.calls)
  <2>1. /\ x.calls \subseteq Spelling
        /\ \A c \in x.calls : c = m \/ Book!Resolve(b, c) # None
        /\ ~Book!Reaches(g, m)
    BY <1>9 DEF Book!ValidPlan, Book!Skill
  <2>2. PICK M \in SUBSET (Spelling \ {m}) :
           g[m] \subseteq M /\ \A k \in M \cap DOMAIN g : g[k] \subseteq M
    BY <2>1 DEF Book!Reaches
  <2>3. \A c \in x.calls : Book!Resolve(b, c) # None /\ Book!Resolve(b, c) \in M
    <3>1. g[m] = {Book!Canon(b, m, c) : c \in x.calls}
      BY DEF Book!Graph
    <3>2. QED
      BY <2>1, <2>2, <3>1 DEF Book!Canon
  <2>4. ASSUME NEW k \in M \cap Book!PlanSkills(b), NEW c \in b[k].calls
        PROVE  Book!Resolve(b, c) # None => Book!Resolve(b, c) \in M
    <3>1. k \in M \cap DOMAIN g /\ k # m
      BY <2>2, <2>4 DEF Book!Graph
    <3>2. g[k] = {Book!Canon(b, m, d) : d \in b[k].calls}
      BY <2>4, <3>1 DEF Book!Graph
    <3>3. Book!Canon(b, m, c) \in M
      BY <2>2, <2>4, <3>1, <3>2
    <3>4. QED
      BY <2>2, <3>3 DEF Book!Canon
  <2> HIDE DEF g
  <2>5. n \notin M
    <3>1. SUFFICES ASSUME n \in M PROVE FALSE
      OBVIOUS
    <3>2. \A k \in (W \cup {n}) \cap M \cap Book!PlanSkills(b) : Book!Runs(b, k) \subseteq W \cap M
      <4>1. TAKE k \in (W \cup {n}) \cap M \cap Book!PlanSkills(b)
      <4>2. Book!Runs(b, k) \subseteq W
        BY <1>5, <2>2, <4>1
      <4>3. QED
        BY <1>4, <2>4, <4>1, <4>2 DEF Book!Runs
    <3>3. Book!ComesTo(b, n, W \cap M)
      BY <3>1, <3>2 DEF Book!ComesTo
    <3>4. W \subseteq M
      BY <1>3, <3>3
    <3>5. QED
      BY <1>9, <2>2, <3>4
  <2> DEFINE S == W \cup (M \cap Book!Known(b)) \cup {m, None}
  <2>6. S \subseteq Book!Known(b2) \cup {None} /\ n \notin S
    <3>1. m \in Book!Known(b2) /\ n # None
      BY <1>4, <1>9, NamesAssumption
    <3>2. QED
      BY <1>3, <1>4, <2>5, <3>1
  <2>7. ASSUME NEW p \in S \cap Book!PlanSkills(b2) PROVE Book!Runs(b2, p) \subseteq S
    <3>0. p \in Spelling /\ b2[p].calls \subseteq Spelling
      BY <1>1, <2>7, CallsSpelled
    <3>1. CASE p = m
      <4>1. \A c \in x.calls : Book!Resolve(b2, c) = Book!Resolve(b, c)
                                  /\ Book!Resolve(b, c) \in M \cap Book!Known(b)
        BY <1>2, <2>1, <2>3, Resolving DEF Book!Spelled
      <4>2. QED
        BY <1>1, <3>1, <4>1 DEF Book!Runs
    <3>2. CASE p # m /\ p \in W
      BY <1>5, <1>6, <2>7, <3>0, <3>2
    <3>3. CASE p # m /\ p \in M
      <4>1. p \in Book!PlanSkills(b) /\ b2[p] = b[p]
        BY <1>1, <1>6, <2>7, <3>0, <3>3
      <4>2. \A c \in b[p].calls : Book!Resolve(b2, c) \in S
        <5>1. TAKE c \in b[p].calls
        <5>2. CASE Book!Resolve(b, c) = None
          BY <1>2, <3>0, <4>1, <5>1, <5>2
        <5>3. CASE Book!Resolve(b, c) # None
          <6>1. Book!Resolve(b, c) \in M
            BY <2>4, <3>3, <4>1, <5>1, <5>3
          <6>2. Book!Resolve(b, c) \in Book!Known(b)
            BY <3>0, <4>1, <5>1, <5>3, Resolving DEF Book!Spelled
          <6>3. QED
            BY <1>2, <3>0, <4>1, <5>1, <5>3, <6>1, <6>2
        <5>4. QED
          BY <5>2, <5>3
      <4>3. QED
        BY <4>1, <4>2 DEF Book!Runs
    <3>4. QED
      BY <1>4, <2>7, <3>0, <3>1, <3>2, <3>3, NamesAssumption
  <2>8. QED
    BY <1>8, <2>6, <2>7
<1>10. CASE ~(m \in W /\ Book!ValidPlan(b, m, x.calls))
  <2>1. ASSUME NEW p \in W \cap Book!PlanSkills(b2) PROVE Book!Runs(b2, p) \subseteq W
    <3>0. p \in Spelling
      BY DEF Book!Known
    <3>1. CASE p # m
      BY <1>5, <1>6, <2>1, <3>0, <3>1
    <3>2. CASE p = m
      <4>1. m \in Book!PlanSkills(b) /\ x.calls = b[m].calls
        BY <1>1, <1>10, <2>1, <3>2 DEF Book!PlanSkills
      <4>2. Book!Runs(b, m) \subseteq W /\ b[m].calls \subseteq Spelling
        BY <1>3, <2>1, <3>2, <4>1, CallsSpelled DEF Book!ComesTo
      <4>3. \A c \in b[m].calls : Book!Resolve(b2, c) = Book!Resolve(b, c)
        BY <1>2, <1>4, <4>2 DEF Book!Runs
      <4>4. QED
        BY <1>1, <3>2, <4>1, <4>2, <4>3 DEF Book!Runs
    <3>3. QED
      BY <3>1, <3>2
  <2>2. W \in SUBSET (Book!Known(b2) \cup {None})
    BY <1>4
  <2>3. QED
    BY <1>3, <1>8, <2>1, <2>2
<1>11. QED
  BY <1>9, <1>10

\* Nobody else comes to run a skill that no other plan calls.
LEMMA DeleteKeeps ==
    ASSUME NEW b \in BookOf, Book!NamesApart(b), NEW m \in Spelling,
           \A p \in Book!PlanSkills(b) \ {m} : \A c \in b[p].calls : Book!Resolve(b, c) # m,
           NEW n \in Book!PlanSkills(b), n # m, Book!Whole(b, n)
    PROVE  LET b2 == [b EXCEPT ![m] = None] IN
           Book!Ends(b2, n) /\ Book!Runs(b2, n) = Book!Runs(b, n)
<1> DEFINE b2 == [b EXCEPT ![m] = None]
<1>1. b2 \in BookOf /\ b2[m] = None /\ \A k \in Spelling : k # m => b2[k] = b[k]
  BY DEF BookOf
<1>2. \A k \in Book!PlanSkills(b) \ {m} : \A c \in b[k].calls :
         Book!Resolve(b2, c) = Book!Resolve(b, c) /\ Book!Resolve(b, c) # m
  BY CallsSpelled, DeleteResolves
<1> HIDE DEF b2
<1>3. PICK W \in SUBSET Book!Known(b) : Book!ComesTo(b, n, W) /\ n \notin W
  BY DEF Book!Whole
<1>4. n \in Book!PlanSkills(b) \ {m}
  OBVIOUS
<1>5. Book!PlanSkills(b2) = Book!PlanSkills(b) \ {m} /\ Book!Known(b2) = Book!Known(b) \ {m}
  BY <1>1 DEF Book!PlanSkills, Book!Known
<1>6. \A k \in Book!PlanSkills(b) \ {m} :
         Book!Runs(b2, k) = Book!Runs(b, k) /\ m \notin Book!Runs(b, k)
  <2>1. TAKE k \in Book!PlanSkills(b) \ {m}
  <2>2. b2[k] = b[k]
    BY <1>1, <2>1, CallsSpelled
  <2>3. QED
    BY <1>2, <2>1, <2>2 DEF Book!Runs
<1>7. Book!ComesTo(b2, n, W \ {m})
  BY <1>3, <1>4, <1>5, <1>6 DEF Book!ComesTo
<1>8. Book!Ends(b2, n) /\ Book!Runs(b2, n) = Book!Runs(b, n)
  BY <1>3, <1>4, <1>5, <1>6, <1>7 DEF Book!Ends
<1>9. QED
  BY <1>8 DEF b2

\* What k is called when old is called new.
After(old, new, k) == IF k = old THEN new ELSE k

(***************************************************************************)
(* A rename takes what a plan comes to run along, name by name.            *)
(***************************************************************************)
LEMMA RenameKeeps ==
    ASSUME NEW b \in BookOf, Book!NamesApart(b), NEW old \in Spelling, NEW new \in Spelling,
           old \in Book!PlanSkills(b), new \notin Book!Known(b),
           Book!Resolve(b, new) \in {None, old},
           \A p \in Book!PlanSkills(b) : \A c \in b[p].calls :
              Book!Resolve(b, c) = old => c \in {old} \cup b[old].aliases,
           NEW n \in Book!PlanSkills(b), Book!Whole(b, n)
    PROVE  LET b2 == Book!Renamed(b, old, new)
               to(k) == After(old, new, k)
           IN  Book!Ends(b2, to(n)) /\ Book!Runs(b2, to(n)) = {to(s) : s \in Book!Runs(b, n)}
<1> DEFINE b2 == Book!Renamed(b, old, new)
           to(k) == After(old, new, k)
<1>0. \A k : to(k) = IF k = old THEN new ELSE k
  BY DEF After
<1>1. PICK W \in SUBSET Book!Known(b) : Book!ComesTo(b, n, W) /\ n \notin W
  BY DEF Book!Whole
<1>2. /\ old # new /\ b[old] # None /\ b[new] = None
      /\ b2[old] = None /\ b2[new] = b[old] /\ OnlyCalls(b, b2, old, new)
  BY RenamedTyped DEF Book!Known, Book!PlanSkills
<1>3. \A k \in Spelling : k \notin {old, new} =>
         /\ b2[k] = None <=> b[k] = None
         /\ b[k] # None => /\ b2[k].plan = b[k].plan
                           /\ b2[k].calls = IF old \in b[k].calls
                                            THEN (b[k].calls \ {old}) \cup {new} ELSE b[k].calls
  <2> HIDE DEF b2
  <2>1. QED
    BY <1>2 DEF OnlyCalls
<1>4. /\ Book!Resolve(b2, new) = new
      /\ Book!Resolve(b2, old) \in {None, new}
      /\ \A c \in Spelling :
            /\ Book!Resolve(b, c) \notin {None, old} => Book!Resolve(b2, c) = Book!Resolve(b, c)
            /\ Book!Resolve(b, c) = old /\ c \in b[old].aliases => Book!Resolve(b2, c) = new
  BY RenameResolves DEF Book!PlanSkills
<1>5. Book!Resolve(b, old) = old
  <2>1. old \in Book!Spelled(b, old)
    BY <1>2 DEF Book!Spelled, Book!Known
  <2>2. QED
    BY <2>1, ResolvesTo
<1>6. /\ Book!Known(b2) = {to(k) : k \in Book!Known(b)}
      /\ Book!PlanSkills(b2) = {to(k) : k \in Book!PlanSkills(b)}
  <2>2. \A k \in Spelling : b2[k] # None <=> k = new \/ (k # old /\ b[k] # None)
    BY <1>2, <1>3
  <2>3. \A k \in Spelling : b2[k] # None => b2[k].plan = b[IF k = new THEN old ELSE k].plan
    BY <1>2, <1>3, <2>2
  <2> HIDE DEF b2
  <2>4. /\ \A k \in Book!Known(b) : to(k) \in Book!Known(b2) /\ b2[to(k)].plan = b[k].plan
        /\ \A k \in Book!Known(b2) : \E l \in Book!Known(b) : k = to(l)
    <3>1. \A k \in Book!Known(b) : k # new /\ b[k] # None /\ k \in Spelling
      BY DEF Book!Known
    <3>2. \A k \in Book!Known(b2) : k \in Spelling /\ b2[k] # None
      BY DEF Book!Known
    <3>3. old \in Book!Known(b)
      BY DEF Book!PlanSkills
    <3>4. QED
      BY <1>0, <2>2, <2>3, <3>1, <3>2, <3>3 DEF Book!Known
  <2>5. QED
    BY <2>4 DEF Book!PlanSkills
<1> HIDE DEF b2, to
<1>7. ASSUME NEW k \in (W \cup {n}) \cap Book!PlanSkills(b)
      PROVE  /\ Book!Runs(b2, to(k)) \subseteq {to(s) : s \in Book!Runs(b, k)} \cup {None}
             /\ k = n => Book!Runs(b2, to(k)) = {to(s) : s \in Book!Runs(b, k)}
             /\ Book!Runs(b, k) \subseteq W
  <2>1. Book!Runs(b, k) \subseteq W
    BY <1>1 DEF Book!ComesTo
  <2>2. k \in Spelling /\ b[k].calls \subseteq Spelling /\ k # new
    BY CallsSpelled DEF Book!PlanSkills
  <2>3. \A c \in b[k].calls : Book!Resolve(b, c) # None
    BY <2>1, NamesAssumption DEF Book!Runs, Book!Known
  <2>4. \A c \in b[k].calls : c # old => Book!Resolve(b2, c) = to(Book!Resolve(b, c))
    <3>1. TAKE c \in b[k].calls
    <3>2. CASE Book!Resolve(b, c) = old
      BY <1>0, <1>4, <2>2, <3>1, <3>2
    <3>3. CASE Book!Resolve(b, c) # old
      BY <1>0, <1>4, <2>2, <2>3, <3>1, <3>3
    <3>4. QED
      BY <3>2, <3>3
  <2>5. CASE k = old
    <3>1. b2[to(k)] = b[k]
      BY <1>0, <1>2, <2>5
    <3>2. \A c \in b[k].calls :
             Book!Resolve(b2, c) \in {to(Book!Resolve(b, c)), None}
      BY <1>0, <1>4, <1>5, <2>4
    <3>3. k = n => old \notin b[k].calls
      BY <1>1, <1>5, <2>1, <2>5 DEF Book!Runs
    <3>4. Book!Runs(b2, to(k)) \subseteq {to(s) : s \in Book!Runs(b, k)} \cup {None}
      BY <3>1, <3>2 DEF Book!Runs
    <3>5. k = n => Book!Runs(b2, to(k)) = {to(s) : s \in Book!Runs(b, k)}
      BY <2>4, <3>1, <3>3 DEF Book!Runs
    <3>6. QED
      BY <2>1, <3>4, <3>5
  <2>6. CASE k # old
    <3>1. to(k) = k /\ b[k] # None /\ to(old) = new
      BY <1>0, <2>6, NamesAssumption DEF Book!PlanSkills, Book!Known
    <3>2. b2[k].calls = IF old \in b[k].calls THEN (b[k].calls \ {old}) \cup {new}
                        ELSE b[k].calls
      BY <1>3, <2>2, <2>6, <3>1
    <3>3. CASE old \notin b[k].calls
      BY <2>1, <2>4, <3>1, <3>2, <3>3 DEF Book!Runs
    <3>4. CASE old \in b[k].calls
      <4>1. Book!Runs(b2, k) = {Book!Resolve(b2, c) : c \in b[k].calls \ {old}} \cup {new}
        BY <1>4, <3>2, <3>4 DEF Book!Runs
      <4>2. Book!Runs(b, k) = {Book!Resolve(b, c) : c \in b[k].calls \ {old}} \cup {old}
        BY <1>5, <3>4 DEF Book!Runs
      <4>3. QED
        BY <2>1, <2>4, <3>1, <4>1, <4>2
    <3>5. QED
      BY <3>3, <3>4
  <2>7. QED
    BY <2>5, <2>6
<1>8. \A k, l \in Book!Known(b) : to(k) = to(l) => k = l
  BY <1>0
<1> DEFINE S == {to(k) : k \in W} \cup {None}
<1>9. S \subseteq Book!Known(b2) \cup {None} /\ to(n) \notin S
  <2>1. n \in Book!Known(b) /\ to(n) \in Book!Known(b2)
    BY <1>6 DEF Book!PlanSkills
  <2>2. to(n) # None
    BY <2>1, NamesAssumption DEF Book!Known
  <2>3. QED
    BY <1>1, <1>6, <1>8, <2>1, <2>2
<1>10. \A p \in S \cap Book!PlanSkills(b2) : Book!Runs(b2, p) \subseteq S
  <2>1. TAKE p \in S \cap Book!PlanSkills(b2)
  <2>2. PICK k \in W : p = to(k)
    BY <2>1, NamesAssumption DEF Book!PlanSkills, Book!Known
  <2>3. k \in Book!PlanSkills(b)
    BY <1>6, <1>8, <2>1, <2>2 DEF Book!PlanSkills
  <2>4. QED
    BY <1>7, <2>2, <2>3
<1>11. Book!Runs(b2, to(n)) = {to(s) : s \in Book!Runs(b, n)} /\ Book!Runs(b, n) \subseteq W
  BY <1>7
<1>12. Book!ComesTo(b2, to(n), S)
  BY <1>10, <1>11 DEF Book!ComesTo
<1>13. Book!Ends(b2, to(n))
  BY <1>9, <1>12 DEF Book!Ends
<1>14. QED
  BY <1>11, <1>13 DEF b2, to

-----------------------------------------------------------------------------
(* The steps of the book.                                                  *)

BookInv == book \in BookOf

\* Adding and changing put one skill into the book, and nothing else does.
LEMMA PutStep ==
    ASSUME BookInv, NEW m \in Spelling,
           NEW called \in SUBSET Spelling, NEW aliases \in SUBSET Spelling,
           \/ \E plan \in BOOLEAN : Book!AddSkill(m, plan, called, aliases)
           \/ Book!UpdateSkill(m, called, aliases)
    PROVE  \E x \in Book!Skill :
              /\ book' = [book EXCEPT ![m] = x]
              /\ Book!AliasesFree(book, m, x.aliases) /\ Book!Resolve(book, m) \in {None, m}
              /\ x.plan => \/ m \in Book!PlanSkills(book) /\ x.calls = book[m].calls
                           \/ Book!ValidPlan(book, m, x.calls)
              /\ edit'.what \in {"add", "update"} /\ edit'.skill = m
<1>1. ASSUME NEW plan \in BOOLEAN, Book!AddSkill(m, plan, called, aliases)
      PROVE  \E x \in Book!Skill :
                /\ book' = [book EXCEPT ![m] = x]
                /\ Book!AliasesFree(book, m, x.aliases) /\ Book!Resolve(book, m) \in {None, m}
                /\ x.plan => Book!ValidPlan(book, m, x.calls)
                /\ edit'.what \in {"add", "update"} /\ edit'.skill = m
  <2> DEFINE x == [plan |-> plan, calls |-> called, aliases |-> aliases]
  <2>1. x \in Book!Skill
    BY DEF Book!Skill
  <2>2. QED
    BY <1>1, <2>1 DEF Book!AddSkill, Book!Edits
<1>2. CASE Book!UpdateSkill(m, called, aliases)
  <2> DEFINE x == [plan |-> book[m].plan, calls |-> called, aliases |-> aliases]
  <2>1. m \in Book!Known(book) /\ book[m] \in Book!Skill
    BY <1>2 DEF Book!UpdateSkill, Book!Known, BookInv, BookOf
  <2>2. x \in Book!Skill
    BY <2>1 DEF Book!Skill
  <2>3. book' = [book EXCEPT ![m] = x]
    <3>1. [[book[m] EXCEPT !.calls = called] EXCEPT !.aliases = aliases] = x
      <4>1. [book[m] EXCEPT !.calls = called]
              = [plan |-> book[m].plan, calls |-> called, aliases |-> book[m].aliases]
        BY <2>1 DEF Book!Skill
      <4>2. [[plan |-> book[m].plan, calls |-> called, aliases |-> book[m].aliases]
                EXCEPT !.aliases = aliases] = x
        OBVIOUS
      <4>3. QED
        BY <4>1, <4>2, Zenon
    <3>2. book' = [book EXCEPT ![m] = [[book[m] EXCEPT !.calls = called] EXCEPT !.aliases = aliases]]
      BY <1>2 DEF Book!UpdateSkill, BookInv, BookOf
    <3>3. QED
      BY <3>1, <3>2
  <2>4. Book!Resolve(book, m) = m
    BY <2>1 DEF Book!Resolve, Book!Meant
  <2>5. QED
    BY <1>2, <2>1, <2>2, <2>3, <2>4 DEF Book!UpdateSkill, Book!Edits, Book!PlanSkills
<1>3. QED
  BY <1>1, <1>2

LEMMA ReloadTyped == ASSUME BookInv, Book!Reload PROVE BookInv'
<1> DEFINE kept(n) == IF book[n] = None THEN {} ELSE book[n].aliases
<1>1. \A n \in Spelling : kept(n) \subseteq Spelling
  BY DEF BookInv, BookOf, Book!Skill
<1>2. \A n \in Spelling : [Book!Code EXCEPT !.aliases = kept(n)] \in Book!Skill
  BY <1>1 DEF Book!Code, Book!Skill
<1>3. QED
  BY <1>2 DEF Book!Reload, BookInv, BookOf

\* The names stay apart, but for a reload.
LEMMA BookStep ==
    ASSUME BookInv, [Book!Next]_(Book!vars)
    PROVE  /\ BookInv'
           /\ Book!NamesApart(book) /\ edit'.what # "reload" => Book!NamesApart(book')
<1>1. ASSUME NEW m \in Spelling, NEW called \in SUBSET Spelling, NEW aliases \in SUBSET Spelling,
             \/ \E plan \in BOOLEAN : Book!AddSkill(m, plan, called, aliases)
             \/ Book!UpdateSkill(m, called, aliases)
      PROVE  BookInv' /\ (Book!NamesApart(book) => Book!NamesApart(book'))
  <2>1. PICK x \in Book!Skill :
           /\ book' = [book EXCEPT ![m] = x]
           /\ Book!AliasesFree(book, m, x.aliases) /\ Book!Resolve(book, m) \in {None, m}
    BY <1>1, PutStep
  <2>2. BookInv'
    BY <2>1 DEF BookInv, BookOf
  <2>3. ASSUME Book!NamesApart(book) PROVE Book!NamesApart(book')
    <3>1. SUFFICES ASSUME NEW c \in Spelling,
                          NEW s \in Book!Spelled(book', c), NEW t \in Book!Spelled(book', c)
                   PROVE  s = t
      BY DEF Book!NamesApart
    <3>2. /\ \A r : r # m => (r \in Book!Spelled(book', c) <=> r \in Book!Spelled(book, c))
          /\ \A r \in Book!Spelled(book, c) : r # m => m \notin Book!Spelled(book', c)
      BY <2>1, <2>3, PutSpelled DEF BookInv
    <3>3. QED
      BY <2>3, <3>2 DEF Book!NamesApart
  <2>4. QED
    BY <2>2, <2>3
<1>2. ASSUME NEW old \in Spelling, NEW new \in Spelling, Book!RenamePlan(old, new)
      PROVE  BookInv' /\ (Book!NamesApart(book) => Book!NamesApart(book'))
  <2>1. /\ old \in Book!PlanSkills(book) /\ old \in Book!Known(book) /\ new \notin Book!Known(book)
        /\ Book!Resolve(book, new) \in {None, old} /\ book' = Book!Renamed(book, old, new)
    BY <1>2 DEF Book!RenamePlan, Book!PlanSkills
  <2>2. BookInv'
    BY <2>1, RenamedTyped DEF BookInv
  <2>3. ASSUME Book!NamesApart(book) PROVE Book!NamesApart(book')
    <3>1. SUFFICES ASSUME NEW c \in Spelling,
                          NEW s \in Book!Spelled(book', c), NEW t \in Book!Spelled(book', c)
                   PROVE  s = t
      BY DEF Book!NamesApart
    <3>2. /\ Book!Spelled(book', c) \ {new} = Book!Spelled(book, c) \ {old}
          /\ \A r \in Book!Spelled(book, c) \ {old} : new \notin Book!Spelled(book', c)
      BY <2>1, <2>3, RenameSpelled DEF BookInv
    <3>3. \A q, r \in Book!Spelled(book, c) : q = r
      BY <2>3 DEF Book!NamesApart
    <3>4. QED
      BY <3>2, <3>3
  <2>4. QED
    BY <2>2, <2>3
<1>3. ASSUME NEW m \in Spelling, Book!DeleteSkill(m)
      PROVE  BookInv' /\ (Book!NamesApart(book) => Book!NamesApart(book'))
  <2>1. BookInv' /\ book' = [book EXCEPT ![m] = None]
    BY <1>3 DEF Book!DeleteSkill, BookInv, BookOf
  <2>2. \A c \in Spelling : Book!Spelled(book', c) \subseteq Book!Spelled(book, c)
    BY <2>1 DEF Book!Spelled, Book!Known, BookInv, BookOf
  <2>3. QED
    BY <2>1, <2>2 DEF Book!NamesApart
<1>4. CASE Book!Reload
  BY <1>4, ReloadTyped DEF Book!Reload
<1>5. CASE UNCHANGED Book!vars
  BY <1>5 DEF Book!vars, BookInv
<1>6. QED
  BY <1>1, <1>2, <1>3, <1>4, <1>5 DEF Book!Next, Book!AtMost

\* What an edit does to another plan.
LEMMA EditStep ==
    ASSUME BookInv, Book!Next, edit'.what # "reload", Book!NamesApart(book),
           ~Book!TakesAliases, ~Book!OtherSpelling,
           NEW n \in Book!PlanSkills(book), Book!Whole(book, n),
           edit'.skill # n \/ edit'.what = "rename"
    PROVE  /\ Book!Ends(book', Book!Now(n))
           /\ Book!Runs(book', Book!Now(n)) = {Book!Now(s) : s \in Book!Runs(book, n)}
<1>1. ASSUME NEW m \in Spelling, NEW called \in SUBSET Spelling, NEW aliases \in SUBSET Spelling,
             \/ \E plan \in BOOLEAN : Book!AddSkill(m, plan, called, aliases)
             \/ Book!UpdateSkill(m, called, aliases)
      PROVE  Book!Ends(book', n) /\ Book!Runs(book', n) = Book!Runs(book, n) /\ edit'.what # "rename"
  <2>1. PICK x \in Book!Skill :
           /\ book' = [book EXCEPT ![m] = x]
           /\ Book!AliasesFree(book, m, x.aliases) /\ Book!Resolve(book, m) \in {None, m}
           /\ x.plan => \/ m \in Book!PlanSkills(book) /\ x.calls = book[m].calls
                        \/ Book!ValidPlan(book, m, x.calls)
           /\ edit'.what \in {"add", "update"} /\ edit'.skill = m
    BY <1>1, PutStep
  <2>2. book'[m] = x
    BY <2>1 DEF BookInv, BookOf
  <2>3. book[m] # None => book[m].aliases \subseteq x.aliases
    BY <2>2, NamesAssumption DEF Book!TakesAliases, Book!Known
  <2>4. n # m /\ edit'.what # "rename"
    BY <2>1
  <2>5. QED
    BY <2>1, <2>3, <2>4, PutKeeps DEF BookInv
<1>2. ASSUME NEW old \in Spelling, NEW new \in Spelling, Book!RenamePlan(old, new)
      PROVE  /\ Book!Ends(book', Book!Now(n))
             /\ Book!Runs(book', Book!Now(n)) = {Book!Now(s) : s \in Book!Runs(book, n)}
  <2>1. /\ old \in Book!PlanSkills(book) /\ new \notin Book!Known(book)
        /\ Book!Resolve(book, new) \in {None, old} /\ book' = Book!Renamed(book, old, new)
        /\ edit'.what = "rename" /\ edit'.skill = old /\ edit'.to = new
    BY <1>2 DEF Book!RenamePlan, Book!Edits
  <2>2. \A p \in Book!PlanSkills(book) : \A c \in book[p].calls :
           Book!Resolve(book, c) = old => c \in {old} \cup book[old].aliases
    BY <2>1 DEF Book!OtherSpelling
  <2>3. \A k : Book!Now(k) = After(old, new, k)
    BY <2>1 DEF Book!Now, After
  <2>4. /\ Book!Ends(book', After(old, new, n))
        /\ Book!Runs(book', After(old, new, n)) = {After(old, new, s) : s \in Book!Runs(book, n)}
    BY <2>1, <2>2, RenameKeeps DEF BookInv
  <2>5. QED
    BY <2>3, <2>4
<1>3. ASSUME NEW m \in Spelling, Book!DeleteSkill(m)
      PROVE  Book!Ends(book', n) /\ Book!Runs(book', n) = Book!Runs(book, n) /\ edit'.what # "rename"
  <2>1. /\ \A p \in Book!PlanSkills(book) \ {m} : \A c \in book[p].calls : Book!Resolve(book, c) # m
        /\ book' = [book EXCEPT ![m] = None]
        /\ edit'.what = "delete" /\ edit'.skill = m
    BY <1>3 DEF Book!DeleteSkill, Book!Edits
  <2>2. n # m /\ edit'.what # "rename"
    BY <2>1
  <2>3. QED
    BY <2>1, <2>2, DeleteKeeps DEF BookInv
<1>4. ~Book!Reload
  BY DEF Book!Reload
<1>5. edit'.what # "rename" => \A k : Book!Now(k) = k
  BY DEF Book!Now
<1>6. QED
  BY <1>1, <1>2, <1>3, <1>4, <1>5 DEF Book!Next, Book!AtMost

LEMMA BookInit == Book!Init => BookInv
<1>1. Book!Code \in Book!Skill
  BY DEF Book!Code, Book!Skill
<1>2. QED
  BY <1>1, NamesAssumption DEF Book!Init, BookInv, BookOf

(***************************************************************************)
(* check_aliases, and the checks of a new name: no edit but a reload makes *)
(* two skills answer to one spelling, in however long a run of edits.      *)
(***************************************************************************)
THEOREM NamesStayApart ==
    Book!Spec => [][Book!NamesApart(book) /\ edit'.what # "reload" => Book!NamesApart(book')]_(Book!vars)
<1>1. BookInv /\ [Book!Next]_(Book!vars) => BookInv'
  BY BookStep
<1>2. BookInv /\ [Book!Next]_(Book!vars) =>
         [Book!NamesApart(book) /\ edit'.what # "reload" => Book!NamesApart(book')]_(Book!vars)
  BY BookStep
<1>3. QED
  BY <1>1, <1>2, BookInit, PTL DEF Book!Spec

(***************************************************************************)
(* validate_plan, rename_calls and the check of a deletion: an edit leaves *)
(* the other plans running what they ran, and never in a circle, however   *)
(* many skills and plans of plans there are.                               *)
(***************************************************************************)
THEOREM PlansKept == Book!Spec => EditsKeepPlans
<1>1. BookInv /\ [Book!Next]_(Book!vars) => BookInv'
  BY BookStep
<1>2. BookInv /\ [Book!Next]_(Book!vars) =>
         [edit'.what \notin {"none", "reload"} /\ Book!NamesApart(book)
             /\ ~Book!TakesAliases /\ ~Book!OtherSpelling =>
             \A n \in Book!PlanSkills(book) :
                Book!Whole(book, n) /\ (edit'.skill # n \/ edit'.what = "rename")
                => Book!Ends(book', Book!Now(n))
                     /\ Book!Runs(book', Book!Now(n)) = {Book!Now(s) : s \in Book!Runs(book, n)}]_(Book!vars)
  BY EditStep
<1>3. QED
  BY <1>1, <1>2, BookInit, PTL DEF Book!Spec, EditsKeepPlans, Book!EditsKeepPlans
=============================================================================
