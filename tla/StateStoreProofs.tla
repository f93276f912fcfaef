-------------------------- MODULE StateStoreProofs --------------------------
(***************************************************************************)
(* The state file is one durable register, memory is the file, and neither *)
(* a backup nor a restore loses a line or a state, for any number of       *)
(* processes, updates and failures.                                        *)
(***************************************************************************)
EXTENDS StateStore, Recordings, FiniteSetTheorems, TLAPS

\* state.lock is held from Open to Close, and by one process.
HolderIsInside == \A p \in Procs : lock = p <=> pc[p] \notin {"down", "looked"}

\* Until it has read the file a process knows nothing.
NothingRead ==
  \A p \in Procs : pc[p] \in {"down", "looked", "locked", "keying", "keyed"} =>
    old[p] = NoFile /\ mem[p] = NewState

\* Whoever has the store open has a file.
FileIsThere ==
  \A p \in Procs : pc[p] \in {"reading", "open", "renamed", "journal", "kept", "rotated", "installed"} =>
    file # NoFile

\* A save replaces what it goes back to, or more than that if the file could not
\* be read again ...
SaveStartsFromFile ==
  \A p \in Procs : pc[p] \in {"save", "temp"} =>
    \/ file = old[p]
    \/ p \in blind /\ old[p] # NoFile /\ file \notin {NoFile, Torn} /\ old[p] \subseteq file

\* ... by what is in memory.
SaveEndsInFile == \A p \in Procs : pc[p] = "renamed" => file = mem[p] /\ ~unsynced

\* What is being saved has an update more, which no archive has.
SaveAdds ==
  \A p \in Procs : pc[p] \in {"save", "temp", "renamed", "journal"} /\ old[p] # NoFile =>
    /\ old[p] \subseteq mem[p]
    /\ backup # <<>> => (mem[p] \ old[p]) \cap backup[1] = {}

\* Everything written holds updates that were tried.
OnlyTried ==
  /\ \A c \in {file, durable} \ {NoFile, Torn} : c \subseteq 1..tried
  /\ \A p \in Procs : mem[p] \subseteq 1..tried /\ (old[p] # NoFile => old[p] \subseteq 1..tried)
  /\ backup # <<>> => backup[1] \subseteq 1..tried

\* A restore has an archive, and before it commits a copy of the state it saw.
RestoreIsReady ==
  \A p \in Procs :
    /\ had[p] # {} => backup # <<>>
    /\ pc[p] \in {"kept", "rotated", "installed"} => had[p] # {}
    /\ pc[p] \in {"kept", "rotated"} /\ "state" \in had[p] => kept = file

\* The journal still has the lines of the archive.
ArchivedLinesRemain == backup # <<>> => backup[2] \subseteq live \cup past

SaveInv == SaveStartsFromFile /\ SaveEndsInFile /\ SaveAdds /\ OnlyTried
StoreInv ==
  /\ TypeOK /\ HolderIsInside /\ NothingRead /\ FileIsThere /\ MemoryIsTheFile
  /\ SaveInv /\ RestoreIsReady /\ ArchivedLinesRemain

\* Whatever a power failure leaves has every acknowledged update.
AckedIsEverywhere ==
  \A v \in May : v = Torn \/ (v = NoFile /\ acked = {}) \/ (v \in States /\ acked \subseteq v)

-----------------------------------------------------------------------------
(* What the operators of the store give. *)

\* States are closed under what the store does with them.
LEMMA StatesClosed ==
  /\ {} \in States
  /\ \A a, b \in States : a \cup b \in States /\ a \cap b \in States /\ a \ b \in States
  /\ \A a \in States, n \in 1..MaxUpdates : a \cup {n} \in States
BY DEF States, Updates

\* A process that only moves on stays well typed,
LEMMA StepTypes ==
  ASSUME ProcsOK, NEW p \in Procs, NEW from,
         NEW to \in {"keying", "keyed", "open", "save", "temp", "renamed", "journal", "kept", "rotated", "installed"},
         Step(p, from, to)
  PROVE  ProcsOK'
BY DEF Step, Goes, ProcsOK

\* one that leaves too,
LEMMA LeaveTypes ==
  ASSUME ProcsOK, NEW p \in Procs, Leave(p) PROVE ProcsOK'
BY StatesClosed DEF Leave, ProcsOK, NewState

\* and one whose save failed.
LEMMA RollbackTypes ==
  ASSUME ProcsOK, NEW p \in Procs, rollback(p) PROVE ProcsOK'
<1>1. CASE old[p] = NoFile
  BY <1>1, LeaveTypes DEF rollback
<1>2. CASE old[p] # NoFile
  <2>1. old[p] \in States /\ (file \notin {NoFile, old[p]}) \in BOOLEAN
    BY <1>2 DEF ProcsOK
  <2>2. (mem \in [Procs -> States])'
    BY <1>2, <2>1 DEF rollback, ProcsOK
  <2>3. (ro \in [Procs -> BOOLEAN])' /\ blind' \subseteq Procs
    BY <1>2, <2>1 DEF rollback, verifyDiskMatches, ProcsOK
  <2> QED
    BY <1>2, <2>2, <2>3 DEF rollback, ProcsOK
<1> QED
  BY <1>1, <1>2

\* which goes back to updates that were tried.
LEMMA RollbackTried ==
  ASSUME ProcsOK, NEW p \in Procs, rollback(p),
         \A q \in Procs : mem[q] \subseteq 1..tried /\ (old[q] # NoFile => old[q] \subseteq 1..tried)
  PROVE  \A q \in Procs : mem'[q] \subseteq 1..tried /\ (old'[q] # NoFile => old'[q] \subseteq 1..tried)
<1>1. CASE old[p] = NoFile
  BY <1>1 DEF rollback, Leave, ProcsOK, NewState
<1>2. CASE old[p] # NoFile
  BY <1>2 DEF rollback, ProcsOK
<1> QED
  BY <1>1, <1>2

\* It is not ahead of its file, which it has looked at or may not have.
LEMMA RollbackMemory ==
  ASSUME StoreInv, NEW p \in Procs, pc[p] \in {"save", "temp", "renamed"}, rollback(p), UNCHANGED file
  PROVE  FileIsThere' /\ MemoryIsTheFile'
<1> USE StoreAssumption DEF StoreInv, TypeOK
<1>1. \A q \in Procs \ {p} : pc[q] \in {"down", "looked"} /\ pc'[q] = pc[q]
  BY DEF HolderIsInside, rollback, Leave, ProcsOK
<1>2. CASE old[p] = NoFile
  <2>1. pc'[p] = "down"
    BY <1>2 DEF rollback, Leave, ProcsOK
  <2> QED
    BY <1>1, <2>1 DEF FileIsThere, MemoryIsTheFile
<1>3. CASE old[p] # NoFile
  <2>1. file # NoFile /\ file # Torn /\ old[p] \subseteq file
    <3>1. CASE pc[p] \in {"save", "temp"}
      BY <1>3, <3>1 DEF SaveInv, SaveStartsFromFile, ProcsOK
    <3>2. CASE pc[p] = "renamed"
      BY <1>3, <3>2 DEF SaveInv, SaveEndsInFile, SaveAdds, ProcsOK
    <3> QED
      BY <3>1, <3>2
  <2>2. pc'[p] = "open" /\ mem'[p] = old[p]
    BY <1>3 DEF rollback, ProcsOK
  <2>3. ro'[p] \/ file = old[p] \/ p \in blind'
    BY <1>3, <2>1 DEF rollback, verifyDiskMatches, ProcsOK
  <2>4. FileIsThere'
    BY <1>1, <2>1 DEF FileIsThere
  <2> QED
    BY <1>1, <2>1, <2>2, <2>3, <2>4 DEF MemoryIsTheFile
<1> QED
  BY <1>2, <1>3

-----------------------------------------------------------------------------
(* The invariant. *)

\* It holds before the first process.
LEMMA StoreInit == Init => StoreInv
<1> SUFFICES ASSUME Init PROVE StoreInv
  OBVIOUS
<1> USE StoreAssumption DEF Init, NewState
<1>1. FilesOK /\ ProcsOK
  BY DEF FilesOK, ProcsOK, IsContent, States
<1>2. BooksOK
  BY DEF BooksOK, States
<1>3. HolderIsInside /\ NothingRead /\ FileIsThere /\ MemoryIsTheFile
  BY DEF HolderIsInside, NothingRead, FileIsThere, MemoryIsTheFile
<1>4. SaveInv
  BY DEF SaveInv, SaveStartsFromFile, SaveEndsInFile, SaveAdds, OnlyTried
<1>5. RestoreIsReady /\ ArchivedLinesRemain
  BY DEF RestoreIsReady, ArchivedLinesRemain
<1> QED
  BY <1>1, <1>2, <1>3, <1>4, <1>5 DEF StoreInv, TypeOK

\* Opening the store and closing it keep the invariant.
LEMMA OpeningKeeps ==
  ASSUME StoreInv, NEW p \in Procs, Opening(p) PROVE StoreInv'
<1> USE StoreAssumption DEF StoreInv, TypeOK, Fault, disk, proc, journal, archives, NewState
<1>1. CASE Open(p)
  <2>1. FilesOK'
    BY <1>1 DEF Open, FilesOK, IsContent
  <2>2. ProcsOK'
    BY <1>1, StatesClosed DEF Open, Goes, ProcsOK, FilesOK, BooksOK, IsContent, FileIsThere
  <2>3. BooksOK'
    BY <1>1, StatesClosed DEF Open, BooksOK
  <2>4. HolderIsInside' /\ NothingRead'
    BY <1>1 DEF Open, Goes, HolderIsInside, NothingRead, ProcsOK
  <2>5. FileIsThere' /\ MemoryIsTheFile'
    BY <1>1 DEF Open, Goes, FileIsThere, MemoryIsTheFile, HolderIsInside, NothingRead, ProcsOK,
      SaveInv, SaveStartsFromFile, SaveEndsInFile
  <2>6. SaveStartsFromFile' /\ SaveEndsInFile'
    BY <1>1 DEF Open, Goes, SaveInv, SaveStartsFromFile, SaveEndsInFile, HolderIsInside,
      MemoryIsTheFile, NothingRead, ProcsOK
  <2>7. SaveAdds'
    BY <1>1 DEF Open, Goes, SaveInv, SaveAdds, OnlyTried, HolderIsInside, NothingRead, ProcsOK
  <2>8. OnlyTried'
    BY <1>1 DEF Open, Goes, SaveInv, OnlyTried, FilesOK, ProcsOK, IsContent, FileIsThere,
      RestoreIsReady
  <2>9. RestoreIsReady' /\ ArchivedLinesRemain'
    BY <1>1 DEF Open, Goes, RestoreIsReady, HolderIsInside, ArchivedLinesRemain, ProcsOK, FilesOK
  <2> QED
    BY <2>1, <2>2, <2>3, <2>4, <2>5, <2>6, <2>7, <2>8, <2>9 DEF SaveInv
<1>2. CASE LoadKey(p)
  <2>1. FilesOK'
    BY <1>2 DEF LoadKey, Goes, Step, Leave, FilesOK, ProcsOK, BooksOK, IsContent, FileIsThere
  <2>2. ProcsOK'
    BY <1>2, StepTypes, LeaveTypes DEF LoadKey
  <2>3. BooksOK'
    BY <1>2, StatesClosed DEF LoadKey, BooksOK
  <2>4. HolderIsInside' /\ NothingRead'
    BY <1>2 DEF LoadKey, Goes, Step, Leave, HolderIsInside, NothingRead, ProcsOK
  <2>5. FileIsThere' /\ MemoryIsTheFile'
    BY <1>2 DEF LoadKey, Goes, Step, Leave, FileIsThere, MemoryIsTheFile, HolderIsInside,
      NothingRead, ProcsOK, SaveInv, SaveStartsFromFile, SaveEndsInFile
  <2>6. SaveStartsFromFile' /\ SaveEndsInFile'
    BY <1>2 DEF LoadKey, Goes, Step, Leave, SaveInv, SaveStartsFromFile, SaveEndsInFile,
      HolderIsInside, MemoryIsTheFile, NothingRead, ProcsOK
  <2>7. SaveAdds'
    BY <1>2 DEF LoadKey, Goes, Step, Leave, SaveInv, SaveAdds, OnlyTried, HolderIsInside,
      NothingRead, ProcsOK
  <2>8. OnlyTried'
    BY <1>2 DEF LoadKey, Goes, Step, Leave, SaveInv, OnlyTried, FilesOK, ProcsOK, IsContent,
      FileIsThere, RestoreIsReady
  <2>9. RestoreIsReady' /\ ArchivedLinesRemain'
    BY <1>2 DEF LoadKey, Goes, Step, Leave, RestoreIsReady, HolderIsInside, ArchivedLinesRemain,
      ProcsOK, FilesOK
  <2> QED
    BY <2>1, <2>2, <2>3, <2>4, <2>5, <2>6, <2>7, <2>8, <2>9 DEF SaveInv
<1>3. CASE WriteKey(p)
  <2>1. FilesOK'
    BY <1>3 DEF WriteKey, Goes, Step, Leave, FilesOK, ProcsOK, BooksOK, IsContent, FileIsThere
  <2>2. ProcsOK'
    BY <1>3, StepTypes, LeaveTypes DEF WriteKey
  <2>3. BooksOK'
    BY <1>3, StatesClosed DEF WriteKey, BooksOK
  <2>4. HolderIsInside' /\ NothingRead'
    BY <1>3 DEF WriteKey, Goes, Step, Leave, HolderIsInside, NothingRead, ProcsOK
  <2>5. FileIsThere' /\ MemoryIsTheFile'
    BY <1>3 DEF WriteKey, Goes, Step, Leave, FileIsThere, MemoryIsTheFile, HolderIsInside,
      NothingRead, ProcsOK, SaveInv, SaveStartsFromFile, SaveEndsInFile
  <2>6. SaveStartsFromFile' /\ SaveEndsInFile'
    BY <1>3 DEF WriteKey, Goes, Step, Leave, SaveInv, SaveStartsFromFile, SaveEndsInFile,
      HolderIsInside, MemoryIsTheFile, NothingRead, ProcsOK
  <2>7. SaveAdds'
    BY <1>3 DEF WriteKey, Goes, Step, Leave, SaveInv, SaveAdds, OnlyTried, HolderIsInside,
      NothingRead, ProcsOK
  <2>8. OnlyTried'
    BY <1>3 DEF WriteKey, Goes, Step, Leave, SaveInv, OnlyTried, FilesOK, ProcsOK, IsContent,
      FileIsThere, RestoreIsReady
  <2>9. RestoreIsReady' /\ ArchivedLinesRemain'
    BY <1>3 DEF WriteKey, Goes, Step, Leave, RestoreIsReady, HolderIsInside, ArchivedLinesRemain,
      ProcsOK, FilesOK
  <2> QED
    BY <2>1, <2>2, <2>3, <2>4, <2>5, <2>6, <2>7, <2>8, <2>9 DEF SaveInv
<1>4. CASE ReadState(p)
  <2>1. FilesOK'
    BY <1>4 DEF ReadState, FilesOK, IsContent
  <2>2. ProcsOK'
    <3>1. CASE Leave(p)
      BY <3>1, LeaveTypes
    <3>2. CASE Step(p, "keyed", "save")
      BY <3>2, StepTypes
    <3>3. CASE file # NoFile /\ Goes(p, "keyed", "open") /\ parseStateBytes(p) /\ UNCHANGED <<lock, old, blind, had, faults>>
      <4>1. (IF file = Torn THEN NewState ELSE file) \in States /\ (file = Torn) \in BOOLEAN
        BY <3>3, StatesClosed DEF FilesOK, IsContent
      <4>2. (mem \in [Procs -> States])'
        BY <3>3, <4>1 DEF parseStateBytes, ProcsOK
      <4>3. (ro \in [Procs -> BOOLEAN])'
        BY <3>3, <4>1 DEF parseStateBytes, ProcsOK
      <4> QED
        BY <3>3, <4>2, <4>3 DEF Goes, ProcsOK
    <3> QED
      BY <1>4, <3>1, <3>2, <3>3 DEF ReadState
  <2>3. BooksOK'
    BY <1>4, StatesClosed DEF ReadState, BooksOK
  <2>4. HolderIsInside' /\ NothingRead'
    BY <1>4 DEF ReadState, Goes, Step, Leave, parseStateBytes, HolderIsInside, NothingRead, ProcsOK
  <2>5. FileIsThere' /\ MemoryIsTheFile'
    <3>1. FileIsThere'
      BY <1>4 DEF ReadState, Goes, Step, Leave, parseStateBytes, FileIsThere, HolderIsInside,
        ProcsOK
    <3>2. CASE pc'[p] = "open"
      <4>1. ro'[p] <=> file = Torn
        BY <1>4, <3>2 DEF ReadState, Goes, Step, Leave, parseStateBytes, ProcsOK
      <4>2. mem'[p] = IF file = Torn THEN NewState ELSE file
        BY <1>4, <3>2 DEF ReadState, Goes, Step, Leave, parseStateBytes, ProcsOK
      <4>3. \A q \in Procs \ {p} : pc'[q] \in {"down", "looked"}
        BY <1>4, <3>2 DEF ReadState, Goes, Step, Leave, parseStateBytes, ProcsOK, HolderIsInside
      <4> QED
        BY <1>4, <3>1, <4>1, <4>2, <4>3 DEF MemoryIsTheFile, ReadState
    <3>3. CASE pc'[p] # "open"
      BY <1>4, <3>1, <3>3 DEF MemoryIsTheFile, ReadState, Goes, Step, Leave, ProcsOK, HolderIsInside
    <3> QED
      BY <3>2, <3>3
  <2>6. SaveStartsFromFile' /\ SaveEndsInFile'
    BY <1>4 DEF ReadState, Goes, Step, Leave, parseStateBytes, SaveInv, SaveStartsFromFile,
      SaveEndsInFile, HolderIsInside, MemoryIsTheFile, NothingRead, ProcsOK
  <2>7. SaveAdds'
    BY <1>4 DEF ReadState, Goes, Step, Leave, parseStateBytes, SaveInv, SaveAdds, OnlyTried,
      HolderIsInside, NothingRead, ProcsOK
  <2>8. OnlyTried'
    BY <1>4 DEF ReadState, Goes, Step, Leave, parseStateBytes, SaveInv, OnlyTried, FilesOK, ProcsOK,
      IsContent, FileIsThere, RestoreIsReady
  <2>9. RestoreIsReady' /\ ArchivedLinesRemain'
    BY <1>4 DEF ReadState, Goes, Step, Leave, parseStateBytes, RestoreIsReady, HolderIsInside,
      ArchivedLinesRemain, ProcsOK, FilesOK
  <2> QED
    BY <2>1, <2>2, <2>3, <2>4, <2>5, <2>6, <2>7, <2>8, <2>9 DEF SaveInv
<1>5. CASE OpenForRead(p)
  <2>1. FilesOK'
    BY <1>5 DEF OpenForRead, FilesOK, IsContent
  <2>2. ProcsOK'
    BY <1>5, StatesClosed DEF OpenForRead, Goes, ProcsOK, FilesOK, BooksOK, IsContent, FileIsThere
  <2>3. BooksOK'
    BY <1>5, StatesClosed DEF OpenForRead, BooksOK
  <2>4. HolderIsInside' /\ NothingRead'
    BY <1>5 DEF OpenForRead, Goes, HolderIsInside, NothingRead, ProcsOK
  <2>5. FileIsThere' /\ MemoryIsTheFile'
    BY <1>5 DEF OpenForRead, Goes, FileIsThere, MemoryIsTheFile, HolderIsInside, NothingRead,
      ProcsOK, SaveInv, SaveStartsFromFile, SaveEndsInFile
  <2>6. SaveStartsFromFile' /\ SaveEndsInFile'
    BY <1>5 DEF OpenForRead, Goes, SaveInv, SaveStartsFromFile, SaveEndsInFile, HolderIsInside,
      MemoryIsTheFile, NothingRead, ProcsOK
  <2>7. SaveAdds'
    BY <1>5 DEF OpenForRead, Goes, SaveInv, SaveAdds, OnlyTried, HolderIsInside, NothingRead,
      ProcsOK
  <2>8. OnlyTried'
    BY <1>5 DEF OpenForRead, Goes, SaveInv, OnlyTried, FilesOK, ProcsOK, IsContent, FileIsThere,
      RestoreIsReady
  <2>9. RestoreIsReady' /\ ArchivedLinesRemain'
    BY <1>5 DEF OpenForRead, Goes, RestoreIsReady, HolderIsInside, ArchivedLinesRemain, ProcsOK,
      FilesOK
  <2> QED
    BY <2>1, <2>2, <2>3, <2>4, <2>5, <2>6, <2>7, <2>8, <2>9 DEF SaveInv
<1>6. CASE Close(p)
  <2>1. FilesOK'
    BY <1>6 DEF Close, FilesOK, IsContent
  <2>2. ProcsOK'
    BY <1>6, LeaveTypes DEF Close
  <2>3. BooksOK'
    BY <1>6, StatesClosed DEF Close, BooksOK
  <2>4. HolderIsInside' /\ NothingRead'
    BY <1>6 DEF Close, Leave, HolderIsInside, NothingRead, ProcsOK
  <2>5. FileIsThere' /\ MemoryIsTheFile'
    BY <1>6 DEF Close, Leave, FileIsThere, MemoryIsTheFile, HolderIsInside, NothingRead, ProcsOK,
      SaveInv, SaveStartsFromFile, SaveEndsInFile
  <2>6. SaveStartsFromFile' /\ SaveEndsInFile'
    BY <1>6 DEF Close, Leave, SaveInv, SaveStartsFromFile, SaveEndsInFile, HolderIsInside,
      MemoryIsTheFile, NothingRead, ProcsOK
  <2>7. SaveAdds'
    BY <1>6 DEF Close, Leave, SaveInv, SaveAdds, OnlyTried, HolderIsInside, NothingRead, ProcsOK
  <2>8. OnlyTried'
    BY <1>6 DEF Close, Leave, SaveInv, OnlyTried, FilesOK, ProcsOK, IsContent, FileIsThere,
      RestoreIsReady
  <2>9. RestoreIsReady' /\ ArchivedLinesRemain'
    BY <1>6 DEF Close, Leave, RestoreIsReady, HolderIsInside, ArchivedLinesRemain, ProcsOK, FilesOK
  <2> QED
    BY <2>1, <2>2, <2>3, <2>4, <2>5, <2>6, <2>7, <2>8, <2>9 DEF SaveInv
<1> QED
  BY <1>1, <1>2, <1>3, <1>4, <1>5, <1>6 DEF Opening

\* So does an update: its process holds the lock from the read to the rename.
LEMMA SavingKeeps ==
  ASSUME StoreInv, NEW p \in Procs, Saving(p) PROVE StoreInv'
<1> USE StoreAssumption DEF StoreInv, TypeOK, Fault, disk, proc, journal, archives, NewState
<1>1. CASE Update(p)
  <2>1. FilesOK'
    BY <1>1 DEF Update, FilesOK, IsContent
  <2>2. ProcsOK'
    <3>1. tried' \in 1..MaxUpdates
      BY <1>1 DEF Update, BooksOK
    <3>2. mem[p] \cup {tried'} \in States
      BY <3>1, StatesClosed DEF ProcsOK
    <3> QED
      BY <1>1, <3>2 DEF Update, Goes, ProcsOK
  <2>3. BooksOK'
    BY <1>1, StatesClosed DEF Update, BooksOK
  <2>4. HolderIsInside' /\ NothingRead'
    BY <1>1 DEF Update, Goes, HolderIsInside, NothingRead, ProcsOK
  <2>5. FileIsThere' /\ MemoryIsTheFile'
    BY <1>1 DEF Update, Goes, FileIsThere, MemoryIsTheFile, HolderIsInside, NothingRead, ProcsOK,
      SaveInv, SaveStartsFromFile, SaveEndsInFile
  <2>6. SaveStartsFromFile' /\ SaveEndsInFile'
    BY <1>1 DEF Update, Goes, SaveInv, SaveStartsFromFile, SaveEndsInFile, HolderIsInside,
      MemoryIsTheFile, NothingRead, ProcsOK
  <2>7. SaveAdds'
    BY <1>1 DEF Update, Goes, SaveInv, SaveAdds, OnlyTried, HolderIsInside, NothingRead, FilesOK,
      ProcsOK, BooksOK
  <2>8. OnlyTried'
    <3>1. 1..tried \subseteq 1..tried' /\ tried' \in 1..tried'
      BY <1>1 DEF Update, BooksOK
    <3> QED
      BY <1>1, <3>1 DEF Update, Goes, SaveInv, OnlyTried, ProcsOK
  <2>9. RestoreIsReady' /\ ArchivedLinesRemain'
    BY <1>1 DEF Update, Goes, RestoreIsReady, HolderIsInside, ArchivedLinesRemain, ProcsOK, FilesOK
  <2> QED
    BY <2>1, <2>2, <2>3, <2>4, <2>5, <2>6, <2>7, <2>8, <2>9 DEF SaveInv
<1>2. CASE WriteTemp(p)
  <2>1. FilesOK'
    BY <1>2 DEF WriteTemp, FilesOK, IsContent
  <2>2. ProcsOK'
    BY <1>2, StepTypes, RollbackTypes DEF WriteTemp
  <2>3. BooksOK'
    BY <1>2, StatesClosed DEF WriteTemp, BooksOK
  <2>4. HolderIsInside' /\ NothingRead'
    BY <1>2 DEF WriteTemp, Goes, Step, Leave, rollback, verifyDiskMatches, HolderIsInside, NothingRead, ProcsOK
  <2>5. FileIsThere' /\ MemoryIsTheFile'
    <3>1. CASE Step(p, "save", "temp")
      BY <1>2, <3>1 DEF WriteTemp, Goes, Step, FileIsThere, MemoryIsTheFile, HolderIsInside, ProcsOK
    <3>2. CASE pc[p] = "save" /\ rollback(p)
      BY <1>2, <3>2, RollbackMemory DEF WriteTemp
    <3> QED
      BY <1>2, <3>1, <3>2 DEF WriteTemp
  <2>6. SaveStartsFromFile' /\ SaveEndsInFile'
    BY <1>2 DEF WriteTemp, Goes, Step, Leave, rollback, verifyDiskMatches, SaveInv, SaveStartsFromFile, SaveEndsInFile,
      HolderIsInside, MemoryIsTheFile, NothingRead, ProcsOK
  <2>7. SaveAdds'
    BY <1>2 DEF WriteTemp, Goes, Step, Leave, rollback, verifyDiskMatches, SaveInv, SaveAdds, OnlyTried,
      HolderIsInside, NothingRead, ProcsOK
  <2>8. OnlyTried'
    <3>1. \A q \in Procs : mem'[q] \subseteq 1..tried /\ (old'[q] # NoFile => old'[q] \subseteq 1..tried)
      BY <1>2, RollbackTried DEF WriteTemp, Goes, Step, SaveInv, OnlyTried
    <3> QED
      BY <1>2, <3>1 DEF WriteTemp, SaveInv, OnlyTried, ProcsOK
  <2>9. RestoreIsReady' /\ ArchivedLinesRemain'
    BY <1>2 DEF WriteTemp, Goes, Step, Leave, rollback, verifyDiskMatches, RestoreIsReady, HolderIsInside,
      ArchivedLinesRemain, ProcsOK, FilesOK
  <2> QED
    BY <2>1, <2>2, <2>3, <2>4, <2>5, <2>6, <2>7, <2>8, <2>9 DEF SaveInv
<1>3. CASE replaceFile(p)
  <2>1. FilesOK'
    <3>1. mem[p] \in States
      BY DEF ProcsOK
    <3> QED
      BY <1>3, <3>1 DEF replaceFile, FilesOK, IsContent
  <2>2. ProcsOK'
    BY <1>3, RollbackTypes DEF replaceFile, Goes, ProcsOK
  <2>3. BooksOK'
    BY <1>3, StatesClosed DEF replaceFile, BooksOK
  <2>4. HolderIsInside' /\ NothingRead'
    BY <1>3 DEF replaceFile, Goes, Step, Leave, rollback, verifyDiskMatches, HolderIsInside, NothingRead, ProcsOK
  <2>5. FileIsThere' /\ MemoryIsTheFile'
    <3>1. CASE Goes(p, "temp", "renamed") /\ file' = mem[p]
      <4>1. \A q \in Procs : pc'[q] \notin {"reading", "open", "journal", "kept", "rotated", "installed"}
        BY <3>1 DEF Goes, HolderIsInside, ProcsOK
      <4>2. file' # NoFile
        BY <3>1 DEF ProcsOK
      <4> QED
        BY <4>1, <4>2 DEF FileIsThere, MemoryIsTheFile
    <3>2. CASE pc[p] = "temp" /\ rollback(p) /\ UNCHANGED file
      BY <3>2, RollbackMemory
    <3> QED
      BY <1>3, <3>1, <3>2 DEF replaceFile
  <2>6. SaveStartsFromFile' /\ SaveEndsInFile'
    BY <1>3 DEF replaceFile, Goes, Step, Leave, rollback, verifyDiskMatches, SaveInv, SaveStartsFromFile,
      SaveEndsInFile, HolderIsInside, MemoryIsTheFile, NothingRead, ProcsOK
  <2>7. SaveAdds'
    BY <1>3 DEF replaceFile, Goes, Step, Leave, rollback, verifyDiskMatches, SaveInv, SaveAdds, OnlyTried,
      HolderIsInside, NothingRead, ProcsOK
  <2>8. OnlyTried'
    <3>1. \A q \in Procs : mem'[q] \subseteq 1..tried /\ (old'[q] # NoFile => old'[q] \subseteq 1..tried)
      BY <1>3, RollbackTried DEF replaceFile, Goes, Step, SaveInv, OnlyTried
    <3> QED
      BY <1>3, <3>1 DEF replaceFile, SaveInv, OnlyTried, ProcsOK
  <2>9. RestoreIsReady' /\ ArchivedLinesRemain'
    BY <1>3 DEF replaceFile, Goes, Step, Leave, rollback, verifyDiskMatches, RestoreIsReady, HolderIsInside,
      ArchivedLinesRemain, ProcsOK, FilesOK
  <2> QED
    BY <2>1, <2>2, <2>3, <2>4, <2>5, <2>6, <2>7, <2>8, <2>9 DEF SaveInv
<1>4. CASE syncDir(p)
  <2>1. FilesOK'
    BY <1>4 DEF syncDir, Goes, Step, Leave, rollback, verifyDiskMatches, committed, FilesOK, ProcsOK, BooksOK,
      IsContent, FileIsThere
  <2>2. ProcsOK'
    BY <1>4, StepTypes, RollbackTypes DEF syncDir
  <2>3. BooksOK'
    <3>1. committed(p) \in States
      BY StatesClosed DEF BooksOK, ProcsOK, committed
    <3>2. (acked \in States)'
      BY <1>4, <3>1, StatesClosed DEF syncDir, BooksOK
    <3> QED
      BY <1>4, <3>2 DEF syncDir, BooksOK
  <2>4. HolderIsInside' /\ NothingRead'
    BY <1>4 DEF syncDir, Goes, Step, Leave, rollback, verifyDiskMatches, committed, HolderIsInside, NothingRead,
      ProcsOK
  <2>5. FileIsThere' /\ MemoryIsTheFile'
    <3>1. CASE Step(p, "renamed", IF old[p] = NoFile THEN "open" ELSE "journal")
      BY <1>4, <3>1 DEF syncDir, Goes, Step, FileIsThere, MemoryIsTheFile, HolderIsInside, ProcsOK,
        SaveInv, SaveEndsInFile
    <3>2. CASE pc[p] = "renamed" /\ rollback(p)
      BY <1>4, <3>2, RollbackMemory DEF syncDir
    <3> QED
      BY <1>4, <3>1, <3>2 DEF syncDir
  <2>6. SaveStartsFromFile' /\ SaveEndsInFile'
    BY <1>4 DEF syncDir, Goes, Step, Leave, rollback, verifyDiskMatches, committed, SaveInv, SaveStartsFromFile,
      SaveEndsInFile, HolderIsInside, MemoryIsTheFile, NothingRead, ProcsOK
  <2>7. SaveAdds'
    BY <1>4 DEF syncDir, Goes, Step, Leave, rollback, verifyDiskMatches, committed, SaveInv, SaveAdds, OnlyTried,
      HolderIsInside, NothingRead, ProcsOK
  <2>8. OnlyTried'
    <3>1. \A q \in Procs : mem'[q] \subseteq 1..tried /\ (old'[q] # NoFile => old'[q] \subseteq 1..tried)
      BY <1>4, RollbackTried DEF syncDir, Goes, Step, SaveInv, OnlyTried
    <3> QED
      BY <1>4, <3>1 DEF syncDir, SaveInv, OnlyTried, ProcsOK
  <2>9. RestoreIsReady' /\ ArchivedLinesRemain'
    BY <1>4 DEF syncDir, Goes, Step, Leave, rollback, verifyDiskMatches, committed, RestoreIsReady, HolderIsInside,
      ArchivedLinesRemain, ProcsOK, FilesOK
  <2> QED
    BY <2>1, <2>2, <2>3, <2>4, <2>5, <2>6, <2>7, <2>8, <2>9 DEF SaveInv
<1>5. CASE Record(p)
  <2>1. FilesOK'
    BY <1>5 DEF Record, FilesOK, IsContent
  <2>2. ProcsOK'
    BY <1>5, StepTypes DEF Record
  <2>3. BooksOK'
    <3>1. committed(p) \in States
      BY StatesClosed DEF BooksOK, ProcsOK, committed
    <3>2. (live \in States)'
      BY <1>5, <3>1, StatesClosed DEF Record, BooksOK
    <3> QED
      BY <1>5, <3>2 DEF Record, BooksOK
  <2>4. HolderIsInside' /\ NothingRead'
    BY <1>5 DEF Record, Goes, Step, committed, HolderIsInside, NothingRead, ProcsOK
  <2>5. FileIsThere' /\ MemoryIsTheFile'
    BY <1>5 DEF Record, Goes, Step, committed, FileIsThere, MemoryIsTheFile, HolderIsInside,
      NothingRead, ProcsOK, SaveInv, SaveStartsFromFile, SaveEndsInFile
  <2>6. SaveStartsFromFile' /\ SaveEndsInFile'
    BY <1>5 DEF Record, Goes, Step, committed, SaveInv, SaveStartsFromFile, SaveEndsInFile,
      HolderIsInside, MemoryIsTheFile, NothingRead, ProcsOK
  <2>7. SaveAdds'
    BY <1>5 DEF Record, Goes, Step, committed, SaveInv, SaveAdds, OnlyTried, HolderIsInside,
      NothingRead, ProcsOK
  <2>8. OnlyTried'
    BY <1>5 DEF Record, Goes, Step, committed, SaveInv, OnlyTried, FilesOK, ProcsOK, IsContent,
      FileIsThere, RestoreIsReady
  <2>9. RestoreIsReady' /\ ArchivedLinesRemain'
    BY <1>5 DEF Record, Goes, Step, committed, RestoreIsReady, HolderIsInside, ArchivedLinesRemain,
      ProcsOK, FilesOK
  <2> QED
    BY <2>1, <2>2, <2>3, <2>4, <2>5, <2>6, <2>7, <2>8, <2>9 DEF SaveInv
<1> QED
  BY <1>1, <1>2, <1>3, <1>4, <1>5 DEF Saving

\* So does a restore, whichever step it ends at.
LEMMA RestoringKeeps ==
  ASSUME StoreInv, NEW p \in Procs, Restoring(p) PROVE StoreInv'
<1> USE StoreAssumption DEF StoreInv, TypeOK, Fault, disk, proc, journal, archives, NewState
<1>1. CASE RestoreLooks(p)
  <2>1. FilesOK'
    BY <1>1 DEF RestoreLooks, FilesOK, IsContent
  <2>2. ProcsOK'
    BY <1>1, StatesClosed DEF RestoreLooks, Goes, ProcsOK, FilesOK, BooksOK, IsContent, FileIsThere
  <2>3. BooksOK'
    BY <1>1, StatesClosed DEF RestoreLooks, BooksOK
  <2>4. HolderIsInside' /\ NothingRead'
    BY <1>1 DEF RestoreLooks, Goes, HolderIsInside, NothingRead, ProcsOK
  <2>5. FileIsThere' /\ MemoryIsTheFile'
    BY <1>1 DEF RestoreLooks, Goes, FileIsThere, MemoryIsTheFile, HolderIsInside, NothingRead,
      ProcsOK, SaveInv, SaveStartsFromFile, SaveEndsInFile
  <2>6. SaveStartsFromFile' /\ SaveEndsInFile'
    BY <1>1 DEF RestoreLooks, Goes, SaveInv, SaveStartsFromFile, SaveEndsInFile, HolderIsInside,
      MemoryIsTheFile, NothingRead, ProcsOK
  <2>7. SaveAdds'
    BY <1>1 DEF RestoreLooks, Goes, SaveInv, SaveAdds, OnlyTried, HolderIsInside, NothingRead,
      ProcsOK
  <2>8. OnlyTried'
    BY <1>1 DEF RestoreLooks, Goes, SaveInv, OnlyTried, FilesOK, ProcsOK, IsContent, FileIsThere,
      RestoreIsReady
  <2>9. RestoreIsReady' /\ ArchivedLinesRemain'
    BY <1>1 DEF RestoreLooks, Goes, RestoreIsReady, HolderIsInside, ArchivedLinesRemain, ProcsOK,
      FilesOK
  <2> QED
    BY <2>1, <2>2, <2>3, <2>4, <2>5, <2>6, <2>7, <2>8, <2>9 DEF SaveInv
<1>2. CASE RestoreKeeps(p)
  <2>1. FilesOK'
    BY <1>2 DEF RestoreKeeps, Goes, Step, Leave, FilesOK, ProcsOK, BooksOK, IsContent, FileIsThere
  <2>2. ProcsOK'
    BY <1>2, StepTypes, LeaveTypes DEF RestoreKeeps
  <2>3. BooksOK'
    BY <1>2, StatesClosed DEF RestoreKeeps, BooksOK
  <2>4. HolderIsInside' /\ NothingRead'
    BY <1>2 DEF RestoreKeeps, Goes, Step, Leave, HolderIsInside, NothingRead, ProcsOK
  <2>5. FileIsThere' /\ MemoryIsTheFile'
    BY <1>2 DEF RestoreKeeps, Goes, Step, Leave, FileIsThere, MemoryIsTheFile, HolderIsInside,
      NothingRead, ProcsOK, SaveInv, SaveStartsFromFile, SaveEndsInFile
  <2>6. SaveStartsFromFile' /\ SaveEndsInFile'
    BY <1>2 DEF RestoreKeeps, Goes, Step, Leave, SaveInv, SaveStartsFromFile, SaveEndsInFile,
      HolderIsInside, MemoryIsTheFile, NothingRead, ProcsOK
  <2>7. SaveAdds'
    BY <1>2 DEF RestoreKeeps, Goes, Step, Leave, SaveInv, SaveAdds, OnlyTried, HolderIsInside,
      NothingRead, ProcsOK
  <2>8. OnlyTried'
    BY <1>2 DEF RestoreKeeps, Goes, Step, Leave, SaveInv, OnlyTried, FilesOK, ProcsOK, IsContent,
      FileIsThere, RestoreIsReady
  <2>9. RestoreIsReady' /\ ArchivedLinesRemain'
    BY <1>2 DEF RestoreKeeps, Goes, Step, Leave, RestoreIsReady, HolderIsInside,
      ArchivedLinesRemain, ProcsOK, FilesOK
  <2> QED
    BY <2>1, <2>2, <2>3, <2>4, <2>5, <2>6, <2>7, <2>8, <2>9 DEF SaveInv
<1>3. CASE RestoreRotates(p)
  <2>1. FilesOK'
    BY <1>3 DEF RestoreRotates, FilesOK, IsContent
  <2>2. ProcsOK'
    BY <1>3, StepTypes, LeaveTypes DEF RestoreRotates
  <2>3. BooksOK'
    <3>1. (live \in States /\ past \in States)'
      BY <1>3, StatesClosed DEF RestoreRotates, BooksOK
    <3> QED
      BY <1>3, <3>1, StatesClosed DEF RestoreRotates, BooksOK
  <2>4. HolderIsInside' /\ NothingRead'
    BY <1>3 DEF RestoreRotates, Goes, Step, Leave, HolderIsInside, NothingRead, ProcsOK
  <2>5. FileIsThere' /\ MemoryIsTheFile'
    BY <1>3 DEF RestoreRotates, Goes, Step, Leave, FileIsThere, MemoryIsTheFile, HolderIsInside,
      NothingRead, ProcsOK, SaveInv, SaveStartsFromFile, SaveEndsInFile
  <2>6. SaveStartsFromFile' /\ SaveEndsInFile'
    BY <1>3 DEF RestoreRotates, Goes, Step, Leave, SaveInv, SaveStartsFromFile, SaveEndsInFile,
      HolderIsInside, MemoryIsTheFile, NothingRead, ProcsOK
  <2>7. SaveAdds'
    BY <1>3 DEF RestoreRotates, Goes, Step, Leave, SaveInv, SaveAdds, OnlyTried, HolderIsInside,
      NothingRead, ProcsOK
  <2>8. OnlyTried'
    BY <1>3 DEF RestoreRotates, Goes, Step, Leave, SaveInv, OnlyTried, FilesOK, ProcsOK, IsContent,
      FileIsThere, RestoreIsReady
  <2>9. RestoreIsReady' /\ ArchivedLinesRemain'
    BY <1>3 DEF RestoreRotates, Goes, Step, Leave, RestoreIsReady, HolderIsInside,
      ArchivedLinesRemain, ProcsOK, FilesOK
  <2> QED
    BY <2>1, <2>2, <2>3, <2>4, <2>5, <2>6, <2>7, <2>8, <2>9 DEF SaveInv
<1>4. CASE RestoreCommits(p)
  <2>1. FilesOK'
    <3>1. backup[1] \in States /\ backup[2] \in States
      BY <1>4 DEF RestoreCommits, FilesOK, RestoreIsReady, Goes, Step
    <3> QED
      BY <1>4, <3>1 DEF RestoreCommits, FilesOK, WriteFileAtomic, IsContent
  <2>2. ProcsOK'
    BY <1>4, StepTypes, LeaveTypes DEF RestoreCommits
  <2>3. BooksOK'
    <3>1. backup[1] \in States /\ backup[2] \in States
      BY <1>4 DEF RestoreCommits, FilesOK, RestoreIsReady, Goes, Step
    <3>2. (acked \in States)'
      BY <1>4, <3>1, StatesClosed, ZenonT(60) DEF RestoreCommits, BooksOK
    <3> QED
      BY <1>4, <3>2 DEF RestoreCommits, BooksOK
  <2>4. HolderIsInside' /\ NothingRead'
    BY <1>4 DEF RestoreCommits, Goes, Step, Leave, WriteFileAtomic, HolderIsInside, NothingRead,
      ProcsOK
  <2>5. FileIsThere' /\ MemoryIsTheFile'
    <3>1. backup[1] \in States /\ backup[2] \in States
      BY <1>4 DEF RestoreCommits, FilesOK, RestoreIsReady, Goes, Step
    <3> QED
      BY <1>4, <3>1 DEF RestoreCommits, Goes, Step, Leave, WriteFileAtomic, FileIsThere,
        MemoryIsTheFile, HolderIsInside, ProcsOK
  <2>6. SaveStartsFromFile' /\ SaveEndsInFile'
    BY <1>4 DEF RestoreCommits, Goes, Step, Leave, WriteFileAtomic, SaveInv, SaveStartsFromFile,
      SaveEndsInFile, HolderIsInside, MemoryIsTheFile, NothingRead, ProcsOK
  <2>7. SaveAdds'
    BY <1>4 DEF RestoreCommits, Goes, Step, Leave, WriteFileAtomic, SaveInv, SaveAdds, OnlyTried,
      HolderIsInside, NothingRead, ProcsOK
  <2>8. OnlyTried'
    <3>1. backup[1] \in States /\ backup[2] \in States
      BY <1>4 DEF RestoreCommits, FilesOK, RestoreIsReady, Goes, Step
    <3> QED
      BY <1>4, <3>1 DEF RestoreCommits, Goes, Step, Leave, WriteFileAtomic, SaveInv, OnlyTried,
        ProcsOK, RestoreIsReady
  <2>9. RestoreIsReady' /\ ArchivedLinesRemain'
    BY <1>4 DEF RestoreCommits, Goes, Step, Leave, WriteFileAtomic, RestoreIsReady, HolderIsInside,
      ArchivedLinesRemain, ProcsOK, FilesOK
  <2> QED
    BY <2>1, <2>2, <2>3, <2>4, <2>5, <2>6, <2>7, <2>8, <2>9 DEF SaveInv
<1>5. CASE RestoreEnds(p)
  <2>1. FilesOK'
    BY <1>5 DEF RestoreEnds, FilesOK, IsContent
  <2>2. ProcsOK'
    BY <1>5, LeaveTypes DEF RestoreEnds
  <2>3. BooksOK'
    BY <1>5 DEF RestoreEnds, FilesOK, BooksOK, RestoreIsReady
  <2>4. HolderIsInside' /\ NothingRead'
    BY <1>5 DEF RestoreEnds, Leave, HolderIsInside, NothingRead, ProcsOK
  <2>5. FileIsThere' /\ MemoryIsTheFile'
    BY <1>5 DEF RestoreEnds, Leave, FileIsThere, MemoryIsTheFile, HolderIsInside, NothingRead,
      ProcsOK, SaveInv, SaveStartsFromFile, SaveEndsInFile
  <2>6. SaveStartsFromFile' /\ SaveEndsInFile'
    BY <1>5 DEF RestoreEnds, Leave, SaveInv, SaveStartsFromFile, SaveEndsInFile, HolderIsInside,
      MemoryIsTheFile, NothingRead, ProcsOK
  <2>7. SaveAdds'
    BY <1>5 DEF RestoreEnds, Leave, SaveInv, SaveAdds, OnlyTried, HolderIsInside, NothingRead,
      ProcsOK
  <2>8. OnlyTried'
    BY <1>5 DEF RestoreEnds, Leave, SaveInv, OnlyTried, FilesOK, ProcsOK, IsContent, FileIsThere,
      RestoreIsReady
  <2>9. RestoreIsReady' /\ ArchivedLinesRemain'
    BY <1>5 DEF RestoreEnds, Leave, RestoreIsReady, HolderIsInside, ArchivedLinesRemain, ProcsOK,
      FilesOK
  <2> QED
    BY <2>1, <2>2, <2>3, <2>4, <2>5, <2>6, <2>7, <2>8, <2>9 DEF SaveInv
<1> QED
  BY <1>1, <1>2, <1>3, <1>4, <1>5 DEF Restoring

\* So do a backup, a rotation of the journal and a kill.
LEMMA ServingKeeps ==
  ASSUME StoreInv, NEW p \in Procs, CreateBackupArchive(p) \/ rotateJournal(p) \/ Crash(p) PROVE StoreInv'
<1> USE StoreAssumption DEF StoreInv, TypeOK, Fault, disk, proc, journal, archives, NewState
<1>1. CASE CreateBackupArchive(p)
  <2>1. FilesOK'
    BY <1>1 DEF CreateBackupArchive, FilesOK, ProcsOK, BooksOK, IsContent, FileIsThere
  <2>2. ProcsOK'
    BY <1>1, StatesClosed DEF CreateBackupArchive, ProcsOK, FilesOK, BooksOK, IsContent, FileIsThere
  <2>3. BooksOK'
    BY <1>1, StatesClosed DEF CreateBackupArchive, BooksOK
  <2>4. HolderIsInside' /\ NothingRead'
    BY <1>1 DEF CreateBackupArchive, HolderIsInside, NothingRead, ProcsOK
  <2>5. FileIsThere' /\ MemoryIsTheFile'
    BY <1>1 DEF CreateBackupArchive, FileIsThere, MemoryIsTheFile, HolderIsInside, NothingRead,
      ProcsOK, SaveInv, SaveStartsFromFile, SaveEndsInFile
  <2>6. SaveStartsFromFile' /\ SaveEndsInFile'
    BY <1>1 DEF CreateBackupArchive, SaveInv, SaveStartsFromFile, SaveEndsInFile, HolderIsInside,
      MemoryIsTheFile, NothingRead, ProcsOK
  <2>7. SaveAdds'
    BY <1>1 DEF CreateBackupArchive, SaveInv, SaveAdds, OnlyTried, HolderIsInside, NothingRead,
      ProcsOK
  <2>8. OnlyTried'
    BY <1>1 DEF CreateBackupArchive, SaveInv, OnlyTried, FilesOK, ProcsOK, IsContent, FileIsThere,
      RestoreIsReady
  <2>9. RestoreIsReady' /\ ArchivedLinesRemain'
    BY <1>1 DEF CreateBackupArchive, RestoreIsReady, HolderIsInside, ArchivedLinesRemain, ProcsOK,
      FilesOK
  <2> QED
    BY <2>1, <2>2, <2>3, <2>4, <2>5, <2>6, <2>7, <2>8, <2>9 DEF SaveInv
<1>2. CASE rotateJournal(p)
  <2>1. FilesOK'
    BY <1>2 DEF rotateJournal, FilesOK, IsContent
  <2>2. ProcsOK'
    BY <1>2, StatesClosed DEF rotateJournal, ProcsOK, FilesOK, BooksOK, IsContent, FileIsThere
  <2>3. BooksOK'
    BY <1>2, StatesClosed DEF rotateJournal, BooksOK
  <2>4. HolderIsInside' /\ NothingRead'
    BY <1>2 DEF rotateJournal, HolderIsInside, NothingRead, ProcsOK
  <2>5. FileIsThere' /\ MemoryIsTheFile'
    BY <1>2 DEF rotateJournal, FileIsThere, MemoryIsTheFile, HolderIsInside, NothingRead, ProcsOK,
      SaveInv, SaveStartsFromFile, SaveEndsInFile
  <2>6. SaveStartsFromFile' /\ SaveEndsInFile'
    BY <1>2 DEF rotateJournal, SaveInv, SaveStartsFromFile, SaveEndsInFile, HolderIsInside,
      MemoryIsTheFile, NothingRead, ProcsOK
  <2>7. SaveAdds'
    BY <1>2 DEF rotateJournal, SaveInv, SaveAdds, OnlyTried, HolderIsInside, NothingRead, ProcsOK
  <2>8. OnlyTried'
    BY <1>2 DEF rotateJournal, SaveInv, OnlyTried, FilesOK, ProcsOK, IsContent, FileIsThere,
      RestoreIsReady
  <2>9. RestoreIsReady' /\ ArchivedLinesRemain'
    BY <1>2 DEF rotateJournal, RestoreIsReady, HolderIsInside, ArchivedLinesRemain, ProcsOK, FilesOK
  <2> QED
    BY <2>1, <2>2, <2>3, <2>4, <2>5, <2>6, <2>7, <2>8, <2>9 DEF SaveInv
<1>3. CASE Crash(p)
  <2>1. FilesOK'
    BY <1>3 DEF Crash, FilesOK, IsContent
  <2>2. ProcsOK'
    BY <1>3, LeaveTypes DEF Crash
  <2>3. BooksOK'
    BY <1>3, StatesClosed DEF Crash, BooksOK
  <2>4. HolderIsInside' /\ NothingRead'
    BY <1>3 DEF Crash, Leave, HolderIsInside, NothingRead, ProcsOK
  <2>5. FileIsThere' /\ MemoryIsTheFile'
    BY <1>3 DEF Crash, Leave, FileIsThere, MemoryIsTheFile, HolderIsInside, NothingRead, ProcsOK,
      SaveInv, SaveStartsFromFile, SaveEndsInFile
  <2>6. SaveStartsFromFile' /\ SaveEndsInFile'
    BY <1>3 DEF Crash, Leave, SaveInv, SaveStartsFromFile, SaveEndsInFile, HolderIsInside,
      MemoryIsTheFile, NothingRead, ProcsOK
  <2>7. SaveAdds'
    BY <1>3 DEF Crash, Leave, SaveInv, SaveAdds, OnlyTried, HolderIsInside, NothingRead, ProcsOK
  <2>8. OnlyTried'
    BY <1>3 DEF Crash, Leave, SaveInv, OnlyTried, FilesOK, ProcsOK, IsContent, FileIsThere,
      RestoreIsReady
  <2>9. RestoreIsReady' /\ ArchivedLinesRemain'
    BY <1>3 DEF Crash, Leave, RestoreIsReady, HolderIsInside, ArchivedLinesRemain, ProcsOK, FilesOK
  <2> QED
    BY <2>1, <2>2, <2>3, <2>4, <2>5, <2>6, <2>7, <2>8, <2>9 DEF SaveInv
<1> QED
  BY <1>1, <1>2, <1>3

\* A power failure ends every process; what the disk held is a file there was.
LEMMA PowerFailureKeeps ==
  ASSUME StoreInv, PowerFails PROVE StoreInv'
<1> USE StoreAssumption, StatesClosed DEF StoreInv, TypeOK, PowerFails, journal, archives, NewState
<1>1. FilesOK' /\ ProcsOK' /\ BooksOK'
  BY DEF FilesOK, ProcsOK, BooksOK, IsContent, May
<1>2. HolderIsInside' /\ NothingRead' /\ FileIsThere' /\ MemoryIsTheFile'
  BY DEF HolderIsInside, NothingRead, FileIsThere, MemoryIsTheFile
<1>3. SaveInv'
  BY DEF SaveInv, SaveStartsFromFile, SaveEndsInFile, SaveAdds, OnlyTried, May
<1>4. RestoreIsReady' /\ ArchivedLinesRemain'
  BY DEF RestoreIsReady, ArchivedLinesRemain
<1> QED
  BY <1>1, <1>2, <1>3, <1>4

LEMMA StoreNext == StoreInv /\ [Next]_vars => StoreInv'
<1> SUFFICES ASSUME StoreInv, [Next]_vars PROVE StoreInv'
  OBVIOUS
<1>1. CASE Next
  BY <1>1, OpeningKeeps, SavingKeeps, RestoringKeeps, ServingKeeps, PowerFailureKeeps DEF Next
<1>2. CASE UNCHANGED vars
  BY <1>2 DEF vars, disk, proc, journal, archives, StoreInv, TypeOK, FilesOK, ProcsOK, BooksOK,
    HolderIsInside, NothingRead, FileIsThere, MemoryIsTheFile, SaveInv, SaveStartsFromFile,
    SaveEndsInFile, SaveAdds, OnlyTried, RestoreIsReady, ArchivedLinesRemain
<1> QED
  BY <1>1, <1>2

\* The invariant holds in every reachable state.
THEOREM StoreInvariant == Spec => []StoreInv
BY StoreInit, StoreNext, PTL DEF Spec

\* A store that still writes holds what its file holds, whatever saves have
\* failed (commitLocked's rollback, verifyDiskMatchesLocked).
THEOREM MemoryMatchesFile == Spec => []MemoryIsTheFile
BY StoreInvariant, PTL DEF StoreInv

-----------------------------------------------------------------------------
(* Backups and restores. *)

\* A line is about an update that no archive has, and a restore that brings
\* the lines of its archive brings no new one.
LEMMA NewLines ==
  ASSUME StoreInv, Next PROVE BackupIsOneMoment
<1> SUFFICES ASSUME backup # <<>> PROVE ((live' \cup past') \ (live \cup past)) \cap backup[1] = {}
  BY DEF BackupIsOneMoment
<1> USE DEF disk, proc, journal, archives
<1>1. ASSUME NEW p \in Procs, Record(p) PROVE ((live' \cup past') \ (live \cup past)) \cap backup[1] = {}
  BY <1>1 DEF Record, Goes, Step, committed, StoreInv, SaveInv, SaveAdds
<1>2. ASSUME NEW p \in Procs, RestoreEnds(p) PROVE ((live' \cup past') \ (live \cup past)) \cap backup[1] = {}
  BY <1>2 DEF RestoreEnds, StoreInv, ArchivedLinesRemain
<1>3. ASSUME NEW p \in Procs, RestoreRotates(p) \/ rotateJournal(p)
      PROVE  ((live' \cup past') \ (live \cup past)) \cap backup[1] = {}
  BY <1>3 DEF RestoreRotates, rotateJournal
<1>4. CASE UNCHANGED journal
  BY <1>4
<1> QED
  BY <1>1, <1>2, <1>3, <1>4 DEF Next, Opening, Saving, Restoring, Open, LoadKey, WriteKey,
    ReadState, OpenForRead,
    Close, Update, WriteTemp, replaceFile, syncDir, RestoreLooks, RestoreKeeps, RestoreCommits,
    CreateBackupArchive, Crash, PowerFails

\* Only the commit of a restore takes updates back, and it has a copy.
LEMMA KeptStates ==
  ASSUME StoreInv, Next PROVE StateIsKept
<1> USE DEF disk, proc, journal, archives, StateIsKept
<1>1. ASSUME NEW p \in Procs, RestoreCommits(p) PROVE StateIsKept
  BY <1>1 DEF RestoreCommits, Goes, Step, StoreInv, RestoreIsReady
<1>2. ASSUME NEW p \in Procs, syncDir(p) PROVE StateIsKept
  BY <1>2 DEF syncDir
<1>3. CASE UNCHANGED acked
  BY <1>3
<1> QED
  BY <1>1, <1>2, <1>3 DEF Next, Opening, Saving, Restoring, Open, LoadKey, WriteKey, ReadState,
    OpenForRead,
    Close, Update, WriteTemp, replaceFile, Record, RestoreLooks, RestoreKeeps, RestoreRotates, RestoreEnds,
    CreateBackupArchive, rotateJournal, Crash, PowerFails

\* Only the end of a restore that found no journal replaces one.
LEMMA GrowingJournal ==
  ASSUME Next PROVE JournalGrows
<1> USE DEF disk, proc, journal, archives, JournalGrows
<1>1. ASSUME NEW p \in Procs, Record(p) \/ RestoreRotates(p) \/ rotateJournal(p) PROVE JournalGrows
  BY <1>1 DEF Record, RestoreRotates, rotateJournal
<1>2. ASSUME NEW p \in Procs, RestoreEnds(p) PROVE JournalGrows
  <2>1. CASE "journal" \in had[p]
    BY <1>2, <2>1 DEF RestoreEnds
  <2>2. CASE "journal" \notin had[p]
    BY <1>2, <2>2
  <2> QED
    BY <2>1, <2>2
<1>3. CASE UNCHANGED journal
  BY <1>3
<1> QED
  BY <1>1, <1>2, <1>3 DEF Next, Opening, Saving, Restoring, Open, LoadKey, WriteKey, ReadState,
    OpenForRead,
    Close, Update, WriteTemp, replaceFile, syncDir, RestoreLooks, RestoreKeeps, RestoreCommits,
    CreateBackupArchive, Crash, PowerFails

\* A backup shows one moment, and a restore takes neither the state nor the
\* history it replaces (CreateBackupArchive, RestoreBackupTarGz).
THEOREM ArchivesAreKept == Spec => ArchivesHold
<1>1. StoreInv /\ [Next]_vars => [BackupIsOneMoment /\ StateIsKept /\ JournalGrows]_vars
  BY NewLines, KeptStates, GrowingJournal
<1> QED
  BY <1>1, StoreInvariant, PTL DEF Spec, ArchivesHold

-----------------------------------------------------------------------------
(* The refinement, on a platform that syncs directories. *)

\* Whoever writes knows every acknowledged update, also behind its file.
KnowsAcked ==
  \A p \in Procs :
    /\ pc[p] \in {"save", "temp", "renamed"} /\ old[p] # NoFile => acked \subseteq old[p]
    /\ pc[p] \in {"open", "journal"} /\ ~ro[p] => acked \subseteq mem[p]

RegisterInv == StoreInv /\ AckedIsEverywhere /\ KnowsAcked

\* What a step does to the register.
RegStep == Reg!Next \/ UNCHANGED <<May, acked, Restores>>

\* Whoever holds the lock is the only one who may be installing an archive,
LEMMA OneRestores ==
  ASSUME HolderIsInside, NEW p \in Procs, lock = p
  PROVE  Restores = IF pc[p] = "rotated" THEN {backup[1]} ELSE {}
<1>1. \A q \in Procs : pc[q] = "rotated" => q = p
  BY DEF HolderIsInside
<1>2. CASE pc[p] = "rotated"
  <2>1. {q \in Procs : pc[q] = "rotated"} = {p}
    BY <1>1, <1>2
  <2> QED
    BY <1>2, <2>1 DEF Restores
<1>3. CASE pc[p] # "rotated"
  <2>1. {q \in Procs : pc[q] = "rotated"} = {}
    BY <1>1, <1>3
  <2> QED
    BY <1>3, <2>1 DEF Restores
<1> QED
  BY <1>2, <1>3

\* and an archive that is there is a state.
LEMMA RestoresStates ==
  ASSUME StoreInv PROVE Restores = {} \/ \E v \in SUBSET Updates : Restores = {v}
<1>1. CASE \E p \in Procs : pc[p] = "rotated"
  <2>1. PICK p \in Procs : pc[p] = "rotated"
    BY <1>1
  <2>2. HolderIsInside /\ lock = p
    BY <2>1 DEF StoreInv, HolderIsInside
  <2>3. backup[1] \in SUBSET Updates
    BY <2>1 DEF StoreInv, RestoreIsReady, TypeOK, FilesOK, States
  <2>4. Restores = {backup[1]}
    BY <2>1, <2>2, OneRestores
  <2> QED
    BY <2>3, <2>4
<1>2. CASE ~ \E p \in Procs : pc[p] = "rotated"
  BY <1>2 DEF Restores
<1> QED
  BY <1>1, <1>2

\* Steps that leave the file, the disk and the acknowledged updates alone.
LEMMA RegisterSame ==
  ASSUME RegisterInv, StoreInv', UNCHANGED <<disk, acked>>
  PROVE  RegStep /\ AckedIsEverywhere'
<1>1. May' = May /\ AckedIsEverywhere'
  BY DEF RegisterInv, AckedIsEverywhere, May, disk
<1>2. (Restores = {} \/ \E v \in SUBSET Updates : Restores = {v})'
  BY RestoresStates, PTL
<1> QED
  BY <1>1, <1>2 DEF RegStep, Reg!Next, Reg!Prepare

\* The rename: a value with every acknowledged update is on its way.
LEMMA RegisterProposes ==
  ASSUME RegisterInv, StoreInv', NEW p \in Procs, replaceFile(p) PROVE RegStep /\ AckedIsEverywhere'
<1>1. CASE UNCHANGED <<file, unsynced>>
  BY <1>1, RegisterSame DEF replaceFile, disk
<1> USE StoreAssumption DEF RegisterInv, StoreInv
<1>2. CASE Goes(p, "temp", "renamed") /\ file' = mem[p] /\ unsynced' = FALSE /\ UNCHANGED lock
  <2>1. mem[p] \in States /\ acked \subseteq mem[p]
    <3>1. mem[p] \in States /\ (old[p] # NoFile => old[p] \subseteq mem[p] /\ acked \subseteq old[p])
      BY <1>2 DEF SaveInv, SaveAdds, TypeOK, ProcsOK, KnowsAcked, Goes
    <3>3. old[p] = NoFile => file = NoFile
      BY <1>2 DEF SaveInv, SaveStartsFromFile, Goes
    <3>2. file = Torn \/ (file = NoFile /\ acked = {}) \/ (file \in States /\ acked \subseteq file)
      BY DEF AckedIsEverywhere, May
    <3> QED
      BY <3>1, <3>2, <3>3
  <2>2. UNCHANGED <<durable, acked>>
    BY <1>2 DEF replaceFile
  <2>3. May' = {mem[p], durable}
    BY <1>2, <2>2 DEF May
  <2>4. durable \in May
    BY DEF May
  <2>5. Restores = {} /\ Restores' = {}
    <3>1. lock = p /\ lock' = p /\ pc[p] = "temp" /\ pc'[p] = "renamed"
      BY <1>2 DEF Goes, HolderIsInside, TypeOK, ProcsOK
    <3>2. (Restores = IF pc[p] = "rotated" THEN {backup[1]} ELSE {})'
      BY <3>1 DEF HolderIsInside, Restores
    <3> QED
      BY <3>1, <3>2, OneRestores
  <2>7. Reg!Propose
    BY <2>1, <2>2, <2>3, <2>4, <2>5 DEF Reg!Propose, States
  <2>6. AckedIsEverywhere'
    BY <2>1, <2>2, <2>3, <2>4 DEF AckedIsEverywhere
  <2> QED
    BY <2>6, <2>7 DEF RegStep, Reg!Next
<1> QED
  BY <1>1, <1>2 DEF replaceFile

\* The directory is synced: there is nothing else to find.
LEMMA RegisterAcknowledges ==
  ASSUME RegisterInv, StoreInv', DurableReplace = TRUE, NEW p \in Procs, syncDir(p)
  PROVE  RegStep /\ AckedIsEverywhere'
<1>1. CASE UNCHANGED <<durable, acked>>
  BY <1>1, RegisterSame DEF syncDir, disk
<1> USE StoreAssumption DEF RegisterInv, StoreInv
<1>2. CASE /\ Step(p, "renamed", IF old[p] = NoFile THEN "open" ELSE "journal")
           /\ durable' = file /\ acked' = acked \cup committed(p)
  <2>1. file = mem[p] /\ unsynced = FALSE /\ mem[p] \in States
    BY <1>2 DEF SaveInv, SaveEndsInFile, TypeOK, ProcsOK, FilesOK, Step, Goes
  <2>2. acked \subseteq file
    BY <2>1 DEF AckedIsEverywhere, May
  <2>3. UNCHANGED <<file, unsynced>>
    BY <1>2 DEF syncDir
  <2>4. May' = {file} /\ file \in May
    BY <1>2, <2>1, <2>3 DEF May
  <2>5. acked \subseteq acked' /\ acked' \subseteq file
    BY <1>2, <2>1, <2>2 DEF committed
  <2>8. Restores = {} /\ Restores' = {}
    <3>1. lock = p /\ pc[p] = "renamed" /\ pc'[p] # "rotated" /\ \A q \in Procs \ {p} : pc'[q] = pc[q]
      BY <1>2 DEF Step, Goes, HolderIsInside, TypeOK, ProcsOK
    <3>2. {q \in Procs : pc'[q] = "rotated"} = {}
      BY <3>1 DEF HolderIsInside
    <3>3. Restores' = {}
      BY <3>2 DEF Restores
    <3> QED
      BY <3>1, <3>3, OneRestores
  <2>6. Reg!Acknowledge
    BY <2>1, <2>4, <2>5, <2>8 DEF Reg!Acknowledge, States
  <2>7. AckedIsEverywhere'
    BY <2>1, <2>4, <2>5 DEF AckedIsEverywhere
  <2> QED
    BY <2>6, <2>7 DEF RegStep, Reg!Next
<1> QED
  BY <1>1, <1>2 DEF syncDir

\* The commit of a restore.
LEMMA RegisterRestores ==
  ASSUME RegisterInv, StoreInv', NEW p \in Procs, RestoreCommits(p) PROVE RegStep /\ AckedIsEverywhere'
<1>1. CASE UNCHANGED <<disk, acked>>
  BY <1>1, RegisterSame
<1> USE StoreAssumption DEF RegisterInv, StoreInv
<1>2. CASE Step(p, "rotated", "installed") /\ WriteFileAtomic(backup[1]) /\ acked' = acked \cap backup[1]
  <2>1. backup[1] \in States
    BY <1>2 DEF TypeOK, FilesOK, RestoreIsReady, Step, Goes
  <2>2. May' = {backup[1], durable, Torn} /\ durable \in May
    BY <1>2 DEF WriteFileAtomic, May
  <2>5. Restores = {backup[1]} /\ Restores' = {}
    <3>1. lock = p /\ pc[p] = "rotated" /\ pc'[p] # "rotated" /\ \A q \in Procs \ {p} : pc'[q] = pc[q]
      BY <1>2 DEF Step, Goes, HolderIsInside, TypeOK, ProcsOK
    <3>2. {q \in Procs : pc'[q] = "rotated"} = {}
      BY <3>1 DEF HolderIsInside
    <3>3. Restores' = {}
      BY <3>2 DEF Restores
    <3> QED
      BY <3>1, <3>3, OneRestores
  <2>3. Reg!Restore
    BY <1>2, <2>1, <2>2, <2>5 DEF Reg!Restore, States
  <2>4. AckedIsEverywhere'
    BY <1>2, <2>1, <2>2 DEF AckedIsEverywhere
  <2> QED
    BY <2>3, <2>4 DEF RegStep, Reg!Next
<1> QED
  BY <1>1, <1>2 DEF RestoreCommits

\* A power failure decides.
LEMMA RegisterSettles ==
  ASSUME RegisterInv, PowerFails PROVE RegStep /\ AckedIsEverywhere'
<1>1. file' \in May /\ May' = {file'} /\ UNCHANGED acked
  BY DEF PowerFails, May
<1>4. {q \in Procs : pc'[q] = "rotated"} = {} /\ Restores' = {}
  BY DEF PowerFails, Restores
<1>2. Reg!Settle
  BY <1>1, <1>4 DEF Reg!Settle
<1>3. AckedIsEverywhere'
  BY <1>1 DEF AckedIsEverywhere, RegisterInv
<1> QED
  BY <1>2, <1>3 DEF RegStep, Reg!Next

\* An update that is acknowledged is in memory, and memory goes back to no less.
LEMMA KnowledgeKept ==
  ASSUME RegisterInv, [Next]_vars PROVE KnowsAcked'
<1> USE StoreAssumption DEF RegisterInv, StoreInv, TypeOK, disk, proc, journal, archives
<1>1. ASSUME NEW p \in Procs, Update(p) PROVE KnowsAcked'
  BY <1>1 DEF Update, Goes, KnowsAcked, ProcsOK
<1>2. ASSUME NEW p \in Procs, pc[p] \in {"save", "temp", "renamed"}, rollback(p), UNCHANGED acked PROVE KnowsAcked'
  <2>1. CASE old[p] = NoFile
    BY <1>2, <2>1 DEF rollback, Leave, KnowsAcked, ProcsOK
  <2>2. CASE old[p] # NoFile
    <3>1. \A q \in Procs \ {p} : pc'[q] \in {"down", "looked"}
      BY <1>2, <2>2 DEF rollback, HolderIsInside, ProcsOK
    <3>2. pc'[p] = "open" /\ mem'[p] = old[p] /\ acked' \subseteq old[p]
      BY <1>2, <2>2 DEF rollback, KnowsAcked, ProcsOK
    <3> QED
      BY <3>1, <3>2 DEF KnowsAcked
  <2> QED
    BY <2>1, <2>2
<1>3. ASSUME NEW p \in Procs, WriteTemp(p) \/ replaceFile(p) PROVE KnowsAcked'
  <2>1. CASE Step(p, "save", "temp") /\ UNCHANGED acked
    BY <2>1 DEF Step, Goes, KnowsAcked, ProcsOK
  <2>2. CASE Goes(p, "temp", "renamed") /\ UNCHANGED <<mem, old, ro, acked>>
    BY <2>2 DEF Goes, KnowsAcked, ProcsOK
  <2> QED
    BY <1>2, <1>3, <2>1, <2>2 DEF WriteTemp, replaceFile
<1>4. ASSUME NEW p \in Procs, syncDir(p) PROVE KnowsAcked'
  <2>1. CASE Step(p, "renamed", IF old[p] = NoFile THEN "open" ELSE "journal") /\ acked' = acked \cup committed(p)
    <3>1. acked' \subseteq mem[p]
      <4>1. CASE old[p] = NoFile
        BY <2>1, <4>1 DEF Step, Goes, committed, SaveInv, SaveEndsInFile, AckedIsEverywhere, May, ProcsOK
      <4>2. CASE old[p] # NoFile
        BY <2>1, <4>2 DEF Step, Goes, committed, SaveInv, SaveAdds, KnowsAcked, ProcsOK
      <4> QED
        BY <4>1, <4>2
    <3>2. \A q \in Procs \ {p} : pc'[q] \in {"down", "looked"}
      BY <2>1 DEF Step, Goes, HolderIsInside, ProcsOK
    <3> QED
      BY <2>1, <3>1, <3>2 DEF Step, Goes, KnowsAcked, ProcsOK
  <2> QED
    BY <1>2, <1>4, <2>1 DEF syncDir
<1>5. ASSUME NEW p \in Procs, ReadState(p) PROVE KnowsAcked'
  <2>1. file # NoFile /\ file # Torn => acked \subseteq file
    BY DEF AckedIsEverywhere, May
  <2>2. \A q \in Procs \ {p} : pc[q] \in {"down", "looked"}
    BY <1>5 DEF ReadState, Step, Goes, HolderIsInside, ProcsOK
  <2>3. old[p] = NoFile
    BY <1>5 DEF ReadState, Step, Goes, NothingRead
  <2>4. CASE Goes(p, "keyed", "open") /\ parseStateBytes(p) /\ file # NoFile /\ UNCHANGED <<old, acked>>
    BY <2>1, <2>2, <2>3, <2>4 DEF Goes, parseStateBytes, KnowsAcked, ProcsOK
  <2>5. CASE Step(p, "keyed", "save") /\ UNCHANGED acked
    BY <2>2, <2>3, <2>5 DEF Step, Goes, KnowsAcked, ProcsOK
  <2>6. CASE Leave(p) /\ UNCHANGED acked
    BY <2>2, <2>6 DEF Leave, KnowsAcked, ProcsOK
  <2> QED
    BY <1>5, <2>4, <2>5, <2>6 DEF ReadState
<1>6. ASSUME NEW p \in Procs, RestoreCommits(p) PROVE KnowsAcked'
  BY <1>6 DEF RestoreCommits, Step, Goes, Leave, KnowsAcked, HolderIsInside, ProcsOK
<1>7. ASSUME NEW p \in Procs, RestoreKeeps(p) \/ RestoreRotates(p) \/ RestoreEnds(p) \/ RestoreLooks(p) PROVE KnowsAcked'
  BY <1>7 DEF RestoreKeeps, RestoreRotates, RestoreEnds, RestoreLooks, Step, Goes, Leave, KnowsAcked, ProcsOK
<1>8. ASSUME NEW p \in Procs, Open(p) \/ LoadKey(p) \/ WriteKey(p) \/ OpenForRead(p) \/ Close(p) PROVE KnowsAcked'
  BY <1>8 DEF Open, LoadKey, WriteKey, OpenForRead, Close, Step, Goes, Leave, KnowsAcked, ProcsOK
<1>9. ASSUME NEW p \in Procs, Record(p) \/ CreateBackupArchive(p) \/ rotateJournal(p) \/ Crash(p) PROVE KnowsAcked'
  BY <1>9 DEF Record, CreateBackupArchive, rotateJournal, Crash, Step, Goes, Leave, KnowsAcked, ProcsOK
<1>10. CASE PowerFails
  BY <1>10 DEF PowerFails, KnowsAcked
<1>11. CASE UNCHANGED vars
  BY <1>11 DEF vars, KnowsAcked
<1> QED
  BY <1>1, <1>3, <1>4, <1>5, <1>6, <1>7, <1>8, <1>9, <1>10, <1>11 DEF Next, Opening, Saving, Restoring

\* Every step of the store is a step of the register or none.
LEMMA RegisterNext ==
  ASSUME DurableReplace = TRUE
  PROVE  RegisterInv /\ [Next]_vars => RegStep /\ RegisterInv'
<1> SUFFICES ASSUME RegisterInv, StoreInv', [Next]_vars PROVE RegStep /\ AckedIsEverywhere'
  BY StoreNext, KnowledgeKept DEF RegisterInv
<1>1. CASE UNCHANGED <<disk, acked>>
  BY <1>1, RegisterSame
<1>2. CASE PowerFails
  BY <1>2, RegisterSettles
<1>3. CASE \E p \in Procs : replaceFile(p) \/ syncDir(p) \/ RestoreCommits(p)
  BY <1>3, RegisterProposes, RegisterAcknowledges, RegisterRestores
<1> QED
  BY <1>1, <1>2, <1>3 DEF vars, Next, Opening, Saving, Restoring, Open, LoadKey, WriteKey,
    ReadState, OpenForRead,
    Close, Update, WriteTemp, Record, RestoreLooks, RestoreKeeps, RestoreRotates, RestoreEnds,
    CreateBackupArchive, rotateJournal, Crash

LEMMA RegisterInit == Init => RegisterInv /\ Reg!Init
BY StoreInit DEF Init, RegisterInv, AckedIsEverywhere, KnowsAcked, May, Restores, Reg!Init

\* Where directories are synced the store implements a durable register:
\* whatever fails, a restart finds a whole state with every acknowledged update,
\* but for what an operator's restore took back (saveAtomicLocked under
\* state.lock).
THEOREM StoreIsARegister ==
  ASSUME DurableReplace = TRUE PROVE Spec => ImplementsRegister
<1>1. RegisterInv /\ [Next]_vars => RegisterInv' /\ [Reg!Next]_<<May, acked, Restores>>
  BY RegisterNext DEF RegStep
<1> QED
  BY <1>1, RegisterInit, PTL DEF Spec, ImplementsRegister, Reg!Spec

-----------------------------------------------------------------------------
(* The recordings directory. *)

Statuses == {"none", "recording", "completed", "aborted", "error"}
RecFile == [of : Recs \cup {NoRec}, chunks : Nat, synced : Nat]
RecMeta == [status : Statuses, at : Nat, sum : Nat \cup {-1}]
RecGroup == [cast : RecFile, exec : RecFile, meta : RecMeta, txt : BOOLEAN]
Recorder == [at : {"no", "over"} \cup Living, kind : {"cast", "exec"}, name : Names \cup {NoName}, shown : Nat,
             held : 0..MaxHeld, bare : BOOLEAN, unsaid : BOOLEAN]
Found == [name : Names, at : 0..MaxNow, status : Statuses, files : SUBSET Exts]
SweepPass == [pc : {"idle", "prune", "remove"}, old : SUBSET Found, rest : SUBSET Found,
              name : Names \cup {NoName}, files : SUBSET Exts, by : {"age", "size"}, gone : BOOLEAN]

DirTypes ==
  /\ gw \in {"up", "repair"} /\ today \in 0..MaxNow
  /\ dir \in [Names -> RecGroup] /\ rec \in [Recs -> Recorder]
  /\ sweep \in SweepPass /\ taken \subseteq Names
  /\ \A n \in Names : dir[n].meta.status = "none" => dir[n].meta = NoMeta

\* A session's file, which is linked, is as long as its recorder has written: it
\* lacks the chunks whose end is held back, and of one being written it may lack
\* the end too.
Fits(f, r) ==
  /\ f.synced <= f.chunks /\ r.shown <= f.synced + r.held
  /\ r.at \in {"claimed", "open"} => f.chunks = f.synced /\ f.synced + r.held = r.shown
  /\ r.at = "wrote" => f.synced + r.held = r.shown /\ f.chunks \in {r.shown, r.shown + 1}
  /\ r.at = "wrote" /\ r.kind = "exec" => f.chunks = r.shown + 1

FilesFit ==
  \A s \in Recs :
    /\ rec[s].at = "no" => rec[s].name = NoName /\ rec[s].shown = 0 /\ rec[s].held = 0
    /\ rec[s].kind = "exec" => rec[s].held = 0
    /\ rec[s].at \in Living => rec[s].name \in Names
    /\ rec[s].at # "over" => ~rec[s].unsaid
    /\ rec[s].name \in Names => (Linked(s) => Fits(File(s), rec[s])) /\ (rec[s].name \notin taken => Linked(s))

\* What a hash may be of: all that was shown but ends that were held back.
Told(sum, r) == sum \in r.shown - r.held..r.shown \/ (r.kind = "exec" /\ sum = -1)

Completed ==
  \A n \in Names \ taken : dir[n].meta.status = "completed" =>
    \E s \in Recs : rec[s].name = n /\ Linked(s) /\ rec[s].at = "over" /\ Told(dir[n].meta.sum, rec[s])

\* Whatever has files is some session's.
Owned == \A n \in Names : Some(n) => \E s \in Recs : rec[s].name = n

Says(r) == r.at \in {"open", "wrote", "failed"} \/ r.unsaid
Protected == gw = "up" => \A n \in Orphans : \E s \in Recs : rec[s].name = n /\ Says(rec[s])

InRepair == gw = "repair" => sweep = Resting /\ \A s \in Recs : ~Live(s)

Groups == sweep.old \cup sweep.rest

\* What the pass knows of a session that it must leave alone.
Spared ==
  \A s \in Recs : Live(s) /\ ~rec[s].bare /\ Alone(s) =>
    /\ Linked(s) /\ dir[rec[s].name].meta.status \in {"none", "recording"}
    /\ sweep.pc = "remove" => sweep.name # rec[s].name
    /\ \A g \in Groups : g.name = rec[s].name => g.status = "recording"

PassOK ==
  /\ \A g \in sweep.old : g.status # "recording"
  /\ \A g, h \in Groups : g.name = h.name => g = h
  /\ \A g \in Groups : Some(g.name)
  /\ sweep.pc = "remove" => /\ sweep.name \in taken /\ \A g \in Groups : g.name # sweep.name
                            /\ sweep.by = "size" => sweep.rest # {}

RecordingsInv == DirTypes /\ FilesFit /\ Completed /\ Owned /\ Protected /\ InRepair /\ Spared /\ PassOK

LEMMA NamesAndFiles ==
  /\ NoName \notin Names /\ \A n \in Names : n[1] \in Nat
  /\ Missing \in RecFile /\ Missing.of = NoRec /\ NoRec \notin Recs
  /\ NoMeta \in RecMeta /\ NoMeta.status = "none" /\ Nameless \in RecGroup
  /\ Nameless.cast = Missing /\ Nameless.exec = Missing /\ Nameless.meta = NoMeta
  /\ Resting \in SweepPass /\ Resting.pc = "idle" /\ Resting.old = {} /\ Resting.rest = {}
<1>1. NoName \notin Names /\ \A n \in Names : n[1] \in Nat
  BY RecordingsAssumption DEF NoName, Names
<1>2. Missing \in RecFile /\ Missing.of = NoRec /\ NoRec \notin Recs
  BY RecordingsAssumption DEF Missing, RecFile
<1>3. NoMeta \in RecMeta /\ NoMeta.status = "none"
  BY DEF NoMeta, RecMeta, Statuses
<1>4. Nameless \in RecGroup /\ Nameless.cast = Missing /\ Nameless.exec = Missing /\ Nameless.meta = NoMeta
  BY <1>2, <1>3 DEF Nameless, RecGroup
<1>5. Resting \in SweepPass /\ Resting.pc = "idle" /\ Resting.old = {} /\ Resting.rest = {}
  BY DEF Resting, SweepPass
<1>6. QED
  BY <1>1, <1>2, <1>3, <1>4, <1>5

\* Of a session that lives: where its file is, and that it is its own.
LEMMA SessionFacts ==
  ASSUME RecordingsInv, NEW s \in Recs
  PROVE  /\ rec[s] \in Recorder /\ (rec[s].kind = "exec" => rec[s].held = 0)
         /\ Live(s) => /\ rec[s].name \in Names /\ ~rec[s].unsaid /\ dir[rec[s].name] \in RecGroup
                       /\ File(s) \in RecFile
                       /\ rec[s].name \notin taken => Linked(s)
                       /\ Linked(s) => Fits(File(s), rec[s])
<1>1. rec[s] \in Recorder /\ (rec[s].kind = "exec" => rec[s].held = 0)
  BY DEF RecordingsInv, DirTypes, FilesFit
<1>2. ASSUME Live(s)
      PROVE  /\ rec[s].name \in Names /\ ~rec[s].unsaid /\ dir[rec[s].name] \in RecGroup
             /\ rec[s].name \notin taken => Linked(s)
             /\ Linked(s) => Fits(File(s), rec[s])
  BY <1>2 DEF RecordingsInv, DirTypes, FilesFit, Live, Living
<1>3. ASSUME Live(s) PROVE File(s) \in RecFile
  BY <1>1, <1>2, <1>3 DEF File, Recorder, RecGroup
<1>4. QED
  BY <1>1, <1>2, <1>3

\* A step of the recorder of one session, on its own record and the files of
\* its name: what it owes of the two.
LEMMA RecorderMoves ==
  ASSUME RecordingsInv, RecorderOnly, NEW s \in Recs, Live(s), NEW n \in Names, n = rec[s].name,
         rec' \in [Recs -> Recorder], dir' \in [Names -> RecGroup],
         \A t \in Recs \ {s} : rec'[t] = rec[t],
         \A m \in Names \ {n} : dir'[m] = dir[m],
         rec'[s].name = n, rec'[s].kind = rec[s].kind, rec'[s].at \in Living \cup {"over"},
         rec'[s].at \in Living => ~rec'[s].unsaid,
         rec'[s].at \in Living => rec'[s].bare = rec[s].bare,
         rec[s].kind = "exec" => rec'[s].held = 0,
         \A k \in {"cast", "exec"} :
           /\ dir'[n][k].of = dir[n][k].of
           /\ dir'[n][k] = dir[n][k] \/ (k = rec[s].kind /\ Linked(s)),
         Linked(s) => Fits(dir'[n][rec[s].kind], rec'[s]),
         dir'[n].meta.status = "none" => dir'[n].meta = NoMeta,
         dir[n] # Nameless => dir'[n] # Nameless,
         \/ dir'[n].meta = dir[n].meta
         \/ dir'[n].meta.status # "completed"
         \/ rec'[s].at = "over" /\ (n \notin taken => Told(dir'[n].meta.sum, rec'[s])),
         dir'[n].meta.status = "recording" =>
           Says(rec'[s]) \/ (dir[n].meta.status = "recording" /\ ~Says(rec[s])),
         rec'[s].at \in Living =>
           dir'[n].meta.status \in {"none", "recording"} \/ dir'[n].meta = dir[n].meta
  PROVE  RecordingsInv'
<1>1. UNCHANGED <<gw, today, sweep, taken>> /\ Groups' = Groups
  BY DEF RecorderOnly, Groups
<1>2. DirTypes'
  BY <1>1 DEF RecordingsInv, DirTypes
<1>3. \A t \in Recs : rec'[t].name = rec[t].name /\ rec'[t].kind = rec[t].kind /\ rec[t].kind \in {"cast", "exec"}
  BY SMTT(30) DEF RecordingsInv, DirTypes, Recorder
<1>4. \A t \in Recs : rec[t].name \in Names => (Linked(t)' <=> Linked(t))
  <2> SUFFICES ASSUME NEW t \in Recs, rec[t].name \in Names PROVE Linked(t)' <=> Linked(t)
    OBVIOUS
  <2>1. dir'[rec[t].name][rec[t].kind].of = dir[rec[t].name][rec[t].kind].of
    BY <1>3
  <2>2. QED
    BY <1>3, <2>1 DEF Linked, File
<1>5. FilesFit'
  <2> SUFFICES ASSUME NEW t \in Recs
               PROVE  /\ rec'[t].at = "no" => rec'[t].name = NoName /\ rec'[t].shown = 0 /\ rec'[t].held = 0
                      /\ rec'[t].kind = "exec" => rec'[t].held = 0
                      /\ rec'[t].at \in Living => rec'[t].name \in Names
                      /\ rec'[t].at # "over" => ~rec'[t].unsaid
                      /\ rec'[t].name \in Names => /\ Linked(t)' => Fits(File(t)', rec'[t])
                                                   /\ rec'[t].name \notin taken => Linked(t)'
    BY <1>1 DEF FilesFit
  <2>1. CASE t = s
    <3>1. rec'[s].at # "no"
      BY DEF Living
    <3>2. n \notin taken => Linked(s)
      BY SessionFacts
    <3>3. File(s)' = dir'[n][rec[s].kind]
      BY DEF File
    <3>4. QED
      BY <1>4, <2>1, <3>1, <3>2, <3>3
  <2>2. CASE t # s
    <3>1. rec'[t] = rec[t]
      BY <2>2
    <3>2. ASSUME rec[t].name \in Names, Linked(t) PROVE File(t)' = File(t)
      BY <1>3, <2>2, <3>1, <3>2, SMTT(30) DEF File, Linked
    <3>3. QED
      BY <1>4, <3>1, <3>2 DEF RecordingsInv, FilesFit
  <2>3. QED
    BY <2>1, <2>2
<1>6. Completed'
  <2> SUFFICES ASSUME NEW m \in Names \ taken, dir'[m].meta.status = "completed"
               PROVE  \E t \in Recs : rec'[t].name = m /\ Linked(t)' /\ rec'[t].at = "over" /\ Told(dir'[m].meta.sum, rec'[t])
    BY <1>1 DEF Completed
  <2>1. CASE dir'[m].meta = dir[m].meta
    <3>1. PICK t \in Recs : rec[t].name = m /\ Linked(t) /\ rec[t].at = "over" /\ Told(dir[m].meta.sum, rec[t])
      BY <2>1 DEF RecordingsInv, Completed
    <3>2. t # s
      BY <3>1, SMTT(30) DEF Live, Living
    <3>3. QED
      BY <1>4, <2>1, <3>1, <3>2
  <2>2. CASE m = n /\ dir'[n].meta # dir[n].meta
    BY <1>4, <2>2, SessionFacts
  <2>3. QED
    BY <2>1, <2>2
<1>7. Owned'
  BY <1>3 DEF RecordingsInv, Owned, Some
<1>8. Protected'
  <2> SUFFICES ASSUME gw = "up", NEW m \in Names, dir'[m].meta.status = "recording"
               PROVE  \E t \in Recs : rec'[t].name = m /\ Says(rec'[t])
    BY <1>1 DEF Protected, Orphans
  <2>1. CASE dir[m].meta.status = "recording" /\ (m = n => ~Says(rec[s]))
    <3>1. PICK t \in Recs : rec[t].name = m /\ Says(rec[t])
      BY <2>1 DEF RecordingsInv, Protected, Orphans
    <3>2. t # s
      BY <2>1, <3>1
    <3>3. QED
      BY <3>1, <3>2
  <2>2. CASE m = n /\ Says(rec'[s])
    BY <2>2
  <2>3. QED
    BY <2>1, <2>2
<1>9. InRepair'
  <2>1. gw = "repair" => FALSE
    BY DEF RecordingsInv, InRepair
  <2>2. QED
    BY <1>1, <2>1 DEF InRepair
<1>10. Spared'
  <2> SUFFICES ASSUME NEW t \in Recs, Live(t)', ~rec'[t].bare, Alone(t)'
               PROVE  /\ Linked(t)' /\ dir'[rec'[t].name].meta.status \in {"none", "recording"}
                      /\ sweep.pc = "remove" => sweep.name # rec'[t].name
                      /\ \A g \in Groups : g.name = rec'[t].name => g.status = "recording"
    BY <1>1 DEF Spared
  <2>1. Live(t) /\ ~rec[t].bare /\ Alone(t) /\ rec[t].name \in Names
    <3>1. Live(t) /\ ~rec[t].bare
      BY DEF Live
    <3>2. Alone(t)
      BY <1>3 DEF Alone
    <3>3. QED
      BY <3>1, <3>2, SessionFacts
  <2>2. /\ Linked(t) /\ dir[rec[t].name].meta.status \in {"none", "recording"}
        /\ sweep.pc = "remove" => sweep.name # rec[t].name
        /\ \A g \in Groups : g.name = rec[t].name => g.status = "recording"
    BY <2>1 DEF RecordingsInv, Spared
  <2>3. dir'[rec[t].name].meta.status \in {"none", "recording"}
    <3>1. CASE t = s
      BY <2>2, <3>1 DEF Live
    <3>2. CASE t # s
      BY <2>1, <2>2, <3>2 DEF Alone
    <3>3. QED
      BY <3>1, <3>2, SMTT(30)
  <2>4. QED
    BY <1>3, <1>4, <2>1, <2>2, <2>3, SMTT(30)
<1>11. PassOK'
  BY <1>1 DEF RecordingsInv, PassOK, Some, DirTypes, SweepPass, Found, Groups
<1>12. QED
  BY <1>2, <1>5, <1>6, <1>7, <1>8, <1>9, <1>10, <1>11 DEF RecordingsInv

\* How the record of one session changes.
OnlyRec(s) ==
  /\ rec' \in [Recs -> Recorder] /\ \A t \in Recs \ {s} : rec'[t] = rec[t]
  /\ rec'[s].name = rec[s].name /\ rec'[s].kind = rec[s].kind

LEMMA MovesTypes ==
  ASSUME RecordingsInv, NEW s \in Recs, NEW to \in Living, Moves(s, to)
  PROVE  /\ OnlyRec(s) /\ rec'[s].at = to /\ rec'[s].bare = rec[s].bare
         /\ rec'[s].unsaid = rec[s].unsaid /\ rec'[s].shown = rec[s].shown /\ rec'[s].held = rec[s].held
  BY DEF RecordingsInv, DirTypes, Recorder, Moves, OnlyRec

LEMMA EndsTypes ==
  ASSUME RecordingsInv, NEW s \in Recs, NEW u \in BOOLEAN, Ends(s, u)
  PROVE  OnlyRec(s) /\ rec'[s].at = "over" /\ rec'[s].unsaid = u /\ rec'[s].shown = rec[s].shown /\ rec'[s].held = rec[s].held
  BY ZenonT(60) DEF RecordingsInv, DirTypes, Recorder, Ends, Gone, OnlyRec

LEMMA ShowsTypes ==
  ASSUME RecordingsInv, NEW s \in Recs, NEW h \in 0..MaxHeld,
         \/ rec' = [rec EXCEPT ![s].at = "open", ![s].shown = @ + 1, ![s].held = h]
         \/ rec[s].at = "open" /\ rec' = [rec EXCEPT ![s].shown = @ + 1, ![s].held = h]
  PROVE  /\ OnlyRec(s) /\ rec'[s].at = "open" /\ rec'[s].bare = rec[s].bare
         /\ rec'[s].unsaid = rec[s].unsaid /\ rec'[s].shown = rec[s].shown + 1 /\ rec'[s].held = h
  BY DEF RecordingsInv, DirTypes, Recorder, OnlyRec, Living

LEMMA OverTypes ==
  ASSUME RecordingsInv, NEW s \in Recs, NEW u \in BOOLEAN, NEW h \in 0..MaxHeld,
         rec' = [rec EXCEPT ![s] = [Gone(rec[s], u) EXCEPT !.held = h]]
  PROVE  OnlyRec(s) /\ rec'[s].at = "over" /\ rec'[s].unsaid = u /\ rec'[s].shown = rec[s].shown /\ rec'[s].held = h
<1>1. rec[s] \in Recorder
  BY DEF RecordingsInv, DirTypes
<1>2. PICK r \in Recorder : /\ rec' = [rec EXCEPT ![s] = r] /\ r.at = "over" /\ r.unsaid = u /\ r.shown = rec[s].shown
                            /\ r.held = h /\ r.name = rec[s].name /\ r.kind = rec[s].kind
  <2> DEFINE r == [Gone(rec[s], u) EXCEPT !.held = h]
  <2>1. r = [rec[s] EXCEPT !.at = "over", !.unsaid = u, !.bare = FALSE, !.held = h]
    BY <1>1 DEF Gone, Recorder
  <2>2. /\ r \in Recorder /\ r.at = "over" /\ r.unsaid = u /\ r.shown = rec[s].shown
        /\ r.held = h /\ r.name = rec[s].name /\ r.kind = rec[s].kind
    BY <1>1, <2>1 DEF Recorder
  <2>3. QED
    BY <2>2
<1>3. QED
  BY <1>2 DEF RecordingsInv, DirTypes, OnlyRec

\* How the files of one name change.
OnlyDir(n) == dir' \in [Names -> RecGroup] /\ \A m \in Names \ {n} : dir'[m] = dir[m]

LEMMA GroupTypes ==
  ASSUME RecordingsInv, NEW n \in Names, NEW g \in RecGroup, dir' = [dir EXCEPT ![n] = g]
  PROVE  OnlyDir(n) /\ dir'[n] = g
  BY DEF RecordingsInv, DirTypes, OnlyDir

LEMMA MetaTypes ==
  ASSUME RecordingsInv, NEW n \in Names, NEW m \in RecMeta, m.status # "none", dir' = [dir EXCEPT ![n].meta = m]
  PROVE  /\ OnlyDir(n) /\ dir'[n].meta = m /\ dir'[n] # Nameless
         /\ dir'[n].cast = dir[n].cast /\ dir'[n].exec = dir[n].exec
<1>1. dir[n] \in RecGroup
  BY DEF RecordingsInv, DirTypes
<1>2. /\ [dir[n] EXCEPT !.meta = m] \in RecGroup /\ [dir[n] EXCEPT !.meta = m].meta = m
      /\ [dir[n] EXCEPT !.meta = m].cast = dir[n].cast /\ [dir[n] EXCEPT !.meta = m].exec = dir[n].exec
  BY <1>1 DEF RecGroup
<1>3. OnlyDir(n) /\ dir'[n] = [dir[n] EXCEPT !.meta = m]
  BY <1>2, GroupTypes
<1>4. QED
  BY <1>2, <1>3, NamesAndFiles

LEMMA FirstMetaKeeps == ASSUME RecordingsInv, NEW s \in Recs, firstMeta(s) PROVE RecordingsInv'
<1> DEFINE n == rec[s].name
<1>1. /\ Live(s) /\ rec[s].at = "claimed" /\ RecorderOnly /\ n \in Names /\ ~rec[s].unsaid
      /\ rec[s] \in Recorder /\ (rec[s].kind = "exec" => rec[s].held = 0) /\ (Linked(s) => Fits(File(s), rec[s]))
      /\ File(s) \in RecFile /\ gw = "up"
  BY SessionFacts DEF firstMeta, Stands, Live, Living
<1>2. OnlyRec(s) /\ rec'[s].at \in {"open", "over"} /\ (rec'[s].at = "open" => rec'[s].bare = rec[s].bare /\ ~rec'[s].unsaid)
      /\ rec'[s].shown = rec[s].shown /\ rec'[s].held = rec[s].held
  BY <1>1, MovesTypes, EndsTypes DEF firstMeta, Living
<1>3. Linked(s) => Fits(File(s), rec'[s])
  BY <1>1, <1>2 DEF Fits, Recorder, RecFile, MaxHeld, Living
<1>4. CASE WriteMeta(n, "recording", n[1], -1) /\ (rec'[s].at = "open" \/ rec'[s].unsaid)
  <2>1. PICK m \in RecMeta : m.status = "recording" /\ dir' = [dir EXCEPT ![n].meta = m]
    <3>1. [status |-> "recording", at |-> n[1], sum |-> -1] \in RecMeta
      BY <1>1, NamesAndFiles DEF RecMeta, Statuses
    <3>2. [status |-> "recording", at |-> n[1], sum |-> -1].status = "recording"
      OBVIOUS
    <3>3. QED
      BY <1>4, <3>1, <3>2 DEF WriteMeta
  <2>2. /\ OnlyDir(n) /\ dir'[n].meta.status = "recording" /\ dir'[n] # Nameless
        /\ dir'[n].cast = dir[n].cast /\ dir'[n].exec = dir[n].exec
    BY <1>1, <2>1, MetaTypes
  <2>3. \A k \in {"cast", "exec"} : dir'[n][k] = dir[n][k]
    BY <2>2
  <2>4. dir'[n][rec[s].kind] = File(s)
    BY <1>1, <2>3 DEF File, Recorder
  <2>5. Says(rec'[s])
    BY <1>4 DEF Says
  <2> HIDE DEF n
  <2>6. QED
    BY <1>1, <1>2, <1>3, <2>2, <2>3, <2>4, <2>5, RecorderMoves DEF OnlyRec, OnlyDir, n, Living
<1>5. CASE dir' = dir
  BY <1>1, <1>2, <1>3, <1>5, RecorderMoves DEF OnlyRec, OnlyDir, Living, Says, RecordingsInv, DirTypes, File
<1>6. QED
  BY <1>1, <1>4, <1>5, MovesTypes, EndsTypes DEF firstMeta, Living

LEMMA HeaderFailsKeeps == ASSUME RecordingsInv, NEW s \in Recs, headerFails(s) PROVE RecordingsInv'
<1> DEFINE n == rec[s].name
<1>1. /\ Live(s) /\ rec[s].at = "claimed" /\ RecorderOnly /\ n \in Names /\ ~rec[s].unsaid /\ dir' = dir
      /\ rec[s] \in Recorder /\ (rec[s].kind = "exec" => rec[s].held = 0) /\ (Linked(s) => Fits(File(s), rec[s]))
      /\ File(s) \in RecFile /\ gw = "up" /\ Ends(s, FALSE)
  BY SessionFacts DEF headerFails, Stands, Live, Living
<1>2. OnlyRec(s) /\ rec'[s].at = "over" /\ rec'[s].shown = rec[s].shown /\ rec'[s].held = rec[s].held
  BY <1>1, EndsTypes
<1>3. Linked(s) => Fits(File(s), rec'[s])
  BY <1>1, <1>2 DEF Fits, Recorder, RecFile, MaxHeld, Living
<1>4. QED
  BY <1>1, <1>2, <1>3, RecorderMoves DEF OnlyRec, OnlyDir, Living, Says, RecordingsInv, DirTypes, File

\* What is put into a file that is linked; else nothing on disk changes.
LEMMA PutsTypes ==
  ASSUME RecordingsInv, NEW s \in Recs, Live(s), NEW f \in RecFile, f.of = File(s).of, Puts(s, f)
  PROVE  /\ OnlyDir(rec[s].name) /\ dir'[rec[s].name].meta = dir[rec[s].name].meta
         /\ \A k \in {"cast", "exec"} : /\ dir'[rec[s].name][k].of = dir[rec[s].name][k].of
                                        /\ \/ dir'[rec[s].name][k] = dir[rec[s].name][k]
                                           \/ k = rec[s].kind /\ Linked(s)
         /\ Linked(s) => dir'[rec[s].name][rec[s].kind] = f
         /\ dir'[rec[s].name] = dir[rec[s].name] \/ dir'[rec[s].name] # Nameless
<1> DEFINE n == rec[s].name  k == rec[s].kind
<1>1. n \in Names /\ k \in {"cast", "exec"} /\ dir[n] \in RecGroup
  BY SessionFacts DEF Recorder
<1>2. CASE ~Linked(s)
  BY <1>1, <1>2, SMTT(30) DEF Puts, OnlyDir, RecordingsInv, DirTypes
<1>3. CASE Linked(s)
  <2>1. /\ [dir[n] EXCEPT ![k] = f] \in RecGroup /\ [dir[n] EXCEPT ![k] = f].meta = dir[n].meta
        /\ [dir[n] EXCEPT ![k] = f][k] = f
        /\ \A j \in {"cast", "exec"} : j # k => [dir[n] EXCEPT ![k] = f][j] = dir[n][j]
    BY <1>1 DEF RecGroup
  <2>2. dir' = [dir EXCEPT ![n] = [dir[n] EXCEPT ![k] = f]]
    BY <1>1, <1>3 DEF Puts, RecordingsInv, DirTypes
  <2>3. OnlyDir(n) /\ dir'[n] = [dir[n] EXCEPT ![k] = f]
    BY <1>1, <2>1, <2>2, GroupTypes
  <2>4. f.of = s /\ dir'[n][k].of = s
    BY <1>3, <2>1, <2>3 DEF Linked
  <2>5. dir'[n] # Nameless
    BY <1>1, <2>4, NamesAndFiles
  <2>6. \A j \in {"cast", "exec"} : dir'[n][j].of = dir[n][j].of
    BY <2>1, <2>3 DEF File
  <2>7. QED
    BY <1>1, <1>3, <2>1, <2>3, <2>5, <2>6
<1>4. QED
  BY <1>2, <1>3

LEMMA WriteChunkKeeps == ASSUME RecordingsInv, NEW s \in Recs, writeChunk(s) PROVE RecordingsInv'
<1> DEFINE n == rec[s].name
<1>1. /\ Live(s) /\ rec[s].at = "open" /\ RecorderOnly /\ n \in Names /\ ~rec[s].unsaid
      /\ rec[s] \in Recorder /\ (rec[s].kind = "exec" => rec[s].held = 0)
      /\ (Linked(s) => Fits(File(s), rec[s])) /\ File(s) \in RecFile
  BY SessionFacts DEF writeChunk, Stands, Live, Living
<1>2. CASE \E whole \in {0, 1} : /\ whole = 0 => rec[s].kind = "cast"
                                 /\ Puts(s, [File(s) EXCEPT !.chunks = rec[s].shown + whole]) /\ Moves(s, "wrote")
  <2>1. PICK whole \in {0, 1} : /\ whole = 0 => rec[s].kind = "cast"
                                /\ Puts(s, [File(s) EXCEPT !.chunks = rec[s].shown + whole]) /\ Moves(s, "wrote")
    BY <1>2
  <2>2. PICK f \in RecFile : /\ Puts(s, f) /\ f.of = File(s).of
                             /\ f.chunks = rec[s].shown + whole /\ f.synced = File(s).synced
    <3>1. /\ [File(s) EXCEPT !.chunks = rec[s].shown + whole] \in RecFile
          /\ [File(s) EXCEPT !.chunks = rec[s].shown + whole].of = File(s).of
          /\ [File(s) EXCEPT !.chunks = rec[s].shown + whole].chunks = rec[s].shown + whole
          /\ [File(s) EXCEPT !.chunks = rec[s].shown + whole].synced = File(s).synced
      BY <1>1 DEF RecFile, Recorder
    <3>2. QED
      BY <2>1, <3>1
  <2>3. /\ OnlyRec(s) /\ rec'[s].at = "wrote" /\ rec'[s].bare = rec[s].bare /\ ~rec'[s].unsaid
        /\ rec'[s].shown = rec[s].shown /\ rec'[s].held = rec[s].held
    BY <1>1, <2>1, MovesTypes DEF Living
  <2>4. rec[s].kind \in {"cast", "exec"} /\ rec'[s].kind = rec[s].kind
    BY <1>1, <2>3 DEF Recorder, OnlyRec
  <2>5. Linked(s) => Fits(f, rec'[s])
    BY <1>1, <2>1, <2>2, <2>3, <2>4 DEF Fits, Recorder, RecFile, MaxHeld
  <2>6. QED
    BY <1>1, <2>2, <2>3, <2>5, PutsTypes, RecorderMoves DEF OnlyRec, OnlyDir, Living, Says, RecordingsInv, DirTypes
<1>3. CASE /\ rec[s].kind = "cast" /\ rec[s].held < MaxHeld /\ dir' = dir
           /\ rec' = [rec EXCEPT ![s].shown = @ + 1, ![s].held = @ + 1]
  <2>1. PICK h \in 0..MaxHeld : h = rec[s].held + 1
    BY <1>1, <1>3 DEF Recorder, MaxHeld
  <2>2. rec' = [rec EXCEPT ![s].shown = @ + 1, ![s].held = h]
    BY <1>3, <2>1 DEF RecordingsInv, DirTypes
  <2>3. /\ OnlyRec(s) /\ rec'[s].at = "open" /\ rec'[s].bare = rec[s].bare /\ ~rec'[s].unsaid
        /\ rec'[s].shown = rec[s].shown + 1 /\ rec'[s].held = h
    BY <1>1, <2>2, ShowsTypes
  <2>4. Linked(s) => Fits(File(s), rec'[s])
    BY <1>1, <2>1, <2>3 DEF Fits, Recorder, RecFile, MaxHeld
  <2>5. QED
    BY <1>1, <1>3, <2>3, <2>4, RecorderMoves DEF OnlyRec, OnlyDir, Living, Says, RecordingsInv, DirTypes, File
<1>4. CASE Moves(s, "failed") /\ dir' = dir
  <2>1. /\ OnlyRec(s) /\ rec'[s].at = "failed" /\ rec'[s].bare = rec[s].bare /\ ~rec'[s].unsaid
        /\ rec'[s].shown = rec[s].shown /\ rec'[s].held = rec[s].held
    BY <1>1, <1>4, MovesTypes DEF Living
  <2>2. Linked(s) => Fits(File(s), rec'[s])
    BY <1>1, <2>1 DEF Fits, Recorder, RecFile, MaxHeld
  <2>3. QED
    BY <1>1, <1>4, <2>1, <2>2, RecorderMoves DEF OnlyRec, OnlyDir, Living, Says, RecordingsInv, DirTypes, File
<1>5. QED
  BY <1>2, <1>3, <1>4 DEF writeChunk, Spoils

LEMMA SyncKeeps == ASSUME RecordingsInv, NEW s \in Recs, fileSyncFn(s) PROVE RecordingsInv'
<1> DEFINE n == rec[s].name
<1>1. /\ Live(s) /\ rec[s].at = "wrote" /\ RecorderOnly /\ n \in Names /\ ~rec[s].unsaid
      /\ rec[s] \in Recorder /\ (rec[s].kind = "exec" => rec[s].held = 0)
      /\ (Linked(s) => Fits(File(s), rec[s])) /\ File(s) \in RecFile
  BY SessionFacts DEF fileSyncFn, Stands, Live, Living
<1>2. CASE /\ Puts(s, [File(s) EXCEPT !.synced = File(s).chunks])
           /\ rec' = [rec EXCEPT ![s].at = "open", ![s].shown = @ + 1,
                                 ![s].held = IF Linked(s) THEN rec[s].shown + 1 - File(s).chunks ELSE 0]
  <2>1. PICK f \in RecFile : /\ Puts(s, f) /\ f.of = File(s).of
                             /\ f.synced = File(s).chunks /\ f.chunks = File(s).chunks
    <3>1. /\ [File(s) EXCEPT !.synced = File(s).chunks] \in RecFile
          /\ [File(s) EXCEPT !.synced = File(s).chunks].of = File(s).of
          /\ [File(s) EXCEPT !.synced = File(s).chunks].synced = File(s).chunks
          /\ [File(s) EXCEPT !.synced = File(s).chunks].chunks = File(s).chunks
      BY <1>1 DEF RecFile
    <3>2. QED
      BY <1>2, <3>1
  <2>2. PICK h \in 0..MaxHeld : /\ h = IF Linked(s) THEN rec[s].shown + 1 - File(s).chunks ELSE 0
                                /\ rec[s].kind = "exec" => h = 0
    <3>1. (IF Linked(s) THEN rec[s].shown + 1 - File(s).chunks ELSE 0) \in {0, 1}
      BY <1>1 DEF Fits, Recorder, RecFile
    <3>2. rec[s].kind = "exec" => (IF Linked(s) THEN rec[s].shown + 1 - File(s).chunks ELSE 0) = 0
      BY <1>1 DEF Fits, Recorder, RecFile
    <3>3. QED
      BY <3>1, <3>2 DEF MaxHeld
  <2>3. rec' = [rec EXCEPT ![s].at = "open", ![s].shown = @ + 1, ![s].held = h]
    BY <1>2, <2>2
  <2>4. /\ OnlyRec(s) /\ rec'[s].at = "open" /\ rec'[s].bare = rec[s].bare /\ ~rec'[s].unsaid
        /\ rec'[s].shown = rec[s].shown + 1 /\ rec'[s].held = h
    BY <1>1, <2>3, ShowsTypes
  <2>5. Linked(s) => Fits(f, rec'[s])
    BY <1>1, <2>1, <2>2, <2>4 DEF Fits, Recorder, RecFile, MaxHeld
  <2>6. QED
    BY <1>1, <2>1, <2>2, <2>4, <2>5, PutsTypes, RecorderMoves DEF OnlyRec, OnlyDir, Living, Says, RecordingsInv, DirTypes
<1>3. CASE Moves(s, "failed") /\ dir' = dir
  <2>1. /\ OnlyRec(s) /\ rec'[s].at = "failed" /\ rec'[s].bare = rec[s].bare /\ ~rec'[s].unsaid
        /\ rec'[s].shown = rec[s].shown /\ rec'[s].held = rec[s].held
    BY <1>1, <1>3, MovesTypes DEF Living
  <2>2. Linked(s) => Fits(File(s), rec'[s])
    BY <1>1, <2>1 DEF Fits, Recorder, RecFile, MaxHeld
  <2>3. QED
    BY <1>1, <1>3, <2>1, <2>2, RecorderMoves DEF OnlyRec, OnlyDir, Living, Says, RecordingsInv, DirTypes, File
<1>4. QED
  BY <1>2, <1>3 DEF fileSyncFn, Spoils

FinalFiles(g, k, c, x, b, m) == [g EXCEPT ![k].chunks = c, ![k].synced = x, !.txt = b, !.meta = m]

LEMMA FinalGroup ==
  ASSUME NEW g \in RecGroup, NEW k \in {"cast", "exec"}, NEW c \in Nat, NEW x \in Nat, NEW b \in BOOLEAN, NEW m \in RecMeta,
         NEW h, h = FinalFiles(g, k, c, x, b, m)
  PROVE  /\ h \in RecGroup /\ h.txt = b /\ h.meta = m
         /\ h[k].of = g[k].of /\ h[k].chunks = c /\ h[k].synced = x
         /\ \A j \in {"cast", "exec"} : j # k => h[j] = g[j]
<1> DEFINE f == [g[k] EXCEPT !.chunks = c, !.synced = x]
<1>1. f \in RecFile /\ f.of = g[k].of /\ f.chunks = c /\ f.synced = x
  BY DEF RecGroup, RecFile
<1>2. h = [g EXCEPT ![k] = f, !.txt = b, !.meta = m]
  BY DEF RecGroup, FinalFiles
<1> HIDE DEF f
<1>3. h \in RecGroup /\ h.txt = b /\ h.meta = m /\ h[k] = f /\ \A j \in {"cast", "exec"} : j # k => h[j] = g[j]
  BY <1>1, <1>2 DEF RecGroup
<1>4. QED
  BY <1>1, <1>3

LEMMA SameGroup ==
  ASSUME NEW g \in RecGroup, NEW h \in RecGroup, g.cast = h.cast, g.exec = h.exec, g.meta = h.meta, g.txt = h.txt
  PROVE  g = h
  BY DEF RecGroup

LEMMA SameFile ==
  ASSUME NEW f \in RecFile, NEW h \in RecFile, f.of = h.of, f.chunks = h.chunks, f.synced = h.synced
  PROVE  f = h
  BY DEF RecFile

\* What finalize leaves of the files g of a recorder of kind k that has shown so
\* much, whose file is linked or not, in terms of what was there.
FinalOK(h, g, k, shown, linked, flushes, bad, verdict) ==
  /\ h \in RecGroup /\ (g # Nameless => h # Nameless)
  /\ \A j \in {"cast", "exec"} : h[j].of = g[j].of /\ (h[j] = g[j] \/ (j = k /\ linked))
  /\ h[k].chunks = (IF flushes THEN shown ELSE g[k].chunks) /\ h[k].synced \in {g[k].synced, h[k].chunks}
  /\ k = "cast" /\ linked /\ bad # "sync" => h[k].synced = h[k].chunks
  /\ bad = "meta" => h.meta = g.meta
  /\ bad # "meta" => h.meta.status = verdict /\ h.meta.status # "none"
  /\ bad # "meta" /\ linked => h.meta.sum = h[k].chunks \/ (h.meta.sum = -1 /\ bad \in {"hash", "close"})

Bads == {"nothing", "eof", "tail", "sync", "close", "text", "hash", "meta"}

LEMMA FinalizedTypes ==
  ASSUME RecordingsInv, NEW s \in Recs, Live(s), NEW status \in {"completed", "aborted"}, NEW bad \in Bads,
         bad = "eof" => rec[s].kind = "exec"
  PROVE  FinalOK(Finalized(s, status, bad), dir[rec[s].name], rec[s].kind, rec[s].shown, Linked(s), Flushes(s, bad),
                 bad, Verdict(s, status, bad))
<1> DEFINE g == dir[rec[s].name]  k == rec[s].kind  h == Finalized(s, status, bad)
           c == IF Flushes(s, bad) THEN rec[s].shown ELSE g[k].chunks
           syncs == Linked(s) /\ bad \notin {"eof", "sync"} /\ (k = "cast" \/ status = "completed")
           hashed == Linked(s) /\ bad # "hash" /\ ~(k = "cast" /\ bad = "close")
           x == IF syncs THEN c ELSE g[k].synced
           b == g.txt \/ (k = "cast" /\ bad # "text")
           says == [status |-> Verdict(s, status, bad), at |-> rec[s].name[1],
                    sum |-> IF hashed THEN c ELSE -1]
           m == IF bad = "meta" THEN g.meta ELSE says
<1>1. g \in RecGroup /\ k \in {"cast", "exec"} /\ g[k] \in RecFile /\ rec[s].name \in Names /\ rec[s].shown \in Nat
  BY SessionFacts DEF Recorder, RecGroup
<1>2. h = FinalFiles(g, k, c, x, b, m)
  BY <1>1 DEF Finalized, RecGroup, FinalFiles
<1>3. c \in Nat /\ x \in Nat /\ b \in BOOLEAN
  BY <1>1 DEF RecGroup, RecFile
<1>4. /\ says \in RecMeta /\ says.status = Verdict(s, status, bad) /\ says.status # "none"
      /\ says.sum = IF hashed THEN c ELSE -1
  <2>1. Verdict(s, status, bad) \in {"error", "aborted", status}
    BY DEF Verdict
  <2>2. rec[s].name[1] \in Nat
    BY <1>1, NamesAndFiles
  <2>3. (IF hashed THEN c ELSE -1) \in Nat \cup {-1}
    BY <1>3
  <2> HIDE DEF hashed, c
  <2>4. QED
    BY <2>1, <2>2, <2>3 DEF RecMeta, Statuses
<1>5. m \in RecMeta
  BY <1>1, <1>4 DEF RecGroup
<1>6. /\ h \in RecGroup /\ h.txt = b /\ h.meta = m
      /\ h[k].of = g[k].of /\ h[k].chunks = c /\ h[k].synced = x
      /\ \A j \in {"cast", "exec"} : j # k => h[j] = g[j]
  <2> HIDE DEF c, x, b, m, h, g, k
  <2>1. g \in RecGroup /\ k \in {"cast", "exec"}
    BY <1>1
  <2>2. QED
    BY <1>2, <1>3, <1>5, <2>1, FinalGroup, SMTT(30)
<1>7. ~Linked(s) => h[k] = g[k]
  <2>1. h[k] \in RecFile
    BY <1>1, <1>6 DEF RecGroup
  <2>2. ~Linked(s) => c = g[k].chunks /\ x = g[k].synced
    BY DEF Flushes
  <2> HIDE DEF h, g, k, c, x
  <2>3. QED
    BY <1>1, <1>6, <2>1, <2>2, SameFile
<1>8. g # Nameless => h # Nameless
  <2>1. CASE bad # "meta"
    BY <1>4, <1>6, <2>1, NamesAndFiles
  <2>2. CASE bad = "meta" /\ k = "cast"
    <3>1. h.txt
      BY <1>6, <2>2
    <3>2. ~Nameless.txt
      BY DEF Nameless
    <3>3. QED
      BY <3>1, <3>2
  <2>3. CASE bad = "meta" /\ k = "exec" /\ Linked(s)
    BY <1>6, <2>3, NamesAndFiles DEF Linked, File
  <2>4. CASE bad = "meta" /\ k = "exec" /\ ~Linked(s)
    <3>1. h.cast = g.cast /\ h.exec = g.exec /\ h.meta = g.meta /\ h.txt = b
      BY <1>6, <1>7, <2>4
    <3>2. b = g.txt
      BY <1>1, <2>4 DEF RecGroup
    <3> HIDE DEF b, h, g
    <3>3. QED
      BY <1>1, <1>6, <3>1, <3>2, SameGroup
  <2>5. QED
    BY <1>1, <2>1, <2>2, <2>3, <2>4
<1>9. \A j \in {"cast", "exec"} : h[j].of = g[j].of /\ (h[j] = g[j] \/ (j = k /\ Linked(s)))
  BY <1>6, <1>7, SMTT(30)
<1>10. k = "cast" /\ Linked(s) /\ bad # "sync" => x = c
  BY SMTT(30)
<1>11. bad # "meta" /\ Linked(s) => says.sum = c \/ (says.sum = -1 /\ bad \in {"hash", "close"})
  <2> HIDE DEF c, says
  <2>1. QED
    BY <1>4
<1> HIDE DEF g, h, k, c, x, b, m, says
<1>12. h[k].synced \in {g[k].synced, h[k].chunks}
  BY <1>6 DEF x
<1>13. h[k].chunks = IF Flushes(s, bad) THEN rec[s].shown ELSE g[k].chunks
  BY <1>6 DEF c
<1>14. bad = "meta" => h.meta = g.meta
  BY <1>6 DEF m
<1>15. bad # "meta" => h.meta = says
  BY <1>6 DEF m
<1>16. QED
  BY <1>4, <1>6, <1>8, <1>9, <1>10, <1>11, <1>12, <1>13, <1>14, <1>15 DEF g, h, k, FinalOK

LEMMA FinalizeKeeps == ASSUME RecordingsInv, NEW s \in Recs, finalize(s) PROVE RecordingsInv'
<1> DEFINE n == rec[s].name  k == rec[s].kind
<1>1. /\ Live(s) /\ rec[s].at \in {"open", "failed"} /\ RecorderOnly /\ n \in Names /\ ~rec[s].unsaid
      /\ rec[s] \in Recorder /\ (rec[s].kind = "exec" => rec[s].held = 0)
      /\ (Linked(s) => Fits(File(s), rec[s])) /\ File(s) \in RecFile
      /\ (n \notin taken => Linked(s))
  BY SessionFacts DEF finalize, Stands, Live, Living
<1>2. PICK status \in CloseWithReason(s), bad \in Bads :
        /\ bad \in {"tail", "sync", "text"} => rec[s].kind = "cast"
        /\ bad = "eof" => rec[s].kind = "exec" /\ status = "completed"
        /\ IF bad = "nothing" THEN Well ELSE DirFault
        /\ dir' = [dir EXCEPT ![rec[s].name] = Finalized(s, status, bad)]
        /\ rec' = [rec EXCEPT ![s] = [Gone(rec[s], bad = "meta") EXCEPT !.held = Unsaved(s, bad)]]
  BY ZenonT(30) DEF finalize, Bads
<1>3. status \in {"completed", "aborted"} /\ (status = "completed" => rec[s].at = "open")
  BY <1>1 DEF CloseWithReason
<1>4. PICK h \in 0..MaxHeld : h = Unsaved(s, bad) /\ h = IF Flushes(s, bad) /\ bad # "sync" THEN 0 ELSE rec[s].held
  BY <1>1 DEF Recorder, MaxHeld, Unsaved
<1>5. OnlyRec(s) /\ rec'[s].at = "over" /\ rec'[s].unsaid = (bad = "meta") /\ rec'[s].shown = rec[s].shown /\ rec'[s].held = h
  <2>1. (bad = "meta") \in BOOLEAN /\ rec' = [rec EXCEPT ![s] = [Gone(rec[s], bad = "meta") EXCEPT !.held = h]]
    BY <1>2, <1>4
  <2>2. QED
    BY <2>1, OverTypes
<1>6. FinalOK(dir'[n], dir[n], k, rec[s].shown, Linked(s), Flushes(s, bad), bad, Verdict(s, status, bad)) /\ OnlyDir(n)
  <2>1. FinalOK(Finalized(s, status, bad), dir[n], k, rec[s].shown, Linked(s), Flushes(s, bad), bad, Verdict(s, status, bad))
    BY <1>1, <1>2, <1>3, FinalizedTypes
  <2>2. Finalized(s, status, bad) \in RecGroup
    BY <2>1 DEF FinalOK
  <2>3. OnlyDir(n) /\ dir'[n] = Finalized(s, status, bad)
    BY <1>1, <1>2, <2>2, GroupTypes
  <2>4. QED
    BY <2>1, <2>3
<1>7. Linked(s) => /\ Fits(dir'[n][k], rec'[s])
                   /\ rec[s].at = "open" => dir'[n][k].chunks \in rec[s].shown - h..rec[s].shown
  <2> DEFINE f == dir'[n][k]  g == dir[n][k]
  <2>1. g = File(s)
    BY DEF File
  <2>2. (Linked(s) => Fits(g, rec[s])) /\ g \in RecFile /\ rec[s].shown \in Nat /\ rec[s].held \in Nat /\ h \in Nat
        /\ k \in {"cast", "exec"} /\ (k = "exec" => rec[s].held = 0) /\ rec[s].at \in {"open", "failed"}
    BY <1>1, <1>4, <2>1 DEF Recorder, MaxHeld
  <2>3. /\ f.chunks = (IF Flushes(s, bad) THEN rec[s].shown ELSE g.chunks) /\ f.synced \in {g.synced, f.chunks}
        /\ k = "cast" /\ Linked(s) /\ bad # "sync" => f.synced = f.chunks
    BY <1>6 DEF FinalOK
  <2>4. rec'[s].at = "over" /\ rec'[s].shown = rec[s].shown /\ rec'[s].held = h
    BY <1>5
  <2>5. Flushes(s, bad) => Linked(s) /\ rec[s].at = "open"
    BY DEF Flushes
  <2> HIDE DEF f, g, k
  <2>6. ASSUME Linked(s)
        PROVE  /\ f.synced <= f.chunks /\ rec[s].shown <= f.synced + h
               /\ rec[s].at = "open" => f.chunks \in rec[s].shown - h..rec[s].shown
    <3>1. CASE Flushes(s, bad) /\ bad # "sync" /\ k = "cast"
      BY <1>4, <2>2, <2>3, <2>6, <3>1 DEF Fits, RecFile
    <3>2. CASE Flushes(s, bad) /\ (bad = "sync" \/ k = "exec")
      BY <1>4, <2>2, <2>3, <2>5, <2>6, <3>2 DEF Fits, RecFile
    <3>3. CASE ~Flushes(s, bad)
      BY <1>4, <2>2, <2>3, <2>6, <3>3 DEF Fits, RecFile
    <3>4. QED
      BY <2>2, <3>1, <3>2, <3>3
  <2>7. Linked(s) => Fits(f, rec'[s])
    BY <2>4, <2>6 DEF Fits
  <2>8. QED
    BY <2>6, <2>7 DEF f
<1>8. \/ dir'[n].meta = dir[n].meta
      \/ dir'[n].meta.status # "completed"
      \/ rec'[s].at = "over" /\ (n \notin taken => Told(dir'[n].meta.sum, rec'[s]))
  <2> SUFFICES ASSUME bad # "meta", Verdict(s, status, bad) = "completed", n \notin taken
               PROVE  Told(dir'[n].meta.sum, rec'[s])
    BY <1>5, <1>6 DEF FinalOK
  <2>1. status = "completed" /\ ~(k = "cast" /\ bad \in {"hash", "close"}) /\ Linked(s)
    BY <1>1, <1>3 DEF Verdict
  <2>2. dir'[n].meta.sum = dir'[n][k].chunks \/ (dir'[n].meta.sum = -1 /\ k = "exec")
    <3>1. dir'[n].meta.sum = dir'[n][k].chunks \/ (dir'[n].meta.sum = -1 /\ bad \in {"hash", "close"})
      BY <1>6, <2>1 DEF FinalOK
    <3>2. k \in {"cast", "exec"}
      BY <1>1 DEF Recorder
    <3>3. QED
      BY <2>1, <3>1, <3>2
  <2>3. dir'[n][k].chunks \in rec[s].shown - h..rec[s].shown
    BY <1>3, <1>7, <2>1
  <2>4. rec'[s].shown = rec[s].shown /\ rec'[s].held = h /\ rec'[s].kind = k
    BY <1>5 DEF OnlyRec
  <2> HIDE DEF k, n
  <2>5. QED
    BY <2>2, <2>3, <2>4 DEF Told
<1>9. /\ dir'[n].meta.status = "recording" => Says(rec'[s])
      /\ dir'[n].meta.status = "none" => dir'[n].meta = NoMeta
  <2>1. Verdict(s, status, bad) # "recording"
    BY <1>3 DEF Verdict
  <2>2. dir[n].meta.status = "none" => dir[n].meta = NoMeta
    BY <1>1 DEF RecordingsInv, DirTypes
  <2>3. bad = "meta" => rec'[s].unsaid
    BY <1>5
  <2>4. QED
    BY <1>6, <2>1, <2>2, <2>3 DEF FinalOK, Says
<1>10. rec[s].kind = "exec" => rec'[s].held = 0
  BY <1>1, <1>4, <1>5
<1>11. /\ dir[n] # Nameless => dir'[n] # Nameless
       /\ \A j \in {"cast", "exec"} : dir'[n][j].of = dir[n][j].of /\ (dir'[n][j] = dir[n][j] \/ (j = k /\ Linked(s)))
  BY <1>6 DEF FinalOK
<1>12. QED
  BY <1>1, <1>5, <1>6, <1>7, <1>8, <1>9, <1>10, <1>11, RecorderMoves DEF OnlyRec, OnlyDir, Living

\* A name that is claimed: nobody has used this file of it.
LEMMA NewRecordingKeeps == ASSUME RecordingsInv, NEW s \in Recs, newRecording(s) PROVE RecordingsInv'
<1>1. PICK k \in {"cast", "exec"}, i \in 0..Attempts - 1 :
        /\ dir[<<today, i>>][k] = Missing
        /\ rec' = [rec EXCEPT ![s].at = "claimed", ![s].kind = k, ![s].name = <<today, i>>]
        /\ dir' = [dir EXCEPT ![<<today, i>>][k] = [of |-> s, chunks |-> 0, synced |-> 0]]
  BY DEF newRecording, claimSessionName
<1> DEFINE n == <<today, i>>  f == [of |-> s, chunks |-> 0, synced |-> 0]
<1>2. /\ gw = "up" /\ rec[s].at = "no" /\ today < MaxNow /\ RecorderOnly /\ today \in 0..MaxNow
      /\ \A m \in taken : m[1] < today
      /\ rec[s].name = NoName /\ rec[s].shown = 0 /\ rec[s].held = 0 /\ rec[s] \in Recorder /\ ~rec[s].unsaid
  BY DEF newRecording, Stands, RecordingsInv, DirTypes, FilesFit
<1>3. n \in Names /\ n \notin taken /\ n # NoName
  <2>1. n \in Names /\ n[1] = today
    BY <1>2, RecordingsAssumption DEF Names
  <2>2. QED
    BY <1>2, <2>1, NamesAndFiles
<1>4. UNCHANGED <<gw, today, sweep, taken>> /\ Groups' = Groups
  BY <1>2 DEF RecorderOnly, Groups
<1>5. /\ rec' \in [Recs -> Recorder] /\ \A t \in Recs \ {s} : rec'[t] = rec[t]
      /\ rec'[s].at = "claimed" /\ rec'[s].kind = k /\ rec'[s].name = n /\ rec'[s].shown = 0 /\ ~rec'[s].unsaid
      /\ rec'[s].held = 0
  <2>1. [rec[s] EXCEPT !.at = "claimed", !.kind = k, !.name = n] \in Recorder
    BY <1>2, <1>3 DEF Recorder, Living
  <2>2. rec' = [rec EXCEPT ![s] = [rec[s] EXCEPT !.at = "claimed", !.kind = k, !.name = n]]
    BY <1>1 DEF RecordingsInv, DirTypes
  <2> HIDE DEF n
  <2>3. /\ [rec[s] EXCEPT !.at = "claimed", !.kind = k, !.name = n].at = "claimed"
        /\ [rec[s] EXCEPT !.at = "claimed", !.kind = k, !.name = n].kind = k
        /\ [rec[s] EXCEPT !.at = "claimed", !.kind = k, !.name = n].name = n
        /\ [rec[s] EXCEPT !.at = "claimed", !.kind = k, !.name = n].shown = 0
        /\ [rec[s] EXCEPT !.at = "claimed", !.kind = k, !.name = n].held = 0
        /\ ~[rec[s] EXCEPT !.at = "claimed", !.kind = k, !.name = n].unsaid
    BY <1>2 DEF Recorder
  <2>4. QED
    BY <2>1, <2>2, <2>3 DEF RecordingsInv, DirTypes
<1>6. f \in RecFile /\ f.of = s /\ f.chunks = 0 /\ f.synced = 0 /\ s # NoRec
  BY NamesAndFiles DEF RecFile
<1>7. /\ OnlyDir(n) /\ dir'[n][k] = f /\ dir'[n].meta = dir[n].meta
      /\ \A j \in {"cast", "exec"} : j # k => dir'[n][j] = dir[n][j]
  <2>1. dir[n] \in RecGroup
    BY <1>3 DEF RecordingsInv, DirTypes
  <2> HIDE DEF f, n
  <2>2. /\ [dir[n] EXCEPT ![k] = f] \in RecGroup /\ [dir[n] EXCEPT ![k] = f].meta = dir[n].meta
        /\ [dir[n] EXCEPT ![k] = f][k] = f
        /\ \A j \in {"cast", "exec"} : j # k => [dir[n] EXCEPT ![k] = f][j] = dir[n][j]
    BY <1>6, <2>1 DEF RecGroup
  <2>3. dir' = [dir EXCEPT ![n] = [dir[n] EXCEPT ![k] = f]]
    BY <1>1, <1>3 DEF RecordingsInv, DirTypes, f, n
  <2>4. OnlyDir(n) /\ dir'[n] = [dir[n] EXCEPT ![k] = f]
    BY <1>3, <2>2, <2>3, GroupTypes
  <2>5. QED
    BY <2>2, <2>4
<1> HIDE DEF f, n
<1>8. dir[n][k].of = NoRec
  BY <1>1, NamesAndFiles DEF n
<1>9. \A t \in Recs \ {s} : rec[t].name \in Names /\ Linked(t) => File(t)' = File(t) /\ Linked(t)'
  <2> SUFFICES ASSUME NEW t \in Recs \ {s}, rec[t].name \in Names, Linked(t) PROVE File(t)' = File(t)
    BY DEF Linked
  <2>1. rec'[t] = rec[t] /\ rec[t].kind \in {"cast", "exec"}
    BY <1>5 DEF RecordingsInv, DirTypes, Recorder
  <2>2. CASE rec[t].name = n
    <3>1. rec[t].kind # k
      BY <1>8, <2>2, NamesAndFiles DEF Linked, File
    <3>2. QED
      BY <1>7, <2>1, <2>2, <3>1 DEF File
  <2>3. CASE rec[t].name # n
    BY <1>7, <2>1, <2>3 DEF File, OnlyDir
  <2>4. QED
    BY <2>2, <2>3
<1>10. Linked(s)' /\ File(s)' = f
  BY <1>5, <1>6, <1>7 DEF Linked, File
<1>11. DirTypes'
  BY <1>4, <1>5, <1>7 DEF RecordingsInv, DirTypes, OnlyDir
<1>12. FilesFit'
  <2> SUFFICES ASSUME NEW t \in Recs
               PROVE  /\ rec'[t].at = "no" => rec'[t].name = NoName /\ rec'[t].shown = 0 /\ rec'[t].held = 0
                      /\ rec'[t].kind = "exec" => rec'[t].held = 0
                      /\ rec'[t].at \in Living => rec'[t].name \in Names
                      /\ rec'[t].at # "over" => ~rec'[t].unsaid
                      /\ rec'[t].name \in Names => /\ Linked(t)' => Fits(File(t)', rec'[t])
                                                   /\ rec'[t].name \notin taken => Linked(t)'
    BY <1>4 DEF FilesFit
  <2>1. CASE t = s
    <3>1. Fits(f, rec'[s])
      BY <1>5, <1>6 DEF Fits
    <3>2. QED
      BY <1>3, <1>5, <1>10, <2>1, <3>1
  <2>2. CASE t # s
    <3>1. rec'[t] = rec[t]
      BY <1>5, <2>2
    <3>2. ASSUME rec[t].name \in Names, Linked(t)' PROVE Linked(t)
      <4>1. rec[t].kind \in {"cast", "exec"} /\ dir'[rec[t].name][rec[t].kind].of = t
        BY <2>2, <3>1, <3>2 DEF Linked, File, RecordingsInv, DirTypes, Recorder
      <4>2. CASE rec[t].name = n
        BY <1>6, <1>7, <2>2, <4>1, <4>2 DEF Linked, File
      <4>3. CASE rec[t].name # n
        BY <1>7, <3>2, <4>1, <4>3 DEF OnlyDir, Linked, File
      <4>4. QED
        BY <4>2, <4>3
    <3>3. QED
      BY <1>9, <2>2, <3>1, <3>2 DEF RecordingsInv, FilesFit
  <2>3. QED
    BY <2>1, <2>2
<1>13. \A m \in Names : dir'[m].meta = dir[m].meta
  BY <1>7 DEF OnlyDir
<1>14. Completed'
  <2> SUFFICES ASSUME NEW m \in Names \ taken, dir'[m].meta.status = "completed"
               PROVE  \E t \in Recs : rec'[t].name = m /\ Linked(t)' /\ rec'[t].at = "over" /\ Told(dir'[m].meta.sum, rec'[t])
    BY <1>4 DEF Completed
  <2>1. PICK t \in Recs : rec[t].name = m /\ Linked(t) /\ rec[t].at = "over" /\ Told(dir[m].meta.sum, rec[t])
    BY <1>13 DEF RecordingsInv, Completed
  <2>2. t # s
    BY <1>2, <2>1
  <2>3. QED
    BY <1>5, <1>9, <1>13, <2>1, <2>2
<1>15. Owned'
  <2> SUFFICES ASSUME NEW m \in Names, dir'[m] # Nameless PROVE \E t \in Recs : rec'[t].name = m
    BY DEF Owned, Some
  <2>1. CASE m = n
    BY <1>5, <2>1
  <2>2. CASE m # n
    <3>1. PICK t \in Recs : rec[t].name = m
      BY <1>7, <2>2 DEF RecordingsInv, Owned, Some, OnlyDir
    <3>2. t # s
      BY <1>2, <3>1, NamesAndFiles
    <3>3. QED
      BY <1>5, <3>1, <3>2
  <2>3. QED
    BY <2>1, <2>2
<1>16. Protected'
  <2> SUFFICES ASSUME gw = "up", NEW m \in Names, dir'[m].meta.status = "recording"
               PROVE  \E t \in Recs : rec'[t].name = m /\ Says(rec'[t])
    BY <1>4 DEF Protected, Orphans
  <2>1. PICK t \in Recs : rec[t].name = m /\ Says(rec[t])
    BY <1>13 DEF RecordingsInv, Protected, Orphans
  <2>2. t # s
    BY <1>2, <2>1, NamesAndFiles
  <2>3. QED
    BY <1>5, <2>1, <2>2
<1>17. InRepair'
  BY <1>2, <1>4 DEF InRepair
<1>18. Spared'
  <2> SUFFICES ASSUME NEW t \in Recs, Live(t)', ~rec'[t].bare, Alone(t)'
               PROVE  /\ Linked(t)' /\ dir'[rec'[t].name].meta.status \in {"none", "recording"}
                      /\ sweep.pc = "remove" => sweep.name # rec'[t].name
                      /\ \A g \in Groups : g.name = rec'[t].name => g.status = "recording"
    BY <1>4 DEF Spared
  <2>1. CASE t = s
    <3>1. \A u \in Recs : rec[u].name # n
      <4> SUFFICES ASSUME NEW u \in Recs, rec[u].name = n PROVE FALSE
        OBVIOUS
      <4>1. u # s
        BY <1>2, <1>3
      <4>2. QED
        BY <1>5, <2>1, <4>1 DEF Alone
    <3>2. dir[n] = Nameless
      BY <1>3, <3>1 DEF RecordingsInv, Owned, Some
    <3>3. dir'[n].meta.status = "none"
      BY <1>3, <1>13, <3>2, NamesAndFiles
    <3>4. sweep.pc = "remove" => sweep.name # n
      BY <1>3 DEF RecordingsInv, PassOK
    <3>5. \A g \in Groups : g.name # n
      BY <3>2 DEF RecordingsInv, PassOK, Some
    <3>6. QED
      BY <1>5, <1>10, <2>1, <3>3, <3>4, <3>5
  <2>2. CASE t # s
    <3>1. rec'[t] = rec[t]
      BY <1>5, <2>2
    <3>2. \A u \in Recs \ {t} : rec[u].name # rec[t].name
      <4> SUFFICES ASSUME NEW u \in Recs \ {t}, rec[u].name = rec[t].name PROVE FALSE
        OBVIOUS
      <4>1. rec[t].name \in Names
        BY <3>1, SessionFacts DEF Live
      <4>2. u # s
        BY <1>2, <4>1, NamesAndFiles
      <4>3. QED
        BY <1>5, <3>1, <4>2 DEF Alone
    <3>3. Live(t) /\ ~rec[t].bare /\ Alone(t)
      BY <3>1, <3>2 DEF Live, Alone
    <3>4. rec[t].name \in Names
      BY <3>3, SessionFacts
    <3>5. QED
      BY <1>9, <1>13, <2>2, <3>1, <3>3, <3>4 DEF RecordingsInv, Spared
  <2>3. QED
    BY <2>1, <2>2
<1>19. PassOK'
  <2>1. \A m \in Names : Some(m) => Some(m)'
    <3>1. dir'[n] # Nameless
      BY <1>6, <1>7, NamesAndFiles
    <3>2. QED
      BY <1>7, <3>1 DEF Some, OnlyDir
  <2>2. \A g \in Groups : g.name \in Names
    BY DEF RecordingsInv, DirTypes, SweepPass, Found, Groups
  <2>3. QED
    BY <1>4, <2>1, <2>2 DEF RecordingsInv, PassOK
<1>20. QED
  BY <1>11, <1>12, <1>14, <1>15, <1>16, <1>17, <1>18, <1>19 DEF RecordingsInv

\* A step that changes no file, and of the sessions at most what a pass has
\* seen of them.
ButBare(r, q) ==
  r.at = q.at /\ r.kind = q.kind /\ r.name = q.name /\ r.shown = q.shown /\ r.held = q.held
  /\ r.unsaid = q.unsaid

LEMMA PassMoves ==
  ASSUME RecordingsInv, UNCHANGED <<gw, dir>>, today' \in 0..MaxNow, rec' \in [Recs -> Recorder],
         \A s \in Recs : ButBare(rec'[s], rec[s]),
         sweep' \in SweepPass, taken \subseteq taken', taken' \subseteq Names,
         InRepair', Spared', PassOK'
  PROVE  RecordingsInv'
<1>1. \A s \in Recs : /\ rec'[s].at = rec[s].at /\ rec'[s].kind = rec[s].kind /\ rec'[s].name = rec[s].name
                      /\ rec'[s].shown = rec[s].shown /\ rec'[s].held = rec[s].held /\ rec'[s].unsaid = rec[s].unsaid
  BY DEF ButBare
<1>2. \A s \in Recs : (Linked(s)' <=> Linked(s)) /\ File(s)' = File(s)
  BY <1>1 DEF Linked, File
<1>3. DirTypes'
  BY DEF RecordingsInv, DirTypes
<1>4. FilesFit'
  <2> SUFFICES ASSUME NEW s \in Recs
               PROVE  /\ rec'[s].at = "no" => rec'[s].name = NoName /\ rec'[s].shown = 0 /\ rec'[s].held = 0
                      /\ rec'[s].kind = "exec" => rec'[s].held = 0
                      /\ rec'[s].at \in Living => rec'[s].name \in Names
                      /\ rec'[s].at # "over" => ~rec'[s].unsaid
                      /\ rec'[s].name \in Names => /\ Linked(s)' => Fits(File(s)', rec'[s])
                                                   /\ rec'[s].name \notin taken' => Linked(s)'
    BY DEF FilesFit
  <2>1. rec[s].name \in Names /\ Linked(s) => Fits(File(s), rec[s])
    BY DEF RecordingsInv, FilesFit
  <2>2. rec[s].name \in Names /\ Linked(s) => Fits(File(s), rec'[s])
    BY <1>1, <2>1 DEF Fits
  <2>3. QED
    BY <1>1, <1>2, <2>2 DEF RecordingsInv, FilesFit
<1>5. Completed'
  <2> SUFFICES ASSUME NEW m \in Names \ taken, dir[m].meta.status = "completed"
               PROVE  \E s \in Recs : rec'[s].name = m /\ Linked(s)' /\ rec'[s].at = "over" /\ Told(dir[m].meta.sum, rec'[s])
    BY DEF Completed
  <2>1. QED
    BY <1>1, <1>2 DEF RecordingsInv, Completed, Told
<1>6. Owned'
  BY <1>1 DEF RecordingsInv, Owned, Some
<1>7. Protected'
  BY <1>1 DEF RecordingsInv, Protected, Orphans, Says
<1>8. QED
  BY <1>3, <1>4, <1>5, <1>6, <1>7 DEF RecordingsInv

LEMMA RefuseKeeps == ASSUME RecordingsInv, NEW s \in Recs, refuseRecording(s) PROVE RecordingsInv'
<1>1. /\ gw = "up" /\ rec[s].at = "no" /\ UNCHANGED <<gw, today, dir, sweep, taken>> /\ rec[s].name = NoName
      /\ rec[s] \in Recorder /\ rec' = [rec EXCEPT ![s].at = "over"]
  BY DEF refuseRecording, Stands, RecorderOnly, RecordingsInv, DirTypes, FilesFit, Moves
<1>2. /\ rec' \in [Recs -> Recorder] /\ \A t \in Recs \ {s} : rec'[t] = rec[t]
      /\ rec'[s].at = "over" /\ rec'[s].name = NoName
  BY <1>1 DEF RecordingsInv, DirTypes, Recorder
<1>3. \A t \in Recs : rec'[t].name = rec[t].name
  BY <1>1, <1>2
<1>4. DirTypes' /\ Groups' = Groups
  BY <1>1, <1>2 DEF RecordingsInv, DirTypes, Groups
<1>5. \A t \in Recs \ {s} : File(t)' = File(t) /\ (Linked(t)' <=> Linked(t))
  BY <1>1, <1>2 DEF File, Linked
<1>6. FilesFit'
  <2> SUFFICES ASSUME NEW t \in Recs
               PROVE  /\ rec'[t].at = "no" => rec'[t].name = NoName /\ rec'[t].shown = 0 /\ rec'[t].held = 0
                      /\ rec'[t].kind = "exec" => rec'[t].held = 0
                      /\ rec'[t].at \in Living => rec'[t].name \in Names
                      /\ rec'[t].at # "over" => ~rec'[t].unsaid
                      /\ rec'[t].name \in Names => /\ Linked(t)' => Fits(File(t)', rec'[t])
                                                   /\ rec'[t].name \notin taken => Linked(t)'
    BY <1>1 DEF FilesFit
  <2>1. CASE t = s
    <3>1. rec'[s].kind = rec[s].kind /\ rec'[s].held = rec[s].held /\ (rec[s].kind = "exec" => rec[s].held = 0)
      BY <1>1, SessionFacts DEF RecordingsInv, DirTypes, Recorder
    <3>2. QED
      BY <1>2, <2>1, <3>1, NamesAndFiles DEF Living
  <2>2. CASE t # s
    BY <1>2, <1>5, <2>2 DEF RecordingsInv, FilesFit
  <2>3. QED
    BY <2>1, <2>2
<1>7. Completed'
  <2> SUFFICES ASSUME NEW m \in Names \ taken, dir[m].meta.status = "completed"
               PROVE  \E t \in Recs : rec'[t].name = m /\ Linked(t)' /\ rec'[t].at = "over" /\ Told(dir[m].meta.sum, rec'[t])
    BY <1>1 DEF Completed
  <2>1. PICK t \in Recs : rec[t].name = m /\ Linked(t) /\ rec[t].at = "over" /\ Told(dir[m].meta.sum, rec[t])
    BY DEF RecordingsInv, Completed
  <2>2. QED
    BY <1>1, <1>2, <1>5, <2>1
<1>8. Owned'
  BY <1>1, <1>3 DEF RecordingsInv, Owned, Some
<1>9. Protected'
  <2> SUFFICES ASSUME gw = "up", NEW m \in Orphans PROVE \E t \in Recs : rec'[t].name = m /\ Says(rec'[t])
    BY <1>1 DEF Protected, Orphans
  <2>1. PICK t \in Recs : rec[t].name = m /\ Says(rec[t])
    BY DEF RecordingsInv, Protected
  <2>2. t # s
    BY <1>1, <2>1, NamesAndFiles DEF Orphans
  <2>3. QED
    BY <1>2, <2>1, <2>2
<1>10. InRepair'
  BY <1>1 DEF InRepair
<1>11. Spared'
  <2> SUFFICES ASSUME NEW t \in Recs, Live(t)', ~rec'[t].bare, Alone(t)'
               PROVE  /\ Linked(t)' /\ dir[rec'[t].name].meta.status \in {"none", "recording"}
                      /\ sweep.pc = "remove" => sweep.name # rec'[t].name
                      /\ \A g \in Groups : g.name = rec'[t].name => g.status = "recording"
    BY <1>1, <1>4 DEF Spared
  <2>1. t # s
    BY <1>2 DEF Live, Living
  <2>2. Live(t) /\ ~rec[t].bare /\ Alone(t)
    BY <1>2, <1>3, <2>1 DEF Live, Alone
  <2>3. QED
    BY <1>2, <1>5, <2>1, <2>2 DEF RecordingsInv, Spared
<1>12. PassOK'
  BY <1>1, <1>4 DEF RecordingsInv, PassOK, Some
<1>13. QED
  BY <1>4, <1>6, <1>7, <1>8, <1>9, <1>10, <1>11, <1>12 DEF RecordingsInv

LEMMA SameRecs ==
  ASSUME RecordingsInv, rec' = rec
  PROVE  rec' \in [Recs -> Recorder] /\ \A s \in Recs : ButBare(rec'[s], rec[s])
  BY DEF RecordingsInv, DirTypes, ButBare

\* A look at the directory.
LEMMA ScanKeeps == RecordingsInv /\ scanSessions => RecordingsInv'
<1> SUFFICES ASSUME RecordingsInv, scanSessions PROVE RecordingsInv'
  BY SMTT(30)
<1> DEFINE found == {n \in Names : Some(n)}
<1>1. PICK unread \in Unread, began \in [found -> 0..MaxNow] :
        LET groups == {Group(n, began[n], unread) : n \in found}
            aged == {g \in groups : Retention > 0 /\ g.status # "recording" /\ g.at < today - Retention}
        IN  /\ sweep' = [Resting EXCEPT !.pc = "prune", !.old = aged, !.rest = groups \ aged]
            /\ rec' = [s \in Recs |-> [rec[s] EXCEPT !.bare = @ \/ (Live(s) /\ MetaRead(rec[s].name, unread) = NoMeta)]]
  BY DEF scanSessions
<1> DEFINE groups == {Group(n, began[n], unread) : n \in found}
           aged == {g \in groups : Retention > 0 /\ g.status # "recording" /\ g.at < today - Retention}
<1>2. gw = "up" /\ sweep.pc = "idle" /\ UNCHANGED <<gw, today, dir, taken>>
  BY DEF scanSessions, Pass
<1>3. \A n \in found : /\ Group(n, began[n], unread) \in Found /\ Group(n, began[n], unread).name = n
                       /\ Group(n, began[n], unread).status = MetaRead(n, unread).status
  <2>1. \A n \in found : MetaRead(n, unread).status \in Statuses
    BY NamesAndFiles DEF MetaRead, RecordingsInv, DirTypes, RecGroup, RecMeta
  <2>2. QED
    BY <2>1 DEF Group, Found
<1>4. \A g \in groups : g \in Found /\ Some(g.name) /\ g = Group(g.name, began[g.name], unread) /\ g.status = MetaRead(g.name, unread).status
  BY <1>3
<1>5. sweep' \in SweepPass /\ sweep'.pc = "prune" /\ sweep'.old = aged /\ sweep'.rest = groups \ aged
  <2>1. aged \in SUBSET Found /\ groups \ aged \in SUBSET Found
    BY <1>4
  <2>2. sweep' = [Resting EXCEPT !.pc = "prune", !.old = aged, !.rest = groups \ aged]
    BY <1>1
  <2> HIDE DEF aged, groups
  <2>3. QED
    BY <2>1, <2>2, NamesAndFiles DEF SweepPass
<1>6. Groups' = groups
  BY <1>5 DEF Groups
<1>7. /\ rec' \in [Recs -> Recorder] /\ \A s \in Recs : ButBare(rec'[s], rec[s])
      /\ \A s \in Recs : ~rec'[s].bare => ~rec[s].bare /\ (Live(s) => MetaRead(rec[s].name, unread) # NoMeta)
  <2> SUFFICES ASSUME NEW s \in Recs
               PROVE  /\ rec'[s] \in Recorder /\ ButBare(rec'[s], rec[s])
                      /\ ~rec'[s].bare => ~rec[s].bare /\ (Live(s) => MetaRead(rec[s].name, unread) # NoMeta)
    BY <1>1
  <2> DEFINE b == rec[s].bare \/ (Live(s) /\ MetaRead(rec[s].name, unread) = NoMeta)
  <2>1. rec[s] \in Recorder /\ b \in BOOLEAN
    BY DEF RecordingsInv, DirTypes, Recorder
  <2>2. rec'[s] = [rec[s] EXCEPT !.bare = b]
    BY <1>1
  <2>3. /\ [rec[s] EXCEPT !.bare = b] \in Recorder /\ ButBare([rec[s] EXCEPT !.bare = b], rec[s])
        /\ [rec[s] EXCEPT !.bare = b].bare = b
    <3> HIDE DEF b
    <3>1. QED
      BY <2>1 DEF Recorder, ButBare
  <2>4. QED
    BY <2>2, <2>3
<1> HIDE DEF groups, aged, found
<1>8. PassOK'
  <2>1. \A g \in groups : g.name \in Names
    BY <1>4 DEF Found
  <2>2. \A g, h \in groups : g.name = h.name => g = h
    BY <1>4
  <2>3. \A g \in groups : Some(g.name)'
    BY <1>2, <1>4 DEF Some
  <2>4. \A g \in aged : g.status # "recording"
    BY DEF aged
  <2>5. QED
    BY <1>5, <1>6, <2>2, <2>3, <2>4 DEF PassOK
<1>9. Spared'
  <2> SUFFICES ASSUME NEW s \in Recs, Live(s)', ~rec'[s].bare, Alone(s)'
               PROVE  /\ Linked(s)' /\ dir[rec'[s].name].meta.status \in {"none", "recording"}
                      /\ \A g \in groups : g.name = rec'[s].name => g.status = "recording"
    BY <1>2, <1>5, <1>6 DEF Spared
  <2>1. \A t \in Recs : rec'[t].name = rec[t].name /\ rec'[t].kind = rec[t].kind /\ rec'[t].at = rec[t].at
    BY <1>7 DEF ButBare
  <2>2. Live(s) /\ ~rec[s].bare /\ Alone(s) /\ MetaRead(rec[s].name, unread) # NoMeta
    <3>1. Live(s) /\ Alone(s)
      BY <2>1 DEF Live, Alone
    <3>2. QED
      BY <1>7, <3>1
  <2>3. rec[s].name \in Names /\ dir[rec[s].name].meta.status \in {"none", "recording"} /\ Linked(s)
    BY <2>2, SessionFacts DEF RecordingsInv, Spared
  <2>4. MetaRead(rec[s].name, unread).status = "recording"
    BY <2>2, <2>3 DEF RecordingsInv, DirTypes, MetaRead
  <2>5. Linked(s)'
    BY <1>2, <2>1, <2>3 DEF Linked, File
  <2>6. QED
    BY <1>4, <2>1, <2>3, <2>4, <2>5
<1>10. InRepair'
  BY <1>2 DEF InRepair
<1>11. QED
  BY <1>2, <1>5, <1>7, <1>8, <1>9, <1>10, PassMoves DEF RecordingsInv, DirTypes

\* A group of the pass is taken up.
LEMMA DeletesKeeps ==
  ASSUME RecordingsInv, UNCHANGED <<gw, today, dir, rec>>, gw = "up", NEW g \in Groups, g.status # "recording",
         NEW by \in {"age", "size"}, deletes(g, by), by = "size" => \E h \in sweep.rest : h # g
  PROVE  RecordingsInv'
<1>1. g \in Found /\ g.name \in Names /\ g.files \in SUBSET Exts /\ sweep \in SweepPass
  BY DEF RecordingsInv, DirTypes, SweepPass, Found, Groups
<1>2. /\ sweep' \in SweepPass /\ sweep'.pc = "remove" /\ sweep'.name = g.name /\ sweep'.by = by
      /\ sweep'.old = sweep.old \ {g} /\ sweep'.rest = sweep.rest \ {g}
  BY <1>1 DEF deletes, SweepPass
<1>3. Groups' = Groups \ {g}
  BY <1>2 DEF Groups
<1>4. taken' = taken \cup {g.name} /\ taken' \subseteq Names
  BY <1>1 DEF deletes, RecordingsInv, DirTypes
<1>5. PassOK'
  <2>1. \A h \in Groups \ {g} : h.name # g.name
    BY DEF RecordingsInv, PassOK
  <2>2. by = "size" => sweep'.rest # {}
    BY <1>2
  <2>3. \A h \in Groups : Some(h.name)'
    BY DEF RecordingsInv, PassOK, Some
  <2>4. QED
    BY <1>2, <1>3, <1>4, <2>1, <2>2, <2>3 DEF RecordingsInv, PassOK
<1>6. Spared'
  <2>1. \A s \in Recs : Live(s) /\ ~rec[s].bare /\ Alone(s) => g.name # rec[s].name
    BY DEF RecordingsInv, Spared
  <2>2. \A s \in Recs : (Live(s)' <=> Live(s)) /\ (Alone(s)' <=> Alone(s)) /\ (Linked(s)' <=> Linked(s))
    BY DEF Live, Alone, Linked, File
  <2>3. QED
    BY <1>2, <1>3, <2>1, <2>2 DEF RecordingsInv, Spared
<1>7. InRepair'
  BY DEF InRepair
<1>8. QED
  BY <1>2, <1>4, <1>5, <1>6, <1>7, SameRecs, PassMoves DEF RecordingsInv, DirTypes

LEMMA PruneKeepsRecordings == RecordingsInv /\ (pruneByAge \/ pruneBySize) => RecordingsInv'
<1>1. ASSUME RecordingsInv, pruneByAge PROVE RecordingsInv'
  <2>1. PICK g \in sweep.old : deletes(g, "age")
    BY <1>1 DEF pruneByAge
  <2>2. g \in Groups /\ g.status # "recording"
    BY <1>1 DEF RecordingsInv, PassOK, Groups
  <2>3. UNCHANGED <<gw, today, dir, rec>> /\ gw = "up"
    BY <1>1 DEF pruneByAge, SweepOnly, Pass
  <2>4. QED
    BY <1>1, <2>1, <2>2, <2>3, DeletesKeeps
<1>2. ASSUME RecordingsInv, pruneBySize PROVE RecordingsInv'
  <2>1. PICK g \in deletable : deletes(g, "size")
    BY <1>2 DEF pruneBySize
  <2>2. g \in Groups /\ g.status # "recording"
    BY <2>1 DEF deletable, Groups
  <2>3. UNCHANGED <<gw, today, dir, rec>> /\ gw = "up"
    BY <1>2 DEF pruneBySize, SweepOnly, BySize, Pass
  <2>4. \E h \in sweep.rest : h # g
    <3>1. CASE deletable # sweep.rest
      BY <2>1, <3>1 DEF deletable
    <3>2. CASE Cardinality(deletable) > 1
      <4>1. deletable # {g}
        BY <3>2, FS_Singleton
      <4>2. QED
        BY <2>1, <4>1 DEF deletable
    <3>3. QED
      BY <1>2, <3>1, <3>2 DEF pruneBySize
  <2>5. QED
    BY <1>2, <2>1, <2>2, <2>3, <2>4, DeletesKeeps
<1>3. QED
  BY <1>1, <1>2

\* The pass ends.
LEMMA SweepEndsKeeps == RecordingsInv /\ (sweepEnds \/ sweepFails) => RecordingsInv'
<1> SUFFICES ASSUME RecordingsInv, sweepEnds \/ sweepFails PROVE RecordingsInv'
  OBVIOUS
<1>1. UNCHANGED <<gw, today, dir, rec, taken>> /\ gw = "up" /\ sweep' = Resting
  BY DEF sweepEnds, sweepFails, SweepOnly, BySize, Pass
<1>2. sweep' \in SweepPass /\ sweep'.pc = "idle" /\ Groups' = {} /\ sweep'.old = {}
  BY <1>1, NamesAndFiles DEF Groups
<1>3. PassOK'
  BY <1>2 DEF PassOK
<1>4. Spared'
  BY <1>1, <1>2 DEF RecordingsInv, Spared, Live, Alone, Linked, File
<1>5. InRepair'
  BY <1>1 DEF InRepair
<1>6. QED
  BY <1>1, <1>2, <1>3, <1>4, <1>5, SameRecs, PassMoves DEF RecordingsInv, DirTypes

\* One file goes; only those of names that are taken do.
LEMMA RemoveFileKeeps == RecordingsInv /\ removeFile => RecordingsInv'
<1> SUFFICES ASSUME RecordingsInv, removeFile PROVE RecordingsInv'
  BY SMTT(30)
<1> DEFINE n == sweep.name
<1>1. /\ gw = "up" /\ sweep.pc = "remove" /\ n \in taken /\ n \in Names /\ UNCHANGED <<gw, today, rec, taken>>
      /\ sweep \in SweepPass /\ dir[n] \in RecGroup
  BY DEF removeFile, Pass, SweepOnly, RecordingsInv, DirTypes, PassOK
<1>2. PICK e \in Exts :
        /\ dir' = [dir EXCEPT ![n][e] = Nameless[e]]
        /\ \/ sweep' = [sweep EXCEPT !.files = @ \ {e}]
           \/ sweep' = [sweep EXCEPT !.pc = "prune", !.by = "size", !.gone = TRUE, !.name = NoName, !.files = {}]
  BY <1>1 DEF removeFile, SweepPass
<1>3. /\ sweep' \in SweepPass /\ sweep'.old = sweep.old /\ sweep'.rest = sweep.rest
      /\ sweep'.pc = "remove" => sweep'.name = n /\ sweep'.by = sweep.by
  <2>1. CASE sweep' = [sweep EXCEPT !.files = @ \ {e}]
    BY <1>1, <2>1 DEF SweepPass
  <2>2. CASE sweep' = [sweep EXCEPT !.pc = "prune", !.by = "size", !.gone = TRUE, !.name = NoName, !.files = {}]
    BY <1>1, <2>2 DEF SweepPass
  <2>3. QED
    BY <1>2, <2>1, <2>2
<1> HIDE DEF n
<1>4. /\ dir' \in [Names -> RecGroup] /\ \A m \in Names \ {n} : dir'[m] = dir[m]
      /\ dir'[n] = [dir[n] EXCEPT ![e] = Nameless[e]]
  <2>1. [dir[n] EXCEPT ![e] = Nameless[e]] \in RecGroup
    <3>1. CASE e = "cast" \/ e = "exec"
      BY <1>1, <3>1, NamesAndFiles DEF RecGroup
    <3>2. CASE e = "meta"
      BY <1>1, <3>2, NamesAndFiles DEF RecGroup
    <3>3. CASE e = "txt"
      BY <1>1, <3>3 DEF RecGroup, Nameless
    <3>4. QED
      BY <3>1, <3>2, <3>3 DEF Exts
  <2>2. dir' = [dir EXCEPT ![n] = [dir[n] EXCEPT ![e] = Nameless[e]]]
    BY <1>1, <1>2 DEF RecordingsInv, DirTypes
  <2>3. QED
    BY <1>1, <2>1, <2>2, GroupTypes DEF OnlyDir
<1>5. /\ \A k \in {"cast", "exec"} : dir'[n][k] = dir[n][k] \/ dir'[n][k] = Missing
      /\ dir'[n].meta = dir[n].meta \/ dir'[n].meta = NoMeta
  BY <1>1, <1>4, NamesAndFiles DEF RecGroup, Exts
<1>6. dir[n] = Nameless => dir'[n] = Nameless
  <2> SUFFICES ASSUME dir[n] = Nameless PROVE dir'[n] = Nameless
    OBVIOUS
  <2>1. dir'[n] \in RecGroup /\ Nameless \in RecGroup
    BY <1>1, <1>4, NamesAndFiles
  <2>2. dir'[n].cast = Nameless.cast /\ dir'[n].exec = Nameless.exec /\ dir'[n].meta = Nameless.meta
    BY <1>5, NamesAndFiles
  <2>3. dir'[n].txt = Nameless.txt
    BY <1>1, <1>4 DEF RecGroup, Exts
  <2>4. QED
    BY <2>1, <2>2, <2>3, SameGroup
<1>7. \A s \in Recs : rec[s].kind \in {"cast", "exec"}
  BY DEF RecordingsInv, DirTypes, Recorder
<1>8. \A s \in Recs : rec[s].name \in Names /\ (rec[s].name # n \/ Linked(s)') => File(s)' = File(s) /\ (Linked(s)' <=> Linked(s))
  <2> SUFFICES ASSUME NEW s \in Recs, rec[s].name \in Names, rec[s].name # n \/ Linked(s)' PROVE File(s)' = File(s)
    BY <1>1 DEF Linked
  <2>1. CASE rec[s].name # n
    BY <1>1, <1>4, <2>1 DEF File
  <2>2. CASE rec[s].name = n /\ Linked(s)'
    <3>1. dir'[n][rec[s].kind].of = s
      BY <1>1, <2>2 DEF Linked, File
    <3>2. dir'[n][rec[s].kind] # Missing
      BY <3>1, NamesAndFiles
    <3>3. QED
      BY <1>1, <1>5, <1>7, <2>2, <3>2 DEF File
  <2>3. QED
    BY <2>1, <2>2
<1>9. DirTypes'
  BY <1>1, <1>3, <1>4, <1>5, ZenonT(60) DEF RecordingsInv, DirTypes
<1>10. FilesFit'
  BY <1>1, <1>8 DEF RecordingsInv, FilesFit
<1>11. Completed'
  <2> SUFFICES ASSUME NEW m \in Names \ taken, dir'[m].meta.status = "completed"
               PROVE  \E t \in Recs : rec[t].name = m /\ Linked(t)' /\ rec[t].at = "over" /\ Told(dir'[m].meta.sum, rec[t])
    BY <1>1 DEF Completed
  <2>1. dir'[m] = dir[m] /\ m # n
    BY <1>1, <1>4
  <2>2. PICK t \in Recs : rec[t].name = m /\ Linked(t) /\ rec[t].at = "over" /\ Told(dir[m].meta.sum, rec[t])
    BY <2>1 DEF RecordingsInv, Completed
  <2>3. QED
    BY <1>8, <2>1, <2>2
<1>12. Owned'
  BY <1>1, <1>4, <1>6 DEF RecordingsInv, Owned, Some
<1>13. Protected'
  <2>1. \A m \in Names : dir'[m].meta.status = "recording" => dir[m].meta.status = "recording"
    BY <1>4, <1>5, NamesAndFiles
  <2>2. QED
    BY <1>1, <2>1 DEF RecordingsInv, Protected, Orphans
<1>14. InRepair'
  BY <1>1 DEF InRepair
<1>15. Groups' = Groups
  BY <1>3 DEF Groups
<1>16. Spared'
  <2> SUFFICES ASSUME NEW s \in Recs, Live(s), ~rec[s].bare, Alone(s)
               PROVE  /\ Linked(s)' /\ dir'[rec[s].name].meta.status \in {"none", "recording"}
                      /\ sweep'.pc = "remove" => sweep'.name # rec[s].name
                      /\ \A g \in Groups : g.name = rec[s].name => g.status = "recording"
    BY <1>1, <1>15 DEF Spared, Live, Alone
  <2>1. rec[s].name \in Names /\ rec[s].name # n
    BY <1>1, SessionFacts DEF RecordingsInv, Spared, n
  <2>2. QED
    BY <1>3, <1>4, <1>8, <2>1 DEF RecordingsInv, Spared
<1>17. PassOK'
  <2>1. \A g \in Groups : g.name # n /\ g.name \in Names
    BY <1>1 DEF RecordingsInv, PassOK, n, DirTypes, SweepPass, Found, Groups
  <2>2. \A g \in Groups : Some(g.name)'
    BY <1>4, <2>1 DEF RecordingsInv, PassOK, Some
  <2>3. sweep'.pc = "remove" => sweep'.name \in taken' /\ (\A g \in Groups : g.name # sweep'.name)
                                /\ (sweep'.by = "size" => sweep'.rest # {})
    BY <1>1, <1>3, <2>1 DEF RecordingsInv, PassOK
  <2>4. QED
    BY <1>3, <1>15, <2>2, <2>3 DEF RecordingsInv, PassOK
<1>18. QED
  BY <1>9, <1>10, <1>11, <1>12, <1>13, <1>14, <1>16, <1>17 DEF RecordingsInv

\* Death, and what a power failure takes: nothing that was synced.
LEMMA DeathSpares == RecordingsInv /\ gatewayDies => RecordingsInv'
<1> SUFFICES ASSUME RecordingsInv, gatewayDies PROVE RecordingsInv'
  BY SMTT(30)
<1>1. /\ gw = "up" /\ gw' = "repair" /\ sweep' = Resting /\ UNCHANGED <<today, taken>>
      /\ rec' = [s \in Recs |-> IF rec[s].at = "no" THEN rec[s] ELSE Gone(rec[s], FALSE)]
      /\ \/ dir' = dir
         \/ dir' = [n \in Names |-> [dir[n] EXCEPT !.cast = Unsynced(@), !.exec = Unsynced(@)]]
  BY DEF gatewayDies, Killed
<1>2. \A s \in Recs : /\ rec'[s] \in Recorder /\ rec'[s].name = rec[s].name /\ rec'[s].kind = rec[s].kind
                      /\ rec'[s].shown = rec[s].shown /\ rec'[s].held = rec[s].held
                      /\ rec[s].at = "no" => rec'[s] = rec[s]
                      /\ rec[s].at # "no" => rec'[s].at = "over"
  <2> SUFFICES ASSUME NEW s \in Recs
               PROVE  /\ rec'[s] \in Recorder /\ rec'[s].name = rec[s].name /\ rec'[s].kind = rec[s].kind
                      /\ rec'[s].shown = rec[s].shown /\ rec'[s].held = rec[s].held
                      /\ rec[s].at = "no" => rec'[s] = rec[s]
                      /\ rec[s].at # "no" => rec'[s].at = "over"
    OBVIOUS
  <2>1. rec[s] \in Recorder
    BY DEF RecordingsInv, DirTypes
  <2>2. CASE rec[s].at # "no"
    <3>1. rec'[s] = [rec[s] EXCEPT !.at = "over", !.unsaid = FALSE, !.bare = FALSE]
      BY <1>1, <2>2 DEF Gone
    <3>2. QED
      BY <2>1, <2>2, <3>1 DEF Recorder
  <2>3. CASE rec[s].at = "no"
    BY <1>1, <2>1, <2>3, ZenonT(60) DEF Recorder
  <2>4. QED
    BY <2>2, <2>3
<1>3. \A n \in Names : /\ dir'[n] \in RecGroup /\ dir'[n].meta = dir[n].meta
                       /\ \A k \in {"cast", "exec"} : /\ dir'[n][k].of = dir[n][k].of /\ dir'[n][k].synced = dir[n][k].synced
                                                      /\ dir'[n][k].chunks \in {dir[n][k].chunks, dir[n][k].synced}
                       /\ dir[n] = Nameless => dir'[n] = Nameless
  <2> SUFFICES ASSUME NEW n \in Names
               PROVE  /\ dir'[n] \in RecGroup /\ dir'[n].meta = dir[n].meta
                      /\ \A k \in {"cast", "exec"} : /\ dir'[n][k].of = dir[n][k].of /\ dir'[n][k].synced = dir[n][k].synced
                                                     /\ dir'[n][k].chunks \in {dir[n][k].chunks, dir[n][k].synced}
                      /\ dir[n] = Nameless => dir'[n] = Nameless
    OBVIOUS
  <2>1. dir[n] \in RecGroup
    BY DEF RecordingsInv, DirTypes
  <2>2. CASE dir' = dir
    BY <2>1, <2>2
  <2>3. CASE dir' = [m \in Names |-> [dir[m] EXCEPT !.cast = Unsynced(@), !.exec = Unsynced(@)]]
    <3>1. dir'[n] = [dir[n] EXCEPT !.cast = Unsynced(@), !.exec = Unsynced(@)]
      BY <2>3
    <3>2. \A f \in RecFile : Unsynced(f) \in RecFile /\ Unsynced(f).of = f.of /\ Unsynced(f).synced = f.synced
                             /\ Unsynced(f).chunks = f.synced
      BY DEF Unsynced, RecFile
    <3>3. /\ dir'[n] \in RecGroup /\ dir'[n].meta = dir[n].meta /\ dir'[n].txt = dir[n].txt
          /\ dir'[n].cast = Unsynced(dir[n].cast) /\ dir'[n].exec = Unsynced(dir[n].exec)
      BY <2>1, <3>1, <3>2 DEF RecGroup
    <3>4. Unsynced(Missing) = Missing
      BY DEF Unsynced, Missing
    <3>5. ASSUME dir[n] = Nameless PROVE dir'[n] = Nameless
      BY <2>1, <3>3, <3>4, <3>5, SameGroup, NamesAndFiles
    <3>6. dir[n].cast \in RecFile /\ dir[n].exec \in RecFile
      BY <2>1 DEF RecGroup
    <3>7. QED
      BY <3>2, <3>3, <3>5, <3>6
  <2>4. QED
    BY <1>1, <2>2, <2>3
<1>4. DirTypes'
  <2>1. dir' \in [Names -> RecGroup] /\ rec' \in [Recs -> Recorder]
    <3>1. DOMAIN dir' = Names /\ dir' = [n \in Names |-> dir'[n]]
      BY <1>1 DEF RecordingsInv, DirTypes
    <3>2. rec' = [s \in Recs |-> rec'[s]]
      BY <1>1
    <3>3. QED
      BY <1>2, <1>3, <3>1, <3>2
  <2>2. QED
    BY <1>1, <1>3, <2>1, NamesAndFiles DEF RecordingsInv, DirTypes
<1>5. \A s \in Recs : rec[s].name \in Names =>
        /\ Linked(s)' <=> Linked(s)
        /\ File(s)'.synced = File(s).synced /\ File(s)'.chunks \in {File(s).chunks, File(s).synced}
  <2> SUFFICES ASSUME NEW s \in Recs, rec[s].name \in Names
               PROVE  /\ Linked(s)' <=> Linked(s)
                      /\ File(s)'.synced = File(s).synced /\ File(s)'.chunks \in {File(s).chunks, File(s).synced}
    OBVIOUS
  <2>1. rec[s].kind \in {"cast", "exec"}
    BY DEF RecordingsInv, DirTypes, Recorder
  <2>2. rec'[s].name = rec[s].name /\ rec'[s].kind = rec[s].kind
    BY <1>2
  <2>3. File(s)' = dir'[rec[s].name][rec[s].kind]
    BY <2>2, SMTT(30) DEF File
  <2>4. /\ File(s)'.of = File(s).of /\ File(s)'.synced = File(s).synced
        /\ File(s)'.chunks \in {File(s).chunks, File(s).synced}
    <3> DEFINE f == dir'[rec[s].name][rec[s].kind]  g == dir[rec[s].name][rec[s].kind]
    <3>1. f.of = g.of /\ f.synced = g.synced /\ f.chunks \in {g.chunks, g.synced}
      BY <1>3, <2>1
    <3>2. File(s) = g
      BY DEF File
    <3> HIDE DEF f, g
    <3>3. File(s)' = f
      BY <2>3 DEF f
    <3>4. QED
      BY <3>1, <3>2, <3>3
  <2>5. QED
    BY <2>4 DEF Linked
<1>6. FilesFit'
  <2> SUFFICES ASSUME NEW s \in Recs
               PROVE  /\ rec'[s].at = "no" => rec'[s].name = NoName /\ rec'[s].shown = 0 /\ rec'[s].held = 0
                      /\ rec'[s].kind = "exec" => rec'[s].held = 0
                      /\ rec'[s].at \in Living => rec'[s].name \in Names
                      /\ rec'[s].at # "over" => ~rec'[s].unsaid
                      /\ rec'[s].name \in Names => /\ Linked(s)' => Fits(File(s)', rec'[s])
                                                   /\ rec'[s].name \notin taken => Linked(s)'
    BY <1>1 DEF FilesFit
  <2>1. ASSUME rec[s].name \in Names, Linked(s) PROVE Fits(File(s)', rec'[s])
    <3>1. Fits(File(s), rec[s]) /\ File(s) \in RecFile
      BY <2>1 DEF RecordingsInv, FilesFit, DirTypes, Recorder, RecGroup, File
    <3>2. rec'[s].at = "over" /\ rec'[s].shown = rec[s].shown /\ rec'[s].held = rec[s].held
      BY <1>2, <2>1, NamesAndFiles DEF RecordingsInv, FilesFit
    <3>3. rec[s].shown \in Nat /\ rec[s].held \in 0..3
      BY DEF RecordingsInv, DirTypes, Recorder, MaxHeld
    <3>4. QED
      BY <1>5, <2>1, <3>1, <3>2, <3>3 DEF Fits, RecFile
  <2>2. rec'[s].at \notin Living
    BY <1>2 DEF Living
  <2>3. rec'[s].at = "no" => rec'[s] = rec[s]
    BY <1>2
  <2>4. rec'[s].at # "over" => rec'[s] = rec[s]
    BY <1>2
  <2>5. QED
    BY <1>2, <1>5, <2>1, <2>2, <2>3, <2>4 DEF RecordingsInv, FilesFit
<1>7. Completed'
  <2> SUFFICES ASSUME NEW m \in Names \ taken, dir'[m].meta.status = "completed"
               PROVE  \E t \in Recs : rec'[t].name = m /\ Linked(t)' /\ rec'[t].at = "over" /\ Told(dir'[m].meta.sum, rec'[t])
    BY <1>1 DEF Completed
  <2>1. PICK t \in Recs : rec[t].name = m /\ Linked(t) /\ rec[t].at = "over" /\ Told(dir[m].meta.sum, rec[t])
    BY <1>3 DEF RecordingsInv, Completed
  <2>2. rec'[t].at = "over" /\ Told(dir'[m].meta.sum, rec'[t])
    BY <1>2, <1>3, <2>1 DEF Told
  <2>3. QED
    BY <1>2, <1>5, <2>1, <2>2
<1>8. Owned'
  BY <1>2, <1>3, SMTT(30) DEF RecordingsInv, Owned, Some
<1>9. Protected' /\ InRepair'
  <2>1. \A s \in Recs : ~Live(s)'
    BY <1>2 DEF Live, Living
  <2>2. QED
    BY <1>1, <2>1 DEF Protected, InRepair
<1>10. Spared' /\ PassOK'
  <2>1. Groups' = {} /\ sweep'.pc = "idle" /\ sweep'.old = {}
    BY <1>1, NamesAndFiles DEF Groups
  <2>2. \A s \in Recs : ~Live(s)'
    BY <1>2 DEF Live, Living
  <2>3. QED
    BY <2>1, <2>2 DEF Spared, PassOK
<1>11. QED
  BY <1>4, <1>6, <1>7, <1>8, <1>9, <1>10 DEF RecordingsInv

\* The repair at start: what was being recorded is aborted, and nothing runs
\* before that is done.
LEMMA RepairKeeps == RecordingsInv /\ AbortOrphanedRecordings => RecordingsInv'
<1> SUFFICES ASSUME RecordingsInv, AbortOrphanedRecordings PROVE RecordingsInv'
  BY SMTT(30)
<1> DEFINE left == {n \in Orphans : \A s \in Recs : rec[s].name = n => ~rec[s].unsaid}
<1>1. /\ gw = "repair" /\ UNCHANGED <<today, sweep, taken>> /\ sweep = Resting /\ \A s \in Recs : ~Live(s)
      /\ Groups = {} /\ Groups' = {} /\ sweep.pc = "idle" /\ sweep.old = {}
  BY NamesAndFiles DEF AbortOrphanedRecordings, RecordingsInv, InRepair, Groups
<1>2. \/ gw' = gw /\ rec' = rec /\ \E n \in Orphans : dir' = [dir EXCEPT ![n].meta.status = "aborted"]
      \/ /\ UNCHANGED <<gw, dir>>
         /\ \/ \E n \in Orphans : rec' = [s \in Recs |-> IF rec[s].name = n THEN Gone(rec[s], TRUE) ELSE rec[s]]
            \/ rec' = [s \in Recs |-> IF rec[s].at = "no" THEN rec[s] ELSE Gone(rec[s], FALSE)]
      \/ left = {} /\ gw' = "up" /\ UNCHANGED <<dir, rec>>
  BY DEF AbortOrphanedRecordings
<1>3. \A s \in Recs : rec[s].at \in {"no", "over"} /\ (rec[s].name \in Names => rec[s].at = "over")
  BY <1>1, NamesAndFiles DEF RecordingsInv, DirTypes, FilesFit, Recorder, Live
<1>4. CASE /\ UNCHANGED <<gw, dir>>
           /\ \/ \E n \in Orphans : rec' = [s \in Recs |-> IF rec[s].name = n THEN Gone(rec[s], TRUE) ELSE rec[s]]
              \/ rec' = [s \in Recs |-> IF rec[s].at = "no" THEN rec[s] ELSE Gone(rec[s], FALSE)]
  <2>1. \A s \in Recs : /\ rec'[s] \in Recorder /\ rec'[s].at = rec[s].at /\ rec'[s].name = rec[s].name
                        /\ rec'[s].kind = rec[s].kind /\ rec'[s].shown = rec[s].shown /\ rec'[s].held = rec[s].held
                        /\ rec[s].at = "no" => rec'[s] = rec[s]
    <3> SUFFICES ASSUME NEW s \in Recs
                 PROVE  /\ rec'[s] \in Recorder /\ rec'[s].at = rec[s].at /\ rec'[s].name = rec[s].name
                        /\ rec'[s].kind = rec[s].kind /\ rec'[s].shown = rec[s].shown /\ rec'[s].held = rec[s].held
                        /\ rec[s].at = "no" => rec'[s] = rec[s]
      OBVIOUS
    <3>1. rec[s] \in Recorder
      BY DEF RecordingsInv, DirTypes
    <3>2. rec'[s] = rec[s] \/ (rec[s].at = "over" /\ \E u \in BOOLEAN : rec'[s] = Gone(rec[s], u))
      BY <1>3, <1>4 DEF Orphans
    <3>3. CASE rec'[s] = rec[s]
      BY <3>1, <3>3
    <3>4. ASSUME rec[s].at = "over", NEW u \in BOOLEAN, rec'[s] = Gone(rec[s], u)
          PROVE  /\ rec'[s] \in Recorder /\ rec'[s].at = rec[s].at /\ rec'[s].name = rec[s].name
                 /\ rec'[s].kind = rec[s].kind /\ rec'[s].shown = rec[s].shown /\ rec'[s].held = rec[s].held
      BY <3>1, <3>4 DEF Gone, Recorder
    <3>5. QED
      BY <3>2, <3>3, <3>4
  <2>2. rec' \in [Recs -> Recorder]
    <3>1. rec' = [s \in Recs |-> rec'[s]]
      BY <1>4
    <3>2. QED
      BY <2>1, <3>1
  <2>3. \A s \in Recs : (Linked(s)' <=> Linked(s)) /\ File(s)' = File(s) /\ (Live(s)' <=> Live(s))
    BY <1>4, <2>1 DEF Linked, File, Live
  <2>4. DirTypes'
    BY <1>1, <1>4, <2>2 DEF RecordingsInv, DirTypes
  <2>5. FilesFit'
    <3> SUFFICES ASSUME NEW s \in Recs
                 PROVE  /\ rec'[s].at = "no" => rec'[s].name = NoName /\ rec'[s].shown = 0 /\ rec'[s].held = 0
                        /\ rec'[s].kind = "exec" => rec'[s].held = 0
                        /\ rec'[s].at \in Living => rec'[s].name \in Names
                        /\ rec'[s].at # "over" => ~rec'[s].unsaid
                        /\ rec'[s].name \in Names => /\ Linked(s)' => Fits(File(s)', rec'[s])
                                                     /\ rec'[s].name \notin taken => Linked(s)'
      BY <1>1 DEF FilesFit
    <3>1. rec[s].name \in Names /\ Linked(s) => Fits(File(s), rec'[s])
      BY <2>1 DEF RecordingsInv, FilesFit, Fits
    <3>2. rec'[s].at # "over" => ~rec'[s].unsaid
      BY <1>3, <2>1 DEF RecordingsInv, FilesFit
    <3>3. QED
      BY <2>1, <2>3, <3>1, <3>2 DEF RecordingsInv, FilesFit
  <2>6. Completed'
    <3> SUFFICES ASSUME NEW m \in Names \ taken, dir[m].meta.status = "completed"
                 PROVE  \E t \in Recs : rec'[t].name = m /\ Linked(t)' /\ rec'[t].at = "over" /\ Told(dir[m].meta.sum, rec'[t])
      BY <1>1, <1>4 DEF Completed
    <3>1. QED
      BY <2>1, <2>3 DEF RecordingsInv, Completed, Told
  <2>7. Owned'
    BY <1>4, <2>1 DEF RecordingsInv, Owned, Some
  <2>8. Protected' /\ InRepair'
    BY <1>1, <1>4, <2>3 DEF Protected, InRepair
  <2>9. Spared' /\ PassOK'
    BY <1>1, <2>3 DEF Spared, PassOK
  <2>10. QED
    BY <2>4, <2>5, <2>6, <2>7, <2>8, <2>9 DEF RecordingsInv
<1>5. CASE left = {} /\ gw' = "up" /\ UNCHANGED <<dir, rec>>
  <2>1. \A s \in Recs : (Linked(s)' <=> Linked(s)) /\ File(s)' = File(s)
    BY <1>5 DEF Linked, File
  <2>2. DirTypes' /\ Completed' /\ Owned'
    BY <1>1, <1>5, <2>1 DEF RecordingsInv, DirTypes, Completed, Owned, Some
  <2>3. FilesFit'
    BY <1>1, <1>5, <2>1 DEF RecordingsInv, FilesFit
  <2>4. Protected' /\ InRepair'
    <3>1. \A n \in Orphans : \E s \in Recs : rec[s].name = n /\ rec[s].unsaid
      BY <1>5
    <3>2. QED
      BY <1>5, <3>1 DEF Protected, Orphans, InRepair, Says
  <2>5. Spared' /\ PassOK'
    BY <1>1, <1>5 DEF Spared, PassOK, Live
  <2>6. QED
    BY <2>2, <2>3, <2>4, <2>5 DEF RecordingsInv
<1>6. CASE gw' = gw /\ rec' = rec /\ \E n \in Orphans : dir' = [dir EXCEPT ![n].meta.status = "aborted"]
  <2>1. PICK n \in Orphans : dir' = [dir EXCEPT ![n].meta.status = "aborted"]
    BY <1>6
  <2>2. n \in Names /\ dir[n] \in RecGroup /\ dir[n].meta \in RecMeta
    BY DEF Orphans, RecordingsInv, DirTypes, RecGroup
  <2>3. PICK m \in RecMeta : m.status = "aborted" /\ dir' = [dir EXCEPT ![n].meta = m]
    <3>1. [dir[n].meta EXCEPT !.status = "aborted"] \in RecMeta
          /\ [dir[n].meta EXCEPT !.status = "aborted"].status = "aborted"
      BY <2>2 DEF RecMeta, Statuses
    <3>2. dir' = [dir EXCEPT ![n].meta = [dir[n].meta EXCEPT !.status = "aborted"]]
      BY <2>1, <2>2
    <3>3. QED
      BY <3>1, <3>2
  <2>4. /\ OnlyDir(n) /\ dir'[n].meta.status = "aborted" /\ dir[n] # Nameless
        /\ dir'[n].cast = dir[n].cast /\ dir'[n].exec = dir[n].exec
    BY <2>2, <2>3, MetaTypes, NamesAndFiles DEF Orphans
  <2>5. \A s \in Recs : rec[s].name \in Names => (Linked(s)' <=> Linked(s)) /\ File(s)' = File(s)
    <3> SUFFICES ASSUME NEW s \in Recs, rec[s].name \in Names PROVE File(s)' = File(s)
      BY <1>1, <1>6 DEF Linked
    <3>1. rec[s].kind \in {"cast", "exec"}
      BY DEF RecordingsInv, DirTypes, Recorder
    <3>2. QED
      BY <1>1, <1>6, <2>4, <3>1 DEF File, OnlyDir
  <2>6. DirTypes'
    BY <1>1, <1>6, <2>4 DEF RecordingsInv, DirTypes, OnlyDir
  <2>7. FilesFit'
    BY <1>1, <1>6, <2>5 DEF RecordingsInv, FilesFit
  <2>8. Completed'
    BY <1>1, <1>6, <2>4, <2>5 DEF RecordingsInv, Completed, OnlyDir
  <2>9. Owned'
    BY <1>1, <1>6, <2>4 DEF RecordingsInv, Owned, Some, OnlyDir
  <2>10. Protected' /\ InRepair'
    BY <1>1, <1>6 DEF Protected, InRepair, Live
  <2>11. Spared' /\ PassOK'
    BY <1>1, <1>6 DEF Spared, PassOK, Live
  <2>12. QED
    BY <2>11, <2>6, <2>7, <2>8, <2>9, <2>10 DEF RecordingsInv
<1>7. QED
  BY <1>2, <1>4, <1>5, <1>6

LEMMA DayKeeps == RecordingsInv /\ (newDay \/ UNCHANGED recVars) => RecordingsInv'
<1> SUFFICES ASSUME RecordingsInv, newDay \/ UNCHANGED recVars PROVE RecordingsInv'
  OBVIOUS
<1>1. UNCHANGED <<gw, dir, rec, sweep, taken>> /\ today' \in 0..MaxNow
  BY RecordingsAssumption DEF newDay, recVars, RecordingsInv, DirTypes
<1>2. Spared' /\ PassOK' /\ InRepair'
  BY <1>1 DEF RecordingsInv, Spared, PassOK, InRepair, Groups, Some, Live, Alone, Linked, File
<1>3. QED
  BY <1>1, <1>2, SameRecs, PassMoves DEF RecordingsInv, DirTypes

LEMMA RecordingsStart == RecordingsInit => RecordingsInv
<1> SUFFICES ASSUME RecordingsInit PROVE RecordingsInv
  OBVIOUS
<1>1. /\ gw = "up" /\ today = 0 /\ dir = [n \in Names |-> Nameless] /\ sweep = Resting /\ taken = {}
      /\ rec \in [Recs -> Recorder]
      /\ \A s \in Recs : rec[s].at = "no" /\ rec[s].name = NoName /\ rec[s].shown = 0 /\ rec[s].held = 0 /\ ~rec[s].unsaid
  BY DEF RecordingsInit, Recorder, MaxHeld
<1>2. Groups = {} /\ sweep.pc = "idle" /\ sweep.old = {} /\ sweep \in SweepPass
  BY <1>1, NamesAndFiles DEF Groups
<1>3. \A n \in Names : dir[n] = Nameless /\ dir[n] \in RecGroup /\ dir[n].meta = NoMeta /\ dir[n].meta.status = "none"
  BY <1>1, NamesAndFiles
<1>4. DirTypes
  BY <1>1, <1>2, <1>3, RecordingsAssumption DEF DirTypes
<1>5. FilesFit
  BY <1>1, NamesAndFiles DEF FilesFit, Living
<1>6. Completed /\ Owned /\ Protected
  BY <1>3 DEF Completed, Owned, Some, Protected, Orphans
<1>7. InRepair /\ Spared /\ PassOK
  BY <1>1, <1>2 DEF InRepair, Spared, PassOK, Live, Living
<1>8. QED
  BY <1>4, <1>5, <1>6, <1>7 DEF RecordingsInv

\* The invariant of the directory, through crashes, passes and faults.
THEOREM RecordingsInvariant == RecordingsSpec => []RecordingsInv
<1>1. ASSUME RecordingsInv, RecorderNext PROVE RecordingsInv'
  BY <1>1, NewRecordingKeeps, RefuseKeeps, FirstMetaKeeps, HeaderFailsKeeps, WriteChunkKeeps, SyncKeeps, FinalizeKeeps
  DEF RecorderNext
<1>2. ASSUME RecordingsInv, SweepNext PROVE RecordingsInv'
  BY <1>2, ScanKeeps, PruneKeepsRecordings, RemoveFileKeeps, SweepEndsKeeps DEF SweepNext
<1>3. RecordingsInv /\ [RecordingsNext]_recVars => RecordingsInv'
  BY <1>1, <1>2, DeathSpares, RepairKeeps, DayKeeps DEF RecordingsNext
<1>4. QED
  BY <1>3, RecordingsStart, PTL DEF RecordingsSpec

\* What a person was shown is on disk and synced until a pass takes the recording,
\* but for the beginning of a rune at the end of a chunk; and a recording called
\* completed is there and hashed over all that was shown, less at most such an
\* end, or is an exec recording that could not be read for its hash (recorder.go
\* Write and finalize, exec_recorder.go finalize, claimSessionName).
THEOREM RecordingsStayTrue == RecordingsSpec => []RecordingsAreTrue
<1>1. ASSUME RecordingsInv PROVE ShownIsKept
  <2> SUFFICES ASSUME NEW s \in Recs, rec[s].name \notin taken \cup {NoName}
               PROVE  /\ Linked(s) /\ rec[s].shown <= File(s).synced + rec[s].held
                      /\ rec[s].held <= (IF rec[s].kind = "cast" THEN MaxHeld ELSE 0)
    BY DEF ShownIsKept
  <2>1. rec[s].name \in Names /\ rec[s].kind \in {"cast", "exec"} /\ rec[s].held \in 0..MaxHeld
    BY <1>1 DEF RecordingsInv, DirTypes, Recorder
  <2>2. Linked(s) /\ rec[s].shown <= File(s).synced + rec[s].held
    BY <1>1, <2>1 DEF RecordingsInv, FilesFit, Fits
  <2>3. rec[s].kind = "exec" => rec[s].held = 0
    BY <1>1 DEF RecordingsInv, FilesFit
  <2>4. rec[s].held <= (IF rec[s].kind = "cast" THEN MaxHeld ELSE 0)
    BY <2>1, <2>3 DEF MaxHeld
  <2>5. QED
    BY <2>2, <2>4
<1>2. RecordingsInv => CompletedIsHashed
  BY DEF RecordingsInv, Completed, CompletedIsHashed, Told
<1>3. RecordingsInv => RecordingsAreTrue
  BY <1>1, <1>2 DEF RecordingsAreTrue
<1>4. QED
  BY <1>3, RecordingsInvariant, PTL

\* No pass takes the recording of a session that lives and had its metadata when
\* the pass looked, none protects what a dead session left, and the size step
\* never takes the last one (rotation.go, orphan.go).
THEOREM RotationLeavesTheLiving == RecordingsSpec => []RotationSpares
<1>1. ASSUME RecordingsInv PROVE ProtectedIsLive
  <2> SUFFICES ASSUME gw = "up", NEW n \in Orphans PROVE \E s \in Recs : rec[s].name = n /\ (Live(s) \/ rec[s].unsaid)
    BY DEF ProtectedIsLive
  <2>1. PICK s \in Recs : rec[s].name = n /\ Says(rec[s])
    BY <1>1 DEF RecordingsInv, Protected
  <2>2. QED
    BY <2>1 DEF Says, Live, Living
<1>2. RecordingsInv => LiveIsSpared
  BY DEF RecordingsInv, Spared, LiveIsSpared
<1>3. ASSUME RecordingsInv PROVE NotWiped
  <2> SUFFICES ASSUME sweep.pc = "remove", sweep.by = "size" PROVE \E n \in Names \ {sweep.name} : Some(n)
    BY DEF NotWiped
  <2>1. PICK g \in sweep.rest : TRUE
    BY <1>3 DEF RecordingsInv, PassOK
  <2>2. g \in Groups /\ g.name \in Names
    BY <1>3 DEF RecordingsInv, DirTypes, SweepPass, Found, Groups
  <2>3. QED
    BY <1>3, <2>2 DEF RecordingsInv, PassOK
<1>4. RecordingsInv => RotationSpares
  BY <1>1, <1>2, <1>3 DEF RotationSpares
<1>5. QED
  BY <1>4, RecordingsInvariant, PTL
=============================================================================
