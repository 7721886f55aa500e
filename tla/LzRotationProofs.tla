-------------------------- MODULE LzRotationProofs --------------------------
(***************************************************************************)
(* Proofs about LzRotation: the files of one directory stay readable and   *)
(* unspoilt over any sequence of opens, switches, failures, crashes, day   *)
(* changes and clean-ups, for every value of the constants.                *)
(***************************************************************************)
EXTENDS LzRotation, WellFoundedInduction, TLAPS

\* The handle has a file: everywhere but while open is under way.
Held == st \in {"open", "switch", "switch:create", "switch:map", "retry"}
\* The new file has its footer and is not published yet.
Mapping == st \in {"open:map", "switch:map"}

\* An inode that is not created, or no longer, holds nothing.
PoolBlank == \A i \in Inodes : i > made => used[i] = 0 /\ ~whole[i]

\* The file under creation is the last inode and holds nothing; its footer is
\* there from the mapping on and not before.
NewFileBlank ==
    /\ Creating \/ Mapping => made \in Inodes /\ used[made] = 0 /\ hmax \in Sizes
    /\ Creating => ~whole[made]
    /\ Mapping => size[made] = hmax

\* The handle's file is a created one, and not the one a switch is creating.
HandleFile ==
    /\ Held => cur \in Inodes /\ cur <= made /\ hmax \in Sizes
    /\ st \in {"switch:create", "switch:map"} => cur < made

\* Off the file's own size only an open handle can be, and no switch starts
\* there; on it, the handle's key is the one of the salt in the footer.
HandleInTune ==
    /\ Held /\ Astray => st = "open"
    /\ Held /\ ~Astray => hsalt = salt[cur]

\* An overflowed counter stands one past the end.
CounterBounded == \A i \in Inodes : used[i] <= size[i] + 1

DirInv == /\ TypeOK /\ PoolBlank /\ NewFileBlank /\ HandleFile /\ HandleInTune
          /\ CounterBounded /\ UsedCoversData /\ Decryptable
-----------------------------------------------------------------------------
\* A nonempty set of slots has a greatest one: the mirror image of "a nonempty
\* set of naturals has a least one".
LEMMA Greatest ==
    ASSUME NEW N \in Nat, NEW T \in SUBSET (0..N), T # {}
    PROVE  \E n \in T : \A m \in T : m <= n
<1> DEFINE U == {N - n : n \in T}
<1>1. U \subseteq Nat
  OBVIOUS
<1>2. U # {}
  <2>1. PICK m \in T : TRUE
    OBVIOUS
  <2>2. N - m \in U
    OBVIOUS
  <2> HIDE DEF U
  <2> QED BY <2>2
<1>3. \E x \in U : \A y \in U : ~(<<y, x>> \in OpToRel(<, Nat))
  <2> HIDE DEF U
  <2> QED BY <1>1, <1>2, NatLessThanWellFounded, WFMin
<1>4. PICK x \in U : \A y \in U : ~(y < x)
  BY <1>1, <1>3 DEF OpToRel
<1>5. PICK n \in T : x = N - n
  BY <1>4
<1>6. ASSUME NEW m \in T PROVE m <= n
  <2>1. N - m \in U
    OBVIOUS
  <2>2. ~(N - m < N - n)
    BY <1>4, <1>5, <2>1
  <2> QED BY <2>2
<1> QED BY <1>6

\* find_latest_log_number answers -1, or the greatest slot of today's files.
LEMMA LatestSlot ==
    /\ Latest = -1 \/ Latest \in Taken
    /\ Latest \in -1..(DailyFiles - 1)
    /\ \A n \in Taken : n <= Latest
<1> DEFINE IsLast(n) == n \in Taken /\ \A m \in Taken : m <= n
<1>1. CASE Taken = {}
  BY <1>1, RotationAssumption DEF Latest
<1>2. CASE Taken # {}
  <2>1. Taken \in SUBSET (0..(DailyFiles - 1)) /\ DailyFiles - 1 \in Nat
    BY RotationAssumption DEF Taken
  <2>2. \E n \in Taken : \A m \in Taken : m <= n
    BY <1>2, <2>1, Greatest
  <2>3. Latest = CHOOSE n \in Taken : \A m \in Taken : m <= n
    BY <1>2 DEF Latest
  <2>4. Latest \in Taken /\ \A m \in Taken : m <= Latest
    BY <2>2, <2>3
  <2> QED BY <2>1, <2>4
<1> QED BY <1>1, <1>2

\* The newest file of the day is an inode; the slots an open or a switch
\* settles on are ones a name can have.
LEMMA SlotFacts ==
    ASSUME TypeOK
    PROVE  /\ Latest # -1 => LatestFile \in Inodes
           /\ OpenSlot \in Slots /\ SwitchSlot \in Slots
           /\ SlotsSpent => dir[Today(DailyFiles - 1)] # NoInode
<1>1. Latest # -1 => Latest \in 0..(DailyFiles - 1) /\ dir[Today(Latest)] # NoInode
  BY LatestSlot DEF Taken
<1>2. \A n \in Slots : Today(n) \in Names
  BY DEF TypeOK, Names, Today
<1>3. Latest # -1 => LatestFile \in Inodes
  BY <1>1, <1>2, RotationAssumption DEF TypeOK, Slots, LatestFile, Inodes, NoInode
<1>4. OpenSlot \in Slots /\ SwitchSlot \in Slots
  BY LatestSlot, RotationAssumption DEF OpenSlot, SwitchSlot, SlotsSpent, Slots
<1>5. SlotsSpent => dir[Today(DailyFiles - 1)] # NoInode
  <2>1. SlotsSpent => Latest # -1 /\ Latest = DailyFiles - 1
    BY LatestSlot, RotationAssumption DEF SlotsSpent
  <2> QED BY <1>1, <2>1
<1> QED BY <1>3, <1>4, <1>5

-----------------------------------------------------------------------------
\* The types but those of the data.
PlainTypes ==
    /\ day \in 0..MaxDay /\ gmax \in Sizes
    /\ made \in 0..MaxInodes
    /\ dir \in [Names -> 0..MaxInodes]
    /\ size \in [Inodes -> {0} \cup Sizes]
    /\ used \in [Inodes -> Nat]
    /\ salt \in [Inodes -> 0..MaxInodes]
    /\ whole \in [Inodes -> BOOLEAN]
    /\ st \in {"closed", "open:create", "open:map", "open", "switch",
              "switch:create", "switch:map", "retry"}
    /\ cur \in 0..MaxInodes /\ hmax \in {0} \cup Sizes /\ hsalt \in 0..MaxInodes
    /\ pend \in {0} \cup Lens
    /\ msgs \in 0..MaxMsgs
    /\ openErr \in {"SUCCESS", "FILE_CREATE", "MMAP_FAILED", "SIGBUS"}

Cells == [msg : 0..MaxMsgs, key : 0..MaxInodes]
DataTypes == data \in [Inodes -> [Units -> Cells]]

\* TypeOK, with the data of the files apart from everything else.
LEMMA TypeParts == TypeOK <=> PlainTypes /\ DataTypes
BY DEF TypeOK, PlainTypes, DataTypes, Cells

\* A record of a message and a key is a cell.
LEMMA CellTyped ==
    ASSUME NEW m \in 0..MaxMsgs, NEW k \in 0..MaxInodes
    PROVE  [msg |-> m, key |-> k] \in Cells
BY DEF Cells

\* What a stored message makes of the data of its file.
LEMMA StoreKeepsData ==
    ASSUME TypeOK, NEW n \in Lens, Store(n), HandleFile
    PROVE  DataTypes'
<1>1. msgs + 1 \in 0..MaxMsgs /\ hsalt \in 0..MaxInodes /\ cur \in Inodes
  BY RotationAssumption DEF Store, TypeOK, HandleFile, Held
<1> DEFINE cell == [msg |-> msgs + 1, key |-> hsalt]
           row == [u \in Units |->
                     IF u \in used[cur]..(used[cur] + n - 1) THEN cell ELSE data[cur][u]]
<1>2. cell \in Cells
  BY <1>1, CellTyped
<1>3. data \in [Inodes -> [Units -> Cells]]
  BY TypeParts DEF DataTypes
<1>4. data' = [data EXCEPT ![cur] = row]
  BY DEF Store
<1> HIDE DEF cell
<1>5. row \in [Units -> Cells]
  BY <1>1, <1>2, <1>3
<1> HIDE DEF row
<1> QED BY <1>3, <1>4, <1>5 DEF DataTypes

\* A directory stays one when a name is linked or unlinked.
LEMMA LinkTyped ==
    ASSUME NEW links \in [Names -> 0..MaxInodes], NEW x, NEW i \in 0..MaxInodes
    PROVE  [links EXCEPT ![x] = i] \in [Names -> 0..MaxInodes]
OBVIOUS

\* A directory keeps its type when a switch clears a name and a creation takes one.
LEMMA DirTyped ==
    ASSUME PlainTypes
    PROVE  /\ Rotated \in [Names -> 0..MaxInodes]
           /\ \A n : BeginCreate(dir, n) => dir' \in [Names -> 0..MaxInodes]
           /\ \A n : BeginCreate(Rotated, n) => dir' \in [Names -> 0..MaxInodes]
<1>1. Rotated \in [Names -> 0..MaxInodes]
  <2>1. NoInode \in 0..MaxInodes
    BY RotationAssumption DEF NoInode
  <2>2. dir \in [Names -> 0..MaxInodes]
    BY DEF PlainTypes
  <2>3. [dir EXCEPT ![Today(0)] = NoInode] \in [Names -> 0..MaxInodes]
    BY <2>1, <2>2, LinkTyped
  <2> QED BY <2>2, <2>3 DEF Rotated
<1>2. ASSUME NEW n, NEW links \in [Names -> 0..MaxInodes], BeginCreate(links, n)
      PROVE  dir' \in [Names -> 0..MaxInodes]
  <2>1. made + 1 \in 0..MaxInodes
    BY <1>2, RotationAssumption DEF BeginCreate, PlainTypes
  <2> QED BY <1>2, <2>1, LinkTyped DEF BeginCreate
<1> QED BY <1>1, <1>2 DEF PlainTypes

\* The types hold at first and every step keeps them; that a new file is a
\* created inode and a handle has a size comes from the other parts.
LEMMA TypeStep ==
    ASSUME TypeOK, NewFileBlank, HandleFile, [Next]_vars
    PROVE  TypeOK'
<1>1. PlainTypes /\ DataTypes
  BY TypeParts
<1>2. DataTypes'
  <2>1. CASE \E n \in Lens : Store(n)
    BY <2>1, StoreKeepsData
  <2>2. CASE data' = data
    BY <1>1, <2>2 DEF DataTypes, Inodes, Units, Cells
  <2>3. data' = data \/ \E n \in Lens : Store(n)
    BY DEF Next, vars, inodeVars, SetMaxFileSize, OpenExisting, OpenBeyondEnd, OpenNew,
           OpenFails, OpenMapped, FinishCreate, CreateFails, MapFails, Overflow, StoreAstray,
           KilledAstray, Switch, SwitchFails, SwitchMapped, Close, Crash, LoseHandle,
           NextDay, Cleanup
  <2> QED BY <2>1, <2>2, <2>3
<1>3. /\ Latest # -1 => LatestFile \in Inodes
      /\ OpenSlot \in Slots /\ SwitchSlot \in Slots
  BY SlotFacts
<1>4. PlainTypes'
  <2> USE <1>1, <1>3, RotationAssumption
  <2> USE DEF PlainTypes, inodeVars, handleVars, Inodes, NoInode
  <2>1. ASSUME NEW s \in Sizes, SetMaxFileSize(s) PROVE PlainTypes'
    BY <2>1 DEF SetMaxFileSize
  <2>2. CASE OpenExisting
    BY <2>2 DEF OpenExisting, WritesOn
  <2>3. CASE OpenBeyondEnd
    BY <2>3 DEF OpenBeyondEnd
  <2>4. CASE OpenNew
    <3>1. dir' \in [Names -> 0..MaxInodes]
      BY <2>4, DirTyped DEF OpenNew
    <3> QED BY <2>4, <3>1 DEF OpenNew, BeginCreate
  <2>5. CASE OpenFails
    BY <2>5 DEF OpenFails
  <2>6. CASE OpenMapped
    BY <2>6 DEF OpenMapped
  <2>7. CASE FinishCreate
    BY <2>7 DEF FinishCreate, Creating, NewFileBlank
  <2>8. CASE CreateFails
    BY <2>8 DEF CreateFails, GiveUp, Creating, NewFileBlank
  <2>9. CASE MapFails
    BY <2>9 DEF MapFails, GiveUp
  <2>10. ASSUME NEW n \in Lens, Store(n) PROVE PlainTypes'
    <3>1. used' \in [Inodes -> Nat]
      <4>1. cur \in Inodes /\ n \in Nat
        BY <2>10 DEF Store, HandleFile, Held
      <4>2. used[cur] + n \in Nat
        BY <4>1
      <4> QED BY <2>10, <4>1, <4>2 DEF Store
    <3>2. msgs' \in 0..MaxMsgs
      BY <2>10 DEF Store
    <3> QED BY <2>10, <3>1, <3>2 DEF Store
  <2>11. ASSUME NEW n \in Lens, Overflow(n) PROVE PlainTypes'
    <3>1. used' \in [Inodes -> Nat]
      <4>1. hmax + 1 \in Nat
        OBVIOUS
      <4> QED BY <2>11, <4>1 DEF Overflow
    <3> QED BY <2>11, <3>1 DEF Overflow
  <2>12. CASE StoreAstray
    BY <2>12 DEF StoreAstray
  <2>13. CASE Switch
    <3>1. dir' \in [Names -> 0..MaxInodes]
      BY <2>13, DirTyped DEF Switch
    <3> QED BY <2>13, <3>1 DEF Switch, BeginCreate
  <2>14. CASE SwitchFails
    <3>1. Rotated \in [Names -> 0..MaxInodes]
      BY DirTyped
    <3> QED BY <2>14, <3>1 DEF SwitchFails, GiveUp
  <2>15. CASE SwitchMapped
    BY <2>15 DEF SwitchMapped
  <2>16. CASE KilledAstray \/ Close \/ Crash
    BY <2>16 DEF KilledAstray, Close, Crash, LoseHandle
  <2>17. CASE NextDay
    BY <2>17 DEF NextDay
  <2>18. ASSUME NEW d \in Retentions, Cleanup(d) PROVE PlainTypes'
    BY <2>18 DEF Cleanup
  <2>19. CASE UNCHANGED vars
    BY <2>19 DEF vars
  <2> QED
    BY <2>1, <2>2, <2>3, <2>4, <2>5, <2>6, <2>7, <2>8, <2>9, <2>10, <2>11, <2>12,
       <2>13, <2>14, <2>15, <2>16, <2>17, <2>18, <2>19 DEF Next
<1> QED
  <2>1. TypeOK' <=> PlainTypes' /\ DataTypes'
    BY DEF TypeOK, PlainTypes, DataTypes, Cells
  <2> QED BY <1>2, <1>4, <2>1

-----------------------------------------------------------------------------
\* What the invariant says of the files, and what it says of the handle.
FilesInv == PoolBlank /\ CounterBounded /\ UsedCoversData /\ Decryptable
HandleSideInv == NewFileBlank /\ HandleFile /\ HandleInTune

\* DirInv, by what the files and what the handle have to do with it.
LEMMA DirInvParts == DirInv <=> TypeOK /\ FilesInv /\ HandleSideInv
BY DEF DirInv, FilesInv, HandleSideInv

\* Units are naturals: no unit of an unused file is covered.
LEMMA UnitsAreNat == Units \subseteq Nat
BY DEF Units

\* Steps that leave the files as they are.
LEMMA SameFiles ==
    ASSUME FilesInv, UNCHANGED inodeVars
    PROVE  FilesInv'
BY DEF FilesInv, PoolBlank, CounterBounded, UsedCoversData, Decryptable, inodeVars

\* Steps that leave the handle and all inodes as they are.
LEMMA SameHandle ==
    ASSUME HandleSideInv, UNCHANGED inodeVars, UNCHANGED <<st, handleVars>>
    PROVE  HandleSideInv'
BY DEF HandleSideInv, NewFileBlank, HandleFile, HandleInTune, inodeVars, handleVars,
       Held, Mapping, Creating, Astray

\* Without a handle nothing is asked of one.
LEMMA HandleGone ==
    ASSUME LoseHandle
    PROVE  HandleSideInv'
BY DEF LoseHandle, HandleSideInv, NewFileBlank, HandleFile, HandleInTune, Held, Mapping,
       Creating, Astray

\* Giving up before anything was created leaves open without a handle, and a
\* switch with the one it had.
LEMMA GivenUp ==
    ASSUME HandleSideInv, NEW err, GiveUp(err), UNCHANGED inodeVars,
           st \in {"open:map", "switch:map", "switch"}
    PROVE  HandleSideInv'
BY DEF GiveUp, HandleSideInv, NewFileBlank, HandleFile, HandleInTune, Held, Mapping,
       Creating, Astray, inodeVars

\* Steps that change no file: failures, ends of the process, clean-ups, stray writes.
LEMMA QuietStep ==
    ASSUME DirInv,
           \/ \E s \in Sizes : SetMaxFileSize(s)
           \/ OpenBeyondEnd \/ OpenFails \/ MapFails
           \/ StoreAstray \/ KilledAstray \/ SwitchFails \/ Close \/ Crash \/ NextDay
           \/ \E d \in Retentions : Cleanup(d)
           \/ UNCHANGED vars
    PROVE  FilesInv' /\ HandleSideInv'
<1>1. UNCHANGED inodeVars
  BY DEF vars, inodeVars, SetMaxFileSize, OpenBeyondEnd, OpenFails, MapFails, StoreAstray,
         KilledAstray, SwitchFails, Close, Crash, LoseHandle, NextDay, Cleanup
<1>2. FilesInv'
  BY <1>1, SameFiles, DirInvParts
<1>3. CASE LoseHandle
  BY <1>2, <1>3, HandleGone
<1>4. CASE MapFails \/ SwitchFails
  BY <1>1, <1>2, <1>4, GivenUp, DirInvParts DEF MapFails, SwitchFails
<1>5. CASE UNCHANGED <<st, handleVars>>
  BY <1>1, <1>2, <1>5, SameHandle, DirInvParts
<1>6. LoseHandle \/ MapFails \/ SwitchFails \/ UNCHANGED <<st, handleVars>>
  BY DEF vars, SetMaxFileSize, OpenBeyondEnd, OpenFails, StoreAstray,
         KilledAstray, Close, Crash, NextDay, Cleanup
<1> QED BY <1>3, <1>4, <1>5, <1>6

\* OpenExisting.  A salt changes only in a file that holds nothing.
LEMMA OpenExistingStep ==
    ASSUME DirInv, OpenExisting
    PROVE  FilesInv' /\ HandleSideInv'
<1> USE DEF Inodes
<1>1. LatestFile \in Inodes /\ LatestFile <= made
  BY SlotFacts DEF DirInv, OpenExisting, WritesOn, Acceptable, PoolBlank, TypeOK
<1>2. PoolBlank' /\ CounterBounded' /\ UsedCoversData'
  BY DEF DirInv, OpenExisting, PoolBlank, CounterBounded, UsedCoversData
<1>3. Decryptable'
  <2>1. ASSUME NEW i \in Inodes, NEW u \in Units, data[i][u] # Unwritten
        PROVE  used[i] # 0
    BY <2>1, UnitsAreNat DEF DirInv, UsedCoversData, TypeOK
  <2>2. ASSUME NEW i \in Inodes, used[i] # 0
        PROVE  salt'[i] = salt[i]
    BY <2>2 DEF OpenExisting, NeedsSalt, DirInv, TypeOK
  <2> QED BY <2>1, <2>2 DEF DirInv, Decryptable, OpenExisting
<1>4. NewFileBlank'
  BY DEF OpenExisting, NewFileBlank, Creating, Mapping
<1>5. HandleFile'
  BY <1>1 DEF DirInv, TypeOK, OpenExisting, HandleFile, Held
<1>6. HandleInTune'
  BY <1>1 DEF DirInv, TypeOK, OpenExisting, HandleInTune, Held, Astray
<1> QED BY <1>2, <1>3, <1>4, <1>5, <1>6 DEF FilesInv, HandleSideInv

\* OpenNew, Switch.  The inode that gets the name comes from the pool.
LEMMA BeginCreateStep ==
    ASSUME DirInv, OpenNew \/ Switch
    PROVE  FilesInv' /\ HandleSideInv'
<1> USE DEF Inodes
<1>1. made + 1 \in Inodes /\ made' = made + 1
  BY RotationAssumption, TypeParts DEF DirInv, PlainTypes, OpenNew, Switch, BeginCreate
<1>2. UNCHANGED <<size, used, salt, whole, data, cur>>
  BY DEF OpenNew, Switch, handleVars
<1>3. FilesInv'
  BY <1>1, <1>2 DEF DirInv, TypeOK, FilesInv, PoolBlank, CounterBounded, UsedCoversData, Decryptable
<1>4. NewFileBlank'
  BY <1>1, <1>2, RotationAssumption
  DEF DirInv, TypeOK, OpenNew, Switch, PoolBlank, NewFileBlank, HandleFile, Held, Creating,
      Mapping, handleVars
<1>5. HandleFile' /\ HandleInTune'
  BY <1>1, <1>2
  DEF DirInv, TypeOK, OpenNew, Switch, HandleFile, HandleInTune, Held, Astray, handleVars
<1> QED BY <1>3, <1>4, <1>5 DEF HandleSideInv

\* FinishCreate writes the footer of the file under creation, which no handle has.
LEMMA FinishCreateStep ==
    ASSUME DirInv, FinishCreate
    PROVE  FilesInv' /\ HandleSideInv'
<1> USE DEF Inodes
<1>1. made \in Inodes /\ used[made] = 0 /\ hmax \in Nat
  BY RotationAssumption DEF DirInv, NewFileBlank, FinishCreate
<1>2. FilesInv'
  BY <1>1 DEF DirInv, TypeOK, FinishCreate, FilesInv, PoolBlank, CounterBounded,
     UsedCoversData, Decryptable
<1>3. NewFileBlank'
  BY <1>1 DEF DirInv, TypeOK, FinishCreate, NewFileBlank, Creating, Mapping, handleVars
<1>4. HandleFile' /\ HandleInTune'
  BY <1>1 DEF DirInv, TypeOK, FinishCreate, HandleFile, HandleInTune, Creating, Held, Astray,
     handleVars
<1> QED BY <1>2, <1>3, <1>4 DEF HandleSideInv

\* CreateFails puts the inode back: it is as blank as it was taken.
LEMMA CreateFailsStep ==
    ASSUME DirInv, CreateFails
    PROVE  FilesInv' /\ HandleSideInv'
<1> USE DEF Inodes
<1>1. made \in Inodes /\ used[made] = 0 /\ ~whole[made] /\ made' = made - 1
  BY DEF DirInv, NewFileBlank, CreateFails
<1>2. FilesInv'
  BY <1>1 DEF DirInv, TypeOK, CreateFails, FilesInv, PoolBlank, CounterBounded,
     UsedCoversData, Decryptable
<1>3. NewFileBlank' /\ HandleFile' /\ HandleInTune'
  BY <1>1 DEF DirInv, TypeOK, CreateFails, GiveUp, NewFileBlank, HandleFile, HandleInTune,
     Creating, Mapping, Held, Astray
<1> QED BY <1>2, <1>3 DEF HandleSideInv

\* OpenMapped, SwitchMapped.  The new file gets its salt before a byte is in it.
LEMMA MappedStep ==
    ASSUME DirInv, OpenMapped \/ SwitchMapped
    PROVE  FilesInv' /\ HandleSideInv'
<1> USE DEF Inodes
<1>1. made \in Inodes /\ used[made] = 0 /\ size[made] = hmax /\ hmax \in Sizes
  BY DEF DirInv, NewFileBlank, OpenMapped, SwitchMapped, Mapping
<1>2. /\ cur' = made /\ hsalt' \in 0..MaxInodes
      /\ salt' = [salt EXCEPT ![made] = hsalt']
      /\ UNCHANGED <<made, size, used, whole, data, hmax>>
      /\ st' \in {"open", "retry"}
  BY <1>1 DEF DirInv, TypeOK, OpenMapped, SwitchMapped
<1>3. PoolBlank' /\ CounterBounded' /\ UsedCoversData'
  BY <1>2 DEF DirInv, PoolBlank, CounterBounded, UsedCoversData
<1>4. Decryptable'
  <2>1. ASSUME NEW u \in Units PROVE data[made][u] = Unwritten
    BY <1>1, UnitsAreNat DEF DirInv, UsedCoversData
  <2> QED BY <1>1, <1>2, <2>1 DEF DirInv, TypeOK, Decryptable
<1>5. NewFileBlank' /\ HandleFile' /\ HandleInTune'
  BY <1>1, <1>2 DEF DirInv, TypeOK, NewFileBlank, HandleFile, HandleInTune,
     Creating, Mapping, Held, Astray
<1> QED BY <1>3, <1>4, <1>5 DEF FilesInv, HandleSideInv

\* Overflow.  The counter moves, past the end, over units nobody wrote.
LEMMA OverflowStep ==
    ASSUME DirInv, NEW n \in Lens, Overflow(n)
    PROVE  FilesInv' /\ HandleSideInv'
<1> USE DEF Inodes
<1>1. /\ cur \in Inodes /\ cur <= made /\ hmax \in Nat /\ hmax = size[cur]
      /\ hsalt = salt[cur] /\ used[cur] \in Nat /\ used[cur] <= hmax + 1
  BY RotationAssumption
  DEF DirInv, TypeOK, HandleFile, HandleInTune, Held, Astray, CounterBounded, Overflow
<1>2. /\ used' = [used EXCEPT ![cur] = hmax + 1]
      /\ UNCHANGED <<made, size, salt, whole, data, cur, hmax, hsalt>>
      /\ st' = "switch"
  BY DEF Overflow
<1>3. PoolBlank' /\ CounterBounded' /\ Decryptable'
  BY <1>1, <1>2 DEF DirInv, TypeOK, PoolBlank, CounterBounded, Decryptable
<1>4. UsedCoversData'
  BY <1>1, <1>2, UnitsAreNat DEF DirInv, TypeOK, UsedCoversData
<1>5. NewFileBlank' /\ HandleFile' /\ HandleInTune'
  BY <1>1, <1>2 DEF DirInv, TypeOK, NewFileBlank, HandleFile, HandleInTune,
     Creating, Mapping, Held, Astray, Overflow
<1> QED BY <1>3, <1>4, <1>5 DEF FilesInv, HandleSideInv

\* Where a stored message lies: in units of the handle's file that no message
\* had, under the salt of that file.
LEMMA StoreWrites ==
    ASSUME DirInv, NEW n \in Lens, Store(n)
    PROVE  /\ cur \in Inodes /\ cur <= made /\ hsalt = salt[cur] /\ used[cur] \in Nat
           /\ \A i \in Inodes, u \in Units :
                 \/ data'[i][u] = data[i][u]
                 \/ /\ i = cur /\ u \in used[cur]..(used[cur] + n - 1)
                    /\ data[i][u] = Unwritten
                    /\ data'[i][u] = [msg |-> msgs + 1, key |-> hsalt]
<1> USE DEF Inodes
<1>1. /\ cur \in Inodes /\ cur <= made /\ hsalt = salt[cur] /\ used[cur] \in Nat
  BY DEF DirInv, TypeOK, HandleFile, HandleInTune, Held, Store
<1> DEFINE cell == [msg |-> msgs + 1, key |-> hsalt]
           row == [u \in Units |->
                     IF u \in used[cur]..(used[cur] + n - 1) THEN cell ELSE data[cur][u]]
<1>2. data \in [Inodes -> [Units -> Cells]] /\ data' = [data EXCEPT ![cur] = row]
  BY TypeParts DEF DirInv, Store, DataTypes
<1> HIDE DEF cell
<1>3. ASSUME NEW u \in Units
      PROVE  row[u] = IF u \in used[cur]..(used[cur] + n - 1) THEN cell ELSE data[cur][u]
  OBVIOUS
<1>4. ASSUME NEW u \in Units, u \in used[cur]..(used[cur] + n - 1)
      PROVE  data[cur][u] = Unwritten
  BY <1>1, <1>4, UnitsAreNat DEF DirInv, UsedCoversData
<1> HIDE DEF row
<1>5. ASSUME NEW i \in Inodes, NEW u \in Units
      PROVE  \/ data'[i][u] = data[i][u]
             \/ /\ i = cur /\ u \in used[cur]..(used[cur] + n - 1)
                /\ data[i][u] = Unwritten
                /\ data'[i][u] = cell
  BY <1>1, <1>2, <1>3, <1>4
<1> QED BY <1>1, <1>5 DEF cell

\* The key of a cell.
LEMMA CellFields ==
    ASSUME NEW m, NEW k
    PROVE  [msg |-> m, key |-> k].key = k
OBVIOUS

\* A message goes between used_size and the end, under the key of its file.
LEMMA StoreStep ==
    ASSUME DirInv, NEW n \in Lens, Store(n)
    PROVE  FilesInv' /\ HandleSideInv'
<1> USE DEF Inodes
<1>1. /\ cur \in Inodes /\ cur <= made /\ hmax \in Nat /\ hmax = size[cur]
      /\ used[cur] \in Nat /\ used[cur] + n <= hmax /\ n \in Nat
  BY RotationAssumption, StoreWrites DEF DirInv, HandleFile, Held, Astray, Store
<1>2. /\ used' = [used EXCEPT ![cur] = used[cur] + n]
      /\ UNCHANGED <<made, size, salt, whole, cur, hmax, hsalt>>
      /\ st' = "open"
  BY DEF Store
<1>3. PoolBlank' /\ CounterBounded'
  BY <1>1, <1>2 DEF DirInv, TypeOK, PoolBlank, CounterBounded
<1>4. UsedCoversData'
  <2> SUFFICES ASSUME NEW i \in Inodes, NEW u \in Units, data'[i][u] # Unwritten
               PROVE  u < used'[i]
    BY DEF UsedCoversData
  <2>1. CASE data'[i][u] = data[i][u]
    BY <1>1, <1>2, <2>1, UnitsAreNat DEF DirInv, TypeOK, UsedCoversData
  <2>2. CASE i = cur /\ u \in used[cur]..(used[cur] + n - 1)
    BY <1>1, <1>2, <2>2 DEF DirInv, TypeOK
  <2> QED BY <2>1, <2>2, StoreWrites
<1>5. Decryptable'
  <2> SUFFICES ASSUME NEW i \in Inodes, NEW u \in Units, data'[i][u] # Unwritten
               PROVE  data'[i][u].key = salt[i]
    BY <1>2 DEF Decryptable
  <2>1. CASE data'[i][u] = data[i][u]
    BY <2>1 DEF DirInv, Decryptable
  <2>2. CASE i = cur /\ data'[i][u] = [msg |-> msgs + 1, key |-> hsalt]
    BY <2>2, StoreWrites, CellFields
  <2> QED BY <2>1, <2>2, StoreWrites
<1>6. NewFileBlank' /\ HandleFile' /\ HandleInTune'
  BY <1>1, <1>2, StoreWrites DEF DirInv, TypeOK, NewFileBlank, HandleFile, HandleInTune,
     Creating, Mapping, Held, Astray, Store
<1> QED BY <1>3, <1>4, <1>5, <1>6 DEF FilesInv, HandleSideInv

-----------------------------------------------------------------------------
\* An empty directory satisfies DirInv.
LEMMA DirInvInit == Init => DirInv
<1> SUFFICES ASSUME Init PROVE DirInv
  OBVIOUS
<1> USE RotationAssumption
<1>1. PlainTypes
  BY DEF Init, PlainTypes, NoInode
<1>2. DataTypes
  <2>1. Unwritten \in Cells
    BY CellTyped DEF Unwritten
  <2> QED BY <2>1 DEF Init, DataTypes
<1>3. HandleSideInv
  BY DEF Init, HandleSideInv, NewFileBlank, HandleFile, HandleInTune, Held, Mapping, Creating
<1>4. FilesInv
  BY DEF Init, FilesInv, PoolBlank, CounterBounded, UsedCoversData, Decryptable
<1> QED BY <1>1, <1>2, <1>3, <1>4, TypeParts, DirInvParts

\* Every step keeps DirInv.
LEMMA DirInvStep == DirInv /\ [Next]_vars => DirInv'
<1> SUFFICES ASSUME DirInv, [Next]_vars PROVE DirInv'
  OBVIOUS
<1>1. TypeOK'
  BY TypeStep DEF DirInv
<1>2. FilesInv' /\ HandleSideInv'
  BY QuietStep, OpenExistingStep, BeginCreateStep, FinishCreateStep, CreateFailsStep,
     MappedStep, OverflowStep, StoreStep DEF Next
<1> QED BY <1>1, <1>2 DEF DirInv, FilesInv, HandleSideInv

\* DirInv holds in every behaviour.
LEMMA DirInvariant == Spec => []DirInv
BY DirInvInit, DirInvStep, PTL DEF Spec

\* The variables of the directory, its files and the handle keep their types.
THEOREM DirectoryTypes == Spec => []TypeOK
<1>1. DirInv => TypeOK
  BY DEF DirInv
<1> QED BY <1>1, DirInvariant, PTL

\* Whatever opens, switches, failures, crashes and resizes come between, the
\* salt in a file's footer is the one its contents were encrypted under: the
\* two places that write a salt (open's, for a file with used_size 0, and the
\* switch's, for the file it created) find a file that holds nothing.
THEOREM FilesDecryptable == Spec => []Decryptable
<1>1. DirInv => Decryptable
  BY DEF DirInv
<1> QED BY <1>1, DirInvariant, PTL

\* What the counter of a file leaves out holds no message.
THEOREM CounterCoversData == Spec => []UsedCoversData
<1>1. DirInv => UsedCoversData
  BY DEF DirInv
<1> QED BY <1>1, DirInvariant, PTL

\* A unit of a file that a stored message occupies keeps its bytes for good.
THEOREM StoredBytesStay == Spec => NeverOverwritten
<1> DEFINE Kept == \A i \in Inodes, u \in Units :
                      data[i][u] # Unwritten => data'[i][u] = data[i][u]
<1>1. DirInv /\ [Next]_vars => Kept
  <2> SUFFICES ASSUME DirInv, [Next]_vars PROVE Kept
    OBVIOUS
  <2>1. CASE \E n \in Lens : Store(n)
    BY <2>1, StoreWrites
  <2>2. CASE data' = data
    BY <2>2
  <2>3. data' = data \/ \E n \in Lens : Store(n)
    BY DEF Next, vars, inodeVars, SetMaxFileSize, OpenExisting, OpenBeyondEnd, OpenNew,
           OpenFails, OpenMapped, FinishCreate, CreateFails, MapFails, Overflow, StoreAstray,
           KilledAstray, Switch, SwitchFails, SwitchMapped, Close, Crash, LoseHandle,
           NextDay, Cleanup
  <2> QED BY <2>1, <2>2, <2>3
<1>2. DirInv /\ [Next]_vars => [Kept]_vars
  BY <1>1
<1>3. Spec => [][Kept]_vars
  BY <1>2, DirInvariant, PTL DEF Spec
<1> QED BY <1>3 DEF NeverOverwritten

\* A finished file loses its name only to a clean-up whose retention it has
\* outlived, or, from slot 0, to a switch that finds all numbers of the day
\* used.  The name a failing create takes back is that of a file without footer.
THEOREM NamesStayUntilDue == Spec => OnlyDueFilesGo
<1> DEFINE DueOnly == \A n \in Names : dir[n] # NoInode /\ dir'[n] = NoInode /\ whole[dir[n]] =>
                         \/ \E d \in Retentions : day - n[1] >= d
                         \/ n[2] = 0 /\ dir[<<n[1], DailyFiles - 1>>] # NoInode
<1>1. DirInv /\ [Next]_vars => DueOnly
  <2> SUFFICES ASSUME DirInv, [Next]_vars,
                      NEW n \in Names, dir[n] # NoInode, dir'[n] = NoInode, whole[dir[n]]
               PROVE  \/ \E d \in Retentions : day - n[1] >= d
                      \/ n[2] = 0 /\ dir[<<n[1], DailyFiles - 1>>] # NoInode
    OBVIOUS
  <2>1. dir \in [Names -> 0..MaxInodes] /\ made \in Nat /\ made + 1 # NoInode
    BY RotationAssumption DEF DirInv, TypeOK, NoInode
  <2>2. ASSUME NEW d \in Retentions, Cleanup(d) PROVE day - n[1] >= d
    BY <2>2 DEF Cleanup, Expired
  <2>3. CASE CreateFails
    BY <2>1, <2>3 DEF CreateFails, DirInv, NewFileBlank
  <2>4. CASE OpenNew
    BY <2>1, <2>4 DEF OpenNew, BeginCreate
  <2>5. CASE Switch \/ SwitchFails
    <3>1. Rotated[n] = NoInode
      BY <2>1, <2>5 DEF Switch, SwitchFails, BeginCreate, Rotated
    <3>2. SlotsSpent /\ n = Today(0)
      BY <2>1, <3>1 DEF Rotated
    <3>3. dir[Today(DailyFiles - 1)] # NoInode
      BY <3>2, SlotFacts DEF DirInv
    <3> QED BY <3>2, <3>3 DEF Today
  <2>6. CASE dir' = dir
    BY <2>6
  <2>7. \/ \E d \in Retentions : Cleanup(d)
        \/ CreateFails \/ OpenNew \/ Switch \/ SwitchFails
        \/ dir' = dir
    BY DEF Next, vars, SetMaxFileSize, OpenExisting, OpenBeyondEnd,
           OpenFails, OpenMapped, FinishCreate, MapFails, Store, Overflow, StoreAstray,
           KilledAstray, SwitchMapped, Close, Crash, LoseHandle, NextDay
  <2> QED BY <2>2, <2>3, <2>4, <2>5, <2>6, <2>7
<1>2. DirInv /\ [Next]_vars => [DueOnly]_vars
  BY <1>1
<1>3. Spec => [][DueOnly]_vars
  BY <1>2, DirInvariant, PTL DEF Spec
<1> QED BY <1>3 DEF OnlyDueFilesGo
=============================================================================
