----------------------------- MODULE LzRotation -----------------------------
(***************************************************************************)
(* The daily log files of one directory over opens, switches, closes,      *)
(* crashes, day changes and clean-ups (src/src/lz_logger.c).               *)
(*                                                                         *)
(* A file is an inode: its data size, the used_size and the salt in its    *)
(* footer, and who wrote each unit of its data area under which key.  Its  *)
(* name <day, slot> stands for yyyy-mm-dd-slot.log.  One thread writes     *)
(* here: the concurrency inside lz_logger_write is LzLogger's subject.     *)
(* Mapped pages are the file's (MAP_SHARED), so a crash of the process     *)
(* loses the handle and nothing else.                                      *)
(***************************************************************************)
EXTENDS Integers, FiniteSets

CONSTANTS DailyFiles,  \* LZ_LOG_MAX_DAILY_FILES
          Sizes,       \* data sizes the application sets (max_file_size - footer)
          Lens,        \* lengths of messages
          Retentions,  \* values of days passed to the clean-up
          MaxDay,      \* last day (bound)
          MaxInodes,   \* files ever created (bound)
          MaxMsgs      \* messages stored (bound)

ASSUME RotationAssumption ==
    /\ DailyFiles \in Nat \ {0}
    /\ Sizes # {} /\ Sizes \subseteq Nat \ {0} /\ Lens \subseteq Nat \ {0}
    /\ Retentions \subseteq Nat
    /\ MaxDay \in Nat /\ MaxInodes \in Nat /\ MaxMsgs \in Nat

VARIABLES day,                            \* today
          gmax,                           \* g_max_file_size
          dir,                            \* <<day, slot>> -> inode, or NoInode
          made,                           \* inodes created so far
          size, used, salt, whole,        \* footer of each inode; whole: it was written
          data,                           \* who wrote each unit of its data area
          st,                             \* where the handle is
          cur, hmax, hsalt, pend,         \* its file, max_file_size, key, waiting message
          msgs, openErr                   \* messages stored; answer of the last open

inodeVars == <<made, size, used, salt, whole, data>>
handleVars == <<cur, hmax, hsalt, pend>>
vars == <<day, gmax, dir, inodeVars, st, handleVars, msgs, openErr>>

NoInode == 0
Inodes == 1..MaxInodes
Slots == 0..DailyFiles        \* open may name one file beyond the daily ones
Names == (0..MaxDay) \X Slots
Units == 0..((CHOOSE s \in Sizes : \A t \in Sizes : t <= s) - 1)
Unwritten == [msg |-> 0, key |-> 0]

Today(n) == <<day, n>>
Taken == {n \in 0..(DailyFiles - 1) : dir[Today(n)] # NoInode}

\* find_latest_log_number
Latest == IF Taken = {} THEN -1 ELSE CHOOSE n \in Taken : \A m \in Taken : m <= n
LatestFile == dir[Today(Latest)]

Init == /\ day = 0 /\ gmax \in Sizes
        /\ dir = [n \in Names |-> NoInode]
        /\ made = 0
        /\ size = [i \in Inodes |-> 0] /\ used = [i \in Inodes |-> 0]
        /\ salt = [i \in Inodes |-> 0] /\ whole = [i \in Inodes |-> FALSE]
        /\ data = [i \in Inodes |-> [u \in Units |-> Unwritten]]
        /\ st = "closed"
        /\ cur = NoInode /\ hmax = 0 /\ hsalt = 0 /\ pend = 0
        /\ msgs = 0 /\ openErr = "SUCCESS"

(***************************************************************************)
(* create_and_extend_file: the name must be free (O_EXCL); the footer is   *)
(* written after the file was extended, so a crash can leave the name with *)
(* a file that has none.                                                   *)
(***************************************************************************)
Creating == st \in {"open:create", "switch:create"}

BeginCreate(links, n) ==
    /\ links[Today(n)] = NoInode
    /\ made < MaxInodes /\ made' = made + 1
    /\ dir' = [links EXCEPT ![Today(n)] = made + 1]

FinishCreate ==
    /\ Creating
    /\ whole' = [whole EXCEPT ![made] = TRUE]
    /\ size' = [size EXCEPT ![made] = hmax]
    /\ st' = IF st = "open:create" THEN "open:map" ELSE "switch:map"
    /\ UNCHANGED <<day, gmax, dir, made, used, salt, data, handleVars, msgs, openErr>>

\* bug: every failure is reported as one of open.
GiveUpAloud(err) ==
    /\ st' = IF st \in {"open:create", "open:map"} THEN "closed" ELSE "open"
    /\ openErr' = err
    /\ pend' = 0
    /\ UNCHANGED <<cur, hmax, hsalt>>
\* The caller of a failing create or mmap gives up: open leaves no handle,
\* a switch leaves the handle on its old file and answers FILE_SWITCH.
GiveUp(err) ==
    /\ st' = IF st \in {"open:create", "open:map"} THEN "closed" ELSE "open"
    /\ openErr' = IF st \in {"open:create", "open:map"} THEN err ELSE openErr
    /\ pend' = 0
    /\ UNCHANGED <<cur, hmax, hsalt>>

CreateFails ==
    /\ Creating
    /\ dir' = [n \in Names |-> IF dir[n] = made THEN NoInode ELSE dir[n]]
    /\ made' = made - 1                        \* its inode is free again
    /\ GiveUp("FILE_CREATE")
    /\ UNCHANGED <<day, gmax, size, used, salt, whole, data, msgs>>

\* The file stays in the directory.
MapFails ==
    /\ st \in {"open:map", "switch:map"}
    /\ GiveUp("MMAP_FAILED")
    /\ UNCHANGED <<day, gmax, dir, inodeVars, msgs>>

(***************************************************************************)
(* lz_logger_set_max_file_size, lz_logger_open                             *)
(***************************************************************************)
SetMaxFileSize(s) ==
    /\ gmax # s /\ gmax' = s
    /\ UNCHANGED <<day, dir, inodeVars, st, handleVars, msgs, openErr>>

\* open_existing_file accepts the footer.
Acceptable(i) == whole[i] /\ used[i] <= size[i]
\* The file is full for this handle.
Full(i) == used[i] >= gmax

\* The newest file of the day is written on; else the slot open settles on,
\* which is the one of a newest file that it could not accept.
WritesOn == Latest # -1 /\ Acceptable(LatestFile) /\ ~Full(LatestFile)
OpenSlot == IF Latest = -1 THEN 0
            ELSE IF Acceptable(LatestFile) THEN Latest + 1 ELSE Latest

\* bug: an existing file is written from its start.
OpenExistingAtStart ==
    /\ st = "closed"
    /\ WritesOn
    /\ gmax <= size[LatestFile]
    /\ st' = "open" /\ openErr' = "SUCCESS"
    /\ cur' = LatestFile /\ hmax' = gmax /\ pend' = 0
    /\ hsalt' = salt[LatestFile]
    /\ used' = [used EXCEPT ![LatestFile] = 0]
    /\ UNCHANGED <<day, gmax, dir, made, size, salt, whole, data, msgs>>

\* Open generates a salt for a file that holds nothing.
NeedsSalt(i) == used[i] = 0

\* The file is mapped with max_file_size, whatever its own size.  When that is
\* shorter the handle is astray: what it takes for the footer lies in the data
\* area, beyond what is used, and reads 0.  Salts are named after the file they
\* were generated for.
OpenExisting ==
    /\ st = "closed"
    /\ WritesOn
    /\ gmax <= size[LatestFile]
    /\ st' = "open" /\ openErr' = "SUCCESS"
    /\ cur' = LatestFile /\ hmax' = gmax /\ pend' = 0
    /\ salt' = IF NeedsSalt(LatestFile) /\ gmax = size[LatestFile]
               THEN [salt EXCEPT ![LatestFile] = LatestFile] ELSE salt
    /\ hsalt' = IF gmax = size[LatestFile] THEN salt'[LatestFile] ELSE 0
    /\ UNCHANGED <<day, gmax, dir, made, size, used, whole, data, msgs>>

\* A mapping longer than the file: reading its last word is a SIGBUS, and
\* there is no handle.  (Sizes that differ by less than a page are left out.)
OpenBeyondEnd ==
    /\ st = "closed"
    /\ WritesOn
    /\ gmax > size[LatestFile]
    /\ openErr' = "SIGBUS"
    /\ UNCHANGED <<day, gmax, dir, inodeVars, st, handleVars, msgs>>

OpenNew ==
    /\ st = "closed"
    /\ ~WritesOn
    /\ BeginCreate(dir, OpenSlot)
    /\ st' = "open:create"
    /\ hmax' = gmax
    /\ UNCHANGED <<day, gmax, size, used, salt, whole, data, cur, hsalt, pend, msgs, openErr>>

\* The name is that of an existing file, the disk gives no file, or an
\* existing file cannot be mapped or its key not derived.
OpenFails ==
    /\ st = "closed"
    /\ openErr' \in IF WritesOn THEN {"FILE_CREATE", "MMAP_FAILED"} ELSE {"FILE_CREATE"}
    /\ UNCHANGED <<day, gmax, dir, inodeVars, st, handleVars, msgs>>

OpenMapped ==
    /\ st = "open:map"
    /\ st' = "open" /\ openErr' = "SUCCESS"
    /\ cur' = made /\ hsalt' = made /\ pend' = 0
    /\ salt' = [salt EXCEPT ![made] = made]
    /\ UNCHANGED <<day, gmax, dir, made, size, used, whole, data, hmax, msgs>>

(***************************************************************************)
(* lz_logger_write: the message is stored, or the counter is past the end  *)
(* of the file and switch_to_new_file runs.                                *)
(***************************************************************************)
Astray == hmax # size[cur]

Store(n) ==
    /\ st = "open" \/ (st = "retry" /\ n = pend)
    /\ ~Astray /\ used[cur] + n <= hmax
    /\ msgs < MaxMsgs /\ msgs' = msgs + 1
    /\ used' = [used EXCEPT ![cur] = @ + n]
    /\ data' = [data EXCEPT ![cur] = [u \in Units |->
          IF u \in used[cur]..(used[cur] + n - 1) THEN [msg |-> msgs + 1, key |-> hsalt]
          ELSE data[cur][u]]]
    /\ st' = "open" /\ pend' = 0
    /\ UNCHANGED <<day, gmax, dir, made, size, salt, whole, cur, hmax, hsalt, openErr>>

\* With a file_size of 0 every length fits, and the message is copied behind
\* the mapping: over other memory, or the process is killed (KilledAstray).
StoreAstray ==
    /\ st = "open" /\ Astray
    /\ msgs < MaxMsgs /\ msgs' = msgs + 1
    /\ UNCHANGED <<day, gmax, dir, inodeVars, st, handleVars, openErr>>

\* The counter stays past the end; how far makes no difference.
Overflow(n) ==
    /\ st = "open"
    /\ ~Astray /\ n <= hmax /\ used[cur] + n > hmax
    /\ used' = [used EXCEPT ![cur] = hmax + 1]
    /\ st' = "switch" /\ pend' = n
    /\ UNCHANGED <<day, gmax, dir, made, size, salt, whole, data, cur, hmax, hsalt, msgs, openErr>>

\* new_file_num >= LZ_LOG_MAX_DAILY_FILES
SlotsSpent == Latest + 1 >= DailyFiles
SwitchSlot == IF SlotsSpent THEN 0 ELSE Latest + 1
\* Slot 0 is unlinked when the numbers are used up.
Rotated == IF SlotsSpent THEN [dir EXCEPT ![Today(0)] = NoInode] ELSE dir

Switch == /\ st = "switch"
          /\ BeginCreate(Rotated, SwitchSlot)
          /\ st' = "switch:create"
          /\ UNCHANGED <<day, gmax, size, used, salt, whole, data, handleVars, msgs, openErr>>

\* bug: a failed switch resets the counter of the old file.
SwitchFailsAndResets ==
    /\ st = "switch"
    /\ dir' = Rotated
    /\ used' = [used EXCEPT ![cur] = 0]
    /\ GiveUp("")
    /\ UNCHANGED <<day, gmax, made, size, salt, whole, data, msgs>>

\* The new name cannot be opened; slot 0 may be gone by then.
SwitchFails ==
    /\ st = "switch"
    /\ dir' = Rotated
    /\ GiveUp("")
    /\ UNCHANGED <<day, gmax, inodeVars, msgs>>

\* bug: the new file is published before it got the salt.
SwitchMappedUnsalted ==
    /\ st = "switch:map"
    /\ cur' = made
    /\ st' = "retry"
    /\ UNCHANGED <<day, gmax, dir, inodeVars, hmax, hsalt, pend, msgs, openErr>>

\* The new file gets the salt that the handle's key was derived from.
SwitchMapped ==
    /\ st = "switch:map"
    /\ cur' = made
    /\ salt' = [salt EXCEPT ![made] = hsalt]
    /\ st' = "retry"
    /\ UNCHANGED <<day, gmax, dir, made, size, used, whole, data, hmax, hsalt, pend, msgs, openErr>>

(***************************************************************************)
(* lz_logger_close, and the end of the process at any other point.         *)
(***************************************************************************)
LoseHandle == /\ st' = "closed"
              /\ cur' = NoInode /\ hmax' = 0 /\ hsalt' = 0 /\ pend' = 0
              /\ UNCHANGED <<day, gmax, dir, inodeVars, msgs, openErr>>
Close == st = "open" /\ LoseHandle
Crash == st \notin {"closed", "open"} /\ LoseHandle
KilledAstray == st = "open" /\ Astray /\ LoseHandle

NextDay == /\ day < MaxDay /\ day' = day + 1
           /\ UNCHANGED <<gmax, dir, inodeVars, st, handleVars, msgs, openErr>>

\* bug: the day a file has just completed counts as one more.
ExpiredEarly(n, days) == day - n[1] >= days - 1
\* days_diff >= days
Expired(n, days) == day - n[1] >= days

\* lz_logger_cleanup_expired_logs
Cleanup(days) ==
    /\ \E n \in Names : dir[n] # NoInode /\ Expired(n, days)
    /\ dir' = [n \in Names |-> IF Expired(n, days) THEN NoInode ELSE dir[n]]
    /\ UNCHANGED <<day, gmax, inodeVars, st, handleVars, msgs, openErr>>

Next == \/ \E s \in Sizes : SetMaxFileSize(s)
        \/ OpenExisting \/ OpenBeyondEnd \/ OpenNew \/ OpenFails \/ OpenMapped
        \/ FinishCreate \/ CreateFails \/ MapFails
        \/ \E n \in Lens : Store(n) \/ Overflow(n)
        \/ StoreAstray \/ KilledAstray
        \/ Switch \/ SwitchFails \/ SwitchMapped
        \/ Close \/ Crash \/ NextDay
        \/ \E d \in Retentions : Cleanup(d)

Spec == Init /\ [][Next]_vars
-----------------------------------------------------------------------------
\* Types of the variables.
TypeOK ==
    /\ day \in 0..MaxDay /\ gmax \in Sizes
    /\ made \in 0..MaxInodes
    /\ dir \in [Names -> 0..MaxInodes]
    /\ size \in [Inodes -> {0} \cup Sizes]
    /\ used \in [Inodes -> Nat]
    /\ salt \in [Inodes -> 0..MaxInodes]
    /\ whole \in [Inodes -> BOOLEAN]
    /\ data \in [Inodes -> [Units -> [msg : 0..MaxMsgs, key : 0..MaxInodes]]]
    /\ st \in {"closed", "open:create", "open:map", "open", "switch",
              "switch:create", "switch:map", "retry"}
    /\ cur \in 0..MaxInodes /\ hmax \in {0} \cup Sizes /\ hsalt \in 0..MaxInodes
    /\ pend \in {0} \cup Lens
    /\ msgs \in 0..MaxMsgs
    /\ openErr \in {"SUCCESS", "FILE_CREATE", "MMAP_FAILED", "SIGBUS"}

\* A unit that a stored message occupies is never written again, whatever
\* crashes, reopens and failed switches come between.
NeverOverwritten ==
    [][\A i \in Inodes, u \in Units :
          data[i][u] # Unwritten => data'[i][u] = data[i][u]]_vars

\* Every message that was stored is in a file: a change of max_file_size leaves
\* existing files, and the handle on one of them, as they are.
NothingLost == \A m \in 1..msgs : \E i \in Inodes, u \in Units : data[i][u].msg = m

\* The salt in a file's footer is the one its contents were encrypted under.
Decryptable ==
    \A i \in Inodes, u \in Units : data[i][u] # Unwritten => data[i][u].key = salt[i]

\* What used_size leaves out of a file holds no message.
UsedCoversData ==
    \A i \in Inodes, u \in Units : data[i][u] # Unwritten => u < used[i]

\* A finished file loses its name only to a clean-up whose retention it has
\* outlived, or, from slot 0, to a switch that finds all numbers used.
OnlyDueFilesGo ==
    [][\A n \in Names : dir[n] # NoInode /\ dir'[n] = NoInode /\ whole[dir[n]] =>
          \/ \E d \in Retentions : day - n[1] >= d
          \/ n[2] = 0 /\ dir[<<n[1], DailyFiles - 1>>] # NoInode]_vars

\* The next open has a file to write on, or a free name for a new one.
OpenFindsPlace == WritesOn \/ dir[Today(OpenSlot)] = NoInode

\* The next open does not fail on the newest file of the day, however a crash
\* left it: full and overflowed, or cut short while it was being created.
NewestFileReopens == st = "closed" /\ Latest # -1 => OpenFindsPlace
=============================================================================
