------------------------------ MODULE LzLogger ------------------------------
(***************************************************************************)
(* Concurrent lz_logger_write on one open handle (src/src/lz_logger.c).    *)
(*                                                                         *)
(* A log file is mapped whole; the last word of the mapping is the file's  *)
(* used_size and cur_offset_ptr points at it, so one pointer names both    *)
(* the counter and the mapping.  A writer loads the pointer, reserves its  *)
(* bytes with a fetch_add through it, and copies and encrypts its message  *)
(* there without a lock.  The writer whose reservation does not fit takes  *)
(* switch_mutex, maps the next file, publishes its pointer, and unmaps the *)
(* mapping that was replaced ONE switch earlier (the delayed munmap).      *)
(*                                                                         *)
(* Files are numbered in the order in which they are published.  Addresses *)
(* are what mmap returns; an address is free again after munmap.  Which    *)
(* directory entry a file gets, day changes, open, close and export are    *)
(* not part of this module.                                                *)
(***************************************************************************)
EXTENDS Integers, Sequences

CONSTANTS Writers,     \* threads that call lz_logger_write
          Addrs,       \* addresses mmap may return
          NoAddr,      \* NULL
          NoWriter,    \* "switch_mutex is free"
          Zero,        \* a byte no message wrote
          MaxData,     \* max_file_size - LZ_LOG_FOOTER_SIZE
          U32,         \* 2^32, the range of used_size
          Lens,        \* lengths callers pass
          MaxCalls,    \* calls each writer makes (bound)
          MaxFiles,    \* files the handle publishes before the disk is full (bound)
          Encrypted    \* whether crypto_ctx.is_initialized

ASSUME SizesAssumption == /\ MaxData \in Nat \ {0}
                          /\ U32 \in Nat /\ MaxData < U32
                          /\ Lens \subseteq 0..(U32 - 1)
ASSUME BoundsAssumption == MaxCalls \in Nat /\ MaxFiles \in Nat \ {0}
ASSUME NamesAssumption == /\ NoAddr \notin Addrs
                          /\ NoWriter \notin Writers
                          /\ Zero \notin Writers \X (1..MaxCalls)
                          /\ Encrypted \in BOOLEAN

VARIABLES pc, calls, len, ptr, tgt, off, ret,     \* of each writer
          cur, old, lock,                         \* fields of the handle
          new,                                    \* new_offset_ptr of the switching writer
          map, used, data, mask,                  \* address space and files
          gen, log, acked,                        \* history, read by no step's guard
          fault                                   \* the process was killed by SIGSEGV

callVars == <<calls, len>>
ptrVars  == <<ptr, tgt>>
handleVars == <<cur, old, lock, new, gen>>
fileVars == <<used, data, mask>>
history  == <<log, acked>>
vars == <<pc, callVars, ptrVars, off, ret, handleVars, map, fileVars, history, fault>>

Files  == 1..MaxFiles
NoFile == 0
Pos    == 0..(MaxData - 1)
Msgs   == Writers \X (1..MaxCalls)
Msg(w) == <<w, calls[w]>>

\* Program points at which a writer goes through the pointer it loaded, and
\* those at which it owns switch_mutex.
Holding  == {"size", "reserve", "copy", "encrypt", "pad", "padenc"}
Critical == {"recheck", "map", "zero", "publish", "retire"}

\* Operators marked "bug:" are what a slip in the code would make of the
\* definition that follows them; no specification uses them.

\* bug: the counter is wider than its footer field.
AddU32Wide(a, b) == a + b
\* uint32_t addition.
AddU32(a, b) == IF a + b < U32 THEN a + b ELSE a + b - U32

\* Byte p of file f is data[f][p]; mask[f][p] is the parity of the number of
\* times the key stream was applied to it since it was last copied in.
Paint(g, f, lo, n, v) ==
    [g EXCEPT ![f] = [p \in Pos |-> IF p \in lo..(lo + n - 1) THEN v ELSE g[f][p]]]
ApplyKeyStream(f, lo, n) ==
    [mask EXCEPT ![f] = [p \in Pos |->
        IF p \in lo..(lo + n - 1) THEN 1 - mask[f][p] ELSE mask[f][p]]]

(***************************************************************************)
(* lz_logger_open left the handle on file 1, empty.                        *)
(***************************************************************************)
Init == /\ pc = [w \in Writers |-> "idle"]
        /\ calls = [w \in Writers |-> 0]
        /\ len = [w \in Writers |-> 0]
        /\ ptr = [w \in Writers |-> NoAddr]
        /\ tgt = [w \in Writers |-> 0]
        /\ off = [w \in Writers |-> 0]
        /\ ret = [w \in Writers |-> "SUCCESS"]
        /\ cur \in Addrs /\ old = NoAddr /\ new = NoAddr
        /\ lock = NoWriter
        /\ map = [a \in Addrs |-> IF a = cur THEN 1 ELSE NoFile]
        /\ used = [f \in Files |-> 0]
        /\ data = [f \in Files |-> [p \in Pos |-> Zero]]
        /\ mask = [f \in Files |-> [p \in Pos |-> 0]]
        /\ gen = 1 /\ log = <<>> /\ acked = {}
        /\ fault = FALSE

Goto(w, label) == pc' = [pc EXCEPT ![w] = label]

\* The call is answered.
Return(w, code) ==
    /\ Goto(w, "idle")
    /\ ret' = [ret EXCEPT ![w] = code]
    /\ acked' = IF code = "SUCCESS" THEN acked \cup {Msg(w)} ELSE acked

\* atomic_load(&ctx->cur_offset_ptr).  tgt remembers which file that was.
LoadPtr(w) == ptr' = [ptr EXCEPT ![w] = cur] /\ tgt' = [tgt EXCEPT ![w] = gen]

\* The pointer still leads to a mapping, and the span the step touches to it.
Addressable(w) == /\ map[ptr[w]] # NoFile
                  /\ pc[w] \in {"copy", "encrypt"} => off[w] + len[w] <= MaxData

(***************************************************************************)
(* lz_logger_write, up to the reservation.                                 *)
(***************************************************************************)
BeginCall(w, n) == /\ pc[w] = "idle" /\ calls[w] < MaxCalls
                   /\ calls' = [calls EXCEPT ![w] = @ + 1]
                   /\ len' = [len EXCEPT ![w] = n]
                   /\ UNCHANGED <<off, handleVars, map, fileVars, log, fault>>

Refuse(w) == /\ 0 \in Lens
             /\ BeginCall(w, 0)
             /\ ret' = [ret EXCEPT ![w] = "INVALID_PARAM"]
             /\ UNCHANGED <<pc, ptrVars, acked>>

Call(w) == /\ \E n \in Lens \ {0} : BeginCall(w, n)
           /\ LoadPtr(w)
           /\ Goto(w, "size")
           /\ UNCHANGED <<ret, acked>>

\* file_size is read from the footer, through the pointer.
CheckSize(w) ==
    /\ pc[w] = "size" /\ Addressable(w)
    /\ IF len[w] > MaxData
       THEN Return(w, "FILE_SIZE_EXCEED")
       ELSE Goto(w, "load") /\ UNCHANGED <<ret, acked>>
    /\ UNCHANGED <<callVars, ptrVars, off, handleVars, map, fileVars, log, fault>>

Load(w) == /\ pc[w] = "load"
           /\ LoadPtr(w)
           /\ Goto(w, "reserve")
           /\ UNCHANGED <<callVars, off, ret, handleVars, map, fileVars, history, fault>>

\* A changed pointer has its file_size read again first: every file of the
\* handle has the same size, so that read is folded into the fetch_add.
FetchAdd(w) == /\ pc[w] = "reserve" /\ Addressable(w)
               /\ LET f == map[ptr[w]]
                  IN /\ used' = [used EXCEPT ![f] = AddU32(@, len[w])]
                     /\ off' = [off EXCEPT ![w] = used[f]]
               /\ UNCHANGED <<callVars, ptrVars, ret, handleVars, map, data, mask, acked, fault>>

\* bug: only the start of the reservation is compared.
FitsStart(w) == used[map[ptr[w]]] <= MaxData
\* my_new_offset <= max_data_size
Fits(w) == AddU32(used[map[ptr[w]]], len[w]) <= MaxData

Reserve(w) ==
    /\ FetchAdd(w) /\ Fits(w)
    /\ Goto(w, "copy")
    /\ log' = Append(log, [file |-> map[ptr[w]], off |-> used[map[ptr[w]]],
                           len |-> len[w], msg |-> Msg(w)])

\* bug: the counter is rolled back (atomic_fetch_sub).
OverflowRolledBack(w) ==
    /\ pc[w] = "reserve" /\ Addressable(w) /\ ~Fits(w)
    /\ off' = [off EXCEPT ![w] = used[map[ptr[w]]]]
    /\ Goto(w, IF used[map[ptr[w]]] < MaxData THEN "pad" ELSE "lock")
    /\ UNCHANGED <<callVars, ptrVars, ret, handleVars, map, fileVars, history, fault>>

\* The counter is not rolled back.
Overflow(w) ==
    /\ FetchAdd(w) /\ ~Fits(w)
    /\ Goto(w, IF used[map[ptr[w]]] < MaxData THEN "pad" ELSE "lock")
    /\ UNCHANGED log

(***************************************************************************)
(* The reservation fits: the message is copied, then encrypted in place.   *)
(***************************************************************************)
Copy(w) ==
    /\ pc[w] = "copy" /\ Addressable(w)
    /\ data' = Paint(data, map[ptr[w]], off[w], len[w], Msg(w))
    /\ mask' = Paint(mask, map[ptr[w]], off[w], len[w], 0)
    /\ IF Encrypted THEN Goto(w, "encrypt") /\ UNCHANGED <<ret, acked>>
                    ELSE Return(w, "SUCCESS")
    /\ UNCHANGED <<callVars, ptrVars, off, handleVars, map, used, log, fault>>

\* bug: nobody looks at what lz_crypto_process returned.
EncryptUnchecked(w) ==
    /\ pc[w] = "encrypt" /\ Addressable(w)
    /\ \/ mask' = ApplyKeyStream(map[ptr[w]], off[w], len[w])
       \/ UNCHANGED mask
    /\ Return(w, "SUCCESS")
    /\ UNCHANGED <<callVars, ptrVars, off, handleVars, map, used, data, log, fault>>

Encrypt(w) ==
    /\ pc[w] = "encrypt" /\ Addressable(w)
    /\ \/ /\ mask' = ApplyKeyStream(map[ptr[w]], off[w], len[w])
          /\ Return(w, "SUCCESS")
       \/ /\ UNCHANGED mask                    \* lz_crypto_process failed
          /\ Return(w, "DIR_ACCESS")
    /\ UNCHANGED <<callVars, ptrVars, off, handleVars, map, used, data, log, fault>>

(***************************************************************************)
(* It does not fit: the writer that crossed the end zeroes the tail; all   *)
(* that overflowed then queue for the mutex and look again.                *)
(***************************************************************************)
Pad(w) == /\ pc[w] = "pad" /\ Addressable(w)
          /\ data' = Paint(data, map[ptr[w]], off[w], MaxData - off[w], Zero)
          /\ mask' = Paint(mask, map[ptr[w]], off[w], MaxData - off[w], 0)
          /\ Goto(w, IF Encrypted THEN "padenc" ELSE "lock")
          /\ UNCHANGED <<callVars, ptrVars, off, ret, handleVars, map, used, history, fault>>

PadEncrypt(w) ==
    /\ pc[w] = "padenc" /\ Addressable(w)
    /\ \/ mask' = ApplyKeyStream(map[ptr[w]], off[w], MaxData - off[w])
       \/ UNCHANGED mask                       \* its failure is ignored
    /\ Goto(w, "lock")
    /\ UNCHANGED <<callVars, ptrVars, off, ret, handleVars, map, used, data, history, fault>>

\* bug: the mutex is not waited for.
LockAtOnce(w) == /\ pc[w] = "lock"
                 /\ lock' = w
                 /\ Goto(w, "recheck")
                 /\ UNCHANGED <<callVars, ptrVars, off, ret, cur, old, new, gen, map,
                                fileVars, history, fault>>

Lock(w) == /\ pc[w] = "lock" /\ lock = NoWriter
           /\ lock' = w
           /\ Goto(w, "recheck")
           /\ UNCHANGED <<callVars, ptrVars, off, ret, cur, old, new, gen, map,
                          fileVars, history, fault>>

\* bug: no second look under the mutex.
NoRecheck(w) == FALSE
\* bug: the second look forgets the pointer.
RecheckOffsetOnly(w) == AddU32(used[map[cur]], len[w]) <= MaxData
\* offset_ptr != cached_offset_ptr || current_offset + len <= max_data_size
SwitchedMeanwhile(w) == \/ cur # ptr[w]
                        \/ AddU32(used[map[cur]], len[w]) <= MaxData

\* bug: continue without unlocking.
RetryLocked(w) == /\ pc[w] = "recheck" /\ SwitchedMeanwhile(w)
                  /\ Goto(w, "load")
                  /\ UNCHANGED <<callVars, ptrVars, off, ret, handleVars, map,
                                 fileVars, history, fault>>
Retry(w) == /\ pc[w] = "recheck" /\ SwitchedMeanwhile(w)
            /\ lock' = NoWriter
            /\ Goto(w, "load")
            /\ UNCHANGED <<callVars, ptrVars, off, ret, cur, old, new, gen, map,
                           fileVars, history, fault>>

StartSwitch(w) ==
    /\ pc[w] = "recheck" /\ ~SwitchedMeanwhile(w)
    /\ Goto(w, "map")
    /\ UNCHANGED <<callVars, ptrVars, off, ret, handleVars, map, fileVars, history, fault>>

(***************************************************************************)
(* switch_to_new_file, under the mutex.                                    *)
(***************************************************************************)
\* The next file is created and mapped at an address nothing else occupies.
MapNewFile(w) ==
    /\ pc[w] = "map" /\ gen < MaxFiles
    /\ \E a \in Addrs : /\ map[a] = NoFile
                        /\ map' = [map EXCEPT ![a] = gen + 1]
                        /\ new' = a
    /\ Goto(w, "zero")
    /\ UNCHANGED <<callVars, ptrVars, off, ret, cur, old, lock, gen, fileVars, history, fault>>

\* bug: ret is overwritten on the way out.
SwitchFailsSilently(w) ==
    /\ pc[w] = "map"
    /\ lock' = NoWriter
    /\ Return(w, "SUCCESS")
    /\ UNCHANGED <<callVars, ptrVars, off, cur, old, new, gen, map, fileVars, log, fault>>

\* The file cannot be created or mapped: the call is answered FILE_SWITCH.
SwitchFails(w) ==
    /\ pc[w] = "map"
    /\ lock' = NoWriter
    /\ Return(w, "FILE_SWITCH")
    /\ UNCHANGED <<callVars, ptrVars, off, cur, old, new, gen, map, fileVars, log, fault>>

\* atomic_store(new_offset_ptr, 0)
ZeroOffset(w) ==
    /\ pc[w] = "zero"
    /\ used' = [used EXCEPT ![map[new]] = 0]
    /\ Goto(w, "publish")
    /\ UNCHANGED <<callVars, ptrVars, off, ret, handleVars, map, data, mask, history, fault>>

\* atomic_store(&ctx->cur_offset_ptr, new_offset_ptr)
Publish(w) ==
    /\ pc[w] = "publish"
    /\ cur' = new
    /\ gen' = gen + 1
    /\ Goto(w, "retire")
    /\ UNCHANGED <<callVars, ptrVars, off, ret, old, lock, new, map, fileVars, history, fault>>

\* bug: the replaced mapping is unmapped at once.
RetireAtOnce(w) ==
    /\ pc[w] = "retire"
    /\ map' = [map EXCEPT ![ptr[w]] = NoFile]
    /\ old' = ptr[w] /\ new' = NoAddr
    /\ lock' = NoWriter
    /\ Goto(w, "load")
    /\ UNCHANGED <<callVars, ptrVars, off, ret, cur, gen, fileVars, history, fault>>

\* add_old_offset_ptr, then unlock.  The replaced pointer is the one that
\* recheck found equal to ptr[w].
Retire(w) ==
    /\ pc[w] = "retire"
    /\ map' = [a \in Addrs |-> IF a = old THEN NoFile ELSE map[a]]
    /\ old' = ptr[w] /\ new' = NoAddr
    /\ lock' = NoWriter
    /\ Goto(w, "load")
    /\ UNCHANGED <<callVars, ptrVars, off, ret, cur, gen, fileVars, history, fault>>

(***************************************************************************)
(* An access through a pointer that no longer leads anywhere kills the     *)
(* process.  (One whose address was given to a later file succeeds, on     *)
(* that file.)                                                             *)
(***************************************************************************)
Segv(w) == /\ pc[w] \in Holding /\ ~Addressable(w)
           /\ fault' = TRUE
           /\ UNCHANGED <<pc, callVars, ptrVars, off, ret, handleVars, map, fileVars, history>>

Proceed(w) == \/ CheckSize(w) \/ Load(w) \/ Reserve(w) \/ Overflow(w)
              \/ Copy(w) \/ Encrypt(w) \/ Pad(w) \/ PadEncrypt(w)
              \/ Lock(w) \/ Retry(w) \/ StartSwitch(w)
              \/ MapNewFile(w) \/ SwitchFails(w) \/ ZeroOffset(w)
              \/ Publish(w) \/ Retire(w) \/ Segv(w)

Step(w) == ~fault /\ (Refuse(w) \/ Call(w) \/ Proceed(w))

\* Every writer has made its calls, or there is no process left.
Finished == /\ fault \/ \A w \in Writers : pc[w] = "idle" /\ calls[w] = MaxCalls
            /\ UNCHANGED vars

Next == Finished \/ \E w \in Writers : Step(w)

Spec == Init /\ [][Next]_vars
-----------------------------------------------------------------------------
(***************************************************************************)
(* The behaviours in which the delayed munmap is given the time it counts  *)
(* on, and no file's counter goes round.                                   *)
(***************************************************************************)
\* Nobody goes through a pointer that was replaced twice since it was loaded.
Timely == \A w \in Writers : pc[w] \in Holding => gen - tgt[w] <= 1

NoCounterWraps == \A f \in 1..gen : used[f] <= used'[f]

CalmStep(w) == Step(w) /\ Timely' /\ NoCounterWraps
CalmNext == Finished \/ \E w \in Writers : CalmStep(w)
CalmSpec == Init /\ [][CalmNext]_vars

\* switch_mutex is granted to a writer whose file was current longest ago.
OldestFirst == lock' \in Writers /\ lock' # lock =>
                  \A v \in Writers : pc[v] = "lock" => tgt[lock'] <= tgt[v]

\* A thread inside lz_logger_write keeps running; nothing obliges a caller to
\* write again.
OrderlyStep(w) == CalmStep(w) /\ OldestFirst
OrderlySpec == /\ Init /\ [][Finished \/ \E w \in Writers : OrderlyStep(w)]_vars
               /\ \A w \in Writers : WF_vars(OrderlyStep(w) /\ Proceed(w))
-----------------------------------------------------------------------------
Labels == {"idle", "load", "lock"} \cup Holding \cup Critical
\* HANDLE_CLOSED is answered only once close has run (LzHandle).
Answers == {"SUCCESS", "INVALID_PARAM", "FILE_SIZE_EXCEED", "FILE_SWITCH", "DIR_ACCESS",
            "HANDLE_CLOSED"}
Word == 0..(U32 - 1)
Reservation == [file : 0..MaxFiles, off : Word, len : Word, msg : Msgs]

CallTypes == /\ pc \in [Writers -> Labels]
             /\ calls \in [Writers -> 0..MaxCalls]
             /\ len \in [Writers -> Word]
             /\ ptr \in [Writers -> Addrs \cup {NoAddr}]
             /\ tgt \in [Writers -> 0..MaxFiles]
             /\ off \in [Writers -> Word]
             /\ ret \in [Writers -> Answers]
HandleTypes == /\ cur \in Addrs
               /\ old \in Addrs \cup {NoAddr}
               /\ new \in Addrs \cup {NoAddr}
               /\ lock \in Writers \cup {NoWriter}
               /\ gen \in Files
FileTypes == /\ map \in [Addrs -> 0..MaxFiles]
             /\ used \in [Files -> Word]
             /\ data \in [Files -> [Pos -> Msgs \cup {Zero}]]
             /\ mask \in [Files -> [Pos -> {0, 1}]]
HistoryTypes == /\ log \in Seq(Reservation)
                /\ acked \subseteq Msgs
                /\ fault \in BOOLEAN
\* Types of the variables.
TypeOK == CallTypes /\ HandleTypes /\ FileTypes /\ HistoryTypes

\* However late a writer is, a pointer that was replaced at most once since it
\* was loaded still leads to the file it was loaded for.
MappedIfRecent ==
    \A w \in Writers : pc[w] \in Holding /\ gen - tgt[w] <= 1 => map[ptr[w]] = tgt[w]

\* One writer at a time switches files, whatever the others do meanwhile.
OneSwitcher == \A w \in Writers : pc[w] \in Critical <=> lock = w

\* With the delayed munmap in time, no access is to unmapped memory.
NoFault == ~fault

Ends(r) == r.off + r.len

\* Two reservations in one file never share a byte, and none leaves the data area.
Disjoint ==
    /\ \A i \in DOMAIN log : Ends(log[i]) <= MaxData
    /\ \A i, j \in DOMAIN log :
          i < j /\ log[i].file = log[j].file => Ends(log[i]) <= log[j].off

\* Every byte of a message that was answered SUCCESS is where the log says, in
\* cipher text exactly when the handle encrypts.
Intact ==
    \A i \in DOMAIN log : log[i].msg \in acked =>
        \A p \in log[i].off..(Ends(log[i]) - 1) :
            /\ data[log[i].file][p] = log[i].msg
            /\ mask[log[i].file][p] = IF Encrypted THEN 1 ELSE 0

\* What is reserved follows what was reserved before: directly behind it in
\* its file, or at the start of the file published next.
Gapless ==
    \A i \in DOMAIN log :
        LET r == log[i]
        IN IF i = 1 THEN r.off = 0
           ELSE LET q == log[i - 1]
                IN \/ r.file = q.file /\ r.off = Ends(q)
                   \/ r.file = q.file + 1 /\ r.off = 0

\* A file is replaced only after a reservation has crossed its end, so it
\* takes no further message.
Sealed == \A f \in 1..(gen - 1) : used[f] > MaxData

\* A writer replaces only the file that it saw overflow.
SwitchesItsOwnFile == \A w \in Writers : pc[w] \in {"map", "zero", "publish"} => tgt[w] = gen

\* Every call is answered.
CallsReturn == \A w \in Writers : pc[w] # "idle" ~> pc[w] = "idle"

(***************************************************************************)
(* Refinement: LzLogger implements LzLog.                                  *)
(***************************************************************************)
Abs == INSTANCE LzLog WITH
         stored <- [i \in DOMAIN log |-> log[i].msg],
         status <- [w \in Writers |->
                      IF pc[w] = "idle" THEN "idle"
                      ELSE IF pc[w] \in {"copy", "encrypt"} THEN "stored" ELSE "pending"]

\* Every call goes through LzLog's states: SUCCESS is answered only for a
\* message that took one place in the log during the call.
ImplementsLzLog == Abs!ASpec
=============================================================================
