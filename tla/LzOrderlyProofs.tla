--------------------------- MODULE LzOrderlyProofs ---------------------------
(***************************************************************************)
(* Theorems about LzLogger when switch_mutex is granted to the writer      *)
(* whose file was current longest ago (OrderlySpec): a file is replaced    *)
(* only when it is full, and the log has no gaps.                          *)
(***************************************************************************)
EXTENDS LzLoggerProofs

\* A pointer that a writer keeps during a call leads to its file until that
\* was replaced twice, also while the writer waits for the mutex.
RecentMapped ==
    \A w \in Writers : pc[w] # "idle" /\ gen - tgt[w] <= 1 => map[ptr[w]] = tgt[w]

\* An address is not given to the current file as long as a pointer to one of
\* the two files before it is compared with the current pointer.
NotRecycled ==
    \A w \in Writers : pc[w] # "idle" /\ gen - tgt[w] <= 2 /\ ptr[w] = cur => tgt[w] = gen

\* Whoever waits for the mutex is overtaken by two switches at most, and by
\* none that started after it came.
QueueRecent ==
    /\ \A w \in Writers : pc[w] \in {"lock", "recheck"} => gen - tgt[w] <= 2
    /\ \A w, v \in Writers : pc[w] = "recheck" /\ pc[v] = "lock" =>
          tgt[w] <= tgt[v] \/ gen - tgt[v] <= 1
    /\ \A w, v \in Writers : pc[w] \in {"map", "zero", "publish"} /\ pc[v] = "lock" =>
          gen - tgt[v] <= 1

\* From its overflow to the end of the switch, a writer's file takes no message.
Overflowed ==
    \A w \in Writers : pc[w] \in {"pad", "padenc", "lock", "recheck", "map", "zero", "publish"} =>
        used[tgt[w]] > MaxData

\* A message that could never fit is refused first.
LengthChecked == \A w \in Writers : pc[w] \notin {"idle", "size"} => len[w] <= MaxData

\* The file about to be published is empty.
NextIsEmpty == \A w \in Writers : pc[w] = "publish" => used[gen + 1] = 0

\* The current file is empty or ends with the last reservation.
LogEndsHere ==
    IF used[gen] = 0
    THEN IF log = <<>> THEN gen = 1 ELSE log[Len(log)].file = gen - 1
    ELSE /\ log # <<>> /\ log[Len(log)].file = gen
         /\ used[gen] <= MaxData => Ends(log[Len(log)]) = used[gen]

\* The inductive invariant of OrderlySpec.
OrderlyInv == /\ CalmInv /\ RecentMapped /\ NotRecycled /\ QueueRecent /\ SwitchesItsOwnFile
              /\ Overflowed /\ LengthChecked /\ NextIsEmpty /\ Sealed /\ LogEndsHere /\ Gapless

USE DEF callVars, ptrVars, handleVars, fileVars, history

-----------------------------------------------------------------------------
(***************************************************************************)
(* What a step does, as far as the order of files goes.                    *)
(***************************************************************************)
\* A writer loads the pointer and the number of its file together.
LEMMA PointerMoves ==
    ASSUME HandleInv, NEW w \in Writers, Step(w)
    PROVE  /\ \A v \in Writers : v # w => ptr'[v] = ptr[v] /\ tgt'[v] = tgt[v] /\ pc'[v] = pc[v]
           /\ \/ /\ ptr'[w] = cur /\ tgt'[w] = gen /\ UNCHANGED <<cur, gen, map>>
                 /\ pc'[w] \in {"size", "reserve"}
              \/ /\ ptr'[w] = ptr[w] /\ tgt'[w] = tgt[w]
                 /\ pc[w] = "idle" => pc'[w] = "idle"
  <1>1. /\ pc \in [Writers -> Labels] /\ ptr \in [Writers -> Addrs \cup {NoAddr}]
        /\ tgt \in [Writers -> 0..MaxFiles]
    BY DEF HandleInv, TypeOK, CallTypes
  <1> USE DEF Goto, Return, LoadPtr
  <1>2. CASE Refuse(w) \/ Call(w) \/ Load(w)
    BY <1>1, <1>2 DEF Refuse, Call, BeginCall, Load
  <1>3. CASE CheckSize(w) \/ Reserve(w) \/ Overflow(w)
    BY <1>1, <1>3 DEF CheckSize, Reserve, Overflow, FetchAdd
  <1>4. CASE Copy(w) \/ Encrypt(w) \/ Pad(w) \/ PadEncrypt(w) \/ Lock(w) \/ Retry(w)
    BY <1>1, <1>4 DEF Copy, Encrypt, Pad, PadEncrypt, Lock, Retry
  <1>5. CASE \/ StartSwitch(w) \/ MapNewFile(w) \/ SwitchFails(w) \/ ZeroOffset(w)
             \/ Publish(w) \/ Retire(w) \/ Segv(w)
    BY <1>1, <1>5 DEF StartSwitch, MapNewFile, SwitchFails, ZeroOffset, Publish, Retire, Segv
  <1> QED
    BY <1>2, <1>3, <1>4, <1>5 DEF Step, Proceed

\* The steps that lead a writer to the mutex and through a switch.
LEMMA SwitchMoves ==
    ASSUME HandleInv, NEW w \in Writers, Step(w)
    PROVE  /\ pc'[w] \in {"pad", "padenc", "lock"} =>
                 Overflow(w) \/ (pc[w] \in {"pad", "padenc"} /\ tgt' = tgt)
           /\ pc'[w] = "recheck" => Lock(w)
           /\ pc'[w] = "map" => StartSwitch(w)
           /\ pc'[w] \in {"zero", "publish"} => pc[w] \in {"map", "zero"} /\ tgt' = tgt
           /\ pc'[w] = "publish" => ZeroOffset(w)
           /\ pc'[w] = "lock" => pc[w] \in Holding /\ tgt' = tgt
           /\ Publish(w) \/ UNCHANGED <<cur, gen>>
  <1>1. pc \in [Writers -> Labels]
    BY DEF HandleInv, TypeOK, CallTypes
  <1> USE DEF Goto, Return
  <1>2. CASE Refuse(w) \/ Call(w) \/ Load(w) \/ CheckSize(w) \/ Reserve(w)
    BY <1>1, <1>2 DEF Refuse, Call, BeginCall, Load, CheckSize, Reserve, FetchAdd
  <1>3. CASE Overflow(w)
    BY <1>1, <1>3 DEF Overflow, FetchAdd, Holding
  <1>4. CASE Copy(w) \/ Encrypt(w) \/ Pad(w) \/ PadEncrypt(w)
    BY <1>1, <1>4 DEF Copy, Encrypt, Pad, PadEncrypt, Holding
  <1>5. CASE Lock(w) \/ Retry(w) \/ StartSwitch(w) \/ MapNewFile(w) \/ SwitchFails(w)
    BY <1>1, <1>5 DEF Lock, Retry, StartSwitch, MapNewFile, SwitchFails
  <1>6. CASE ZeroOffset(w) \/ Publish(w) \/ Retire(w)
    BY <1>1, <1>6 DEF ZeroOffset, Publish, Retire
  <1>7. CASE Segv(w)
    BY <1>1, <1>7 DEF Segv, Holding
  <1> QED
    BY <1>2, <1>3, <1>4, <1>5, <1>6, <1>7 DEF Step, Proceed

\* What the counters do.
LEMMA CounterMoves ==
    ASSUME NEW w \in Writers, Step(w)
    PROVE  Reserve(w) \/ Overflow(w) \/ ZeroOffset(w) \/ used' = used
  <1>1. CASE Refuse(w) \/ Call(w) \/ Load(w) \/ CheckSize(w)
    BY <1>1 DEF Refuse, Call, BeginCall, Load, CheckSize
  <1>2. CASE Copy(w) \/ Encrypt(w) \/ Pad(w) \/ PadEncrypt(w) \/ Lock(w) \/ Retry(w)
    BY <1>2 DEF Copy, Encrypt, Pad, PadEncrypt, Lock, Retry
  <1>3. CASE StartSwitch(w) \/ MapNewFile(w) \/ SwitchFails(w) \/ Publish(w) \/ Retire(w) \/ Segv(w)
    BY <1>3 DEF StartSwitch, MapNewFile, SwitchFails, Publish, Retire, Segv
  <1> QED
    BY <1>1, <1>2, <1>3 DEF Step, Proceed

\* Types of what the order of files is about.
LEMMA OrderFacts ==
    ASSUME HandleInv
    PROVE  /\ gen \in 1..MaxFiles /\ MaxFiles \in Nat /\ gen \in Int
           /\ pc \in [Writers -> Labels]
           /\ \A v \in Writers : tgt[v] \in Int
           /\ \A v \in Writers : pc[v] # "idle" => ptr[v] \in Addrs /\ tgt[v] \in 1..gen
           /\ used \in [Files -> Word] /\ \A f \in Files : used[f] \in Nat
           /\ \A f \in 1..gen : f \in Files
           /\ \A w, v \in Writers : pc[w] \in Critical /\ pc[v] \in Critical => w = v
           /\ NoWriter \notin Writers /\ MaxData \in Nat \ {0}
  <1>1. gen \in 1..MaxFiles /\ MaxFiles \in Nat
    BY BoundsAssumption DEF HandleInv, TypeOK, HandleTypes, Files
  <1>2. /\ pc \in [Writers -> Labels] /\ tgt \in [Writers -> 0..MaxFiles]
        /\ \A v \in Writers : pc[v] # "idle" => ptr[v] \in Addrs /\ tgt[v] \in 1..gen
    BY DEF HandleInv, TypeOK, CallTypes, InCall
  <1>3. used \in [Files -> Word] /\ \A f \in Files : used[f] \in Word
    BY DEF HandleInv, TypeOK, FileTypes
  <1>4. \A n \in Word : n \in Nat
    BY SizesAssumption DEF Word
  <1>5. \A f \in 1..gen : f \in Files
    BY <1>1 DEF Files
  <1>6. \A w, v \in Writers : pc[w] \in Critical /\ pc[v] \in Critical => w = v
    BY DEF HandleInv, OneSwitcher
  <1>7. \A v \in Writers : tgt[v] \in Int
    <2>1. \A v \in Writers : tgt[v] \in 0..MaxFiles
      BY <1>2
    <2>2. \A n \in 0..MaxFiles : n \in Int
      OBVIOUS
    <2> QED
      BY <2>1, <2>2
  <1> QED
    BY <1>1, <1>2, <1>3, <1>4, <1>5, <1>6, <1>7, NamesAssumption, SizesAssumption

-----------------------------------------------------------------------------
(***************************************************************************)
(* Addresses and the queue for the mutex.                                  *)
(***************************************************************************)
LEMMA RecentMappedStep ==
    ASSUME HandleInv, RecentMapped, NEW w \in Writers, Step(w)
    PROVE  RecentMapped'
  <1> SUFFICES ASSUME NEW v \in Writers, pc'[v] # "idle", gen' - tgt'[v] <= 1
               PROVE  map'[ptr'[v]] = tgt'[v]
    BY DEF RecentMapped
  <1>1. CASE v = w /\ ptr'[w] = cur /\ tgt'[w] = gen /\ UNCHANGED <<cur, gen, map>>
    BY <1>1 DEF HandleInv, Mappings
  <1>2. CASE pc[v] # "idle" /\ ptr'[v] = ptr[v] /\ tgt'[v] = tgt[v]
    <2>1. /\ ptr[v] \in Addrs /\ tgt[v] \in 1..gen
          /\ gen - tgt[v] <= 1 => map[ptr[v]] = tgt[v]
      BY <1>2, OrderFacts DEF RecentMapped
    <2> QED
      BY <1>2, <2>1, WriterKeepsMapping
  <1> QED
    BY <1>1, <1>2, PointerMoves

\* A file is mapped where no file that a writer may still compare is.
LEMMA NotRecycledStep ==
    ASSUME HandleInv, RecentMapped, NotRecycled, NEW w \in Writers, Step(w)
    PROVE  NotRecycled'
  <1> SUFFICES ASSUME NEW v \in Writers, pc'[v] # "idle", gen' - tgt'[v] <= 2, ptr'[v] = cur'
               PROVE  tgt'[v] = gen'
    BY DEF NotRecycled
  <1>1. CASE v = w /\ tgt'[w] = gen /\ UNCHANGED <<cur, gen, map>>
    BY <1>1
  <1>2. CASE pc[v] # "idle" /\ ptr'[v] = ptr[v] /\ tgt'[v] = tgt[v]
    <2>1. CASE Publish(w)
      <3>1. gen' = gen + 1 /\ cur' = new /\ map[new] = gen + 1
        BY <2>1 DEF Publish, HandleInv, Mappings
      <3>2. tgt[v] \in 1..gen /\ gen \in Int
        BY <1>2, OrderFacts
      <3>3. map[ptr[v]] = tgt[v]
        BY <1>2, <3>1, <3>2 DEF RecentMapped
      <3> QED
        BY <1>2, <3>1, <3>2, <3>3
    <2>2. CASE UNCHANGED <<cur, gen>>
      BY <1>2, <2>2 DEF NotRecycled
    <2> QED
      BY <2>1, <2>2, SwitchMoves
  <1> QED
    BY <1>1, <1>2, PointerMoves

\* A writer that starts a switch found its own file current.
LEMMA OwnFileStep ==
    ASSUME HandleInv, NotRecycled, QueueRecent, SwitchesItsOwnFile, NEW w \in Writers, Step(w)
    PROVE  SwitchesItsOwnFile'
  <1> SUFFICES ASSUME NEW v \in Writers, pc'[v] \in {"map", "zero", "publish"}
               PROVE  tgt'[v] = gen'
    BY DEF SwitchesItsOwnFile
  <1>1. CASE v = w
    <2>1. tgt'[w] = tgt[w] /\ gen' = gen
      <3>1. ~Publish(w)
        BY <1>1, OrderFacts DEF Publish, Goto
      <3> QED
        BY <1>1, <3>1, SwitchMoves DEF StartSwitch
    <2>2. CASE StartSwitch(w)
      <3>1. pc[w] = "recheck" /\ ptr[w] = cur
        BY <2>2 DEF StartSwitch, SwitchedMeanwhile
      <3>2. gen - tgt[w] <= 2
        BY <3>1 DEF QueueRecent
      <3> QED
        BY <1>1, <2>1, <3>1, <3>2 DEF NotRecycled
    <2>3. CASE pc[w] \in {"map", "zero"}
      BY <1>1, <2>1, <2>3 DEF SwitchesItsOwnFile
    <2> QED
      BY <1>1, <2>2, <2>3, SwitchMoves
  <1>2. CASE v # w
    <2>1. pc[v] \in {"map", "zero", "publish"} /\ tgt'[v] = tgt[v]
      BY <1>2, PointerMoves
    <2>2. ~Publish(w)
      BY <1>2, <2>1, OrderFacts DEF Publish, Critical
    <2> QED
      BY <2>1, <2>2, SwitchMoves DEF SwitchesItsOwnFile
  <1> QED
    BY <1>1, <1>2

\* The order of the queue keeps anyone from being overtaken a third time.
LEMMA QueueRecentStep ==
    ASSUME HandleInv, Timely, NotRecycled, QueueRecent, SwitchesItsOwnFile,
           NEW w \in Writers, Step(w), OldestFirst
    PROVE  QueueRecent'
  <1>1. /\ \A v \in Writers : tgt[v] \in Int
        /\ gen \in Int /\ NoWriter \notin Writers /\ pc \in [Writers -> Labels]
    BY OrderFacts
  <1>2. \A v \in Writers : v # w => pc'[v] = pc[v] /\ tgt'[v] = tgt[v]
    BY PointerMoves
  <1>3. CASE Publish(w)
    <2>1. gen' = gen + 1 /\ tgt' = tgt /\ pc' = [pc EXCEPT ![w] = "retire"] /\ pc[w] = "publish"
      BY <1>3 DEF Publish, Goto
    <2>2. \A v \in Writers : v # w => pc[v] \notin {"recheck", "map", "zero", "publish"}
      BY <2>1, OrderFacts DEF Critical
    <2>3. \A v \in Writers : pc'[v] \notin {"recheck", "map", "zero", "publish"}
      BY <1>1, <2>1, <2>2
    <2>4. \A v \in Writers : pc'[v] = "lock" => pc[v] = "lock"
      BY <1>1, <2>1
    <2>5. \A v \in Writers : pc[v] = "lock" => gen - tgt[v] <= 1
      BY <2>1 DEF QueueRecent
    <2>6. \A v \in Writers : pc'[v] = "lock" => gen' - tgt'[v] <= 2
      BY <1>1, <2>1, <2>4, <2>5
    <2> QED
      BY <2>3, <2>6 DEF QueueRecent
  <1>4. CASE ~Publish(w)
    <2>1. gen' = gen
      BY <1>4, SwitchMoves
    <2>2. pc'[w] = "lock" => gen - tgt'[w] <= 1
      BY SwitchMoves DEF Timely
    <2>3. pc'[w] = "recheck" => /\ pc[w] = "lock" /\ tgt'[w] = tgt[w]
                                /\ \A v \in Writers : pc[v] = "lock" => tgt[w] <= tgt[v]
      <3> SUFFICES ASSUME Lock(w)
                   PROVE  /\ pc[w] = "lock" /\ tgt'[w] = tgt[w]
                          /\ \A v \in Writers : pc[v] = "lock" => tgt[w] <= tgt[v]
        BY SwitchMoves
      <3>1. lock = NoWriter /\ lock' = w
        BY DEF Lock
      <3> QED
        BY <1>1, <3>1 DEF Lock, OldestFirst
    <2>4. pc'[w] = "map" => /\ pc[w] = "recheck" /\ tgt[w] = gen
                            /\ \A v \in Writers : pc[v] = "lock" => gen - tgt[v] <= 1
      <3> SUFFICES ASSUME StartSwitch(w)
                   PROVE  /\ pc[w] = "recheck" /\ tgt[w] = gen
                          /\ \A v \in Writers : pc[v] = "lock" => gen - tgt[v] <= 1
        BY SwitchMoves
      <3>1. pc[w] = "recheck" /\ ptr[w] = cur
        BY DEF StartSwitch, SwitchedMeanwhile
      <3>2. tgt[w] = gen
        BY <3>1 DEF QueueRecent, NotRecycled
      <3>3. \A v \in Writers : pc[v] = "lock" => tgt[w] <= tgt[v] \/ gen - tgt[v] <= 1
        BY <3>1 DEF QueueRecent
      <3> QED
        BY <1>1, <3>1, <3>2, <3>3
    <2>5. pc'[w] \in {"zero", "publish"} => pc[w] \in {"map", "zero"}
      BY SwitchMoves
    <2>6. \A v \in Writers : pc'[v] \in {"lock", "recheck"} => gen - tgt'[v] <= 2
      <3>1. \A v \in Writers : v # w /\ pc'[v] \in {"lock", "recheck"} => gen - tgt'[v] <= 2
        BY <1>2 DEF QueueRecent
      <3>2. pc'[w] = "recheck" => gen - tgt'[w] <= 2
        BY <2>3 DEF QueueRecent
      <3>3. pc'[w] = "lock" => gen - tgt'[w] <= 2
        <4>1. pc'[w] = "lock" => tgt'[w] \in Int
          BY <1>1, SwitchMoves
        <4> QED
          BY <1>1, <2>2, <4>1
      <3> QED
        BY <3>1, <3>2, <3>3
    <2>7. ASSUME NEW u \in Writers, NEW v \in Writers, pc'[u] = "recheck", pc'[v] = "lock"
          PROVE  tgt'[u] <= tgt'[v] \/ gen - tgt'[v] <= 1
      <3>1. CASE v = w
        BY <2>2, <2>7, <3>1
      <3>2. CASE v # w /\ u = w
        BY <1>2, <2>3, <2>7, <3>2
      <3>3. CASE v # w /\ u # w
        BY <1>2, <2>7, <3>3 DEF QueueRecent
      <3> QED
        BY <3>1, <3>2, <3>3
    <2>8. ASSUME NEW u \in Writers, NEW v \in Writers, pc'[u] \in {"map", "zero", "publish"},
                 pc'[v] = "lock"
          PROVE  gen - tgt'[v] <= 1
      <3>1. CASE v = w
        BY <2>2, <2>8, <3>1
      <3>2. CASE v # w /\ u = w
        <4>1. pc[v] = "lock" /\ tgt'[v] = tgt[v]
          BY <1>2, <2>8, <3>2
        <4>2. CASE pc'[w] = "map"
          BY <2>4, <4>1, <4>2
        <4>3. CASE pc[w] \in {"map", "zero"}
          BY <4>1, <4>3 DEF QueueRecent
        <4> QED
          BY <2>5, <2>8, <3>2, <4>2, <4>3
      <3>3. CASE v # w /\ u # w
        BY <1>2, <2>8, <3>3 DEF QueueRecent
      <3> QED
        BY <3>1, <3>2, <3>3
    <2> QED
      BY <2>1, <2>6, <2>7, <2>8 DEF QueueRecent
  <1> QED
    BY <1>3, <1>4

-----------------------------------------------------------------------------
(***************************************************************************)
(* Full files.                                                             *)
(***************************************************************************)
\* A file that overflowed stays overflowed.
LEMMA OverflowedStep ==
    ASSUME CalmInv, Overflowed, NEW w \in Writers, CalmStep(w)
    PROVE  Overflowed'
  <1>0. HandleInv /\ Step(w) /\ CalmInv'
    BY CalmInvStep DEF CalmInv, CalmStep, CalmNext
  <1>1. \A f \in 1..gen : used[f] <= used'[f] /\ used[f] \in Int /\ used'[f] \in Int
    <2>1. \A f \in 1..gen : f \in Files /\ used[f] \in Int
      BY <1>0, OrderFacts
    <2>2. used' \in [Files -> Word]
      BY <1>0 DEF CalmInv, HandleInv, TypeOK, FileTypes
    <2>3. \A n \in Word : n \in Int
      BY SizesAssumption DEF Word
    <2>4. \A f \in 1..gen : used'[f] \in Word
      BY <2>1, <2>2
    <2> QED
      BY <2>1, <2>3, <2>4 DEF CalmStep, NoCounterWraps
  <1>2. ASSUME NEW v \in Writers, tgt'[v] = tgt[v],
               pc[v] \in {"pad", "padenc", "lock", "recheck", "map", "zero", "publish"}
        PROVE  used'[tgt'[v]] > MaxData
    <2>1. tgt[v] \in 1..gen /\ used[tgt[v]] > MaxData /\ MaxData \in Int
      BY <1>0, <1>2, OrderFacts DEF Overflowed
    <2> QED
      BY <1>1, <1>2, <2>1
  <1> SUFFICES ASSUME NEW v \in Writers,
                      pc'[v] \in {"pad", "padenc", "lock", "recheck", "map", "zero", "publish"}
               PROVE  used'[tgt'[v]] > MaxData
    BY DEF Overflowed
  <1>3. CASE v # w
    BY <1>0, <1>2, <1>3, PointerMoves
  <1>4. CASE v = w /\ Overflow(w)
    <2>1. FetchAdd(w) /\ tgt' = tgt
      BY <1>4 DEF Overflow, FetchAdd
    <2>2. /\ used' = [used EXCEPT ![tgt[w]] = used[tgt[w]] + len[w]] /\ tgt[w] \in 1..gen
          /\ tgt[w] \in Files /\ used \in [Files -> Word]
          /\ ~(used[tgt[w]] + len[w] <= MaxData)
      BY <1>0, <1>4, <2>1, CalmFetchAdd, OrderFacts DEF Overflow, Fits
    <2>3. used'[tgt[w]] = used[tgt[w]] + len[w]
      BY <2>2
    <2>4. ~(used'[tgt[w]] <= MaxData) /\ used'[tgt[w]] \in Int /\ MaxData \in Int
      BY <1>0, <1>1, <2>2, <2>3, OrderFacts
    <2> QED
      BY <1>4, <2>1, <2>4
  <1>5. CASE v = w /\ ~Overflow(w)
    <2>1. /\ pc[w] \in {"pad", "padenc", "lock", "recheck", "map", "zero", "publish"}
          /\ tgt'[w] = tgt[w]
      BY <1>0, <1>5, SwitchMoves DEF Lock, StartSwitch
    <2> QED
      BY <1>2, <1>5, <2>1
  <1> QED
    BY <1>3, <1>4, <1>5

\* Past the check, a message is no longer than a file.
LEMMA LengthCheckedStep ==
    ASSUME CalmInv, LengthChecked, NEW w \in Writers, CalmStep(w)
    PROVE  LengthChecked'
  <1>1. /\ pc \in [Writers -> Labels] /\ len \in [Writers -> Word]
        /\ \A v \in Writers : len[v] \in Nat
        /\ MaxData \in Nat
    BY CallFacts, SizesAssumption DEF CalmInv, HandleInv, TypeOK, CallTypes
  <1> USE DEF Goto, Return, LengthChecked
  <1>2. CASE Refuse(w) \/ Call(w)
    BY <1>1, <1>2 DEF Refuse, Call, BeginCall
  <1>3. CASE CheckSize(w)
    <2>1. /\ len' = len /\ \A v \in Writers : v # w => pc'[v] = pc[v]
          /\ pc'[w] # "idle" => ~(len[w] > MaxData)
      BY <1>1, <1>3 DEF CheckSize
    <2>2. ~(len[w] > MaxData) => len[w] <= MaxData
      BY <1>1
    <2> QED
      BY <2>1, <2>2
  <1>4. CASE Load(w) \/ Reserve(w) \/ Overflow(w)
    BY <1>1, <1>4 DEF Load, Reserve, Overflow, FetchAdd
  <1>5. CASE Copy(w) \/ Encrypt(w) \/ Pad(w) \/ PadEncrypt(w) \/ Lock(w) \/ Retry(w)
    BY <1>1, <1>5 DEF Copy, Encrypt, Pad, PadEncrypt, Lock, Retry
  <1>6. CASE \/ StartSwitch(w) \/ MapNewFile(w) \/ SwitchFails(w) \/ ZeroOffset(w)
             \/ Publish(w) \/ Retire(w) \/ Segv(w)
    BY <1>1, <1>6 DEF StartSwitch, MapNewFile, SwitchFails, ZeroOffset, Publish, Retire, Segv
  <1> QED
    BY <1>2, <1>3, <1>4, <1>5, <1>6 DEF CalmStep, Step, Proceed

\* Nobody reserves in a file before it is published.
LEMMA NextIsEmptyStep ==
    ASSUME CalmInv, NextIsEmpty, NEW w \in Writers, CalmStep(w)
    PROVE  NextIsEmpty'
  <1>0. HandleInv /\ Step(w)
    BY DEF CalmInv, CalmStep
  <1> SUFFICES ASSUME NEW v \in Writers, pc'[v] = "publish"
               PROVE  used'[gen' + 1] = 0
    BY DEF NextIsEmpty
  <1>1. CASE v = w
    <2>1. ZeroOffset(w)
      BY <1>0, <1>1, SwitchMoves
    <2>2. pc[w] = "zero" /\ gen' = gen /\ used' = [used EXCEPT ![map[new]] = 0]
      BY <2>1 DEF ZeroOffset
    <2>3. map[new] = gen + 1 /\ gen < MaxFiles
      BY <1>0, <2>2 DEF HandleInv, Mappings
    <2>4. gen + 1 \in Files /\ used \in [Files -> Word]
      BY <1>0, <2>3, OrderFacts DEF Files
    <2> QED
      BY <2>2, <2>3, <2>4
  <1>2. CASE v # w
    <2>1. pc[v] = "publish"
      BY <1>0, <1>2, PointerMoves
    <2>2. ~Publish(w) /\ ~ZeroOffset(w)
      BY <1>0, <1>2, <2>1, OrderFacts DEF Publish, ZeroOffset, Critical
    <2>3. gen' = gen
      BY <1>0, <2>2, SwitchMoves
    <2>4. FetchAdd(w) => used'[gen + 1] = used[gen + 1]
      <3> SUFFICES ASSUME FetchAdd(w) PROVE used'[gen + 1] = used[gen + 1]
        OBVIOUS
      <3>1. used' = [used EXCEPT ![tgt[w]] = used[tgt[w]] + len[w]] /\ tgt[w] \in 1..gen
        BY CalmFetchAdd
      <3>2. tgt[w] # gen + 1 /\ used \in [Files -> Word]
        BY <1>0, <3>1, OrderFacts
      <3>3. gen < MaxFiles
        BY <1>0, <2>1 DEF HandleInv, Mappings
      <3>4. gen + 1 \in Files
        BY <1>0, <3>3, OrderFacts DEF Files
      <3> QED
        BY <3>1, <3>2, <3>4
    <2>5. used'[gen + 1] = used[gen + 1]
      BY <1>0, <2>2, <2>4, CounterMoves DEF Reserve, Overflow
    <2> QED
      BY <2>1, <2>3, <2>5 DEF NextIsEmpty
  <1> QED
    BY <1>1, <1>2

\* A file is full when it is replaced, and stays full.
LEMMA SealedStep ==
    ASSUME CalmInv, SwitchesItsOwnFile, Overflowed, Sealed, NEW w \in Writers, CalmStep(w)
    PROVE  Sealed'
  <1>0. HandleInv /\ Step(w) /\ CalmInv'
    BY CalmInvStep DEF CalmInv, CalmStep, CalmNext
  <1>1. gen \in Int /\ MaxData \in Int /\ \A f \in 1..gen : f \in Files /\ used[f] \in Int
    BY <1>0, OrderFacts
  <1>2. \A f \in 1..gen : used[f] <= used'[f] /\ used'[f] \in Int
    <2>1. used' \in [Files -> Word] /\ \A n \in Word : n \in Int
      BY <1>0, SizesAssumption DEF CalmInv, HandleInv, TypeOK, FileTypes, Word
    <2>2. \A f \in 1..gen : used'[f] \in Word
      BY <1>1, <2>1
    <2> QED
      BY <2>1, <2>2 DEF CalmStep, NoCounterWraps
  <1>3. \A f \in 1..(gen - 1) : used'[f] > MaxData
    BY <1>1, <1>2 DEF Sealed
  <1>4. CASE Publish(w)
    <2>1. pc[w] = "publish" /\ gen' = gen + 1 /\ used' = used
      BY <1>4 DEF Publish
    <2>2. used[gen] > MaxData
      BY <2>1 DEF SwitchesItsOwnFile, Overflowed
    <2> QED
      BY <1>1, <1>3, <2>1, <2>2 DEF Sealed
  <1>5. CASE gen' = gen
    BY <1>3, <1>5 DEF Sealed
  <1> QED
    BY <1>0, <1>4, <1>5, SwitchMoves

-----------------------------------------------------------------------------
(***************************************************************************)
(* The log.                                                                *)
(***************************************************************************)
\* A reservation is made in the current file: those before it are full.
LEMMA ReservesInCurrent ==
    ASSUME CalmInv, Sealed, NEW w \in Writers, CalmStep(w), FetchAdd(w),
           used[tgt[w]] <= MaxData
    PROVE  tgt[w] = gen
  <1>1. tgt[w] \in 1..gen /\ gen \in Int /\ MaxData \in Int /\ used[tgt[w]] \in Int
    BY CalmFetchAdd, OrderFacts DEF CalmInv
  <1>2. tgt[w] \notin 1..(gen - 1)
    BY <1>1 DEF Sealed
  <1> QED
    BY <1>1, <1>2

\* Reserve goes on where the log ends.
LEMMA LogEndsStep ==
    ASSUME CalmInv, SwitchesItsOwnFile, Overflowed, LengthChecked, NextIsEmpty, Sealed,
           LogEndsHere, NEW w \in Writers, CalmStep(w)
    PROVE  LogEndsHere'
  <1>0. HandleInv /\ Step(w)
    BY DEF CalmInv, CalmStep
  <1>1. /\ gen \in Int /\ gen \in Files /\ gen \in 1..gen /\ used \in [Files -> Word]
        /\ used[gen] \in Nat /\ MaxData \in Nat /\ MaxData > 0
        /\ len[w] \in Nat /\ DOMAIN log = 1..Len(log) /\ Len(log) \in Nat
        /\ log \in Seq(Reservation)
    BY <1>0, OrderFacts, CallFacts, LogFacts
  <1>2. CASE Reserve(w)
    <2>1. FetchAdd(w)
      BY <1>2 DEF Reserve
    <2>2. /\ used' = [used EXCEPT ![tgt[w]] = used[tgt[w]] + len[w]]
          /\ used[tgt[w]] + len[w] <= MaxData /\ len[w] > 0 /\ tgt[w] \in Files
          /\ used[tgt[w]] \in Nat
      BY <1>0, <1>2, <2>1, CalmFetchAdd, ReserveAppends, OrderFacts
    <2>3. tgt[w] = gen
      <3>1. used[tgt[w]] <= MaxData
        BY <1>1, <2>2
      <3> QED
        BY <2>1, <3>1, ReservesInCurrent
    <2>4. /\ gen' = gen /\ used'[gen] = used[gen] + len[w] /\ used'[gen] # 0
      BY <1>1, <1>2, <2>2, <2>3 DEF Reserve, FetchAdd
    <2>5. /\ DOMAIN log' = 1..(Len(log) + 1)
          /\ log'[Len(log) + 1].file = gen
          /\ Ends(log'[Len(log) + 1]) = used'[gen]
      BY <1>2, <2>3, <2>4, ReserveAppends DEF Ends
    <2>6. Len(log') = Len(log) + 1 /\ log' # <<>>
      BY <1>1, <1>2 DEF Reserve
    <2> QED
      BY <2>4, <2>5, <2>6 DEF LogEndsHere
  <1>3. CASE Overflow(w)
    <2>1. FetchAdd(w) /\ log' = log /\ gen' = gen /\ pc[w] = "reserve"
      BY <1>3 DEF Overflow, FetchAdd
    <2>2. /\ used' = [used EXCEPT ![tgt[w]] = used[tgt[w]] + len[w]] /\ tgt[w] \in Files
          /\ ~(used[tgt[w]] + len[w] <= MaxData)
      BY <1>3, <2>1, CalmFetchAdd DEF Overflow, Fits
    <2>3. CASE tgt[w] # gen
      <3>1. used'[gen] = used[gen]
        BY <1>1, <2>2, <2>3
      <3> QED
        BY <2>1, <3>1 DEF LogEndsHere
    <2>4. CASE tgt[w] = gen
      <3>1. used'[gen] = used[gen] + len[w] /\ len[w] <= MaxData
        BY <1>1, <2>1, <2>2, <2>4 DEF LengthChecked
      <3>2. ~(used'[gen] <= MaxData) /\ used[gen] # 0 /\ used'[gen] # 0
        BY <1>1, <2>2, <2>4, <3>1
      <3> QED
        BY <2>1, <3>2 DEF LogEndsHere
    <2> QED
      BY <2>3, <2>4
  <1>4. CASE ZeroOffset(w)
    <2>1. pc[w] = "zero" /\ gen' = gen /\ log' = log /\ used' = [used EXCEPT ![map[new]] = 0]
      BY <1>4 DEF ZeroOffset
    <2>2. map[new] = gen + 1
      BY <1>0, <2>1 DEF HandleInv, Mappings
    <2>3. used'[gen] = used[gen]
      BY <1>1, <2>1, <2>2
    <2> QED
      BY <2>1, <2>3 DEF LogEndsHere
  <1>5. CASE Publish(w)
    <2>1. pc[w] = "publish" /\ gen' = gen + 1 /\ used' = used /\ log' = log
      BY <1>5 DEF Publish
    <2>2. used[gen] > MaxData
      BY <2>1 DEF SwitchesItsOwnFile, Overflowed
    <2>3. log # <<>> /\ log[Len(log)].file = gen
      BY <1>1, <2>2 DEF LogEndsHere
    <2>4. used'[gen'] = 0
      BY <2>1 DEF NextIsEmpty
    <2>5. gen' - 1 = gen
      BY <1>1, <2>1
    <2> QED
      BY <2>1, <2>3, <2>4, <2>5 DEF LogEndsHere
  <1>6. CASE ~Reserve(w) /\ ~Overflow(w) /\ ~ZeroOffset(w) /\ ~Publish(w)
    <2>1. log' = log /\ used' = used /\ gen' = gen
      BY <1>0, <1>6, LogUnchanged, CounterMoves, SwitchMoves
    <2> QED
      BY <2>1 DEF LogEndsHere
  <1> QED
    BY <1>2, <1>3, <1>4, <1>5, <1>6

\* A reservation starts where the one before it ends, or a new file does.
LEMMA GaplessStep ==
    ASSUME CalmInv, Sealed, LogEndsHere, Gapless, NEW w \in Writers, CalmStep(w)
    PROVE  Gapless'
  <1>0. HandleInv /\ Step(w)
    BY DEF CalmInv, CalmStep
  <1>1. CASE Reserve(w)
    <2> DEFINE n == Len(log)
    <2>1. n \in Nat /\ DOMAIN log = 1..n /\ gen \in Int /\ used[gen] \in Nat /\ MaxData \in Nat
      BY <1>0, OrderFacts, LogFacts
    <2>2. FetchAdd(w) /\ used[tgt[w]] + len[w] <= MaxData
      BY <1>1, ReserveAppends DEF Reserve
    <2>3. used[tgt[w]] \in Nat /\ len[w] \in Nat
      BY <1>0, <2>2, CalmFetchAdd, OrderFacts, CallFacts
    <2>4. tgt[w] = gen
      <3>1. used[tgt[w]] <= MaxData
        BY <2>1, <2>2, <2>3
      <3> QED
        BY <2>2, <3>1, ReservesInCurrent
    <2>5. /\ DOMAIN log' = 1..(n + 1) /\ \A i \in 1..n : log'[i] = log[i]
          /\ log'[n + 1].file = gen /\ log'[n + 1].off = used[gen]
      BY <1>1, <2>1, <2>4, ReserveAppends
    <2>6. used[gen] <= MaxData
      BY <2>1, <2>2, <2>3, <2>4
    <2>7. n = 0 <=> log = <<>>
      <3>1. log \in Seq(Reservation)
        BY LogFacts
      <3> QED
        BY <3>1
    <2> HIDE DEF n
    <2> SUFFICES ASSUME NEW i \in 1..(n + 1)
                 PROVE  IF i = 1 THEN log'[i].off = 0
                        ELSE \/ /\ log'[i].file = log'[i - 1].file
                                /\ log'[i].off = Ends(log'[i - 1])
                             \/ log'[i].file = log'[i - 1].file + 1 /\ log'[i].off = 0
      BY <2>5 DEF Gapless, Ends
    <2>8. CASE i \in 1..n
      <3>1. i # 1 => i - 1 \in 1..n
        BY <2>1, <2>8
      <3> QED
        BY <2>1, <2>5, <2>8, <3>1 DEF Gapless
    <2>9. CASE i = n + 1 /\ n = 0
      <3>1. used[gen] = 0
        BY <2>7, <2>9 DEF LogEndsHere
      <3> QED
        BY <2>5, <2>9, <3>1
    <2>10. CASE i = n + 1 /\ n # 0
      <3>1. i # 1 /\ i - 1 = n /\ log'[n] = log[n] /\ log # <<>>
        BY <2>1, <2>5, <2>7, <2>10
      <3>2. IF used[gen] = 0 THEN log[n].file = gen - 1
                             ELSE log[n].file = gen /\ Ends(log[n]) = used[gen]
        BY <2>6, <3>1 DEF LogEndsHere, n
      <3> QED
        BY <2>1, <2>5, <2>10, <3>1, <3>2
    <2> QED
      BY <2>1, <2>8, <2>9, <2>10
  <1>2. CASE ~Reserve(w)
    BY <1>0, <1>2, LogUnchanged DEF Gapless, Ends
  <1> QED
    BY <1>1, <1>2

-----------------------------------------------------------------------------
(***************************************************************************)
(* The invariant, and what it is for.                                      *)
(***************************************************************************)
OrderlyNext == Finished \/ \E w \in Writers : OrderlyStep(w)

\* It holds of the freshly opened handle.
LEMMA InitOrderlyInv == Init => OrderlyInv
  <1> SUFFICES ASSUME Init PROVE OrderlyInv
    OBVIOUS
  <1>1. CalmInv
    BY InitCalmInv
  <1>2. RecentMapped /\ NotRecycled /\ QueueRecent /\ SwitchesItsOwnFile
    BY DEF Init, RecentMapped, NotRecycled, QueueRecent, SwitchesItsOwnFile
  <1>3. Overflowed /\ LengthChecked /\ NextIsEmpty /\ Sealed
    BY DEF Init, Overflowed, LengthChecked, NextIsEmpty, Sealed
  <1>4. LogEndsHere
    <2>1. 1 \in Files
      BY BoundsAssumption DEF Files
    <2> QED
      BY <2>1 DEF Init, LogEndsHere
  <1>5. Gapless
    BY DEF Init, Gapless
  <1> QED
    BY <1>1, <1>2, <1>3, <1>4, <1>5 DEF OrderlyInv

\* OrderlyInv is inductive: every orderly step keeps it.
LEMMA OrderlyInvStep == OrderlyInv /\ [OrderlyNext]_vars => OrderlyInv'
  <1> SUFFICES ASSUME OrderlyInv, [OrderlyNext]_vars PROVE OrderlyInv'
    OBVIOUS
  <1>1. ASSUME NEW w \in Writers, OrderlyStep(w) PROVE OrderlyInv'
    <2>1. /\ CalmStep(w) /\ Step(w) /\ OldestFirst
          /\ CalmInv /\ HandleInv /\ Timely
      BY <1>1 DEF OrderlyStep, CalmStep, OrderlyInv, CalmInv
    <2>2. CalmInv'
      BY <2>1, CalmInvStep DEF CalmNext
    <2>3. RecentMapped' /\ NotRecycled' /\ QueueRecent' /\ SwitchesItsOwnFile'
      BY <2>1, RecentMappedStep, NotRecycledStep, QueueRecentStep, OwnFileStep DEF OrderlyInv
    <2>4. Overflowed' /\ LengthChecked' /\ NextIsEmpty' /\ Sealed'
      BY <2>1, OverflowedStep, LengthCheckedStep, NextIsEmptyStep, SealedStep DEF OrderlyInv
    <2>5. LogEndsHere' /\ Gapless'
      BY <2>1, LogEndsStep, GaplessStep DEF OrderlyInv
    <2> QED
      BY <2>2, <2>3, <2>4, <2>5 DEF OrderlyInv
  <1>2. CASE UNCHANGED vars
    <2>1. CalmInv'
      BY <1>2, CalmInvStep DEF OrderlyInv
    <2>2. RecentMapped' /\ NotRecycled' /\ QueueRecent' /\ SwitchesItsOwnFile'
      BY <1>2 DEF OrderlyInv, RecentMapped, NotRecycled, QueueRecent, SwitchesItsOwnFile, vars
    <2>3. Overflowed' /\ LengthChecked' /\ NextIsEmpty' /\ Sealed'
      BY <1>2 DEF OrderlyInv, Overflowed, LengthChecked, NextIsEmpty, Sealed, vars
    <2>4. LogEndsHere' /\ Gapless'
      BY <1>2 DEF OrderlyInv, LogEndsHere, Gapless, Ends, vars
    <2> QED
      BY <2>1, <2>2, <2>3, <2>4 DEF OrderlyInv
  <1> QED
    BY <1>1, <1>2 DEF OrderlyNext, Finished

\* OrderlyInv holds in every orderly behaviour; fairness is not needed for it.
LEMMA OrderlyInvariant == OrderlySpec => []OrderlyInv
  <1>1. [Finished \/ \E w \in Writers : OrderlyStep(w)]_vars => [OrderlyNext]_vars
    BY DEF OrderlyNext
  <1> QED
    BY <1>1, InitOrderlyInv, OrderlyInvStep, PTL DEF OrderlySpec

\* A writer replaces only the file that it saw overflow: an address that was
\* given to a later file never passes for it.
THEOREM OwnFileReplaced == OrderlySpec => []SwitchesItsOwnFile
  <1>1. OrderlyInv => SwitchesItsOwnFile
    BY DEF OrderlyInv
  <1> QED
    BY <1>1, OrderlyInvariant, PTL

\* A file that was replaced is full, and takes no message any more.
THEOREM ReplacedFilesFull == OrderlySpec => []Sealed
  <1>1. OrderlyInv => Sealed
    BY DEF OrderlyInv
  <1> QED
    BY <1>1, OrderlyInvariant, PTL

\* The log is one sequence without gaps, within a file and from one to the next.
THEOREM NoGaps == OrderlySpec => []Gapless
  <1>1. OrderlyInv => Gapless
    BY DEF OrderlyInv
  <1> QED
    BY <1>1, OrderlyInvariant, PTL
=============================================================================
