--------------------------- MODULE LzLoggerProofs ---------------------------
(***************************************************************************)
(* Theorems about LzLogger, for any set of writers and addresses and any   *)
(* sizes and bounds.                                                       *)
(***************************************************************************)
EXTENDS LzLogger, TLAPS

\* A writer inside a call has a message and an address it loaded from the handle.
InCall ==
    \A w \in Writers : pc[w] # "idle" =>
        /\ calls[w] \in 1..MaxCalls
        /\ len[w] \in Lens \ {0}
        /\ ptr[w] \in Addrs
        /\ tgt[w] \in 1..gen

\* Where the current, the replaced and the prepared mapping are at each point
\* of a switch.
Mappings ==
    /\ map[cur] = gen
    /\ \A w \in Writers : pc[w] \in {"map", "zero", "publish"} => ptr[w] = cur
    /\ \A w \in Writers : pc[w] \in {"zero", "publish"} =>
          new \in Addrs /\ map[new] = gen + 1 /\ gen < MaxFiles
    /\ \A w \in Writers : pc[w] = "retire" =>
          gen > 1 /\ map[ptr[w]] = gen - 1 /\ (old # NoAddr => gen > 2 /\ map[old] = gen - 2)
    /\ (\A w \in Writers : pc[w] # "retire") => (old # NoAddr => gen > 1 /\ map[old] = gen - 1)

\* The inductive invariant of Spec.
HandleInv == TypeOK /\ InCall /\ OneSwitcher /\ Mappings /\ MappedIfRecent

USE DEF callVars, ptrVars, handleVars, fileVars, history

-----------------------------------------------------------------------------
\* uint32_t addition stays in range.
LEMMA AddU32Type ==
    ASSUME NEW a \in Word, NEW b \in Word
    PROVE  AddU32(a, b) \in Word
  BY SizesAssumption DEF AddU32, Word

\* Writing one value over a span of one file keeps the files well-typed.
LEMMA PaintType ==
    ASSUME NEW S, NEW g \in [Files -> [Pos -> S]], NEW f \in Files,
           NEW lo, NEW n, NEW v \in S
    PROVE  Paint(g, f, lo, n, v) \in [Files -> [Pos -> S]]
  BY DEF Paint

\* So does applying the key stream to it.
LEMMA KeyStreamType ==
    ASSUME mask \in [Files -> [Pos -> {0, 1}]], NEW f \in Files, NEW lo, NEW n
    PROVE  ApplyKeyStream(f, lo, n) \in [Files -> [Pos -> {0, 1}]]
  <1>1. \A p \in Pos : mask[f][p] \in {0, 1}
    OBVIOUS
  <1>2. \A p \in Pos : (IF p \in lo..(lo + n - 1) THEN 1 - mask[f][p] ELSE mask[f][p]) \in {0, 1}
    BY <1>1
  <1> QED
    BY <1>2 DEF ApplyKeyStream

\* The freshly opened handle satisfies the invariant.
LEMMA InitHandleInv == Init => HandleInv
  <1> SUFFICES ASSUME Init PROVE HandleInv
    OBVIOUS
  <1>1. TypeOK
    <2>1. 1 \in Files /\ 0 \in Word /\ 0 \in 0..MaxFiles /\ 0 \in 0..MaxCalls
      BY SizesAssumption, BoundsAssumption DEF Files, Word
    <2>2. CallTypes
      BY <2>1 DEF Init, CallTypes, Labels, Answers
    <2>3. HandleTypes
      BY <2>1 DEF Init, HandleTypes
    <2>4. FileTypes
      BY <2>1, BoundsAssumption DEF Init, FileTypes, NoFile
    <2>5. HistoryTypes
      <3>1. <<>> \in Seq(Reservation)
        OBVIOUS
      <3> QED
        BY <3>1 DEF Init, HistoryTypes
    <2> QED
      BY <2>2, <2>3, <2>4, <2>5 DEF TypeOK
  <1>2. InCall /\ OneSwitcher /\ MappedIfRecent
    BY NamesAssumption DEF Init, InCall, OneSwitcher, MappedIfRecent, Holding, Critical
  <1>3. Mappings
    BY DEF Init, Mappings
  <1> QED
    BY <1>1, <1>2, <1>3 DEF HandleInv

\* Every step leaves the variables in their types.
LEMMA TypeStep ==
    ASSUME HandleInv, NEW w \in Writers, Step(w)
    PROVE  TypeOK'
  <1> USE DEF HandleInv, TypeOK, Goto, Return, LoadPtr
  <1>1. \/ Refuse(w) \/ Call(w) \/ CheckSize(w) \/ Load(w) \/ Reserve(w) \/ Overflow(w)
        \/ Copy(w) \/ Encrypt(w) \/ Pad(w) \/ PadEncrypt(w)
        \/ Lock(w) \/ Retry(w) \/ StartSwitch(w) \/ MapNewFile(w) \/ SwitchFails(w)
        \/ ZeroOffset(w) \/ Publish(w) \/ Retire(w) \/ Segv(w)
    BY DEF Step, Proceed
  <1>2. gen \in 1..MaxFiles /\ 0 \in Word
    BY SizesAssumption DEF HandleTypes, Files, Word
  <1>3. /\ Labels = {"idle", "load", "lock", "size", "reserve", "copy", "encrypt", "pad",
                     "padenc", "recheck", "map", "zero", "publish", "retire"}
        /\ "SUCCESS" \in Answers /\ "INVALID_PARAM" \in Answers
        /\ "FILE_SIZE_EXCEED" \in Answers /\ "FILE_SWITCH" \in Answers /\ "DIR_ACCESS" \in Answers
    BY DEF Labels, Answers, Holding, Critical
  <1>4. pc[w] # "idle" => Msg(w) \in Msgs /\ ptr[w] \in Addrs
    BY DEF InCall, Msg, Msgs
  <1>5. pc[w] # "idle" /\ map[ptr[w]] # NoFile => map[ptr[w]] \in Files
    BY <1>4 DEF FileTypes, Files, NoFile
  <1>6. FetchAdd(w) => /\ off' \in [Writers -> Word] /\ used' \in [Files -> Word]
                       /\ used[map[ptr[w]]] \in Word /\ map[ptr[w]] \in 0..MaxFiles
    <2> SUFFICES ASSUME FetchAdd(w)
                 PROVE  /\ off' \in [Writers -> Word] /\ used' \in [Files -> Word]
                        /\ used[map[ptr[w]]] \in Word /\ map[ptr[w]] \in 0..MaxFiles
      OBVIOUS
    <2>1. map[ptr[w]] \in Files
      BY <1>5 DEF FetchAdd, Addressable
    <2>2. AddU32(used[map[ptr[w]]], len[w]) \in Word
      BY <2>1, AddU32Type DEF CallTypes, FileTypes
    <2> QED
      BY <2>1, <2>2, <1>4 DEF FetchAdd, CallTypes, FileTypes
  <1>7. CallTypes'
    <2> USE DEF CallTypes
    <2>1. CASE Refuse(w)
      BY <2>1, <1>2, <1>3, BoundsAssumption DEF Refuse, BeginCall
    <2>2. CASE Call(w)
      BY <2>2, <1>2, <1>3, SizesAssumption, BoundsAssumption DEF Call, BeginCall, HandleTypes, Word
    <2>3. CASE Load(w)
      BY <2>3, <1>2, <1>3 DEF Load, HandleTypes
    <2>4. CASE Reserve(w) \/ Overflow(w)
      BY <2>4, <1>3, <1>6 DEF Reserve, Overflow, FetchAdd
    <2>5. CASE CheckSize(w) \/ Copy(w) \/ Encrypt(w) \/ Pad(w) \/ PadEncrypt(w)
      BY <2>5, <1>3 DEF CheckSize, Copy, Encrypt, Pad, PadEncrypt
    <2>6. CASE Lock(w) \/ Retry(w) \/ StartSwitch(w) \/ MapNewFile(w) \/ SwitchFails(w)
      BY <2>6, <1>3 DEF Lock, Retry, StartSwitch, MapNewFile, SwitchFails
    <2>7. CASE ZeroOffset(w) \/ Publish(w) \/ Retire(w) \/ Segv(w)
      BY <2>7, <1>3 DEF ZeroOffset, Publish, Retire, Segv
    <2> QED
      BY <1>1, <2>1, <2>2, <2>3, <2>4, <2>5, <2>6, <2>7
  <1>8. HandleTypes'
    <2> USE DEF HandleTypes
    <2>1. CASE Publish(w)
      BY <2>1, <1>2, BoundsAssumption DEF Publish, Mappings, Files
    <2>2. CASE Retire(w)
      BY <2>2, <1>4 DEF Retire
    <2>3. CASE Lock(w) \/ Retry(w) \/ StartSwitch(w) \/ MapNewFile(w) \/ SwitchFails(w)
      BY <2>3 DEF Lock, Retry, StartSwitch, MapNewFile, SwitchFails
    <2>4. CASE Refuse(w) \/ Call(w) \/ CheckSize(w) \/ Load(w) \/ Reserve(w) \/ Overflow(w)
      BY <2>4 DEF Refuse, Call, BeginCall, CheckSize, Load, Reserve, Overflow, FetchAdd
    <2>5. CASE Copy(w) \/ Encrypt(w) \/ Pad(w) \/ PadEncrypt(w) \/ ZeroOffset(w) \/ Segv(w)
      BY <2>5 DEF Copy, Encrypt, Pad, PadEncrypt, ZeroOffset, Segv
    <2> QED
      BY <1>1, <2>1, <2>2, <2>3, <2>4, <2>5
  <1>9. FileTypes'
    <2> USE DEF FileTypes
    <2>1. CASE Reserve(w) \/ Overflow(w)
      BY <2>1, <1>6 DEF Reserve, Overflow, FetchAdd
    <2>2. CASE Copy(w) \/ Pad(w)
      <3>1. map[ptr[w]] \in Files /\ Msg(w) \in Msgs
        BY <2>2, <1>4, <1>5 DEF Copy, Pad, Addressable
      <3>2. \A lo, n : /\ Paint(data, map[ptr[w]], lo, n, Msg(w)) \in [Files -> [Pos -> Msgs \cup {Zero}]]
                       /\ Paint(data, map[ptr[w]], lo, n, Zero) \in [Files -> [Pos -> Msgs \cup {Zero}]]
                       /\ Paint(mask, map[ptr[w]], lo, n, 0) \in [Files -> [Pos -> {0, 1}]]
        BY <3>1, PaintType
      <3> QED
        BY <2>2, <3>2 DEF Copy, Pad
    <2>3. CASE Encrypt(w) \/ PadEncrypt(w)
      <3>1. map[ptr[w]] \in Files
        BY <2>3, <1>5 DEF Encrypt, PadEncrypt, Addressable
      <3>2. \A lo, n : ApplyKeyStream(map[ptr[w]], lo, n) \in [Files -> [Pos -> {0, 1}]]
        BY <3>1, KeyStreamType
      <3> QED
        BY <2>3, <3>2 DEF Encrypt, PadEncrypt
    <2>4. CASE MapNewFile(w)
      BY <2>4, <1>2, BoundsAssumption DEF MapNewFile
    <2>5. CASE ZeroOffset(w)
      BY <2>5, <1>2 DEF ZeroOffset
    <2>6. CASE Retire(w)
      BY <2>6, <1>2, BoundsAssumption DEF Retire, NoFile
    <2>7. CASE Refuse(w) \/ Call(w) \/ CheckSize(w) \/ Load(w)
      BY <2>7 DEF Refuse, Call, BeginCall, CheckSize, Load
    <2>8. CASE Lock(w) \/ Retry(w) \/ StartSwitch(w) \/ SwitchFails(w) \/ Publish(w) \/ Segv(w)
      BY <2>8 DEF Lock, Retry, StartSwitch, SwitchFails, Publish, Segv
    <2> QED
      BY <1>1, <2>1, <2>2, <2>3, <2>4, <2>5, <2>6, <2>7, <2>8
  <1>10. HistoryTypes'
    <2> USE DEF HistoryTypes
    <2>1. CASE Reserve(w)
      <3>1. [file |-> map[ptr[w]], off |-> used[map[ptr[w]]], len |-> len[w], msg |-> Msg(w)]
               \in Reservation
        BY <2>1, <1>4, <1>6 DEF Reserve, FetchAdd, Reservation, CallTypes
      <3> QED
        BY <2>1, <3>1 DEF Reserve, FetchAdd
    <2>2. CASE CheckSize(w) \/ Copy(w) \/ Encrypt(w) \/ SwitchFails(w)
      BY <2>2, <1>4 DEF CheckSize, Copy, Encrypt, SwitchFails
    <2>3. CASE Refuse(w) \/ Call(w) \/ Load(w) \/ Overflow(w) \/ Pad(w) \/ PadEncrypt(w)
      BY <2>3 DEF Refuse, Call, BeginCall, Load, Overflow, FetchAdd, Pad, PadEncrypt
    <2>4. CASE Lock(w) \/ Retry(w) \/ StartSwitch(w) \/ MapNewFile(w)
      BY <2>4 DEF Lock, Retry, StartSwitch, MapNewFile
    <2>5. CASE ZeroOffset(w) \/ Publish(w) \/ Retire(w) \/ Segv(w)
      BY <2>5 DEF ZeroOffset, Publish, Retire, Segv
    <2> QED
      BY <1>1, <2>1, <2>2, <2>3, <2>4, <2>5
  <1> QED
    BY <1>7, <1>8, <1>9, <1>10

\* Every step keeps what is known of a writer inside a call.
LEMMA InCallStep ==
    ASSUME HandleInv, NEW w \in Writers, Step(w)
    PROVE  InCall'
  <1> USE DEF HandleInv, InCall, Goto, Return, LoadPtr
  <1>1. \/ Refuse(w) \/ Call(w) \/ CheckSize(w) \/ Load(w) \/ Reserve(w) \/ Overflow(w)
        \/ Copy(w) \/ Encrypt(w) \/ Pad(w) \/ PadEncrypt(w)
        \/ Lock(w) \/ Retry(w) \/ StartSwitch(w) \/ MapNewFile(w) \/ SwitchFails(w)
        \/ ZeroOffset(w) \/ Publish(w) \/ Retire(w) \/ Segv(w)
    BY DEF Step, Proceed
  <1>2. /\ gen \in 1..MaxFiles /\ MaxFiles \in Nat
        /\ pc \in [Writers -> Labels] /\ ptr \in [Writers -> Addrs \cup {NoAddr}]
        /\ tgt \in [Writers -> 0..MaxFiles]
        /\ calls \in [Writers -> 0..MaxCalls] /\ MaxCalls \in Nat
        /\ len \in [Writers -> Word]
        /\ cur \in Addrs /\ old \in Addrs \cup {NoAddr} /\ lock \in Writers \cup {NoWriter}
        /\ map \in [Addrs -> 0..MaxFiles]
    BY BoundsAssumption DEF TypeOK, CallTypes, HandleTypes, FileTypes, Files
  <1>3. CASE Call(w)
    BY <1>3, <1>2 DEF Call, BeginCall
  <1>4. CASE Refuse(w)
    BY <1>4, <1>2 DEF Refuse, BeginCall
  <1>5. CASE Load(w)
    BY <1>5, <1>2 DEF Load
  <1>6. CASE Publish(w)
    BY <1>6, <1>2 DEF Publish
  <1>7. CASE CheckSize(w) \/ Copy(w) \/ Encrypt(w) \/ SwitchFails(w)
    BY <1>7, <1>2 DEF CheckSize, Copy, Encrypt, SwitchFails
  <1>8. CASE Reserve(w) \/ Overflow(w)
    BY <1>8, <1>2 DEF Reserve, Overflow, FetchAdd
  <1>9. CASE Pad(w) \/ PadEncrypt(w) \/ Lock(w) \/ Retry(w) \/ StartSwitch(w)
    BY <1>9, <1>2 DEF Pad, PadEncrypt, Lock, Retry, StartSwitch
  <1>10. CASE MapNewFile(w) \/ ZeroOffset(w) \/ Retire(w) \/ Segv(w)
    BY <1>10, <1>2 DEF MapNewFile, ZeroOffset, Retire, Segv
  <1> QED
    BY <1>1, <1>3, <1>4, <1>5, <1>6, <1>7, <1>8, <1>9, <1>10

\* Only the owner of switch_mutex is between its acquisition and its release.
LEMMA OneSwitcherStep ==
    ASSUME HandleInv, NEW w \in Writers, Step(w)
    PROVE  OneSwitcher'
  <1> USE NamesAssumption DEF HandleInv, OneSwitcher, Critical, Goto, Return, LoadPtr
  <1>1. \/ Refuse(w) \/ Call(w) \/ CheckSize(w) \/ Load(w) \/ Reserve(w) \/ Overflow(w)
        \/ Copy(w) \/ Encrypt(w) \/ Pad(w) \/ PadEncrypt(w)
        \/ Lock(w) \/ Retry(w) \/ StartSwitch(w) \/ MapNewFile(w) \/ SwitchFails(w)
        \/ ZeroOffset(w) \/ Publish(w) \/ Retire(w) \/ Segv(w)
    BY DEF Step, Proceed
  <1>2. /\ gen \in 1..MaxFiles /\ MaxFiles \in Nat
        /\ pc \in [Writers -> Labels] /\ ptr \in [Writers -> Addrs \cup {NoAddr}]
        /\ tgt \in [Writers -> 0..MaxFiles]
        /\ cur \in Addrs /\ old \in Addrs \cup {NoAddr} /\ lock \in Writers \cup {NoWriter}
        /\ map \in [Addrs -> 0..MaxFiles]
    BY BoundsAssumption DEF TypeOK, CallTypes, HandleTypes, FileTypes, Files
  <1>3. CASE Refuse(w) \/ Call(w)
    BY <1>3, <1>2 DEF Refuse, Call, BeginCall
  <1>4. CASE Load(w) \/ CheckSize(w) \/ Copy(w) \/ Encrypt(w)
    BY <1>4, <1>2 DEF Load, CheckSize, Copy, Encrypt
  <1>5. CASE Reserve(w) \/ Overflow(w)
    BY <1>5, <1>2 DEF Reserve, Overflow, FetchAdd
  <1>6. CASE Pad(w) \/ PadEncrypt(w) \/ Segv(w)
    BY <1>6, <1>2 DEF Pad, PadEncrypt, Segv
  <1>7. CASE Lock(w)
    BY <1>7, <1>2 DEF Lock
  <1>8. CASE Retry(w) \/ SwitchFails(w) \/ Retire(w)
    BY <1>8, <1>2 DEF Retry, SwitchFails, Retire
  <1>9. CASE StartSwitch(w) \/ MapNewFile(w) \/ ZeroOffset(w) \/ Publish(w)
    BY <1>9, <1>2 DEF StartSwitch, MapNewFile, ZeroOffset, Publish
  <1> QED
    BY <1>1, <1>3, <1>4, <1>5, <1>6, <1>7, <1>8, <1>9

\* A switch moves the mappings as described.
LEMMA MappingsStep ==
    ASSUME HandleInv, NEW w \in Writers, Step(w)
    PROVE  Mappings'
  <1> USE NamesAssumption DEF HandleInv, Mappings, Goto, Return, LoadPtr
  <1>1. \/ Refuse(w) \/ Call(w) \/ CheckSize(w) \/ Load(w) \/ Reserve(w) \/ Overflow(w)
        \/ Copy(w) \/ Encrypt(w) \/ Pad(w) \/ PadEncrypt(w)
        \/ Lock(w) \/ Retry(w) \/ StartSwitch(w) \/ MapNewFile(w) \/ SwitchFails(w)
        \/ ZeroOffset(w) \/ Publish(w) \/ Retire(w) \/ Segv(w)
    BY DEF Step, Proceed
  <1>2. /\ gen \in 1..MaxFiles /\ MaxFiles \in Nat
        /\ pc \in [Writers -> Labels] /\ ptr \in [Writers -> Addrs \cup {NoAddr}]
        /\ tgt \in [Writers -> 0..MaxFiles]
        /\ cur \in Addrs /\ old \in Addrs \cup {NoAddr} /\ lock \in Writers \cup {NoWriter}
        /\ map \in [Addrs -> 0..MaxFiles]
        /\ new \in Addrs \cup {NoAddr}
    BY BoundsAssumption DEF TypeOK, CallTypes, HandleTypes, FileTypes, Files
  <1>3. CASE Refuse(w) \/ Call(w)
    BY <1>3, <1>2 DEF Refuse, Call, BeginCall
  <1>4. CASE Load(w) \/ CheckSize(w) \/ Copy(w) \/ Encrypt(w)
    BY <1>4, <1>2 DEF Load, CheckSize, Copy, Encrypt
  <1>5. CASE Reserve(w) \/ Overflow(w)
    BY <1>5, <1>2 DEF Reserve, Overflow, FetchAdd
  <1>6. CASE Pad(w) \/ PadEncrypt(w) \/ Segv(w)
    BY <1>6, <1>2 DEF Pad, PadEncrypt, Segv
  <1>7. CASE Lock(w) \/ Retry(w) \/ SwitchFails(w)
    BY <1>7, <1>2 DEF Lock, Retry, SwitchFails, OneSwitcher, Critical
  <1>8. CASE StartSwitch(w)
    BY <1>8, <1>2 DEF StartSwitch, SwitchedMeanwhile
  <1>9. CASE MapNewFile(w)
    BY <1>9, <1>2 DEF MapNewFile, OneSwitcher, Critical, NoFile
  <1>10. CASE ZeroOffset(w)
    BY <1>10, <1>2 DEF ZeroOffset
  <1>11. CASE Publish(w)
    BY <1>11, <1>2 DEF Publish, OneSwitcher, Critical
  <1>12. CASE Retire(w)
    BY <1>12, <1>2 DEF Retire, OneSwitcher, Critical, InCall
  <1> QED
    BY <1>1, <1>3, <1>4, <1>5, <1>6, <1>7, <1>8, <1>9, <1>10, <1>11, <1>12

\* No step takes the mapping from a writer whose pointer was replaced at most once.
LEMMA RecentStep ==
    ASSUME HandleInv, NEW w \in Writers, Step(w)
    PROVE  MappedIfRecent'
  <1> USE DEF HandleInv, MappedIfRecent, Holding, Goto, Return, LoadPtr
  <1>1. \/ Refuse(w) \/ Call(w) \/ CheckSize(w) \/ Load(w) \/ Reserve(w) \/ Overflow(w)
        \/ Copy(w) \/ Encrypt(w) \/ Pad(w) \/ PadEncrypt(w)
        \/ Lock(w) \/ Retry(w) \/ StartSwitch(w) \/ MapNewFile(w) \/ SwitchFails(w)
        \/ ZeroOffset(w) \/ Publish(w) \/ Retire(w) \/ Segv(w)
    BY DEF Step, Proceed
  <1>2. /\ gen \in 1..MaxFiles /\ MaxFiles \in Nat
        /\ pc \in [Writers -> Labels] /\ ptr \in [Writers -> Addrs \cup {NoAddr}]
        /\ tgt \in [Writers -> 0..MaxFiles]
        /\ cur \in Addrs /\ old \in Addrs \cup {NoAddr} /\ lock \in Writers \cup {NoWriter}
        /\ map \in [Addrs -> 0..MaxFiles]
    BY BoundsAssumption DEF TypeOK, CallTypes, HandleTypes, FileTypes, Files
  <1>3. CASE Refuse(w) \/ Call(w)
    BY <1>3, <1>2 DEF Refuse, Call, BeginCall, Mappings
  <1>4. CASE Load(w)
    BY <1>4, <1>2 DEF Load, Mappings
  <1>5. CASE CheckSize(w) \/ Copy(w) \/ Encrypt(w)
    BY <1>5, <1>2 DEF CheckSize, Copy, Encrypt
  <1>6. CASE Reserve(w) \/ Overflow(w)
    BY <1>6, <1>2 DEF Reserve, Overflow, FetchAdd
  <1>7. CASE Pad(w) \/ PadEncrypt(w) \/ Segv(w)
    BY <1>7, <1>2 DEF Pad, PadEncrypt, Segv
  <1>8. CASE Lock(w) \/ Retry(w) \/ SwitchFails(w) \/ StartSwitch(w) \/ ZeroOffset(w)
    BY <1>8, <1>2 DEF Lock, Retry, SwitchFails, StartSwitch, ZeroOffset
  <1>9. CASE MapNewFile(w)
    BY <1>9, <1>2 DEF MapNewFile, InCall, NoFile
  <1>10. CASE Publish(w)
    BY <1>10, <1>2 DEF Publish, InCall
  <1>11. CASE Retire(w)
    BY <1>11, <1>2, NamesAssumption DEF Retire, InCall, Mappings
  <1> QED
    BY <1>1, <1>3, <1>4, <1>5, <1>6, <1>7, <1>8, <1>9, <1>10, <1>11

\* A file younger than the one replaced before last keeps its mapping in a switch.
LEMMA WriterKeepsMapping ==
    ASSUME HandleInv, NEW w \in Writers, Step(w), NEW a \in Addrs, NEW g \in 1..gen,
           gen - g <= 1 => map[a] = g, gen' - g <= 1
    PROVE  map'[a] = g
  <1>1. \/ Refuse(w) \/ Call(w) \/ CheckSize(w) \/ Load(w) \/ Reserve(w) \/ Overflow(w)
        \/ Copy(w) \/ Encrypt(w) \/ Pad(w) \/ PadEncrypt(w)
        \/ Lock(w) \/ Retry(w) \/ StartSwitch(w) \/ MapNewFile(w) \/ SwitchFails(w)
        \/ ZeroOffset(w) \/ Publish(w) \/ Retire(w) \/ Segv(w)
    BY DEF Step, Proceed
  <1>2. /\ gen \in 1..MaxFiles /\ MaxFiles \in Nat /\ cur \in Addrs
        /\ map \in [Addrs -> 0..MaxFiles]
    BY BoundsAssumption DEF HandleInv, TypeOK, HandleTypes, FileTypes, Files
  <1>3. CASE MapNewFile(w)
    BY <1>2, <1>3 DEF MapNewFile, NoFile
  <1>4. CASE Publish(w)
    BY <1>2, <1>4 DEF Publish
  <1>5. CASE Retire(w)
    BY <1>2, <1>5, NamesAssumption DEF Retire, HandleInv, Mappings
  <1>6. CASE Refuse(w) \/ Call(w) \/ CheckSize(w) \/ Load(w) \/ Reserve(w) \/ Overflow(w)
    BY <1>6 DEF Refuse, Call, BeginCall, CheckSize, Load, Reserve, Overflow, FetchAdd
  <1>7. CASE Copy(w) \/ Encrypt(w) \/ Pad(w) \/ PadEncrypt(w) \/ Lock(w) \/ Retry(w)
    BY <1>7 DEF Copy, Encrypt, Pad, PadEncrypt, Lock, Retry
  <1>8. CASE StartSwitch(w) \/ SwitchFails(w) \/ ZeroOffset(w) \/ Segv(w)
    BY <1>8 DEF StartSwitch, SwitchFails, ZeroOffset, Segv
  <1> QED
    BY <1>1, <1>3, <1>4, <1>5, <1>6, <1>7, <1>8

\* HandleInv is inductive: every step of Next keeps it.
LEMMA HandleInvStep == HandleInv /\ [Next]_vars => HandleInv'
  <1> SUFFICES ASSUME HandleInv, [Next]_vars PROVE HandleInv'
    OBVIOUS
  <1>1. ASSUME NEW w \in Writers, Step(w) PROVE HandleInv'
    BY <1>1, TypeStep, InCallStep, OneSwitcherStep, MappingsStep, RecentStep DEF HandleInv
  <1>2. CASE UNCHANGED vars
    BY <1>2 DEF HandleInv, TypeOK, CallTypes, HandleTypes, FileTypes, HistoryTypes, InCall,
                OneSwitcher, Mappings, MappedIfRecent, vars
  <1> QED
    BY <1>1, <1>2 DEF Next, Finished

\* HandleInv holds in every behaviour.
LEMMA HandleInvariant == Spec => []HandleInv
  BY InitHandleInv, HandleInvStep, PTL DEF Spec

\* The variables keep their types, in every behaviour.
THEOREM TypeCorrect == Spec => []TypeOK
  <1>1. HandleInv => TypeOK
    BY DEF HandleInv
  <1> QED
    BY <1>1, HandleInvariant, PTL

\* switch_to_new_file runs in one writer at a time, the owner of switch_mutex.
THEOREM MutualExclusion == Spec => []OneSwitcher
  <1>1. HandleInv => OneSwitcher
    BY DEF HandleInv
  <1> QED
    BY <1>1, HandleInvariant, PTL

\* Delayed munmap: a pointer that was replaced at most once since it was loaded
\* leads to the file it was loaded for.
THEOREM DelayedMunmap == Spec => []MappedIfRecent
  <1>1. HandleInv => MappedIfRecent
    BY DEF HandleInv
  <1> QED
    BY <1>1, HandleInvariant, PTL

-----------------------------------------------------------------------------
(***************************************************************************)
(* Behaviours in which the delayed munmap is in time and no counter wraps. *)
(***************************************************************************)
\* What a writer was granted lies in the data area of its file.
Granted == \A w \in Writers : pc[w] \in {"copy", "encrypt"} => off[w] + len[w] <= MaxData

\* used_size counts every reservation of a published file.
Accounted == \A i \in DOMAIN log : /\ log[i].file \in 1..gen
                                   /\ Ends(log[i]) <= used[log[i].file]

\* The inductive invariant of CalmSpec.
CalmInv == HandleInv /\ Timely /\ NoFault /\ Granted /\ Accounted /\ Disjoint

\* Calm steps are steps, so they keep HandleInv too.
LEMMA CalmHandleStep == HandleInv /\ [CalmNext]_vars => HandleInv'
  <1>1. [CalmNext]_vars => [Next]_vars
    BY DEF CalmNext, CalmStep, Next
  <1> QED
    BY <1>1, HandleInvStep

\* A timely writer reaches the file that it loaded the pointer for.
LEMMA HoldsItsFile ==
    ASSUME HandleInv, Timely, NEW w \in Writers, pc[w] \in Holding
    PROVE  map[ptr[w]] = tgt[w] /\ tgt[w] \in 1..gen /\ tgt[w] \in Files
  <1>1. map[ptr[w]] = tgt[w]
    BY DEF HandleInv, MappedIfRecent, Timely
  <1>2. pc[w] # "idle"
    BY DEF Holding
  <1>3. tgt[w] \in 1..gen /\ gen \in 1..MaxFiles
    BY <1>2 DEF HandleInv, InCall, TypeOK, HandleTypes, Files
  <1> QED
    BY <1>1, <1>3, BoundsAssumption DEF Files

\* Without wrapping, the fetch_add adds.
LEMMA CalmFetchAdd ==
    ASSUME CalmInv, NEW w \in Writers, CalmStep(w), FetchAdd(w)
    PROVE  /\ map[ptr[w]] = tgt[w] /\ tgt[w] \in 1..gen /\ tgt[w] \in Files
           /\ used[tgt[w]] \in Word /\ len[w] \in Word /\ len[w] > 0
           /\ AddU32(used[tgt[w]], len[w]) = used[tgt[w]] + len[w]
           /\ used' = [used EXCEPT ![tgt[w]] = used[tgt[w]] + len[w]]
           /\ off' = [off EXCEPT ![w] = used[tgt[w]]]
  <1>1. map[ptr[w]] = tgt[w] /\ tgt[w] \in 1..gen /\ tgt[w] \in Files
    BY HoldsItsFile DEF CalmInv, FetchAdd, Holding
  <1>2. used \in [Files -> Word] /\ used[tgt[w]] \in Word
    BY <1>1 DEF CalmInv, HandleInv, TypeOK, FileTypes
  <1>3. len[w] \in Word /\ len[w] > 0
    <2>1. len[w] \in Lens \ {0}
      BY DEF CalmInv, HandleInv, InCall, FetchAdd
    <2>2. Lens \subseteq Word
      BY SizesAssumption DEF Word
    <2>3. len[w] \in Word /\ len[w] # 0
      BY <2>1, <2>2
    <2> QED
      BY <2>3, SizesAssumption DEF Word
  <1>4. used' = [used EXCEPT ![tgt[w]] = AddU32(used[tgt[w]], len[w])]
    BY <1>1 DEF FetchAdd
  <1>5. used[tgt[w]] <= AddU32(used[tgt[w]], len[w])
    BY <1>1, <1>2, <1>4 DEF CalmStep, NoCounterWraps
  <1>6. AddU32(used[tgt[w]], len[w]) = used[tgt[w]] + len[w]
    BY <1>2, <1>3, <1>5, SizesAssumption DEF AddU32, Word
  <1> QED
    BY <1>1, <1>2, <1>3, <1>4, <1>6 DEF FetchAdd

\* In a calm state every pointer in use leads somewhere: Segv cannot happen.
LEMMA NoFaultStep ==
    ASSUME CalmInv, NEW w \in Writers, CalmStep(w)
    PROVE  NoFault'
  <1> USE DEF NoFault
  <1>1. ~fault
    BY DEF CalmInv
  <1>2. CASE Segv(w)
    <2>1. map[ptr[w]] = tgt[w] /\ tgt[w] \in 1..gen
      BY <1>2, HoldsItsFile DEF CalmInv, Segv
    <2>2. map[ptr[w]] # NoFile
      BY <2>1 DEF NoFile, CalmInv, HandleInv, TypeOK, HandleTypes, Files
    <2>3. Addressable(w)
      BY <2>2 DEF Addressable, CalmInv, Granted
    <2> QED
      BY <1>2, <2>3 DEF Segv
  <1>3. CASE Refuse(w) \/ Call(w) \/ CheckSize(w) \/ Load(w) \/ Reserve(w) \/ Overflow(w)
    BY <1>1, <1>3 DEF Refuse, Call, BeginCall, CheckSize, Load, Reserve, Overflow, FetchAdd
  <1>4. CASE Copy(w) \/ Encrypt(w) \/ Pad(w) \/ PadEncrypt(w) \/ Lock(w) \/ Retry(w)
    BY <1>1, <1>4 DEF Copy, Encrypt, Pad, PadEncrypt, Lock, Retry
  <1>5. CASE \/ StartSwitch(w) \/ MapNewFile(w) \/ SwitchFails(w) \/ ZeroOffset(w)
             \/ Publish(w) \/ Retire(w)
    BY <1>1, <1>5 DEF StartSwitch, MapNewFile, SwitchFails, ZeroOffset, Publish, Retire
  <1> QED
    BY <1>2, <1>3, <1>4, <1>5 DEF CalmStep, Step, Proceed

\* Only a reservation that fits takes a writer to its copy.
LEMMA GrantedStep ==
    ASSUME CalmInv, NEW w \in Writers, CalmStep(w)
    PROVE  Granted'
  <1> USE DEF CalmInv, Granted, Goto, Return
  <1>1. /\ pc \in [Writers -> Labels] /\ off \in [Writers -> Word] /\ len \in [Writers -> Word]
    BY DEF HandleInv, TypeOK, CallTypes
  <1>2. CASE Reserve(w)
    <2>1. FetchAdd(w)
      BY <1>2 DEF Reserve
    <2>2. used[tgt[w]] + len[w] <= MaxData
      BY <1>2, <2>1, CalmFetchAdd DEF Reserve, Fits
    <2> QED
      BY <1>1, <1>2, <2>1, <2>2, CalmFetchAdd DEF Reserve, FetchAdd
  <1>3. CASE Overflow(w)
    BY <1>1, <1>3 DEF Overflow, FetchAdd
  <1>4. CASE Refuse(w) \/ Call(w) \/ CheckSize(w) \/ Load(w)
    BY <1>1, <1>4 DEF Refuse, Call, BeginCall, CheckSize, Load
  <1>5. CASE Copy(w) \/ Encrypt(w) \/ Pad(w) \/ PadEncrypt(w) \/ Lock(w) \/ Retry(w)
    BY <1>1, <1>5 DEF Copy, Encrypt, Pad, PadEncrypt, Lock, Retry
  <1>6. CASE \/ StartSwitch(w) \/ MapNewFile(w) \/ SwitchFails(w) \/ ZeroOffset(w)
             \/ Publish(w) \/ Retire(w) \/ Segv(w)
    BY <1>1, <1>6 DEF StartSwitch, MapNewFile, SwitchFails, ZeroOffset, Publish, Retire, Segv
  <1> QED
    BY <1>2, <1>3, <1>4, <1>5, <1>6 DEF CalmStep, Step, Proceed

\* A new reservation starts where the counter, and so every earlier one, ends.
LEMMA LogStep ==
    ASSUME CalmInv, NEW w \in Writers, CalmStep(w)
    PROVE  Accounted' /\ Disjoint'
  <1>1. /\ log \in Seq(Reservation) /\ gen \in 1..MaxFiles /\ MaxFiles \in Nat
        /\ used \in [Files -> Word] /\ Word \subseteq Nat
    BY BoundsAssumption
       DEF CalmInv, HandleInv, TypeOK, HandleTypes, HistoryTypes, FileTypes, Files, Word
  <1>2. \A i \in DOMAIN log : /\ log[i] \in Reservation
                              /\ log[i].off \in Nat /\ log[i].len \in Nat
    <2>1. \A i \in DOMAIN log : log[i] \in Reservation
      BY <1>1
    <2>2. \A r \in Reservation : r.off \in Word /\ r.len \in Word
      BY DEF Reservation
    <2> QED
      BY <1>1, <2>1, <2>2
  <1>3. /\ \A i \in DOMAIN log : /\ log[i].file \in 1..gen /\ log[i].file \in Files
                                 /\ log[i].off + log[i].len <= used[log[i].file]
                                 /\ log[i].off + log[i].len <= MaxData
                                 /\ used[log[i].file] \in Nat
        /\ \A i, j \in DOMAIN log : i < j /\ log[i].file = log[j].file =>
                                      log[i].off + log[i].len <= log[j].off
    <2>1. \A f \in 1..gen : f \in Files
      BY <1>1 DEF Files
    <2>2. \A f \in Files : used[f] \in Nat
      BY <1>1
    <2> QED
      BY <2>1, <2>2 DEF CalmInv, Accounted, Disjoint, Ends
  <1>4. ASSUME FetchAdd(w)
        PROVE  \A i \in DOMAIN log : /\ used'[log[i].file] \in Nat
                                     /\ log[i].off + log[i].len <= used'[log[i].file]
    <2>1. /\ used' = [used EXCEPT ![tgt[w]] = used[tgt[w]] + len[w]]
          /\ tgt[w] \in Files /\ used[tgt[w]] \in Nat /\ len[w] \in Nat
      BY <1>1, <1>4, CalmFetchAdd
    <2> QED
      BY <1>1, <1>2, <1>3, <2>1
  <1>5. CASE Reserve(w)
    <2> DEFINE r == [file |-> tgt[w], off |-> used[tgt[w]], len |-> len[w], msg |-> Msg(w)]
    <2>1. FetchAdd(w)
      BY <1>5 DEF Reserve
    <2>2. log' = Append(log, r) /\ gen' = gen
      BY <1>5, <2>1, CalmFetchAdd DEF Reserve, FetchAdd
    <2>3. /\ used[tgt[w]] + len[w] <= MaxData /\ tgt[w] \in 1..gen /\ tgt[w] \in Files
          /\ used[tgt[w]] \in Nat /\ len[w] \in Nat
          /\ used'[tgt[w]] = used[tgt[w]] + len[w]
      BY <1>1, <1>5, <2>1, CalmFetchAdd DEF Reserve, Fits
    <2>4. /\ Len(log) \in Nat /\ DOMAIN log = 1..Len(log)
          /\ DOMAIN log' = 1..(Len(log) + 1) /\ log'[Len(log) + 1] = r
          /\ \A i \in DOMAIN log : log'[i] = log[i]
      BY <1>1, <2>2
    <2>5. Accounted'
      BY <1>3, <1>4, <2>1, <2>2, <2>3, <2>4 DEF Accounted, Ends
    <2>6. \A i \in DOMAIN log' : log'[i].off + log'[i].len <= MaxData
      BY <1>3, <2>3, <2>4
    <2>7. \A i, j \in DOMAIN log' : i < j /\ log'[i].file = log'[j].file =>
                                      log'[i].off + log'[i].len <= log'[j].off
      <3> SUFFICES ASSUME NEW i \in DOMAIN log', NEW j \in DOMAIN log', i < j,
                          log'[i].file = log'[j].file
                   PROVE  log'[i].off + log'[i].len <= log'[j].off
        OBVIOUS
      <3>1. i \in DOMAIN log /\ log'[i] = log[i]
        BY <2>4
      <3>2. CASE j \in DOMAIN log
        BY <1>3, <2>4, <3>1, <3>2
      <3>3. CASE j = Len(log) + 1
        BY <1>3, <2>4, <3>1, <3>3
      <3> QED
        BY <2>4, <3>2, <3>3
    <2> QED
      BY <2>5, <2>6, <2>7 DEF Disjoint, Ends
  <1>6. CASE Overflow(w)
    <2>1. FetchAdd(w) /\ log' = log /\ gen' = gen
      BY <1>6 DEF Overflow, FetchAdd
    <2> QED
      BY <1>3, <1>4, <2>1 DEF Accounted, Disjoint, Ends
  <1>7. CASE ZeroOffset(w)
    <2>1. used' = [used EXCEPT ![gen + 1] = 0] /\ log' = log /\ gen' = gen
      BY <1>7 DEF ZeroOffset, CalmInv, HandleInv, Mappings
    <2>2. \A i \in DOMAIN log : used'[log[i].file] = used[log[i].file]
      BY <1>1, <1>3, <2>1
    <2> QED
      BY <1>3, <2>1, <2>2 DEF Accounted, Disjoint, Ends
  <1>8. CASE Publish(w)
    <2>1. log' = log /\ used' = used /\ gen' = gen + 1
      BY <1>8 DEF Publish
    <2> QED
      BY <1>1, <1>3, <2>1 DEF Accounted, Disjoint, Ends
  <1>9. CASE \/ Refuse(w) \/ Call(w) \/ CheckSize(w) \/ Load(w)
             \/ Copy(w) \/ Encrypt(w) \/ Pad(w) \/ PadEncrypt(w) \/ Lock(w) \/ Retry(w)
             \/ StartSwitch(w) \/ MapNewFile(w) \/ SwitchFails(w) \/ Retire(w) \/ Segv(w)
    <2>1. log' = log /\ used' = used /\ gen' = gen
      BY <1>9 DEF Refuse, Call, BeginCall, CheckSize, Load, Copy, Encrypt, Pad, PadEncrypt,
                  Lock, Retry, StartSwitch, MapNewFile, SwitchFails, Retire, Segv
    <2> QED
      BY <1>3, <2>1 DEF Accounted, Disjoint, Ends
  <1> QED
    BY <1>5, <1>6, <1>7, <1>8, <1>9 DEF CalmStep, Step, Proceed

\* CalmInv holds of the freshly opened handle.
LEMMA InitCalmInv == Init => CalmInv
  <1>1. Init => HandleInv
    BY InitHandleInv
  <1>2. Init => Timely /\ NoFault /\ Granted
    BY DEF Init, Timely, NoFault, Granted, Holding
  <1>3. Init => Accounted /\ Disjoint
    BY DEF Init, Accounted, Disjoint
  <1> QED
    BY <1>1, <1>2, <1>3 DEF CalmInv

\* CalmInv is inductive: every calm step keeps it.
LEMMA CalmInvStep == CalmInv /\ [CalmNext]_vars => CalmInv'
  <1> SUFFICES ASSUME CalmInv, [CalmNext]_vars PROVE CalmInv'
    OBVIOUS
  <1>1. HandleInv'
    BY CalmHandleStep DEF CalmInv
  <1>2. ASSUME NEW w \in Writers, CalmStep(w) PROVE CalmInv'
    BY <1>1, <1>2, NoFaultStep, GrantedStep, LogStep DEF CalmInv, CalmStep
  <1>3. CASE UNCHANGED vars
    BY <1>1, <1>3 DEF CalmInv, Timely, NoFault, Granted, Accounted, Disjoint, Ends, vars
  <1> QED
    BY <1>2, <1>3 DEF CalmNext, Finished

\* CalmInv holds in every calm behaviour.
LEMMA CalmInvariant == CalmSpec => []CalmInv
  BY InitCalmInv, CalmInvStep, PTL DEF CalmSpec

\* No writer touches unmapped memory, provided none is overtaken by two switches.
THEOREM MemorySafety == CalmSpec => []NoFault
  <1>1. CalmInv => NoFault
    BY DEF CalmInv
  <1> QED
    BY <1>1, CalmInvariant, PTL

\* The spans reserved in one file are disjoint and inside its data area.
THEOREM ReservationsDisjoint == CalmSpec => []Disjoint
  <1>1. CalmInv => Disjoint
    BY DEF CalmInv
  <1> QED
    BY <1>1, CalmInvariant, PTL

-----------------------------------------------------------------------------
(***************************************************************************)
(* The bytes of answered messages.                                         *)
(***************************************************************************)
\* A writer that copies or encrypts does so inside its own reservation.
Ticketed ==
    \A w \in Writers : pc[w] \in {"copy", "encrypt"} =>
        \E i \in DOMAIN log : /\ log[i].file = tgt[w] /\ log[i].off = off[w]
                              /\ log[i].len = len[w] /\ log[i].msg = Msg(w)

\* A call has at most one reservation, made before it copies; an answered
\* message belongs to a call that is over.
OnePerCall ==
    /\ \A i, j \in DOMAIN log : log[i].msg = log[j].msg => i = j
    /\ \A i \in DOMAIN log, v \in Writers, n \in 1..MaxCalls : log[i].msg = <<v, n>> =>
          n <= calls[v] /\ (n = calls[v] => pc[v] \in {"idle", "copy", "encrypt"})
    /\ \A v \in Writers, n \in 1..MaxCalls : <<v, n>> \in acked =>
          n <= calls[v] /\ (n = calls[v] => pc[v] = "idle")

\* The tail that is zeroed lies behind every reservation of a file that takes
\* no more of them.
TailFree ==
    \A w \in Writers : pc[w] \in {"pad", "padenc"} =>
        /\ used[tgt[w]] > MaxData
        /\ \A i \in DOMAIN log : log[i].file = tgt[w] => Ends(log[i]) <= off[w]

\* Between copying and encrypting the message is in place, in plain text.
Copied ==
    \A w \in Writers : pc[w] = "encrypt" =>
        /\ Encrypted
        /\ \A p \in off[w]..(off[w] + len[w] - 1) :
              data[tgt[w]][p] = Msg(w) /\ mask[tgt[w]][p] = 0

ContentInv == CalmInv /\ Ticketed /\ OnePerCall /\ TailFree /\ Copied /\ Intact

\* What the invariant says of the log and the writers, with types.
LEMMA LogFacts ==
    ASSUME CalmInv
    PROVE  /\ log \in Seq(Reservation) /\ Len(log) \in Nat /\ DOMAIN log = 1..Len(log)
           /\ \A i \in DOMAIN log : /\ log[i].file \in 1..gen /\ log[i].file \in Files
                                    /\ log[i].off \in Nat /\ log[i].len \in Nat
                                    /\ log[i].msg \in Msgs
                                    /\ Ends(log[i]) <= used[log[i].file]
                                    /\ Ends(log[i]) <= MaxData
           /\ \A i, j \in DOMAIN log : log[i].file = log[j].file =>
                 i = j \/ Ends(log[i]) <= log[j].off \/ Ends(log[j]) <= log[i].off
  <1>1. /\ log \in Seq(Reservation) /\ gen \in 1..MaxFiles /\ MaxFiles \in Nat
        /\ Word \subseteq Nat
    BY BoundsAssumption DEF CalmInv, HandleInv, TypeOK, HandleTypes, HistoryTypes, Files, Word
  <1>2. Len(log) \in Nat /\ DOMAIN log = 1..Len(log) /\ \A i \in DOMAIN log : log[i] \in Reservation
    BY <1>1
  <1>3. \A r \in Reservation : r.off \in Word /\ r.len \in Word /\ r.msg \in Msgs
    BY DEF Reservation
  <1>4. \A f \in 1..gen : f \in Files
    BY <1>1 DEF Files
  <1>5. \A i \in DOMAIN log : /\ log[i].file \in 1..gen
                              /\ Ends(log[i]) <= used[log[i].file] /\ Ends(log[i]) <= MaxData
    BY DEF CalmInv, Accounted, Disjoint
  <1>6. \A i, j \in DOMAIN log : i < j \/ j < i \/ i = j
    BY <1>2
  <1>7. \A i, j \in DOMAIN log : log[i].file = log[j].file =>
                 i = j \/ Ends(log[i]) <= log[j].off \/ Ends(log[j]) <= log[i].off
    BY <1>6 DEF CalmInv, Disjoint
  <1> QED
    BY <1>1, <1>2, <1>3, <1>4, <1>5, <1>7

\* What the invariant says of the calls, with types.
LEMMA CallFacts ==
    ASSUME CalmInv
    PROVE  /\ pc \in [Writers -> Labels] /\ calls \in [Writers -> 0..MaxCalls]
           /\ MaxCalls \in Nat /\ acked \subseteq Msgs
           /\ \A w \in Writers : /\ calls[w] \in Int /\ off[w] \in Nat /\ len[w] \in Nat
                                 /\ pc[w] # "idle" => calls[w] \in 1..MaxCalls
  BY BoundsAssumption
     DEF CalmInv, HandleInv, TypeOK, CallTypes, HistoryTypes, InCall, Word

\* Reserve, in terms of the log.
LEMMA ReserveAppends ==
    ASSUME CalmInv, NEW w \in Writers, CalmStep(w), Reserve(w)
    PROVE  /\ DOMAIN log' = 1..(Len(log) + 1)
           /\ \A i \in DOMAIN log : i \in DOMAIN log' /\ log'[i] = log[i]
           /\ \A i \in DOMAIN log' : i \in DOMAIN log \/ i = Len(log) + 1
           /\ Len(log) + 1 \notin DOMAIN log
           /\ log'[Len(log) + 1].file = tgt[w] /\ log'[Len(log) + 1].off = used[tgt[w]]
           /\ log'[Len(log) + 1].len = len[w] /\ log'[Len(log) + 1].msg = Msg(w)
           /\ used[tgt[w]] + len[w] <= MaxData
  <1>1. FetchAdd(w)
    BY DEF Reserve
  <1>2. log' = Append(log, [file |-> tgt[w], off |-> used[tgt[w]], len |-> len[w], msg |-> Msg(w)])
    BY <1>1, CalmFetchAdd DEF Reserve
  <1>3. used[tgt[w]] + len[w] <= MaxData
    BY <1>1, CalmFetchAdd DEF Reserve, Fits
  <1>4. log \in Seq(Reservation) /\ Len(log) \in Nat /\ DOMAIN log = 1..Len(log)
    BY LogFacts
  <1> QED
    BY <1>2, <1>3, <1>4

\* Steps other than Reserve leave the log alone.
LEMMA LogUnchanged ==
    ASSUME NEW w \in Writers, Step(w), ~Reserve(w)
    PROVE  log' = log
  <1>1. CASE Refuse(w) \/ Call(w) \/ CheckSize(w) \/ Load(w) \/ Overflow(w)
    BY <1>1 DEF Refuse, Call, BeginCall, CheckSize, Load, Overflow
  <1>2. CASE Copy(w) \/ Encrypt(w) \/ Pad(w) \/ PadEncrypt(w) \/ Lock(w) \/ Retry(w)
    BY <1>2 DEF Copy, Encrypt, Pad, PadEncrypt, Lock, Retry
  <1>3. CASE \/ StartSwitch(w) \/ MapNewFile(w) \/ SwitchFails(w) \/ ZeroOffset(w)
             \/ Publish(w) \/ Retire(w) \/ Segv(w)
    BY <1>3 DEF StartSwitch, MapNewFile, SwitchFails, ZeroOffset, Publish, Retire, Segv
  <1> QED
    BY <1>1, <1>2, <1>3 DEF Step, Proceed

\* A step moves the call of the writer that takes it, and no other.
LEMMA CallMoves ==
    ASSUME CalmInv, NEW w \in Writers, CalmStep(w)
    PROVE  /\ \A v \in Writers \ {w} : /\ pc'[v] = pc[v] /\ calls'[v] = calls[v]
                                       /\ off'[v] = off[v] /\ len'[v] = len[v]
                                       /\ tgt'[v] = tgt[v]
           /\ \/ pc[w] = "idle" /\ calls'[w] = calls[w] + 1 /\ acked' = acked
                 /\ pc'[w] \in {"idle", "size"}
              \/ pc[w] # "idle" /\ calls'[w] = calls[w] /\ pc'[w] = "idle"
                 /\ acked' \in {acked, acked \cup {Msg(w)}}
              \/ pc[w] # "idle" /\ calls'[w] = calls[w] /\ acked' = acked
                 /\ (pc'[w] \in {"copy", "encrypt"} => Reserve(w) \/ Copy(w) \/ Segv(w))
                 /\ (pc[w] \in {"copy", "encrypt"} => pc'[w] \in {"copy", "encrypt"})
  <1>1. /\ pc \in [Writers -> Labels] /\ calls \in [Writers -> 0..MaxCalls]
        /\ off \in [Writers -> Word] /\ len \in [Writers -> Word]
        /\ tgt \in [Writers -> 0..MaxFiles]
    BY DEF CalmInv, HandleInv, TypeOK, CallTypes
  <1> USE DEF Goto, Return, LoadPtr
  <1>2. CASE Refuse(w) \/ Call(w)
    BY <1>1, <1>2 DEF Refuse, Call, BeginCall
  <1>3. CASE CheckSize(w) \/ Load(w)
    BY <1>1, <1>3 DEF CheckSize, Load
  <1>4. CASE Reserve(w) \/ Overflow(w)
    BY <1>1, <1>4 DEF Reserve, Overflow, FetchAdd
  <1>5. CASE Copy(w) \/ Encrypt(w) \/ Pad(w) \/ PadEncrypt(w) \/ Lock(w) \/ Retry(w)
    BY <1>1, <1>5 DEF Copy, Encrypt, Pad, PadEncrypt, Lock, Retry
  <1>6. CASE \/ StartSwitch(w) \/ MapNewFile(w) \/ SwitchFails(w) \/ ZeroOffset(w)
             \/ Publish(w) \/ Retire(w) \/ Segv(w)
    BY <1>1, <1>6 DEF StartSwitch, MapNewFile, SwitchFails, ZeroOffset, Publish, Retire, Segv, Holding
  <1> QED
    BY <1>2, <1>3, <1>4, <1>5, <1>6 DEF CalmStep, Step, Proceed

\* Messages take one reservation each, also after the step.
LEMMA OnePerCallStep ==
    ASSUME CalmInv, OnePerCall, NEW w \in Writers, CalmStep(w)
    PROVE  OnePerCall'
  <1>1. CASE Reserve(w)
    <2>1. pc[w] = "reserve" /\ pc' = [pc EXCEPT ![w] = "copy"] /\ calls' = calls /\ acked' = acked
      BY <1>1 DEF Reserve, FetchAdd, Goto
    <2>2. calls[w] \in 1..MaxCalls
      BY <2>1, CallFacts
    <2>3. \A i \in DOMAIN log : log[i].msg # Msg(w)
      BY <2>1, <2>2 DEF OnePerCall, Msg
    <2>4. \A v \in Writers : pc[v] \in {"idle", "copy", "encrypt"} => pc'[v] = pc[v]
      BY <2>1, CallFacts
    <2>5. \A i, j \in DOMAIN log' : log'[i].msg = log'[j].msg => i = j
      BY <1>1, <2>3, ReserveAppends DEF OnePerCall
    <2>6. \A i \in DOMAIN log', v \in Writers, n \in 1..MaxCalls : log'[i].msg = <<v, n>> =>
          n <= calls[v] /\ (n = calls[v] => pc'[v] \in {"idle", "copy", "encrypt"})
      <3> SUFFICES ASSUME NEW i \in DOMAIN log', NEW v \in Writers, NEW n \in 1..MaxCalls,
                          log'[i].msg = <<v, n>>
                   PROVE  n <= calls[v] /\ (n = calls[v] => pc'[v] \in {"idle", "copy", "encrypt"})
        OBVIOUS
      <3>1. CASE i \in DOMAIN log
        BY <1>1, <2>4, <3>1, ReserveAppends DEF OnePerCall
      <3>2. CASE i = Len(log) + 1
        <4>1. <<v, n>> = <<w, calls[w]>>
          BY <1>1, <3>2, ReserveAppends DEF Msg
        <4>2. v = w /\ n = calls[w]
          BY <4>1
        <4> QED
          BY <2>1, <4>2, CallFacts
      <3> QED
        BY <1>1, <3>1, <3>2, ReserveAppends
    <2>7. \A v \in Writers, n \in 1..MaxCalls : <<v, n>> \in acked =>
          n <= calls[v] /\ (n = calls[v] => pc'[v] = "idle")
      BY <2>4 DEF OnePerCall
    <2> QED
      BY <2>1, <2>5, <2>6, <2>7 DEF OnePerCall
  <1>2. CASE ~Reserve(w)
    <2>1. log' = log
      BY <1>2, LogUnchanged DEF CalmStep
    <2>2. \A v \in Writers \ {w} : pc'[v] = pc[v] /\ calls'[v] = calls[v]
      BY CallMoves
    <2>3. \A v \in Writers : calls[v] \in Int
      BY CallFacts
    <2>4. CASE pc[w] = "idle" /\ calls'[w] = calls[w] + 1 /\ acked' = acked
      BY <2>1, <2>2, <2>3, <2>4 DEF OnePerCall
    <2>5. CASE pc[w] # "idle" /\ calls'[w] = calls[w] /\ pc'[w] = "idle"
                 /\ acked' \in {acked, acked \cup {Msg(w)}}
      <3>1. \A i \in DOMAIN log, v \in Writers, n \in 1..MaxCalls : log[i].msg = <<v, n>> =>
              n <= calls'[v] /\ (n = calls'[v] => pc'[v] \in {"idle", "copy", "encrypt"})
        BY <2>2, <2>5 DEF OnePerCall
      <3>2. ASSUME NEW v \in Writers, NEW n \in 1..MaxCalls, <<v, n>> \in acked'
            PROVE  n <= calls'[v] /\ (n = calls'[v] => pc'[v] = "idle")
        <4>1. CASE <<v, n>> \in acked
          BY <2>2, <2>5, <4>1 DEF OnePerCall
        <4>2. CASE <<v, n>> = <<w, calls[w]>>
          <5>1. v = w /\ n = calls[w]
            BY <4>2
          <5> QED
            BY <2>3, <2>5, <5>1
        <4> QED
          BY <2>5, <3>2, <4>1, <4>2 DEF Msg
      <3> QED
        BY <2>1, <3>1, <3>2 DEF OnePerCall
    <2>6. CASE /\ pc[w] # "idle" /\ calls'[w] = calls[w] /\ acked' = acked
               /\ (pc[w] \in {"copy", "encrypt"} => pc'[w] \in {"copy", "encrypt"})
      BY <2>1, <2>2, <2>6 DEF OnePerCall
    <2> QED
      BY <2>4, <2>5, <2>6, CallMoves
  <1> QED
    BY <1>1, <1>2

\* A writer that copies or encrypts still does so in its own reservation.
LEMMA TicketedStep ==
    ASSUME CalmInv, Ticketed, NEW w \in Writers, CalmStep(w)
    PROVE  Ticketed'
  <1>1. ASSUME NEW v \in Writers \ {w}, pc'[v] \in {"copy", "encrypt"}
        PROVE  \E i \in DOMAIN log' : /\ log'[i].file = tgt'[v] /\ log'[i].off = off'[v]
                                      /\ log'[i].len = len'[v] /\ log'[i].msg = Msg(v)'
    <2>1. PICK i \in DOMAIN log : /\ log[i].file = tgt[v] /\ log[i].off = off[v]
                                  /\ log[i].len = len[v] /\ log[i].msg = Msg(v)
      BY <1>1, CallMoves DEF Ticketed
    <2>2. i \in DOMAIN log' /\ log'[i] = log[i]
      BY ReserveAppends, LogUnchanged DEF CalmStep
    <2>3. tgt'[v] = tgt[v] /\ off'[v] = off[v] /\ len'[v] = len[v] /\ calls'[v] = calls[v]
      BY CallMoves
    <2> QED
      BY <2>1, <2>2, <2>3 DEF Msg
  <1>2. ASSUME pc'[w] \in {"copy", "encrypt"}
        PROVE  \E i \in DOMAIN log' : /\ log'[i].file = tgt'[w] /\ log'[i].off = off'[w]
                                      /\ log'[i].len = len'[w] /\ log'[i].msg = Msg(w)'
    <2>1. Reserve(w) \/ Copy(w) \/ Segv(w)
      BY <1>2, CallMoves
    <2>2. CASE Reserve(w)
      <3>1. /\ tgt' = tgt /\ len' = len /\ calls' = calls /\ FetchAdd(w)
        BY <2>2 DEF Reserve, FetchAdd
      <3>2. off'[w] = used[tgt[w]]
        BY <3>1, CalmFetchAdd DEF CalmInv, HandleInv, TypeOK, CallTypes
      <3>3. Len(log) + 1 \in DOMAIN log'
        BY <2>2, ReserveAppends, LogFacts
      <3> QED
        BY <2>2, <3>1, <3>2, <3>3, ReserveAppends DEF Msg
    <2>3. CASE Copy(w) \/ Segv(w)
      <3>1. /\ tgt' = tgt /\ len' = len /\ calls' = calls /\ off' = off /\ log' = log
        BY <2>3 DEF Copy, Segv
      <3>2. pc[w] \in {"copy", "encrypt"}
        BY <1>2, <2>3 DEF Copy, Segv
      <3> QED
        BY <3>1, <3>2 DEF Ticketed, Msg
    <2> QED
      BY <2>1, <2>2, <2>3
  <1> QED
    BY <1>1, <1>2 DEF Ticketed

\* Nobody reserves behind the start of a tail that is being zeroed.
LEMMA TailFreeStep ==
    ASSUME CalmInv, TailFree, NEW w \in Writers, CalmStep(w)
    PROVE  TailFree'
  <1>1. \A v \in Writers : pc[v] # "idle" => tgt[v] \in 1..gen
    BY DEF CalmInv, HandleInv, InCall
  <1>2. \A f \in 1..gen : used[f] <= used'[f] /\ used[f] \in Int /\ used'[f] \in Int
    <2>1. used \in [Files -> Word] /\ gen \in 1..MaxFiles /\ MaxFiles \in Nat /\ Word \subseteq Int
      BY BoundsAssumption DEF CalmInv, HandleInv, TypeOK, FileTypes, HandleTypes, Files, Word
    <2>2. used' \in [Files -> Word]
      BY TypeStep DEF CalmInv, CalmStep, TypeOK, FileTypes
    <2>3. \A f \in 1..gen : f \in Files
      BY <2>1 DEF Files
    <2> QED
      BY <2>1, <2>2, <2>3 DEF CalmStep, NoCounterWraps
  <1>3. ASSUME NEW v \in Writers, pc[v] \in {"pad", "padenc"},
               off'[v] = off[v], tgt'[v] = tgt[v]
        PROVE  /\ used'[tgt'[v]] > MaxData
               /\ \A i \in DOMAIN log' : log'[i].file = tgt'[v] => Ends(log'[i]) <= off'[v]
    <2>1. used'[tgt[v]] > MaxData /\ used[tgt[v]] > MaxData
      BY <1>1, <1>2, <1>3, SizesAssumption DEF TailFree
    <2>2. CASE Reserve(w)
      <3>1. used[tgt[w]] + len[w] <= MaxData /\ used[tgt[w]] \in Int /\ len[w] \in Nat
        BY <1>1, <1>2, <2>2, ReserveAppends, CallFacts DEF Reserve, FetchAdd
      <3>2. tgt[v] # tgt[w]
        BY <2>1, <3>1, SizesAssumption
      <3> QED
        BY <1>3, <2>1, <2>2, <3>2, ReserveAppends DEF TailFree
    <2>3. CASE ~Reserve(w)
      BY <1>3, <2>1, <2>3, LogUnchanged DEF TailFree, CalmStep
    <2> QED
      BY <2>2, <2>3
  <1>4. ASSUME Overflow(w)
        PROVE  /\ used'[tgt'[w]] > MaxData
               /\ \A i \in DOMAIN log' : log'[i].file = tgt'[w] => Ends(log'[i]) <= off'[w]
    <2>1. FetchAdd(w) /\ log' = log /\ tgt' = tgt
      BY <1>4 DEF Overflow, FetchAdd
    <2>2. used'[tgt[w]] = used[tgt[w]] + len[w] /\ off'[w] = used[tgt[w]]
      BY <2>1, CalmFetchAdd DEF CalmInv, HandleInv, TypeOK, CallTypes, FileTypes
    <2>3. ~(used[tgt[w]] + len[w] <= MaxData)
      BY <1>4, <2>1, CalmFetchAdd DEF Overflow, Fits
    <2>4. used[tgt[w]] + len[w] > MaxData
      BY <2>1, <2>3, <1>1, <1>2, CallFacts, SizesAssumption DEF FetchAdd
    <2> QED
      BY <2>1, <2>2, <2>4, LogFacts
  <1>5. ASSUME pc'[w] \in {"pad", "padenc"}, ~Overflow(w)
        PROVE  pc[w] \in {"pad", "padenc"} /\ off'[w] = off[w] /\ tgt'[w] = tgt[w]
    <2> USE DEF Goto, Return
    <2>1. pc \in [Writers -> Labels]
      BY CallFacts
    <2>2. CASE Refuse(w) \/ Call(w) \/ CheckSize(w) \/ Load(w) \/ Reserve(w)
      BY <1>5, <2>1, <2>2 DEF Refuse, Call, BeginCall, CheckSize, Load, Reserve
    <2>3. CASE Copy(w) \/ Encrypt(w) \/ Pad(w) \/ PadEncrypt(w) \/ Lock(w) \/ Retry(w)
      BY <1>5, <2>1, <2>3 DEF Copy, Encrypt, Pad, PadEncrypt, Lock, Retry
    <2>4. CASE \/ StartSwitch(w) \/ MapNewFile(w) \/ SwitchFails(w) \/ ZeroOffset(w)
               \/ Publish(w) \/ Retire(w) \/ Segv(w)
      BY <1>5, <2>1, <2>4 DEF StartSwitch, MapNewFile, SwitchFails, ZeroOffset, Publish, Retire, Segv
    <2> QED
      BY <1>5, <2>2, <2>3, <2>4 DEF CalmStep, Step, Proceed
  <1> QED
    BY <1>3, <1>4, <1>5, CallMoves DEF TailFree
\* The bytes that the next step of a writer may change, in the file it holds.
Touched(w) == IF pc[w] \in {"copy", "encrypt"} THEN off[w]..(off[w] + len[w] - 1)
              ELSE IF pc[w] \in {"pad", "padenc"} THEN off[w]..(MaxData - 1)
              ELSE {}

\* A step changes no other byte.
LEMMA TouchesNoOther ==
    ASSUME CalmInv, NEW w \in Writers, CalmStep(w), NEW f \in Files, NEW p \in Pos,
           f # tgt[w] \/ p \notin Touched(w)
    PROVE  data'[f][p] = data[f][p] /\ mask'[f][p] = mask[f][p]
  <1>1. /\ data \in [Files -> [Pos -> Msgs \cup {Zero}]] /\ mask \in [Files -> [Pos -> {0, 1}]]
        /\ off[w] \in Nat /\ len[w] \in Nat /\ MaxData \in Nat
    BY CallFacts, SizesAssumption DEF CalmInv, HandleInv, TypeOK, FileTypes
  <1>2. pc[w] \in Holding => map[ptr[w]] = tgt[w] /\ tgt[w] \in Files
    BY HoldsItsFile DEF CalmInv
  <1>3. CASE Copy(w)
    <2>1. /\ data' = Paint(data, tgt[w], off[w], len[w], Msg(w))
          /\ mask' = Paint(mask, tgt[w], off[w], len[w], 0)
          /\ Touched(w) = off[w]..(off[w] + len[w] - 1)
      BY <1>2, <1>3 DEF Copy, Holding, Touched
    <2> QED
      BY <1>1, <2>1 DEF Paint
  <1>4. CASE Encrypt(w)
    <2>1. /\ data' = data
          /\ mask' = ApplyKeyStream(tgt[w], off[w], len[w]) \/ mask' = mask
          /\ Touched(w) = off[w]..(off[w] + len[w] - 1)
      BY <1>2, <1>4 DEF Encrypt, Holding, Touched
    <2> QED
      BY <1>1, <2>1 DEF ApplyKeyStream
  <1>5. CASE Pad(w)
    <2>1. /\ data' = Paint(data, tgt[w], off[w], MaxData - off[w], Zero)
          /\ mask' = Paint(mask, tgt[w], off[w], MaxData - off[w], 0)
          /\ Touched(w) = off[w]..(MaxData - 1)
      BY <1>2, <1>5 DEF Pad, Holding, Touched
    <2>2. off[w] + (MaxData - off[w]) - 1 = MaxData - 1
      BY <1>1
    <2> QED
      BY <1>1, <2>1, <2>2 DEF Paint
  <1>6. CASE PadEncrypt(w)
    <2>1. /\ data' = data
          /\ mask' = ApplyKeyStream(tgt[w], off[w], MaxData - off[w]) \/ mask' = mask
          /\ Touched(w) = off[w]..(MaxData - 1)
      BY <1>2, <1>6 DEF PadEncrypt, Holding, Touched
    <2>2. off[w] + (MaxData - off[w]) - 1 = MaxData - 1
      BY <1>1
    <2> QED
      BY <1>1, <2>1, <2>2 DEF ApplyKeyStream
  <1>7. CASE \/ Refuse(w) \/ Call(w) \/ CheckSize(w) \/ Load(w) \/ Reserve(w) \/ Overflow(w)
             \/ Lock(w) \/ Retry(w) \/ StartSwitch(w) \/ MapNewFile(w) \/ SwitchFails(w)
             \/ ZeroOffset(w) \/ Publish(w) \/ Retire(w) \/ Segv(w)
    BY <1>7 DEF Refuse, Call, BeginCall, CheckSize, Load, Reserve, Overflow, FetchAdd, Lock, Retry,
                StartSwitch, MapNewFile, SwitchFails, ZeroOffset, Publish, Retire, Segv
  <1> QED
    BY <1>3, <1>4, <1>5, <1>6, <1>7 DEF CalmStep, Step, Proceed

\* So a reservation keeps its bytes unless its own writer is at them.
LEMMA OthersKeepTheirBytes ==
    ASSUME ContentInv, NEW w \in Writers, CalmStep(w), NEW i \in DOMAIN log,
           pc[w] \in {"copy", "encrypt"} => log[i].msg # Msg(w),
           NEW p \in log[i].off..(Ends(log[i]) - 1)
    PROVE  /\ data'[log[i].file][p] = data[log[i].file][p]
           /\ mask'[log[i].file][p] = mask[log[i].file][p]
  <1>1. /\ log[i].file \in Files /\ log[i].off \in Nat /\ log[i].len \in Nat
        /\ Ends(log[i]) <= MaxData /\ off[w] \in Nat /\ len[w] \in Nat
    BY LogFacts, CallFacts DEF ContentInv
  <1>2. p \in Pos
    BY <1>1, SizesAssumption DEF Pos, Ends
  <1>3. CASE pc[w] \in {"copy", "encrypt"}
    <2>1. PICK j \in DOMAIN log : /\ log[j].file = tgt[w] /\ log[j].off = off[w]
                                  /\ log[j].len = len[w] /\ log[j].msg = Msg(w)
      BY <1>3 DEF ContentInv, Ticketed
    <2>2. log[i].file = tgt[w] => Ends(log[i]) <= off[w] \/ off[w] + len[w] <= log[i].off
      BY <1>3, <2>1, LogFacts DEF ContentInv, Ends
    <2>3. log[i].file = tgt[w] => p \notin Touched(w)
      BY <1>1, <1>3, <2>2 DEF Touched, Ends
    <2> QED
      BY <1>1, <1>2, <2>3, TouchesNoOther DEF ContentInv
  <1>4. CASE pc[w] \in {"pad", "padenc"}
    <2>1. log[i].file = tgt[w] => Ends(log[i]) <= off[w]
      BY <1>4 DEF ContentInv, TailFree
    <2>2. log[i].file = tgt[w] => p \notin Touched(w)
      BY <1>1, <1>4, <2>1 DEF Touched, Ends
    <2> QED
      BY <1>1, <1>2, <2>2, TouchesNoOther DEF ContentInv
  <1>5. CASE pc[w] \notin {"copy", "encrypt", "pad", "padenc"}
    <2>1. Touched(w) = {}
      BY <1>5 DEF Touched
    <2> QED
      BY <1>1, <1>2, <2>1, TouchesNoOther DEF ContentInv
  <1> QED
    BY <1>3, <1>4, <1>5

\* Copy fills the writer's span with its message, in plain text.
LEMMA CopyFills ==
    ASSUME CalmInv, NEW w \in Writers, CalmStep(w), Copy(w),
           NEW p \in off[w]..(off[w] + len[w] - 1)
    PROVE  data'[tgt[w]][p] = Msg(w) /\ mask'[tgt[w]][p] = 0
  <1>1. map[ptr[w]] = tgt[w] /\ tgt[w] \in Files
    BY HoldsItsFile DEF CalmInv, Copy, Holding
  <1>2. p \in Pos
    BY CallFacts, SizesAssumption DEF CalmInv, Granted, Copy, Pos
  <1>3. data \in [Files -> [Pos -> Msgs \cup {Zero}]] /\ mask \in [Files -> [Pos -> {0, 1}]]
    BY DEF CalmInv, HandleInv, TypeOK, FileTypes
  <1>4. /\ data' = Paint(data, tgt[w], off[w], len[w], Msg(w))
        /\ mask' = Paint(mask, tgt[w], off[w], len[w], 0)
    BY <1>1 DEF Copy
  <1> QED
    BY <1>1, <1>2, <1>3, <1>4 DEF Paint

\* What was copied stays in place until it is encrypted.
LEMMA CopiedStep ==
    ASSUME ContentInv, NEW w \in Writers, CalmStep(w)
    PROVE  Copied'
  <1>0. ASSUME NEW v \in Writers, pc'[v] = "encrypt" PROVE Encrypted
    <2>1. CASE Copy(w) /\ v = w
      <3>1. pc[w] = "copy" /\ pc \in [Writers -> Labels]
        BY <2>1, CallFacts DEF ContentInv, Copy
      <3>2. ~Encrypted => pc' = [pc EXCEPT ![w] = "idle"]
        BY <2>1 DEF Copy, Return, Goto
      <3> QED
        BY <1>0, <2>1, <3>1, <3>2
    <2>2. CASE ~(Copy(w) /\ v = w)
      <3>1. pc[v] = "encrypt"
        BY <1>0, <2>2, CallMoves, CallFacts DEF ContentInv, Reserve, FetchAdd, Goto, Segv
      <3> QED
        BY <3>1 DEF ContentInv, Copied
    <2> QED
      BY <2>1, <2>2
  <1> SUFFICES ASSUME NEW v \in Writers, pc'[v] = "encrypt",
                      NEW p \in off'[v]..(off'[v] + len'[v] - 1)
               PROVE  data'[tgt'[v]][p] = Msg(v)' /\ mask'[tgt'[v]][p] = 0
    BY <1>0 DEF Copied
  <1>1. CASE v # w
    <2>1. /\ pc[v] = "encrypt" /\ off'[v] = off[v] /\ len'[v] = len[v] /\ tgt'[v] = tgt[v]
          /\ Msg(v)' = Msg(v)
      BY <1>1, CallMoves DEF ContentInv, Msg
    <2>2. PICK i \in DOMAIN log : /\ log[i].file = tgt[v] /\ log[i].off = off[v]
                                  /\ log[i].len = len[v] /\ log[i].msg = Msg(v)
      BY <2>1 DEF ContentInv, Ticketed
    <2>3. log[i].msg # Msg(w)
      BY <1>1, <2>2 DEF Msg
    <2>4. p \in log[i].off..(Ends(log[i]) - 1)
      <3>1. Ends(log[i]) = off[v] + len[v]
        BY <2>2 DEF Ends
      <3> QED
        BY <2>1, <2>2, <3>1, CallFacts DEF ContentInv
    <2>5. data'[tgt[v]][p] = data[tgt[v]][p] /\ mask'[tgt[v]][p] = mask[tgt[v]][p]
      BY <2>2, <2>3, <2>4, OthersKeepTheirBytes
    <2> QED
      BY <2>1, <2>5 DEF ContentInv, Copied
  <1>2. CASE v = w
    <2>1. Copy(w) \/ Segv(w)
      BY <1>2, CallMoves, CallFacts DEF ContentInv, Reserve, FetchAdd, Goto
    <2>2. off' = off /\ len' = len /\ tgt' = tgt /\ Msg(w)' = Msg(w)
      BY <2>1 DEF Copy, Segv, Msg
    <2>3. CASE Copy(w)
      BY <1>2, <2>2, <2>3, CopyFills DEF ContentInv
    <2>4. CASE Segv(w)
      BY <1>2, <2>2, <2>4 DEF Segv, ContentInv, Copied
    <2> QED
      BY <2>1, <2>3, <2>4
  <1> QED
    BY <1>1, <1>2

\* The answered messages are in place after every step.
LEMMA IntactStep ==
    ASSUME ContentInv, NEW w \in Writers, CalmStep(w)
    PROVE  Intact'
  <1> SUFFICES ASSUME NEW i \in DOMAIN log', log'[i].msg \in acked',
                      NEW p \in log'[i].off..(Ends(log'[i]) - 1)
               PROVE  /\ data'[log'[i].file][p] = log'[i].msg
                      /\ mask'[log'[i].file][p] = IF Encrypted THEN 1 ELSE 0
    BY DEF Intact, Ends
  <1>1. pc[w] # "idle" => calls[w] \in 1..MaxCalls /\ Msg(w) \notin acked
    BY CallFacts DEF ContentInv, OnePerCall, Msg
  <1>2. CASE i \in DOMAIN log /\ log'[i] = log[i] /\ log[i].msg \in acked
    <2>1. pc[w] \in {"copy", "encrypt"} => log[i].msg # Msg(w)
      BY <1>1, <1>2
    <2>2. /\ data'[log[i].file][p] = data[log[i].file][p]
          /\ mask'[log[i].file][p] = mask[log[i].file][p]
      BY <1>2, <2>1, OthersKeepTheirBytes
    <2> QED
      BY <1>2, <2>2 DEF ContentInv, Intact
  <1>3. CASE i \in DOMAIN log /\ log'[i] = log[i] /\ log[i].msg \notin acked
    <2>1. /\ log[i].msg = Msg(w)
          /\ \/ Copy(w) /\ ~Encrypted
             \/ Encrypt(w) /\ mask' = ApplyKeyStream(map[ptr[w]], off[w], len[w])
      <3>1. acked' # acked
        BY <1>3
      <3> USE DEF Return
      <3>2. CASE \/ Refuse(w) \/ Call(w) \/ CheckSize(w) \/ Load(w) \/ Reserve(w) \/ Overflow(w)
                 \/ Pad(w) \/ PadEncrypt(w)
        BY <3>1, <3>2 DEF Refuse, Call, BeginCall, CheckSize, Load, Reserve, Overflow, FetchAdd,
                          Pad, PadEncrypt
      <3>3. CASE \/ Lock(w) \/ Retry(w) \/ StartSwitch(w) \/ MapNewFile(w) \/ SwitchFails(w)
                 \/ ZeroOffset(w) \/ Publish(w) \/ Retire(w) \/ Segv(w)
        BY <3>1, <3>3 DEF Lock, Retry, StartSwitch, MapNewFile, SwitchFails, ZeroOffset, Publish,
                          Retire, Segv
      <3>4. CASE Copy(w)
        <4>1. ~Encrypted
          <5>1. Encrypted => acked' = acked
            BY <3>4 DEF Copy
          <5> QED
            BY <3>1, <5>1
        <4>2. acked' = acked \cup {Msg(w)}
          BY <3>4, <4>1 DEF Copy
        <4>3. log[i].msg = Msg(w)
          BY <1>3, <4>2
        <4>4. Copy(w) /\ ~Encrypted
          BY <3>4, <4>1
        <4> QED
          BY <4>3, <4>4
      <3>5. CASE Encrypt(w)
        BY <1>3, <3>1, <3>5 DEF Encrypt
      <3> QED
        BY <3>2, <3>3, <3>4, <3>5 DEF CalmStep, Step, Proceed
    <2>2. pc[w] \in {"copy", "encrypt"}
      BY <2>1 DEF Copy, Encrypt
    <2>3. log[i].file = tgt[w] /\ log[i].off = off[w] /\ log[i].len = len[w]
      <3>1. PICK j \in DOMAIN log : /\ log[j].file = tgt[w] /\ log[j].off = off[w]
                                    /\ log[j].len = len[w] /\ log[j].msg = Msg(w)
        BY <2>2 DEF ContentInv, Ticketed
      <3>2. i = j
        BY <1>3, <2>1, <3>1 DEF ContentInv, OnePerCall
      <3> QED
        BY <3>1, <3>2
    <2>4. p \in off[w]..(off[w] + len[w] - 1)
      <3>1. Ends(log'[i]) = off[w] + len[w] /\ log'[i].off = off[w]
        BY <1>3, <2>3 DEF Ends
      <3> QED
        BY <3>1, CallFacts DEF ContentInv
    <2>5. CASE Copy(w) /\ ~Encrypted
      BY <1>3, <2>1, <2>3, <2>4, <2>5, CopyFills DEF ContentInv
    <2>6. CASE Encrypt(w) /\ mask' = ApplyKeyStream(map[ptr[w]], off[w], len[w])
      <3>1. /\ pc[w] = "encrypt" /\ data' = data /\ Encrypted
        BY <2>6 DEF Encrypt, ContentInv, Copied
      <3>2. data[tgt[w]][p] = Msg(w) /\ mask[tgt[w]][p] = 0
        BY <2>4, <3>1 DEF ContentInv, Copied
      <3>3. map[ptr[w]] = tgt[w] /\ tgt[w] \in Files
        BY <3>1, HoldsItsFile DEF ContentInv, CalmInv, Holding
      <3>4. p \in Pos
        BY <2>2, <2>4, CallFacts, SizesAssumption DEF ContentInv, CalmInv, Granted, Pos
      <3>5. mask'[tgt[w]][p] = 1
        BY <2>4, <2>6, <3>2, <3>3, <3>4 DEF ApplyKeyStream, ContentInv, CalmInv, HandleInv, TypeOK, FileTypes
      <3> QED
        BY <1>3, <2>1, <2>3, <3>1, <3>2, <3>5
    <2> QED
      BY <2>1, <2>5, <2>6
  <1>4. CASE Reserve(w) /\ i = Len(log) + 1
    <2>1. log'[i].msg = Msg(w) /\ acked' = acked /\ pc[w] = "reserve"
      BY <1>4, ReserveAppends DEF ContentInv, Reserve, FetchAdd
    <2> QED
      BY <1>1, <2>1
  <1>5. CASE ~Reserve(w)
    BY <1>2, <1>3, <1>5, LogUnchanged DEF CalmStep
  <1> QED
    BY <1>2, <1>3, <1>4, <1>5, ReserveAppends DEF ContentInv

\* ContentInv holds of the freshly opened handle.
LEMMA InitContentInv == Init => ContentInv
  <1>1. Init => Ticketed /\ OnePerCall /\ TailFree /\ Copied /\ Intact
    BY DEF Init, Ticketed, OnePerCall, TailFree, Copied, Intact
  <1> QED
    BY <1>1, InitCalmInv DEF ContentInv

\* ContentInv is inductive: every calm step keeps it.
LEMMA ContentInvStep == ContentInv /\ [CalmNext]_vars => ContentInv'
  <1> SUFFICES ASSUME ContentInv, [CalmNext]_vars
               PROVE  ContentInv'
    OBVIOUS
  <1>1. CalmInv'
    BY CalmInvStep DEF ContentInv
  <1>2. ASSUME NEW w \in Writers, CalmStep(w)
        PROVE  Ticketed' /\ OnePerCall' /\ TailFree' /\ Copied' /\ Intact'
    BY <1>2, TicketedStep, OnePerCallStep, TailFreeStep, CopiedStep, IntactStep DEF ContentInv
  <1>3. CASE UNCHANGED vars
    <2>1. Ticketed' /\ OnePerCall' /\ TailFree'
      BY <1>3 DEF ContentInv, Ticketed, OnePerCall, TailFree, Ends, Msg, vars
    <2>2. Copied'
      BY <1>3 DEF ContentInv, Copied, Msg, vars
    <2>3. Intact'
      BY <1>3 DEF ContentInv, Intact, Ends, vars
    <2> QED
      BY <1>1, <2>1, <2>2, <2>3 DEF ContentInv
  <1> QED
    BY <1>1, <1>2, <1>3 DEF CalmNext, Finished, ContentInv

\* The inductive invariant holds in every calm behaviour.
LEMMA ContentInvariant == CalmSpec => []ContentInv
  BY InitContentInv, ContentInvStep, PTL DEF CalmSpec

\* Every byte of a message that was answered SUCCESS stays where its
\* reservation is, encrypted once if the handle encrypts.
THEOREM AnsweredIntact == CalmSpec => []Intact
  <1>1. ContentInv => Intact
    BY DEF ContentInv
  <1> QED
    BY <1>1, ContentInvariant, PTL

-----------------------------------------------------------------------------
(***************************************************************************)
(* LzLogger implements LzLog.                                              *)
(***************************************************************************)
\* The abstract state that a state of LzLogger stands for.
Stored == [i \in DOMAIN log |-> log[i].msg]
StatusAt(label) == IF label = "idle" THEN "idle"
                   ELSE IF label \in {"copy", "encrypt"} THEN "stored" ELSE "pending"
Status == [w \in Writers |-> StatusAt(pc[w])]

\* A writer that moves to a label changes its own status only.
LEMMA StatusMoves ==
    ASSUME pc \in [Writers -> Labels], NEW w \in Writers, NEW label, Goto(w, label)
    PROVE  Status' = [Status EXCEPT ![w] = StatusAt(label)]
  BY DEF Goto, Status

\* Reserve gives the message the next place in the log.
LEMMA StoredAppends ==
    ASSUME TypeOK, NEW w \in Writers, Reserve(w)
    PROVE  Stored' = Append(Stored, Msg(w))
  <1>1. log \in Seq(Reservation)
    BY DEF TypeOK, HistoryTypes
  <1> DEFINE r == [file |-> map[ptr[w]], off |-> used[map[ptr[w]]], len |-> len[w], msg |-> Msg(w)]
  <1>2. log' = Append(log, r) /\ r.msg = Msg(w)
    BY DEF Reserve
  <1>3. Len(log) \in Nat /\ DOMAIN log = 1..Len(log)
    BY <1>1
  <1>4. /\ DOMAIN log' = 1..(Len(log) + 1) /\ log'[Len(log) + 1] = r
        /\ \A i \in 1..Len(log) : log'[i] = log[i]
    BY <1>1, <1>2
  <1> HIDE DEF r
  <1>5. Stored' = [i \in 1..(Len(log) + 1) |-> log'[i].msg]
    BY <1>4 DEF Stored
  <1>6. Stored = [i \in 1..Len(log) |-> log[i].msg]
    BY <1>3 DEF Stored
  <1>7. Stored \in Seq({log[i].msg : i \in 1..Len(log)}) /\ Len(Stored) = Len(log)
    BY <1>3, <1>6
  <1> DEFINE S == {log[i].msg : i \in 1..Len(log)} \cup {Msg(w)}
             q == Append(Stored, Msg(w))
  <1>8. /\ q \in Seq(S) /\ Len(q) = Len(log) + 1
        /\ \A i \in 1..(Len(log) + 1) : q[i] = IF i = Len(log) + 1 THEN Msg(w) ELSE Stored[i]
    <2>1. Stored \in Seq(S) /\ Msg(w) \in S
      BY <1>3, <1>6
    <2> HIDE DEF S
    <2> QED
      BY <1>3, <1>7, <2>1
  <1>9. \A i \in 1..(Len(log) + 1) :
           log'[i].msg = IF i = Len(log) + 1 THEN Msg(w) ELSE Stored[i]
    BY <1>2, <1>3, <1>4, <1>6
  <1> HIDE DEF q, S
  <1>10. q = [i \in 1..(Len(log) + 1) |-> q[i]]
    BY <1>8
  <1>11. Stored' = q
    BY <1>5, <1>8, <1>9, <1>10
  <1> QED
    BY <1>11 DEF q

\* Every step is one of LzLog, or leaves what LzLog sees alone.
LEMMA StepSimulation ==
    ASSUME HandleInv, NEW w \in Writers, Step(w)
    PROVE  \/ Abs!ACall(w) \/ Abs!ARefuse(w) \/ Abs!AStore(w) \/ Abs!ASucceed(w) \/ Abs!AFail(w)
           \/ UNCHANGED <<Stored, Status, calls, acked>>
  <1>1. pc \in [Writers -> Labels]
    BY DEF HandleInv, TypeOK, CallTypes
  <1>2. Status \in [Writers -> {"idle", "pending", "stored"}] /\ Status[w] = StatusAt(pc[w])
    BY DEF Status, StatusAt
  <1>3. \A label : Goto(w, label) => Status' = [Status EXCEPT ![w] = StatusAt(label)]
    BY <1>1, StatusMoves
  <1>4. log' = log => Stored' = Stored
    BY DEF Stored
  <1>5. \A label : Goto(w, label) /\ StatusAt(label) = StatusAt(pc[w]) => Status' = Status
    BY <1>2, <1>3
  <1>6. pc' = pc => Status' = Status
    BY DEF Status
  <1> USE DEF Return
  <1>7. CASE Refuse(w)
    BY <1>4, <1>6, <1>7, <1>2 DEF Refuse, BeginCall, StatusAt, Abs!ARefuse, Stored, Status
  <1>8. CASE Call(w)
    BY <1>3, <1>4, <1>8, <1>2 DEF Call, BeginCall, StatusAt, Abs!ACall, Stored, Status
  <1>9. CASE Reserve(w)
    BY <1>3, <1>9, <1>2, StoredAppends DEF HandleInv, Reserve, FetchAdd, StatusAt, Abs!AStore, Msg, Stored, Status
  <1>10. CASE CheckSize(w) \/ SwitchFails(w)
    BY <1>3, <1>4, <1>5, <1>10, <1>2 DEF CheckSize, SwitchFails, StatusAt, Abs!AFail, Stored, Status
  <1>11. CASE Copy(w) \/ Encrypt(w)
    BY <1>3, <1>4, <1>5, <1>11, <1>2 DEF Copy, Encrypt, StatusAt, Abs!AFail, Abs!ASucceed, Msg, Stored, Status
  <1>12. CASE Load(w) \/ Overflow(w) \/ Pad(w) \/ PadEncrypt(w) \/ Lock(w) \/ Retry(w)
    BY <1>4, <1>5, <1>12 DEF Load, Overflow, FetchAdd, Pad, PadEncrypt, Lock, Retry, StatusAt
  <1>13. CASE \/ StartSwitch(w) \/ MapNewFile(w) \/ ZeroOffset(w) \/ Publish(w) \/ Retire(w)
              \/ Segv(w)
    BY <1>4, <1>5, <1>6, <1>13
       DEF StartSwitch, MapNewFile, ZeroOffset, Publish, Retire, Segv, StatusAt
  <1> QED
    BY <1>7, <1>8, <1>9, <1>10, <1>11, <1>12, <1>13 DEF Step, Proceed

\* Every call is answered SUCCESS only if its message took a place in the log
\* during the call, and it takes at most one.
THEOREM OneLog == Spec => ImplementsLzLog
  <1>1. Init => Abs!AInit
    BY DEF Init, Abs!AInit
  <1>2. HandleInv /\ [Next]_vars => [Abs!ANext]_(Abs!avars)
    <2> SUFFICES ASSUME HandleInv, [Next]_vars PROVE [Abs!ANext]_(Abs!avars)
      OBVIOUS
    <2>1. ASSUME NEW w \in Writers, Step(w) PROVE [Abs!ANext]_(Abs!avars)
      BY <2>1, StepSimulation DEF Abs!ANext, Abs!avars, Stored, Status, StatusAt
    <2>2. CASE UNCHANGED vars
      BY <2>2 DEF vars, Abs!avars
    <2> QED
      BY <2>1, <2>2 DEF Next, Finished
  <1> QED
    BY <1>1, <1>2, HandleInvariant, PTL DEF Spec, ImplementsLzLog, Abs!ASpec
=============================================================================
