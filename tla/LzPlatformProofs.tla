-------------------------- MODULE LzPlatformProofs --------------------------
(***************************************************************************)
(* Theorems about LzPlatform, for any number of threads and contexts and   *)
(* any levels, buffer size and line lengths.                               *)
(***************************************************************************)
EXTENDS LzPlatform, TLAPS

DartPoints == {"dart:level", "dart:check", "dart:fetch"}
LifePoints == {"prepare:check", "prepare:open", "prepare:init", "prepare:ffi", "prepare:ffilevel",
               "prepare:clean", "setlevel:ffi", "close:check", "close:native", "close:handle",
               "close:init"}
CleanPoints == {"unborn", "asleep", "clean", "clean:failed"}

Args == [ffi : BOOLEAN, lvl : 0..5, h : Contexts \cup {Null}, next : Labels,
         out : BOOLEAN, line : Lines]

\* Where a thread can be, and where its log call goes on.
Place(t, at, next) ==
    \/ t \in Callers /\ at \in CallPoints \cup {"idle"} /\ next = "idle"
    \/ /\ t \in Owners /\ at \in (LogPoints \ DartPoints) \cup LifePoints \cup {"idle"}
       /\ at \in LogPoints => next \in {"prepare:clean", "close:check"}
    \/ /\ t \in Cleaners /\ at \in (LogPoints \ DartPoints) \cup CleanPoints
       /\ at \in LogPoints => next \in {"clean", "clean:failed", "unborn"}

\* What the locals hold there: the level on its way to the FFI global is one
\* that was set, a line on its way out is whole, and a Dart call knows it is one.
Locals(at, a) ==
    /\ at \in {"prepare:ffilevel", "setlevel:ffi"} => a.lvl \in Levels \cup {INFO}
    /\ at = "return" /\ a.out =>
          a.line.len = a.line.newline + 1 /\ a.line.len < a.line.buffer
    /\ at \in DartPoints => a.ffi /\ platform = "android"
    /\ at \in {"check", "level", "fetch"} => ~a.ffi

Home(t) == Place(t, pc[t], arg[t].next) /\ Locals(pc[t], arg[t])

\* The inductive invariant of Spec.
PlaceInv == PlatformTypeOK /\ \A t \in Threads : Home(t)

Fields == /\ platform \in {"android", "ios"}
          /\ inited \in BOOLEAN /\ handle \in Contexts \cup {Null} /\ level \in Levels \cup {INFO}
          /\ gHandle \in Contexts \cup {Null} /\ gLevel \in Levels \cup {INFO}
          /\ live \subseteq Contexts

USE DEF fields, globals

-----------------------------------------------------------------------------
\* The types that a step of a thread works on.
LEMMA ThreadTypes ==
    ASSUME PlatformTypeOK
    PROVE  pc \in [Threads -> Labels] /\ arg \in [Threads -> Args]
  BY DEF PlatformTypeOK, Args

\* A thread that goes on to a place leaves the others where they are.
LEMMA GoMoves ==
    ASSUME pc \in [Threads -> Labels], arg \in [Threads -> Args],
           NEW t \in Threads, NEW l, NEW a, Go(t, l, a)
    PROVE  /\ pc'[t] = l /\ arg'[t] = a
           /\ \A s \in Threads \ {t} : pc'[s] = pc[s] /\ arg'[s] = arg[s]
           /\ l \in Labels => pc' \in [Threads -> Labels]
           /\ a \in Args => arg' \in [Threads -> Args]
  BY DEF Go

LEMMA GotoGoes ==
    ASSUME arg \in [Threads -> Args], NEW t \in Threads, NEW l, Goto(t, l)
    PROVE  Go(t, l, arg[t])
  BY DEF Go, Goto

\* The locals that a step gives its thread.
LogArg(l, next) == [NoArg EXCEPT !.lvl = l, !.next = next]
DartArg(l) == [NoArg EXCEPT !.ffi = TRUE, !.lvl = l]
LevelArg(l) == [NoArg EXCEPT !.lvl = l]
AnswerArg(next, out, line) == [NoArg EXCEPT !.next = next, !.out = out, !.line = line]
HandleArg(a, x) == [a EXCEPT !.h = x]

LEMMA NoArgHolds ==
    NoArg \in Args /\ NoArg.next = "idle" /\ ~NoArg.ffi /\ ~NoArg.out /\ NoLine \in Lines
  BY DEF NoArg, NoLine, Args, Labels, Lines

LEMMA LogArgHolds ==
    ASSUME NEW l \in 0..5, NEW n \in Labels
    PROVE  /\ LogArg(l, n) \in Args /\ LogArg(l, n).lvl = l /\ LogArg(l, n).next = n
           /\ ~LogArg(l, n).ffi /\ ~LogArg(l, n).out
  BY NoArgHolds DEF Args, LogArg

LEMMA DartArgHolds ==
    ASSUME NEW l \in 0..5
    PROVE  /\ DartArg(l) \in Args /\ DartArg(l).ffi /\ DartArg(l).lvl = l
           /\ DartArg(l).next = "idle" /\ ~DartArg(l).out
  BY NoArgHolds DEF Args, DartArg

LEMMA LevelArgHolds ==
    ASSUME NEW l \in 0..5
    PROVE  /\ LevelArg(l) \in Args /\ LevelArg(l).lvl = l /\ LevelArg(l).next = "idle"
           /\ ~LevelArg(l).ffi /\ ~LevelArg(l).out
  BY NoArgHolds DEF Args, LevelArg

LEMMA AnswerArgHolds ==
    ASSUME NEW n \in Labels, NEW o \in BOOLEAN, NEW x \in Lines
    PROVE  /\ AnswerArg(n, o, x) \in Args /\ AnswerArg(n, o, x).next = n
           /\ AnswerArg(n, o, x).out = o /\ AnswerArg(n, o, x).line = x
           /\ ~AnswerArg(n, o, x).ffi
  BY NoArgHolds DEF Args, AnswerArg

LEMMA HandleArgHolds ==
    ASSUME NEW a \in Args, NEW x \in Contexts \cup {Null}
    PROVE  /\ HandleArg(a, x) \in Args /\ HandleArg(a, x).h = x /\ HandleArg(a, x).lvl = a.lvl
           /\ HandleArg(a, x).next = a.next /\ HandleArg(a, x).ffi = a.ffi
           /\ HandleArg(a, x).out = a.out
  BY DEF Args, HandleArg

\* Every line that is formatted is whole.
LEMMA LineWhole ==
    ASSUME NEW l, NEW n \in Sizes, NEW room \in BOOLEAN
    PROVE  LET x == Line(l, n, room)
           IN  x \in Lines /\ x.len = x.newline + 1 /\ x.len < x.buffer
  BY PlatformAssumption DEF Line, Lines

\* Every step that moves its thread alone is one of these.
LEMMA Shapes ==
    ASSUME NEW t
    PROVE  /\ \A l, n : LogThen(t, l, n) => Go(t, "check", LogArg(l, n))
           /\ \A o, x : Answer(t, o, x) => Go(t, "return", AnswerArg(arg[t].next, o, x))
           /\ Dropped(t) => Go(t, "return", AnswerArg(arg[t].next, FALSE, NoLine))
           /\ Stop(t) => Go(t, "idle", NoArg)
  BY DEF LogThen, Answer, Dropped, Stop, LogArg, AnswerArg

\* The steps that hand something over, with what their thread takes along.
LEMMA Handovers ==
    ASSUME NEW t
    PROVE  /\ DartCall(t) => \E l \in Levels :
                IF platform = "android" THEN Go(t, "dart:level", DartArg(l))
                ELSE Go(t, "check", LogArg(l, "idle"))
           /\ Fetch(t) => IF handle = Null THEN Dropped(t)
                          ELSE Go(t, "write", HandleArg(arg[t], handle))
           /\ DartFetch(t) => Go(t, "write", HandleArg(arg[t], gHandle))
           /\ UseFetch(t) => IF handle = Null THEN Stop(t)
                             ELSE Go(t, IF At(t, "flush:fetch") THEN "flush:use" ELSE "export:use",
                                     HandleArg(NoArg, handle))
           /\ SetFfiHandle(t) => Go(t, "prepare:ffilevel", LevelArg(level))
           /\ SetLogLevel(t) => IF platform = "android" THEN Go(t, "setlevel:ffi", LevelArg(level'))
                                ELSE UNCHANGED <<pc, arg>>
  <1>1. DartCall(t) => \E l \in Levels :
            IF platform = "android" THEN Go(t, "dart:level", DartArg(l))
            ELSE Go(t, "check", LogArg(l, "idle"))
    BY DEF DartCall, LogThen, DartArg, LogArg
  <1>2. /\ Fetch(t) => IF handle = Null THEN Dropped(t)
                       ELSE Go(t, "write", HandleArg(arg[t], handle))
        /\ DartFetch(t) => Go(t, "write", HandleArg(arg[t], gHandle))
    BY DEF Fetch, DartFetch, HandleArg
  <1>3. UseFetch(t) => IF handle = Null THEN Stop(t)
                       ELSE Go(t, IF At(t, "flush:fetch") THEN "flush:use" ELSE "export:use",
                               HandleArg(NoArg, handle))
    BY DEF UseFetch, HandleArg
  <1>4. SetFfiHandle(t) => Go(t, "prepare:ffilevel", LevelArg(level))
    BY DEF SetFfiHandle, LevelArg
  <1>5. SetLogLevel(t) => IF platform = "android" THEN Go(t, "setlevel:ffi", LevelArg(level'))
                          ELSE UNCHANGED <<pc, arg>>
    BY DEF SetLogLevel, LevelArg
  <1> QED
    BY <1>1, <1>2, <1>3, <1>4, <1>5
-----------------------------------------------------------------------------
\* A step of a thread to a place it may be in, with locals that fit.
Lands(t) == \E l \in Labels, a \in Args : Go(t, l, a) /\ Place(t, l, a.next) /\ Locals(l, a)

LEMMA LandingHolds ==
    ASSUME PlaceInv, NEW t \in Threads, Lands(t), platform' = platform
    PROVE  /\ pc' \in [Threads -> Labels] /\ arg' \in [Threads -> Args]
           /\ \A s \in Threads : Home(s)'
  <1>1. PICK l \in Labels, a \in Args : Go(t, l, a) /\ Place(t, l, a.next) /\ Locals(l, a)
    BY DEF Lands
  <1>2. pc \in [Threads -> Labels] /\ arg \in [Threads -> Args]
    BY ThreadTypes DEF PlaceInv
  <1>3. /\ pc'[t] = l /\ arg'[t] = a
        /\ \A s \in Threads \ {t} : pc'[s] = pc[s] /\ arg'[s] = arg[s]
        /\ pc' \in [Threads -> Labels] /\ arg' \in [Threads -> Args]
    BY <1>1, <1>2, GoMoves
  <1>4. Home(t)'
    BY <1>1, <1>3 DEF Home, Place, Locals
  <1>5. ASSUME NEW s \in Threads \ {t} PROVE Home(s)'
    <2>1. Home(s)
      BY DEF PlaceInv
    <2> QED
      BY <1>3, <1>5, <2>1 DEF Home, Place, Locals
  <1> QED
    BY <1>3, <1>4, <1>5

\* The landings that several steps share.
LEMMA LogLands ==
    ASSUME NEW t, NEW l \in 0..5, NEW n \in Labels, LogThen(t, l, n), Place(t, "check", n)
    PROVE  Lands(t)
  <1>1. Go(t, "check", LogArg(l, n))
    BY Shapes
  <1>2. Locals("check", LogArg(l, n))
    BY LogArgHolds DEF Locals, DartPoints
  <1>3. "check" \in Labels
    BY DEF Labels, CallPoints, LogPoints
  <1> QED
    BY <1>1, <1>2, <1>3, LogArgHolds DEF Lands

LEMMA GotoLands ==
    ASSUME PlaceInv, NEW t \in Threads, NEW l \in Labels, Goto(t, l),
           Place(t, l, arg[t].next), Locals(l, arg[t])
    PROVE  Lands(t)
  BY ThreadTypes, GotoGoes DEF PlaceInv, Lands

LEMMA StopLands ==
    ASSUME NEW t \in Owners \cup Callers, Stop(t)
    PROVE  Lands(t)
  <1>1. Go(t, "idle", NoArg)
    BY Shapes
  <1>2. Place(t, "idle", NoArg.next) /\ Locals("idle", NoArg)
    BY NoArgHolds DEF Place, Locals, DartPoints, LogPoints
  <1> QED
    BY <1>1, <1>2, NoArgHolds DEF Lands, Labels

LEMMA AnswerLands ==
    ASSUME NEW t, NEW n \in Labels, NEW o \in BOOLEAN, NEW x \in Lines,
           Go(t, "return", AnswerArg(n, o, x)), Place(t, "return", n),
           o => x.len = x.newline + 1 /\ x.len < x.buffer
    PROVE  Lands(t)
  <1>1. Locals("return", AnswerArg(n, o, x))
    BY AnswerArgHolds DEF Locals, DartPoints
  <1> QED
    BY <1>1, AnswerArgHolds DEF Lands, Labels, CallPoints, LogPoints

LEMMA DroppedLands ==
    ASSUME PlaceInv, NEW t \in Threads, pc[t] \in LogPoints, Dropped(t)
    PROVE  Lands(t)
  <1>1. Place(t, pc[t], arg[t].next) /\ arg[t] \in Args
    BY ThreadTypes DEF PlaceInv, Home
  <1>2. Place(t, "return", arg[t].next) /\ arg[t].next \in Labels
    BY <1>1 DEF Place, Args, LogPoints, DartPoints, CallPoints, LifePoints, CleanPoints
  <1> QED
    BY <1>2, Shapes, AnswerLands, NoArgHolds

\* Calls of the log, flush and export.
LEMMA CallsLand ==
    ASSUME PlaceInv, NEW t \in Threads,
           LogCall(t) \/ DartCall(t) \/ FlushCall(t) \/ ExportCall(t)
    PROVE  Lands(t)
  <1>1. t \in Callers
    BY DEF LogCall, DartCall, FlushCall, ExportCall
  <1>2. Levels \subseteq 0..5 /\ "idle" \in Labels /\ Place(t, "check", "idle")
    BY <1>1, PlatformAssumption DEF Labels, Place, CallPoints, LogPoints
  <1>3. CASE LogCall(t)
    BY <1>2, <1>3, LogLands DEF LogCall
  <1>4. CASE DartCall(t)
    <2>1. PICK l \in Levels : IF platform = "android" THEN Go(t, "dart:level", DartArg(l))
                              ELSE Go(t, "check", LogArg(l, "idle"))
      BY <1>4, Handovers
    <2>2. CASE platform = "android"
      <3>1. Place(t, "dart:level", DartArg(l).next) /\ Locals("dart:level", DartArg(l))
        BY <1>1, <1>2, <2>2, DartArgHolds DEF Place, Locals, CallPoints, LogPoints, DartPoints
      <3> QED
        BY <1>2, <2>1, <2>2, <3>1, DartArgHolds DEF Lands, Labels, CallPoints, LogPoints
    <2>3. CASE platform # "android"
      <3>1. Locals("check", LogArg(l, "idle"))
        BY <1>2, LogArgHolds DEF Locals, DartPoints
      <3> QED
        BY <1>2, <2>1, <2>3, <3>1, LogArgHolds DEF Lands, Labels, CallPoints, LogPoints
    <2> QED
      BY <2>2, <2>3
  <1>5. CASE FlushCall(t) \/ ExportCall(t)
    <2>1. PICK l \in {"flush:check", "export:check"} : Goto(t, l) /\ pc[t] = "idle"
      BY <1>5 DEF FlushCall, ExportCall, At
    <2>2. Place(t, pc[t], arg[t].next)
      BY DEF PlaceInv, Home
    <2>3. arg[t].next = "idle" /\ l \in Labels
      BY <1>1, <2>1, <2>2, PlatformAssumption DEF Place, Labels, CallPoints
    <2>4. Place(t, l, arg[t].next) /\ Locals(l, arg[t])
      BY <1>1, <2>1, <2>3 DEF Place, Locals, CallPoints, DartPoints
    <2> QED
      BY <2>1, <2>3, <2>4, GotoLands
  <1> QED
    BY <1>3, <1>4, <1>5

\* Where a thread is, from the invariant.
LEMMA AtHome ==
    ASSUME PlaceInv, NEW t \in Threads
    PROVE  /\ Place(t, pc[t], arg[t].next) /\ Locals(pc[t], arg[t])
           /\ pc[t] \in Labels /\ arg[t] \in Args /\ arg[t].next \in Labels
           /\ arg[t].lvl \in 0..5
  <1>1. arg[t] \in Args /\ pc[t] \in Labels
    BY ThreadTypes DEF PlaceInv
  <1> QED
    BY <1>1 DEF PlaceInv, Home, Args

\* The steps of a log call.
LEMMA LogStepsLand ==
    ASSUME PlaceInv, NEW t \in Threads,
           \/ Check(t) \/ Filter(t) \/ Fetch(t) \/ Write(t) \/ Return(t)
           \/ DartFilter(t) \/ DartCheck(t) \/ DartFetch(t)
    PROVE  Lands(t)
  <1> DEFINE a == arg[t]
  <1>1. /\ Place(t, pc[t], a.next) /\ Locals(pc[t], a)
        /\ pc[t] \in Labels /\ a \in Args /\ a.next \in Labels
    BY AtHome
  <1>2. {handle, gHandle} \subseteq Contexts \cup {Null}
    BY DEF PlaceInv, PlatformTypeOK
  <1> HIDE DEF a
  <1>3. CASE Check(t) \/ Filter(t)
    <2>1. Dropped(t) \/ \E l \in {"level", "fetch"} : Goto(t, l)
      BY <1>3 DEF Check, Filter
    <2>2. pc[t] \in {"check", "level"}
      BY <1>3 DEF Check, Filter, At
    <2>3. CASE Dropped(t)
      BY <2>2, <2>3, DroppedLands DEF LogPoints
    <2>4. CASE \E l \in {"level", "fetch"} : Goto(t, l)
      <3>1. PICK l \in {"level", "fetch"} : Goto(t, l)
        BY <2>4
      <3>2. Place(t, l, a.next)
        BY <1>1, <2>2 DEF Place, LogPoints, DartPoints, LifePoints, CleanPoints, CallPoints
      <3>3. Locals(l, a)
        BY <1>1, <2>2 DEF Locals, DartPoints
      <3> QED
        BY <3>1, <3>2, <3>3, GotoLands DEF a, Labels, CallPoints, LogPoints
    <2> QED
      BY <2>1, <2>3, <2>4
  <1>4. CASE Fetch(t) \/ DartFetch(t)
    <2>1. pc[t] \in {"fetch", "dart:fetch"}
      BY <1>4 DEF Fetch, DartFetch, At
    <2>2. Dropped(t) \/ \E h \in {handle, gHandle} : Go(t, "write", HandleArg(a, h))
      BY <1>4, Handovers DEF a
    <2>3. CASE Dropped(t)
      BY <2>1, <2>3, DroppedLands DEF LogPoints
    <2>4. ASSUME NEW h \in {handle, gHandle}, Go(t, "write", HandleArg(a, h)) PROVE Lands(t)
      <3>1. HandleArg(a, h) \in Args /\ HandleArg(a, h).next = a.next
        BY <1>1, <1>2, HandleArgHolds
      <3>2. Place(t, "write", a.next)
        BY <1>1, <2>1 DEF Place, LogPoints, DartPoints, LifePoints, CleanPoints, CallPoints
      <3>3. Locals("write", HandleArg(a, h))
        BY DEF Locals, DartPoints
      <3> QED
        BY <2>4, <3>1, <3>2, <3>3 DEF Lands, Labels, CallPoints, LogPoints
    <2> QED
      BY <2>2, <2>3, <2>4
  <1>5. CASE Write(t)
    <2>1. PICK n \in Sizes, room \in BOOLEAN : Answer(t, TRUE, Line(arg[t].lvl, n, room))
      BY <1>5 DEF Write
    <2> DEFINE x == Line(arg[t].lvl, n, room)
    <2>2. x \in Lines /\ x.len = x.newline + 1 /\ x.len < x.buffer
      BY LineWhole
    <2>3. Go(t, "return", AnswerArg(a.next, TRUE, x))
      BY <2>1, Shapes DEF a
    <2>4. Place(t, "return", a.next)
      <3>1. pc[t] = "write"
        BY <1>5 DEF Write, At
      <3> QED
        BY <1>1, <3>1 DEF Place, LogPoints, DartPoints, LifePoints, CleanPoints, CallPoints
    <2> HIDE DEF x
    <2> QED
      BY <1>1, <2>2, <2>3, <2>4, AnswerLands
  <1>6. CASE Return(t)
    <2>1. pc[t] = "return" /\ Go(t, a.next, NoArg)
      BY <1>6 DEF Return, At, a
    <2>2. Place(t, a.next, "idle")
      BY <1>1, <2>1 DEF Place, LogPoints, DartPoints, LifePoints, CleanPoints, CallPoints
    <2>3. Locals(a.next, NoArg)
      BY <1>1, <2>1, <2>2, PlatformAssumption, NoArgHolds
         DEF Locals, Place, LogPoints, DartPoints, LifePoints, CleanPoints, CallPoints
    <2> QED
      BY <1>1, <2>1, <2>2, <2>3, NoArgHolds DEF Lands
  <1>7. CASE DartFilter(t) \/ DartCheck(t)
    <2>1. Dropped(t) \/ \E l \in {"dart:check", "dart:fetch"} : Goto(t, l)
      BY <1>7 DEF DartFilter, DartCheck
    <2>2. pc[t] \in {"dart:level", "dart:check"}
      BY <1>7 DEF DartFilter, DartCheck, At
    <2>3. CASE Dropped(t)
      BY <2>2, <2>3, DroppedLands DEF LogPoints
    <2>4. ASSUME NEW l \in {"dart:check", "dart:fetch"}, Goto(t, l) PROVE Lands(t)
      <3>1. Place(t, l, a.next)
        BY <1>1, <2>2 DEF Place, LogPoints, DartPoints, LifePoints, CleanPoints, CallPoints
      <3>2. Locals(l, a)
        BY <1>1, <2>2 DEF Locals, DartPoints
      <3> QED
        BY <2>4, <3>1, <3>2, GotoLands DEF a, Labels, CallPoints, LogPoints
    <2> QED
      BY <2>1, <2>3, <2>4
  <1> QED
    BY <1>3, <1>4, <1>5, <1>6, <1>7

\* The steps of flush and export.
LEMMA UseStepsLand ==
    ASSUME PlaceInv, NEW t \in Threads, UseCheck(t) \/ UseFetch(t) \/ Flush(t) \/ Export(t)
    PROVE  Lands(t)
  <1>1. pc[t] \in {"flush:check", "export:check", "flush:fetch", "export:fetch",
                   "flush:use", "export:use"}
    BY DEF UseCheck, UseFetch, Flush, Export, At
  <1>2. t \in Callers /\ arg[t].next = "idle"
    BY <1>1, AtHome DEF Place, LogPoints, DartPoints, LifePoints, CleanPoints
  <1>3. ASSUME Stop(t) PROVE Lands(t)
    BY <1>2, <1>3, StopLands
  <1>4. CASE UseCheck(t)
    <2>1. Stop(t) \/ \E l \in {"flush:fetch", "export:fetch"} : Goto(t, l)
      BY <1>4 DEF UseCheck
    <2>2. ASSUME NEW l \in {"flush:fetch", "export:fetch"}, Goto(t, l) PROVE Lands(t)
      <3>1. Place(t, l, arg[t].next) /\ Locals(l, arg[t]) /\ l \in Labels
        BY <1>2 DEF Place, Locals, DartPoints, CallPoints, Labels
      <3> QED
        BY <2>2, <3>1, GotoLands
    <2> QED
      BY <1>3, <2>1, <2>2
  <1>5. CASE UseFetch(t)
    <2>1. Stop(t) \/ \E l \in {"flush:use", "export:use"} : Go(t, l, HandleArg(NoArg, handle))
      BY <1>5, Handovers
    <2>2. ASSUME NEW l \in {"flush:use", "export:use"}, Go(t, l, HandleArg(NoArg, handle))
          PROVE  Lands(t)
      <3>1. HandleArg(NoArg, handle) \in Args /\ HandleArg(NoArg, handle).next = "idle"
        BY NoArgHolds, HandleArgHolds DEF PlaceInv, PlatformTypeOK
      <3>2. Place(t, l, "idle") /\ Locals(l, HandleArg(NoArg, handle)) /\ l \in Labels
        BY <1>2 DEF Place, Locals, DartPoints, CallPoints, UsePoints, Labels
      <3> QED
        BY <2>2, <3>1, <3>2 DEF Lands
    <2> QED
      BY <1>3, <2>1, <2>2
  <1>6. CASE Flush(t)
    BY <1>3, <1>6 DEF Flush
  <1>7. CASE Export(t)
    <2>1. PICK l \in {INFO, ERROR} : LogThen(t, l, "idle")
      BY <1>7 DEF Export
    <2>2. Place(t, "check", "idle") /\ l \in 0..5 /\ "idle" \in Labels
      BY <1>2 DEF Place, CallPoints, LogPoints, Labels, INFO, ERROR
    <2> QED
      BY <2>1, <2>2, LogLands
  <1> QED
    BY <1>4, <1>5, <1>6, <1>7

\* The steps of the clean-up thread.
LEMMA CleanerStepsLand ==
    ASSUME PlaceInv, NEW t \in Threads, Wake(t) \/ Clean(t) \/ CleanFailed(t)
    PROVE  Lands(t)
  <1>1. pc[t] \in CleanPoints
    BY DEF Wake, Clean, CleanFailed, At, CleanPoints
  <1>2. t \in Cleaners
    BY <1>1, AtHome DEF Place, LogPoints, UsePoints, CallPoints, DartPoints, LifePoints, CleanPoints
  <1>3. \/ \E l \in {INFO, WARN, ERROR}, n \in {"clean", "clean:failed", "unborn"} : LogThen(t, l, n)
        \/ Goto(t, "clean:failed")
    BY DEF Wake, Clean, CleanFailed
  <1>4. ASSUME NEW l \in {INFO, WARN, ERROR}, NEW n \in {"clean", "clean:failed", "unborn"},
               LogThen(t, l, n)
        PROVE  Lands(t)
    <2>1. l \in 0..5 /\ n \in Labels /\ Place(t, "check", n)
      BY <1>2 DEF INFO, WARN, ERROR, Labels, Place, LogPoints, DartPoints
    <2> QED
      BY <1>4, <2>1, LogLands
  <1>5. CASE Goto(t, "clean:failed")
    <2>1. Place(t, "clean:failed", arg[t].next) /\ Locals("clean:failed", arg[t])
      BY <1>2 DEF Place, Locals, CleanPoints, LogPoints, DartPoints
    <2> QED
      BY <1>5, <2>1, GotoLands DEF Labels
  <1> QED
    BY <1>3, <1>4, <1>5

\* The steps of prepareLog, setLogLevel and close, but the one that starts a
\* clean-up thread.
LifeStep(t) == \/ PrepareCall(t) \/ CloseCall(t) \/ Terminate(t)
               \/ PrepareCheck(t) \/ Open(t) \/ OpenFails(t) \/ SetInitialized(t)
               \/ SetFfiHandle(t) \/ SetFfiLevel(t)
               \/ SetLogLevelFfi(t)
               \/ CloseCheck(t) \/ CloseNative(t) \/ ForgetHandle(t) \/ ForgetInit(t)

LEMMA LifeStepsOwned ==
    ASSUME PlaceInv, NEW t \in Threads, LifeStep(t) \/ SetLogLevel(t) \/ StartCleaner(t)
    PROVE  t \in Owners
  <1>1. t \in Owners \/ pc[t] \in LifePoints
    BY DEF LifeStep, PrepareCall, CloseCall, Terminate, SetLogLevel, PrepareCheck, Open, OpenFails,
           SetInitialized, SetFfiHandle, SetFfiLevel, SetLogLevelFfi, CloseCheck, CloseNative,
           ForgetHandle, ForgetInit, StartCleaner, At, LifePoints
  <1> QED
    BY <1>1, AtHome DEF Place, LogPoints, UsePoints, CallPoints, DartPoints, LifePoints, CleanPoints

LEMMA LifeStepsLand ==
    ASSUME PlaceInv, NEW t \in Threads, LifeStep(t)
    PROVE  Lands(t)
  <1>1. t \in Owners
    BY LifeStepsOwned
  <1>2. \/ Stop(t)
        \/ \E n \in {"prepare:clean", "close:check"} : LogThen(t, INFO, n)
        \/ SetFfiHandle(t)
        \/ \E l \in LifePoints \ {"prepare:ffilevel", "setlevel:ffi"} : Goto(t, l)
    BY DEF LifeStep, PrepareCall, CloseCall, Terminate, PrepareCheck, Open, OpenFails,
           SetInitialized, SetFfiLevel, SetLogLevelFfi, CloseCheck, CloseNative,
           ForgetHandle, ForgetInit, LifePoints
  <1>3. CASE Stop(t)
    BY <1>1, <1>3, StopLands
  <1>4. ASSUME NEW n \in {"prepare:clean", "close:check"}, LogThen(t, INFO, n) PROVE Lands(t)
    <2>1. INFO \in 0..5 /\ n \in Labels /\ Place(t, "check", n)
      BY <1>1 DEF INFO, Labels, Place, LogPoints, DartPoints
    <2> QED
      BY <1>4, <2>1, LogLands
  <1>5. CASE SetFfiHandle(t)
    <2>1. Go(t, "prepare:ffilevel", LevelArg(level)) /\ level \in Levels \cup {INFO}
      BY <1>5, Handovers DEF PlaceInv, PlatformTypeOK
    <2>2. level \in 0..5
      BY <2>1, PlatformAssumption DEF INFO
    <2>3. Place(t, "prepare:ffilevel", "idle")
      BY <1>1 DEF Place, LifePoints, LogPoints
    <2>4. Locals("prepare:ffilevel", LevelArg(level))
      BY <2>1, <2>2, LevelArgHolds DEF Locals, DartPoints
    <2> QED
      BY <2>1, <2>2, <2>3, <2>4, LevelArgHolds DEF Lands, Labels
  <1>6. ASSUME NEW l \in LifePoints \ {"prepare:ffilevel", "setlevel:ffi"}, Goto(t, l)
        PROVE  Lands(t)
    <2>1. l \in Labels /\ Place(t, l, arg[t].next) /\ Locals(l, arg[t])
      BY <1>1 DEF Labels, Place, Locals, LifePoints, LogPoints, DartPoints
    <2> QED
      BY <1>6, <2>1, GotoLands
  <1> QED
    BY <1>2, <1>3, <1>4, <1>5, <1>6

LEMMA SetLogLevelLands ==
    ASSUME PlaceInv, NEW t \in Threads, SetLogLevel(t)
    PROVE  Lands(t) \/ UNCHANGED <<pc, arg>>
  <1>1. CASE platform = "android"
    <2>1. Go(t, "setlevel:ffi", LevelArg(level')) /\ level' \in Levels
      BY <1>1, Handovers DEF SetLogLevel
    <2>2. t \in Owners /\ level' \in 0..5
      BY <2>1, LifeStepsOwned, PlatformAssumption
    <2>3. Place(t, "setlevel:ffi", "idle")
      BY <2>2 DEF Place, LifePoints, LogPoints
    <2>4. Locals("setlevel:ffi", LevelArg(level'))
      BY <2>1, <2>2, LevelArgHolds DEF Locals, DartPoints
    <2> QED
      BY <2>1, <2>2, <2>3, <2>4, LevelArgHolds DEF Lands, Labels
  <1>2. CASE platform # "android"
    BY <1>2, Handovers
  <1> QED
    BY <1>1, <1>2

\* prepareLog ends, and a clean-up thread may have been born.
LEMMA StartCleanerLands ==
    ASSUME PlaceInv, NEW t \in Threads, StartCleaner(t)
    PROVE  pc' \in [Threads -> Labels] /\ arg' = arg /\ \A s \in Threads : Home(s)'
  <1>1. t \in Owners /\ arg' = arg /\ platform' = platform
    BY LifeStepsOwned DEF StartCleaner
  <1>2. pc \in [Threads -> Labels]
    BY ThreadTypes DEF PlaceInv
  <1>3. PICK c \in Cleaners \cup {t} :
          \/ pc' = [pc EXCEPT ![t] = "idle"] /\ c = t
          \/ pc' = [pc EXCEPT ![c] = "asleep", ![t] = "idle"] /\ c \in Cleaners
    BY DEF StartCleaner
  <1>4. c \in Threads /\ (c = t \/ c \in Cleaners \ {t})
    BY <1>1, <1>3, PlatformAssumption DEF Threads
  <1>5. /\ pc'[t] = "idle" /\ (c # t => pc'[c] = "asleep")
        /\ \A s \in Threads \ {t, c} : pc'[s] = pc[s]
        /\ pc' \in [Threads -> Labels]
    BY <1>2, <1>3, <1>4 DEF Labels
  <1>6. Home(t)'
    BY <1>1, <1>5 DEF Home, Place, Locals, LogPoints, DartPoints
  <1>7. c # t => Home(c)'
    BY <1>1, <1>4, <1>5 DEF Home, Place, Locals, LogPoints, DartPoints, CleanPoints
  <1>8. ASSUME NEW s \in Threads \ {t, c} PROVE Home(s)'
    <2>1. Home(s)
      BY DEF PlaceInv
    <2> QED
      BY <1>1, <1>5, <1>8, <2>1 DEF Home, Place, Locals
  <1> QED
    BY <1>1, <1>5, <1>6, <1>7, <1>8

\* The fields keep their types: in particular the level that reaches the FFI
\* global is one that was set.
LEMMA FieldsHold ==
    ASSUME PlaceInv, NEW t \in Threads, Begin(t) \/ Proceed(t)
    PROVE  Fields' /\ platform' = platform
  <1>1. Fields
    BY DEF PlaceInv, PlatformTypeOK, Fields
  <1>2. Begin(t) => Fields' /\ platform' = platform
    BY <1>1 DEF Begin, LogCall, DartCall, FlushCall, ExportCall, PrepareCall, SetLogLevel,
                CloseCall, Terminate, Fields
  <1>3. SetFfiLevel(t) \/ SetLogLevelFfi(t) => Fields' /\ platform' = platform
    <2>1. SetFfiLevel(t) \/ SetLogLevelFfi(t) => arg[t].lvl \in Levels \cup {INFO}
      BY AtHome DEF SetFfiLevel, SetLogLevelFfi, At, Locals
    <2> QED
      BY <1>1, <2>1 DEF SetFfiLevel, SetLogLevelFfi, Fields
  <1>4. PrepareCheck(t) \/ Open(t) \/ OpenFails(t) \/ SetInitialized(t) \/ SetFfiHandle(t)
        \/ CloseCheck(t) \/ CloseNative(t) \/ ForgetHandle(t) \/ ForgetInit(t)
        => Fields' /\ platform' = platform
    BY <1>1 DEF PrepareCheck, Open, OpenFails, SetInitialized, SetFfiHandle, CloseCheck,
                CloseNative, ForgetHandle, ForgetInit, Fields
  <1>5. \/ Check(t) \/ Filter(t) \/ Fetch(t) \/ Write(t) \/ Return(t)
        \/ DartFilter(t) \/ DartCheck(t) \/ DartFetch(t)
        \/ UseCheck(t) \/ UseFetch(t) \/ Flush(t) \/ Export(t) \/ StartCleaner(t)
        \/ Wake(t) \/ Clean(t) \/ CleanFailed(t)
        => UNCHANGED <<platform, fields, globals, live>>
    BY DEF Check, Filter, Fetch, Write, Return, DartFilter, DartCheck, DartFetch, UseCheck,
           UseFetch, Flush, Export, StartCleaner, Wake, Clean, CleanFailed
  <1>6. UNCHANGED <<platform, fields, globals, live>> => Fields' /\ platform' = platform
    BY <1>1 DEF Fields
  <1> QED
    BY <1>2, <1>3, <1>4, <1>5, <1>6 DEF Proceed

LEMMA RecordHolds ==
    ASSUME may \in [Threads -> SUBSET BOOLEAN], Record
    PROVE  may' \in [Threads -> SUBSET BOOLEAN]
  <1>1. \A t \in Threads : Wanted(arg[t].lvl)' \in BOOLEAN
    BY DEF Wanted
  <1>2. \A t \in Threads :
          (IF ~Logging(t)' THEN {}
           ELSE IF pc'[t] = "return" THEN may[t]
           ELSE (IF Logging(t) THEN may[t] ELSE {})
                \cup IF Loose(t)' THEN BOOLEAN ELSE {Wanted(arg[t].lvl)'}) \in SUBSET BOOLEAN
    BY <1>1
  <1> QED
    BY <1>2 DEF Record

-----------------------------------------------------------------------------
LEMMA PlaceStart == Init => PlaceInv
  <1> SUFFICES ASSUME Init PROVE PlaceInv
    OBVIOUS
  <1>1. pc \in [Threads -> Labels] /\ arg \in [Threads -> Args]
    BY NoArgHolds DEF Init, Labels
  <1>2. may \in [Threads -> SUBSET BOOLEAN]
    BY DEF Init
  <1>3. PlatformTypeOK
    BY <1>1, <1>2 DEF Init, PlatformTypeOK, Args
  <1>4. ASSUME NEW t \in Threads PROVE Home(t)
    <2>1. arg[t] = NoArg /\ pc[t] = IF t \in Cleaners THEN "unborn" ELSE "idle"
      BY DEF Init
    <2> QED
      BY <2>1, NoArgHolds DEF Home, Place, Locals, Threads, LogPoints, DartPoints, CleanPoints
  <1> QED
    BY <1>3, <1>4 DEF PlaceInv

LEMMA PlaceStep == PlaceInv /\ [Next]_vars => PlaceInv'
  <1> SUFFICES ASSUME PlaceInv, [Next]_vars PROVE PlaceInv'
    OBVIOUS
  <1>1. CASE UNCHANGED vars
    BY <1>1 DEF vars, PlaceInv, PlatformTypeOK, Home, Place, Locals
  <1>2. ASSUME NEW t \in Threads, Step(t) PROVE PlaceInv'
    <2>1. (Begin(t) \/ Proceed(t)) /\ Record
      BY <1>2 DEF Step
    <2>2. Fields' /\ platform' = platform
      BY <2>1, FieldsHold
    <2>3. may' \in [Threads -> SUBSET BOOLEAN]
      BY <2>1, RecordHolds DEF PlaceInv, PlatformTypeOK
    <2>4. Lands(t) \/ UNCHANGED <<pc, arg>> \/ StartCleaner(t)
      BY <2>1, CallsLand, LogStepsLand, UseStepsLand, CleanerStepsLand, LifeStepsLand,
         SetLogLevelLands DEF Begin, Proceed, LifeStep
    <2>5. pc' \in [Threads -> Labels] /\ arg' \in [Threads -> Args] /\ \A s \in Threads : Home(s)'
      <3>1. CASE Lands(t)
        BY <2>2, <3>1, LandingHolds
      <3>2. CASE UNCHANGED <<pc, arg>>
        BY <2>2, <3>2, ThreadTypes DEF PlaceInv, Home, Place, Locals
      <3>3. CASE StartCleaner(t)
        BY <3>3, StartCleanerLands, ThreadTypes DEF PlaceInv
      <3> QED
        BY <2>4, <3>1, <3>2, <3>3
    <2>6. PlatformTypeOK'
      BY <2>2, <2>3, <2>5 DEF PlatformTypeOK, Fields, Args
    <2> QED
      BY <2>5, <2>6 DEF PlaceInv
  <1> QED
    BY <1>1, <1>2 DEF Next

\* Threads are where they can be, with locals that fit.
LEMMA PlaceAlways == Spec => []PlaceInv
  BY PlaceStart, PlaceStep, PTL DEF Spec

\* The types hold, so that no level reaches the FFI global but one that was
\* set, or the one the log starts with.
THEOREM PlatformTypes == Spec => []PlatformTypeOK
  <1>1. PlaceInv => PlatformTypeOK
    BY DEF PlaceInv
  <1> QED
    BY <1>1, PlaceAlways, PTL

\* Each line handed to lz_logger_write ends with its newline inside its buffer,
\* for every buffer size, level and length of message.
THEOREM LinesAreWhole == Spec => []LinesEnd
  <1>1. PlaceInv => LinesEnd
    BY DEF PlaceInv, Home, Locals, LinesEnd
  <1> QED
    BY <1>1, PlaceAlways, PTL

-----------------------------------------------------------------------------
(***************************************************************************)
(* prepareLog and close, called one at a time.  Between their steps the    *)
(* fields and the contexts that are open go apart, each time in the way    *)
(* that the program point of the caller tells.                             *)
(***************************************************************************)
Settled == IF inited THEN handle # Null /\ live = {handle} ELSE handle = Null /\ live = {}

Parting == {"prepare:init", "close:handle", "close:init"}
Stage(at) ==
    /\ at \notin Parting => Settled
    /\ at = "prepare:open" => ~inited
    /\ at \in {"prepare:ffi", "prepare:ffilevel", "close:native", "close:handle", "close:init"}
         => inited
    /\ at = "prepare:init" => ~inited /\ handle # Null /\ live = {handle}
    /\ at = "close:handle" => handle # Null /\ live = {}
    /\ at = "close:init" => handle = Null /\ live = {}

LifeInv == /\ LifeAlone
           /\ ~LifeBusy => Settled
           /\ \A o \in Owners : pc[o] # "idle" => Stage(pc[o])

\* Where the steps of a thread take it.
LEMMA Moves ==
    ASSUME PlaceInv, NEW t \in Threads
    PROVE  /\ \A l : Goto(t, l) => pc'[t] = l
           /\ \A l, a : Go(t, l, a) => pc'[t] = l
           /\ \A l, n : LogThen(t, l, n) => pc'[t] = "check"
           /\ Dropped(t) => pc'[t] = "return"
           /\ \A o, x : Answer(t, o, x) => pc'[t] = "return"
           /\ Stop(t) => pc'[t] = "idle"
  <1>1. pc \in [Threads -> Labels]
    BY ThreadTypes DEF PlaceInv
  <1>2. \A l, a : Go(t, l, a) => pc'[t] = l
    BY <1>1 DEF Go
  <1>3. \A l : Goto(t, l) => pc'[t] = l
    BY <1>1 DEF Goto
  <1> QED
    BY <1>2, <1>3, Shapes

\* A step moves its own thread, and no owner but its own.
LEMMA OthersStay ==
    ASSUME PlaceInv, NEW t \in Threads, Begin(t) \/ Proceed(t)
    PROVE  /\ \A s \in Threads \ {t} : pc'[s] = pc[s] \/ s \in Cleaners
           /\ \A s \in Threads \ {t} : arg'[s] = arg[s]
           /\ \A s \in Threads \ {t} : pc'[s] = pc[s] \/ pc'[s] = "asleep"
  <1>1. pc \in [Threads -> Labels] /\ arg \in [Threads -> Args]
    BY ThreadTypes DEF PlaceInv
  <1>2. Lands(t) \/ UNCHANGED <<pc, arg>> \/ StartCleaner(t)
    BY CallsLand, LogStepsLand, UseStepsLand, CleanerStepsLand, LifeStepsLand,
       SetLogLevelLands DEF Begin, Proceed, LifeStep
  <1>3. CASE Lands(t)
    BY <1>1, <1>3, GoMoves DEF Lands
  <1>4. CASE UNCHANGED <<pc, arg>>
    BY <1>4
  <1>5. CASE StartCleaner(t)
    <2>1. arg' = arg
      BY <1>5 DEF StartCleaner
    <2>2. \/ pc' = [pc EXCEPT ![t] = "idle"]
          \/ \E c \in Cleaners : pc' = [pc EXCEPT ![c] = "asleep", ![t] = "idle"]
      BY <1>5 DEF StartCleaner
    <2> QED
      BY <1>1, <2>1, <2>2
  <1> QED
    BY <1>2, <1>3, <1>4, <1>5

\* What is not a step of prepareLog or close leaves the contexts, and the
\* fields that lead to them, alone.
LEMMA OnlyLifeSteps ==
    ASSUME NEW t, Begin(t) \/ Proceed(t), ~LifeStep(t)
    PROVE  UNCHANGED <<platform, inited, handle, live, gHandle>>
  BY DEF Begin, Proceed, LifeStep, LogCall, DartCall, FlushCall, ExportCall, SetLogLevel, Check,
         Filter, Fetch, Write, Return, DartFilter, DartCheck, DartFetch, UseCheck, UseFetch,
         Flush, Export, StartCleaner, Wake, Clean, CleanFailed

\* Where such a step of an owner starts and ends.
LEMMA OwnerMoves ==
    ASSUME PlaceInv, NEW t \in Owners, Begin(t) \/ Proceed(t), ~LifeStep(t)
    PROVE  /\ pc[t] \in LogPoints \cup {"idle", "prepare:clean"}
           /\ pc'[t] \in LogPoints \cup {"idle", "prepare:clean", "close:check", "setlevel:ffi"}
           /\ SetLogLevel(t) \/ /\ pc'[t] # "setlevel:ffi"
                                /\ UNCHANGED <<platform, fields, globals, live>>
  <1> USE DEF At
  <1>1. t \in Threads /\ t \notin Callers /\ t \notin Cleaners
    BY PlatformAssumption DEF Threads
  <1>2. Place(t, pc[t], arg[t].next)
    BY <1>1, AtHome
  <1>3. pc[t] \in (LogPoints \ DartPoints) \cup LifePoints \cup {"idle"}
    BY <1>1, <1>2 DEF Place
  <1>4. \/ SetLogLevel(t) \/ StartCleaner(t)
        \/ Check(t) \/ Filter(t) \/ Fetch(t) \/ Write(t) \/ Return(t)
    BY <1>1, <1>3 DEF Begin, Proceed, LifeStep, LogCall, DartCall, FlushCall, ExportCall,
         DartFilter, DartCheck, DartFetch, UseCheck, UseFetch, Flush, Export, Wake, Clean,
         CleanFailed, LogPoints, DartPoints, LifePoints
  <1>5. pc[t] \in LogPoints \cup {"idle", "prepare:clean"}
    BY <1>4 DEF SetLogLevel, StartCleaner, Check, Filter, Fetch, Write, Return, LogPoints
  <1>6. pc'[t] \in LogPoints \cup {"idle", "prepare:clean", "close:check", "setlevel:ffi"}
    <2>1. SetLogLevel(t) => pc'[t] \in {"idle", "setlevel:ffi"}
      <3>1. SetLogLevel(t) => (Go(t, "setlevel:ffi", LevelArg(level')) \/ pc' = pc) /\ pc[t] = "idle"
        BY Handovers DEF SetLogLevel
      <3> QED
        BY <1>1, <3>1, Moves
    <2>2. StartCleaner(t) => pc'[t] = "idle"
      BY <1>1, ThreadTypes DEF PlaceInv, StartCleaner
    <2>3. Check(t) \/ Filter(t) \/ Write(t) => pc'[t] \in LogPoints
      BY <1>1, Moves DEF Check, Filter, Write, LogPoints
    <2>4. Fetch(t) => pc'[t] \in LogPoints
      BY <1>1, Moves, Handovers DEF LogPoints
    <2>5. Return(t) => pc'[t] \in {"prepare:clean", "close:check"}
      BY <1>1, <1>2, Moves DEF Return, Place, LogPoints
    <2> QED
      BY <1>4, <2>1, <2>2, <2>3, <2>4, <2>5
  <1>7. ~SetLogLevel(t) => pc'[t] # "setlevel:ffi" /\ UNCHANGED <<platform, fields, globals, live>>
    <2>1. ~SetLogLevel(t) => UNCHANGED <<platform, fields, globals, live>>
      BY <1>4 DEF StartCleaner, Check, Filter, Fetch, Write, Return
    <2>2. Check(t) \/ Filter(t) \/ Write(t) => pc'[t] # "setlevel:ffi"
      BY <1>1, Moves DEF Check, Filter, Write
    <2>3. Fetch(t) => pc'[t] # "setlevel:ffi"
      BY <1>1, Moves, Handovers
    <2>4. Return(t) => pc'[t] # "setlevel:ffi"
      BY <1>1, <1>2, Moves DEF Return, Place, LogPoints
    <2>5. StartCleaner(t) => pc'[t] # "setlevel:ffi"
      BY <1>1, ThreadTypes DEF PlaceInv, StartCleaner
    <2> QED
      BY <1>4, <2>1, <2>2, <2>3, <2>4, <2>5
  <1> QED
    BY <1>5, <1>6, <1>7

\* The fields are settled before it and after it.
LEMMA OwnerLogs ==
    ASSUME PlaceInv, NEW t \in Owners, Begin(t) \/ Proceed(t), ~LifeStep(t), Stage(pc[t])
    PROVE  Stage(pc[t])'
  <1>1. /\ pc[t] \in LogPoints \cup {"idle", "prepare:clean"}
        /\ pc'[t] \in LogPoints \cup {"idle", "prepare:clean", "close:check", "setlevel:ffi"}
    BY OwnerMoves
  <1>2. Settled /\ Settled'
    BY <1>1, OnlyLifeSteps DEF Stage, LogPoints, Parting, Settled
  <1> QED
    BY <1>1, <1>2 DEF Stage, LogPoints, Parting

\* Each step of prepareLog, setLogLevel and close leads from its stage to the next.
LEMMA OwnerLives ==
    ASSUME PlaceInv, NEW t \in Owners, LifeStep(t), Stage(pc[t])
    PROVE  Stage(pc[t])'
  <1> USE DEF At
  <1>1. t \in Threads
    BY DEF Threads
  <1>2. CASE PrepareCall(t) \/ CloseCall(t) \/ Terminate(t) \/ PrepareCheck(t) \/ CloseCheck(t)
    <2>1. UNCHANGED <<inited, handle, live>> /\ pc[t] \in {"idle", "prepare:check", "close:check"}
      BY <1>2 DEF PrepareCall, CloseCall, Terminate, PrepareCheck, CloseCheck
    <2>2. \/ pc'[t] \in {"idle", "check", "prepare:check", "close:check"}
          \/ pc'[t] = "prepare:open" /\ ~inited
          \/ pc'[t] = "close:native" /\ inited
      BY <1>1, <1>2, Moves DEF PrepareCall, CloseCall, Terminate, PrepareCheck, CloseCheck, Up
    <2>3. Settled /\ Settled'
      BY <2>1 DEF Stage, Parting, Settled
    <2> QED
      BY <2>1, <2>2, <2>3 DEF Stage, Parting
  <1>3. CASE Open(t)
    BY <1>1, <1>3, Moves, PlatformAssumption DEF Open, Stage, Settled, Parting
  <1>4. CASE OpenFails(t)
    BY <1>1, <1>4, Moves DEF OpenFails, Stage, Settled, Parting
  <1>5. CASE SetInitialized(t)
    BY <1>1, <1>5, Moves DEF SetInitialized, Stage, Settled, Parting
  <1>6. CASE SetFfiHandle(t)
    <2>1. pc[t] = "prepare:ffi" /\ pc'[t] = "prepare:ffilevel" /\ UNCHANGED <<inited, handle, live>>
      BY <1>1, <1>6, Moves, Handovers DEF SetFfiHandle
    <2> QED
      BY <2>1 DEF Stage, Settled, Parting
  <1>7. CASE SetFfiLevel(t) \/ SetLogLevelFfi(t)
    <2>1. /\ pc[t] \in {"prepare:ffilevel", "setlevel:ffi"} /\ pc'[t] \in {"check", "idle"}
          /\ UNCHANGED <<inited, handle, live>>
      BY <1>1, <1>7, Moves DEF SetFfiLevel, SetLogLevelFfi
    <2> QED
      BY <2>1 DEF Stage, Settled, Parting
  <1>8. CASE CloseNative(t)
    BY <1>1, <1>8, Moves DEF CloseNative, Stage, Settled, Parting
  <1>9. CASE ForgetHandle(t)
    BY <1>1, <1>9, Moves DEF ForgetHandle, Stage, Settled, Parting
  <1>10. CASE ForgetInit(t)
    BY <1>1, <1>10, Moves DEF ForgetInit, Stage, Settled, Parting
  <1> QED
    BY <1>2, <1>3, <1>4, <1>5, <1>6, <1>7, <1>8, <1>9, <1>10 DEF LifeStep

LEMMA LifeStart == Init => LifeInv
  BY PlatformAssumption DEF Init, LifeInv, LifeAlone, LifeBusy, Settled, Threads

LEMMA LifeKept ==
    ASSUME PlaceInv, LifeInv, NEW t \in Threads, Begin(t) \/ Proceed(t), LifeAlone'
    PROVE  LifeInv'
  <1>1. \A o \in Owners \ {t} : pc'[o] = pc[o]
    BY OthersStay, PlatformAssumption DEF Threads
  <1>2. CASE t \in Owners
    <2>1. pc[t] # "idle" => \A o \in Owners \ {t} : pc[o] = "idle"
      BY <1>2 DEF LifeInv, LifeAlone
    <2>2. pc'[t] # "idle" => \A o \in Owners \ {t} : pc[o] = "idle"
      BY <1>1, <1>2 DEF LifeAlone
    <2>3. CASE \A o \in Owners \ {t} : pc[o] = "idle"
      <3>1. Stage(pc[t])
        BY <1>2, <2>3 DEF LifeInv, LifeBusy, Stage
      <3>2. Stage(pc[t])'
        BY <1>2, <3>1, OwnerLogs, OwnerLives
      <3>3. pc'[t] = "idle" => Settled'
        BY <3>2 DEF Stage, Parting
      <3>4. \A o \in Owners \ {t} : pc'[o] = "idle"
        BY <1>1, <2>3
      <3>5. (~LifeBusy => Settled)'
        BY <1>2, <3>3 DEF LifeBusy
      <3> QED
        BY <3>2, <3>4, <3>5 DEF LifeInv, Stage
    <2>4. CASE \E o \in Owners \ {t} : pc[o] # "idle"
      <3>1. pc[t] = "idle" /\ pc'[t] = "idle"
        BY <2>1, <2>2, <2>4
      <3>2. SetLogLevel(t) \/ ~LifeStep(t)
        BY <1>2, <3>1, Moves DEF LifeStep, PrepareCall, CloseCall, Terminate, PrepareCheck, Open,
             OpenFails, SetInitialized, SetFfiHandle, SetFfiLevel, SetLogLevelFfi, CloseCheck,
             CloseNative, ForgetHandle, ForgetInit, At, Threads
      <3>3. UNCHANGED <<inited, handle, live>>
        BY <3>2, OnlyLifeSteps DEF SetLogLevel
      <3>4. \A o \in Owners : pc'[o] = pc[o]
        BY <1>1, <3>1
      <3> QED
        BY <3>3, <3>4 DEF LifeInv, LifeBusy, Settled, Stage
    <2> QED
      BY <2>3, <2>4
  <1>3. CASE t \notin Owners
    <2>1. UNCHANGED <<inited, handle, live>>
      BY <1>3, LifeStepsOwned, OnlyLifeSteps
    <2>2. \A o \in Owners : pc'[o] = pc[o]
      BY <1>1, <1>3
    <2> QED
      BY <2>1, <2>2 DEF LifeInv, LifeBusy, Settled, Stage
  <1> QED
    BY <1>2, <1>3

LEMMA LifeAlways == ConsiderateSpec => [](PlaceInv /\ LifeInv)
  <1>1. PlaceInv /\ LifeInv /\ [Next /\ Considerate']_vars => (PlaceInv /\ LifeInv)'
    <2> SUFFICES ASSUME PlaceInv, LifeInv, [Next /\ Considerate']_vars
                 PROVE  (PlaceInv /\ LifeInv)'
      OBVIOUS
    <2>1. PlaceInv'
      BY PlaceStep
    <2>2. CASE UNCHANGED vars
      BY <2>1, <2>2 DEF vars, LifeInv, LifeAlone, LifeBusy, Settled, Stage
    <2>3. CASE Next /\ Considerate'
      BY <2>1, <2>3, LifeKept DEF Next, Step, Considerate
    <2> QED
      BY <2>2, <2>3
  <1> QED
    BY <1>1, PlaceStart, LifeStart, PTL DEF ConsiderateSpec

\* No context is left open behind a failed or repeated prepareLog, and between
\* two calls of prepareLog and close the fields say which one is open.
THEOREM NoContextForgotten == ConsiderateSpec => []NoneForgotten
  <1>1. LifeInv => NoneForgotten
    BY DEF LifeInv, NoneForgotten, LifeBusy, Settled, Stage, Parting
  <1> QED
    BY <1>1, LifeAlways, PTL

-----------------------------------------------------------------------------
(***************************************************************************)
(* The calls that go into the library beside them.                         *)
(***************************************************************************)
\* A Dart call that saw a handle before it formatted its line finds one after.
DartInv == \A t \in Threads : pc[t] = "dart:fetch" => gHandle # Null

UseInv == PlaceInv /\ LifeInv /\ Drained /\ DartWaits /\ DartInv /\ UsesLive

\* The handle a call fetches is of an open context: no close is between freeing
\* it and forgetting it, for a call that is under way keeps it from that point.
LEMMA FetchedIsLive ==
    ASSUME UseInv, NEW t \in Threads, pc[t] \in CallPoints, ~Closing(t), handle # Null
    PROVE  handle \in live
  <1>1. \A s \in Threads : ~Closing(s)
    BY DEF UseInv, Drained
  <1>2. CASE LifeBusy
    <2>1. PICK o \in Owners : pc[o] # "idle" /\ Stage(pc[o])
      BY <1>2 DEF LifeBusy, UseInv, LifeInv
    <2>2. o \in Threads /\ ~Closing(o)
      BY <1>1 DEF Threads
    <2> QED
      BY <2>1, <2>2 DEF Stage, Settled, Closing, Parting
  <1>3. CASE ~LifeBusy
    BY <1>3 DEF UseInv, LifeInv, Settled
  <1> QED
    BY <1>2, <1>3

\* Only prepareLog changes g_ffi_handle, to a handle that is not NULL.
LEMMA GlobalSet ==
    ASSUME UseInv, NEW t \in Threads, Begin(t) \/ Proceed(t)
    PROVE  gHandle' = gHandle \/ gHandle' # Null
  <1>1. CASE SetFfiHandle(t)
    <2>1. t \in Owners /\ pc[t] = "prepare:ffi" /\ gHandle' = handle
      BY <1>1, LifeStepsOwned DEF UseInv, LifeStep, SetFfiHandle, At
    <2> QED
      BY <2>1 DEF UseInv, LifeInv, Stage, Settled, Parting
  <1>2. CASE LifeStep(t) /\ ~SetFfiHandle(t)
    BY <1>2 DEF LifeStep, PrepareCall, CloseCall, Terminate, PrepareCheck, Open,
         OpenFails, SetInitialized, SetFfiLevel, SetLogLevelFfi, CloseCheck,
         CloseNative, ForgetHandle, ForgetInit
  <1>3. CASE ~LifeStep(t)
    BY <1>3, OnlyLifeSteps
  <1> QED
    BY <1>1, <1>2, <1>3

\* The steps that lead a call on.
Onward == (LogPoints \ {"check", "dart:level"}) \cup UsePoints

LEMMA LeadOn ==
    ASSUME PlaceInv, NEW t \in Threads, Begin(t) \/ Proceed(t), pc'[t] \in Onward
    PROVE  \/ Check(t) \/ Filter(t) \/ Fetch(t) \/ Write(t)
           \/ DartFilter(t) \/ DartCheck(t) \/ DartFetch(t) \/ UseFetch(t)
  <1> USE DEF At
  <1>1. CASE LogCall(t) \/ FlushCall(t) \/ ExportCall(t) \/ UseCheck(t) \/ Flush(t) \/ Export(t)
             \/ Wake(t) \/ Clean(t) \/ CleanFailed(t)
    BY <1>1, Moves DEF LogCall, FlushCall, ExportCall, UseCheck, Flush, Export, Wake, Clean,
         CleanFailed, Onward, LogPoints, UsePoints
  <1>2. CASE LifeStep(t)
    BY <1>2, Moves, Handovers DEF LifeStep, PrepareCall, CloseCall, Terminate, PrepareCheck, Open,
         OpenFails, SetInitialized, SetFfiLevel, SetLogLevelFfi, CloseCheck,
         CloseNative, ForgetHandle, ForgetInit, Onward, LogPoints, UsePoints
  <1>3. CASE DartCall(t)
    BY <1>3, Moves, Handovers DEF Onward, LogPoints, UsePoints
  <1>4. CASE SetLogLevel(t)
    <2>1. pc[t] = "idle" /\ (UNCHANGED <<pc, arg>> \/ pc'[t] = "setlevel:ffi")
      BY <1>4, Moves, Handovers DEF SetLogLevel
    <2> QED
      BY <1>4, <2>1 DEF Onward, LogPoints, UsePoints
  <1>5. CASE StartCleaner(t)
    <2>1. pc'[t] = "idle"
      BY <1>5, ThreadTypes DEF PlaceInv, StartCleaner
    <2> QED
      BY <2>1 DEF Onward, LogPoints, UsePoints
  <1>6. CASE Return(t)
    <2>1. pc[t] = "return" /\ pc'[t] = arg[t].next
      BY <1>6, Moves DEF Return
    <2>2. Place(t, "return", arg[t].next)
      BY <2>1, AtHome
    <2> QED
      BY <2>1, <2>2 DEF Place, Onward, LogPoints, UsePoints
  <1> QED
    BY <1>1, <1>2, <1>3, <1>4, <1>5, <1>6 DEF Begin, Proceed, LifeStep

\* The steps from which a call goes into the library.
LEMMA EntersUse ==
    ASSUME PlaceInv, NEW t \in Threads, Begin(t) \/ Proceed(t), pc'[t] \in UsePoints
    PROVE  Fetch(t) \/ DartFetch(t) \/ UseFetch(t)
  <1>1. Check(t) \/ Filter(t) \/ Write(t) \/ DartFilter(t) \/ DartCheck(t)
        => pc'[t] \in {"level", "fetch", "return", "dart:check", "dart:fetch"}
    BY Moves DEF Check, Filter, Write, DartFilter, DartCheck
  <1>2. pc'[t] \in Onward
    BY DEF Onward, UsePoints
  <1>3. "level" \notin UsePoints /\ "fetch" \notin UsePoints /\ "return" \notin UsePoints
        /\ "dart:check" \notin UsePoints /\ "dart:fetch" \notin UsePoints
    BY DEF UsePoints
  <1> QED
    BY <1>1, <1>2, <1>3, LeadOn

\* A call takes a live context along.
LEMMA TakesLive ==
    ASSUME UseInv, NEW t \in Threads, Begin(t) \/ Proceed(t), pc'[t] \in UsePoints
    PROVE  arg'[t].h \in live /\ live' = live
  <1> USE DEF At
  <1>1. PlaceInv /\ pc \in [Threads -> Labels] /\ arg \in [Threads -> Args]
    BY ThreadTypes DEF UseInv, PlaceInv
  <1>2. Fetch(t) \/ DartFetch(t) \/ UseFetch(t)
    BY <1>1, EntersUse
  <1>3. live' = live /\ {handle, gHandle} \subseteq Contexts \cup {Null}
    BY <1>1, <1>2 DEF Fetch, DartFetch, UseFetch, PlaceInv, PlatformTypeOK
  <1>4. pc[t] \in CallPoints /\ ~Closing(t)
    BY <1>2 DEF Fetch, DartFetch, UseFetch, CallPoints, LogPoints, Closing
  <1>5. CASE Fetch(t)
    <2>1. handle # Null /\ Go(t, "write", HandleArg(arg[t], handle))
      BY <1>1, <1>5, Handovers, Moves DEF UsePoints
    <2>2. arg'[t] = HandleArg(arg[t], handle)
      BY <1>1, <2>1, GoMoves
    <2> QED
      BY <1>1, <1>3, <1>4, <2>1, <2>2, HandleArgHolds, FetchedIsLive
  <1>6. CASE UseFetch(t)
    <2>1. handle # Null /\ \E l : Go(t, l, HandleArg(NoArg, handle))
      BY <1>1, <1>6, Handovers, Moves DEF UsePoints
    <2>2. arg'[t] = HandleArg(NoArg, handle)
      BY <1>1, <2>1, GoMoves
    <2> QED
      BY <1>3, <1>4, <2>1, <2>2, NoArgHolds, HandleArgHolds, FetchedIsLive
  <1>7. CASE DartFetch(t)
    <2>1. pc[t] = "dart:fetch" /\ Go(t, "write", HandleArg(arg[t], gHandle))
      BY <1>7, Handovers DEF DartFetch
    <2>2. arg'[t] = HandleArg(arg[t], gHandle)
      BY <1>1, <2>1, GoMoves
    <2>3. t \in Callers /\ arg[t].ffi
      BY <1>1, <2>1, AtHome
         DEF Place, Locals, DartPoints, LogPoints, LifePoints, CleanPoints
    <2>4. gHandle # Null /\ gHandle \in live \cup {Null}
      BY <2>1, <2>3 DEF UseInv, DartInv, DartWaits
    <2> QED
      BY <1>1, <1>3, <2>2, <2>4, HandleArgHolds
  <1> QED
    BY <1>2, <1>5, <1>6, <1>7

\* Only DartCheck leads to where g_ffi_handle is read again.
LEMMA DartEnters ==
    ASSUME PlaceInv, NEW t \in Threads, Begin(t) \/ Proceed(t), pc'[t] = "dart:fetch"
    PROVE  DartCheck(t) /\ gHandle # Null
  <1>1. /\ ~(Check(t) \/ Filter(t) \/ Write(t) \/ DartFilter(t))
        /\ ~(Fetch(t) \/ DartFetch(t) \/ UseFetch(t))
        /\ DartCheck(t) => gHandle # Null
    <2>1. ~(Check(t) \/ Filter(t) \/ Write(t) \/ DartFilter(t))
      BY Moves DEF Check, Filter, Write, DartFilter
    <2>2. ~(Fetch(t) \/ DartFetch(t) \/ UseFetch(t))
      BY Moves, Handovers
    <2>3. DartCheck(t) => gHandle # Null
      BY Moves DEF DartCheck
    <2> QED
      BY <2>1, <2>2, <2>3
  <1>2. pc'[t] \in Onward
    BY DEF Onward, LogPoints
  <1> QED
    BY <1>1, <1>2, LeadOn

LEMMA UseStart == Init => UseInv
  <1> SUFFICES ASSUME Init PROVE UseInv
    OBVIOUS
  <1>1. \A t \in Threads : pc[t] \in {"idle", "unborn"} /\ arg[t] = NoArg
    BY DEF Init
  <1>2. Drained /\ DartWaits /\ DartInv /\ UsesLive
    BY <1>1, NoArgHolds
       DEF Init, Drained, DartWaits, DartInv, UsesLive, Closing, UsePoints, Threads
  <1> QED
    BY <1>2, PlaceStart, LifeStart DEF UseInv

LEMMA UseStep ==
    ASSUME UseInv, NEW t \in Threads, CarefulStep(t)
    PROVE  UseInv'
  <1>1. /\ PlaceInv /\ LifeInv /\ Step(t) /\ (Begin(t) \/ Proceed(t))
        /\ LifeAlone' /\ Drained' /\ DartWaits'
    BY DEF UseInv, CarefulStep, Step, Careful, Considerate
  <1>2. PlaceInv'
    BY <1>1, PlaceStep DEF Next
  <1>3. LifeInv'
    BY <1>1, LifeKept
  <1>4. /\ \A s \in Threads \ {t} : pc'[s] = pc[s] \/ pc'[s] = "asleep"
        /\ \A s \in Threads \ {t} : arg'[s] = arg[s]
    BY <1>1, OthersStay
  <1>5. DartInv'
    <2>1. pc'[t] = "dart:fetch" => gHandle' # Null
      <3>1. pc'[t] = "dart:fetch" => DartCheck(t) /\ gHandle # Null
        BY <1>1, DartEnters
      <3>2. DartCheck(t) => gHandle' = gHandle
        BY DEF DartCheck
      <3> QED
        BY <3>1, <3>2
    <2>2. ASSUME NEW s \in Threads \ {t}, pc'[s] = "dart:fetch" PROVE gHandle' # Null
      <3>1. gHandle # Null
        BY <1>4, <2>2 DEF UseInv, DartInv
      <3> QED
        BY <1>1, <3>1, GlobalSet
    <2> QED
      BY <2>1, <2>2 DEF DartInv
  <1>6. UsesLive'
    <2>1. pc'[t] \in UsePoints => arg'[t].h \in live'
      BY <1>1, TakesLive
    <2>2. ASSUME NEW s \in Threads \ {t}, pc'[s] \in UsePoints PROVE arg'[s].h \in live'
      <3>1. pc[s] = pc'[s] /\ arg'[s] = arg[s] /\ arg[s].h \in live
        BY <1>4, <2>2 DEF UseInv, UsesLive, UsePoints
      <3>2. ~CloseNative(t)
        <4>1. CloseNative(t) => pc'[t] = "close:handle"
          BY <1>1, Moves DEF CloseNative
        <4>2. s \in Threads /\ pc'[s] \in CallPoints
          BY <2>2 DEF CallPoints
        <4> QED
          BY <1>1, <2>2, <4>1, <4>2 DEF Drained, Closing
      <3>3. live \subseteq live'
        <4>1. CASE ~LifeStep(t)
          BY <1>1, <4>1, OnlyLifeSteps
        <4>2. CASE LifeStep(t)
          BY <3>2, <4>2 DEF LifeStep, PrepareCall, CloseCall, Terminate, PrepareCheck, Open,
               OpenFails, SetInitialized, SetFfiHandle, SetFfiLevel, SetLogLevelFfi, CloseCheck,
               ForgetHandle, ForgetInit
        <4> QED
          BY <4>1, <4>2
      <3> QED
        BY <3>1, <3>3
    <2> QED
      BY <2>1, <2>2 DEF UsesLive
  <1> QED
    BY <1>1, <1>2, <1>3, <1>5, <1>6 DEF UseInv

LEMMA UseStutter ==
    ASSUME UseInv, UNCHANGED vars
    PROVE  UseInv'
  <1>1. PlaceInv'
    BY PlaceStep DEF UseInv
  <1> QED
    BY <1>1 DEF vars, UseInv, LifeInv, LifeAlone, LifeBusy, Settled, Stage, Drained, Closing,
         DartWaits, DartInv, UsesLive

LEMMA UseAlways == CarefulSpec => []UseInv
  <1>1. UseInv /\ [\E t \in Threads : CarefulStep(t)]_vars => UseInv'
    BY UseStep, UseStutter
  <1> QED
    BY <1>1, UseStart, PTL DEF CarefulSpec

\* No call goes into the library with a context that was closed, as long as
\* prepareLog and close are called one at a time and with no call under way, and
\* Dart does not log between a close and the next prepareLog.
THEOREM NoUseAfterClose == CarefulSpec => []UsesLive
  <1>1. UseInv => UsesLive
    BY DEF UseInv
  <1> QED
    BY <1>1, UseAlways, PTL

-----------------------------------------------------------------------------
(***************************************************************************)
(* What a log call does, and what the fields asked for while it ran.       *)
(***************************************************************************)
\* The FFI globals say what the fields say, once prepareLog or setLogLevel has
\* copied them and until close parts them again.
Copy == gHandle = handle /\ gLevel = level

Handed(o) ==
    /\ pc[o] \in LogPoints \cup {"idle", "prepare:check", "prepare:clean", "close:check",
                                 "close:native"} /\ inited => Copy
    /\ pc[o] = "prepare:ffilevel" => gHandle = handle /\ arg[o].lvl = level
    /\ pc[o] = "setlevel:ffi" => (inited => gHandle = handle) /\ arg[o].lvl = level

CopyInv == platform = "android" =>
    /\ ~LifeBusy /\ inited => Copy
    /\ \A o \in Owners : pc[o] # "idle" => Handed(o)

\* The locals that the two steps on the way to the globals set.
LEMMA LevelTaken ==
    ASSUME PlaceInv, platform = "android", NEW t \in Threads, SetFfiHandle(t) \/ SetLogLevel(t)
    PROVE  /\ arg'[t].lvl = level'
           /\ SetFfiHandle(t) => pc'[t] = "prepare:ffilevel"
           /\ SetLogLevel(t) => pc'[t] = "setlevel:ffi"
  <1>1. pc \in [Threads -> Labels] /\ arg \in [Threads -> Args]
    BY ThreadTypes DEF PlaceInv
  <1>2. SetFfiHandle(t) => level' = level /\ Go(t, "prepare:ffilevel", LevelArg(level'))
    BY Handovers DEF SetFfiHandle
  <1>3. SetLogLevel(t) => Go(t, "setlevel:ffi", LevelArg(level'))
    BY Handovers
  <1>4. level' \in 0..5
    <2>1. level' \in Levels \cup {INFO}
      BY DEF SetFfiHandle, SetLogLevel, PlaceInv, PlatformTypeOK
    <2> QED
      BY <2>1, PlatformAssumption DEF INFO
  <1> QED
    BY <1>1, <1>2, <1>3, <1>4, GoMoves, LevelArgHolds

LEMMA OwnerHands ==
    ASSUME PlaceInv, platform = "android", NEW t \in Owners, Begin(t) \/ Proceed(t),
           Stage(pc[t]), Handed(t)
    PROVE  Handed(t)'
  <1> USE DEF At
  <1>1. t \in Threads /\ "idle" \notin LogPoints
    BY DEF Threads, LogPoints
  <1>2. CASE SetLogLevel(t)
    <2>1. pc[t] = "idle" /\ UNCHANGED <<inited, handle, globals>>
      BY <1>2 DEF SetLogLevel
    <2> QED
      BY <1>1, <1>2, <2>1, LevelTaken DEF Handed, Copy, LogPoints
  <1>3. CASE ~SetLogLevel(t) /\ ~LifeStep(t)
    <2>1. /\ pc[t] \in LogPoints \cup {"idle", "prepare:clean"}
          /\ pc'[t] \in LogPoints \cup {"idle", "prepare:clean", "close:check"}
          /\ UNCHANGED <<fields, globals>>
      BY <1>3, OwnerMoves
    <2> QED
      BY <2>1 DEF Handed, Copy, LogPoints
  <1>4. CASE PrepareCall(t) \/ CloseCall(t) \/ Terminate(t) \/ PrepareCheck(t) \/ CloseCheck(t)
    <2>1. UNCHANGED <<fields, globals>> /\ pc[t] \in {"idle", "prepare:check", "close:check"}
      BY <1>4 DEF PrepareCall, CloseCall, Terminate, PrepareCheck, CloseCheck
    <2>2. pc'[t] \in {"idle", "check", "prepare:check", "prepare:open", "close:check",
                      "close:native"}
      BY <1>1, <1>4, Moves DEF PrepareCall, CloseCall, Terminate, PrepareCheck, CloseCheck
    <2> QED
      BY <2>1, <2>2 DEF Handed, Copy
  <1>5. CASE Open(t) \/ SetInitialized(t) \/ CloseNative(t) \/ ForgetHandle(t)
    <2>1. pc'[t] \in {"prepare:init", "prepare:ffi", "close:handle", "close:init"}
      BY <1>1, <1>5, Moves DEF Open, SetInitialized, CloseNative, ForgetHandle
    <2> QED
      BY <2>1 DEF Handed, LogPoints
  <1>6. CASE OpenFails(t) \/ ForgetInit(t)
    <2>1. pc'[t] = "idle" /\ ~inited'
      BY <1>1, <1>6, Moves DEF OpenFails, ForgetInit, Stage
    <2> QED
      BY <2>1 DEF Handed
  <1>7. CASE SetFfiHandle(t)
    <2>1. gHandle' = handle /\ handle' = handle
      BY <1>7 DEF SetFfiHandle
    <2> QED
      BY <1>1, <1>7, <2>1, LevelTaken DEF Handed, LogPoints
  <1>8. CASE SetFfiLevel(t) \/ SetLogLevelFfi(t)
    <2>1. /\ pc'[t] \in {"check", "idle"} /\ UNCHANGED <<fields, gHandle>>
          /\ inited => gLevel' = arg[t].lvl
          /\ pc[t] \in {"prepare:ffilevel", "setlevel:ffi"}
      BY <1>1, <1>8, Moves DEF SetFfiLevel, SetLogLevelFfi, Stage
    <2>2. inited => gHandle = handle /\ arg[t].lvl = level
      BY <2>1 DEF Handed
    <2> QED
      BY <2>1, <2>2 DEF Handed, Copy
  <1> QED
    BY <1>2, <1>3, <1>4, <1>5, <1>6, <1>7, <1>8 DEF LifeStep

LEMMA CopyStart == Init => CopyInv
  BY DEF Init, CopyInv, LifeBusy, Threads, Handed, Copy

LEMMA CopyKept ==
    ASSUME PlaceInv, LifeInv, CopyInv, NEW t \in Threads, Begin(t) \/ Proceed(t), LifeAlone'
    PROVE  CopyInv'
  <1> SUFFICES ASSUME platform = "android"
               PROVE  /\ (~LifeBusy /\ inited => Copy)'
                      /\ (\A o \in Owners : pc[o] # "idle" => Handed(o))'
    BY FieldsHold DEF CopyInv
  <1>1. \A o \in Owners \ {t} : pc'[o] = pc[o] /\ arg'[o] = arg[o]
    BY OthersStay, PlatformAssumption DEF Threads
  <1>2. CASE t \in Owners /\ \A o \in Owners \ {t} : pc[o] = "idle"
    <2>1. Stage(pc[t]) /\ Handed(t)
      BY <1>2 DEF LifeInv, CopyInv, LifeBusy, Stage, Handed, LogPoints
    <2>2. Handed(t)'
      BY <1>2, <2>1, OwnerHands
    <2>3. pc'[t] = "idle" /\ inited' => Copy'
      BY <2>2 DEF Handed
    <2>4. \A o \in Owners \ {t} : pc'[o] = "idle"
      BY <1>1, <1>2
    <2>5. (~LifeBusy /\ inited => Copy)'
      BY <1>2, <2>3 DEF LifeBusy
    <2> QED
      BY <2>2, <2>4, <2>5 DEF Handed
  <1>3. CASE t \notin Owners \/ \E o \in Owners \ {t} : pc[o] # "idle"
    <2>1. UNCHANGED <<fields, globals>> /\ \A o \in Owners : pc'[o] = pc[o] /\ arg'[o] = arg[o]
      <3>1. CASE t \notin Owners
        <4>1. ~LifeStep(t) /\ ~SetLogLevel(t)
          BY <3>1, LifeStepsOwned
        <4>2. UNCHANGED <<fields, globals>>
          BY <4>1 DEF Begin, Proceed, LifeStep, LogCall, DartCall, FlushCall, ExportCall, Check,
               Filter, Fetch, Write, Return, DartFilter, DartCheck, DartFetch, UseCheck, UseFetch,
               Flush, Export, StartCleaner, Wake, Clean, CleanFailed
        <4> QED
          BY <1>1, <3>1, <4>2
      <3>2. CASE t \in Owners
        <4>1. pc[t] = "idle" /\ pc'[t] = "idle"
          BY <1>1, <1>3, <3>2 DEF LifeInv, LifeAlone
        <4>2. ~LifeStep(t) /\ ~SetLogLevel(t) /\ ~LogCall(t) /\ ~DartCall(t)
              /\ ~FlushCall(t) /\ ~ExportCall(t) /\ ~Proceed(t)
          <5>1. ~SetLogLevel(t)
            BY <4>1, LevelTaken
          <5>2. t \notin Callers
            BY <3>2, PlatformAssumption
          <5>3. ~PrepareCall(t) /\ ~CloseCall(t) /\ ~Terminate(t)
            BY <4>1, Moves DEF PrepareCall, CloseCall, Terminate
          <5>4. ~Proceed(t)
            BY <4>1 DEF Proceed, At, Check, Filter, Fetch, Write, Return, DartFilter, DartCheck,
                 DartFetch, UseCheck, UseFetch, Flush, Export, StartCleaner, Wake, Clean,
                 CleanFailed, PrepareCheck, Open, OpenFails, SetInitialized, SetFfiHandle,
                 SetFfiLevel, SetLogLevelFfi, CloseCheck, CloseNative, ForgetHandle, ForgetInit
          <5> QED
            BY <5>1, <5>2, <5>3, <5>4 DEF LifeStep, Proceed, LogCall, DartCall, FlushCall, ExportCall
        <4> QED
          BY <4>2 DEF Begin, LifeStep
      <3> QED
        BY <3>1, <3>2
    <2> QED
      BY <2>1 DEF CopyInv, LifeBusy, Copy, Handed
  <1> QED
    BY <1>2, <1>3

\* What is known of a log call at each of its points: the answers that were
\* right so far are in may.
Known(t) ==
    /\ pc[t] # "return" => IF Loose(t) THEN BOOLEAN \subseteq may[t]
                                       ELSE Wanted(arg[t].lvl) \in may[t]
    /\ pc[t] = "return" => arg[t].out \in may[t]
    /\ pc[t] \in {"level", "fetch"} => inited
    /\ pc[t] \in {"fetch", "write", "dart:fetch"} => TRUE \in may[t]
    /\ pc[t] = "dart:check" => TRUE \in may[t] \/ gHandle = Null

EffectInv == UseInv /\ CopyInv /\ \A t \in Threads : Logging(t) => Known(t)

\* may gathers the answers.
LEMMA MayGrows ==
    ASSUME Record, NEW t \in Threads, Logging(t)'
    PROVE  /\ Logging(t) => may[t] \subseteq may'[t]
           /\ pc'[t] = "return" => may'[t] = may[t]
           /\ pc'[t] # "return" => IF Loose(t)' THEN BOOLEAN \subseteq may'[t]
                                                ELSE Wanted(arg[t].lvl)' \in may'[t]
  <1>1. may'[t] = IF pc'[t] = "return" THEN may[t]
                  ELSE (IF Logging(t) THEN may[t] ELSE {})
                       \cup IF Loose(t)' THEN BOOLEAN ELSE {Wanted(arg[t].lvl)'}
    BY DEF Record
  <1> QED
    BY <1>1

\* While no close is between its steps the log is up when it is initialised.
LEMMA UpIsInited ==
    ASSUME UseInv, NEW t \in Threads, pc[t] \in LogPoints
    PROVE  inited => handle # Null
  <1>1. \A s \in Threads : ~Closing(s)
    BY DEF UseInv, Drained, CallPoints, Closing, LogPoints
  <1>2. CASE LifeBusy
    <2>1. PICK o \in Owners : pc[o] # "idle" /\ Stage(pc[o])
      BY <1>2 DEF LifeBusy, UseInv, LifeInv
    <2>2. o \in Threads /\ ~Closing(o)
      BY <1>1 DEF Threads
    <2> QED
      BY <2>1, <2>2 DEF Stage, Settled, Closing, Parting
  <1>3. CASE ~LifeBusy
    BY <1>3 DEF UseInv, LifeInv, Settled
  <1> QED
    BY <1>2, <1>3

\* Each test of a call is right about the log.
LEMMA Verdicts ==
    ASSUME EffectInv, NEW t \in Threads, Logging(t)
    PROVE  /\ pc[t] = "check" /\ ~Up => FALSE \in may[t]
           /\ pc[t] = "level" => IF arg[t].lvl < level THEN FALSE \in may[t] ELSE TRUE \in may[t]
           /\ pc[t] = "fetch" => handle # Null
           /\ pc[t] = "dart:level" => IF arg[t].lvl < gLevel THEN FALSE \in may[t]
                                      ELSE TRUE \in may[t] \/ gHandle = Null
           /\ pc[t] = "dart:check" => IF gHandle = Null THEN FALSE \in may[t]
                                      ELSE TRUE \in may[t]
  <1>1. Known(t) /\ UseInv /\ PlaceInv /\ Locals(pc[t], arg[t]) /\ Place(t, pc[t], arg[t].next)
    BY AtHome DEF EffectInv, UseInv
  <1>2. inited => handle # Null
    BY <1>1, UpIsInited DEF Logging
  <1>3. /\ arg[t].lvl \in 0..5 /\ level \in 0..5 /\ gLevel \in 0..5
    <2>1. /\ arg[t].lvl \in 0..5
          /\ level \in Levels \cup {INFO} /\ gLevel \in Levels \cup {INFO}
      BY <1>1, AtHome DEF PlaceInv, PlatformTypeOK
    <2> QED
      BY <2>1, PlatformAssumption DEF INFO
  <1>4. Wanted(arg[t].lvl) = TRUE \/ Wanted(arg[t].lvl) = FALSE
    BY DEF Wanted
  <1>5. Wanted(arg[t].lvl) <=> inited /\ ~(arg[t].lvl < level)
    BY <1>3 DEF Wanted
  <1>6. pc[t] \in {"check", "level", "fetch"} => ~Loose(t)
    BY <1>1 DEF Locals, Loose
  <1>7. CASE pc[t] \in {"check", "level", "fetch"}
    <2>1. Wanted(arg[t].lvl) \in may[t]
      BY <1>1, <1>6, <1>7 DEF Known
    <2>2. pc[t] = "check" /\ ~Up => FALSE \in may[t]
      BY <1>2, <1>4, <1>5, <2>1 DEF Up
    <2>3. pc[t] = "level" => IF arg[t].lvl < level THEN FALSE \in may[t] ELSE TRUE \in may[t]
      BY <1>1, <1>4, <1>5, <2>1 DEF Known
    <2>4. pc[t] = "fetch" => handle # Null
      BY <1>1, <1>2 DEF Known
    <2> QED
      BY <1>7, <2>2, <2>3, <2>4
  <1>8. CASE pc[t] \in {"dart:level", "dart:check"}
    <2>1. t \in Callers /\ arg[t].ffi /\ platform = "android"
      BY <1>1, <1>8, AtHome DEF Place, Locals, DartPoints, LogPoints, LifePoints, CleanPoints
    <2>2. CASE Loose(t)
      <3>1. TRUE \in may[t] /\ FALSE \in may[t]
        BY <1>1, <1>8, <2>2 DEF Known
      <3> QED
        BY <1>8, <3>1
    <2>3. CASE ~Loose(t)
      <3>1. ~LifeBusy /\ Wanted(arg[t].lvl) \in may[t]
        BY <1>1, <1>8, <2>1, <2>3 DEF Known, Loose
      <3>2. inited => gHandle # Null /\ gLevel = level
        BY <1>2, <2>1, <3>1 DEF EffectInv, CopyInv, Copy
      <3>3. ~inited => gHandle = Null
        BY <1>1, <2>1, <3>1 DEF UseInv, LifeInv, Settled, DartWaits
      <3>4. inited => IF arg[t].lvl < gLevel THEN FALSE \in may[t] ELSE TRUE \in may[t]
        BY <1>4, <1>5, <3>1, <3>2
      <3>5. ~inited => FALSE \in may[t]
        BY <1>4, <1>5, <3>1
      <3>6. pc[t] = "dart:check" => IF gHandle = Null THEN FALSE \in may[t] ELSE TRUE \in may[t]
        BY <1>1, <3>2, <3>3, <3>5 DEF Known
      <3>7. pc[t] = "dart:level" => IF arg[t].lvl < gLevel THEN FALSE \in may[t]
                                      ELSE TRUE \in may[t] \/ gHandle = Null
        BY <3>2, <3>3, <3>4, <3>5
      <3> QED
        BY <1>8, <3>6, <3>7
    <2> QED
      BY <2>2, <2>3
  <1> QED
    BY <1>7, <1>8

\* The answer that ends a call.
LEMMA AnswerGiven ==
    ASSUME PlaceInv, NEW t \in Threads, NEW o \in BOOLEAN, NEW x \in Lines,
           Go(t, "return", AnswerArg(arg[t].next, o, x))
    PROVE  pc'[t] = "return" /\ arg'[t].out = o
  <1>1. arg[t].next \in Labels /\ pc \in [Threads -> Labels] /\ arg \in [Threads -> Args]
    BY AtHome, ThreadTypes DEF PlaceInv
  <1>2. pc'[t] = "return" /\ arg'[t] = AnswerArg(arg[t].next, o, x)
    BY <1>1, GoMoves
  <1> QED
    BY <1>1, <1>2, AnswerArgHolds

LEMMA WriteAnswers ==
    ASSUME PlaceInv, NEW t \in Threads, Write(t)
    PROVE  pc'[t] = "return" /\ arg'[t].out = TRUE
  <1>1. PICK n \in Sizes, room \in BOOLEAN : Answer(t, TRUE, Line(arg[t].lvl, n, room))
    BY DEF Write
  <1>2. Line(arg[t].lvl, n, room) \in Lines
    BY LineWhole
  <1>3. Go(t, "return", AnswerArg(arg[t].next, TRUE, Line(arg[t].lvl, n, room)))
    BY <1>1, Shapes
  <1> QED
    BY <1>2, <1>3, AnswerGiven

\* What the call of a thread that moves on knows next.
LEMMA MoverKnows ==
    ASSUME EffectInv, NEW t \in Threads, Step(t), Logging(t)'
    PROVE  Known(t)'
  <1> USE DEF At
  <1>1. PlaceInv /\ (Begin(t) \/ Proceed(t)) /\ Record
    BY DEF EffectInv, UseInv, Step
  <1>2. /\ Logging(t) => may[t] \subseteq may'[t]
        /\ pc'[t] = "return" => may'[t] = may[t]
        /\ pc'[t] # "return" => IF Loose(t)' THEN BOOLEAN \subseteq may'[t]
                                             ELSE Wanted(arg[t].lvl)' \in may'[t]
    BY <1>1, MayGrows
  <1>3. CASE pc'[t] \in {"check", "dart:level"}
    BY <1>2, <1>3 DEF Known
  <1>4. CASE pc'[t] \notin {"check", "dart:level"}
    <2>1. \/ Check(t) \/ Filter(t) \/ Fetch(t) \/ Write(t)
          \/ DartFilter(t) \/ DartCheck(t) \/ DartFetch(t)
      <3>1. pc'[t] \in Onward
        BY <1>4 DEF Logging, Onward
      <3>2. ~UseFetch(t)
        <4>1. UseFetch(t) => pc'[t] \in {"idle", "flush:use", "export:use"}
          BY <1>1, Moves, Handovers
        <4> QED
          BY <4>1 DEF Logging, LogPoints
      <3> QED
        BY <1>1, <3>1, <3>2, LeadOn
    <2>2. Logging(t)
      BY <2>1 DEF Check, Filter, Fetch, Write, DartFilter, DartCheck, DartFetch, Logging, LogPoints
    <2>3. Known(t)
      BY <2>2 DEF EffectInv
    <2>4. UNCHANGED <<inited, gHandle>>
      BY <2>1 DEF Check, Filter, Fetch, Write, DartFilter, DartCheck, DartFetch
    <2>5. Dropped(t) => pc'[t] = "return" /\ arg'[t].out = FALSE
      <3>1. Dropped(t) => Go(t, "return", AnswerArg(arg[t].next, FALSE, NoLine))
        BY Shapes
      <3> QED
        BY <1>1, <3>1, NoArgHolds, AnswerGiven
    <2>6. CASE Dropped(t)
      <3>1. FALSE \in may[t]
        <4>1. CASE Check(t) \/ Filter(t) \/ DartFilter(t) \/ DartCheck(t)
          BY <1>1, <2>2, <2>5, <2>6, <4>1, Verdicts, Moves
             DEF Check, Filter, DartFilter, DartCheck
        <4>2. CASE Fetch(t) \/ DartFetch(t)
          BY <1>1, <2>2, <2>5, <2>6, <4>2, Verdicts, Handovers, Moves DEF Fetch
        <4>3. CASE Write(t)
          BY <1>1, <2>5, <2>6, <4>3, WriteAnswers
        <4> QED
          BY <2>1, <4>1, <4>2, <4>3
      <3> QED
        BY <1>2, <2>5, <2>6, <3>1 DEF Known
    <2>7. CASE ~Dropped(t) /\ ~Write(t)
      <3>1. /\ Check(t) => pc'[t] = "level" /\ inited
            /\ Filter(t) => pc'[t] = "fetch" /\ inited /\ TRUE \in may[t]
            /\ Fetch(t) \/ DartFetch(t) => pc'[t] = "write" /\ TRUE \in may[t]
            /\ DartFilter(t) => pc'[t] = "dart:check" /\ (TRUE \in may[t] \/ gHandle = Null)
            /\ DartCheck(t) => pc'[t] = "dart:fetch" /\ TRUE \in may[t]
        <4>1. Check(t) => pc'[t] = "level" /\ inited
          BY <1>1, <2>7, Moves DEF Check, Up
        <4>2. Filter(t) => pc'[t] = "fetch" /\ inited /\ TRUE \in may[t]
          BY <1>1, <2>2, <2>3, <2>7, Moves, Verdicts DEF Filter, Known
        <4>3. Fetch(t) \/ DartFetch(t) => pc[t] \in {"fetch", "dart:fetch"} /\ pc'[t] = "write"
          <5>1. Fetch(t) \/ DartFetch(t) => pc[t] \in {"fetch", "dart:fetch"}
            BY DEF Fetch, DartFetch
          <5> QED
            BY <1>1, <2>7, <5>1, Moves, Handovers
        <4>4. DartFilter(t) => pc'[t] = "dart:check" /\ (TRUE \in may[t] \/ gHandle = Null)
          BY <1>1, <2>2, <2>7, Moves, Verdicts DEF DartFilter
        <4>5. DartCheck(t) => pc'[t] = "dart:fetch" /\ TRUE \in may[t]
          BY <1>1, <2>2, <2>7, Moves, Verdicts DEF DartCheck
        <4> QED
          BY <2>3, <4>1, <4>2, <4>3, <4>4, <4>5 DEF Known
      <3> QED
        BY <1>2, <2>1, <2>2, <2>4, <2>7, <3>1 DEF Known
    <2>8. CASE Write(t)
      <3>1. pc'[t] = "return" /\ arg'[t].out = TRUE
        BY <1>1, <2>8, WriteAnswers
      <3>2. TRUE \in may[t]
        BY <2>3, <2>8 DEF Known, Write
      <3> QED
        BY <1>2, <3>1, <3>2 DEF Known
    <2> QED
      BY <2>6, <2>7, <2>8
  <1> QED
    BY <1>3, <1>4

\* What the other calls know meanwhile.
LEMMA OthersKnow ==
    ASSUME EffectInv, NEW t \in Threads, Step(t), NEW s \in Threads \ {t}, Logging(s)'
    PROVE  Known(s)'
  <1>1. PlaceInv /\ (Begin(t) \/ Proceed(t)) /\ Record
    BY DEF EffectInv, UseInv, Step
  <1>2. pc'[s] = pc[s] /\ arg'[s] = arg[s]
    BY <1>1, OthersStay DEF Logging, LogPoints
  <1>3. Logging(s) /\ Known(s)
    BY <1>2 DEF EffectInv, Logging
  <1>4. /\ may[s] \subseteq may'[s]
        /\ pc'[s] = "return" => may'[s] = may[s]
        /\ pc'[s] # "return" => IF Loose(s)' THEN BOOLEAN \subseteq may'[s]
                                             ELSE Wanted(arg[s].lvl)' \in may'[s]
    BY <1>1, <1>3, MayGrows
  <1>5. inited => inited'
    <2>1. ~ForgetInit(t)
      <3>1. ForgetInit(t) => Closing(t)
        BY DEF ForgetInit, At, Closing
      <3>2. pc[s] \in CallPoints
        BY <1>3 DEF Logging, CallPoints
      <3> QED
        BY <3>1, <3>2 DEF EffectInv, UseInv, Drained
    <2>2. CASE LifeStep(t)
      BY <2>1, <2>2 DEF LifeStep, PrepareCall, CloseCall, Terminate, PrepareCheck, Open,
           OpenFails, SetInitialized, SetFfiHandle, SetFfiLevel, SetLogLevelFfi, CloseCheck,
           CloseNative, ForgetHandle
    <2>3. CASE ~LifeStep(t)
      BY <1>1, <2>3, OnlyLifeSteps
    <2> QED
      BY <2>2, <2>3
  <1>6. pc[s] = "dart:check" => TRUE \in may'[s] \/ gHandle' = Null
    <2>1. CASE SetFfiHandle(t) /\ pc[s] = "dart:check"
      <3>1. t \in Owners /\ pc'[t] = "prepare:ffilevel"
        BY <1>1, <2>1, LifeStepsOwned, Moves, Handovers DEF LifeStep
      <3>2. arg[s].ffi
        BY <1>1, <2>1, AtHome DEF Locals, DartPoints
      <3>3. Loose(s)'
        BY <1>2, <3>1, <3>2 DEF Loose, LifeBusy
      <3> QED
        BY <1>2, <1>4, <2>1, <3>3
    <2>2. CASE ~SetFfiHandle(t)
      <3>1. gHandle' = gHandle
        <4>1. CASE LifeStep(t)
          BY <2>2, <4>1 DEF LifeStep, PrepareCall, CloseCall, Terminate, PrepareCheck, Open,
               OpenFails, SetInitialized, SetFfiLevel, SetLogLevelFfi, CloseCheck,
               CloseNative, ForgetHandle, ForgetInit
        <4>2. CASE ~LifeStep(t)
          BY <1>1, <4>2, OnlyLifeSteps
        <4> QED
          BY <4>1, <4>2
      <3> QED
        BY <1>3, <1>4, <3>1 DEF Known
    <2> QED
      BY <2>1, <2>2
  <1> QED
    BY <1>2, <1>3, <1>4, <1>5, <1>6 DEF Known

LEMMA EffectAlways == CarefulSpec => []EffectInv
  <1>1. Init => EffectInv
    <2>1. Init => \A t \in Threads : ~Logging(t)
      BY DEF Init, Logging, LogPoints
    <2> QED
      BY <2>1, UseStart, CopyStart DEF EffectInv
  <1>2. ASSUME EffectInv, NEW t \in Threads, CarefulStep(t) PROVE EffectInv'
    <2>1. UseInv'
      BY <1>2, UseStep DEF EffectInv
    <2>2. CopyInv'
      <3>1. PlaceInv /\ LifeInv /\ CopyInv /\ (Begin(t) \/ Proceed(t)) /\ LifeAlone'
        BY <1>2 DEF EffectInv, UseInv, CarefulStep, Step, Careful, Considerate
      <3> QED
        BY <3>1, CopyKept
    <2>3. ASSUME NEW s \in Threads, Logging(s)' PROVE Known(s)'
      BY <1>2, <2>3, MoverKnows, OthersKnow DEF CarefulStep
    <2> QED
      BY <2>1, <2>2, <2>3 DEF EffectInv
  <1>3. ASSUME EffectInv, UNCHANGED vars PROVE EffectInv'
    <2>1. UseInv'
      BY <1>3, UseStutter DEF EffectInv
    <2>2. CopyInv'
      BY <1>3 DEF vars, EffectInv, CopyInv, LifeBusy, Copy, Handed
    <2>3. ASSUME NEW s \in Threads, Logging(s)' PROVE Known(s)'
      <3>1. Known(s)
        BY <1>3, <2>3 DEF vars, EffectInv, Logging
      <3> QED
        BY <1>3, <3>1 DEF vars, Known, Loose, LifeBusy, Wanted
    <2> QED
      BY <2>1, <2>2, <2>3 DEF EffectInv
  <1>4. EffectInv /\ [\E t \in Threads : CarefulStep(t)]_vars => EffectInv'
    BY <1>2, <1>3
  <1> QED
    BY <1>1, <1>4, PTL DEF CarefulSpec

\* Every log call, native or from Dart, reaches lz_logger_write or is dropped as
\* the state of the log and its level at some moment of the call ask for.
THEOREM CallsTakeEffect == CarefulSpec => []TakesEffect
  <1>1. EffectInv => TakesEffect
    BY DEF EffectInv, Known, TakesEffect, Logging, LogPoints
  <1> QED
    BY <1>1, EffectAlways, PTL
=============================================================================
