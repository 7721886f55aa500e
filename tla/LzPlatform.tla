----------------------------- MODULE LzPlatform -----------------------------
(***************************************************************************)
(* The platform layers over lz_logger: LzLogger.kt and lz_logger_jni.cpp   *)
(* on Android, LZLogger.m on iOS, and the Dart binding on both.            *)
(*                                                                         *)
(* Each layer keeps a handle, whether it is initialised and a level, in    *)
(* plain fields that every thread reads without a lock.  On Android Dart   *)
(* calls do not go through these fields: they read g_ffi_handle and        *)
(* g_ffi_log_level, which prepareLog and setLogLevel copy there; on iOS    *)
(* lz_logger_ffi is a call of the shared instance.                         *)
(*                                                                         *)
(* A context is what lz_logger_open returns and lz_logger_close frees; its *)
(* inside is LzLogger, LzHandle and LzRotation.  Fields are read and       *)
(* written in program order (a weaker memory order is not modelled).       *)
(***************************************************************************)
EXTENDS Integers, FiniteSets

CONSTANTS Owners,       \* threads that call prepareLog, setLogLevel and close
          Callers,      \* threads that log, flush and export, natively and from Dart
          Cleaners,     \* delayed clean-up threads (bounds those that exist at a time)
          Contexts,     \* addresses lz_logger_open may return
          Null,
          Levels,       \* levels that are set and logged
          Cap,          \* LOG_MESSAGE_BUFFER_SIZE
          Sizes         \* lengths of formatted lines

DEBUG == 1
INFO == 2
WARN == 3
ERROR == 4

Threads == Owners \cup Callers \cup Cleaners

ASSUME PlatformAssumption ==
    /\ Null \notin Contexts
    /\ Levels \subseteq 0..5
    /\ Cap \in Nat /\ Cap > 5 /\ Sizes \subseteq Nat \ {0}
    /\ Owners \cap Callers = {} /\ (Owners \cup Callers) \cap Cleaners = {}

VARIABLES platform,                   \* "android" or "ios"
          inited, handle, level,      \* isInitialized, handle, currentLevel
          gHandle, gLevel,            \* g_ffi_handle, g_ffi_log_level (Android)
          live,                       \* contexts opened and not yet freed
          pc, arg,                    \* of each thread: program point and locals
          may                         \* history: answers that would be right, see Record

fields  == <<inited, handle, level>>
globals == <<gHandle, gLevel>>
vars == <<platform, fields, globals, live, pc, arg, may>>

\* A line as lz_logger_write receives it: its length, where its newline is, and
\* how large the buffer it lies in is.
NoLine == [len |-> 0, newline |-> 0, buffer |-> 0]

\* The locals of a call: whether it came through lz_logger_ffi of Android, the
\* level of its line, the handle it goes on with, what follows it, whether it
\* reached lz_logger_write, and with what.
NoArg == [ffi |-> FALSE, lvl |-> 0, h |-> Null, next |-> "idle", out |-> FALSE, line |-> NoLine]

Init == /\ platform \in {"android", "ios"}
        /\ inited = FALSE /\ handle = Null /\ level = INFO
        /\ gHandle = Null /\ gLevel = INFO
        /\ live = {}
        /\ pc = [t \in Threads |-> IF t \in Cleaners THEN "unborn" ELSE "idle"]
        /\ arg = [t \in Threads |-> NoArg]
        /\ may = [t \in Threads |-> {}]

At(t, label) == pc[t] = label
Goto(t, label) == pc' = [pc EXCEPT ![t] = label] /\ UNCHANGED arg
Go(t, label, a) == pc' = [pc EXCEPT ![t] = label] /\ arg' = [arg EXCEPT ![t] = a]
Stop(t) == Go(t, "idle", NoArg)

\* log(level, ...), then next.
LogThen(t, l, next) == Go(t, "check", [NoArg EXCEPT !.lvl = l, !.next = next])
Answer(t, out, line) ==
    Go(t, "return", [NoArg EXCEPT !.next = arg[t].next, !.out = out, !.line = line])
Dropped(t) == Answer(t, FALSE, NoLine)

LogPoints == {"check", "level", "fetch", "dart:level", "dart:check", "dart:fetch", "write",
              "return"}
UsePoints == {"write", "flush:use", "export:use"}
CallPoints == LogPoints \cup UsePoints \cup {"flush:check", "flush:fetch",
                                              "export:check", "export:fetch"}

(***************************************************************************)
(* Logging.                                                                *)
(***************************************************************************)
\* !isInitialized || handle == 0 is the early return of every call.
Up == inited /\ handle # Null

LogCall(t) == /\ t \in Callers /\ At(t, "idle")
              /\ \E l \in Levels : LogThen(t, l, "idle")
              /\ UNCHANGED <<platform, fields, globals, live>>

\* lzLog.  On iOS it ends in [[LZLogger sharedInstance] log:...].
DartCall(t) == /\ t \in Callers /\ At(t, "idle")
               /\ \E l \in Levels :
                     IF platform = "android"
                     THEN Go(t, "dart:level", [NoArg EXCEPT !.ffi = TRUE, !.lvl = l])
                     ELSE LogThen(t, l, "idle")
               /\ UNCHANGED <<platform, fields, globals, live>>

Check(t) == /\ At(t, "check")
            /\ IF Up THEN Goto(t, "level") ELSE Dropped(t)
            /\ UNCHANGED <<platform, fields, globals, live>>

Filter(t) == /\ At(t, "level")
             /\ IF arg[t].lvl < level THEN Dropped(t) ELSE Goto(t, "fetch")
             /\ UNCHANGED <<platform, fields, globals, live>>

\* handle is read once more, as an argument; nativeLog and lz_logger_write
\* turn NULL down.
Fetch(t) == /\ At(t, "fetch")
            /\ IF handle = Null THEN Dropped(t) ELSE Go(t, "write", [arg[t] EXCEPT !.h = handle])
            /\ UNCHANGED <<platform, fields, globals, live>>

DartFilter(t) == /\ At(t, "dart:level")
                 /\ IF arg[t].lvl < gLevel THEN Dropped(t) ELSE Goto(t, "dart:check")
                 /\ UNCHANGED <<platform, fields, globals, live>>

DartCheck(t) == /\ At(t, "dart:check")
                /\ IF gHandle = Null THEN Dropped(t) ELSE Goto(t, "dart:fetch")
                /\ UNCHANGED <<platform, fields, globals, live>>

\* The line has been formatted meanwhile; g_ffi_handle is read again.
DartFetch(t) == /\ At(t, "dart:fetch")
                /\ Go(t, "write", [arg[t] EXCEPT !.h = gHandle])
                /\ UNCHANGED <<platform, fields, globals, live>>

\* bug: the length that snprintf wanted is handed on.
LineUnclamped(l, n, room) ==
    IF platform = "ios" \/ n < Cap
    THEN [len |-> n, newline |-> n - 1, buffer |-> IF platform = "ios" THEN n + 1 ELSE Cap]
    ELSE IF l = DEBUG /\ room
    THEN [len |-> n, newline |-> n - 1, buffer |-> n + 1]
    ELSE [len |-> n, newline |-> Cap - 2, buffer |-> Cap]

\* snprintf wants n characters.  What does not fit the stack buffer goes, at
\* DEBUG, to one malloc gave (room); else truncate_log_message ends the buffer
\* with "...\n".  iOS formats into an NSString of any length.
Line(l, n, room) ==
    IF platform = "ios" \/ n < Cap
    THEN [len |-> n, newline |-> n - 1, buffer |-> IF platform = "ios" THEN n + 1 ELSE Cap]
    ELSE IF l = DEBUG /\ room
    THEN [len |-> n, newline |-> n - 1, buffer |-> n + 1]
    ELSE [len |-> Cap - 1, newline |-> Cap - 2, buffer |-> Cap]

\* lz_logger_write.  A call that goes on with a context that is gone has no
\* step: what it does is undefined.  (The same holds for flush and export.)
Write(t) == /\ At(t, "write") /\ arg[t].h \in live
            /\ \E n \in Sizes, room \in BOOLEAN : Answer(t, TRUE, Line(arg[t].lvl, n, room))
            /\ UNCHANGED <<platform, fields, globals, live>>

Return(t) == /\ At(t, "return")
             /\ Go(t, arg[t].next, NoArg)
             /\ UNCHANGED <<platform, fields, globals, live>>

(***************************************************************************)
(* flush and exportCurrentLog.                                             *)
(***************************************************************************)
FlushCall(t) == /\ t \in Callers /\ At(t, "idle")
                /\ Goto(t, "flush:check")
                /\ UNCHANGED <<platform, fields, globals, live>>

ExportCall(t) == /\ t \in Callers /\ At(t, "idle")
                 /\ Goto(t, "export:check")
                 /\ UNCHANGED <<platform, fields, globals, live>>

UseCheck(t) ==
    /\ pc[t] \in {"flush:check", "export:check"}
    /\ IF Up THEN Goto(t, IF At(t, "flush:check") THEN "flush:fetch" ELSE "export:fetch")
             ELSE Stop(t)
    /\ UNCHANGED <<platform, fields, globals, live>>

UseFetch(t) ==
    /\ pc[t] \in {"flush:fetch", "export:fetch"}
    /\ IF handle = Null THEN Stop(t)
       ELSE Go(t, IF At(t, "flush:fetch") THEN "flush:use" ELSE "export:use",
               [NoArg EXCEPT !.h = handle])
    /\ UNCHANGED <<platform, fields, globals, live>>

Flush(t) == /\ At(t, "flush:use") /\ arg[t].h \in live
            /\ Stop(t)
            /\ UNCHANGED <<platform, fields, globals, live>>

\* "Export completed" or "Export failed".
Export(t) == /\ At(t, "export:use") /\ arg[t].h \in live
             /\ \E l \in {INFO, ERROR} : LogThen(t, l, "idle")
             /\ UNCHANGED <<platform, fields, globals, live>>

(***************************************************************************)
(* prepareLog.                                                             *)
(***************************************************************************)
PrepareCall(t) == /\ t \in Owners /\ At(t, "idle")
                  /\ Goto(t, "prepare:check")
                  /\ UNCHANGED <<platform, fields, globals, live>>

\* bug: a second prepareLog opens again.
PrepareAgain(t) == /\ At(t, "prepare:check")
                   /\ Goto(t, "prepare:open") \/ Stop(t)
                   /\ UNCHANGED <<platform, fields, globals, live>>

\* Already initialised is a success.  A bad name or directory is not.
PrepareCheck(t) == /\ At(t, "prepare:check")
                   /\ (~inited /\ Goto(t, "prepare:open")) \/ Stop(t)
                   /\ UNCHANGED <<platform, fields, globals, live>>

Open(t) == /\ At(t, "prepare:open")
           /\ \E c \in Contexts \ live : live' = live \cup {c} /\ handle' = c
           /\ Goto(t, "prepare:init")
           /\ UNCHANGED <<platform, inited, level, globals>>

\* Kotlin has assigned what nativeOpen returned; LZLogger.m had it in a local.
OpenFails(t) == /\ At(t, "prepare:open")
                /\ handle' = IF platform = "android" THEN Null ELSE handle
                /\ Stop(t)
                /\ UNCHANGED <<platform, inited, level, globals, live>>

SetInitialized(t) ==
    /\ At(t, "prepare:init")
    /\ inited' = TRUE
    /\ IF platform = "android" THEN Goto(t, "prepare:ffi") ELSE LogThen(t, INFO, "prepare:clean")
    /\ UNCHANGED <<platform, handle, level, globals, live>>

\* bug: handle and level change places.
SetFfiSwapped(t) ==
    /\ At(t, "prepare:ffi")
    /\ gHandle' = level
    /\ Go(t, "prepare:ffilevel", [NoArg EXCEPT !.lvl = level])
    /\ UNCHANGED <<platform, fields, gLevel, live>>

\* nativeSetFfiHandle(handle, currentLevel): both are read, then stored in turn.
SetFfiHandle(t) ==
    /\ At(t, "prepare:ffi")
    /\ gHandle' = handle
    /\ Go(t, "prepare:ffilevel", [NoArg EXCEPT !.lvl = level])
    /\ UNCHANGED <<platform, fields, gLevel, live>>

\* bug: only the handle is handed over.
SetFfiLevelNot(t) ==
    /\ At(t, "prepare:ffilevel")
    /\ LogThen(t, INFO, "prepare:clean")
    /\ UNCHANGED <<platform, fields, globals, live>>

SetFfiLevel(t) ==
    /\ At(t, "prepare:ffilevel")
    /\ gLevel' = arg[t].lvl
    /\ LogThen(t, INFO, "prepare:clean")
    /\ UNCHANGED <<platform, fields, gHandle, live>>

\* (When all Cleaners exist, one more is not modelled.)
StartCleaner(t) ==
    /\ At(t, "prepare:clean")
    /\ LET unborn == {c \in Cleaners : pc[c] = "unborn"}
       IN IF unborn = {} THEN pc' = [pc EXCEPT ![t] = "idle"]
          ELSE \E c \in unborn : pc' = [pc EXCEPT ![c] = "asleep", ![t] = "idle"]
    /\ UNCHANGED <<platform, fields, globals, live, arg>>

(***************************************************************************)
(* The thread that prepareLog leaves behind: it sleeps, logs, removes      *)
(* expired files in logDir, which close does not forget, and logs again.   *)
(***************************************************************************)
\* bug: no clean-up once the log is closed.
WakeIfOpen(c) == /\ c \in Cleaners /\ At(c, "asleep")
                 /\ IF inited THEN LogThen(c, INFO, "clean") ELSE Goto(c, "unborn")
                 /\ UNCHANGED <<platform, fields, globals, live>>

Wake(c) == /\ c \in Cleaners /\ At(c, "asleep")
           /\ LogThen(c, INFO, "clean")
           /\ UNCHANGED <<platform, fields, globals, live>>

\* lz_logger_cleanup_expired_logs fails: that is logged here and by the caller.
Clean(c) == /\ At(c, "clean")
            /\ \/ LogThen(c, INFO, "unborn")
               \/ IF inited THEN LogThen(c, ERROR, "clean:failed") ELSE Goto(c, "clean:failed")
            /\ UNCHANGED <<platform, fields, globals, live>>

CleanFailed(c) == /\ At(c, "clean:failed")
                  /\ LogThen(c, WARN, "unborn")
                  /\ UNCHANGED <<platform, fields, globals, live>>

(***************************************************************************)
(* setLogLevel.                                                            *)
(***************************************************************************)
SetLogLevel(t) == /\ t \in Owners /\ At(t, "idle")
                  /\ \E l \in Levels : /\ level' = l
                                       /\ IF platform = "android"
                                          THEN Go(t, "setlevel:ffi", [NoArg EXCEPT !.lvl = l])
                                          ELSE UNCHANGED <<pc, arg>>
                  /\ UNCHANGED <<platform, inited, handle, globals, live>>

SetLogLevelFfi(t) == /\ At(t, "setlevel:ffi")
                     /\ gLevel' = IF inited THEN arg[t].lvl ELSE gLevel
                     /\ Stop(t)
                     /\ UNCHANGED <<platform, fields, gHandle, live>>

(***************************************************************************)
(* close, by itself or at the end of the process.                          *)
(***************************************************************************)
CloseCall(t) == /\ t \in Owners /\ At(t, "idle")
                /\ Goto(t, "close:check")
                /\ UNCHANGED <<platform, fields, globals, live>>

\* onDestroy, applicationWillTerminate:
Terminate(t) == /\ t \in Owners /\ At(t, "idle")
                /\ IF inited THEN LogThen(t, INFO, "close:check") ELSE Goto(t, "close:check")
                /\ UNCHANGED <<platform, fields, globals, live>>

CloseCheck(t) == /\ At(t, "close:check")
                 /\ IF Up THEN Goto(t, "close:native") ELSE Stop(t)
                 /\ UNCHANGED <<platform, fields, globals, live>>

\* bug: the fields still name the context that was freed.
CloseNativeOnly(t) == /\ At(t, "close:native")
                      /\ live' = live \ {handle}
                      /\ Stop(t)
                      /\ UNCHANGED <<platform, fields, globals>>

CloseNative(t) == /\ At(t, "close:native")
                  /\ live' = live \ {handle}
                  /\ Goto(t, "close:handle")
                  /\ UNCHANGED <<platform, fields, globals>>

ForgetHandle(t) == /\ At(t, "close:handle")
                   /\ handle' = Null
                   /\ Goto(t, "close:init")
                   /\ UNCHANGED <<platform, inited, level, globals, live>>

ForgetInit(t) == /\ At(t, "close:init")
                 /\ inited' = FALSE
                 /\ Stop(t)
                 /\ UNCHANGED <<platform, handle, level, globals, live>>
-----------------------------------------------------------------------------
Begin(t) == \/ LogCall(t) \/ DartCall(t) \/ FlushCall(t) \/ ExportCall(t)
            \/ PrepareCall(t) \/ SetLogLevel(t) \/ CloseCall(t) \/ Terminate(t)

Proceed(t) == \/ Check(t) \/ Filter(t) \/ Fetch(t) \/ Write(t) \/ Return(t)
              \/ DartFilter(t) \/ DartCheck(t) \/ DartFetch(t)
              \/ UseCheck(t) \/ UseFetch(t) \/ Flush(t) \/ Export(t)
              \/ PrepareCheck(t) \/ Open(t) \/ OpenFails(t) \/ SetInitialized(t)
              \/ SetFfiHandle(t) \/ SetFfiLevel(t) \/ StartCleaner(t)
              \/ Wake(t) \/ Clean(t) \/ CleanFailed(t)
              \/ SetLogLevelFfi(t)
              \/ CloseCheck(t) \/ CloseNative(t) \/ ForgetHandle(t) \/ ForgetInit(t)

Logging(t) == pc[t] \in LogPoints
LifeBusy == \E o \in Owners : pc[o] # "idle"

\* Whether a line at this level belongs in the log, by the fields.
Wanted(l) == inited /\ l >= level

\* An Android Dart call that overlaps prepareLog, setLogLevel or close may find
\* the globals between two states, and nothing is said of it.
Loose(t) == arg[t].ffi /\ LifeBusy

\* The answers that were right at some moment between the first and the last
\* step of the log call that a thread is in.
Record == may' = [t \in Threads |->
    IF ~Logging(t)' THEN {}
    ELSE IF pc'[t] = "return" THEN may[t]
    ELSE (IF Logging(t) THEN may[t] ELSE {})
         \cup IF Loose(t)' THEN BOOLEAN ELSE {Wanted(arg[t].lvl)'}]

Step(t) == (Begin(t) \/ Proceed(t)) /\ Record
Next == \E t \in Threads : Step(t)
Spec == Init /\ [][Next]_vars

(***************************************************************************)
(* What the code counts on.                                                *)
(***************************************************************************)
\* prepareLog, setLogLevel and close are called one at a time.
LifeAlone == \A s, t \in Owners : pc[s] # "idle" /\ pc[t] # "idle" => s = t

\* No other call, the cleaner's own included, runs while a context is closed.
Closing(t) == pc[t] \in {"close:native", "close:handle", "close:init"}
Drained == \A s, t \in Threads : Closing(s) /\ pc[t] \in CallPoints => s = t

\* On Android no Dart call is made between a close and the next prepareLog.
DartWaits == (\E t \in Callers : arg[t].ffi) => gHandle \in live \cup {Null}

Considerate == LifeAlone /\ Drained
ConsiderateSpec == Init /\ [][Next /\ Considerate']_vars

Careful == Considerate /\ DartWaits

\* Threads that are inside prepareLog, setLogLevel or close keep running, and
\* the scheduler runs a clean-up thread.  Drained puts a close before or after
\* its steps, so that they are enabled again and again rather than always.
CarefulStep(t) == Step(t) /\ Careful'
CarefulSpec == /\ Init /\ [][\E t \in Threads : CarefulStep(t)]_vars
               /\ \A t \in Owners : WF_vars(CarefulStep(t) /\ Proceed(t))
               /\ \A c \in Cleaners : SF_vars(CarefulStep(c) /\ Proceed(c))
-----------------------------------------------------------------------------
Labels == CallPoints \cup {"idle", "unborn", "asleep", "clean", "clean:failed",
    "prepare:check", "prepare:open", "prepare:init", "prepare:ffi", "prepare:ffilevel",
    "prepare:clean", "setlevel:ffi", "close:check", "close:native", "close:handle", "close:init"}
Lines == [len : Nat, newline : Nat, buffer : Nat]

\* Types of the variables.
PlatformTypeOK ==
    /\ platform \in {"android", "ios"}
    /\ inited \in BOOLEAN /\ handle \in Contexts \cup {Null} /\ level \in Levels \cup {INFO}
    /\ gHandle \in Contexts \cup {Null} /\ gLevel \in Levels \cup {INFO}
    /\ live \subseteq Contexts
    /\ pc \in [Threads -> Labels]
    /\ arg \in [Threads -> [ffi : BOOLEAN, lvl : 0..5, h : Contexts \cup {Null}, next : Labels,
                            out : BOOLEAN, line : Lines]]
    /\ may \in [Threads -> SUBSET BOOLEAN]

\* A log call, native or Dart, reaches lz_logger_write or is dropped as the
\* state of the log and its level at some moment of the call ask for, while
\* prepareLog and setLogLevel run beside it.
TakesEffect ==
    \A t \in Threads : pc[t] = "return" => arg[t].out \in may[t]

\* A call goes into the library with a context that was not closed, by whatever
\* opens, failed opens and closes it was preceded.
UsesLive == \A t \in Threads : pc[t] \in UsePoints => arg[t].h \in live

\* Between two life-cycle calls the only context there is is the one a call
\* can reach: none is left open behind a failed or repeated prepareLog.
NoneForgotten ==
    /\ live \subseteq {handle}
    /\ ~LifeBusy => live = IF inited THEN {handle} ELSE {}

\* Each line handed to lz_logger_write ends with its newline and lies, with
\* the zero behind it, in its buffer, however long the message was.
LinesEnd ==
    \A t \in Threads : pc[t] = "return" /\ arg[t].out =>
        /\ arg[t].line.len = arg[t].line.newline + 1
        /\ arg[t].line.len < arg[t].line.buffer

\* After each successful prepareLog expired files are removed once, even if the
\* log is closed or reopened before the delay is over.
CleanUpRuns == \A c \in Cleaners : pc[c] = "asleep" ~> pc[c] = "clean"

\* A Dart call that begins and ends while the log is closed is dropped, as it
\* is on iOS.
DartDropsWhenClosed ==
    \A t \in Callers : arg[t].ffi /\ pc[t] = "write" => may[t] # {FALSE}
=============================================================================
