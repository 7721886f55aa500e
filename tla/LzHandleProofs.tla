--------------------------- MODULE LzHandleProofs ---------------------------
(***************************************************************************)
(* Theorems about LzHandle: what export, flush and close promise to the    *)
(* callers of CarefulSpec, for any number of writers and users and any     *)
(* sizes and bounds.  Writers' steps are calm steps of LzLogger, so that   *)
(* everything proved of those in LzLoggerProofs holds here too.            *)
(***************************************************************************)
EXTENDS LzHandle, LzLoggerProofs, SequenceTheorems

\* Where a user has a pointer that it goes through, or will.
InUse == AtMapping \cup {"export:unlink", "export:open"}
\* Where a close is under way, and where an export has its output open.
Closing == {"close:load", "close:sync", "close:old", "close:syncold", "close:free"}
Writing == {"export:copy", "export:footer", "export:done"}

\* A user's pointer leads to the file it was loaded for, as a writer's does.
UsersRecent ==
    \A u \in Users : upc[u] \in InUse =>
        /\ loc[u].ptr \in Addrs /\ loc[u].tgt \in 1..gen
        /\ gen - loc[u].tgt <= 1 => map[loc[u].ptr] = loc[u].tgt

\* From the second file on there is a replaced mapping, but in the middle of a switch.
OldKept == gen > 1 /\ (\A w \in Writers : pc[w] # "retire") => old \in Addrs

\* Answered before means answered.
SeenAnswered == \A u \in Users : loc[u].seen \subseteq acked

\* A close has marked the handle; nobody is inside a call on a freed one.
LifeCycle == /\ ~harmed
             /\ \A u \in Users : upc[u] \in Closing => closed
             /\ freed => closed /\ \A u \in Users : upc[u] = "idle"

\* The used_size an export read ends between two reservations of its file, and
\* behind every message answered before the call loaded the pointer.
SizedBetween ==
    \A u \in Users : Exporting(u) =>
        /\ loc[u].tgt \in 1..gen
        /\ loc[u].size \in 1..MaxData /\ loc[u].size <= used[loc[u].tgt]
        /\ \A i \in DOMAIN log : log[i].file = loc[u].tgt =>
              /\ Ends(log[i]) <= loc[u].size \/ log[i].off >= loc[u].size
              /\ log[i].msg \in loc[u].seen => Ends(log[i]) <= loc[u].size

CipherOf(m) == [msg |-> m, mask |-> IF Encrypted THEN 1 ELSE 0, foot |-> 0, size |-> 0]

\* How far export.log is, and that what is in it of answered messages is right.
OutputSoFar ==
    /\ \A u \in Users : upc[u] \notin Writing => loc[u].sent = 0
    /\ \A u \in Users : upc[u] \in Writing =>
          /\ xname \in 1..xmade /\ loc[u].fd = xname
          /\ IF upc[u] = "export:copy" THEN loc[u].sent < loc[u].size
                                       ELSE loc[u].sent = loc[u].size
          /\ IF upc[u] = "export:done"
             THEN /\ Len(xfile[xname]) = loc[u].size + 1
                  /\ xfile[xname][loc[u].size + 1] = FooterFor(loc[u].size)
             ELSE Len(xfile[xname]) = loc[u].sent
          /\ \A i \in DOMAIN log : log[i].file = loc[u].tgt /\ log[i].msg \in loc[u].seen =>
                \A p \in log[i].off..(Ends(log[i]) - 1) :
                    p < loc[u].sent => xfile[xname][p + 1] = CipherOf(log[i].msg)

\* The file was synced after it changed last, or its msync failed.
Settled(f) == f \in failed \/ \A b \in dirty : b[1] # f

\* What a close has synced at each point, and for good once it is over.
SyncedByClose ==
    /\ \A u \in Users : upc[u] = "close:sync" => loc[u].tgt = gen
    /\ \A u \in Users : upc[u] \in {"close:old", "close:syncold", "close:free"} => Settled(gen)
    /\ \A u \in Users : upc[u] = "close:syncold" => gen > 1 /\ loc[u].tgt = gen - 1
    /\ (freed \/ \E u \in Users : upc[u] = "close:free") =>
          Settled(gen) /\ (gen > 1 => Settled(gen - 1))

\* The inductive invariant of CarefulSpec.
CarefulInv == /\ ContentInv /\ HandleTypeOK /\ Careful
              /\ UsersRecent /\ OldKept /\ SeenAnswered /\ LifeCycle
              /\ SizedBetween /\ OutputSoFar /\ FlushSyncs /\ SyncedByClose

USE DEF callVars, ptrVars, handleVars, fileVars, history, handle, output, disk, uvars

-----------------------------------------------------------------------------
(***************************************************************************)
(* Writers.                                                                *)
(***************************************************************************)
CarefulStep == Calls /\ NoCounterWraps /\ Careful'

\* A writer's step here is a calm step there.
LEMMA WriterIsCalm ==
    ASSUME NEW w \in Writers, WriterStep(w), NoCounterWraps, Careful'
    PROVE  CalmStep(w)
  BY DEF WriterStep, CalmStep, Careful

\* A call that finds the handle closed is over at once.
LEMMA RefusedMoves ==
    ASSUME HandleInv, NEW w \in Writers, WriteClosed(w)
    PROVE  /\ pc[w] = "idle"
           /\ \A v \in Writers : v # w => calls'[v] = calls[v] /\ len'[v] = len[v]
           /\ calls[w] \in Nat /\ calls'[w] = calls[w] + 1
           /\ UNCHANGED <<pc, ptr, tgt, off, cur, old, lock, new, gen, map, used, data, mask,
                          log, acked, fault>>
           /\ calls' \in [Writers -> 0..MaxCalls] /\ len' \in [Writers -> Word]
           /\ ret' \in [Writers -> Answers]
  <1>1. /\ calls \in [Writers -> 0..MaxCalls] /\ len \in [Writers -> Word]
        /\ ret \in [Writers -> Answers] /\ MaxCalls \in Nat
        /\ "HANDLE_CLOSED" \in Answers
    BY BoundsAssumption DEF HandleInv, TypeOK, CallTypes, Answers
  <1>2. PICK n \in Lens \ {0} : BeginCall(w, n)
    BY DEF WriteClosed
  <1>3. n \in Word
    BY SizesAssumption DEF Word
  <1> QED
    BY <1>1, <1>2, <1>3 DEF WriteClosed, BeginCall

\* ContentInv says of the handle what every behaviour of LzLogger keeps.
LEMMA ContentHandled == ContentInv => HandleInv
  BY DEF ContentInv, CalmInv

\* A refused call keeps what the writers' safety rests on.
LEMMA WriteClosedKeepsHandle ==
    ASSUME ContentInv, NEW w \in Writers, WriteClosed(w)
    PROVE  CalmInv'
  <1>1. TypeOK'
    BY RefusedMoves, ContentHandled
    DEF ContentInv, CalmInv, HandleInv, TypeOK, CallTypes, HandleTypes, FileTypes, HistoryTypes
  <1>2. InCall'
    BY RefusedMoves, ContentHandled DEF ContentInv, CalmInv, HandleInv, InCall
  <1>3. OneSwitcher' /\ Mappings' /\ MappedIfRecent'
    BY RefusedMoves, ContentHandled
    DEF ContentInv, CalmInv, HandleInv, OneSwitcher, Mappings, MappedIfRecent
  <1>4. Timely' /\ NoFault' /\ Granted'
    BY RefusedMoves, ContentHandled DEF ContentInv, CalmInv, Timely, NoFault, Granted
  <1>5. Accounted' /\ Disjoint'
    BY RefusedMoves, ContentHandled DEF ContentInv, CalmInv, Accounted, Disjoint, Ends
  <1> QED
    BY <1>1, <1>2, <1>3, <1>4, <1>5 DEF CalmInv, HandleInv

\* A refused call changes no byte.
LEMMA WriteClosedKeepsContent ==
    ASSUME ContentInv, NEW w \in Writers, WriteClosed(w)
    PROVE  ContentInv'
  <1>1. Ticketed'
    <2>1. \A v \in Writers : pc[v] \in {"copy", "encrypt"} =>
             len'[v] = len[v] /\ Msg(v)' = Msg(v)
      BY RefusedMoves, ContentHandled DEF Msg
    <2> QED
      BY <2>1, RefusedMoves, ContentHandled DEF ContentInv, Ticketed
  <1>2. OnePerCall'
    BY RefusedMoves, ContentHandled DEF ContentInv, OnePerCall
  <1>3. TailFree' /\ Intact'
    BY RefusedMoves, ContentHandled DEF ContentInv, TailFree, Intact, Ends
  <1>4. Copied'
    <2>1. UNCHANGED <<pc, tgt, off, data, mask>>
      BY RefusedMoves, ContentHandled
    <2>2. \A v \in Writers : pc[v] = "encrypt" => len'[v] = len[v] /\ Msg(v)' = Msg(v)
      BY RefusedMoves, ContentHandled DEF Msg
    <2> QED
      BY <2>1, <2>2 DEF ContentInv, Copied
  <1> QED
    BY <1>1, <1>2, <1>3, <1>4, WriteClosedKeepsHandle DEF ContentInv

\* A user never touches what the writers work on.
LEMMA UsersLeaveFiles ==
    ASSUME NEW u \in Users, UserStep(u)
    PROVE  UNCHANGED vars
  BY DEF UserStep, ExportCall, ExportLoad, ReadUsed, Unlink, OpenExport, CopyOut, WriteFooter,
         ExportFails, FlushCall, FlushLoad, FlushSync, Finish, CloseCall, CloseLoad, CloseSync,
         CloseLoadOld, CloseSyncOld, Free, Begin, LoadFor

\* The invariant of the writers alone is kept by the steps of all.
LEMMA ContentKept ==
    ASSUME ContentInv, CarefulStep \/ UNCHANGED hvars
    PROVE  ContentInv'
  <1>1. ASSUME NEW w \in Writers, WriterStep(w), NoCounterWraps, Careful'
        PROVE  ContentInv'
    BY <1>1, WriterIsCalm, ContentInvStep DEF CalmNext
  <1>2. ASSUME NEW u \in Users, UserStep(u)
        PROVE  ContentInv'
    BY <1>2, UsersLeaveFiles, ContentInvStep
  <1>3. CASE UNCHANGED hvars
    BY <1>3, ContentInvStep DEF hvars
  <1> QED
    BY <1>1, <1>2, <1>3, WriteClosedKeepsContent DEF CarefulStep, Calls

-----------------------------------------------------------------------------
(***************************************************************************)
(* The locals of a user.                                                   *)
(***************************************************************************)
LoadedAt(l, p, g, s) == [l EXCEPT !.ptr = p, !.tgt = g, !.seen = s]
SizedAt(l, n) == [l EXCEPT !.size = n]
OpenedAt(l, f) == [l EXCEPT !.fd = f]
SentAt(l, n) == [l EXCEPT !.sent = @ + n]
OldAt(l, p, g) == [l EXCEPT !.ptr = p, !.tgt = g]

\* The locals of a user outside a call.
LEMMA NoLocalsHolds ==
    NoLocals \in Locals /\ NoLocals.seen = {} /\ NoLocals.sent = 0
  <1>1. 0 \in 0..MaxFiles /\ 0 \in 0..MaxData /\ 0 \in Nat
    BY SizesAssumption, BoundsAssumption
  <1> QED
    BY <1>1 DEF NoLocals, Locals

\* What the locals of a call hold.
LEMMA LocalsFields ==
    ASSUME NEW l \in Locals
    PROVE  /\ l.ptr \in Addrs \cup {NoAddr} /\ l.tgt \in 0..MaxFiles /\ l.seen \subseteq Msgs
           /\ l.size \in 0..MaxData /\ l.sent \in 0..MaxData /\ l.fd \in Nat
  BY DEF Locals

\* The locals after the pointer was loaded.
LEMMA LoadedHolds ==
    ASSUME NEW l \in Locals, NEW p \in Addrs \cup {NoAddr}, NEW g \in 0..MaxFiles,
           NEW s \in SUBSET Msgs
    PROVE  /\ LoadedAt(l, p, g, s) \in Locals
           /\ LoadedAt(l, p, g, s).ptr = p /\ LoadedAt(l, p, g, s).tgt = g
           /\ LoadedAt(l, p, g, s).seen = s
           /\ LoadedAt(l, p, g, s).sent = l.sent
  BY DEF LoadedAt, Locals

\* The locals after used_size was read.
LEMMA SizedHolds ==
    ASSUME NEW l \in Locals, NEW n \in 0..MaxData
    PROVE  /\ SizedAt(l, n) \in Locals /\ SizedAt(l, n).size = n
           /\ SizedAt(l, n).ptr = l.ptr /\ SizedAt(l, n).tgt = l.tgt
           /\ SizedAt(l, n).seen = l.seen /\ SizedAt(l, n).sent = l.sent
  BY DEF SizedAt, Locals

\* The locals after export.log was opened.
LEMMA OpenedHolds ==
    ASSUME NEW l \in Locals, NEW f \in Nat
    PROVE  /\ OpenedAt(l, f) \in Locals /\ OpenedAt(l, f).fd = f
           /\ OpenedAt(l, f).ptr = l.ptr /\ OpenedAt(l, f).tgt = l.tgt
           /\ OpenedAt(l, f).seen = l.seen /\ OpenedAt(l, f).size = l.size
           /\ OpenedAt(l, f).sent = l.sent
  BY DEF OpenedAt, Locals

\* What write(2) takes is part of what is left of used_size.
LEMMA SentFits ==
    ASSUME NEW l \in Locals, NEW n \in 1..(l.size - l.sent)
    PROVE  l.sent + n \in 0..MaxData
  <1> DEFINE size == l.size
             sent == l.sent
  <1>1. size \in 0..MaxData /\ sent \in 0..MaxData /\ n \in 1..(size - sent) /\ MaxData \in Nat
    BY SizesAssumption, LocalsFields
  <1> HIDE DEF size, sent
  <1>2. sent + n \in 0..MaxData
    BY <1>1
  <1> QED
    BY <1>2 DEF sent

\* The locals after n bytes were written.
LEMMA SentHolds ==
    ASSUME NEW l \in Locals, NEW n, l.sent + n \in 0..MaxData
    PROVE  /\ SentAt(l, n) \in Locals /\ SentAt(l, n).sent = l.sent + n
           /\ SentAt(l, n).ptr = l.ptr /\ SentAt(l, n).tgt = l.tgt
           /\ SentAt(l, n).seen = l.seen /\ SentAt(l, n).size = l.size
           /\ SentAt(l, n).fd = l.fd
  BY DEF SentAt, Locals

\* The locals after the replaced pointer was loaded.
LEMMA OldHolds ==
    ASSUME NEW l \in Locals, NEW p \in Addrs \cup {NoAddr}, NEW g \in 0..MaxFiles
    PROVE  /\ OldAt(l, p, g) \in Locals
           /\ OldAt(l, p, g).ptr = p /\ OldAt(l, p, g).tgt = g
           /\ OldAt(l, p, g).seen = l.seen /\ OldAt(l, p, g).sent = l.sent
  BY DEF OldAt, Locals

\* The types a step of a user works on.
LEMMA HandleFacts ==
    ASSUME CarefulInv
    PROVE  /\ upc \in [Users -> UserLabels] /\ loc \in [Users -> Locals]
           /\ ops \in [Users -> 0..MaxOps] /\ MaxOps \in Nat
           /\ closed \in BOOLEAN /\ freed \in BOOLEAN /\ ~harmed /\ ~fault
           /\ cur \in Addrs /\ old \in Addrs \cup {NoAddr} /\ NoAddr \notin Addrs
           /\ gen \in 1..MaxFiles /\ MaxFiles \in Nat /\ MaxData \in Nat
           /\ map \in [Addrs -> 0..MaxFiles] /\ map[cur] = gen
           /\ used \in [Files -> Word] /\ Word \subseteq Nat
           /\ acked \subseteq Msgs
           /\ dirty \subseteq Files \X Pos /\ failed \subseteq Files
           /\ xmade \in Nat /\ xname \in 0..xmade
           /\ xfile \in Seq(Seq(Byte)) /\ Len(xfile) = xmade
  <1>1. CalmInv
    BY DEF CarefulInv, ContentInv
  <1>2. HandleInv /\ ~fault
    BY <1>1 DEF CalmInv, NoFault
  <1>3. /\ cur \in Addrs /\ old \in Addrs \cup {NoAddr} /\ gen \in 1..MaxFiles
        /\ map \in [Addrs -> 0..MaxFiles] /\ map[cur] = gen
        /\ used \in [Files -> Word] /\ acked \subseteq Msgs
    BY <1>2 DEF HandleInv, Mappings, TypeOK, HandleTypes, FileTypes, HistoryTypes, Files
  <1>4. Word \subseteq Nat
    BY DEF Word
  <1>5. HandleTypeOK /\ ~harmed
    BY DEF CarefulInv, LifeCycle
  <1>6. NoAddr \notin Addrs /\ MaxFiles \in Nat /\ MaxData \in Nat /\ MaxOps \in Nat
    BY NamesAssumption, BoundsAssumption, SizesAssumption, UsersAssumption
  <1> QED
    BY <1>2, <1>3, <1>4, <1>5, <1>6 DEF HandleTypeOK

\* A user that goes on leaves the others where they are.
LEMMA ContinueMoves ==
    ASSUME upc \in [Users -> UserLabels], loc \in [Users -> Locals],
           NEW u \in Users, NEW l, NEW m, Continue(u, l, m)
    PROVE  /\ upc'[u] = l /\ loc'[u] = m
           /\ \A v \in Users : v # u => upc'[v] = upc[v] /\ loc'[v] = loc[v]
           /\ l \in UserLabels => upc' \in [Users -> UserLabels]
           /\ m \in Locals => loc' \in [Users -> Locals]
  BY DEF Continue

\* A user that keeps its locals continues with them.
LEMMA GotoContinues ==
    ASSUME loc \in [Users -> Locals], NEW u \in Users, NEW l, UGoto(u, l)
    PROVE  Continue(u, l, loc[u])
  BY DEF UGoto, Continue

\* The program points of a user, listed.
LEMMA Labels2 ==
    UserLabels = {"idle", "export:open", "export:done", "flush:done",
                  "export:load", "flush:load", "close:load", "export:unlink", "close:old",
                  "close:free", "export:used", "export:copy", "export:footer", "flush:sync",
                  "close:sync", "close:syncold"}
  BY DEF UserLabels, AtContext, AtMapping

\* A user's pointer in use leads to its file, now.
LEMMA ThroughItsFile ==
    ASSUME CarefulInv, NEW u \in Users, upc[u] \in AtMapping
    PROVE  /\ FileOf(u) = loc[u].tgt /\ Through(u)
           /\ loc[u].tgt \in 1..gen /\ loc[u].tgt \in Files /\ loc[u].ptr \in Addrs
  <1>1. gen - loc[u].tgt <= 1
    BY DEF CarefulInv, Careful, UsersTimely
  <1>2. loc[u].tgt \in 1..gen /\ loc[u].ptr \in Addrs /\ map[loc[u].ptr] = loc[u].tgt
    BY <1>1 DEF CarefulInv, UsersRecent, InUse
  <1> QED
    BY <1>2, HandleFacts DEF FileOf, Through, NoFile, Files

-----------------------------------------------------------------------------
(***************************************************************************)
(* What a step does to its user, to export.log and to the disk.            *)
(***************************************************************************)
OthersStay(u) ==
    \A v \in Users : v # u => upc'[v] = upc[v] /\ loc'[v] = loc[v]

Goes(u, from, to, m) == upc[u] \in from /\ upc'[u] = to /\ loc'[u] = m

\* Where a user goes from where it is, and with which locals.
UserMove(u) ==
    \/ /\ upc[u] = "idle" /\ ~freed /\ loc'[u] = loc[u]
       /\ upc'[u] \in {"idle", "export:load", "flush:load", "close:load"}
    \/ /\ ~freed /\ loc'[u] = LoadedAt(loc[u], cur, gen, acked)
       /\ \/ upc[u] = "export:load" /\ upc'[u] = "export:used"
          \/ upc[u] = "flush:load" /\ upc'[u] = "flush:sync"
          \/ upc[u] = "close:load" /\ upc'[u] = "close:sync"
    \/ /\ Goes(u, {"export:used"}, "export:unlink", SizedAt(loc[u], used[loc[u].tgt]))
       /\ used[loc[u].tgt] \in 1..MaxData
    \/ Goes(u, {"export:unlink"}, "export:open", loc[u])
    \/ /\ Goes(u, {"export:open"}, "export:copy", OpenedAt(loc[u], xname'))
    \/ \E n \in 1..(loc[u].size - loc[u].sent) :
          Goes(u, {"export:copy"},
               IF loc[u].sent + n = loc[u].size THEN "export:footer" ELSE "export:copy",
               SentAt(loc[u], n))
    \/ Goes(u, {"export:footer"}, "export:done", loc[u])
    \/ Goes(u, {"export:used", "export:open", "export:copy", "export:footer", "export:done",
                "flush:sync", "flush:done", "close:free"}, "idle", NoLocals)
    \/ Goes(u, {"flush:sync"}, "flush:done", loc[u])
    \/ Goes(u, {"close:sync"}, "close:old", loc[u])
    \/ Goes(u, {"close:old"}, "close:free", loc[u]) /\ old = NoAddr
    \/ Goes(u, {"close:old"}, "close:syncold", OldAt(loc[u], old, map[old])) /\ old # NoAddr
    \/ Goes(u, {"close:syncold"}, "close:free", loc[u])

\* Where a user is after a step that sets its locals.
LEMMA Continued ==
    ASSUME CarefulInv, NEW u \in Users, NEW l, NEW m, Continue(u, l, m)
    PROVE  OthersStay(u) /\ upc'[u] = l /\ loc'[u] = m
  BY HandleFacts, ContinueMoves DEF OthersStay

\* Where a user is after a step that keeps its locals.
LEMMA WentOn ==
    ASSUME CarefulInv, NEW u \in Users, NEW l, UGoto(u, l)
    PROVE  OthersStay(u) /\ upc'[u] = l /\ loc'[u] = loc[u]
  BY HandleFacts, GotoContinues, Continued

\* Each step of a user is one of the moves that UserMove lists.
LEMMA UserMoves ==
    ASSUME CarefulInv, NEW u \in Users, UserStep(u)
    PROVE  UserMove(u) /\ OthersStay(u)
  <1> USE DEF At
  <1>1. CASE ExportCall(u) \/ FlushCall(u) \/ CloseCall(u)
    <2>1. upc[u] = "idle" /\ ~freed
      BY <1>1 DEF ExportCall, FlushCall, CloseCall, Begin
    <2>2. CASE UNCHANGED <<upc, loc>>
      BY <2>1, <2>2 DEF UserMove, OthersStay
    <2>3. CASE UGoto(u, "export:load") \/ UGoto(u, "flush:load") \/ UGoto(u, "close:load")
      BY <2>1, <2>3, WentOn DEF UserMove
    <2> QED
      BY <1>1, <2>2, <2>3 DEF ExportCall, FlushCall, CloseCall
  <1>2. CASE ExportLoad(u) \/ FlushLoad(u) \/ CloseLoad(u)
    <2>1. ASSUME NEW from, NEW to, LoadFor(u, from, to)
          PROVE  /\ upc[u] = from /\ ~freed /\ upc'[u] = to /\ OthersStay(u)
                 /\ loc'[u] = LoadedAt(loc[u], cur, gen, acked)
      <3>1. Continue(u, to, LoadedAt(loc[u], cur, gen, acked))
        BY <2>1 DEF LoadFor, LoadedAt
      <3> QED
        BY <2>1, <3>1, Continued DEF LoadFor
    <2> QED
      BY <1>2, <2>1 DEF ExportLoad, FlushLoad, CloseLoad, UserMove
  <1>3. CASE ReadUsed(u)
    <2>1. upc[u] = "export:used" /\ FileOf(u) = loc[u].tgt
      BY <1>3, ThroughItsFile DEF ReadUsed, AtMapping
    <2>2. CASE used[FileOf(u)] \in 1..MaxData
      <3>1. Continue(u, "export:unlink", SizedAt(loc[u], used[FileOf(u)]))
        BY <1>3, <2>2 DEF ReadUsed, SizedAt
      <3> QED
        BY <2>1, <2>2, <3>1, Continued DEF UserMove, Goes
    <2>3. CASE used[FileOf(u)] \notin 1..MaxData
      BY <1>3, <2>1, <2>3, Continued DEF ReadUsed, Answer, UserMove, Goes
    <2> QED
      BY <2>2, <2>3
  <1>4. CASE Unlink(u) \/ WriteFooter(u)
    BY <1>4, WentOn DEF Unlink, WriteFooter, UserMove, Goes
  <1>5. CASE OpenExport(u)
    <2>1. Continue(u, "export:copy", OpenedAt(loc[u], xname'))
      BY <1>5 DEF OpenExport, OpenedAt
    <2> QED
      BY <1>5, <2>1, Continued DEF OpenExport, UserMove, Goes
  <1>6. CASE CopyOut(u)
    <2>1. PICK n \in 1..(loc[u].size - loc[u].sent) : Sent(u, n, loc[u].sent + n = loc[u].size)
      BY <1>6 DEF CopyOut
    <2>2. Continue(u, IF loc[u].sent + n = loc[u].size THEN "export:footer" ELSE "export:copy",
                   SentAt(loc[u], n))
      BY <2>1 DEF Sent, SentAt
    <2> QED
      BY <1>6, <2>2, Continued DEF CopyOut, UserMove, Goes
  <1>7. CASE ExportFails(u) \/ Finish(u) \/ Free(u)
    BY <1>7, Continued DEF ExportFails, Finish, Free, Answer, UserMove, Goes
  <1>8. CASE FlushSync(u)
    BY <1>8, Continued, WentOn DEF FlushSync, Answer, UserMove, Goes
  <1>9. CASE CloseSync(u) \/ CloseSyncOld(u)
    BY <1>9, WentOn DEF CloseSync, CloseSyncOld, UserMove, Goes
  <1>10. CASE CloseLoadOld(u)
    <2>1. CASE old = NoAddr
      BY <1>10, <2>1, WentOn DEF CloseLoadOld, UserMove, Goes
    <2>2. CASE old # NoAddr
      <3>1. Continue(u, "close:syncold", OldAt(loc[u], old, map[old]))
        BY <1>10, <2>2 DEF CloseLoadOld, OldAt
      <3> QED
        BY <1>10, <2>2, <3>1, Continued DEF CloseLoadOld, UserMove, Goes
    <2> QED
      BY <2>1, <2>2
  <1> QED
    BY <1>1, <1>2, <1>3, <1>4, <1>5, <1>6, <1>7, <1>8, <1>9, <1>10 DEF UserStep

\* What it does to export.log.
OutputMove(u) ==
    \/ UNCHANGED output /\ upc[u] \notin {"export:unlink", "export:footer"}
       /\ upc'[u] # "export:copy" /\ upc'[u] # "export:footer"
    \/ /\ upc[u] \in {"export:unlink", "export:footer"} /\ upc'[u] = "idle"
       /\ UNCHANGED output
    \/ /\ upc[u] = "export:unlink" /\ upc'[u] = "export:open" /\ ~freed
       /\ xname' = 0 /\ UNCHANGED <<xmade, xfile>>
    \/ /\ upc[u] = "export:open" /\ upc'[u] = "export:copy"
       /\ loc'[u] = OpenedAt(loc[u], xname')
       /\ \/ /\ xname = 0 /\ xmade' = xmade + 1 /\ xname' = xmade + 1
             /\ xfile' = Append(xfile, <<>>)
          \/ /\ xname # 0 /\ UNCHANGED <<xmade, xname>>
             /\ xfile' = [xfile EXCEPT ![xname] = <<>>]
    \/ /\ upc[u] = "export:copy" /\ UNCHANGED <<xmade, xname>>
       /\ \E n \in 1..(loc[u].size - loc[u].sent) :
             /\ xfile' = [xfile EXCEPT ![loc[u].fd] =
                             WriteAt(xfile[loc[u].fd], loc[u].sent,
                                     Span(loc[u].tgt, loc[u].sent, n))]
             /\ upc'[u] = IF loc[u].sent + n = loc[u].size THEN "export:footer" ELSE "export:copy"
             /\ loc'[u] = SentAt(loc[u], n)
    \/ /\ upc[u] = "export:footer" /\ upc'[u] = "export:done" /\ loc'[u] = loc[u]
       /\ UNCHANGED <<xmade, xname>>
       /\ xfile' = [xfile EXCEPT ![loc[u].fd] =
                       WriteAt(xfile[loc[u].fd], loc[u].sent, <<FooterFor(loc[u].size)>>)]

\* What it does to the pages that wait for msync.
DiskMove(u) ==
    \/ UNCHANGED disk /\ upc[u] \notin {"flush:sync", "close:sync", "close:syncold"}
    \/ /\ upc[u] \in {"flush:sync", "close:sync", "close:syncold"}
       /\ dirty' = {b \in dirty : b[1] # loc[u].tgt} /\ failed' = failed
    \/ /\ upc[u] \in {"flush:sync", "close:sync", "close:syncold"} /\ upc'[u] # "flush:done"
       /\ dirty' = dirty /\ failed' = failed \cup {loc[u].tgt}

\* What it does to the life of the handle.
LifeMove(u) ==
    \/ UNCHANGED handle /\ upc[u] # "close:free" /\ (upc[u] = "idle" => upc'[u] # "close:load")
    \/ /\ upc[u] = "idle" /\ upc'[u] = "close:load" /\ ~freed
       /\ closed' = TRUE /\ UNCHANGED <<freed, harmed>>
    \/ /\ upc[u] = "close:free" /\ upc'[u] = "idle" /\ ~freed
       /\ freed' = TRUE /\ UNCHANGED <<closed, harmed>>

\* Steps by what they change beside the user's own state.
LEMMA EffectFree ==
    ASSUME NEW u \in Users,
           \/ ExportCall(u) \/ ExportLoad(u) \/ ReadUsed(u) \/ ExportFails(u)
           \/ FlushCall(u) \/ FlushLoad(u) \/ Finish(u) \/ CloseLoad(u) \/ CloseLoadOld(u)
    PROVE  UNCHANGED <<handle, output, disk>>
  BY DEF ExportCall, ExportLoad, ReadUsed, ExportFails, FlushCall, FlushLoad, Finish, CloseLoad,
         CloseLoadOld, LoadFor, Begin

\* Only close marks the handle, and only its last step frees it.
LEMMA LifeMoves ==
    ASSUME CarefulInv, NEW u \in Users, UserStep(u)
    PROVE  LifeMove(u)
  <1> USE DEF At, LifeMove
  <1>1. CASE CloseCall(u)
    BY <1>1, WentOn DEF CloseCall, Begin
  <1>2. CASE Free(u)
    BY <1>2, Continued DEF Free, Answer
  <1>3. CASE ExportCall(u) \/ FlushCall(u)
    <2>1. upc'[u] # "close:load" \/ upc' = upc
      BY <1>3, WentOn DEF ExportCall, FlushCall
    <2> QED
      BY <1>3, <2>1 DEF ExportCall, FlushCall, Begin
  <1>4. CASE ExportLoad(u) \/ ReadUsed(u) \/ Unlink(u) \/ OpenExport(u)
    BY <1>4 DEF ExportLoad, ReadUsed, Unlink, OpenExport, LoadFor
  <1>5. CASE CopyOut(u) \/ WriteFooter(u) \/ ExportFails(u) \/ Finish(u)
    BY <1>5 DEF CopyOut, WriteFooter, ExportFails, Finish
  <1>6. CASE FlushLoad(u) \/ FlushSync(u) \/ CloseLoad(u) \/ CloseSync(u)
    BY <1>6 DEF FlushLoad, FlushSync, CloseLoad, CloseSync, LoadFor
  <1>7. CASE CloseLoadOld(u) \/ CloseSyncOld(u)
    BY <1>7 DEF CloseLoadOld, CloseSyncOld
  <1> QED
    BY <1>1, <1>2, <1>3, <1>4, <1>5, <1>6, <1>7 DEF UserStep

\* Only flush and close reach the disk, each with the file it loaded.
LEMMA DiskMoves ==
    ASSUME CarefulInv, NEW u \in Users, UserStep(u)
    PROVE  DiskMove(u)
  <1> USE DEF At, DiskMove
  <1>1. CASE FlushSync(u)
    <2>1. FileOf(u) = loc[u].tgt
      BY <1>1, ThroughItsFile DEF FlushSync, AtMapping
    <2>2. Answer(u) => upc'[u] # "flush:done"
      BY Continued DEF Answer
    <2> QED
      BY <1>1, <2>1, <2>2 DEF FlushSync, Sync, SyncFails
  <1>2. CASE CloseSync(u) \/ CloseSyncOld(u)
    <2>1. FileOf(u) = loc[u].tgt
      BY <1>2, ThroughItsFile DEF CloseSync, CloseSyncOld, AtMapping
    <2>2. upc'[u] # "flush:done"
      BY <1>2, WentOn DEF CloseSync, CloseSyncOld
    <2> QED
      BY <1>2, <2>1, <2>2 DEF CloseSync, CloseSyncOld, Sync, SyncFails
  <1>3. CASE ExportCall(u) \/ FlushCall(u) \/ CloseCall(u)
    BY <1>3 DEF ExportCall, FlushCall, CloseCall, Begin
  <1>4. CASE ExportLoad(u) \/ FlushLoad(u) \/ CloseLoad(u) \/ ReadUsed(u)
    BY <1>4 DEF ExportLoad, FlushLoad, CloseLoad, ReadUsed, LoadFor
  <1>5. CASE Unlink(u) \/ OpenExport(u) \/ CopyOut(u) \/ WriteFooter(u)
    BY <1>5 DEF Unlink, OpenExport, CopyOut, WriteFooter
  <1>6. CASE ExportFails(u) \/ Finish(u) \/ CloseLoadOld(u) \/ Free(u)
    BY <1>6 DEF ExportFails, Finish, CloseLoadOld, Free
  <1> QED
    BY <1>1, <1>2, <1>3, <1>4, <1>5, <1>6 DEF UserStep

\* Only an export touches export.log, each step as OutputMove says.
LEMMA OutputMoves ==
    ASSUME CarefulInv, NEW u \in Users, UserStep(u)
    PROVE  OutputMove(u)
  <1> USE DEF At, OutputMove
  <1>1. CASE ExportCall(u) \/ FlushCall(u) \/ CloseCall(u)
    <2>1. upc[u] = "idle" /\ UNCHANGED output
      BY <1>1 DEF ExportCall, FlushCall, CloseCall, Begin
    <2>2. upc'[u] \notin {"export:copy", "export:footer"}
      BY <1>1, <2>1, WentOn DEF ExportCall, FlushCall, CloseCall
    <2> QED
      BY <2>1, <2>2
  <1>2. CASE ExportLoad(u) \/ FlushLoad(u) \/ CloseLoad(u)
    <2>1. /\ upc[u] \in {"export:load", "flush:load", "close:load"} /\ UNCHANGED output
          /\ upc'[u] \in {"export:used", "flush:sync", "close:sync"}
      BY <1>2, Continued DEF ExportLoad, FlushLoad, CloseLoad, LoadFor
    <2> QED
      BY <2>1
  <1>3. CASE ReadUsed(u) \/ Finish(u) \/ Free(u)
    <2>1. /\ upc[u] \in {"export:used", "export:done", "flush:done", "close:free"}
          /\ UNCHANGED output /\ upc'[u] \in {"export:unlink", "idle"}
      BY <1>3, Continued DEF ReadUsed, Finish, Free, Answer
    <2> QED
      BY <2>1
  <1>4. CASE Unlink(u)
    BY <1>4, WentOn DEF Unlink
  <1>5. CASE OpenExport(u)
    <2>1. Continue(u, "export:copy", OpenedAt(loc[u], xname'))
      BY <1>5 DEF OpenExport, OpenedAt
    <2>2. upc[u] = "export:open" /\ upc'[u] = "export:copy" /\ loc'[u] = OpenedAt(loc[u], xname')
      BY <1>5, <2>1, Continued DEF OpenExport
    <2>3. CASE xname = 0
      <3>1. xmade' = xmade + 1 /\ xname' = xmade + 1 /\ xfile' = Append(xfile, <<>>)
        BY <1>5, <2>3 DEF OpenExport
      <3> QED
        BY <2>2, <2>3, <3>1
    <2>4. CASE xname # 0
      <3>1. UNCHANGED <<xmade, xname>> /\ xfile' = [xfile EXCEPT ![xname] = <<>>]
        BY <1>5, <2>4 DEF OpenExport
      <3> QED
        BY <2>2, <2>4, <3>1
    <2> QED
      BY <2>3, <2>4
  <1>6. CASE CopyOut(u)
    <2>1. FileOf(u) = loc[u].tgt
      BY <1>6, ThroughItsFile DEF CopyOut, AtMapping
    <2>2. PICK n \in 1..(loc[u].size - loc[u].sent) :
             /\ WriteOut(u, loc[u].sent, Span(FileOf(u), loc[u].sent, n))
             /\ Sent(u, n, loc[u].sent + n = loc[u].size)
      BY <1>6 DEF CopyOut
    <2>3. Continue(u, IF loc[u].sent + n = loc[u].size THEN "export:footer" ELSE "export:copy",
                   SentAt(loc[u], n))
      BY <2>2 DEF Sent, SentAt
    <2>4. xfile' = [xfile EXCEPT ![loc[u].fd] =
                       WriteAt(xfile[loc[u].fd], loc[u].sent, Span(loc[u].tgt, loc[u].sent, n))]
      BY <2>1, <2>2 DEF WriteOut
    <2>5. upc[u] = "export:copy" /\ UNCHANGED <<xmade, xname>>
      BY <1>6 DEF CopyOut
    <2>6. /\ upc'[u] = IF loc[u].sent + n = loc[u].size THEN "export:footer" ELSE "export:copy"
          /\ loc'[u] = SentAt(loc[u], n)
      BY <2>3, Continued
    <2> QED
      BY <2>4, <2>5, <2>6
  <1>7. CASE WriteFooter(u)
    BY <1>7, WentOn DEF WriteFooter, WriteOut
  <1>8. CASE ExportFails(u)
    BY <1>8, Continued DEF ExportFails, Answer
  <1>9. CASE FlushSync(u) \/ CloseSync(u) \/ CloseLoadOld(u) \/ CloseSyncOld(u)
    <2>1. /\ upc[u] \in {"flush:sync", "close:sync", "close:old", "close:syncold"}
          /\ UNCHANGED output
      BY <1>9 DEF FlushSync, CloseSync, CloseLoadOld, CloseSyncOld
    <2>2. upc'[u] \in {"flush:done", "idle", "close:old", "close:free", "close:syncold"}
      BY <1>9, Continued, WentOn DEF FlushSync, CloseSync, CloseLoadOld, CloseSyncOld, Answer
    <2> QED
      BY <2>1, <2>2
  <1> QED
    BY <1>1, <1>2, <1>3, <1>4, <1>5, <1>6, <1>7, <1>8, <1>9 DEF UserStep

-----------------------------------------------------------------------------
(***************************************************************************)
(* What a step of a writer does to what the users rely on.                 *)
(***************************************************************************)
\* Nothing of the users' own, but the pages it changes wait for msync.
LEMMA WriterLeavesUsers ==
    ASSUME NEW w \in Writers, WriterStep(w)
    PROVE  /\ UNCHANGED <<closed, freed, harmed, upc, ops, loc, xname, xmade, xfile, failed>>
           /\ dirty' = dirty \cup Changed
  BY DEF WriterStep

\* Time only goes forward: files are published, counters and answers grow.
LEMMA WriterGrows ==
    ASSUME CarefulInv, NEW w \in Writers, CalmStep(w)
    PROVE  /\ gen' \in 1..MaxFiles /\ gen <= gen'
           /\ used' \in [Files -> Word] /\ acked \subseteq acked'
           /\ \A f \in 1..gen : used[f] <= used'[f]
  <1>1. CalmInv /\ CalmInv'
    BY ContentInvStep DEF CarefulInv, ContentInv, CalmNext
  <1>2. gen' \in 1..MaxFiles /\ used' \in [Files -> Word]
    BY <1>1 DEF CalmInv, HandleInv, TypeOK, HandleTypes, FileTypes, Files
  <1>3. acked \subseteq acked'
    BY <1>1, CallMoves
  <1>4. gen' = gen \/ gen' = gen + 1
    <2>1. CASE Refuse(w) \/ Call(w) \/ CheckSize(w) \/ Load(w) \/ Reserve(w) \/ Overflow(w)
      BY <2>1 DEF Refuse, Call, BeginCall, CheckSize, Load, Reserve, Overflow, FetchAdd
    <2>2. CASE Copy(w) \/ Encrypt(w) \/ Pad(w) \/ PadEncrypt(w) \/ Lock(w) \/ Retry(w)
      BY <2>2 DEF Copy, Encrypt, Pad, PadEncrypt, Lock, Retry
    <2>3. CASE \/ StartSwitch(w) \/ MapNewFile(w) \/ SwitchFails(w) \/ ZeroOffset(w)
               \/ Publish(w) \/ Retire(w) \/ Segv(w)
      BY <2>3 DEF StartSwitch, MapNewFile, SwitchFails, ZeroOffset, Publish, Retire, Segv
    <2> QED
      BY <2>1, <2>2, <2>3 DEF CalmStep, Step, Proceed
  <1>5. gen \in Int
    BY HandleFacts
  <1> QED
    BY <1>2, <1>3, <1>4, <1>5 DEF CalmStep, NoCounterWraps

\* The log keeps its entries; one that is new starts at the counter of its file
\* and belongs to a message that is not answered.
LEMMA WriterLogs ==
    ASSUME CarefulInv, NEW w \in Writers, CalmStep(w)
    PROVE  /\ \A i \in DOMAIN log : i \in DOMAIN log' /\ log'[i] = log[i]
           /\ \A i \in DOMAIN log' : i \notin DOMAIN log =>
                 /\ log'[i].file \in 1..gen /\ log'[i].off = used[log'[i].file]
                 /\ log'[i].msg \notin acked
  <1>1. CalmInv /\ OnePerCall
    BY DEF CarefulInv, ContentInv
  <1>2. CASE Reserve(w)
    <2>1. FetchAdd(w)
      BY <1>2 DEF Reserve
    <2>2. tgt[w] \in 1..gen
      BY <1>1, <2>1, CalmFetchAdd
    <2>3. Msg(w) \notin acked
      BY <1>1, <2>1, CallFacts DEF FetchAdd, OnePerCall, Msg
    <2> QED
      BY <1>1, <1>2, <2>2, <2>3, ReserveAppends
  <1>3. CASE ~Reserve(w)
    BY <1>3, LogUnchanged DEF CalmStep
  <1> QED
    BY <1>2, <1>3

\* Every step keeps what a user was told of its file.
LEMMA StepGrows ==
    ASSUME CarefulInv, CarefulStep \/ UNCHANGED hvars
    PROVE  /\ gen' \in 1..MaxFiles /\ gen <= gen'
           /\ used' \in [Files -> Word] /\ acked \subseteq acked'
           /\ \A f \in 1..gen : used[f] <= used'[f]
           /\ \A i \in DOMAIN log : i \in DOMAIN log' /\ log'[i] = log[i]
           /\ \A i \in DOMAIN log' : i \notin DOMAIN log =>
                 /\ log'[i].file \in 1..gen /\ log'[i].off = used[log'[i].file]
                 /\ log'[i].msg \notin acked
  <1>1. ASSUME NEW w \in Writers, WriterStep(w), CarefulStep
        PROVE  CalmStep(w)
    BY <1>1, WriterIsCalm DEF CarefulStep
  <1>2. CASE UNCHANGED <<gen, used, log, acked>>
    <2>1. \A f \in 1..gen : used[f] \in Int
      <3>1. gen \in 1..MaxFiles /\ MaxFiles \in Nat /\ used \in [Files -> Word] /\ Word \subseteq Nat
        BY HandleFacts
      <3>2. \A f \in 1..gen : f \in Files
        BY <3>1 DEF Files
      <3>3. \A f \in 1..gen : used[f] \in Word
        BY <3>1, <3>2
      <3>4. \A n \in Word : n \in Int
        BY SizesAssumption DEF Word
      <3> QED
        BY <3>3, <3>4
    <2> QED
      BY <1>2, <2>1, HandleFacts
  <1>3. ASSUME NEW w \in Writers, WriteClosed(w)
        PROVE  UNCHANGED <<gen, used, log, acked>>
    BY <1>3, RefusedMoves, ContentHandled DEF CarefulInv
  <1>4. ASSUME NEW u \in Users, UserStep(u)
        PROVE  UNCHANGED <<gen, used, log, acked>>
    BY <1>4, UsersLeaveFiles DEF vars
  <1>5. CASE UNCHANGED hvars
    BY <1>2, <1>5 DEF hvars, vars
  <1> QED
    BY <1>1, <1>2, <1>3, <1>4, <1>5, WriterGrows, WriterLogs DEF CarefulStep, Calls

\* Bytes of answered messages are not among those a step changes.
LEMMA AnsweredUnchanged ==
    ASSUME CarefulInv, NEW w \in Writers, CalmStep(w), NEW i \in DOMAIN log, log[i].msg \in acked,
           NEW p \in log[i].off..(Ends(log[i]) - 1)
    PROVE  <<log[i].file, p>> \notin Changed
  <1>1. CalmInv /\ OnePerCall /\ ContentInv
    BY DEF CarefulInv, ContentInv
  <1>2. pc[w] \in {"copy", "encrypt"} => log[i].msg # Msg(w)
    BY <1>1, CallFacts DEF OnePerCall, Msg
  <1>3. /\ data'[log[i].file][p] = data[log[i].file][p]
        /\ mask'[log[i].file][p] = mask[log[i].file][p]
    BY <1>1, <1>2, OthersKeepTheirBytes
  <1> QED
    BY <1>3 DEF Changed

-----------------------------------------------------------------------------
(***************************************************************************)
(* Types of what the users work on.                                        *)
(***************************************************************************)
\* A call that takes a step goes on somewhere, or stays where it is.
LEMMA UserContinues ==
    ASSUME CarefulInv, NEW u \in Users, UserStep(u)
    PROVE  \/ UNCHANGED <<upc, loc>>
           \/ \E l, m : Continue(u, l, m)
  <1>1. loc \in [Users -> Locals]
    BY HandleFacts
  <1>2. ASSUME NEW l, UGoto(u, l) PROVE \E k, m : Continue(u, k, m)
    BY <1>1, <1>2, GotoContinues
  <1>3. CASE ExportCall(u) \/ FlushCall(u) \/ CloseCall(u) \/ Unlink(u) \/ WriteFooter(u)
    BY <1>2, <1>3 DEF ExportCall, FlushCall, CloseCall, Unlink, WriteFooter
  <1>4. CASE ExportLoad(u) \/ FlushLoad(u) \/ CloseLoad(u) \/ ReadUsed(u) \/ OpenExport(u)
    BY <1>4 DEF ExportLoad, FlushLoad, CloseLoad, ReadUsed, OpenExport, LoadFor, Answer
  <1>5. CASE CopyOut(u) \/ ExportFails(u) \/ Finish(u) \/ Free(u)
    BY <1>5 DEF CopyOut, Sent, ExportFails, Finish, Free, Answer
  <1>6. CASE FlushSync(u) \/ CloseSync(u) \/ CloseLoadOld(u) \/ CloseSyncOld(u)
    BY <1>2, <1>6 DEF FlushSync, CloseSync, CloseLoadOld, CloseSyncOld, Answer
  <1> QED
    BY <1>3, <1>4, <1>5, <1>6 DEF UserStep

\* The fields that the steps of a user leave in its locals.
LEMMA UserLocals ==
    ASSUME CarefulInv, NEW u \in Users, UserStep(u), OutputMove(u)
    PROVE  /\ loc'[u] \in Locals /\ upc'[u] \in UserLabels
           /\ loc'[u].seen \subseteq acked
  <1>1. /\ loc[u] \in Locals /\ loc[u].tgt \in 0..MaxFiles
        /\ loc[u].size \in 0..MaxData /\ loc[u].sent \in 0..MaxData
        /\ loc[u].seen \subseteq acked /\ upc[u] \in UserLabels
    BY HandleFacts, LocalsFields DEF CarefulInv, SeenAnswered
  <1>2. \/ loc'[u] = loc[u] \/ loc'[u] = LoadedAt(loc[u], cur, gen, acked)
        \/ upc[u] = "export:used" /\ used[loc[u].tgt] \in 1..MaxData
           /\ loc'[u] = SizedAt(loc[u], used[loc[u].tgt])
        \/ upc[u] = "export:open" /\ upc'[u] = "export:copy" /\ loc'[u] = OpenedAt(loc[u], xname')
        \/ \E n \in 1..(loc[u].size - loc[u].sent) : loc'[u] = SentAt(loc[u], n)
        \/ loc'[u] = NoLocals
        \/ old # NoAddr /\ loc'[u] = OldAt(loc[u], old, map[old])
    BY UserMoves DEF UserMove, Goes
  <1>3. upc'[u] \in UserLabels
    BY <1>1, UserMoves, Labels2 DEF UserMove, Goes
  <1>4. CASE loc'[u] = LoadedAt(loc[u], cur, gen, acked)
    <2>1. gen \in 0..MaxFiles /\ cur \in Addrs \cup {NoAddr} /\ acked \in SUBSET Msgs
      BY HandleFacts
    <2> QED
      BY <1>1, <1>3, <1>4, <2>1, LoadedHolds
  <1>5. CASE used[loc[u].tgt] \in 1..MaxData /\ loc'[u] = SizedAt(loc[u], used[loc[u].tgt])
    <2>1. used[loc[u].tgt] \in 0..MaxData
      BY <1>5, HandleFacts
    <2> DEFINE n == used[loc[u].tgt]
    <2> HIDE DEF n
    <2>2. n \in 0..MaxData /\ loc'[u] = SizedAt(loc[u], n) /\ loc[u] \in Locals
      BY <1>1, <1>5, <2>1 DEF n
    <2>3. SizedAt(loc[u], n) \in Locals /\ SizedAt(loc[u], n).seen = loc[u].seen
      BY <2>2, SizedHolds
    <2> QED
      BY <1>1, <1>3, <2>2, <2>3
  <1>6. CASE /\ upc[u] = "export:open" /\ upc'[u] = "export:copy"
             /\ loc'[u] = OpenedAt(loc[u], xname')
    <2>1. xname' \in Nat
      <3>1. xmade \in Nat /\ xname \in 0..xmade
        BY HandleFacts
      <3>2. xname' = xname \/ xname' = xmade + 1
        BY <1>6 DEF OutputMove
      <3> QED
        BY <3>1, <3>2
    <2> DEFINE f == xname'
    <2>2. f \in Nat /\ loc'[u] = OpenedAt(loc[u], f) /\ loc[u] \in Locals
      BY <1>1, <1>6, <2>1
    <2> HIDE DEF f
    <2>3. OpenedAt(loc[u], f) \in Locals /\ OpenedAt(loc[u], f).seen = loc[u].seen
      BY <2>2, OpenedHolds
    <2> QED
      BY <1>1, <1>3, <2>2, <2>3
  <1>7. ASSUME NEW n \in 1..(loc[u].size - loc[u].sent), loc'[u] = SentAt(loc[u], n)
        PROVE  loc'[u] \in Locals /\ loc'[u].seen \subseteq acked
    <2>1. loc[u].sent + n \in 0..MaxData
      BY <1>1, <1>7, SentFits
    <2> QED
      BY <1>1, <1>7, <2>1, SentHolds
  <1>8. CASE loc'[u] = NoLocals
    BY <1>3, <1>8, NoLocalsHolds
  <1>9. CASE old # NoAddr /\ loc'[u] = OldAt(loc[u], old, map[old])
    <2>1. old \in Addrs \cup {NoAddr} /\ map[old] \in 0..MaxFiles
      BY <1>9, HandleFacts
    <2> QED
      BY <1>1, <1>3, <1>9, <2>1, OldHolds
  <1> QED
    BY <1>1, <1>2, <1>3, <1>4, <1>5, <1>6, <1>7, <1>8, <1>9

\* write(2) at the end of a file appends.
LEMMA WriteAtEnd ==
    ASSUME NEW s \in Seq(Byte), NEW b \in Seq(Byte)
    PROVE  /\ WriteAt(s, Len(s), b) \in Seq(Byte)
           /\ Len(WriteAt(s, Len(s), b)) = Len(s) + Len(b)
           /\ \A k \in 1..Len(s) : WriteAt(s, Len(s), b)[k] = s[k]
           /\ \A k \in 1..Len(b) : WriteAt(s, Len(s), b)[Len(s) + k] = b[k]
  <1> DEFINE n == Len(s) + Len(b)
             byte(k) == IF k > Len(s) /\ k <= Len(s) + Len(b) THEN b[k - Len(s)]
                        ELSE IF k <= Len(s) THEN s[k] ELSE Hole
  <1>1. /\ Len(s) \in Nat /\ Len(b) \in Nat /\ n \in Nat
        /\ \A k \in 1..Len(s) : s[k] \in Byte
        /\ \A k \in 1..Len(b) : b[k] \in Byte
    BY LenProperties, ElementOfSeq
  <1>2. (IF Len(s) > Len(s) + Len(b) THEN Len(s) ELSE Len(s) + Len(b)) = n
    BY <1>1
  <1>3. WriteAt(s, Len(s), b) = [k \in 1..n |-> byte(k)]
    BY <1>2 DEF WriteAt
  <1>4. /\ \A k \in 1..Len(s) : byte(k) = s[k] /\ k \in 1..n
        /\ \A k \in 1..Len(b) : byte(Len(s) + k) = b[k] /\ Len(s) + k \in 1..n
    BY <1>1
  <1>5. \A k \in 1..n : byte(k) \in Byte
    BY <1>1
  <1> HIDE DEF byte
  <1>6. [k \in 1..n |-> byte(k)] \in Seq(Byte) /\ Len([k \in 1..n |-> byte(k)]) = n
    BY <1>1, <1>5
  <1> QED
    BY <1>3, <1>4, <1>6

\* What export writes are bytes.
LEMMA SpanType ==
    ASSUME CarefulInv, NEW f \in Files, NEW lo \in Nat, NEW n \in Nat, lo + n <= MaxData
    PROVE  Span(f, lo, n) \in Seq(Byte) /\ Len(Span(f, lo, n)) = n
  <1>1. data \in [Files -> [Pos -> Msgs \cup {Zero}]] /\ mask \in [Files -> [Pos -> {0, 1}]]
    BY DEF CarefulInv, ContentInv, CalmInv, HandleInv, TypeOK, FileTypes
  <1>2. \A k \in 1..n : ByteOf(f, lo + k - 1) \in Byte
    <2> SUFFICES ASSUME NEW k \in 1..n PROVE ByteOf(f, lo + k - 1) \in Byte
      OBVIOUS
    <2>1. lo + k - 1 \in Pos /\ 0 \in 0..MaxData
      BY SizesAssumption DEF Pos
    <2>2. data[f][lo + k - 1] \in Msgs \cup {Zero} /\ mask[f][lo + k - 1] \in {0, 1}
      BY <1>1, <2>1
    <2> QED
      BY <2>1, <2>2 DEF ByteOf, Byte
  <1> QED
    BY <1>2 DEF Span

\* The footer is one byte of the export.
LEMMA FooterType ==
    ASSUME NEW n \in 0..MaxData
    PROVE  <<FooterFor(n)>> \in Seq(Byte) /\ Len(<<FooterFor(n)>>) = 1
  <1>1. FooterFor(n) \in Byte
    BY DEF FooterFor, Byte
  <1> QED
    BY <1>1

\* export.log keeps its type.
LEMMA OutputTypeStep ==
    ASSUME CarefulInv, NEW u \in Users, UserStep(u)
    PROVE  /\ xmade' \in Nat /\ xname' \in 0..xmade'
           /\ xfile' \in Seq(Seq(Byte)) /\ Len(xfile') = xmade'
  <1>1. /\ xmade \in Nat /\ xname \in 0..xmade /\ xfile \in Seq(Seq(Byte)) /\ Len(xfile) = xmade
        /\ <<>> \in Seq(Byte)
    BY HandleFacts
  <1>2. ASSUME NEW b \in Seq(Byte), upc[u] \in Writing, loc[u].sent = Len(xfile[xname]),
               UNCHANGED <<xmade, xname>>,
               xfile' = [xfile EXCEPT ![loc[u].fd] = WriteAt(xfile[loc[u].fd], loc[u].sent, b)]
        PROVE  xfile' \in Seq(Seq(Byte)) /\ Len(xfile') = xmade
    <2>1. loc[u].fd = xname /\ xname \in 1..Len(xfile)
      BY <1>1, <1>2 DEF CarefulInv, OutputSoFar
    <2>2. xfile[xname] \in Seq(Byte)
      BY <1>1, <2>1, ElementOfSeq
    <2>3. WriteAt(xfile[xname], Len(xfile[xname]), b) \in Seq(Byte)
      BY <2>2, WriteAtEnd
    <2>4. xfile' = [xfile EXCEPT ![xname] = WriteAt(xfile[xname], Len(xfile[xname]), b)]
      BY <1>2, <2>1
    <2> QED
      BY <1>1, <2>1, <2>3, <2>4, ExceptSeq
  <1>3. CASE UNCHANGED output
    BY <1>1, <1>3
  <1>4. CASE xname' = 0 /\ UNCHANGED <<xmade, xfile>>
    BY <1>1, <1>4
  <1>5. CASE xname = 0 /\ xmade' = xmade + 1 /\ xname' = xmade + 1 /\ xfile' = Append(xfile, <<>>)
    BY <1>1, <1>5
  <1>6. CASE xname # 0 /\ UNCHANGED <<xmade, xname>> /\ xfile' = [xfile EXCEPT ![xname] = <<>>]
    <2>1. xname \in 1..Len(xfile)
      BY <1>1, <1>6
    <2> QED
      BY <1>1, <1>6, <2>1, ExceptSeq
  <1>7. CASE /\ upc[u] = "export:copy" /\ UNCHANGED <<xmade, xname>>
             /\ \E n \in 1..(loc[u].size - loc[u].sent) :
                   xfile' = [xfile EXCEPT ![loc[u].fd] =
                                WriteAt(xfile[loc[u].fd], loc[u].sent,
                                        Span(loc[u].tgt, loc[u].sent, n))]
    <2>1. PICK n \in 1..(loc[u].size - loc[u].sent) :
             xfile' = [xfile EXCEPT ![loc[u].fd] =
                          WriteAt(xfile[loc[u].fd], loc[u].sent,
                                  Span(loc[u].tgt, loc[u].sent, n))]
      BY <1>7
    <2>2. loc[u].tgt \in Files
      BY <1>7, ThroughItsFile DEF AtMapping
    <2>3. loc[u].size \in 0..MaxData /\ loc[u].sent \in 0..MaxData
      BY HandleFacts, LocalsFields
    <2>4. loc[u].sent \in Nat /\ n \in Nat /\ loc[u].sent + n <= MaxData
      BY <2>3, HandleFacts
    <2>5. Span(loc[u].tgt, loc[u].sent, n) \in Seq(Byte)
      BY <2>2, <2>4, SpanType
    <2>6. loc[u].sent = Len(xfile[xname])
      BY <1>7 DEF CarefulInv, OutputSoFar, Writing
    <2> QED
      BY <1>1, <1>2, <1>7, <2>1, <2>5, <2>6 DEF Writing
  <1>8. CASE /\ upc[u] = "export:footer" /\ UNCHANGED <<xmade, xname>>
             /\ xfile' = [xfile EXCEPT ![loc[u].fd] =
                             WriteAt(xfile[loc[u].fd], loc[u].sent, <<FooterFor(loc[u].size)>>)]
    <2>1. loc[u].size \in 0..MaxData
      BY HandleFacts, LocalsFields
    <2>2. <<FooterFor(loc[u].size)>> \in Seq(Byte)
      BY <2>1, FooterType
    <2>3. loc[u].sent = Len(xfile[xname])
      BY <1>8 DEF CarefulInv, OutputSoFar, Writing
    <2> QED
      BY <1>1, <1>2, <1>8, <2>2, <2>3 DEF Writing
  <1> QED
    BY <1>3, <1>4, <1>5, <1>6, <1>7, <1>8, OutputMoves DEF OutputMove

\* What msync and the writers do to the pages that wait is about pages.
LEMMA ChangedType == Changed \subseteq Files \X Pos
  BY DEF Changed

\* Every step keeps HandleTypeOK.
LEMMA HandleTypeStep ==
    ASSUME CarefulInv, CarefulStep \/ UNCHANGED hvars
    PROVE  HandleTypeOK'
  <1>0. HandleTypeOK
    BY DEF CarefulInv
  <1>1. ASSUME NEW w \in Writers, WriterStep(w)
        PROVE  HandleTypeOK'
    <2>1. dirty' \subseteq Files \X Pos
      BY <1>0, <1>1, WriterLeavesUsers, ChangedType DEF HandleTypeOK
    <2> QED
      BY <1>0, <1>1, <2>1, WriterLeavesUsers DEF HandleTypeOK
  <1>2. CASE UNCHANGED uvars
    BY <1>0, <1>2 DEF HandleTypeOK
  <1>3. ASSUME NEW w \in Writers, WriteClosed(w)
        PROVE  UNCHANGED uvars
    BY <1>3 DEF WriteClosed
  <1>4. ASSUME NEW u \in Users, UserStep(u)
        PROVE  HandleTypeOK'
    <2>1. closed' \in BOOLEAN /\ freed' \in BOOLEAN /\ harmed' \in BOOLEAN
      BY <1>0, <1>4, LifeMoves DEF LifeMove, HandleTypeOK
    <2>2. upc' \in [Users -> UserLabels] /\ loc' \in [Users -> Locals]
      <3>1. loc'[u] \in Locals /\ upc'[u] \in UserLabels
        BY <1>4, UserLocals, OutputMoves
      <3>2. ASSUME NEW l, NEW m, Continue(u, l, m)
            PROVE  upc' \in [Users -> UserLabels] /\ loc' \in [Users -> Locals]
        BY <1>0, <3>1, <3>2, ContinueMoves DEF HandleTypeOK
      <3> QED
        BY <1>0, <1>4, <3>2, UserContinues DEF HandleTypeOK
    <2>3. ops' \in [Users -> 0..MaxOps]
      <3>1. Begin(u) => ops' \in [Users -> 0..MaxOps]
        BY HandleFacts DEF Begin
      <3>2. Begin(u) \/ ops' = ops
        <4>1. CASE ExportCall(u) \/ FlushCall(u) \/ CloseCall(u)
          BY <4>1 DEF ExportCall, FlushCall, CloseCall
        <4>2. CASE ExportLoad(u) \/ FlushLoad(u) \/ CloseLoad(u) \/ ReadUsed(u) \/ Unlink(u)
          BY <4>2 DEF ExportLoad, FlushLoad, CloseLoad, ReadUsed, Unlink, LoadFor
        <4>3. CASE OpenExport(u) \/ CopyOut(u) \/ WriteFooter(u) \/ ExportFails(u) \/ Finish(u)
          BY <4>3 DEF OpenExport, CopyOut, WriteFooter, ExportFails, Finish
        <4>4. CASE FlushSync(u) \/ CloseSync(u) \/ CloseLoadOld(u) \/ CloseSyncOld(u) \/ Free(u)
          BY <4>4 DEF FlushSync, CloseSync, CloseLoadOld, CloseSyncOld, Free
        <4> QED
          BY <1>4, <4>1, <4>2, <4>3, <4>4 DEF UserStep
      <3> QED
        BY <1>0, <3>1, <3>2 DEF HandleTypeOK
    <2>4. dirty' \subseteq Files \X Pos /\ failed' \subseteq Files
      <3>1. upc[u] \in {"flush:sync", "close:sync", "close:syncold"} => loc[u].tgt \in Files
        BY ThroughItsFile DEF AtMapping
      <3> QED
        BY <1>0, <1>4, <3>1, DiskMoves DEF DiskMove, HandleTypeOK
    <2>5. /\ xmade' \in Nat /\ xname' \in 0..xmade'
          /\ xfile' \in Seq(Seq(Byte)) /\ Len(xfile') = xmade'
      BY <1>4, OutputTypeStep
    <2> QED
      BY <2>1, <2>2, <2>3, <2>4, <2>5 DEF HandleTypeOK
  <1> QED
    BY <1>1, <1>2, <1>3, <1>4 DEF CarefulStep, Calls, hvars

-----------------------------------------------------------------------------
(***************************************************************************)
(* The pointers of the users.                                              *)
(***************************************************************************)
LEMMA UsersRecentStep ==
    ASSUME CarefulInv, CarefulStep \/ UNCHANGED hvars
    PROVE  UsersRecent'
  <1>1. ASSUME NEW w \in Writers, WriterStep(w), CarefulStep
        PROVE  UsersRecent'
    <2>1. HandleInv /\ CalmStep(w) /\ Step(w)
      BY <1>1, WriterIsCalm DEF CarefulInv, ContentInv, CalmInv, CarefulStep, CalmStep
    <2> SUFFICES ASSUME NEW u \in Users, upc[u] \in InUse
                 PROVE  /\ loc[u].ptr \in Addrs /\ loc[u].tgt \in 1..gen'
                        /\ gen' - loc[u].tgt <= 1 => map'[loc[u].ptr] = loc[u].tgt
      BY <1>1, WriterLeavesUsers DEF UsersRecent
    <2>2. /\ loc[u].ptr \in Addrs /\ loc[u].tgt \in 1..gen
          /\ gen - loc[u].tgt <= 1 => map[loc[u].ptr] = loc[u].tgt
      BY DEF CarefulInv, UsersRecent
    <2>3. gen' - loc[u].tgt <= 1 => map'[loc[u].ptr] = loc[u].tgt
      BY <2>1, <2>2, WriterKeepsMapping
    <2>4. loc[u].tgt \in 1..gen'
      BY <1>1, <2>2, StepGrows, HandleFacts
    <2> QED
      BY <2>2, <2>3, <2>4
  <1>2. CASE UNCHANGED <<upc, loc, gen, map>>
    BY <1>2 DEF CarefulInv, UsersRecent
  <1>3. ASSUME NEW w \in Writers, WriteClosed(w)
        PROVE  UNCHANGED <<upc, loc, gen, map>>
    BY <1>3, RefusedMoves, ContentHandled DEF CarefulInv, WriteClosed
  <1>4. ASSUME NEW u \in Users, UserStep(u)
        PROVE  UsersRecent'
    <2>1. gen' = gen /\ map' = map
      BY <1>4, UsersLeaveFiles DEF vars
    <2>2. loc[u] \in Locals /\ gen \in 1..gen /\ gen \in 0..MaxFiles /\ gen \in Int
      BY HandleFacts
    <2>3. ASSUME upc'[u] \in InUse
          PROVE  /\ loc'[u].ptr \in Addrs /\ loc'[u].tgt \in 1..gen
                 /\ gen - loc'[u].tgt <= 1 => map[loc'[u].ptr] = loc'[u].tgt
      <3>1. \/ upc[u] \in InUse /\ loc'[u].ptr = loc[u].ptr /\ loc'[u].tgt = loc[u].tgt
            \/ loc'[u].ptr = cur /\ loc'[u].tgt = gen
            \/ upc[u] = "close:old" /\ old # NoAddr
               /\ loc'[u].ptr = old /\ loc'[u].tgt = map[old]
        <4>1. \/ upc[u] \in InUse /\ loc'[u] = loc[u]
              \/ loc'[u] = LoadedAt(loc[u], cur, gen, acked)
              \/ upc[u] \in InUse /\ used[loc[u].tgt] \in 1..MaxData
                 /\ loc'[u] = SizedAt(loc[u], used[loc[u].tgt])
              \/ upc[u] \in InUse /\ upc'[u] = "export:copy"
                 /\ loc'[u] = OpenedAt(loc[u], xname')
              \/ upc[u] = "export:copy"
                 /\ \E n \in 1..(loc[u].size - loc[u].sent) : loc'[u] = SentAt(loc[u], n)
              \/ upc[u] = "close:old" /\ old # NoAddr /\ loc'[u] = OldAt(loc[u], old, map[old])
          BY <1>4, <2>3, UserMoves DEF UserMove, Goes, InUse, AtMapping
        <4>2. CASE loc'[u] = LoadedAt(loc[u], cur, gen, acked)
          <5>1. cur \in Addrs \cup {NoAddr} /\ acked \in SUBSET Msgs
            BY HandleFacts
          <5> QED
            BY <2>2, <4>2, <5>1, LoadedHolds
        <4>3. CASE upc[u] \in InUse /\ used[loc[u].tgt] \in 1..MaxData
                   /\ loc'[u] = SizedAt(loc[u], used[loc[u].tgt])
          <5>1. used[loc[u].tgt] \in 0..MaxData
            BY <4>3, HandleFacts
          <5> QED
            BY <2>2, <4>3, <5>1, SizedHolds
        <4>4. CASE upc[u] \in InUse /\ loc'[u] = OpenedAt(loc[u], xname')
          <5> DEFINE f == xname'
          <5>1. f \in Nat /\ loc'[u] = OpenedAt(loc[u], f)
            BY <1>4, <4>4, OutputTypeStep
          <5> HIDE DEF f
          <5> QED
            BY <2>2, <4>4, <5>1, OpenedHolds
        <4>5. ASSUME upc[u] = "export:copy", NEW n \in 1..(loc[u].size - loc[u].sent),
                     loc'[u] = SentAt(loc[u], n)
              PROVE  upc[u] \in InUse /\ loc'[u].ptr = loc[u].ptr /\ loc'[u].tgt = loc[u].tgt
          <5>1. loc[u].sent + n \in 0..MaxData
            BY <2>2, SentFits
          <5> QED
            BY <2>2, <4>5, <5>1, SentHolds DEF InUse, AtMapping
        <4>6. CASE upc[u] = "close:old" /\ old # NoAddr /\ loc'[u] = OldAt(loc[u], old, map[old])
          <5>1. old \in Addrs \cup {NoAddr} /\ map[old] \in 0..MaxFiles
            BY <4>6, HandleFacts
          <5> QED
            BY <2>2, <4>6, <5>1, OldHolds
        <4> QED
          BY <4>1, <4>2, <4>3, <4>4, <4>5, <4>6
      <3>2. CASE upc[u] \in InUse /\ loc'[u].ptr = loc[u].ptr /\ loc'[u].tgt = loc[u].tgt
        BY <3>2 DEF CarefulInv, UsersRecent
      <3>3. CASE loc'[u].ptr = cur /\ loc'[u].tgt = gen
        BY <2>2, <3>3, HandleFacts
      <3>4. CASE upc[u] = "close:old" /\ old # NoAddr
                 /\ loc'[u].ptr = old /\ loc'[u].tgt = map[old]
        <4>1. \A w \in Writers : pc[w] = "idle"
          BY <3>4 DEF CarefulInv, LifeCycle, Closing, Careful, ClosesAlone
        <4>2. gen > 1 /\ map[old] = gen - 1
          BY <3>4, <4>1 DEF CarefulInv, ContentInv, CalmInv, HandleInv, Mappings
        <4>3. old \in Addrs
          BY <3>4, HandleFacts
        <4> QED
          BY <2>2, <3>4, <4>2, <4>3
      <3> QED
        BY <3>1, <3>2, <3>3, <3>4
    <2>4. \A v \in Users : v # u => upc'[v] = upc[v] /\ loc'[v] = loc[v]
      BY <1>4, UserMoves DEF OthersStay
    <2> QED
      BY <2>1, <2>3, <2>4 DEF CarefulInv, UsersRecent
  <1>5. CASE UNCHANGED hvars
    BY <1>2, <1>5 DEF hvars, vars
  <1> QED
    BY <1>1, <1>2, <1>3, <1>4, <1>5 DEF CarefulStep, Calls

\* The pointer that a switch replaced is kept for the next switch, and for close.
LEMMA OldKeptStep ==
    ASSUME CarefulInv, CarefulStep \/ UNCHANGED hvars
    PROVE  OldKept'
  <1>0. OldKept
    BY DEF CarefulInv
  <1>1. ASSUME NEW w \in Writers, WriterStep(w)
        PROVE  OldKept'
    <2>1. /\ Step(w) /\ pc \in [Writers -> Labels] /\ gen \in Int
          /\ pc[w] # "idle" => ptr[w] \in Addrs
      BY <1>1, CallFacts, HandleFacts
         DEF WriterStep, CarefulInv, ContentInv, CalmInv, HandleInv, InCall
    <2>2. CASE Retire(w)
      BY <2>1, <2>2 DEF Retire, OldKept
    <2>3. CASE Publish(w)
      BY <2>1, <2>3 DEF Publish, Goto, OldKept
    <2>4. CASE ~Retire(w) /\ ~Publish(w)
      <3>1. gen' = gen /\ old' = old /\ \A v \in Writers : pc[v] = "retire" => pc'[v] = "retire"
        <4> USE DEF Goto, Return
        <4>1. CASE Refuse(w) \/ Call(w) \/ CheckSize(w) \/ Load(w) \/ Reserve(w) \/ Overflow(w)
          BY <2>1, <4>1 DEF Refuse, Call, BeginCall, CheckSize, Load, Reserve, Overflow, FetchAdd
        <4>2. CASE Copy(w) \/ Encrypt(w) \/ Pad(w) \/ PadEncrypt(w) \/ Lock(w) \/ Retry(w)
          BY <2>1, <4>2 DEF Copy, Encrypt, Pad, PadEncrypt, Lock, Retry
        <4>3. CASE StartSwitch(w) \/ MapNewFile(w) \/ SwitchFails(w) \/ ZeroOffset(w) \/ Segv(w)
          BY <2>1, <4>3 DEF StartSwitch, MapNewFile, SwitchFails, ZeroOffset, Segv
        <4> QED
          BY <2>1, <2>4, <4>1, <4>2, <4>3 DEF Step, Proceed
      <3> QED
        BY <1>0, <3>1 DEF OldKept
    <2> QED
      BY <2>2, <2>3, <2>4
  <1>2. CASE UNCHANGED <<pc, gen, old>>
    BY <1>0, <1>2 DEF OldKept
  <1>3. ASSUME NEW w \in Writers, WriteClosed(w)
        PROVE  UNCHANGED <<pc, gen, old>>
    BY <1>3, RefusedMoves, ContentHandled DEF CarefulInv
  <1>4. ASSUME NEW u \in Users, UserStep(u)
        PROVE  UNCHANGED <<pc, gen, old>>
    BY <1>4, UsersLeaveFiles DEF vars
  <1> QED
    BY <1>1, <1>2, <1>3, <1>4 DEF CarefulStep, Calls, hvars, vars

\* Answers are not taken back.
LEMMA SeenAnsweredStep ==
    ASSUME CarefulInv, CarefulStep \/ UNCHANGED hvars
    PROVE  SeenAnswered'
  <1>0. SeenAnswered /\ acked \subseteq acked'
    BY StepGrows DEF CarefulInv
  <1>1. CASE UNCHANGED loc
    BY <1>0, <1>1 DEF SeenAnswered
  <1>2. ASSUME NEW u \in Users, UserStep(u)
        PROVE  SeenAnswered'
    <2>1. loc'[u].seen \subseteq acked
      BY <1>2, UserLocals, OutputMoves
    <2>2. \A v \in Users : v # u => loc'[v] = loc[v]
      BY <1>2, UserMoves DEF OthersStay
    <2> QED
      BY <1>0, <2>1, <2>2 DEF SeenAnswered
  <1> QED
    BY <1>1, <1>2, WriterLeavesUsers DEF CarefulStep, Calls, hvars, WriteClosed

\* Whoever frees the context is the last one in it.
LEMMA LifeCycleStep ==
    ASSUME CarefulInv, CarefulStep \/ UNCHANGED hvars
    PROVE  LifeCycle'
  <1>0. LifeCycle /\ ClosesAlone
    BY DEF CarefulInv, Careful
  <1>1. CASE UNCHANGED <<closed, freed, harmed, upc>>
    BY <1>0, <1>1 DEF LifeCycle
  <1>2. ASSUME NEW u \in Users, UserStep(u)
        PROVE  LifeCycle'
    <2>1. ~freed
      <3>1. freed => upc[u] = "idle"
        BY <1>0 DEF LifeCycle
      <3> QED
        BY <1>2, <3>1, UserMoves DEF UserMove, Goes
    <2>2. \A v \in Users : v # u => upc'[v] = upc[v]
      BY <1>2, UserMoves DEF OthersStay
    <2>3. CASE upc[u] = "idle" /\ upc'[u] = "close:load" /\ closed' /\ ~freed' /\ ~harmed'
      BY <1>0, <2>2, <2>3 DEF LifeCycle, Closing
    <2>4. CASE upc[u] = "close:free" /\ upc'[u] = "idle" /\ freed' /\ UNCHANGED <<closed, harmed>>
      <3>1. closed
        BY <1>0, <2>4 DEF LifeCycle, Closing
      <3>2. \A v \in Users : v # u => upc[v] = "idle"
        BY <1>0, <2>4, <3>1 DEF ClosesAlone
      <3> QED
        BY <1>0, <2>2, <2>4, <3>1, <3>2 DEF LifeCycle, Closing
    <2>5. CASE UNCHANGED handle /\ (upc[u] = "idle" => upc'[u] # "close:load")
      <3>1. upc'[u] \in Closing => upc[u] \in Closing
        BY <1>2, <2>5, UserMoves DEF UserMove, Goes, Closing
      <3> QED
        BY <1>0, <2>1, <2>2, <2>5, <3>1 DEF LifeCycle
    <2> QED
      BY <1>0, <1>2, <2>3, <2>4, <2>5, LifeMoves DEF LifeMove, LifeCycle
  <1> QED
    BY <1>1, <1>2, WriterLeavesUsers DEF CarefulStep, Calls, hvars, WriteClosed

-----------------------------------------------------------------------------
(***************************************************************************)
(* What an export has read.                                                *)
(***************************************************************************)
\* The locals of an export under way change in four places.
LEMMA ExportMoves ==
    ASSUME CarefulInv, NEW u \in Users, UserStep(u), Exporting(u)'
    PROVE  /\ loc'[u].ptr = loc[u].ptr /\ loc'[u].tgt = loc[u].tgt /\ loc'[u].seen = loc[u].seen
           /\ \/ /\ upc[u] = "export:used" /\ upc'[u] = "export:unlink"
                 /\ used[loc[u].tgt] \in 1..MaxData
                 /\ loc'[u].size = used[loc[u].tgt] /\ loc'[u].sent = loc[u].sent
              \/ /\ upc[u] = "export:unlink" /\ upc'[u] = "export:open"
                 /\ loc'[u].size = loc[u].size /\ loc'[u].sent = loc[u].sent
              \/ /\ upc[u] = "export:open" /\ upc'[u] = "export:copy"
                 /\ loc'[u].size = loc[u].size /\ loc'[u].sent = loc[u].sent
                 /\ loc'[u].fd = xname'
              \/ /\ upc[u] = "export:copy"
                 /\ loc'[u].size = loc[u].size /\ loc'[u].fd = loc[u].fd
                 /\ \E n \in 1..(loc[u].size - loc[u].sent) :
                       /\ loc'[u].sent = loc[u].sent + n
                       /\ upc'[u] = IF loc[u].sent + n = loc[u].size THEN "export:footer"
                                                                     ELSE "export:copy"
              \/ /\ upc[u] = "export:footer" /\ upc'[u] = "export:done"
                 /\ loc'[u] = loc[u]
  <1>0. loc[u] \in Locals
    BY HandleFacts
  <1>1. \/ /\ upc[u] = "export:used" /\ upc'[u] = "export:unlink"
           /\ loc'[u] = SizedAt(loc[u], used[loc[u].tgt]) /\ used[loc[u].tgt] \in 1..MaxData
        \/ upc[u] = "export:unlink" /\ upc'[u] = "export:open" /\ loc'[u] = loc[u]
        \/ upc[u] = "export:open" /\ upc'[u] = "export:copy" /\ loc'[u] = OpenedAt(loc[u], xname')
        \/ /\ upc[u] = "export:copy"
           /\ \E n \in 1..(loc[u].size - loc[u].sent) :
                 /\ loc'[u] = SentAt(loc[u], n)
                 /\ upc'[u] = IF loc[u].sent + n = loc[u].size THEN "export:footer"
                                                               ELSE "export:copy"
        \/ upc[u] = "export:footer" /\ upc'[u] = "export:done" /\ loc'[u] = loc[u]
    BY UserMoves DEF UserMove, Goes, Exporting
  <1>2. CASE /\ upc[u] = "export:used" /\ upc'[u] = "export:unlink"
             /\ loc'[u] = SizedAt(loc[u], used[loc[u].tgt]) /\ used[loc[u].tgt] \in 1..MaxData
    <2>1. used[loc[u].tgt] \in 0..MaxData
      BY <1>2, HandleFacts
    <2> QED
      BY <1>0, <1>2, <2>1, SizedHolds
  <1>3. CASE /\ upc[u] = "export:open" /\ upc'[u] = "export:copy"
             /\ loc'[u] = OpenedAt(loc[u], xname')
    <2> DEFINE f == xname'
    <2>1. f \in Nat /\ loc'[u] = OpenedAt(loc[u], f)
      BY <1>3, OutputTypeStep
    <2>2. f = xname'
      OBVIOUS
    <2> HIDE DEF f
    <2> QED
      BY <1>0, <1>3, <2>1, <2>2, OpenedHolds
  <1>4. CASE /\ upc[u] = "export:copy"
             /\ \E n \in 1..(loc[u].size - loc[u].sent) :
                   /\ loc'[u] = SentAt(loc[u], n)
                   /\ upc'[u] = IF loc[u].sent + n = loc[u].size THEN "export:footer"
                                                                 ELSE "export:copy"
    <2>1. PICK n \in 1..(loc[u].size - loc[u].sent) :
                   /\ loc'[u] = SentAt(loc[u], n)
                   /\ upc'[u] = IF loc[u].sent + n = loc[u].size THEN "export:footer"
                                                                 ELSE "export:copy"
      BY <1>4
    <2>2. loc[u].sent + n \in 0..MaxData
      BY <1>0, SentFits
    <2> QED
      BY <1>0, <1>4, <2>1, <2>2, SentHolds
  <1> QED
    BY <1>1, <1>2, <1>3, <1>4

\* The size an export goes by, and what is reserved of its file, in types.
LEMMA SizedFacts ==
    ASSUME CarefulInv, NEW u \in Users
    PROVE  /\ loc[u].tgt \in Int /\ loc[u].size \in 0..MaxData /\ loc[u].sent \in 0..MaxData
           /\ loc[u].size \in Nat /\ loc[u].sent \in Nat /\ loc[u].seen \subseteq acked
           /\ \A f \in 1..gen : used[f] \in Int /\ f \in Files
           /\ \A i \in DOMAIN log : /\ log[i].off \in Nat /\ Ends(log[i]) \in Nat
                                    /\ log[i].file \in 1..gen
  <1>1. loc[u].tgt \in 0..MaxFiles /\ loc[u].size \in 0..MaxData /\ loc[u].sent \in 0..MaxData
    BY HandleFacts, LocalsFields
  <1>2. \A f \in 1..gen : f \in Files
    BY HandleFacts DEF Files
  <1>3. \A n \in Word : n \in Int
    BY SizesAssumption DEF Word
  <1>4. \A f \in 1..gen : used[f] \in Word
    BY <1>2, HandleFacts
  <1>5. \A i \in DOMAIN log : /\ log[i].off \in Nat /\ Ends(log[i]) \in Nat
                              /\ log[i].file \in 1..gen
    BY LogFacts DEF CarefulInv, ContentInv, Ends
  <1>6. loc[u].seen \subseteq acked /\ MaxFiles \in Nat /\ MaxData \in Nat
    BY HandleFacts DEF CarefulInv, SeenAnswered
  <1> QED
    BY <1>1, <1>2, <1>3, <1>4, <1>5, <1>6

\* Whatever is reserved later starts behind the size an export read.
LEMMA SizedBetweenStep ==
    ASSUME CarefulInv, CarefulStep \/ UNCHANGED hvars
    PROVE  SizedBetween'
  <1> DEFINE Sized(u) ==
        /\ loc[u].tgt \in 1..gen
        /\ loc[u].size \in 1..MaxData /\ loc[u].size <= used[loc[u].tgt]
        /\ \A i \in DOMAIN log : log[i].file = loc[u].tgt =>
              /\ Ends(log[i]) <= loc[u].size \/ log[i].off >= loc[u].size
              /\ log[i].msg \in loc[u].seen => Ends(log[i]) <= loc[u].size
  <1>0. \A u \in Users : Exporting(u) => Sized(u)
    BY DEF CarefulInv, SizedBetween
  <1>1. ASSUME NEW u \in Users, loc'[u] = loc[u], Sized(u)
        PROVE  Sized(u)'
    <2>1. loc[u].tgt \in 1..gen'
      BY <1>1, StepGrows, HandleFacts
    <2>2. loc[u].size <= used'[loc[u].tgt]
      <3>1. used[loc[u].tgt] <= used'[loc[u].tgt] /\ used[loc[u].tgt] \in Int
        BY <1>1, StepGrows, SizedFacts
      <3>2. used'[loc[u].tgt] \in Int
        <4>1. loc[u].tgt \in Files /\ used' \in [Files -> Word]
          BY <1>1, StepGrows, SizedFacts
        <4>2. used'[loc[u].tgt] \in Word
          BY <4>1
        <4> QED
          BY <4>2, SizesAssumption DEF Word
      <3> QED
        BY <1>1, <3>1, <3>2, SizedFacts
    <2>3. ASSUME NEW i \in DOMAIN log', log'[i].file = loc[u].tgt
          PROVE  /\ Ends(log'[i]) <= loc[u].size \/ log'[i].off >= loc[u].size
                 /\ log'[i].msg \in loc[u].seen => Ends(log'[i]) <= loc[u].size
      <3>1. CASE i \in DOMAIN log
        BY <1>1, <2>3, <3>1, StepGrows
      <3>2. CASE i \notin DOMAIN log
        <4>1. log'[i].off = used[loc[u].tgt] /\ log'[i].msg \notin acked
          BY <2>3, <3>2, StepGrows
        <4> QED
          BY <1>1, <4>1, SizedFacts
      <3> QED
        BY <3>1, <3>2
    <2> QED
      BY <1>1, <2>1, <2>2, <2>3
  <1>2. CASE UNCHANGED <<upc, loc>>
    <2> SUFFICES ASSUME NEW u \in Users, Exporting(u)' PROVE Sized(u)'
      BY DEF SizedBetween
    <2>1. Exporting(u)
      BY <1>2 DEF Exporting
    <2> HIDE DEF Sized
    <2> QED
      BY <1>0, <1>1, <1>2, <2>1
  <1>3. ASSUME NEW u \in Users, UserStep(u)
        PROVE  SizedBetween'
    <2> SUFFICES ASSUME NEW v \in Users, Exporting(v)' PROVE Sized(v)'
      BY DEF SizedBetween
    <2>1. CASE v # u
      <3>1. loc'[v] = loc[v] /\ upc'[v] = upc[v]
        BY <1>3, <2>1, UserMoves DEF OthersStay
      <3>2. Exporting(v)
        BY <3>1 DEF Exporting
      <3> HIDE DEF Sized
      <3> QED
        BY <1>0, <1>1, <3>1, <3>2
    <2>2. CASE v = u
      <3>1. log' = log /\ used' = used /\ gen' = gen
        BY <1>3, UsersLeaveFiles DEF vars
      <3>2. loc'[u].tgt = loc[u].tgt /\ loc'[u].seen = loc[u].seen
        BY <1>3, <2>2, ExportMoves
      <3>3. CASE Exporting(u) /\ loc'[u].size = loc[u].size
        BY <1>0, <2>2, <3>1, <3>2, <3>3
      <3>4. CASE /\ upc[u] = "export:used" /\ used[loc[u].tgt] \in 1..MaxData
                 /\ loc'[u].size = used[loc[u].tgt]
        <4>1. loc[u].tgt \in 1..gen
          BY <3>4, ThroughItsFile DEF AtMapping
        <4>2. \A i \in DOMAIN log : Ends(log[i]) <= used[log[i].file]
          BY DEF CarefulInv, ContentInv, CalmInv, Accounted
        <4> QED
          BY <2>2, <3>1, <3>2, <3>4, <4>1, <4>2, SizedFacts
      <3>5. \/ Exporting(u) /\ loc'[u].size = loc[u].size
            \/ /\ upc[u] = "export:used" /\ used[loc[u].tgt] \in 1..MaxData
               /\ loc'[u].size = used[loc[u].tgt]
        BY <1>3, <2>2, ExportMoves DEF Exporting
      <3> QED
        BY <3>3, <3>4, <3>5
    <2> QED
      BY <2>1, <2>2
  <1> QED
    BY <1>2, <1>3, WriterLeavesUsers DEF CarefulStep, Calls, hvars, WriteClosed

-----------------------------------------------------------------------------
(***************************************************************************)
(* export.log.                                                             *)
(***************************************************************************)
\* What OutputSoFar says of the locals and the file of one export.
Copying(label, l, name, made, file, entries) ==
    /\ name \in 1..made /\ l.fd = name
    /\ IF label = "export:copy" THEN l.sent < l.size ELSE l.sent = l.size
    /\ IF label = "export:done"
       THEN /\ Len(file[name]) = l.size + 1
            /\ file[name][l.size + 1] = FooterFor(l.size)
       ELSE Len(file[name]) = l.sent
    /\ \A i \in DOMAIN entries : entries[i].file = l.tgt /\ entries[i].msg \in l.seen =>
          \A p \in entries[i].off..(Ends(entries[i]) - 1) :
              p < l.sent => file[name][p + 1] = CipherOf(entries[i].msg)

\* OutputSoFar, one export at a time.
LEMMA CopyingMeans ==
    OutputSoFar <=> /\ \A u \in Users : upc[u] \notin Writing => loc[u].sent = 0
                    /\ \A u \in Users : upc[u] \in Writing =>
                          Copying(upc[u], loc[u], xname, xmade, xfile, log)
  BY DEF OutputSoFar, Copying

\* The same of the next state.
LEMMA CopyingMeansNext ==
    ASSUME \A u \in Users : upc'[u] \notin Writing => loc'[u].sent = 0,
           \A u \in Users : upc'[u] \in Writing =>
              Copying(upc'[u], loc'[u], xname', xmade', xfile', log')
    PROVE  OutputSoFar'
  BY DEF OutputSoFar, Copying

\* A step of another thread leaves what an export has written as it should be.
LEMMA CopyingStays ==
    ASSUME CarefulInv, CarefulStep \/ UNCHANGED hvars,
           NEW u \in Users, upc[u] \in Writing, UNCHANGED output
    PROVE  Copying(upc[u], loc[u], xname', xmade', xfile', log')
  <1>1. Copying(upc[u], loc[u], xname, xmade, xfile, log)
    BY CopyingMeans DEF CarefulInv
  <1>2. ASSUME NEW i \in DOMAIN log', log'[i].msg \in loc[u].seen
        PROVE  i \in DOMAIN log /\ log'[i] = log[i]
    BY <1>2, StepGrows DEF CarefulInv, SeenAnswered
  <1> QED
    BY <1>1, <1>2 DEF Copying

\* While one export writes, no other call touches export.log.
LEMMA OneWritesOutput ==
    ASSUME CarefulInv, NEW u \in Users, UserStep(u), Careful',
           NEW v \in Users, v # u, Exporting(v)
    PROVE  UNCHANGED output
  <1>1. ~Exporting(u)
    BY DEF CarefulInv, Careful, ExportsAlone
  <1> QED
    BY <1>1, OutputMoves DEF OutputMove, Exporting

\* Nothing has been sent before the copy starts.
LEMMA NothingSentYet ==
    ASSUME CarefulInv, NEW u \in Users, UserStep(u), upc'[u] \notin Writing
    PROVE  loc'[u].sent = 0
  <1>1. loc[u] \in Locals /\ (upc[u] \notin Writing => loc[u].sent = 0)
    BY HandleFacts DEF CarefulInv, OutputSoFar
  <1>2. \/ upc[u] \notin Writing /\ loc'[u] = loc[u]
        \/ upc[u] \notin Writing /\ loc'[u] = LoadedAt(loc[u], cur, gen, acked)
        \/ upc[u] \notin Writing /\ Exporting(u)'
        \/ loc'[u] = NoLocals
        \/ upc[u] \notin Writing /\ old # NoAddr /\ loc'[u] = OldAt(loc[u], old, map[old])
    BY UserMoves DEF UserMove, Goes, Writing, Exporting
  <1>3. CASE upc[u] \notin Writing /\ loc'[u] = LoadedAt(loc[u], cur, gen, acked)
    <2>1. gen \in 0..MaxFiles /\ cur \in Addrs \cup {NoAddr} /\ acked \in SUBSET Msgs
      BY HandleFacts
    <2> QED
      BY <1>1, <1>3, <2>1, LoadedHolds
  <1>4. CASE upc[u] \notin Writing /\ Exporting(u)'
    <2>1. loc'[u].sent = loc[u].sent
      BY <1>4, ExportMoves DEF Writing
    <2> QED
      BY <1>1, <1>4, <2>1
  <1>5. CASE upc[u] \notin Writing /\ old # NoAddr /\ loc'[u] = OldAt(loc[u], old, map[old])
    <2>1. old \in Addrs \cup {NoAddr} /\ map[old] \in 0..MaxFiles
      BY <1>5, HandleFacts
    <2> QED
      BY <1>1, <1>5, <2>1, OldHolds
  <1> QED
    BY <1>1, <1>2, <1>3, <1>4, <1>5, NoLocalsHolds

\* The file that open gives an export is empty.
LEMMA OpenStarts ==
    ASSUME CarefulInv, NEW u \in Users, UserStep(u),
           upc[u] = "export:open", upc'[u] = "export:copy"
    PROVE  Copying(upc'[u], loc'[u], xname', xmade', xfile', log')
  <1>1. /\ xmade \in Nat /\ xname \in 0..xmade
        /\ xfile \in Seq(Seq(Byte)) /\ Len(xfile) = xmade /\ <<>> \in Seq(Byte)
    BY HandleFacts
  <1>2. /\ loc'[u].size = loc[u].size /\ loc'[u].sent = loc[u].sent /\ loc'[u].fd = xname'
        /\ loc'[u].tgt = loc[u].tgt /\ loc'[u].seen = loc[u].seen
    BY ExportMoves DEF Exporting
  <1>3. loc[u].size \in 1..MaxData /\ loc[u].sent = 0
    BY DEF CarefulInv, SizedBetween, Exporting, OutputSoFar, Writing
  <1>4. xname' \in 1..xmade' /\ xfile'[xname'] = <<>>
    <2>1. CASE /\ xname = 0 /\ xmade' = xmade + 1 /\ xname' = xmade + 1
               /\ xfile' = Append(xfile, <<>>)
      <3>1. Append(xfile, <<>>)[Len(xfile) + 1] = <<>>
        BY <1>1
      <3> QED
        BY <1>1, <2>1, <3>1
    <2>2. CASE xname # 0 /\ UNCHANGED <<xmade, xname>> /\ xfile' = [xfile EXCEPT ![xname] = <<>>]
      <3>1. xname \in 1..Len(xfile)
        BY <1>1, <2>2
      <3> QED
        BY <1>1, <2>2, <3>1, ExceptSeq
    <2> QED
      BY <2>1, <2>2, OutputMoves DEF OutputMove
  <1>5. log' = log /\ \A i \in DOMAIN log : log[i].off \in Nat /\ Ends(log[i]) \in Nat
    BY UsersLeaveFiles, SizedFacts DEF vars
  <1>6. \A i \in DOMAIN log' : \A p \in log'[i].off..(Ends(log'[i]) - 1) : ~(p < 0)
    BY <1>5
  <1>7. Len(xfile'[xname']) = loc'[u].sent /\ loc'[u].sent = 0 /\ loc'[u].sent < loc'[u].size
    BY <1>2, <1>3, <1>4
  <1> QED
    BY <1>2, <1>4, <1>6, <1>7 DEF Copying

\* A write appends to what an export wrote before.
LEMMA WriteAppends ==
    ASSUME CarefulInv, NEW u \in Users, upc[u] \in {"export:copy", "export:footer"},
           NEW b \in Seq(Byte), UNCHANGED <<xmade, xname>>,
           xfile' = [xfile EXCEPT ![loc[u].fd] = WriteAt(xfile[loc[u].fd], loc[u].sent, b)]
    PROVE  /\ Len(xfile'[xname]) = loc[u].sent + Len(b)
           /\ \A k \in 1..loc[u].sent : xfile'[xname][k] = xfile[xname][k]
           /\ \A k \in 1..Len(b) : xfile'[xname][loc[u].sent + k] = b[k]
  <1>1. /\ loc[u].fd = xname /\ xname \in 1..Len(xfile) /\ loc[u].sent = Len(xfile[xname])
        /\ xfile \in Seq(Seq(Byte))
    BY HandleFacts DEF CarefulInv, OutputSoFar, Writing
  <1>2. xfile[xname] \in Seq(Byte)
    BY <1>1, ElementOfSeq
  <1> DEFINE t == WriteAt(xfile[xname], Len(xfile[xname]), b)
  <1>3. t \in Seq(Byte) /\ xfile' = [xfile EXCEPT ![xname] = t]
    BY <1>1, <1>2, WriteAtEnd
  <1>4. /\ Len(t) = Len(xfile[xname]) + Len(b)
        /\ \A k \in 1..Len(xfile[xname]) : t[k] = xfile[xname][k]
        /\ \A k \in 1..Len(b) : t[Len(xfile[xname]) + k] = b[k]
    BY <1>2, WriteAtEnd
  <1> HIDE DEF t
  <1>5. xfile'[xname] = t
    BY <1>1, <1>3, ExceptSeq
  <1> QED
    BY <1>1, <1>4, <1>5

\* The bytes it copies of an answered message are those of the message.
LEMMA CopyAdds ==
    ASSUME CarefulInv, NEW u \in Users, UserStep(u), upc[u] = "export:copy", Exporting(u)'
    PROVE  Copying(upc'[u], loc'[u], xname', xmade', xfile', log')
  <1>1. Copying(upc[u], loc[u], xname, xmade, xfile, log)
    BY CopyingMeans DEF CarefulInv, Writing
  <1>2. /\ loc'[u].tgt = loc[u].tgt /\ loc'[u].seen = loc[u].seen
        /\ loc'[u].size = loc[u].size /\ loc'[u].fd = loc[u].fd
    BY ExportMoves
  <1>3. PICK n \in 1..(loc[u].size - loc[u].sent) :
           /\ xfile' = [xfile EXCEPT ![loc[u].fd] =
                           WriteAt(xfile[loc[u].fd], loc[u].sent,
                                   Span(loc[u].tgt, loc[u].sent, n))]
           /\ upc'[u] = IF loc[u].sent + n = loc[u].size THEN "export:footer" ELSE "export:copy"
           /\ loc'[u] = SentAt(loc[u], n)
           /\ UNCHANGED <<xmade, xname>>
    <2>1. upc'[u] \in {"export:copy", "export:footer"}
      BY ExportMoves
    <2> QED
      BY <2>1, OutputMoves DEF OutputMove
  <1>4. /\ loc[u].size \in 0..MaxData /\ loc[u].sent \in 0..MaxData /\ n \in Nat
        /\ loc[u].sent \in Nat /\ loc[u].size \in Nat /\ MaxData \in Nat
        /\ loc[u].sent + n <= loc[u].size /\ loc[u].sent + n <= MaxData
    <2>1. MaxData \in Nat
      BY SizesAssumption
    <2> DEFINE size == loc[u].size
               sent == loc[u].sent
    <2>2. size \in 0..MaxData /\ sent \in 0..MaxData /\ n \in 1..(size - sent)
      BY SizedFacts, <1>3
    <2> HIDE DEF size, sent
    <2>3. /\ size \in Nat /\ sent \in Nat /\ n \in Nat
          /\ sent + n <= size /\ sent + n <= MaxData
      BY <2>1, <2>2
    <2> QED
      BY <2>1, <2>2, <2>3 DEF size, sent
  <1>5. loc'[u].sent = loc[u].sent + n
    <2>1. loc[u] \in Locals
      BY HandleFacts
    <2>2. loc[u].sent + n \in 0..MaxData
      BY <2>1, SentFits
    <2> QED
      BY <1>3, <2>1, <2>2, SentHolds
  <1> DEFINE b == Span(loc[u].tgt, loc[u].sent, n)
  <1>6. loc[u].tgt \in Files
    BY ThroughItsFile DEF AtMapping
  <1>7. b \in Seq(Byte) /\ Len(b) = n
    BY <1>4, <1>6, SpanType
  <1>8. \A k \in 1..n : b[k] = ByteOf(loc[u].tgt, loc[u].sent + k - 1)
    BY <1>4 DEF Span
  <1>9. xfile' = [xfile EXCEPT ![loc[u].fd] = WriteAt(xfile[loc[u].fd], loc[u].sent, b)]
    BY <1>3
  <1> HIDE DEF b
  <1>10. /\ Len(xfile'[xname]) = loc[u].sent + n
         /\ \A k \in 1..loc[u].sent : xfile'[xname][k] = xfile[xname][k]
         /\ \A k \in 1..n : xfile'[xname][loc[u].sent + k] = b[k]
    BY <1>3, <1>7, <1>9, WriteAppends
  <1>11. log' = log
    BY UsersLeaveFiles DEF vars
  <1>12. ASSUME NEW i \in DOMAIN log, log[i].file = loc[u].tgt, log[i].msg \in loc[u].seen,
                NEW p \in log[i].off..(Ends(log[i]) - 1), p < loc[u].sent + n
         PROVE  xfile'[xname][p + 1] = CipherOf(log[i].msg)
    <2>1. p \in Nat
      BY SizedFacts
    <2>2. CASE p < loc[u].sent
      <3>1. xfile[xname][p + 1] = CipherOf(log[i].msg) /\ p + 1 \in 1..loc[u].sent
        BY <1>1, <1>4, <1>12, <2>1, <2>2 DEF Copying
      <3> QED
        BY <1>10, <3>1
    <2>3. CASE ~(p < loc[u].sent)
      <3>1. p + 1 - loc[u].sent \in 1..n
        BY <1>4, <1>12, <2>1, <2>3
      <3> DEFINE k == p + 1 - loc[u].sent
      <3>2. loc[u].sent + k = p + 1 /\ loc[u].sent + k - 1 = p /\ k \in 1..n
        BY <1>4, <2>1, <3>1
      <3> HIDE DEF k
      <3>3. xfile'[xname][p + 1] = ByteOf(loc[u].tgt, p)
        BY <1>8, <1>10, <3>2
      <3>4. log[i].msg \in acked
        BY <1>12, SizedFacts
      <3>5. /\ data[loc[u].tgt][p] = log[i].msg
            /\ mask[loc[u].tgt][p] = IF Encrypted THEN 1 ELSE 0
        BY <1>12, <3>4 DEF CarefulInv, ContentInv, Intact
      <3> QED
        BY <3>3, <3>5 DEF ByteOf, CipherOf
    <2> QED
      BY <2>2, <2>3
  <1>13. xname' = xname /\ xmade' = xmade /\ xname \in 1..xmade /\ loc[u].fd = xname
    BY <1>1, <1>3 DEF Copying
  <1>14. IF upc'[u] = "export:copy" THEN loc'[u].sent < loc'[u].size
                                    ELSE loc'[u].sent = loc'[u].size
    BY <1>2, <1>3, <1>4, <1>5
  <1>15. upc'[u] # "export:done"
    BY <1>3
  <1> QED
    BY <1>2, <1>5, <1>10, <1>11, <1>12, <1>13, <1>14, <1>15 DEF Copying

\* The footer goes behind them.
LEMMA FooterCloses ==
    ASSUME CarefulInv, NEW u \in Users, UserStep(u), upc[u] = "export:footer", Exporting(u)'
    PROVE  Copying(upc'[u], loc'[u], xname', xmade', xfile', log')
  <1>1. Copying(upc[u], loc[u], xname, xmade, xfile, log)
    BY CopyingMeans DEF CarefulInv, Writing
  <1>2. /\ upc'[u] = "export:done" /\ loc'[u] = loc[u] /\ UNCHANGED <<xmade, xname>>
        /\ xfile' = [xfile EXCEPT ![loc[u].fd] =
                        WriteAt(xfile[loc[u].fd], loc[u].sent, <<FooterFor(loc[u].size)>>)]
    BY OutputMoves DEF OutputMove, Exporting
  <1>3. loc[u].size \in 0..MaxData /\ loc[u].sent = loc[u].size /\ loc[u].size \in Nat
    BY <1>1, SizedFacts DEF Copying
  <1> DEFINE b == <<FooterFor(loc[u].size)>>
  <1>4. b \in Seq(Byte) /\ Len(b) = 1 /\ b[1] = FooterFor(loc[u].size)
    BY <1>3, FooterType
  <1>5. xfile' = [xfile EXCEPT ![loc[u].fd] = WriteAt(xfile[loc[u].fd], loc[u].sent, b)]
    BY <1>2
  <1> HIDE DEF b
  <1>6. /\ Len(xfile'[xname]) = loc[u].sent + 1
        /\ \A k \in 1..loc[u].sent : xfile'[xname][k] = xfile[xname][k]
        /\ \A k \in 1..1 : xfile'[xname][loc[u].sent + k] = b[k]
    <2>1. upc[u] \in {"export:copy", "export:footer"}
      OBVIOUS
    <2>2. /\ Len(xfile'[xname]) = loc[u].sent + Len(b)
          /\ \A k \in 1..loc[u].sent : xfile'[xname][k] = xfile[xname][k]
          /\ \A k \in 1..Len(b) : xfile'[xname][loc[u].sent + k] = b[k]
      BY <1>2, <1>4, <1>5, <2>1, WriteAppends
    <2> QED
      BY <1>4, <2>2
  <1>7. xfile'[xname][loc[u].size + 1] = FooterFor(loc[u].size)
    BY <1>3, <1>4, <1>6
  <1>8. log' = log
    BY UsersLeaveFiles DEF vars
  <1>9. ASSUME NEW i \in DOMAIN log, log[i].file = loc[u].tgt, log[i].msg \in loc[u].seen,
               NEW p \in log[i].off..(Ends(log[i]) - 1), p < loc[u].sent
        PROVE  xfile'[xname][p + 1] = CipherOf(log[i].msg)
    <2>1. p \in Nat
      BY SizedFacts
    <2>2. xfile[xname][p + 1] = CipherOf(log[i].msg) /\ p + 1 \in 1..loc[u].sent
      BY <1>1, <1>3, <1>9, <2>1 DEF Copying
    <2> QED
      BY <1>6, <2>2
  <1>10. xname \in 1..xmade /\ loc[u].fd = xname
    BY <1>1 DEF Copying
  <1> QED
    BY <1>2, <1>3, <1>6, <1>7, <1>8, <1>9, <1>10 DEF Copying

\* Every step keeps OutputSoFar.
LEMMA OutputSoFarStep ==
    ASSUME CarefulInv, CarefulStep \/ UNCHANGED hvars
    PROVE  OutputSoFar'
  <1>1. CASE UNCHANGED <<upc, loc, xname, xmade, xfile>>
    <2>1. \A u \in Users : upc[u] \notin Writing => loc[u].sent = 0
      BY DEF CarefulInv, OutputSoFar
    <2>2. \A u \in Users : upc[u] \in Writing =>
             Copying(upc[u], loc[u], xname', xmade', xfile', log')
      BY <1>1, CopyingStays
    <2> QED
      BY <1>1, <2>1, <2>2, CopyingMeansNext
  <1>2. ASSUME NEW u \in Users, UserStep(u), Careful', CarefulStep
        PROVE  OutputSoFar'
    <2>1. \A v \in Users : v # u => upc'[v] = upc[v] /\ loc'[v] = loc[v]
      BY <1>2, UserMoves DEF OthersStay
    <2>2. \A v \in Users : upc'[v] \notin Writing => loc'[v].sent = 0
      BY <1>2, <2>1, NothingSentYet DEF CarefulInv, OutputSoFar
    <2>3. ASSUME NEW v \in Users, upc'[v] \in Writing
          PROVE  Copying(upc'[v], loc'[v], xname', xmade', xfile', log')
      <3>1. CASE v # u
        <4>1. upc'[v] = upc[v] /\ loc'[v] = loc[v]
          BY <2>1, <3>1
        <4>2. UNCHANGED output
          BY <1>2, <2>3, <3>1, <4>1, OneWritesOutput DEF Writing, Exporting
        <4>3. Copying(upc[v], loc[v], xname', xmade', xfile', log')
          BY <1>2, <2>3, <4>1, <4>2, CopyingStays
        <4> QED
          BY <4>1, <4>3
      <3>2. CASE v = u
        <4>1. Exporting(u)'
          BY <2>3, <3>2 DEF Writing, Exporting
        <4>2. \/ upc[u] = "export:open" /\ upc'[u] = "export:copy"
              \/ upc[u] = "export:copy" \/ upc[u] = "export:footer"
          BY <1>2, <2>3, <3>2, <4>1, ExportMoves DEF Writing
        <4> QED
          BY <1>2, <3>2, <4>1, <4>2, OpenStarts, CopyAdds, FooterCloses
      <3> QED
        BY <3>1, <3>2
    <2> QED
      BY <2>2, <2>3, CopyingMeansNext
  <1> QED
    BY <1>1, <1>2, WriterLeavesUsers DEF CarefulStep, Calls, hvars, WriteClosed

-----------------------------------------------------------------------------
(***************************************************************************)
(* What is on disk.                                                        *)
(***************************************************************************)
\* A user's step makes no page wait, and forgets no failure.
LEMMA UsersClean ==
    ASSUME CarefulInv, NEW u \in Users, UserStep(u)
    PROVE  dirty' \subseteq dirty /\ failed \subseteq failed'
  BY DiskMoves DEF DiskMove

\* A writer that changes a file does not undo what flush promised.
LEMMA FlushSyncsStep ==
    ASSUME CarefulInv, CarefulStep \/ UNCHANGED hvars
    PROVE  FlushSyncs'
  <1>0. FlushSyncs
    BY DEF CarefulInv
  <1>1. ASSUME NEW w \in Writers, WriterStep(w), CarefulStep
        PROVE  FlushSyncs'
    <2>1. CalmStep(w) /\ upc' = upc /\ loc' = loc /\ dirty' = dirty \cup Changed
      BY <1>1, WriterIsCalm, WriterLeavesUsers DEF CarefulStep
    <2> SUFFICES ASSUME NEW u \in Users, upc[u] = "flush:done", NEW i \in DOMAIN log',
                        log'[i].file = loc[u].tgt, log'[i].msg \in loc[u].seen,
                        NEW p \in log'[i].off..(Ends(log'[i]) - 1)
                 PROVE  <<log'[i].file, p>> \notin dirty'
      BY <2>1 DEF FlushSyncs, MessageSynced, Ends
    <2>2. log'[i].msg \in acked
      BY DEF CarefulInv, SeenAnswered
    <2>3. i \in DOMAIN log /\ log'[i] = log[i]
      BY <1>1, <2>2, StepGrows
    <2>4. p \in log[i].off..(Ends(log[i]) - 1)
      BY <2>3 DEF Ends
    <2>5. <<log[i].file, p>> \notin dirty
      BY <1>0, <2>3, <2>4 DEF FlushSyncs, MessageSynced
    <2>6. <<log[i].file, p>> \notin Changed
      BY <2>1, <2>2, <2>3, <2>4, AnsweredUnchanged
    <2> QED
      BY <2>1, <2>3, <2>5, <2>6
  <1>2. CASE UNCHANGED <<upc, loc, log, dirty>>
    BY <1>0, <1>2 DEF FlushSyncs, MessageSynced, Ends
  <1>3. ASSUME NEW w \in Writers, WriteClosed(w)
        PROVE  UNCHANGED <<upc, loc, log, dirty>>
    BY <1>3, RefusedMoves, ContentHandled DEF CarefulInv, WriteClosed
  <1>4. ASSUME NEW u \in Users, UserStep(u)
        PROVE  FlushSyncs'
    <2>1. log' = log /\ dirty' \subseteq dirty
      BY <1>4, UsersLeaveFiles, UsersClean DEF vars
    <2> SUFFICES ASSUME NEW v \in Users, upc'[v] = "flush:done", NEW i \in DOMAIN log,
                        log[i].file = loc'[v].tgt, log[i].msg \in loc'[v].seen,
                        NEW p \in log[i].off..(Ends(log[i]) - 1)
                 PROVE  <<log[i].file, p>> \notin dirty'
      BY <2>1 DEF FlushSyncs, MessageSynced, Ends
    <2>2. CASE v # u
      <3>1. upc'[v] = upc[v] /\ loc'[v] = loc[v]
        BY <1>4, <2>2, UserMoves DEF OthersStay
      <3> QED
        BY <1>0, <2>1, <3>1 DEF FlushSyncs, MessageSynced
    <2>3. CASE v = u
      <3>1. upc[u] = "flush:sync" /\ loc'[u] = loc[u]
        BY <1>4, <2>3, UserMoves DEF UserMove, Goes
      <3>2. dirty' = {b \in dirty : b[1] # loc[u].tgt}
        BY <1>4, <2>3, <3>1, DiskMoves DEF DiskMove
      <3> QED
        BY <2>3, <3>1, <3>2
    <2> QED
      BY <2>2, <2>3
  <1> QED
    BY <1>1, <1>2, <1>3, <1>4 DEF CarefulStep, Calls, hvars, vars

\* Once a close is under way no writer changes a file.
LEMMA WritersIdleOnceClosed ==
    ASSUME CarefulInv, NEW w \in Writers, WriterStep(w), closed
    PROVE  UNCHANGED <<gen, dirty>>
  <1>1. pc[w] = "idle" /\ pc'[w] = "idle" /\ Step(w) /\ pc \in [Writers -> Labels]
    BY CallFacts DEF CarefulInv, ContentInv, Careful, ClosesAlone, WriterStep
  <1>2. Refuse(w)
    <2>1. CASE Call(w)
      BY <1>1, <2>1 DEF Call, Goto
    <2>2. CASE CheckSize(w) \/ Load(w) \/ Reserve(w) \/ Overflow(w) \/ Copy(w) \/ Encrypt(w)
      BY <1>1, <2>2 DEF CheckSize, Load, Reserve, Overflow, FetchAdd, Copy, Encrypt
    <2>3. CASE Pad(w) \/ PadEncrypt(w) \/ Lock(w) \/ Retry(w) \/ StartSwitch(w)
      BY <1>1, <2>3 DEF Pad, PadEncrypt, Lock, Retry, StartSwitch
    <2>4. CASE MapNewFile(w) \/ SwitchFails(w) \/ ZeroOffset(w) \/ Publish(w) \/ Retire(w) \/ Segv(w)
      BY <1>1, <2>4 DEF MapNewFile, SwitchFails, ZeroOffset, Publish, Retire, Segv, Holding
    <2> QED
      BY <1>1, <2>1, <2>2, <2>3, <2>4 DEF Step, Proceed
  <1>3. UNCHANGED <<gen, data, mask>>
    BY <1>2 DEF Refuse, BeginCall
  <1>4. Changed = {}
    BY <1>3 DEF Changed
  <1> QED
    BY <1>3, <1>4, WriterLeavesUsers

\* What close has synced stays synced, and it syncs the last two files.
LEMMA SyncedByCloseStep ==
    ASSUME CarefulInv, CarefulStep \/ UNCHANGED hvars
    PROVE  SyncedByClose'
  <1>0. SyncedByClose /\ LifeCycle
    BY DEF CarefulInv
  <1>1. CASE UNCHANGED <<gen, dirty, failed, freed, upc, loc>>
    BY <1>0, <1>1 DEF SyncedByClose, Settled
  <1>2. ASSUME NEW w \in Writers, WriterStep(w)
        PROVE  SyncedByClose'
    <2>1. UNCHANGED <<closed, freed, upc, loc, failed>>
      BY <1>2, WriterLeavesUsers
    <2>2. CASE closed
      BY <1>1, <1>2, <2>1, <2>2, WritersIdleOnceClosed
    <2>3. CASE ~closed
      <3>1. ~freed' /\ \A u \in Users : upc'[u] \notin Closing
        BY <1>0, <2>1, <2>3 DEF LifeCycle
      <3> QED
        BY <3>1 DEF SyncedByClose, Closing
    <2> QED
      BY <2>2, <2>3
  <1>3. ASSUME NEW w \in Writers, WriteClosed(w)
        PROVE  UNCHANGED <<gen, dirty, failed, freed, upc, loc>>
    BY <1>3, RefusedMoves, ContentHandled DEF CarefulInv, WriteClosed
  <1>4. ASSUME NEW u \in Users, UserStep(u)
        PROVE  SyncedByClose'
    <2> DEFINE Kept(f) == f \in failed' \/ \A b \in dirty' : b[1] # f
    <2>1. gen' = gen /\ dirty' \subseteq dirty /\ failed \subseteq failed'
      BY <1>4, UsersLeaveFiles, UsersClean DEF vars
    <2>2. \A f : Settled(f) => Kept(f)
      BY <2>1 DEF Settled
    <2>3. \A v \in Users : v # u => upc'[v] = upc[v] /\ loc'[v] = loc[v]
      BY <1>4, UserMoves DEF OthersStay
    <2>4. upc[u] \in {"close:sync", "close:syncold"} => Kept(loc[u].tgt)
      BY <1>4, DiskMoves DEF DiskMove
    <2> HIDE DEF Kept
    <2>5. upc'[u] = "close:sync" => loc'[u].tgt = gen
      <3> SUFFICES ASSUME upc'[u] = "close:sync" PROVE loc'[u].tgt = gen
        OBVIOUS
      <3>1. loc'[u] = LoadedAt(loc[u], cur, gen, acked)
        BY <1>4, UserMoves DEF UserMove, Goes
      <3>2. /\ loc[u] \in Locals /\ cur \in Addrs \cup {NoAddr} /\ acked \in SUBSET Msgs
            /\ gen \in 0..MaxFiles
        BY HandleFacts
      <3> QED
        BY <3>1, <3>2, LoadedHolds
    <2>6. upc'[u] \in {"close:old", "close:syncold", "close:free"} => Kept(gen)
      <3>1. upc'[u] \in {"close:old", "close:syncold", "close:free"} =>
               upc[u] \in {"close:sync", "close:old", "close:syncold"}
        BY <1>4, UserMoves DEF UserMove, Goes
      <3>2. upc[u] = "close:sync" => Kept(gen)
        BY <1>0, <2>4 DEF SyncedByClose
      <3>3. upc[u] \in {"close:old", "close:syncold"} => Kept(gen)
        BY <1>0, <2>2 DEF SyncedByClose
      <3> QED
        BY <3>1, <3>2, <3>3
    <2>7. upc[u] = "close:old" => \A w \in Writers : pc[w] = "idle"
      BY <1>0 DEF LifeCycle, Closing, CarefulInv, Careful, ClosesAlone
    <2>8. upc'[u] = "close:syncold" => gen > 1 /\ loc'[u].tgt = gen - 1
      <3> SUFFICES ASSUME upc'[u] = "close:syncold" PROVE gen > 1 /\ loc'[u].tgt = gen - 1
        OBVIOUS
      <3>1. upc[u] = "close:old" /\ old # NoAddr /\ loc'[u] = OldAt(loc[u], old, map[old])
        BY <1>4, UserMoves DEF UserMove, Goes
      <3>2. gen > 1 /\ map[old] = gen - 1
        BY <2>7, <3>1 DEF CarefulInv, ContentInv, CalmInv, HandleInv, Mappings
      <3>3. loc[u] \in Locals /\ old \in Addrs \cup {NoAddr} /\ map[old] \in 0..MaxFiles
        BY <3>1, HandleFacts
      <3> QED
        BY <3>1, <3>2, <3>3, OldHolds
    <2>9. upc'[u] = "close:free" /\ gen > 1 => Kept(gen - 1)
      <3> SUFFICES ASSUME upc'[u] = "close:free", gen > 1 PROVE Kept(gen - 1)
        OBVIOUS
      <3>1. \/ upc[u] = "close:old" /\ old = NoAddr
            \/ upc[u] = "close:syncold"
        BY <1>4, UserMoves DEF UserMove, Goes
      <3>2. upc[u] = "close:old" => old \in Addrs
        BY <2>7 DEF CarefulInv, OldKept
      <3>3. upc[u] = "close:syncold"
        BY <3>1, <3>2, HandleFacts
      <3> QED
        BY <1>0, <2>4, <3>3 DEF SyncedByClose
    <2>10. freed' => freed \/ upc[u] = "close:free"
      BY <1>4, LifeMoves DEF LifeMove
    <2>11. freed' \/ (\E v \in Users : upc'[v] = "close:free") =>
              Kept(gen) /\ (gen > 1 => Kept(gen - 1))
      <3>1. freed \/ (\E v \in Users : upc[v] = "close:free") =>
               Kept(gen) /\ (gen > 1 => Kept(gen - 1))
        BY <1>0, <2>2 DEF SyncedByClose
      <3> QED
        BY <2>3, <2>6, <2>9, <2>10, <3>1
    <2>12. \A v \in Users : v # u /\ upc'[v] \in {"close:old", "close:syncold", "close:free"} =>
              Kept(gen)
      BY <1>0, <2>2, <2>3 DEF SyncedByClose
    <2>13. \A v \in Users : upc'[v] = "close:sync" => loc'[v].tgt = gen
      BY <1>0, <2>3, <2>5 DEF SyncedByClose
    <2>14. \A v \in Users : upc'[v] = "close:syncold" => gen > 1 /\ loc'[v].tgt = gen - 1
      BY <1>0, <2>3, <2>8 DEF SyncedByClose
    <2> QED
      BY <2>1, <2>6, <2>11, <2>12, <2>13, <2>14 DEF SyncedByClose, Settled, Kept
  <1> QED
    BY <1>1, <1>2, <1>3, <1>4 DEF CarefulStep, Calls, hvars, vars

-----------------------------------------------------------------------------
(***************************************************************************)
(* The invariant, and what it is for.                                      *)
(***************************************************************************)
CarefulNext == HFinished \/ (Calls /\ NoCounterWraps /\ Careful')

\* It holds of the freshly opened handle that nobody uses yet.
LEMMA InitCarefulInv == HInit => CarefulInv
  <1> SUFFICES ASSUME HInit PROVE CarefulInv
    OBVIOUS
  <1>1. Init /\ ContentInv
    BY InitContentInv DEF HInit
  <1>2. HandleTypeOK
    <2>1. "idle" \in UserLabels /\ NoLocals \in Locals /\ 0 \in 0..MaxOps
      BY NoLocalsHolds, UsersAssumption DEF UserLabels
    <2>2. xfile \in Seq(Seq(Byte)) /\ Len(xfile) = 0
      BY DEF HInit
    <2>3. upc \in [Users -> UserLabels] /\ ops \in [Users -> 0..MaxOps] /\ loc \in [Users -> Locals]
      BY <2>1 DEF HInit
    <2>4. /\ closed \in BOOLEAN /\ freed \in BOOLEAN /\ harmed \in BOOLEAN
          /\ xmade = 0 /\ xname = 0 /\ dirty = {} /\ failed = {}
      BY DEF HInit
    <2> QED
      BY <2>2, <2>3, <2>4 DEF HandleTypeOK
  <1>3. Careful
    BY <1>1 DEF HInit, ContentInv, CalmInv, Careful, UsersTimely, AtMapping, ClosesAlone,
                ExportsAlone, Exporting
  <1>4. UsersRecent /\ SeenAnswered /\ LifeCycle
    BY NoLocalsHolds DEF HInit, UsersRecent, InUse, AtMapping, SeenAnswered, LifeCycle, Closing
  <1>5. OldKept
    BY <1>1 DEF Init, OldKept
  <1>6. SizedBetween /\ OutputSoFar
    BY NoLocalsHolds DEF HInit, SizedBetween, Exporting, OutputSoFar, Writing
  <1>7. FlushSyncs /\ SyncedByClose
    BY DEF HInit, FlushSyncs, SyncedByClose
  <1> QED
    BY <1>1, <1>2, <1>3, <1>4, <1>5, <1>6, <1>7 DEF CarefulInv

\* CarefulInv is inductive: every careful step keeps it.
LEMMA CarefulInvStep == CarefulInv /\ [CarefulNext]_hvars => CarefulInv'
  <1> SUFFICES ASSUME CarefulInv, CarefulStep \/ UNCHANGED hvars
               PROVE  CarefulInv'
    BY DEF CarefulNext, CarefulStep, HFinished
  <1>1. ContentInv' /\ HandleTypeOK'
    BY ContentKept, HandleTypeStep DEF CarefulInv
  <1>2. Careful'
    <2>1. CASE UNCHANGED hvars
      <3>1. Timely' /\ UsersTimely'
        BY <2>1 DEF CarefulInv, Careful, Timely, UsersTimely, hvars, vars
      <3>2. ClosesAlone' /\ ExportsAlone'
        BY <2>1 DEF CarefulInv, Careful, ClosesAlone, ExportsAlone, Exporting, hvars, vars
      <3> QED
        BY <3>1, <3>2 DEF Careful
    <2> QED
      BY <2>1 DEF CarefulStep
  <1>3. UsersRecent' /\ OldKept' /\ SeenAnswered' /\ LifeCycle'
    BY UsersRecentStep, OldKeptStep, SeenAnsweredStep, LifeCycleStep
  <1>4. SizedBetween' /\ OutputSoFar' /\ FlushSyncs' /\ SyncedByClose'
    BY SizedBetweenStep, OutputSoFarStep, FlushSyncsStep, SyncedByCloseStep
  <1> QED
    BY <1>1, <1>2, <1>3, <1>4 DEF CarefulInv

\* CarefulInv holds in every careful behaviour.
LEMMA CarefulInvariant == CarefulSpec => []CarefulInv
  <1>1. CarefulSpec => HInit /\ [][CarefulNext]_hvars
    BY DEF CarefulSpec, CarefulNext
  <1> QED
    BY <1>1, InitCarefulInv, CarefulInvStep, PTL

\* The variables of export, flush and close keep their types: export goes on
\* only with a used_size inside the data area.
THEOREM CallsTyped == CarefulSpec => []HandleTypeOK
  <1>1. CarefulInv => HandleTypeOK
    BY DEF CarefulInv
  <1> QED
    BY <1>1, CarefulInvariant, PTL

\* A pointer that export, flush or close loaded leads to its file until the
\* call is through with it, however writers switch files meanwhile.
THEOREM UsersKeepTheirFile == CarefulSpec => []UsersMapped
  <1>1. CarefulInv => UsersMapped
    BY ThroughItsFile DEF UsersMapped, FileOf
  <1> QED
    BY <1>1, CarefulInvariant, PTL

\* No step of a careful caller goes through memory that is gone: neither the
\* context after lz_logger_close freed it, nor a file that was unmapped.
NothingDangles ==
    /\ freed => /\ \A w \in Writers : ~UsesContext(w)
                /\ \A u \in Users : upc[u] \notin AtContext
    /\ \A u \in Users : upc[u] \in AtMapping => Through(u)
    /\ \A w \in Writers : pc[w] \in Holding => Addressable(w)

\* Careful callers meet no undefined behaviour, so leaving UseAfterFree,
\* UserSegv and Segv out of what they do leaves nothing out.
THEOREM NoUseAfterFree == CarefulSpec => []NothingDangles
  <1>1. CarefulInv => NothingDangles
    <2> SUFFICES ASSUME CarefulInv PROVE NothingDangles
      OBVIOUS
    <2>1. freed => /\ \A w \in Writers : ~UsesContext(w)
                   /\ \A u \in Users : upc[u] \notin AtContext
      BY DEF CarefulInv, LifeCycle, Careful, ClosesAlone, UsesContext, Critical, AtContext
    <2>2. \A u \in Users : upc[u] \in AtMapping => Through(u)
      BY ThroughItsFile
    <2>3. ASSUME NEW w \in Writers, pc[w] \in Holding PROVE Addressable(w)
      <3>1. map[ptr[w]] = tgt[w] /\ tgt[w] \in 1..gen
        BY <2>3, HoldsItsFile DEF CarefulInv, ContentInv, CalmInv
      <3>2. map[ptr[w]] # NoFile
        BY <3>1, HandleFacts DEF NoFile
      <3> QED
        BY <3>2 DEF Addressable, CarefulInv, ContentInv, CalmInv, Granted
    <2> QED
      BY <2>1, <2>2, <2>3 DEF NothingDangles
  <1> QED
    BY <1>1, CarefulInvariant, PTL

\* What was proved of writers alone holds while others export, flush and close.
THEOREM WritersUndisturbed == CarefulSpec => [](NoFault /\ Disjoint /\ Intact)
  <1>1. CarefulInv => NoFault /\ Disjoint /\ Intact
    BY DEF CarefulInv, ContentInv, CalmInv
  <1> QED
    BY <1>1, CarefulInvariant, PTL

\* A finished export holds every message of its file that was answered before
\* the call, byte for byte.
THEOREM ExportComplete == CarefulSpec => []ExportHoldsAnswered
  <1>1. CarefulInv => ExportHoldsAnswered
    <2> SUFFICES ASSUME CarefulInv, NEW u \in Users, upc[u] = "export:done", NEW i \in DOMAIN log,
                        log[i].file = loc[u].tgt, log[i].msg \in loc[u].seen,
                        NEW p \in log[i].off..(Ends(log[i]) - 1)
                 PROVE  /\ p + 1 \in DOMAIN xfile[xname]
                        /\ xfile[xname][p + 1] = CipherOf(log[i].msg)
      BY DEF ExportHoldsAnswered, CipherOf
    <2>1. Copying(upc[u], loc[u], xname, xmade, xfile, log)
      BY CopyingMeans DEF CarefulInv, Writing
    <2>2. Ends(log[i]) <= loc[u].size
      BY DEF CarefulInv, SizedBetween, Exporting
    <2>3. p \in Nat /\ p < loc[u].size /\ loc[u].size \in Nat
      BY <2>2, SizedFacts
    <2>4. loc[u].sent = loc[u].size /\ Len(xfile[xname]) = loc[u].size + 1 /\ xname \in 1..xmade
      BY <2>1 DEF Copying
    <2>5. xfile[xname] \in Seq(Byte)
      BY <2>4, HandleFacts, ElementOfSeq
    <2>6. p + 1 \in DOMAIN xfile[xname]
      BY <2>3, <2>4, <2>5, LenProperties
    <2>7. xfile[xname][p + 1] = CipherOf(log[i].msg)
      BY <2>1, <2>3, <2>4 DEF Copying
    <2> QED
      BY <2>6, <2>7
  <1> QED
    BY <1>1, CarefulInvariant, PTL

\* A finished export ends with its footer, and what the tool takes of it ends
\* between two reservations.
THEOREM ExportWellFormed == CarefulSpec => []ExportCutsNoMessage
  <1>1. CarefulInv => ExportCutsNoMessage
    <2> SUFFICES ASSUME CarefulInv, NEW u \in Users, upc[u] = "export:done"
                 PROVE  /\ xfile[xname][Len(xfile[xname])] = FooterFor(TakenByTool(xfile[xname]))
                        /\ \A i \in DOMAIN log : log[i].file = loc[u].tgt =>
                              \/ Ends(log[i]) <= TakenByTool(xfile[xname])
                              \/ log[i].off >= TakenByTool(xfile[xname])
      BY DEF ExportCutsNoMessage
    <2>1. /\ Len(xfile[xname]) = loc[u].size + 1
          /\ xfile[xname][loc[u].size + 1] = FooterFor(loc[u].size)
      BY DEF CarefulInv, OutputSoFar, Writing
    <2>2. Len(xfile[xname]) - 1 = loc[u].size
      BY <2>1, SizedFacts
    <2>3. TakenByTool(xfile[xname]) = loc[u].size
      <3>1. xfile[xname][Len(xfile[xname]) - 1 + 1].foot = loc[u].size
        BY <2>1, <2>2 DEF FooterFor
      <3> QED
        BY <2>2, <3>1 DEF TakenByTool
    <2>4. \A i \in DOMAIN log : log[i].file = loc[u].tgt =>
             Ends(log[i]) <= loc[u].size \/ log[i].off >= loc[u].size
      BY DEF CarefulInv, SizedBetween, Exporting
    <2> QED
      BY <2>1, <2>3, <2>4
  <1> QED
    BY <1>1, CarefulInvariant, PTL

\* When flush answers SUCCESS, what was answered before it is on disk.
THEOREM FlushReachesDisk == CarefulSpec => []FlushSyncs
  <1>1. CarefulInv => FlushSyncs
    BY DEF CarefulInv
  <1> QED
    BY <1>1, CarefulInvariant, PTL

\* After close, what the last two files hold of answered messages is on disk,
\* unless an msync failed.
THEOREM CloseReachesDisk == CarefulSpec => []CloseSyncs
  <1>1. CarefulInv => CloseSyncs
    <2> SUFFICES ASSUME CarefulInv, freed, NEW i \in DOMAIN log, log[i].file >= gen - 1,
                        log[i].file \notin failed
                 PROVE  MessageSynced(log[i])
      BY DEF CloseSyncs
    <2>1. log[i].file \in 1..gen /\ gen \in Int
      BY SizedFacts, LogFacts, HandleFacts DEF CarefulInv, ContentInv
    <2>2. log[i].file = gen \/ (gen > 1 /\ log[i].file = gen - 1)
      BY <2>1
    <2>3. Settled(log[i].file)
      BY <2>2 DEF CarefulInv, SyncedByClose
    <2> QED
      BY <2>3 DEF Settled, MessageSynced
  <1> QED
    BY <1>1, CarefulInvariant, PTL

-----------------------------------------------------------------------------
(***************************************************************************)
(* Callers who are not careful.                                            *)
(***************************************************************************)
HandleNext == HFinished \/ Calls \/ UseAfterFree \/ UserSegv

\* A refused call is one that LzLog refuses.
LEMMA RefusedSimulates ==
    ASSUME HandleInv, NEW w \in Writers, WriteClosed(w)
    PROVE  HandleInv' /\ Abs!ARefuse(w)
  <1>1. HandleInv'
    <2>1. TypeOK'
      BY RefusedMoves DEF HandleInv, TypeOK, CallTypes, HandleTypes, FileTypes, HistoryTypes
    <2>2. InCall'
      BY RefusedMoves DEF HandleInv, InCall
    <2>3. OneSwitcher' /\ Mappings' /\ MappedIfRecent'
      BY RefusedMoves DEF HandleInv, OneSwitcher, Mappings, MappedIfRecent
    <2> QED
      BY <2>1, <2>2, <2>3 DEF HandleInv
  <1>2. Abs!ARefuse(w)
    BY DEF WriteClosed, BeginCall, Abs!ARefuse
  <1> QED
    BY <1>1, <1>2

\* Whoever goes through memory that is gone stops the model, and not the log.
LEMMA FaultsLeaveLog ==
    ASSUME HandleInv, UseAfterFree \/ UserSegv \/ HFinished \/ UNCHANGED hvars
    PROVE  HandleInv' /\ UNCHANGED Abs!avars
  <1>1. CASE UNCHANGED vars
    <2>1. HandleInv'
      BY <1>1, HandleInvStep
    <2>2. UNCHANGED Abs!avars
      BY <1>1 DEF vars, Abs!avars
    <2> QED
      BY <2>1, <2>2
  <1>2. CASE UserSegv
    <2>1. /\ UNCHANGED <<pc, calls, len, ptr, tgt, off, ret, cur, old, lock, new, gen, map, used,
                         data, mask, log, acked>>
          /\ fault' = TRUE
      BY <1>2 DEF UserSegv
    <2>2. TypeOK'
      BY <2>1 DEF HandleInv, TypeOK, CallTypes, HandleTypes, FileTypes, HistoryTypes
    <2>3. InCall' /\ OneSwitcher' /\ Mappings' /\ MappedIfRecent'
      BY <2>1 DEF HandleInv, InCall, OneSwitcher, Mappings, MappedIfRecent
    <2>4. UNCHANGED Abs!avars
      BY <2>1 DEF Abs!avars
    <2> QED
      BY <2>2, <2>3, <2>4 DEF HandleInv
  <1> QED
    BY <1>1, <1>2 DEF UseAfterFree, HFinished, hvars

\* Exports, flushes and closes, at whatever time they come, change nothing of what
\* lz_logger_write promises: a call answered SUCCESS has taken one place in the
\* log, and a call that finds the handle closed has taken none.
THEOREM OneLogBesideUsers == HSpec => ImplementsLzLog
  <1>1. HInit => HandleInv /\ Abs!AInit
    BY InitHandleInv DEF HInit, Init, Abs!AInit
  <1>2. HandleInv /\ [HandleNext]_hvars => HandleInv' /\ [Abs!ANext]_(Abs!avars)
    <2> SUFFICES ASSUME HandleInv, [HandleNext]_hvars
                 PROVE  HandleInv' /\ [Abs!ANext]_(Abs!avars)
      OBVIOUS
    <2>1. ASSUME NEW w \in Writers, WriterStep(w)
          PROVE  HandleInv' /\ [Abs!ANext]_(Abs!avars)
      <3>1. Step(w)
        BY <2>1 DEF WriterStep
      <3>2. HandleInv'
        BY <3>1, HandleInvStep DEF Next
      <3>3. [Abs!ANext]_(Abs!avars)
        BY <3>1, StepSimulation DEF Abs!ANext, Abs!avars, Stored, Status, StatusAt
      <3> QED
        BY <3>2, <3>3
    <2>2. ASSUME NEW w \in Writers, WriteClosed(w)
          PROVE  HandleInv' /\ [Abs!ANext]_(Abs!avars)
      BY <2>2, RefusedSimulates DEF Abs!ANext
    <2>3. ASSUME NEW u \in Users, UserStep(u)
          PROVE  HandleInv' /\ [Abs!ANext]_(Abs!avars)
      <3>1. UNCHANGED vars
        BY <2>3, UsersLeaveFiles
      <3>2. HandleInv'
        BY <3>1, HandleInvStep
      <3>3. UNCHANGED Abs!avars
        BY <3>1 DEF vars, Abs!avars
      <3> QED
        BY <3>2, <3>3
    <2>4. CASE UseAfterFree \/ UserSegv \/ HFinished \/ UNCHANGED hvars
      BY <2>4, FaultsLeaveLog
    <2> QED
      BY <2>1, <2>2, <2>3, <2>4 DEF HandleNext, Calls
  <1>3. HSpec => HInit /\ [][HandleNext]_hvars
    BY DEF HSpec, HandleNext
  <1> QED
    BY <1>1, <1>2, <1>3, PTL DEF ImplementsLzLog, Abs!ASpec
=============================================================================
