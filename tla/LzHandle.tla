------------------------------ MODULE LzHandle ------------------------------
(***************************************************************************)
(* The other calls on an open handle, beside the writers of LzLogger       *)
(* (src/src/lz_logger.c): lz_logger_export_current_log copies the current  *)
(* file to export.log, lz_logger_flush syncs it, and lz_logger_close marks *)
(* the handle, syncs the current and the replaced file, wipes the key and  *)
(* frees the context under whoever still uses it.                          *)
(*                                                                         *)
(* The steps of the writers are those of LzLogger; this module adds        *)
(* is_closed in front of them, and the life of the context.                *)
(***************************************************************************)
EXTENDS LzLogger

CONSTANTS Users,      \* threads that export, flush and close
          MaxOps      \* calls each of them makes (bound)

ASSUME UsersAssumption == MaxOps \in Nat

VARIABLES closed,     \* is_closed
          freed,      \* the context was wiped, its mutex destroyed, its memory freed
          harmed,     \* a thread inside a call used the context after that
          upc, ops,   \* of each user
          loc,        \* its local variables, see Locals
          xname, xmade, xfile,  \* the inode named export.log, inodes so far, contents
          dirty,      \* bytes of the log files that no msync covered since they changed
          failed      \* history: files whose msync failed

handle == <<closed, freed, harmed>>
output == <<xname, xmade, xfile>>
disk   == <<dirty, failed>>
uvars  == <<handle, upc, ops, loc, output, disk>>
hvars  == <<vars, uvars>>

\* file_size in the footer of a mapped file: the data area and the footer, which
\* is taken as one byte.
MappedSize == MaxData + 1

\* A byte of export.log: one of the log file, or the footer, which holds used_size
\* and file_size.
ByteOf(f, p) == [msg |-> data[f][p], mask |-> mask[f][p], foot |-> 0, size |-> 0]
Hole == [msg |-> Zero, mask |-> 0, foot |-> 0, size |-> 0]

\* The footer of an export of n bytes.  Its file_size is that of the mapping, and
\* so the size of the export only if the file is full.
FooterFor(n) == [msg |-> Zero, mask |-> 0, foot |-> n, size |-> MappedSize]

\* write(2) of the bytes b at offset o of a file that holds s.
WriteAt(s, o, b) ==
    [k \in 1..(IF Len(s) > o + Len(b) THEN Len(s) ELSE o + Len(b)) |->
        IF k > o /\ k <= o + Len(b) THEN b[k - o]
        ELSE IF k <= Len(s) THEN s[k] ELSE Hole]

\* The locals of a call: the pointer it loaded, used_size as export read it, the
\* bytes already written and the inode they go to; and, as history, the file the
\* pointer led to and the messages answered before it was loaded.
Locals == [ptr : Addrs \cup {NoAddr}, tgt : 0..MaxFiles, seen : SUBSET Msgs,
           size : 0..MaxData, sent : 0..MaxData, fd : Nat]
NoLocals == [ptr |-> NoAddr, tgt |-> 0, seen |-> {}, size |-> 0, sent |-> 0, fd |-> 0]

HInit == /\ Init
         /\ closed = FALSE /\ freed = FALSE /\ harmed = FALSE
         /\ upc = [u \in Users |-> "idle"] /\ ops = [u \in Users |-> 0]
         /\ loc = [u \in Users |-> NoLocals]
         /\ xname = 0 /\ xmade = 0 /\ xfile = <<>>
         /\ dirty = {} /\ failed = {}

Alive == ~fault /\ ~harmed

(***************************************************************************)
(* Writers.                                                                *)
(***************************************************************************)
\* The next step reads or writes a field of the context.
UsesContext(w) == pc[w] \in {"load", "copy", "encrypt", "pad", "padenc", "lock"} \cup Critical

Changed == {b \in Files \X Pos : \/ data'[b[1]][b[2]] # data[b[1]][b[2]]
                                 \/ mask'[b[1]][b[2]] # mask[b[1]][b[2]]}

\* A call passes the is_closed check, or has passed it.
WriterStep(w) == /\ ~harmed /\ Step(w)
                 /\ pc[w] = "idle" => ~freed /\ (closed => pc'[w] = "idle")
                 /\ freed => ~UsesContext(w)
                 /\ dirty' = dirty \cup Changed
                 /\ UNCHANGED <<handle, upc, ops, loc, output, failed>>

\* HANDLE_CLOSED
WriteClosed(w) == /\ Alive /\ closed /\ ~freed
                  /\ \E n \in Lens \ {0} : BeginCall(w, n)
                  /\ ret' = [ret EXCEPT ![w] = "HANDLE_CLOSED"]
                  /\ UNCHANGED <<pc, ptrVars, acked, uvars>>

(***************************************************************************)
(* What the three calls share.                                             *)
(***************************************************************************)
UGoto(u, label) == upc' = [upc EXCEPT ![u] = label] /\ UNCHANGED loc
Continue(u, label, locals) == /\ upc' = [upc EXCEPT ![u] = label]
                              /\ loc' = [loc EXCEPT ![u] = locals]
Answer(u) == Continue(u, "idle", NoLocals)

\* A caller does not start a call on a handle that is gone.
Begin(u) == /\ Alive /\ ~freed
            /\ upc[u] = "idle" /\ ops[u] < MaxOps
            /\ ops' = [ops EXCEPT ![u] = @ + 1]
            /\ UNCHANGED <<vars, output, disk>>

At(u, label) == Alive /\ upc[u] = label

\* Program points at which a user reads a field of the context, and those at
\* which it goes through the pointer it loaded.
AtContext == {"export:load", "flush:load", "close:load", "export:unlink", "close:old",
              "close:free"}
AtMapping == {"export:used", "export:copy", "export:footer", "flush:sync", "close:sync",
              "close:syncold"}

\* The footer's file_size leads to the mapping's start.
Through(u) == map[loc[u].ptr] # NoFile
FileOf(u) == map[loc[u].ptr]

LoadFor(u, label, next) ==
    /\ At(u, label) /\ ~freed
    /\ Continue(u, next, [loc[u] EXCEPT !.ptr = cur, !.tgt = gen, !.seen = acked])
    /\ UNCHANGED <<vars, handle, ops, output, disk>>

\* msync(MS_SYNC) of the mapping.
Sync(u) == /\ dirty' = {b \in dirty : b[1] # FileOf(u)}
           /\ UNCHANGED failed
SyncFails(u) == /\ failed' = failed \cup {FileOf(u)}
                /\ UNCHANGED dirty

(***************************************************************************)
(* lz_logger_export_current_log.                                           *)
(***************************************************************************)
ExportCall(u) == /\ Begin(u)
                 /\ IF closed THEN UNCHANGED <<upc, loc>>       \* HANDLE_CLOSED
                              ELSE UGoto(u, "export:load")
                 /\ UNCHANGED handle

ExportLoad(u) == LoadFor(u, "export:load", "export:used")

\* bug: used_size is not compared with the data area.
ReadUsedUnchecked(u) ==
    /\ At(u, "export:used") /\ Through(u)
    /\ IF used[FileOf(u)] = 0
       THEN Answer(u)
       ELSE Continue(u, "export:unlink", [loc[u] EXCEPT !.size = used[FileOf(u)]])
    /\ UNCHANGED <<vars, handle, ops, output, disk>>

\* Past the end it is FILE_SIZE_EXCEED; 0 is SUCCESS without a file.
ReadUsed(u) ==
    /\ At(u, "export:used") /\ Through(u)
    /\ LET n == used[FileOf(u)]
       IN IF n \in 1..MaxData
          THEN Continue(u, "export:unlink", [loc[u] EXCEPT !.size = n])
          ELSE Answer(u)
    /\ UNCHANGED <<vars, handle, ops, output, disk>>

Unlink(u) == /\ At(u, "export:unlink") /\ ~freed
             /\ xname' = 0
             /\ UGoto(u, "export:open")
             /\ UNCHANGED <<vars, handle, ops, xmade, xfile, disk>>

\* open(O_CREAT | O_TRUNC): a new inode, or the one another export created.
OpenExport(u) ==
    /\ At(u, "export:open")
    /\ IF xname = 0 THEN xmade' = xmade + 1 /\ xname' = xmade'
                    ELSE UNCHANGED <<xmade, xname>>
    /\ xfile' = IF xname = 0 THEN Append(xfile, <<>>) ELSE [xfile EXCEPT ![xname] = <<>>]
    /\ Continue(u, "export:copy", [loc[u] EXCEPT !.fd = xname'])
    /\ UNCHANGED <<vars, handle, ops, disk>>

WriteOut(u, o, bytes) == xfile' = [xfile EXCEPT ![loc[u].fd] = WriteAt(@, o, bytes)]
Sent(u, n, all) == Continue(u, IF all THEN "export:footer" ELSE "export:copy",
                            [loc[u] EXCEPT !.sent = @ + n])
Span(f, lo, n) == [k \in 1..n |-> ByteOf(f, lo + k - 1)]

\* bug: the loop writes from the current mapping, not from the one it sized.
CopyOutReloaded(u) ==
    /\ At(u, "export:copy") /\ Through(u)
    /\ \E n \in 1..(loc[u].size - loc[u].sent) :
          /\ WriteOut(u, loc[u].sent, Span(map[cur], loc[u].sent, n))
          /\ Sent(u, n, loc[u].sent + n = loc[u].size)
    /\ UNCHANGED <<vars, handle, ops, xname, xmade, disk>>

\* bug: a short write ends the copy.
CopyOutOnce(u) ==
    /\ At(u, "export:copy") /\ Through(u)
    /\ \E n \in 1..(loc[u].size - loc[u].sent) :
          /\ WriteOut(u, loc[u].sent, Span(FileOf(u), loc[u].sent, n))
          /\ Sent(u, n, TRUE)
    /\ UNCHANGED <<vars, handle, ops, xname, xmade, disk>>

\* One write(2), which may be short, straight from the mapping.
CopyOut(u) ==
    /\ At(u, "export:copy") /\ Through(u)
    /\ \E n \in 1..(loc[u].size - loc[u].sent) :
          /\ WriteOut(u, loc[u].sent, Span(FileOf(u), loc[u].sent, n))
          /\ Sent(u, n, loc[u].sent + n = loc[u].size)
    /\ UNCHANGED <<vars, handle, ops, xname, xmade, disk>>

\* Salt, magic, the mapping's file_size, used_size, then fsync.
WriteFooter(u) ==
    /\ At(u, "export:footer") /\ Through(u)
    /\ WriteOut(u, loc[u].sent, <<FooterFor(loc[u].size)>>)
    /\ UGoto(u, "export:done")
    /\ UNCHANGED <<vars, handle, ops, xname, xmade, disk>>

\* FILE_CREATE or FILE_WRITE: what was written stays.
ExportFails(u) ==
    /\ \E l \in {"export:open", "export:copy", "export:footer"} : At(u, l)
    /\ Answer(u)
    /\ UNCHANGED <<vars, handle, ops, output, disk>>

(***************************************************************************)
(* lz_logger_flush.  is_closed is not looked at.                           *)
(***************************************************************************)
FlushCall(u) == /\ Begin(u)
                /\ UGoto(u, "flush:load")
                /\ UNCHANGED handle

FlushLoad(u) == LoadFor(u, "flush:load", "flush:sync")

\* bug: MS_ASYNC.
FlushSyncLater(u) == /\ At(u, "flush:sync") /\ Through(u)
                     /\ UGoto(u, "flush:done")
                     /\ UNCHANGED <<vars, handle, ops, output, disk>>

FlushSync(u) == /\ At(u, "flush:sync") /\ Through(u)
                /\ \/ Sync(u) /\ UGoto(u, "flush:done")
                   \/ SyncFails(u) /\ Answer(u)       \* FILE_WRITE
                /\ UNCHANGED <<vars, handle, ops, output>>

\* export or flush answers SUCCESS.
Finish(u) == /\ At(u, "export:done") \/ At(u, "flush:done")
             /\ Answer(u)
             /\ UNCHANGED <<vars, handle, ops, output, disk>>

(***************************************************************************)
(* lz_logger_close.  Nothing stops a second one.                           *)
(***************************************************************************)
CloseCall(u) == /\ Begin(u)
                /\ closed' = TRUE
                /\ UGoto(u, "close:load")
                /\ UNCHANGED <<freed, harmed>>

CloseLoad(u) == LoadFor(u, "close:load", "close:sync")

\* bug: the file replaced last is forgotten.
CloseSyncCurrentOnly(u) ==
    /\ At(u, "close:sync") /\ Through(u)
    /\ Sync(u) \/ SyncFails(u)
    /\ UGoto(u, "close:free")
    /\ UNCHANGED <<vars, handle, ops, output>>

\* The result of msync is not looked at.
CloseSync(u) == /\ At(u, "close:sync") /\ Through(u)
                /\ Sync(u) \/ SyncFails(u)
                /\ UGoto(u, "close:old")
                /\ UNCHANGED <<vars, handle, ops, output>>

CloseLoadOld(u) ==
    /\ At(u, "close:old") /\ ~freed
    /\ IF old = NoAddr
       THEN UGoto(u, "close:free")
       ELSE Continue(u, "close:syncold", [loc[u] EXCEPT !.ptr = old, !.tgt = map[old]])
    /\ UNCHANGED <<vars, handle, ops, output, disk>>

CloseSyncOld(u) == /\ At(u, "close:syncold") /\ Through(u)
                   /\ Sync(u) \/ SyncFails(u)
                   /\ UGoto(u, "close:free")
                   /\ UNCHANGED <<vars, handle, ops, output>>

\* lz_crypto_cleanup, pthread_mutex_destroy, free.
Free(u) == /\ At(u, "close:free") /\ ~freed
           /\ freed' = TRUE
           /\ Answer(u)
           /\ UNCHANGED <<vars, closed, harmed, ops, output, disk>>

UserStep(u) == \/ ExportCall(u) \/ ExportLoad(u) \/ ReadUsed(u) \/ Unlink(u) \/ OpenExport(u)
               \/ CopyOut(u) \/ WriteFooter(u) \/ ExportFails(u)
               \/ FlushCall(u) \/ FlushLoad(u) \/ FlushSync(u) \/ Finish(u)
               \/ CloseCall(u) \/ CloseLoad(u) \/ CloseSync(u)
               \/ CloseLoadOld(u) \/ CloseSyncOld(u) \/ Free(u)

(***************************************************************************)
(* Undefined behaviour ends what the model says.                           *)
(***************************************************************************)
UseAfterFree == /\ Alive /\ freed
                /\ \/ \E w \in Writers : UsesContext(w)
                   \/ \E u \in Users : upc[u] \in AtContext
                /\ harmed' = TRUE
                /\ UNCHANGED <<vars, closed, freed, upc, ops, loc, output, disk>>

UserSegv == /\ Alive
            /\ \E u \in Users : upc[u] \in AtMapping /\ ~Through(u)
            /\ fault' = TRUE
            /\ UNCHANGED <<pc, callVars, ptrVars, off, ret, handleVars, map, fileVars,
                           history, uvars>>

\* Every thread has made its calls, or cannot make more.
HFinished == /\ \/ ~Alive
                \/ /\ \A w \in Writers : pc[w] = "idle" /\ (freed \/ calls[w] = MaxCalls)
                   /\ \A u \in Users : upc[u] = "idle" /\ (freed \/ ops[u] = MaxOps)
             /\ UNCHANGED hvars

Calls == \/ \E w \in Writers : WriterStep(w) \/ WriteClosed(w)
         \/ \E u \in Users : UserStep(u)

HSpec == HInit /\ [][HFinished \/ Calls \/ UseAfterFree \/ UserSegv]_hvars
-----------------------------------------------------------------------------
(***************************************************************************)
(* The behaviours of callers that keep to what the code counts on.         *)
(***************************************************************************)
\* Nobody exports or flushes through a pointer that was replaced twice.
UsersTimely == \A u \in Users : upc[u] \in AtMapping => gen - loc[u].tgt <= 1

\* close is called when no other call runs.
ClosesAlone == closed => /\ \A w \in Writers : pc[w] = "idle"
                         /\ \A u, v \in Users : upc[u] # "idle" /\ upc[v] # "idle" => u = v

\* One export writes export.log at a time.
Exporting(u) == upc[u] \in {"export:unlink", "export:open", "export:copy",
                            "export:footer", "export:done"}
ExportsAlone == \A u, v \in Users : Exporting(u) /\ Exporting(v) => u = v

Careful == Timely /\ UsersTimely /\ ClosesAlone /\ ExportsAlone
CarefulSpec == HInit /\ [][HFinished \/ (Calls /\ NoCounterWraps /\ Careful')]_hvars
-----------------------------------------------------------------------------
UserLabels == {"idle", "export:open", "export:done", "flush:done"} \cup AtContext \cup AtMapping
Byte == [msg : Msgs \cup {Zero}, mask : {0, 1}, foot : 0..MaxData, size : {0, MappedSize}]

\* Types of the variables this module adds: export goes on only with a
\* used_size inside the data area.
HandleTypeOK ==
    /\ closed \in BOOLEAN /\ freed \in BOOLEAN /\ harmed \in BOOLEAN
    /\ upc \in [Users -> UserLabels]
    /\ ops \in [Users -> 0..MaxOps]
    /\ loc \in [Users -> Locals]
    /\ xmade \in Nat /\ xname \in 0..xmade
    /\ Len(xfile) = xmade /\ xfile \in Seq(Seq(Byte))
    /\ dirty \subseteq Files \X Pos /\ failed \subseteq Files

\* A file that export, flush or close loaded is still mapped where it was, in
\* the middle of any switch by a writer.
UsersMapped == \A u \in Users : upc[u] \in AtMapping => map[loc[u].ptr] = loc[u].tgt

\* When export answers, export.log holds every message of its file that was
\* answered SUCCESS before the call loaded the pointer, byte for byte and in
\* cipher text if the handle encrypts, whatever writers do during the copy.
ExportHoldsAnswered ==
    \A u \in Users : upc[u] = "export:done" =>
        \A i \in DOMAIN log : log[i].file = loc[u].tgt /\ log[i].msg \in loc[u].seen =>
            \A p \in log[i].off..(Ends(log[i]) - 1) :
                /\ p + 1 \in DOMAIN xfile[xname]
                /\ xfile[xname][p + 1] = [msg |-> log[i].msg,
                                          mask |-> IF Encrypted THEN 1 ELSE 0,
                                          foot |-> 0, size |-> 0]

\* How many bytes of a finished file s decrypt_log.py takes: all but the footer,
\* cut at used_size where that lies inside.  A file_size that is not Len(s) it
\* prints a warning about, and goes on.
TakenByTool(s) ==
    LET n == Len(s) - 1
    IN  IF 0 < s[n + 1].foot /\ s[n + 1].foot < n THEN s[n + 1].foot ELSE n

\* When export answers, export.log ends with its footer, however the copy was cut
\* into writes, and what the tool takes of it ends between two reservations of
\* the file, never inside one, whatever was reserved meanwhile.
ExportCutsNoMessage ==
    \A u \in Users : upc[u] = "export:done" =>
        LET s == xfile[xname]
        IN /\ s[Len(s)] = FooterFor(TakenByTool(s))
           /\ \A i \in DOMAIN log : log[i].file = loc[u].tgt =>
                 Ends(log[i]) <= TakenByTool(s) \/ log[i].off >= TakenByTool(s)

MessageSynced(r) == \A p \in r.off..(Ends(r) - 1) : <<r.file, p>> \notin dirty

\* When flush answers SUCCESS, every message of the current file that was
\* answered before the call is on disk, although others are written meanwhile.
FlushSyncs ==
    \A u \in Users : upc[u] = "flush:done" =>
        \A i \in DOMAIN log : log[i].file = loc[u].tgt /\ log[i].msg \in loc[u].seen =>
            MessageSynced(log[i])

\* After close, every answered message of the last two files is on disk, unless
\* msync failed, which close does not report.
CloseSyncs ==
    freed => \A i \in DOMAIN log :
        log[i].msg \in acked /\ log[i].file >= gen - 1 /\ log[i].file \notin failed =>
            MessageSynced(log[i])

\* A call that passed the is_closed check ends by itself.
StartedCallsEnd == ~harmed
=============================================================================
