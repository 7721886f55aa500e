# lz_logger in TLA+

Specifications, model-checking configurations and proofs for lz_logger, the
mmap-based log library (`src/src/lz_logger.c` and its platform layers).

## The system

| component | state it keeps | operations | what is hard |
|---|---|---|---|
| **Writer and file switch** (`src/lz_logger.c`: `lz_logger_write`, `switch_to_new_file`, `add_old_offset_ptr`) | the context: `cur_offset_ptr`, `old_offset_ptr`, `switch_mutex`; in the footer of every mapped file the counter `used_size`; the threads' local offsets | reserve with `fetch_add`, copy, encrypt in place; pad the tail; switch under the mutex; unmap one switch late | any interleaving of lock-free writers with a switch; stale pointers; address reuse; 32-bit counter without roll-back |
| **Daily files** (`lz_logger_open`, `create_and_extend_file`, `open_existing_file`, `find_latest_log_number`, `lz_logger_set_max_file_size`, `lz_logger_cleanup_expired_logs`) | directory `yyyy-mm-dd-N.log`, footers (salt, magic, file size, `used_size`), `g_max_file_size` | open, create, map, rotate, clean up | crashes between two steps, partial failure, day and number boundaries, a file size that changed |
| **Close** (`lz_logger_close`) | `is_closed`, the context itself | mark, sync, free | a writer inside the call while its context is freed |
| **Export, flush** | none of their own; `export.log` | copy the mapping up to `used_size`; `msync` | reading bytes that are reserved and not yet written |
| **Encryption** (`src/lz_crypto.c`) | key, salt | derive a key, apply the AES-CTR key stream at a file offset | offsets inside a block; encrypting in place, twice |
| **Android layer** (`LzLogger.kt`, `lz_logger_jni.cpp`, `CryptoHelper.java`) | `isInitialized`, native handle, level; `g_ffi_handle`, `g_ffi_log_level` | prepareLog, log, close, export, clean-up; the FFI entry for Dart | Kotlin, JNI and Dart threads share plain globals |
| **iOS layer** (`LZLogger.m`) | handle, level | the same life cycle | termination and dealloc beside writers |
| **Dart binding** (`lz_logger.dart`) | the loaded library | format and forward | - |
| **Decryption tools** (`tools/decrypt_log.*`) | - | read a finished file or an export | must agree with the footer and the key stream |

What makes them correct: an answered message is stored once, in its place, and
stays there (writer, switch); every stored byte is under `used_size` and
decrypts, and no file vanishes before its time (daily files); a call that has
begun ends on a context that still exists (close, platform layers); an export or
a flush covers what was answered before it; the piecewise key stream reads back
in one pass (encryption, tools); a call is logged or dropped as the log and its
level were while it ran (platform layers).

Writers of one process share the context and the mapping; the switch hands over
from one file to the next through the single atomic `cur_offset_ptr`; open,
clean-up and a later process see only the directory and the footers.

## Modules

| module | models |
|---|---|
| `LzLog` | what `lz_logger_write` promises: one log, to which each call answered SUCCESS appended its message once |
| `LzLogger` | concurrent `lz_logger_write` on one open handle, with the file switch |
| `LzLoggerProofs` | theorems about `LzLogger`: memory safety, the bytes of messages, the refinement of `LzLog` |
| `LzOrderlyProofs` | theorems about `LzLogger` with the mutex granted in order: the sequence of files |
| `LzHandle` | export, flush and close beside the writers of `LzLogger`, which it extends |
| `LzHandleProofs` | theorems about `LzHandle` |
| `LzRotation` | the directory over opens, switches, closes, crashes, days and clean-ups, with one writer |
| `LzRotationProofs` | theorems about `LzRotation` |
| `LzPlatform` | the Kotlin, JNI, Objective-C and Dart layers: the handle, its fields and globals, and the threads that use them |
| `LzPlatformProofs` | theorems about `LzPlatform` |
| `LzKeyStream` | the encryption of one file over opens, writes, failures and crashes, and the tool that reads it |
| `LzKeyStreamProofs` | theorems about `LzKeyStream` |
| `MCLzLogger`, `MCLzHandle`, `MCLzRotation`, `MCLzPlatform`, `MCLzKeyStream` | the instances TLC checks |

They meet at these points: `LzHandle` extends `LzLogger` and takes its writers
over step by step; `LzRotation` has one writer and looks at what `LzLogger`
leaves in files; `LzPlatform` sees of the library only which contexts exist, and
its assumption that nothing overlaps a close is what `LzHandle`'s `CarefulSpec`
needs; `LzKeyStream` refines the salts and keys of `LzRotation` and the one bit
per byte of `LzLogger` (`mask`) for one file.

### LzLogger

One action is one shared-memory step of the code, so that any two threads can
interleave between two of them. Each writer has a program point `pc[w]`, the
pointer `ptr[w]` it loaded and its offset `off[w]`. `tgt[w]` is a history
variable: the file `ptr[w]` led to when it was loaded.

| action | code in `lz_logger.c` |
|---|---|
| `Refuse`, `Call`, `CheckSize` | argument checks, first load of the pointer, the length against the footer's size (1061-1111) |
| `Load`, `Reserve` / `Overflow` | the loop's load and `atomic_fetch_add`; the sum fits or not, without roll-back (1114-1143) |
| `Copy`, `Encrypt` | `memcpy`, `encrypt_data`; it may fail, with the plain text left (1203-1226) |
| `Pad`, `PadEncrypt` | the writer that crossed the end zeroes the tail (1143-1160) |
| `Lock`, `Retry`, `StartSwitch` | mutex and the second check (1165-1189) |
| `MapNewFile`, `ZeroOffset`, `Publish`, `Retire`, `SwitchFails` | `switch_to_new_file`: create and map, zero, store the pointer, the delayed `munmap`, and its failure (935-1060) |
| `Segv` | an access through an address that leads nowhere, or beyond the data area |

Addresses are a small set: `mmap` returns any that is free, an unmapped address
can come back for another file, and an access through a stale pointer whose
address came back succeeds, on the wrong file. `data` says which message wrote a
byte, `mask` whether the key stream was applied an odd number of times. A
`memcpy` or an encryption is one step: reservations of others are checked not to
overlap it, so a finer grain shows nothing more to the properties (a torn read
by export is another matter, and not part of this module). `log` lists the
reservations in the order of their `fetch_add`s and `acked` the messages
answered SUCCESS; no guard reads `tgt`, `log` or `acked`.

Abstracted: the contents of messages; logging; `INVALID_HANDLE`,
`HANDLE_CLOSED`, `INVALID_MMAP` and a failing `pthread_mutex_lock`, which need a
closed or broken handle; that the footer follows the data area, so an access
beyond `MaxData` counts as a fault although the first 28 bytes would hit the
footer; which directory entry the next file gets.

Three specifications share these actions:

- `Spec`: every interleaving, no assumption.
- `CalmSpec`: nobody uses a pointer that was replaced twice since it was loaded
  (`Timely`) and no counter wraps. Both are assumptions about the environment
  that the code makes and does not enforce: one delayed mapping, and a counter
  that is never rolled back. The run `stalled_writer` shows what happens
  without the first; without the second see the disagreements below.
- `OrderlySpec`: calm, the mutex goes to a writer whose file was current longest
  ago (`OldestFirst`), and a thread inside `lz_logger_write` keeps running (weak
  fairness of each writer's steps). POSIX promises no order of mutex waiters; it
  is the usual behaviour of a fair mutex, and without it a reused address fools
  the second check (see the disagreements below). Nothing makes a caller call again.

### LzHandle

Extends `LzLogger`: `WriterStep` is a step of a writer there, behind the
`is_closed` check, and `Users` are threads that export, flush and close. `upc[u]`
is where a user is and `loc[u]` holds the locals of its call (`NoLocals` outside
one). `dirty` are the bytes of log files that changed since an `msync` covered
them; it follows every writer step. `export.log` is an inode and a name, because
one export can unlink or truncate what another writes.

| action | code in `lz_logger.c` |
|---|---|
| `WriteClosed` | the `is_closed` check of a write (1083-1089) |
| `ExportCall`, `ExportLoad`, `ReadUsed`, `Unlink`, `OpenExport`, `CopyOut`, `WriteFooter`, `ExportFails`, `Finish` | `lz_logger_export_current_log` (1514-1665), one shared step each, with short writes |
| `FlushCall`, `FlushLoad`, `FlushSync` | `lz_logger_flush` (1231-1260) |
| `CloseCall`, `CloseLoad`, `CloseSync`, `CloseLoadOld`, `CloseSyncOld`, `Free` | `lz_logger_close` (1262-1320); wiping the key, destroying the mutex and `free` are one step, after which any use of the context is undefined |
| `UseAfterFree`, `UserSegv` | undefined behaviour; it ends the behaviour |

`HSpec` is everything. `CarefulSpec` is the calm behaviours in which no export or
flush is overtaken by two switches, close is called while no other call runs,
and one export runs at a time. The code enforces none of the three: the first is
the assumption of `LzLogger` again, `close_frees` shows what happens without the
second, and for the third see the disagreements below. Under `CarefulSpec` nobody is inside a
call when the context is freed and every pointer in use leads to its file, so
leaving `UseAfterFree`, `UserSegv` and `Segv` out of it leaves nothing out; that
is the theorem `NoUseAfterFree`.

An export may contain bytes that are reserved and not yet written, and it ends
with a footer, both against "export only the written data part (without footer)"
(`lz_logger.h:170`); a flush does not reach messages in a file replaced before
it. `ExportHoldsAnswered` and `FlushSyncs` say what callers can rely on instead.
The 28 footer bytes are one byte here, of the mapped file as of an export
(`FooterFor`), so a failure between its parts leaves no part of it; such a call is
answered with an error. It keeps the two sizes that are written there: `used_size`
(`foot`) and the mapping's `file_size` (`size`, always `MappedSize`). The second is
the size of the export only if the file is full; the tools compare it with the
real size, print a warning and go on. `ExportCutsNoMessage` is therefore about
what `read_log_file` of `decrypt_log.py` takes of an export in spite of that
(`TakenByTool`), not about an export being a log file, which it is not. The footer
also holds the salt and the magic number; both are copied as they are, and the
model leaves them out. A path that does not fit the caller's buffer is left out.

### LzRotation

A file is an inode with its size, `used_size`, salt and, for each unit of its
data area, the message and key it was written with; `dir` maps names
`<<day, slot>>` to inodes. `st` says where the one thread is: closed, creating
or mapping a file in open, open, or creating or mapping in a switch. Each is a
point where the process can die: `MAP_SHARED` pages survive it, the handle does
not. The inode is separate from its name, so a file that was unlinked keeps
taking writes, and a file created under a used name is refused (`O_EXCL`).

| action | code in `lz_logger.c` |
|---|---|
| `OpenExisting`, `OpenBeyondEnd`, `OpenNew`, `OpenFails`, `OpenMapped` | `lz_logger_open` (592-829) with `find_latest_log_number` (`Latest`) and `open_existing_file` (`Acceptable`) |
| `FinishCreate`, `CreateFails`, `MapFails` | `create_and_extend_file`, `do_mmap_mapping` and their callers' error paths |
| `Store`, `Overflow` | `lz_logger_write` by one thread |
| `Switch`, `SwitchFails`, `SwitchMapped` | naming, unlinking, creating and salting in `switch_to_new_file` |
| `StoreAstray`, `KilledAstray` | a write through a mapping that is shorter than its file: `file_size` reads 0 from the data area, and the copy goes behind the mapping |
| `SetMaxFileSize`, `Close`, `Crash`, `NextDay`, `Cleanup` | as named |

Messages that are too long, a directory that cannot be read and parameter checks
change no state and are left out. File sizes that differ by less than a page are
left out. The salt of an empty file that a failing open may have replaced is not
tracked: the next open replaces it again.

### LzPlatform

Both platforms keep the handle, `isInitialized` and the level in plain fields,
and every thread reads them one after the other without a lock; one action is
one such read or write. `Owners` call `prepareLog`, `setLogLevel` and `close`,
`Callers` log, flush and export, natively and from Dart, and each successful
`prepareLog` wakes one of the `Cleaners`, which outlives a close. `live` are the
contexts `lz_logger_open` returned and `lz_logger_close` has not freed; an
address can come back. `platform` is chosen at the start: on Android a Dart call
reads `g_ffi_log_level` and `g_ffi_handle`, on iOS it is a call of the shared
instance.

| action | code |
|---|---|
| `LogCall`, `Check`, `Filter`, `Fetch`, `Write`, `Return` | `log` (`LzLogger.kt:168`, `LZLogger.m:167`), `nativeLog` |
| `DartCall`, `DartFilter`, `DartCheck`, `DartFetch` | `lzLog` (`lz_logger.dart:97`), `lz_logger_ffi`, which reads the handle twice |
| `FlushCall`, `ExportCall`, `UseCheck`, `UseFetch`, `Flush`, `Export` | `flush`, `exportCurrentLog` |
| `PrepareCall`, `PrepareCheck`, `Open`, `OpenFails`, `SetInitialized`, `SetFfiHandle`, `SetFfiLevel`, `StartCleaner` | `prepareLog`, `nativeOpen`, `nativeSetFfiHandle` |
| `Wake`, `Clean`, `CleanFailed` | the delayed clean-up (`LzLogger.kt:130`, `LZLogger.m:146`) |
| `SetLogLevel`, `SetLogLevelFfi` | `setLogLevel`, `nativeSetLogLevel` |
| `CloseCall`, `Terminate`, `CloseCheck`, `CloseNative`, `ForgetHandle`, `ForgetInit` | `close`, `onDestroy`, `applicationWillTerminate:` |

A log call inside prepareLog, export, the clean-up or the end of the process is
the whole `log` again (`LogThen`). `may` collects, while a call runs, the
answers that were right at one of its moments; no guard reads it. A line is its
length, where its newline is and how large its buffer is; `Line` is what
`snprintf`, `malloc` and `truncate_log_message` make of a wanted length.

`Spec` is everything, and nearly nothing holds in it: none of the layers locks.
`ConsiderateSpec` adds what they leave to the application: life-cycle calls come
one at a time (`LifeAlone`), and no other call overlaps a close (`Drained`). The
second includes the clean-up thread's own log calls, which the application can
neither see nor join. `CarefulSpec` adds that on Android Dart does not log
between a close and the next `prepareLog` (`DartWaits`); `dart_after_close` shows
what happens otherwise. An Android Dart call that overlaps a life-cycle call may
find the two globals between two states, and nothing is claimed of it (`Loose`).

Abstracted: the fields are sequentially consistent, although Kotlin's and
Objective-C's are plain; contents and failures of formatting; the directory
(`LzRotation`). Left out: `JNI_OnLoad`, the last-error fields, `dealloc` of the
shared instance, which is never released, and clean-ups the application asks for,
which touch no shared field.

### LzKeyStream

One file, one writer at a time. A byte of the data area is the plain byte it
stands for and the set of key-stream bytes XORed onto it; a key-stream byte is
its key, counter and place in the block. The counter has `2 * Half` digits to
the base `Radix`, so the carry from digit to digit is that of the sixteen bytes
of a real one, and `IV` takes the digits from the block number by shifts
(`Shift`), as the code does; `BlocksAssumption` says that the block numbers of a
file fit the lower half, 64 bits in the code, where `used_size` has 32. What the
cipher does with the counter (`Increment`, `StreamByte`) is external. A file that a
switch creates comes with a salt and no bytes, as after `OpenEncrypted`; but it
comes with the key and the salt of the file before it (`lz_logger.c:1016-1017`), so
its key stream is that of the file before it, from the start. What this module says
of key-stream bytes and counters is said of one file.

| action or operator | code |
|---|---|
| `OpenPlain`, `OpenEncrypted`, `OpenFails`, `OpenPassesBy` | the end of `lz_logger_open` (733-763), `lz_crypto_generate_salt`, `lz_crypto_init` |
| `Shift`, `IV`, `Process` | `lz_crypto_process`, and the same arithmetic in `CryptoHelper.processAesCtr` and `decrypt_aes_ctr` |
| `Reserve`, `Copy`, `Encrypt`, `EncryptFails` | `lz_logger_write`, `encrypt_data` |
| `Overflow`, `Pad`, `EncryptPad`, `EncryptPadFails` | the padding before a switch; its result is not looked at |
| `Close`, `Crash` | `lz_crypto_cleanup`; the end of the process between any two steps |
| `Clip`, `Stripped`, `ToolOutput` | `decrypt_log.py` |

The tool takes the salt from the footer and decrypts from offset 0
(`decrypt_log.py:92-97`, `:147`), as the library writes; `tools/README.md` describes
another format (see the disagreements below). `decrypt_log.rb` is not modelled. It
takes and decrypts the same bytes, but removes the first run of zeros that stands at
the end of a line or of the data (`/\x00+$/`) instead of the zeros at the end of the
data, and unpacks the sizes in the byte order of the machine (`'III'`), where its
comment says little-endian.

What the tool cannot show is part of the code and excepted in `ToolShowsLog`: a
file without messages (`used_size` 0) is decrypted whole and printed as noise, as
are a gap left by a crash, a tail whose padding was not encrypted, plain text
left by a failed encryption, and messages under another password or none.
`StoredReadable` says that the messages beside such places stay readable.

## Runs

| run | specification | shows | instance |
|---|---|---|---|
| `writer_steps` | `Spec` | `TypeOK`, `MappedIfRecent`, `OneSwitcher` | 2 writers, 3 calls, lengths 0-3, 2 data bytes, counter modulo 5, 3 files, 3 addresses, encrypted |
| `orderly_files` | `OrderlySpec` | `Gapless`, `Sealed`, `SwitchesItsOwnFile` | 2 writers, 3 calls, 2 bytes, 4 files |
| `answers` | `OrderlySpec` | `Intact`, `CallsReturn`, `ImplementsLzLog` | 2 writers, 2 calls, lengths 1-2, 2 bytes, 2 files, 2 addresses, encrypted |
| `directory` | `Spec` | `TypeOK`, `Decryptable`, `UsedCoversData`, `NeverOverwritten`, `OnlyDueFilesGo` | 2 daily files, sizes 1-2, 2 days, 4 inodes, 3 messages |
| `handle` | `CarefulSpec` | `NoFault`, `Disjoint`, `Intact`, `HandleTypeOK`, `UsersMapped`, `ExportHoldsAnswered`, `ExportCutsNoMessage`, `FlushSyncs`, `CloseSyncs` | 2 writers, 2 calls, lengths 1-2, 2 bytes, 3 files; 1 user, 1 call |
| `platform` | `CarefulSpec` | `PlatformTypeOK`, `TakesEffect`, `UsesLive`, `NoneForgotten`, `LinesEnd`, `CleanUpRuns` | 1 owner, 1 caller, 1 cleaner, 2 contexts, levels 1 and 3, a buffer of 8, lines of 7 and 8 |
| `keystream` | `Spec` | `KSTypeOK`, `StoredReadable`, `ToolShowsLog` | blocks of 3, 2 + 2 binary digits, 11 bytes, messages of 3 and 4, 2 passwords, 2 salts |

Why the bounds are enough: with two calls of length up to the data area every
writer can fill a file and overflow it; two writers give every pairing of a
stale pointer with a switch; three addresses let a switch reuse the address of
the file before the last, the first time reuse can hurt, and it takes four files
for a reused address to be current; counters modulo 5 over two bytes wrap after
two failed switches. In the directory two daily numbers are enough to use them
up and come back to 0, with inodes left for one more round. In `handle` the user's
one call is any of the three; two writers give an export both an answered message
behind an unfinished one and a switch in the middle of it. It does not encrypt:
`Intact` for encrypted messages, with encryptions that fail beside them, is checked
in `answers` (where no address can be used again, which `handle` covers) and proved
for every value of the constants; `keystream` checks the encryption itself. In `platform` one caller is enough because callers
write no shared field and cannot affect each other; one owner is all that
`LifeAlone` lets act at a time; two contexts let an address be new or come back;
lines of 7 and 8 are the last that fits the buffer and the first that does not.
In `keystream` messages of 3 and 4 over blocks of 3 begin and end at every place
of a block and span up to three, and four blocks make every binary digit of the
block number carry. The number of opens, failures and crashes has no bound there.

Runs that end in a counterexample, each for something the repository says:

| run | property | what happens |
|---|---|---|
| `stalled_writer` | `NoFault` | two switches during one write unmap the file it writes to (`lz_logger.c:44`) |
| `reopen` | `NewestFileReopens` | a process that dies while creating a file, or after a reservation crossed its end, cannot be followed by an open that day (`DESIGN.md:1136`) |
| `resize` | `NothingLost` | a smaller `max_file_size` makes writes to an existing longer file go behind its mapping (`lz_logger.h:83`) |
| `close_frees` | `StartedCallsEnd` | close frees the context under a write that passed the `is_closed` check (`lz_logger.c:66`) |
| `dart_after_close` | `DartDropsWhenClosed` | a Dart call after a close on Android writes through the freed context: `g_ffi_handle` is never reset (`lz_logger_jni.cpp:395`), while on iOS it is dropped |

More disagreements are known and have no run:

- A writer that waits for `switch_mutex` while two switches reuse the address of
  its file passes the second check (`lz_logger.c:1179`) and replaces a file that
  is not full, against "the second thread finds the switch done"
  (`lz_logger.c:61`): `SwitchesItsOwnFile` fails in `CalmSpec`.
- Calls that fail to switch keep adding to `used_size` until it wraps past 2^32
  and a reservation is granted over earlier messages, against "no logic error
  either" (`lz_logger.c:1142`): `Disjoint` fails in `Spec`.
- Once the numbers of a day are used up every switch deletes number 0, from the
  second time on the newest file (`lz_logger.c:965`, against "Deleted oldest log
  file", `lz_logger.c:973`).
- `lz_logger_open` creates a file number 5 beside 0-4 when number 4 is full
  (`lz_logger.c:690`, against "at most 5", `DESIGN.md:829`).
- Two exports that both unlink `export.log` before one creates it write one
  inode, each with its own `used_size`: both answer SUCCESS for a file that has
  the footer of one inside the data of the other (`lz_logger.c:1570`, against
  "copying the file is an independent operation", `LzLogger.kt:222`). The name
  may also be gone when the first one answers. `ExportsAlone` excludes both.
- A clean-up unlinks the file of the open handle if it is old enough
  (`lz_logger.c:1484`, against `LzLogger.kt:243`).
- The footer of an export has the `file_size` of the mapping (`lz_logger.c:1623-1624`),
  and the tools require there the size of the file they read: `decrypt_log.py:103-105`
  and `decrypt_log.rb:110-113` warn "file size in the footer does not match the real
  file size" about every export but that of a full file.
- An export has a footer (`lz_logger.c:1608-1637`), against "export only the written
  data part (without footer)" (`lz_logger.h:170`).
- `tools/README.md:16-23` puts the salt into the first 16 bytes of a file and no
  file size into the footer, and `tools/README.md:130-133` says that the data begins
  at offset 16 and "decryption has to set `offset=16`". The library puts the data
  at 0, and the salt and both sizes into the footer (`lz_logger.c:347-390`), and both
  tools read it so, with offset 0 (`decrypt_log.py:147`). A reader written
  after that text shows noise. `ToolShowsLog` is about the tool, not the text.
- "Each log file uses a random salt" (`tools/README.md:138`): a switch copies the
  salt of the file before (`lz_logger.c:1016-1017`) and keeps the key, so all files
  of a handle are encrypted with the same key stream. That no key-stream byte is
  used twice holds within one file only.
- `DESIGN.md:322-326` closes the Android log in `onStop`; the code does it in
  `onDestroy`, which `ProcessLifecycleOwner` never dispatches.

What the properties' hypotheses exclude is covered by none of them, and is either in
the list above or left to the callers: a counter that wraps (`CalmSpec`); slot 0 of
a used-up day and a clean-up of the open file, which `OnlyDueFilesGo` excepts; calls
that overlap a close (`ClosesAlone`, `Drained`), two life-cycle calls at once
(`LifeAlone`) and two exports at once (`ExportsAlone`).

Each passing property is also run against a small change of the model that a
slip in the code would make; the operators marked `bug:` are these changes.

## Proofs

`LzLoggerProofs` holds for any sets of writers and addresses and any sizes and
bounds that satisfy the assumptions of `LzLogger`: the data area is not empty and
smaller than the counter's range, lengths fit a `uint32_t`, and the names for
"none" are not members of what they stand beside.

- **`TypeCorrect`, `MutualExclusion`, `DelayedMunmap`** (`Spec`). The invariant
  `HandleInv` adds to the three properties that a writer inside a call has a real
  pointer (`InCall`), and where the current, the replaced and the prepared
  mapping are at each point of a switch (`Mappings`). `DelayedMunmap` needs it:
  that `Retire` unmaps only what was replaced one switch earlier rests on
  `old_offset_ptr` naming exactly file `gen - 2` at that moment, which rests on
  the mutex. One step lemma per conjunct, one case per action.
- **`MemorySafety`, `ReservationsDisjoint`** (`CalmSpec`). `CalmInv` adds that
  reservations end below their file's counter (`Accounted`) and that a writer
  that was granted a span was granted it inside the data area (`Granted`).
- **`AnsweredIntact`** (`CalmSpec`). A writer copies and encrypts inside its own
  reservation (`Ticketed`), a message has one reservation and is answered after
  its last step (`OnePerCall`), the zeroed tail lies behind every reservation of
  a file that takes no more (`TailFree`), and between copy and encryption the
  plain text is in place (`Copied`). `OthersKeepTheirBytes` puts them together:
  no step of a writer touches a byte of another's reservation.
- **`OneLog`** (`Spec`). `LzLogger` implements `LzLog`, with the refinement
  mapping of `Abs`: each step is one of `LzLog`'s or changes nothing it sees.

`LzOrderlyProofs` goes on from `CalmInv` for the behaviours of `OrderlySpec`; its
fairness is not used.

- **`OwnFileReplaced`**. The second check under the mutex compares addresses, and
  addresses come back. `RecentMapped`: a pointer kept during a call leads to its
  file until that was replaced twice. `QueueRecent`: whoever waits for the mutex
  is overtaken by two switches at most, and whoever is at the second check is not
  behind a waiter in age (this is where `OldestFirst` enters). `NotRecycled`: the
  address of one of the last two files is therefore not yet given to the current
  one, so equal pointers mean equal files.
- **`ReplacedFilesFull`**. From its overflow to the end of the switch a writer's
  file has a counter beyond the end (`Overflowed`), which is never rolled back.
- **`NoGaps`**. The current file is empty, and the last reservation is in the file
  before it, or ends with the last reservation (`LogEndsHere`); a fresh file is
  empty when it is published (`NextIsEmpty`), and only a message that could fit
  (`LengthChecked`) is ever reserved, so a fresh file takes it.

`LzRotationProofs` holds for any sizes, days, retentions, inodes and numbers of
messages that satisfy `RotationAssumption`.

- **`DirectoryTypes`, `FilesDecryptable`, `CounterCoversData`** (`Spec`). `DirInv` adds
  to the three properties that an inode not yet created holds nothing
  (`PoolBlank`), that the file under creation is the last inode and empty at each
  point where the process can die (`NewFileBlank`), that the handle's file is
  another one (`HandleFile`), that on a file of its own size the handle's salt is
  the footer's and off it no switch starts (`HandleInTune`), and that a counter
  stands at most one past the end (`CounterBounded`). `Decryptable` needs
  `UsedCoversData`: an open replaces the salt only of a file whose `used_size` is
  0, which then holds no message.
- **`StoredBytesStay`, `NamesStayUntilDue`** (`Spec`), action properties from the same
  invariant; the second rests on what `find_latest_log_number` answers
  (`LatestSlot`).

`LzHandleProofs` holds for any sets of writers and users. Its steps of writers are
calm steps of `LzLogger` (`WriterIsCalm`), so `ContentInv` is an invariant here too
and `WritersUndisturbed` follows. `CarefulInv` adds, for a user inside a call:

- **`UsersKeepTheirFile`, `NoUseAfterFree`**. Its pointer leads to its file until that
  was replaced twice (`UsersRecent`), the replaced mapping is there whenever no
  switch is between the two (`OldKept`), and a context is freed only when nobody is
  inside (`LifeCycle`).
- **`ExportComplete`, `ExportWellFormed`**. The `used_size` an export read ends
  between two reservations and behind every message answered before
  (`SizedBetween`), and it is what the tool takes; what it has copied of those messages so far is what is in the
  file (`OutputSoFar`, which needs `Intact`: the copy is taken while others write).
- **`FlushReachesDisk`, `CloseReachesDisk`**. Answered messages are not written again,
  so what an `msync` covered stays covered; `SyncedByClose` follows the two files
  through the steps of a close.

- **`OneLogBesideUsers`** (`HSpec`). Callers who are not careful do not touch the log
  either: `LzHandle` implements `LzLog` whatever exports, flushes and closes come when.
  A call that finds the handle closed is one that `LzLog` refuses; going through memory
  that is gone stops the model before anything is answered.

The three conditions of `CarefulSpec` (`Careful`: nobody overtaken by two switches,
close alone, exports one at a time) are hypotheses of all but the last; each is
needed, as the counterexamples above show.

`LzPlatformProofs` holds for any sets of owners, callers, cleaners and contexts,
any levels from 0 to 5, any buffer of more than five bytes and any lengths. Its
theorems stand on one another in this order:

- **`PlatformTypes`, `LinesAreWhole`** (`Spec`). `PlaceInv` says at which program
  points each kind of thread can be, where its log call goes on, and what its
  locals hold there: a level on its way to `g_ffi_log_level` is one that was set,
  a line on its way out is whole. Every step but one takes its thread to such a
  place with such locals (`Lands`); `LandingHolds` draws the conclusion once, and
  `StartCleanerLands` is the step that moves two threads.
- **`NoContextForgotten`** (`ConsiderateSpec`). `LifeInv`: outside a life-cycle
  call the fields and the open contexts agree (`Settled`); inside one they part in
  the way its program point tells (`Stage`). `LifeAlone` is what makes the point
  of one owner enough.
- **`NoUseAfterClose`** (`CarefulSpec`). A call keeps a handle over several steps.
  `FetchedIsLive`: a call under way keeps every close from its first step
  (`Drained`), so the handle it fetches is of an open context; `TakesLive` adds
  the Dart calls, which fetch `g_ffi_handle` (`DartInv`, `DartWaits`); only
  `CloseNative` takes a context away, and it waits for them.
- **`CallsTakeEffect`** (`CarefulSpec`). `CopyInv`: the FFI globals equal the fields
  whenever no life-cycle call is between the two (`Handed`). `Known`: at each
  point of a call, the answers its tests can still lead to are among those that
  were right (`Verdicts`). With it a call that passed the level filter may be
  overtaken by `setLogLevel` and is still right about an earlier moment.

`LzKeyStreamProofs` holds for any block size, radix, number of digits, file size,
lengths, passwords and salts that satisfy `KeyStreamAssumption` and
`BlocksAssumption`. It needs what recursive functions compute at every length:
`Induction` is the principle for a set of naturals, from `WFMin` of the library (a
set without a least element is empty), and `OrbitExists` and `OrbitUnique` say that
a recursive list exists and is the only one.

- **`PiecesOfOneStream`**, about operators only. `Carry`: adding one to a block number
  changes a digit exactly when all behind it are full, hence `IncrementIV`: what the
  cipher makes of the counter of a block is the counter of the next. So the stream
  started at any offset is the one started at 0 (`StreamAt`), whatever carries lie
  between.
- **`KeyStreamTyped`** (`Spec`). Two blocks with one counter would have the same digits
  and be one block (`CountersDiffer`): within a file no key-stream byte is used twice
  under a key.
- **`AnsweredReadable`, `ToolShowsWholeLog`** (`Spec`). `KeyStreamInv`: messages lie one
  behind the other (`MessagesInOrder`), the range under way is plain until it is
  encrypted (`CopiedPlain`), an answered byte is its plain byte under the one
  stream byte of its place, its password and the salt of the file
  (`AnsweredCiphered`); that the salt is replaced only at `used_size` 0 keeps it so.
  Unless a call failed or was cut off, the messages leave no gap (`Filled`) and the
  padding is encrypted zeros (`PaddedZero`), so stripping zeros ends exactly behind
  the last message (`ToolShows`).

Only model-checked: `CallsReturn` and `CleanUpRuns`, liveness under fairness, which is
out of the prover's reach. Every invariant and every other action property of the
passing runs is proved.

Fairness: `OrderlySpec` as above. `CarefulSpec` of `LzPlatform` has weak fairness
for threads inside a life-cycle call, which need only be run, and strong
fairness for the clean-up threads: `Drained` makes them wait for a close
to end, again and again, and a scheduler that runs a thread at all lets it pass
between two closes.

## Not modelled

Tests, benchmarks, `verify_log_sequence.c` and the example application use the
library and are not part of it. In the modelled parts: the contents of messages
and their formatting, `localtime`, directories that cannot be read, error codes
beyond success and failure, `JNI_OnLoad` and the attaching of threads to the
JVM, memory orders weaker than sequential consistency in the platform layers,
and a machine (rather than a process) that goes down.

## Plan

1. `LzLogger`, `LzLog`, `LzHandle`, `LzRotation`, `LzPlatform`, `LzKeyStream`,
   their runs, and the proofs above: done.
2. Next: what `LzKeyStream` adds to `LzRotation` (salts and keys) and to `LzLogger`
   (`mask`) stated as refinements.

## Running

    tlc -config MCSteps.cfg MCLzLogger
    tlapm LzLoggerProofs.tla
    tlapm LzOrderlyProofs.tla
    tlapm LzHandleProofs.tla
    tlapm LzRotationProofs.tla
    tlapm LzPlatformProofs.tla
    tlapm LzKeyStreamProofs.tla
