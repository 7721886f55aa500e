----------------------------- MODULE LzKeyStream -----------------------------
(***************************************************************************)
(* The encryption of one log file, from lz_logger_open over the writes to  *)
(* the decryption tool: lz_crypto.c, its use by lz_logger.c, and           *)
(* tools/decrypt_log.py.                                                   *)
(*                                                                         *)
(* lz_logger_write encrypts each message where it lies, starting the       *)
(* AES-CTR counter at the block its offset is in; the tool reads the whole *)
(* file in one pass from offset 0 with one password.  The two agree only   *)
(* if every start inside a block, every carry of the counter, the salt of  *)
(* the footer and the padding before a file switch fit together.  The salt *)
(* is in the footer and the data starts at 0, as in the code of both; the  *)
(* format that tools/README.md describes is another.                       *)
(*                                                                         *)
(* A byte is the plain byte it stands for and the key-stream bytes XORed   *)
(* onto it (a set: XOR of the same byte twice is no XOR).  A key-stream    *)
(* byte is its key, counter block and place in the block, all different.   *)
(* One writer at a time: writers of one file touch ranges of their own     *)
(* (LzLogger's Disjoint) and share only key and salt, which no write sets. *)
(***************************************************************************)
EXTENDS Integers, Sequences, FiniteSets

CONSTANTS Block,        \* LZ_CRYPTO_BLOCK_SIZE, 16
          Half,         \* digits of a block number: half of a counter's, 8
          Radix,        \* values of a digit, 256
          DataSize,     \* bytes before the footer
          Lens,         \* lengths of messages
          Passwords, NoPassword,
          Salts, NoSalt \* random salts, and the zeros of a new file

ASSUME KeyStreamAssumption ==
    /\ {Block, Half, DataSize} \subseteq Nat \ {0} /\ Radix \in Nat /\ Radix > 1
    /\ Lens \subseteq 1..DataSize
    /\ NoPassword \notin Passwords /\ NoSalt \notin Salts

VARIABLES used, salt, data,     \* the file: used_size and salt of the footer, data area
          key,                  \* of crypto_ctx; NoKey: not is_initialized
          pw,                   \* encrypt_key of the context that has the file open
          pc, off, len,         \* the call under way, and the range it works on
          msgs,                 \* history: messages copied to the file
          pws, spoiled          \* history: passwords written under; a call failed or was cut off

file == <<used, salt, data>>
history == <<msgs, pws, spoiled>>
vars == <<file, key, pw, pc, off, len, history>>

Digits == 2 * Half
NoKey == <<>>
Zero == <<0, 0>>                \* the plain zero byte
Plain(b) == [is |-> b, under |-> {}]

-----------------------------------------------------------------------------
(* The key stream. *)

\* A block number without its n last digits: a shift to the right.
Shift(block, n) ==
    LET shifted[i \in 0..n] == IF i = 0 THEN block ELSE shifted[i - 1] \div Radix
    IN  shifted[n]

\* bug: the block number is put into its lowest digit whole.
IVWhole(block) == [d \in 1..Digits |-> IF d = Digits THEN block ELSE 0]

\* The initial counter: zeros, then the block number, most significant digit first.
IV(block) == [d \in 1..Digits |->
                IF d > Half THEN Shift(block, Digits - d) % Radix ELSE 0]

\* Every block number of the file has Half digits at most: 64 bits in the code.
ASSUME BlocksAssumption == Shift((DataSize - 1) \div Block, Half) = 0

\* What the cipher does to its counter between two blocks.
Increment(c) == [d \in 1..Digits |->
                    IF \A e \in (d + 1)..Digits : c[e] = Radix - 1 THEN (c[d] + 1) % Radix ELSE c[d]]

\* Byte number j of the stream of a cipher started at counter iv.
StreamByte(k, iv, j) ==
    LET counter[n \in 0..(j \div Block)] == IF n = 0 THEN iv ELSE Increment(counter[n - 1])
    IN  <<k, counter[j \div Block], j % Block>>

\* bug: the bytes of the block before offset are not dropped.
ProcessFromBlock(k, byte, offset, i) ==
    LET s == StreamByte(k, IV(offset \div Block), i)
    IN  IF s \in byte.under THEN [byte EXCEPT !.under = @ \ {s}]
                            ELSE [byte EXCEPT !.under = @ \cup {s}]

\* lz_crypto_process on the byte at offset + i of a piece that starts at offset:
\* the cipher starts at the block of offset and drops the bytes before it.
Process(k, byte, offset, i) ==
    LET s == StreamByte(k, IV(offset \div Block), (offset % Block) + i)
    IN  IF s \in byte.under THEN [byte EXCEPT !.under = @ \ {s}]
                            ELSE [byte EXCEPT !.under = @ \cup {s}]

DeriveKey(p, s) == <<p, s>>

-----------------------------------------------------------------------------
(* lz_logger_open and lz_logger_close. *)

Init == /\ used = 0 /\ salt = NoSalt
        /\ data = [x \in 0..(DataSize - 1) |-> Plain(Zero)]
        /\ key = NoKey /\ pw = NoPassword
        /\ pc = "closed" /\ off = 0 /\ len = 0
        /\ msgs = <<>> /\ pws = {} /\ spoiled = FALSE

\* bug: every open of a file writes a new salt.
SaltAtEveryOpen == Salts

\* The salt an open goes on with: a new one in an empty file, else the one that is there.
SaltAtOpen == IF used = 0 THEN Salts ELSE {salt}

OpenPlain == /\ pc = "closed" /\ used < DataSize
             /\ pc' = "open" /\ key' = NoKey /\ pw' = NoPassword
             /\ UNCHANGED <<file, off, len, history>>

OpenEncrypted(p) == /\ pc = "closed" /\ used < DataSize
                    /\ salt' \in SaltAtOpen
                    /\ key' = DeriveKey(p, salt') /\ pw' = p /\ pc' = "open"
                    /\ UNCHANGED <<used, data, off, len, history>>

\* Key derivation fails after the new salt is in the file; or no salt is generated.
OpenFails == /\ pc = "closed" /\ used < DataSize
             /\ salt' \in SaltAtOpen \cup {salt}
             /\ UNCHANGED <<used, data, key, pw, pc, off, len, history>>

\* A full file stays as it is (whether this open takes the next number or fails,
\* as it does when used_size is past the end, is LzRotation's).
OpenPassesBy == pc = "closed" /\ used >= DataSize /\ UNCHANGED vars

Shut == pc' = "closed" /\ key' = NoKey /\ pw' = NoPassword
        /\ UNCHANGED <<file, off, len, msgs, pws>>

Close == pc \in {"open", "full"} /\ Shut /\ UNCHANGED spoiled

\* The process ends anywhere; what is in the mapping stays in the file.
Crash == pc # "closed" /\ Shut /\ spoiled' = (spoiled \/ pc \notin {"open", "full"})

-----------------------------------------------------------------------------
(* lz_logger_write. *)

\* XORs the key stream onto the range, in place.
Encrypted == [x \in DOMAIN data |-> IF x \in off..(off + len - 1)
                                    THEN Process(key, data[x], off, x - off) ELSE data[x]]

Reserve(n) == /\ pc = "open" /\ used + n <= DataSize
              /\ used' = used + n /\ off' = used /\ len' = n
              /\ pc' = "copy"
              /\ UNCHANGED <<salt, data, key, pw, history>>

Copy == /\ pc = "copy"
        /\ data' = [x \in DOMAIN data |-> IF x \in off..(off + len - 1)
                                          THEN Plain(<<Len(msgs) + 1, x - off>>) ELSE data[x]]
        /\ msgs' = Append(msgs, [off |-> off, len |-> len, pw |-> pw, ok |-> key = NoKey])
        /\ pws' = pws \cup {pw}
        /\ pc' = IF key = NoKey THEN "open" ELSE "encrypt"
        /\ UNCHANGED <<used, salt, key, pw, off, len, spoiled>>

Encrypt == /\ pc = "encrypt"
           /\ data' = Encrypted
           /\ msgs' = [msgs EXCEPT ![Len(msgs)].ok = TRUE]
           /\ pc' = "open"
           /\ UNCHANGED <<used, salt, key, pw, off, len, pws, spoiled>>

\* The call answers an error; the plain bytes stay.
EncryptFails == /\ pc = "encrypt"
                /\ pc' = "open" /\ spoiled' = TRUE
                /\ UNCHANGED <<file, key, pw, off, len, msgs, pws>>

\* bug: the padding is as long as the message, not as the rest of the area.
OverflowPadsMessage(n) ==
    /\ pc = "open" /\ used + n > DataSize
    /\ used' = used + n /\ off' = used /\ len' = n
    /\ pc' = IF used < DataSize THEN "pad" ELSE "full"
    /\ UNCHANGED <<salt, data, key, pw, history>>

\* No room: the rest of the area is padded, and the writers go on in another file.
Overflow(n) == /\ pc = "open" /\ used + n > DataSize
               /\ used' = used + n /\ off' = used
               /\ len' = IF used < DataSize THEN DataSize - used ELSE 0
               /\ pc' = IF used < DataSize THEN "pad" ELSE "full"
               /\ UNCHANGED <<salt, data, key, pw, history>>

Pad == /\ pc = "pad"
       /\ data' = [x \in DOMAIN data |-> IF x >= off THEN Plain(Zero) ELSE data[x]]
       /\ pws' = pws \cup {pw}
       /\ pc' = IF key = NoKey THEN "full" ELSE "encrypt_pad"
       /\ UNCHANGED <<used, salt, key, pw, off, len, msgs, spoiled>>

EncryptPad == /\ pc = "encrypt_pad"
              /\ data' = Encrypted
              /\ pc' = "full"
              /\ UNCHANGED <<used, salt, key, pw, off, len, history>>

\* The answer of this call of encrypt_data is not looked at.
EncryptPadFails == /\ pc = "encrypt_pad"
                   /\ pc' = "full" /\ spoiled' = TRUE
                   /\ UNCHANGED <<file, key, pw, off, len, msgs, pws>>

Next == \/ OpenPlain \/ \E p \in Passwords : OpenEncrypted(p)
        \/ OpenFails \/ OpenPassesBy \/ Close \/ Crash
        \/ \E n \in Lens : Reserve(n) \/ Overflow(n)
        \/ Copy \/ Encrypt \/ EncryptFails \/ Pad \/ EncryptPad \/ EncryptPadFails

Spec == Init /\ [][Next]_vars

-----------------------------------------------------------------------------
(* The decryption tool. *)

\* bug: the bytes past used_size are taken too.
ClipNothing == DataSize

\* read_log_file: how many bytes of the data area are taken.
Clip == IF 0 < used /\ used < DataSize THEN used ELSE DataSize

\* remove_trailing_zeros: what is left of n bytes.
Stripped(bytes, n) ==
    LET last == {x \in 0..(n - 1) : bytes[x] # Plain(Zero)
                                     /\ \A y \in (x + 1)..(n - 1) : bytes[y] = Plain(Zero)}
    IN  {x \in 0..(n - 1) : \E y \in last : x <= y}

\* decrypt_log_file, as a function from the places that are written out.
ToolOutput(p) ==
    LET clear == [x \in 0..(Clip - 1) |-> Process(DeriveKey(p, salt), data[x], 0, x)]
    IN  [x \in Stripped(clear, Clip) |-> clear[x]]

-----------------------------------------------------------------------------
(* Properties. *)

\* The counter of every block of the file is a counter (each digit in range, and
\* no two blocks of this file share one; another file of the handle has the same
\* key and the same counters), and the file and the call under way are well formed.
KSTypeOK ==
    /\ \A b \in 0..((DataSize - 1) \div Block) :
          /\ IV(b) \in [1..Digits -> 0..(Radix - 1)]
          /\ \A c \in 0..(b - 1) : IV(b) # IV(c)
    /\ used \in Nat /\ salt \in Salts \cup {NoSalt}
    /\ \A x \in 0..(DataSize - 1) : Cardinality(data[x].under) <= 1
    /\ key = (IF pw = NoPassword THEN NoKey ELSE DeriveKey(pw, salt))
    /\ pc \in {"closed", "open", "copy", "encrypt", "pad", "encrypt_pad", "full"}
    /\ off + len <= DataSize \/ pc = "full"
    /\ spoiled \in BOOLEAN /\ pws \subseteq Passwords \cup {NoPassword}

\* Where message number m lies.
Bytes(m) == msgs[m].off..(msgs[m].off + msgs[m].len - 1)

\* A message lz_logger_write answered success for can be read from then on in one
\* pass over the whole file, with the password it was written under (and as it
\* stands, if under none): whatever calls fail beside it, wherever the process
\* ends, and under whatever password the file is opened later.
StoredReadable ==
    \A m \in DOMAIN msgs : msgs[m].ok =>
        \A x \in Bytes(m) :
            Plain(<<m, x - msgs[m].off>>) =
                IF msgs[m].pw = NoPassword THEN data[x]
                ELSE Process(DeriveKey(msgs[m].pw, salt), data[x], 0, x)

\* Where no call failed or was cut off and one password was used, the tool writes
\* out the messages, all of them, in order, and no byte more: the padding and the
\* bytes past used_size are gone.
ToolShowsLog ==
    \A p \in Passwords :
        (pws = {p} /\ ~spoiled /\ pc \in {"closed", "open", "full"}) =>
            ToolOutput(p) = [x \in UNION {Bytes(m) : m \in DOMAIN msgs} |->
                                LET m == CHOOSE m \in DOMAIN msgs : x \in Bytes(m)
                                IN  Plain(<<m, x - msgs[m].off>>)]
=============================================================================
