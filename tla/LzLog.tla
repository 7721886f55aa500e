------------------------------- MODULE LzLog --------------------------------
(***************************************************************************)
(* What lz_logger_write promises its callers: one log, to which every      *)
(* call that is answered SUCCESS appended its message exactly once, at     *)
(* some instant between the call and the answer.  Files, offsets,          *)
(* mappings and the switch mutex do not appear here; LzLogger implements   *)
(* this specification.                                                     *)
(***************************************************************************)
EXTENDS Naturals, Sequences

CONSTANTS Writers,    \* the threads that call lz_logger_write
          MaxCalls    \* calls each of them makes (bound)

VARIABLES stored,   \* messages in the order in which they took their place
          status,   \* status[w] : where w is in its current call
          calls,    \* calls[w]  : calls w has made so far
          acked     \* messages whose call was answered SUCCESS

avars == <<stored, status, calls, acked>>

AInit == /\ stored = <<>>
         /\ status = [w \in Writers |-> "idle"]
         /\ calls = [w \in Writers |-> 0]
         /\ acked = {}

ACall(w) == /\ status[w] = "idle"
            /\ calls[w] < MaxCalls
            /\ status' = [status EXCEPT ![w] = "pending"]
            /\ calls' = [calls EXCEPT ![w] = @ + 1]
            /\ UNCHANGED <<stored, acked>>

\* A call that is refused before it starts (INVALID_PARAM).
ARefuse(w) == /\ status[w] = "idle"
              /\ calls[w] < MaxCalls
              /\ calls' = [calls EXCEPT ![w] = @ + 1]
              /\ UNCHANGED <<stored, status, acked>>

AStore(w) == /\ status[w] = "pending"
             /\ status' = [status EXCEPT ![w] = "stored"]
             /\ stored' = Append(stored, <<w, calls[w]>>)
             /\ UNCHANGED <<calls, acked>>

ASucceed(w) == /\ status[w] = "stored"
               /\ status' = [status EXCEPT ![w] = "idle"]
               /\ acked' = acked \cup {<<w, calls[w]>>}
               /\ UNCHANGED <<stored, calls>>

\* An error answer: the message has no place in the log (FILE_SIZE_EXCEED,
\* FILE_SWITCH), or it has one and could not be encrypted there.
AFail(w) == /\ status[w] # "idle"
            /\ status' = [status EXCEPT ![w] = "idle"]
            /\ UNCHANGED <<stored, calls, acked>>

ANext == \E w \in Writers : \/ ACall(w) \/ ARefuse(w) \/ AStore(w)
                            \/ ASucceed(w) \/ AFail(w)

ASpec == AInit /\ [][ANext]_avars
=============================================================================
