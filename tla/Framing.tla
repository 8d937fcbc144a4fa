------------------------------- MODULE Framing -------------------------------
(***************************************************************************)
(* The size prefix every message of the project carries: four bytes in     *)
(* network order, then that many bytes of protobuf.  The kernel modules    *)
(* read the prefix into a C int, so half of its values turn negative.      *)
(*                                                                         *)
(* A frame is a record [len, msg]: the value of the prefix and the message *)
(* the bytes after it encode.                                              *)
(***************************************************************************)
EXTENDS Integers

CONSTANTS BUFFER_SIZE,  \* the module's BUFFER_SIZE: 1024 netfilter, 128 UDP
          INT_MAX       \* greatest C int; TLC's own integers force a small one

ASSUME FramingAssumption ==
  /\ INT_MAX \in Nat
  /\ BUFFER_SIZE \in 1..INT_MAX

UINT_MAX == 2 * INT_MAX + 1

\* int size = (uint32_t) ntohl(...): the bit pattern is kept, the sign is not
AsInt(u) == IF u > INT_MAX THEN u - (UINT_MAX + 1) ELSE u

\* extract_message_size takes what fits the buffer and answers -1 otherwise.
ExtractMessageSize(prefix) ==
  LET size == AsInt(prefix)
  IN  IF size < BUFFER_SIZE THEN size ELSE -1

FrameType(Msg) == [len : 0..UINT_MAX, msg : Msg]

=============================================================================
