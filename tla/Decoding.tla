------------------------------ MODULE Decoding ------------------------------
(***************************************************************************)
(* One message of one of the protos arrives, is decoded into a workspace,  *)
(* and what came out is encoded again.  The properties compare the         *)
(* generated code with what the fields mean to any protobuf decoder.       *)
(***************************************************************************)
EXTENDS MessageMeaning

CONSTANTS Foos, Books,   \* encoded messages: sequences of fields
          Heaps,         \* bytes of workspace behind the message itself
          NULL

ASSUME DecodingAssumption ==
  Foos \subseteq ScalarFields /\ Books \subseteq BookFields /\ Heaps \subseteq Nat

VARIABLES proto, wire, heap,
          decoded,       \* the state decoding ended in
          encoded        \* decoded encoded again, if it was not aborted

vars == <<proto, wire, heap, decoded, encoded>>

Init ==
  /\ proto \in Protos
  /\ wire \in IF proto = "address_book" THEN Books ELSE Foos
  /\ heap \in Heaps
  /\ decoded = NULL
  /\ encoded = NULL

Decode ==
  /\ decoded = NULL
  /\ decoded' = DecodeMessage(proto, wire, heap)
  /\ UNCHANGED <<proto, wire, heap, encoded>>

Encode ==
  /\ decoded # NULL
  /\ ~decoded.aborted
  /\ encoded = NULL
  /\ encoded' = EncodeMessage(proto, decoded.msg)
  /\ UNCHANGED <<proto, wire, heap, decoded>>

Next == Decode \/ Encode

Spec == Init /\ [][Next]_vars

-----------------------------------------------------------------------------
\* Properties

\* A message decoded to its end is what its fields mean: the last of repeated
\* scalar fields, all items of a repeated one in order, nothing of a field the
\* proto does not know, wherever they stand (the decode_inner loops).
DecodesMeaning ==
  decoded # NULL /\ ~decoded.aborted => decoded.msg = Meaning(proto, wire)

\* Decoding is aborted for a wrong wire type and for want of workspace, and for
\* nothing else; in particular not for fields of a later version of the proto.
AbortsForCause ==
  decoded # NULL =>
    (decoded.aborted <=> ~WellTyped(proto, wire) \/ Need(proto, wire) > heap)

\* What an aborted decoding of a book leaves: persons decoded completely, then
\* at most one in part, then persons as init leaves them.  Whoever reads
\* items_p[0 .. length - 1] reads no uninitialised memory.
AbortedBookIsPrefix ==
  decoded # NULL /\ proto = "address_book" /\ decoded.aborted =>
    LET people == decoded.msg.people
        full == BookMeaning(wire).people
    IN  \/ people = <<>>
        \/ /\ Len(people) = Len(full)
           /\ \E k \in DOMAIN people :
                /\ \A i \in 1..(k - 1) : people[i] = full[i]
                /\ \A i \in (k + 1)..Len(people) : people[i] = PersonInit
                /\ \/ people[k].phones = <<>>
                   \/ /\ Len(people[k].phones) = Len(full[k].phones)
                      /\ people[k] = [full[k] EXCEPT !.phones = people[k].phones]

\* Decoding inverts encoding: what the module encodes, whatever it had decoded
\* it from, is decoded to the same message in the same workspace.
RoundTrip ==
  encoded # NULL =>
    LET again == DecodeMessage(proto, encoded, heap)
    IN  ~again.aborted /\ again.msg = decoded.msg

=============================================================================
