--------------------------- MODULE DecodingProofs ---------------------------
(***************************************************************************)
(* Proofs about Decoding for any messages, of any length and nesting the   *)
(* protos allow, and any workspace.  What the loops of the generated code  *)
(* leave is proved in MessageCodecProofs; here it is carried to the states *)
(* of the specification.                                                   *)
(***************************************************************************)
EXTENDS Decoding, MessageCodecProofs

\* decoded and encoded are what the generated functions make of the message.
DecodedInv == decoded # NULL => decoded = DecodeMessage(proto, wire, heap)

EncodedInv ==
  encoded # NULL =>
    /\ decoded # NULL /\ ~decoded.aborted
    /\ encoded = EncodeMessage(proto, decoded.msg)

IInv ==
  /\ proto \in Protos
  /\ wire \in IF proto = "address_book" THEN Books ELSE Foos
  /\ heap \in Heaps
  /\ DecodedInv /\ EncodedInv

\* No message has been decoded or encoded yet.
LEMMA InitInv == Init => IInv
BY DEF Init, IInv, DecodedInv, EncodedInv

\* Decode and Encode set what the generated functions give; nothing changes the
\* message.
LEMMA NextInv == IInv /\ [Next]_vars => IInv'
<1> SUFFICES ASSUME IInv, [Next]_vars
             PROVE  IInv'
  OBVIOUS
<1> USE DEF IInv, DecodedInv, EncodedInv
<1>1. CASE Decode
  BY <1>1 DEF Decode
<1>2. CASE Encode
  BY <1>2 DEF Encode
<1>3. CASE UNCHANGED vars
  BY <1>3 DEF vars
<1> QED
  BY <1>1, <1>2, <1>3 DEF Next

\* IInv is an invariant of decoding and encoding.
LEMMA Invariance == Spec => []IInv
BY InitInv, NextInv, PTL DEF Spec

-----------------------------------------------------------------------------
\* What was decoded

\* Any of the three protos: a message is decoded to its end exactly if it is
\* well typed and has the workspace it needs, and then to what it means.
LEMMA MessageDecoded ==
  ASSUME IInv
  PROVE  LET d == DecodeMessage(proto, wire, heap)
         IN  IF WellTyped(proto, wire) /\ Need(proto, wire) <= heap
             THEN d.aborted = FALSE /\ d.msg = Meaning(proto, wire)
             ELSE d.aborted = TRUE
<1> DEFINE d == DecodeMessage(proto, wire, heap)
<1>1. heap \in Nat /\ heap \in Heaps
  BY DecodingAssumption DEF IInv
<1>2. \A msg, rest : At(msg, rest).aborted = FALSE /\ At(msg, rest).msg = msg
  BY DEF At, State, NotAborted
<1>3. CASE proto = "address_book"
  <2>1. wire \in BookFields
    BY <1>3, DecodingAssumption DEF IInv
  <2>2. /\ d = DecodeBook(wire, heap) /\ Meaning(proto, wire) = BookMeaning(wire)
        /\ Need(proto, wire) = BookNeed(wire) /\ (WellTyped(proto, wire) <=> BookTyped(wire))
    BY <1>3 DEF DecodeMessage, Meaning, Need, WellTyped
  <2>3. IF BookTyped(wire) /\ BookNeed(wire) <= heap
        THEN d = At(BookMeaning(wire), heap - BookNeed(wire)) ELSE d.aborted = TRUE
    BY <1>1, <2>1, <2>2, BookDecoded
  <2> HIDE DEF d
  <2>4. IF BookTyped(wire) /\ BookNeed(wire) <= heap
        THEN d.aborted = FALSE /\ d.msg = BookMeaning(wire) ELSE d.aborted = TRUE
    BY <1>2, <2>3
  <2> QED
    BY <2>2, <2>4 DEF d
<1>4. ASSUME NEW w \in {VARINT, I32}, proto # "address_book",
             d = DecodeFoo(w, wire, heap), WellTyped(proto, wire) <=> Typed(wire, <<w>>)
      PROVE  IF WellTyped(proto, wire) /\ Need(proto, wire) <= heap
             THEN d.aborted = FALSE /\ d.msg = Meaning(proto, wire) ELSE d.aborted = TRUE
  <2>1. wire \in ScalarFields
    BY <1>4, DecodingAssumption DEF IInv
  <2>2. Need(proto, wire) <= heap /\ Meaning(proto, wire) = FooMeaning(wire)
    BY <1>1, <1>4 DEF Need, Meaning
  <2>3. IF Typed(wire, <<w>>)
        THEN d = At(FooMeaning(wire), heap) ELSE d.aborted = TRUE
    BY <1>1, <1>4, <2>1, FooDecoded DEF ScalarFields
  <2> HIDE DEF d
  <2>4. IF Typed(wire, <<w>>)
        THEN d.aborted = FALSE /\ d.msg = FooMeaning(wire) ELSE d.aborted = TRUE
    BY <1>2, <2>3
  <2> QED
    BY <1>4, <2>2, <2>4
<1>5. CASE proto = "hello_world"
  <2>1. d = DecodeFoo(VARINT, wire, heap) /\ (WellTyped(proto, wire) <=> Typed(wire, <<VARINT>>))
    BY <1>5 DEF DecodeMessage, WellTyped
  <2> HIDE DEF d
  <2>2. IF WellTyped(proto, wire) /\ Need(proto, wire) <= heap
        THEN d.aborted = FALSE /\ d.msg = Meaning(proto, wire) ELSE d.aborted = TRUE
    BY <1>4, <1>5, <2>1
  <2> QED
    BY <2>2 DEF d
<1>6. CASE proto = "floats"
  <2>1. d = DecodeFoo(I32, wire, heap) /\ (WellTyped(proto, wire) <=> Typed(wire, <<I32>>))
    BY <1>6 DEF DecodeMessage, WellTyped
  <2> HIDE DEF d
  <2>2. IF WellTyped(proto, wire) /\ Need(proto, wire) <= heap
        THEN d.aborted = FALSE /\ d.msg = Meaning(proto, wire) ELSE d.aborted = TRUE
    BY <1>4, <1>6, <2>1
  <2> QED
    BY <2>2 DEF d
<1> QED
  BY <1>3, <1>5, <1>6 DEF IInv, Protos

\* What a message needs and what the workspace has are numbers to compare.
LEMMA NeedNat ==
  ASSUME IInv
  PROVE  Need(proto, wire) \in Nat /\ heap \in Nat
<1>1. heap \in Nat
  BY DecodingAssumption DEF IInv
<1>2. ASSUME proto = "address_book"
      PROVE  BookNeed(wire) \in Nat
  <2>1. wire \in BookFields
    BY <1>2, DecodingAssumption DEF IInv
  <2> QED
    BY <1>1, <2>1, BookDecoded
<1> QED
  BY <1>1, <1>2 DEF Need

\* The decode_inner functions take the last of repeated scalar fields and all
\* items of a repeated one in order, wherever they stand among the others.
THEOREM MeaningDecoded == Spec => []DecodesMeaning
<1>1. IInv => DecodesMeaning
  BY MessageDecoded DEF IInv, DecodedInv, DecodesMeaning
<1> QED
  BY <1>1, Invariance, PTL

\* The decode_inner functions abort for a wrong wire type and for want of
\* workspace, and for nothing else.
THEOREM CausesOfAborts == Spec => []AbortsForCause
<1>1. IInv => AbortsForCause
  <2> SUFFICES ASSUME IInv, decoded # NULL
               PROVE  decoded.aborted <=> ~WellTyped(proto, wire) \/ Need(proto, wire) > heap
    BY DEF AbortsForCause
  <2>1. decoded = DecodeMessage(proto, wire, heap)
    BY DEF IInv, DecodedInv
  <2>2. Need(proto, wire) > heap <=> ~(Need(proto, wire) <= heap)
    BY NeedNat
  <2> QED
    BY <2>1, <2>2, MessageDecoded
<1> QED
  BY <1>1, Invariance, PTL

\* decode_inner of AddressBook leaves decoded persons, one in part, and then
\* persons that are initialised, whatever the message and the workspace.
THEOREM AbortedBooksArePrefixes == Spec => []AbortedBookIsPrefix
<1>1. IInv => AbortedBookIsPrefix
  <2> SUFFICES ASSUME IInv, decoded # NULL, proto = "address_book", decoded.aborted
               PROVE  AbortedBookIsPrefix
    BY DEF AbortedBookIsPrefix
  <2> DEFINE people == decoded.msg.people
             subs == Subs(wire, 1)
             full == BookMeaning(wire).people
  <2>1. wire \in BookFields /\ heap \in Nat
    BY DecodingAssumption DEF IInv
  <2>2. decoded = DecodeBook(wire, heap)
    BY DEF IInv, DecodedInv, DecodeMessage
  <2>3. BookPartial(wire, people)
    <3>1. IF BookTyped(wire) /\ BookNeed(wire) <= heap
          THEN decoded = At(BookMeaning(wire), heap - BookNeed(wire))
          ELSE BookPartial(wire, people)
      BY <2>1, <2>2, BookDecoded
    <3>2. \A msg, rest : ~At(msg, rest).aborted
      BY DEF At, State, NotAborted
    <3> QED
      BY <3>1, <3>2
  <2>4. /\ subs \in Seq(PersonFields) /\ Len(full) = Len(subs)
        /\ \A k \in 1..Len(subs) : full[k] = PersonMeaning(subs[k])
    BY <2>1, SubsAreItems, BookMeant DEF BookFields
  <2> HIDE DEF people, full
  <2>5. ASSUME NEW k \in 1..Len(full), PersonPartial(subs[k], people[k])
        PROVE  \/ people[k].phones = <<>>
               \/ /\ Len(people[k].phones) = Len(full[k].phones)
                  /\ people[k] = [full[k] EXCEPT !.phones = people[k].phones]
    <3>1. subs[k] \in PersonFields /\ full[k] = PersonMeaning(subs[k])
      BY <2>4
    <3>2. Len(full[k].phones) = Len(Subs(subs[k], 4))
      BY <3>1, PersonMeant
    <3> QED
      BY <2>5, <3>1, <3>2 DEF PersonPartial
  <2>6. CASE people = <<>>
    BY <2>6 DEF AbortedBookIsPrefix, people
  <2>7. CASE people # <<>>
    <3>1. Len(people) = Len(full) /\ DOMAIN people = 1..Len(full)
      BY <2>3, <2>7 DEF BookPartial, full
    <3>2. PICK k \in 1..Len(full) :
            /\ \A i \in 1..(k - 1) : people[i] = full[i]
            /\ \A i \in (k + 1)..Len(people) : people[i] = PersonInit
            /\ PersonPartial(subs[k], people[k])
      BY <2>3, <2>7, <3>1 DEF BookPartial, full
    <3> QED
      BY <2>5, <3>1, <3>2 DEF AbortedBookIsPrefix, people, full
  <2> QED
    BY <2>6, <2>7
<1> QED
  BY <1>1, Invariance, PTL

-----------------------------------------------------------------------------

\* What encode_inner writes, decode_inner reads: the same message, in the
\* workspace that was enough for the one it came from.
THEOREM DecodeInvertsEncode == Spec => []RoundTrip
<1>1. IInv => RoundTrip
  <2> SUFFICES ASSUME IInv, encoded # NULL
               PROVE  LET again == DecodeMessage(proto, encoded, heap)
                      IN  ~again.aborted /\ again.msg = decoded.msg
    BY DEF RoundTrip
  <2> DEFINE again == DecodeMessage(proto, encoded, heap)
             mean == Meaning(proto, wire)
  <2>1. decoded = DecodeMessage(proto, wire, heap) /\ ~decoded.aborted
    BY DEF IInv, DecodedInv, EncodedInv
  <2>2. /\ WellTyped(proto, wire) /\ Need(proto, wire) <= heap
        /\ decoded.msg = mean
    BY <2>1, MessageDecoded
  <2>3. encoded = EncodeMessage(proto, mean)
    BY <2>2 DEF IInv, EncodedInv
  <2>4. heap \in Nat /\ Need(proto, wire) \in Nat
    BY NeedNat
  <2>5. \A msg, rest : ~At(msg, rest).aborted /\ At(msg, rest).msg = msg
    BY DEF At, State, NotAborted
  <2>6. CASE proto = "address_book"
    <3>1. wire \in BookFields
      BY <2>6, DecodingAssumption DEF IInv
    <3>2. mean = BookMeaning(wire) /\ Need(proto, wire) = BookNeed(wire)
      BY <2>6 DEF Meaning, Need
    <3>3. encoded = EncodeBook(mean) /\ again = DecodeBook(encoded, heap)
      BY <2>3, <2>6 DEF EncodeMessage, DecodeMessage
    <3>4. mean.people \in Seq(Persons) /\ mean = Book(mean.people)
      BY <3>1, <3>2, BookMeant
    <3>5. encoded \in BookFields /\ BookTyped(encoded) /\ BookMeaning(encoded) = mean
      BY <3>3, <3>4, BookEncoded
    <3>6. BookNeed(encoded) <= BookNeed(wire)
      BY <3>1, <3>2, <3>3, BookSpaceBound
    <3>7. BookNeed(encoded) \in Nat
      BY <2>4, <3>5, BookDecoded
    <3> HIDE DEF mean
    <3>8. BookNeed(encoded) <= heap
      BY <2>2, <2>4, <3>2, <3>6, <3>7
    <3>9. again = At(mean, heap - BookNeed(encoded))
      <4>1. IF BookTyped(encoded) /\ BookNeed(encoded) <= heap
            THEN DecodeBook(encoded, heap) = At(BookMeaning(encoded), heap - BookNeed(encoded))
            ELSE DecodeBook(encoded, heap).aborted = TRUE
        BY <2>4, <3>5, BookDecoded
      <4> QED
        BY <3>3, <3>5, <3>8, <4>1
    <3> HIDE DEF again
    <3> QED
      BY <2>2, <2>5, <3>9 DEF again
  <2>7. ASSUME NEW w \in {VARINT, I32}, proto # "address_book",
               encoded = EncodeFoo(w, mean), again = DecodeFoo(w, encoded, heap)
        PROVE  ~again.aborted /\ again.msg = decoded.msg
    <3>1. wire \in ScalarFields
      BY <2>7, DecodingAssumption DEF IInv
    <3>2. mean = FooMeaning(wire)
      BY <2>7 DEF Meaning
    <3>3. mean.bar \in Int /\ mean = [bar |-> mean.bar]
      BY <3>1, <3>2, ValueInt DEF FooMeaning, ScalarFields
    <3> HIDE DEF mean
    <3>4. encoded \in ScalarFields /\ Typed(encoded, <<w>>) /\ Value(encoded, 1) = mean.bar
      BY <2>7, <3>3, FooEncoded
    <3>5. FooMeaning(encoded) = mean
      BY <3>3, <3>4 DEF FooMeaning
    <3>6. DecodeFoo(w, encoded, heap) = At(FooMeaning(encoded), heap)
      BY <2>4, <3>4, FooDecoded DEF ScalarFields
    <3> HIDE DEF again
    <3> QED
      BY <2>2, <2>5, <2>7, <3>5, <3>6
  <2>8. CASE proto = "hello_world"
    <3>1. encoded = EncodeFoo(VARINT, mean) /\ again = DecodeFoo(VARINT, encoded, heap)
      BY <2>3, <2>8 DEF EncodeMessage, DecodeMessage
    <3> QED
      BY <2>7, <2>8, <3>1
  <2>9. CASE proto = "floats"
    <3>1. encoded = EncodeFoo(I32, mean) /\ again = DecodeFoo(I32, encoded, heap)
      BY <2>3, <2>9 DEF EncodeMessage, DecodeMessage
    <3> QED
      BY <2>7, <2>9, <3>1
  <2> QED
    BY <2>6, <2>8, <2>9 DEF IInv, Protos
<1> QED
  BY <1>1, Invariance, PTL

=============================================================================
