--------------------------- MODULE MessageMeaning ---------------------------
(***************************************************************************)
(* What an encoded message means to any protobuf decoder, how much of the  *)
(* workspace it takes and what types its fields must have.  It is told by  *)
(* the position of the fields and shares nothing with the loops of         *)
(* MessageCodec: this is what the generated code is compared with.         *)
(***************************************************************************)
EXTENDS MessageCodec

\* Fields of a message whose embedded messages are in Sub; those of phone
\* numbers and of Foo have none, and what such a field encodes is never read.
FieldsOver(Sub) ==
  Seq([num : Nat, wire : {VARINT, I64, LEN, I32}, val : Int, sub : Sub])

ScalarFields == FieldsOver({<<>>})
PersonFields == FieldsOver(ScalarFields)
BookFields   == FieldsOver(PersonFields)

-----------------------------------------------------------------------------

Value(fields, num) ==
  LET found == {i \in DOMAIN fields : fields[i].num = num}
  IN  IF found = {} THEN 0 ELSE fields[Max(found)].val

\* The embedded messages numbered num, in order
Subs(fields, num) ==
  LET found == {i \in DOMAIN fields : fields[i].num = num}
      nth(k) == CHOOSE i \in found : Cardinality({j \in found : j <= i}) = k
  IN  [k \in 1..Cardinality(found) |-> fields[nth(k)].sub]

FooMeaning(fields) == [bar |-> Value(fields, 1)]

PhoneMeaning(fields) == [number |-> Value(fields, 1), type |-> Value(fields, 2)]

PersonMeaning(fields) ==
  LET phones == Subs(fields, 4)
  IN  [name |-> Value(fields, 1), id |-> Value(fields, 2), email |-> Value(fields, 3),
       phones |-> [k \in DOMAIN phones |-> PhoneMeaning(phones[k])]]

BookMeaning(fields) ==
  LET people == Subs(fields, 1)
  IN  [people |-> [k \in DOMAIN people |-> PersonMeaning(people[k])]]

Meaning(proto, fields) ==
  IF proto = "address_book" THEN BookMeaning(fields) ELSE FooMeaning(fields)

-----------------------------------------------------------------------------
\* The workspace a message needs; a string counts each time it occurs.

\* How often a field numbered in nums occurs
Occurrences(fields, nums) == Cardinality({i \in DOMAIN fields : fields[i].num \in nums})

Sum(numbers) == FoldLeft(LAMBDA m, n : m + n, 0, numbers)

PhoneNeed(fields) == PHONE_SIZE + STRING_SIZE * Occurrences(fields, {1})

PersonNeed(fields) ==
  LET phones == Subs(fields, 4)
  IN  PERSON_SIZE + STRING_SIZE * Occurrences(fields, {1, 3})
        + Sum([k \in DOMAIN phones |-> PhoneNeed(phones[k])])

BookNeed(fields) ==
  LET people == Subs(fields, 1)
  IN  Sum([k \in DOMAIN people |-> PersonNeed(people[k])])

Need(proto, fields) == IF proto = "address_book" THEN BookNeed(fields) ELSE 0

-----------------------------------------------------------------------------
\* Every field the proto knows has the wire type of its type.

Typed(fields, wires) ==
  \A i \in DOMAIN fields :
    fields[i].num \in DOMAIN wires => fields[i].wire = wires[fields[i].num]

PhoneTyped(fields) == Typed(fields, <<LEN, VARINT>>)

PersonTyped(fields) ==
  /\ Typed(fields, <<LEN, VARINT, LEN, LEN>>)
  /\ \A k \in DOMAIN Subs(fields, 4) : PhoneTyped(Subs(fields, 4)[k])

BookTyped(fields) ==
  /\ Typed(fields, <<LEN>>)
  /\ \A k \in DOMAIN Subs(fields, 1) : PersonTyped(Subs(fields, 1)[k])

WellTyped(proto, fields) ==
  CASE proto = "hello_world"  -> Typed(fields, <<VARINT>>)
    [] proto = "floats"       -> Typed(fields, <<I32>>)
    [] proto = "address_book" -> BookTyped(fields)

=============================================================================
