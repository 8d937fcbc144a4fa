---------------------------- MODULE MessageCodec ----------------------------
(***************************************************************************)
(* The code pbtools generates for the three protos, by what it computes:   *)
(* init, encode_inner and decode_inner of Foo (hello_world and floats),    *)
(* PhoneNumber, Person and AddressBook.  pbtools itself is not in the      *)
(* repository; what is assumed of it is in the operators of the first      *)
(* section.                                                                *)
(*                                                                         *)
(* An encoded message is a sequence of fields.  A field has its number and *)
(* wire type, a number or string in val, an embedded message in sub.       *)
(* A string is a number too, 0 being the empty one.                        *)
(*                                                                         *)
(* Decoding is a fold over the fields.  Its state is the message so far,   *)
(* the bytes left of the workspace, and whether pbtools has aborted it;    *)
(* after that nothing is read any more.                                    *)
(*                                                                         *)
(* A definition with an underscore in its name is a mistake that one could *)
(* make in the definition that follows it; the runs detect each of them.   *)
(***************************************************************************)
EXTENDS Integers, SequencesExt

CONSTANTS PERSON_SIZE, PHONE_SIZE,   \* bytes of struct address_book_person_t, ..._phone_number_t
          STRING_SIZE           \* bytes a string takes

ASSUME CodecAssumption == {PERSON_SIZE, PHONE_SIZE, STRING_SIZE} \subseteq Nat \ {0}

VARINT == "varint"
I64    == "i64"
LEN    == "len"
I32    == "i32"

Scalar(num, wire, val) == [num |-> num, wire |-> wire, val |-> val, sub |-> <<>>]
Embedded(num, sub)     == [num |-> num, wire |-> LEN,  val |-> 0,   sub |-> sub]

-----------------------------------------------------------------------------
\* pbtools

Start(init, heap) == [msg |-> init, heap |-> heap, aborted |-> FALSE]

Abort(s) == [s EXCEPT !.aborted = TRUE]

\* A number, of the wire type that the function called expects.
ReadScalar(s, name, f, wire) ==
  IF f.wire = wire THEN [s EXCEPT !.msg[name] = f.val] ELSE Abort(s)

\* A string is copied to the workspace, where it gets its final zero.
ReadString(s, name, f) ==
  IF f.wire = LEN /\ s.heap >= STRING_SIZE
  THEN [s EXCEPT !.msg[name] = f.val, !.heap = @ - STRING_SIZE]
  ELSE Abort(s)

\* pbtools_repeated_info_decode counts the item and goes on behind it.
CountItem(s, f) == IF f.wire = LEN THEN s ELSE Abort(s)

\* What has been counted, once the other fields are read.
Items(fields, num) ==
  FoldLeft(LAMBDA items, f : IF f.num = num THEN Append(items, f) ELSE items, <<>>, fields)

\* Room for n items is taken at once and each is initialised; only then is any
\* decoded.  Without room length stays 0.
AllocRepeated(s, name, n, size, init) ==
  IF s.aborted \/ s.heap < n * size THEN Abort(s)
  ELSE [s EXCEPT !.msg[name] = [i \in 1..n |-> init], !.heap = @ - n * size]

\* the items behind a wrong one decoded, too
PutItem_GoesOn(s, name, i, d) ==
  [msg     |-> [s.msg EXCEPT ![name] = ReplaceAt(@, i, d.msg)],
   heap    |-> d.heap,
   aborted |-> s.aborted \/ d.aborted]

\* d is where the decoding of item i ends; an item is decoded after the others.
PutItem(s, name, i, d) ==
  IF s.aborted THEN s
  ELSE [msg     |-> [s.msg EXCEPT ![name] = ReplaceAt(@, i, d.msg)],
        heap    |-> d.heap,
        aborted |-> d.aborted]

\* A field that has its default value is not written.
EncodeScalar(num, wire, val) == IF val = 0 THEN <<>> ELSE <<Scalar(num, wire, val)>>

\* items taken from first to last for a buffer that is filled from its end
EncodeRepeated_Forward(num, subs) ==
  [i \in DOMAIN subs |-> Embedded(num, Reverse(subs)[i])]

EncodeRepeated(num, subs) == [i \in DOMAIN subs |-> Embedded(num, subs[i])]

-----------------------------------------------------------------------------
\* Foo: bar is an int32 in hello_world, and the bits of a float in floats

FooInit == [bar |-> 0]

FooField(wire, s, f) ==
  IF s.aborted THEN s
  ELSE CASE f.num = 1 -> ReadScalar(s, "bar", f, wire)
         [] OTHER     -> s

DecodeFoo(wire, fields, heap) ==
  LET Field(s, f) == FooField(wire, s, f)
  IN  FoldLeft(Field, Start(FooInit, heap), fields)

EncodeFoo(wire, foo) == EncodeScalar(1, wire, foo.bar)

-----------------------------------------------------------------------------
\* PhoneNumber

PhoneNumbers == [number : Int, type : Int]

PhoneInit == [number |-> 0, type |-> 0]

PhoneField(s, f) ==
  IF s.aborted THEN s
  ELSE CASE f.num = 1 -> ReadString(s, "number", f)
         [] f.num = 2 -> ReadScalar(s, "type", f, VARINT)
         [] OTHER     -> s

DecodePhone(fields, heap) == FoldLeft(PhoneField, Start(PhoneInit, heap), fields)

EncodePhone(phone) ==
  EncodeScalar(1, LEN, phone.number) \o EncodeScalar(2, VARINT, phone.type)

-----------------------------------------------------------------------------
\* Person

Persons == [name : Int, id : Int, email : Int, phones : Seq(PhoneNumbers)]

PersonInit == [name |-> 0, id |-> 0, email |-> 0, phones |-> <<>>]

\* no default case
PersonField_NoDefault(s, f) ==
  IF s.aborted THEN s
  ELSE CASE f.num = 1 -> ReadString(s, "name", f)
         [] f.num = 2 -> ReadScalar(s, "id", f, VARINT)
         [] f.num = 3 -> ReadString(s, "email", f)
         [] f.num = 4 -> CountItem(s, f)
         [] OTHER     -> Abort(s)

\* fields 1 and 3 swapped
PersonField_Swapped(s, f) ==
  IF s.aborted THEN s
  ELSE CASE f.num = 3 -> ReadString(s, "name", f)
         [] f.num = 2 -> ReadScalar(s, "id", f, VARINT)
         [] f.num = 1 -> ReadString(s, "email", f)
         [] f.num = 4 -> CountItem(s, f)
         [] OTHER     -> s

PersonField(s, f) ==
  IF s.aborted THEN s
  ELSE CASE f.num = 1 -> ReadString(s, "name", f)
         [] f.num = 2 -> ReadScalar(s, "id", f, VARINT)
         [] f.num = 3 -> ReadString(s, "email", f)
         [] f.num = 4 -> CountItem(s, f)
         [] OTHER     -> s

DecodePerson(fields, heap) ==
  LET phones == Items(fields, 4)
      read   == FoldLeft(PersonField, Start(PersonInit, heap), fields)
      Item(s, i) == PutItem(s, "phones", i, DecodePhone(phones[i].sub, s.heap))
  IN  FoldLeftDomain(Item,
        AllocRepeated(read, "phones", Len(phones), PHONE_SIZE, PhoneInit), phones)

EncodePerson(person) ==
  EncodeScalar(1, LEN, person.name) \o EncodeScalar(2, VARINT, person.id)
    \o EncodeScalar(3, LEN, person.email)
    \o EncodeRepeated(4, [i \in DOMAIN person.phones |-> EncodePhone(person.phones[i])])

-----------------------------------------------------------------------------
\* AddressBook

BookInit == [people |-> <<>>]

BookField(s, f) ==
  IF s.aborted THEN s
  ELSE CASE f.num = 1 -> CountItem(s, f)
         [] OTHER     -> s

DecodeBook(fields, heap) ==
  LET people == Items(fields, 1)
      read   == FoldLeft(BookField, Start(BookInit, heap), fields)
      Item(s, i) == PutItem(s, "people", i, DecodePerson(people[i].sub, s.heap))
  IN  FoldLeftDomain(Item,
        AllocRepeated(read, "people", Len(people), PERSON_SIZE, PersonInit), people)

EncodeBook(book) ==
  EncodeRepeated(1, [i \in DOMAIN book.people |-> EncodePerson(book.people[i])])

-----------------------------------------------------------------------------
\* The messages of the three protos

Protos == {"hello_world", "floats", "address_book"}

DecodeMessage(proto, fields, heap) ==
  CASE proto = "hello_world"  -> DecodeFoo(VARINT, fields, heap)
    [] proto = "floats"       -> DecodeFoo(I32, fields, heap)
    [] proto = "address_book" -> DecodeBook(fields, heap)

EncodeMessage(proto, msg) ==
  CASE proto = "hello_world"  -> EncodeFoo(VARINT, msg)
    [] proto = "floats"       -> EncodeFoo(I32, msg)
    [] proto = "address_book" -> EncodeBook(msg)

=============================================================================
