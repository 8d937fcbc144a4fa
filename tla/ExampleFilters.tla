--------------------------- MODULE ExampleFilters ---------------------------
(***************************************************************************)
(* The netfilter examples hello_world, floats and address_book: the hook   *)
(* with the rule of each in process_message, and the packets the clients   *)
(* send.  The three modules are alike but for the rule, so one hook judges *)
(* the packets of all, each with the rule of its own example.              *)
(*                                                                         *)
(* A message has its proto and the fields bar and people, of which it uses *)
(* one.  The bar of floats is the 32 bits of a float, which the modified   *)
(* pbtools hands over as an integer; here they are read as a signed one.   *)
(* Here process_message is one step; the FPU section around the comparison *)
(* of floats is in FpuSection.                                             *)
(***************************************************************************)
EXTENDS NetfilterHook, MessageMeaning

CONSTANTS HEAP,        \* what the workspace has left for people, phones, strings
          TEXT         \* length of the strings in the books of the model

\* What the module is given to decode: proto.Marshal, then the frame.
Encoding(m) == EncodeMessage(m.proto, m)

\* A negative int32 is sign-extended to the ten bytes of a 64-bit varint.
VarintBytes(n) ==
  IF n < 0 THEN 10 ELSE 1 + Cardinality({b \in {7, 14, 21, 28} : n >= 2^b})

\* The bytes of a number or string; all its tags and lengths are below 128.
FieldBytes(f) ==
  CASE f.wire = VARINT -> 1 + VarintBytes(f.val)
    [] f.wire = I32    -> 5
    [] f.wire = I64    -> 9
    [] f.wire = LEN    -> 2 + TEXT

\* The bytes of Foo or PhoneNumber
ScalarBytes(fields) == Sum([i \in DOMAIN fields |-> FieldBytes(fields[i])])

PersonBytes(fields) ==
  Sum([i \in DOMAIN fields |-> IF fields[i].num = 4 THEN 2 + ScalarBytes(fields[i].sub)
                                                 ELSE FieldBytes(fields[i])])

BookBytes(fields) == Sum([i \in DOMAIN fields |-> 2 + PersonBytes(fields[i].sub)])

MessageBytes(m) ==
  IF m.proto = "address_book" THEN BookBytes(Encoding(m)) ELSE ScalarBytes(Encoding(m))

ClientFrame(m) == [len |-> MessageBytes(m), msg |-> m]

\* Prefix and message in one write, on a connection of their own
ClientPacket(m, nonlinear) ==
  [tcp |-> TRUE, loopback |-> TRUE, my_port |-> TRUE, psh |-> TRUE,
   nonlinear |-> nonlinear, frame |-> ClientFrame(m)]

-----------------------------------------------------------------------------
\* The rules

DropIf(condition) == {IF condition THEN NF_DROP ELSE NF_ACCEPT}

\* bar compared as the unsigned number of its wire format
HelloWorldVerdicts_Unsigned(foo) == DropIf(foo.bar >= 20 \/ foo.bar < 0)

HelloWorldVerdicts(foo) == DropIf(foo.bar >= 20)

INFINITY == 255 * 2^23             \* the bits of larger ones are not numbers
TRESHOLD == 130 * 2^23 + 2202010   \* 0x4121999a, the float nearest to 10.1

\* the bits compared as the unsigned integer they are handed over as
BarfGreater_Raw(foo) == foo.bar < 0 \/ foo.bar > TRESHOLD

\* barf > treshold_f: the bits of positive floats compare like the floats, and
\* what is not a number is not greater.
BarfGreater(foo) == foo.bar > TRESHOLD /\ foo.bar <= INFINITY

FloatsVerdicts(foo) == DropIf(BarfGreater(foo))

WORK == 2                          \* address_book_work_e

WorkNumbers(person) ==
  Cardinality({i \in DOMAIN person.phones : person.phones[i].type = WORK})

FAULT == "fault"                   \* the kernel stops in softirq context

\* the phones of everybody counted
AddressBookVerdicts_AllPeople(book) ==
  IF book.people = <<>>
  THEN Verdicts \cup {FAULT}
  ELSE DropIf(FoldLeft(LAMBDA n, p : n + WorkNumbers(p), 0, book.people) < 2)

\* With no people, none sent or no room for the list, items_p has never been
\* written: the read through it faults, or what it finds gives either verdict.
AddressBookVerdicts(book) ==
  IF book.people = <<>> THEN Verdicts \cup {FAULT}
                        ELSE DropIf(WorkNumbers(book.people[1]) < 2)

\* process_message.  The result of the decoding is not looked at: the rule is
\* applied to what an aborted one leaves.
ExampleVerdicts(m) ==
  LET msg == DecodeMessage(m.proto, Encoding(m), HEAP).msg
  IN  CASE m.proto = "hello_world"  -> HelloWorldVerdicts(msg)
        [] m.proto = "floats"       -> FloatsVerdicts(msg)
        [] m.proto = "address_book" -> AddressBookVerdicts(msg)

\* The module's messages are judged by their own rule, and what arrives comes from
\* the clients: every message fits the buffer, and a book has people, the list of
\* whom fits the workspace.  The others may end in FAULT, which is no verdict.
ASSUME ExampleAssumption ==
  /\ HEAP \in Nat /\ TEXT \in Nat
  /\ \A m \in Messages :
       /\ m.proto \in Protos /\ m.bar \in Int /\ m.people \in Seq(Persons)
       /\ m.proto = "address_book" =>
            m.people # <<>> /\ Len(m.people) * PERSON_SIZE <= HEAP
       /\ MessageBytes(m) < BUFFER_SIZE
       /\ ProcessMessage(m) = ExampleVerdicts(m)
  /\ Packets \subseteq {ClientPacket(m, nonlinear) : m \in Messages, nonlinear \in BOOLEAN}

-----------------------------------------------------------------------------
\* Properties

\* The CPUs that return the verdict on a message of proto
Returning(proto) ==
  {c \in Cpus : pc[c] = "return" /\ skb[c] # NULL /\ skb[c].frame.msg.proto = proto}

\* A packet is dropped exactly if drop; one that had to be copied may be dropped
\* for want of memory.
Judged(c, drop) ==
  IF verdict[c] = NF_ACCEPT THEN ~drop ELSE drop \/ skb[c].nonlinear

\* What the hello_world client sends passes exactly if bar < 20, also when it is
\* encoded as no bytes (0) or as ten (negative numbers).
FooVerdict ==
  \A c \in Returning("hello_world") : Judged(c, skb[c].frame.msg.bar >= 20)

\* The float's value, by exponent and fraction, is larger than 10.1 = 101 / 10;
\* the float nearest to 10.1 is not told from it.
Above(m) ==
  LET exponent == m.bar \div 2^23 - 127
      fraction == 2^23 + (m.bar % 2^23)         \* in units of 2^(exponent - 23)
  IN  /\ m.bar >= 0
      /\ exponent <= 127 \/ m.bar = INFINITY
      /\ exponent > 3 \/ (exponent = 3 /\ 10 * (fraction - 1) > 101 * 2^20)

\* The floats filter drops exactly the values above 10.1 and +infinity: not the
\* negative ones, whose bits are larger integers, nor what is not a number.
FloatVerdict == \A c \in Returning("floats") : Judged(c, Above(skb[c].frame.msg))

\* The workspace holds all people, and the strings and phones of the first.
FirstPersonFits(m) ==
  LET first == m.people[1]
      strings == Cardinality({s \in {"name", "email"} : first[s] # 0})
                   + Cardinality({i \in DOMAIN first.phones : first.phones[i].number # 0})
  IN  Len(m.people) * PERSON_SIZE + Len(first.phones) * PHONE_SIZE
        + strings * STRING_SIZE <= HEAP

\* If so, a book passes exactly if its first person has two WORK numbers or
\* more, whatever becomes of the other people when memory runs out at them.
FirstPersonVerdict ==
  \A c \in Returning("address_book") :
    FirstPersonFits(skb[c].frame.msg) =>
      Judged(c, WorkNumbers(skb[c].frame.msg.people[1]) < 2)

\* "Drops messages that have less than 2 WORK phone number inside the the
\* first Person.Phones": those with 2 and more pass.
ReadmeWorkRule ==
  \A c \in Returning("address_book") :
    verdict[c] = NF_DROP /\ ~skb[c].nonlinear =>
      WorkNumbers(skb[c].frame.msg.people[1]) < 2

=============================================================================
