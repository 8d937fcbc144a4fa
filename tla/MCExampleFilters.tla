-------------------------- MODULE MCExampleFilters --------------------------
(* Messages of the three clients at the borders of the rules, of the varint, *)
(* of the floats and of the workspace, and books as the address_book client  *)
(* draws them.  All fit the modules' buffer.                                 *)
EXTENDS ExampleFilters, FpuSection

Foo(proto, bar) == [proto |-> proto, bar |-> bar, people |-> <<>>]

Bars == {-1, 0, 1, 19, 20, 127, 128, 2147483647}

\* Zero, the smallest float, 1, the neighbours of 10.1, 16, the largest float,
\* infinity, two values that are not numbers; then the same with a sign
Positive ==
  {0, 1, 127 * 2^23, TRESHOLD - 1, TRESHOLD, TRESHOLD + 1, 131 * 2^23 - 1, 131 * 2^23,
   INFINITY - 1, INFINITY, INFINITY + 1, 2147483647}
Floats == Positive \cup {bits - 2147483647 - 1 : bits \in Positive}

Phone(type) == [number |-> 1, type |-> type]
Anybody == [name |-> 1, id |-> 0, email |-> 0, phones |-> <<>>]
Other   == [Anybody EXCEPT !.email = 1, !.phones = <<Phone(2), Phone(2)>>]

FirstPhones ==
  {<<>>, <<Phone(2)>>, <<Phone(2), Phone(2)>>, <<Phone(2), Phone(0), Phone(2)>>,
   <<Phone(1), Phone(1)>>, <<Phone(2), Phone(2), Phone(2)>>}

\* The first person, and n others
Book(phones, n, other) ==
  [proto |-> "address_book", bar |-> 0,
   people |-> <<[Anybody EXCEPT !.phones = phones]>> \o [i \in 1..n |-> other]]

\* Books with up to twenty people, the list of whom just fits the workspace
ListedBooks ==
  {Book(phones, n, other) :
     phones \in FirstPhones, n \in {0, 1, 2, 8, 12}, other \in {Anybody, Other}}
  \cup {Book(phones, n, Anybody) : phones \in FirstPhones, n \in {18, 19}}

\* What the address_book client sends: three people with five phones each, the
\* types of which it draws; the rule tells WORK from the rest, the encoding 0
ClientPerson(i, types) ==
  [name |-> 1, id |-> i, email |-> 1, phones |-> [k \in 1..5 |-> Phone(types[k])]]
ClientBooks ==
  {[proto |-> "address_book", bar |-> 0,
    people |-> <<ClientPerson(0, types), ClientPerson(1, <<2, 2, 1, 0, 2>>),
                 ClientPerson(2, <<0, 1, 0, 1, 1>>)>>] : types \in [1..5 -> {0, WORK}]}

MCMessages ==
  {Foo("hello_world", bar) : bar \in Bars} \cup {Foo("floats", bits) : bits \in Floats}
    \cup ClientBooks \cup ListedBooks

AllPackets == {ClientPacket(m, nonlinear) : m \in MCMessages, nonlinear \in BOOLEAN}

FloatsOnly == {m \in MCMessages : m.proto = "floats"}

\* The comparison is of what was decoded.
DecodedGreater(m) == BarfGreater(DecodeMessage(m.proto, Encoding(m), HEAP).msg)

\* TLC evaluates the definitions above once, but what a constant stands for at
\* every use: the constants stand for the names of tables.
VerdictsOf == [m \in MCMessages |-> ExampleVerdicts(m)] @@ <<>>
GreaterOf  == [m \in FloatsOnly |-> DecodedGreater(m)] @@ <<>>

MCPackets           == AllPackets
FloatsMessages      == FloatsOnly
MCProcessMessage(m) == VerdictsOf[m]
MCGreater(m)        == GreaterOf[m]

BookPackets == {ClientPacket(book, FALSE) : book \in ListedBooks}

ASSUME \A book \in ClientBooks : FirstPersonFits(book)

\* One person more, or none, and items_p is read as it was found.
ASSUME \A phones \in FirstPhones :
  FAULT \in ExampleVerdicts(Book(phones, 20, Anybody))

ASSUME FAULT \in ExampleVerdicts([Book(<<>>, 0, Anybody) EXCEPT !.people = <<>>])

=============================================================================
