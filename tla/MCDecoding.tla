----------------------------- MODULE MCDecoding -----------------------------
(* Fields of every kind: known, repeated, unknown and of a wrong wire type.  *)
EXTENDS Decoding

MCFoos ==
  BoundedSeq({Scalar(1, VARINT, 1), Scalar(1, VARINT, -2), Scalar(1, I32, 3),
              Scalar(2, VARINT, 4)}, 3)

Number == Scalar(1, LEN, 6)
Type   == Scalar(2, VARINT, 2)

Phones ==
  {Embedded(4, <<Number, Type>>), Embedded(4, <<Type, Scalar(1, LEN, 7), Scalar(5, LEN, 8), Number>>),
   Embedded(4, <<Scalar(1, VARINT, 1)>>)}

FieldsOfPerson ==
  {Scalar(1, LEN, 1), Scalar(1, LEN, 2), Scalar(2, VARINT, 3), Scalar(3, LEN, 4),
   Scalar(7, I32, 5)} \cup Phones

\* One person with any fields; several persons with few.
MCBooks ==
  {<<Embedded(1, p)>> : p \in BoundedSeq(FieldsOfPerson, 3)}
    \cup BoundedSeq({Embedded(1, <<>>), Scalar(2, LEN, 9), Scalar(1, VARINT, 9),
                     Embedded(1, <<Scalar(1, LEN, 1), Embedded(4, <<Number>>)>>),
                     Embedded(1, <<Embedded(4, <<Type>>), Scalar(1, LEN, 2),
                                   Embedded(4, <<Number, Type>>)>>)}, 3)

=============================================================================
