--------------------------- MODULE MC_FieldCodec ---------------------------
EXTENDS FieldCodec

\* A 251-byte name: its length needs the 0xfc length-encoded form.
LongName == [i \in 1..251 |-> 120]

\* Two settings of the fixed fields that differ in every field and in every
\* byte, so that a field read from the wrong offset is told apart.
FixedParts ==
    {[cs |-> <<33, 0>>, cl |-> <<11, 0, 0, 0>>, ty |-> 3, fl |-> <<0, 0>>,
      de |-> 0],
     [cs |-> <<63, 1>>, cl |-> <<0, 0, 1, 0>>, ty |-> 253, fl |-> <<3, 16>>,
      de |-> 31]}

\* Fields with and without each name, both fixed parts, and no default
\* value, an empty one or a one-byte one.
MC_Fields ==
    {[data |-> Nil, schema |-> s, table |-> <<116>>, orgTable |-> ot,
      name |-> n, orgName |-> on, charset |-> x.cs, columnLength |-> x.cl,
      type |-> x.ty, flag |-> x.fl, decimal |-> x.de,
      defaultValueLength |-> IF dv = Nil THEN 0 ELSE Len(dv),
      defaultValue |-> dv] :
        s \in {<<>>, <<115>>}, ot \in {<<>>, <<116>>},
        n \in {<<110>>, LongName}, on \in {<<>>, <<110>>},
        x \in FixedParts, dv \in {Nil, <<>>, <<49>>}}

====
