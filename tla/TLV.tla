--------------------------------- MODULE TLV ---------------------------------
(***************************************************************************)
(* UnpackCustomerTLV: a registration as tag, two bytes of length, value,   *)
(* and again.  What the values are made of does not matter here.           *)
(***************************************************************************)
EXTENDS Naturals, Sequences, SequencesExt

Tag == 1 .. 6 \* NIK, name, e-mail, phone, address, password

\* A faulty variant of the definition below it: the length is one byte.
LowByteOnly(hi, lo) == lo

BigEndian(hi, lo) == hi * 256 + lo

Malformed == [ok |-> FALSE, fields |-> <<>>]

\* Where the field at offset o ends, and the field.
End(data, o) == o + 3 + BigEndian(data[o + 2], data[o + 3])

FieldAt(data, o) ==
    [tag |-> data[o + 1], value |-> SubSeq(data, o + 4, End(data, o))]

\* One round of the loop: what is parsed from offset o, when rest is what is
\* parsed from the end of the field on.
Round(data, o, rest) ==
    IF o = Len(data) THEN [ok |-> TRUE, fields |-> <<>>]
    ELSE IF o + 3 > Len(data) \/ End(data, o) \notin o + 3 .. Len(data) \/ ~ rest.ok
         THEN Malformed
         ELSE [ok |-> TRUE, fields |-> <<FieldAt(data, o)>> \o rest.fields]

\* The loop, from every offset at which it may stand.
Loop(data) ==
    LET from[o \in 0 .. Len(data)] == Round(data, o, from[End(data, o)])
    IN  from

\* The last value of each tag; unknown tags are skipped, and a missing field is
\* empty.
Unpack(data) ==
    LET parsed == IF Len(data) < 3 THEN Malformed ELSE Loop(data)[0]
        values(t) == {i \in DOMAIN parsed.fields : parsed.fields[i].tag = t}
    IN  [ok |-> parsed.ok,
         request |-> [t \in Tag |->
             IF values(t) = {} THEN <<>> ELSE parsed.fields[Max(values(t))].value]]

\* What a client sends.
Chunk(field) ==
    <<field.tag, Len(field.value) \div 256, Len(field.value) % 256>> \o field.value

Pack(fields) == FlattenSeq([i \in DOMAIN fields |-> Chunk(fields[i])])
=============================================================================
