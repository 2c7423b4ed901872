----------------------------- MODULE PhoneNumber -----------------------------
(***************************************************************************)
(* The form in which a registration keeps a phone number, and by which its *)
(* uniqueness check and the login compare it.  A number as typed is a      *)
(* sequence of characters.                                                 *)
(***************************************************************************)
EXTENDS Naturals, Sequences, SequencesExt

Numeral == {"0", "1", "2", "3", "4", "5", "6", "7", "8", "9"}

Separator == {" ", "-"}

\* strings.TrimSpace.
TrimSpace(typed) ==
    LET ink == {i \in DOMAIN typed : typed[i] \notin {" ", "tab"}}
    IN  IF ink = {} THEN <<>> ELSE SubSeq(typed, Min(ink), Max(ink))

\* strings.ReplaceAll by nothing, for each of the characters.
Without(typed, characters) ==
    LET kept[i \in 0 .. Len(typed)] ==
            IF i = 0 THEN <<>>
            ELSE IF typed[i] \in characters THEN kept[i - 1]
            ELSE Append(kept[i - 1], typed[i])
    IN  kept[Len(typed)]

Strip(typed) == Without(TrimSpace(typed), Separator)

E164(national) == <<"+", "6", "2">> \o national

\* A faulty variant of the definition below it: a number that begins with the
\* country code is taken for one without any prefix.
NormalizedTwice(typed) ==
    LET phone == Strip(typed) IN
    CASE IsPrefix(<<"0">>, phone) -> E164(Tail(phone))
      [] IsPrefix(<<"+">>, phone) \/ phone = <<>> -> phone
      [] OTHER -> E164(phone)

Normalized(typed) ==
    LET phone == Strip(typed) IN
    CASE IsPrefix(<<"0">>, phone) -> E164(Tail(phone))
      [] IsPrefix(<<"6", "2">>, phone) -> <<"+">> \o phone
      [] IsPrefix(<<"+">>, phone) \/ phone = <<>> -> phone
      [] OTHER -> E164(phone)

\* The validator's e164, without its bounds on the length.
IsE164(phone) ==
    /\ Len(phone) > 1 /\ phone[1] = "+"
    /\ \A i \in 2 .. Len(phone) : phone[i] \notin {"+", "-", " ", "tab"}

-----------------------------------------------------------------------------
(* Ways to write a number                                                  *)

\* With a space or a dash somewhere.
Spaced(number) ==
    {InsertAt(number, i, c) : i \in 1 .. Len(number) + 1, c \in Separator}

\* With any prefix, up to two separators, and white space around.
Spellings(national) ==
    LET numbers == {prefix \o national :
                       prefix \in {<<>>, <<"0">>, <<"6", "2">>, <<"+", "6", "2">>}}
        spaced == UNION {Spaced(n) : n \in UNION {Spaced(m) : m \in numbers}}
    IN  numbers \union spaced \union {<<"tab">> \o n \o <<"tab">> : n \in spaced}
=============================================================================
