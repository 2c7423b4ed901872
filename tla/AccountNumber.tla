---------------------------- MODULE AccountNumber ----------------------------
(***************************************************************************)
(* GenerateAccountNumber: branch, product, random digits and a check digit *)
(* by Luhn.  A number is a sequence of digits; any other character is an   *)
(* integer that is no digit.                                               *)
(***************************************************************************)
EXTENDS Integers, Sequences

Digit == 0 .. 9

ProductTypeCode ==
    [PRIORITY_SAVINGS |-> <<2, 0>>, STUDENT_SAVINGS |-> <<3, 0>>,
     REGULAR_SAVINGS |-> <<1, 0>>]

Twice(d) == IF 2 * d > 9 THEN 2 * d - 9 ELSE 2 * d

\* Every second digit counts twice, beginning with the last; -1 if there is a
\* character that is not a digit.
CalculateLuhn(payload) ==
    LET term(i) == IF (Len(payload) - i) % 2 = 0 THEN Twice(payload[i]) ELSE payload[i]
        sum[i \in 0 .. Len(payload)] == IF i = 0 THEN 0 ELSE sum[i - 1] + term(i)
    IN  IF \E i \in DOMAIN payload : payload[i] \notin Digit THEN -1
        ELSE (10 - (sum[Len(payload)] % 10)) % 10

ValidateLuhn(number) ==
    /\ Len(number) >= 2
    /\ number[Len(number)] \in Digit
    /\ CalculateLuhn(SubSeq(number, 1, Len(number) - 1)) = number[Len(number)]

\* A branch code that has not three characters is replaced by 001; the empty
\* sequence is the error.
GenerateAccountNumber(branch, product, random) ==
    LET prefix == (IF Len(branch) = 3 THEN branch ELSE <<0, 0, 1>>)
                      \o ProductTypeCode[product] \o random
        check == CalculateLuhn(prefix)
    IN  IF check < 0 THEN <<>> ELSE Append(prefix, check)

-----------------------------------------------------------------------------
(* Properties                                                              *)

\* The account numbers for some branch codes and random parts.
Numbers(branches, randoms) ==
    {GenerateAccountNumber(b, p, r) :
        b \in branches, p \in DOMAIN ProductTypeCode, r \in randoms} \ {<<>>}

Slips(number) ==
    {[number EXCEPT ![i] = d] : i \in DOMAIN number, d \in Digit} \ {number}

\* Neighbours exchanged; Luhn cannot tell 09 from 90.
Swaps(number) ==
    {[number EXCEPT ![i] = number[i + 1], ![i + 1] = number[i]] :
        i \in {j \in 1 .. Len(number) - 1 :
                  /\ number[j] # number[j + 1]
                  /\ {number[j], number[j + 1]} # {0, 9}}}

\* An account number is valid for ValidateLuhn, which does not count the check
\* digit and so begins the alternation one digit further on, and no longer
\* valid when one digit is mistyped or two neighbours are exchanged.
SlipsAreCaught(numbers) ==
    \A number \in numbers :
        /\ Len(number) = 12
        /\ ValidateLuhn(number)
        /\ \A wrong \in Slips(number) \union Swaps(number) : ~ValidateLuhn(wrong)
=============================================================================
