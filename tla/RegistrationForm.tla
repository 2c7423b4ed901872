-------------------------- MODULE RegistrationForm --------------------------
(***************************************************************************)
(* Onboarding with the way of a form to its first step: people type their  *)
(* data, clients send them as JSON or as TLV, a transmission may be cut,   *)
(* the handler unpacks, the use case normalises and validates.             *)
(***************************************************************************)
EXTENDS Onboarding, PhoneNumber, TLV

CONSTANTS
    People,  \* records with NIK, e-mail address and national phone number
    Address  \* an address, as long as addresses are when encrypted

Octet == 0 .. 255

\* What identifies a person; a national number is what follows the 0 or the
\* country code, and does not itself begin with either.
ASSUME PeopleAssumption ==
    /\ \A p \in People :
          /\ p.nik \in Seq(Octet) /\ p.email \in Seq(Octet) /\ p.national \in Seq(Numeral)
          /\ Len(p.nik) < 65536 /\ Len(p.email) < 65536
          /\ 0 < Len(p.national) /\ Len(p.national) < 65535
          /\ ~IsPrefix(<<"0">>, p.national) /\ ~IsPrefix(<<"6", "2">>, p.national)
    /\ \A p, q \in People : p.nik = q.nik /\ p.email = q.email => p = q
ASSUME AddressAssumption == Address \in Seq(Octet) /\ Len(Address) < 65536

\* The request a person fills in, by tag.
Filled(p, typed) == <<p.nik, <<1>>, p.email, typed, Address, <<1>>>>

\* As TLV, with a field that the server does not know, in either order.
Framed(p) ==
    LET filled == Filled(p, <<"0">> \o p.national)
        fields == <<[tag |-> 9, value |-> <<1>>]>>
                      \o [t \in Tag |-> [tag |-> t, value |-> filled[t]]]
    IN  {Pack(fields), Pack(Reverse(fields))}

\* What the handler has of it, wherever the transmission was cut.
Received(message) ==
    {got.request : got \in
        {g \in {Unpack(SubSeq(message, 1, n)) : n \in 0 .. Len(message)} : g.ok}}

Requested ==
    UNION {{Filled(p, typed) : typed \in Spellings(p.national)}
              \union UNION {Received(message) : message \in Framed(p)} : p \in People}

\* An empty field cannot be decrypted, an empty password is refused, and both
\* leave no trace; so does a phone number the validator does not accept.
Acceptable(request) ==
    /\ \A t \in Tag : request[t] # <<>>
    /\ IsE164(Normalized(request[4]))

Forms ==
    {[nik |-> q[1], email |-> q[3], phone |-> Normalized(q[4])] :
        q \in {request \in Requested : Acceptable(request)}}

\* A registration works on no other form than one that has come this way.
ASSUME FormAssumption == Form \subseteq Forms

-----------------------------------------------------------------------------
(* Properties                                                              *)

FormOf(p) == [nik |-> p.nik, email |-> p.email, phone |-> E164(p.national)]

\* Every row of customers is what one person has sent, whole: no message that
\* was cut, or whose lengths were misread, becomes a customer with fields that
\* nobody has sent.
StoredWasSent == \A c \in Cust : form[c] # Nil => \E p \in People : form[c] = FormOf(p)

NormalForms ==
    UNION {{<<p, Normalized(typed)>> : typed \in Spellings(p.national)} : p \in People}

\* A customer is found by every way to write the phone number: nobody gets past
\* the uniqueness check by another spelling of it.
PhoneIsFound ==
    \A c \in Cust, n \in NormalForms :
        form[c] # Nil /\ form[c].nik = n[1].nik /\ form[c].email = n[1].email
        => Exists("phone", n[2])
=============================================================================
