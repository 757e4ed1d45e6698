------------------------------- MODULE Utils --------------------------------
(***************************************************************************)
(* lib/Utils: IPv4 addresses as texts and as numbers in network order.  A  *)
(* text is a sequence of characters, a digit the number it stands for.     *)
(* SHA512 and PrintBytes are not modelled.                                 *)
(***************************************************************************)
EXTENDS Integers, Sequences

Seqs == INSTANCE SequencesExt

CONSTANTS
    Radix,       \* 10
    OctetMax,    \* 255
    Parts,       \* 4
    htonl,       \* the byte swap between host and network order
    Spellings    \* texts that may be read as addresses

Digits == 0 .. Radix - 1
Dot == Radix
Other == Radix + 1       \* any character that is no digit and no dot
Chars == Digits \cup {Dot, Other}

Bytes == OctetMax + 1

\* 1 << 8 * k
Power[k \in 0 .. Parts] == IF k = 0 THEN 1 ELSE Bytes * Power[k - 1]

UINT32_MAX == Power[Parts] - 1
Ips == 0 .. UINT32_MAX

\* (ip >> 8 * (k - 1)) & 0xFF
Octet(ip, k) == (ip \div Power[k - 1]) % Bytes

Invalid == -1            \* in place of an address: an exception

\* On a little-endian host htonl reverses the order of the octets.
ASSUME UtilsAssumption ==
    /\ Radix \in Nat \ {0, 1}
    /\ OctetMax \in Nat /\ OctetMax >= Radix - 1
    /\ Parts \in Nat \ {0}
    /\ htonl \in [Ips -> Ips]
    /\ \A ip \in Ips, k \in 1 .. Parts : Octet(htonl[ip], k) = Octet(ip, Parts + 1 - k)
    /\ Spellings \subseteq Seq(Chars)

----------------------------------------------------------------------------
(* ToString.                                                               *)

\* std::to_string of an octet.
to_string[n \in 0 .. OctetMax] ==
    IF n < Radix THEN <<n>> ELSE Append(to_string[n \div Radix], n % Radix)

\* The first octet is the lowest byte of the number.
ToString(ip) ==
    LET text[k \in 1 .. Parts] ==
            IF k = 1 THEN to_string[Octet(ip, 1)]
            ELSE text[k - 1] \o <<Dot>> \o to_string[Octet(ip, k)]
    IN  text[Parts]

----------------------------------------------------------------------------
(* FromString: where the loops are (at an octet's first character, in its  *)
(* digits), and their variables.                                           *)

Loop(at, parts, value, result) ==
    [at |-> at, parts |-> parts, value |-> value, result |-> result]

Reading == Loop("octet", 0, 0, 0)
Failed == Loop("throws", 0, 0, 0)

\* result = (result << 8) | value; parts++
EndOctet(r, at) == Loop(at, r.parts + 1, r.value, r.result * Bytes + r.value)

\* Slip: an octet may be empty.
ReadEmpty(r, c) ==
    IF r.at # "throws" /\ r.parts < Parts /\ c \in Digits /\ r.value * Radix + c <= OctetMax
    THEN Loop("digits", r.parts, r.value * Radix + c, r.result)
    ELSE IF r.at # "throws" /\ c = Dot
    THEN [EndOctet(r, "octet") EXCEPT !.value = 0]
    ELSE Failed

\* One character.  Nothing is asked of an octet's first digit, and nothing has
\* to follow a dot.
Read(r, c) ==
    IF r.at = "octet" /\ r.parts < Parts /\ c \in Digits
    THEN Loop("digits", r.parts, c, r.result)
    ELSE IF r.at = "digits" /\ c \in Digits /\ r.value * Radix + c <= OctetMax
    THEN Loop("digits", r.parts, r.value * Radix + c, r.result)
    ELSE IF r.at = "digits" /\ c = Dot
    THEN EndOctet(r, "octet")
    ELSE Failed

\* The loops' variables behind a text.
ReadAll(text) ==
    LET read[i \in 0 .. Len(text)] ==
            IF i = 0 THEN Reading ELSE Read(read[i - 1], text[i])
    IN  read[Len(text)]

\* The address, or Invalid.
FromString(text) ==
    LET last == ReadAll(text)
        end == IF last.at = "digits" THEN EndOctet(last, "octet") ELSE last
    IN  IF end.at = "throws" \/ end.parts # Parts THEN Invalid
        ELSE htonl[end.result]

----------------------------------------------------------------------------
(* What must hold.                                                         *)

\* The places a spelling says more than it has to: a zero before a digit of an
\* octet, and a dot at the end.
LeadingZero(text, i) ==
    /\ i < Len(text) /\ text[i] = 0 /\ text[i + 1] \in Digits
    /\ i = 1 \/ text[i - 1] = Dot

TrailingDot(text, i) ==
    i = Len(text) /\ i > 1 /\ text[i] = Dot /\ text[i - 1] \in Digits

Superfluous(text) ==
    {i \in DOMAIN text : LeadingZero(text, i) \/ TrailingDot(text, i)}

Plain(text) == Superfluous(text) = {}

\* FromString reads back what ToString prints, in one byte order as in the
\* other, accepts nothing else among the plain spellings, and takes no notice
\* of what is superfluous in the others.
ReadsWhatIsPrinted ==
    LET printed == {ToString(ip) : ip \in Ips}
        Right(text) ==
            IF Plain(text)
            THEN IF text \in printed THEN ToString(FromString(text)) = text
                 ELSE FromString(text) = Invalid
            ELSE \A i \in Superfluous(text) :
                    FromString(text) = FromString(Seqs!RemoveAt(text, i))
    IN  \A text \in Spellings : Right(text)

=============================================================================
