----------------------------- MODULE UtilsProofs -----------------------------
(***************************************************************************)
(* Utils: FromString and ToString, for any radix, any size of octets and   *)
(* addresses, and texts of any length.                                     *)
(***************************************************************************)
EXTENDS Utils, FiniteSetTheorems, SequenceTheorems, TLAPS

----------------------------------------------------------------------------
(* Induction and recursion over the natural numbers.                       *)

\* Induction over the natural numbers, for a set that contains 0 and with n
\* n + 1.  Of the numbers up to x that are missing from it, y |-> y - 1 would
\* map all onto fewer.
LEMMA NatInd ==
    ASSUME NEW T, 0 \in T, \A n \in Nat : n \in T => n + 1 \in T
    PROVE  Nat \subseteq T
<1> SUFFICES ASSUME NEW x \in Nat, x \notin T PROVE FALSE
    OBVIOUS
<1> DEFINE B == {y \in 0 .. x : y \notin T}
<1> DEFINE f == [y \in B |-> y - 1]
<1>1. \A y \in B : y - 1 \in B \ {x}
    <2> SUFFICES ASSUME NEW y \in B PROVE y - 1 \in B \ {x} OBVIOUS
    <2>1. y # 0 /\ y \in Nat OBVIOUS
    <2>2. y - 1 \in Nat /\ (y - 1) + 1 = y BY <2>1
    <2> QED BY <2>1, <2>2
<1>2. IsFiniteSet(B) /\ x \in B
    <2>1. IsFiniteSet(0 .. x) /\ B \subseteq 0 .. x BY FS_Interval
    <2> HIDE DEF B
    <2>2. IsFiniteSet(B) BY <2>1, FS_Subset
    <2> QED BY <2>2 DEF B
<1>3. \A y, z \in B : y - 1 = z - 1 => y = z OBVIOUS
<1> HIDE DEF B
<1>4. f \in [B -> B \ {x}] BY <1>1
<1>5. \A y, z \in B : f[y] = f[z] => y = z BY <1>3
<1>6. Cardinality(B \ {x}) = Cardinality(B) - 1 /\ IsFiniteSet(B \ {x}) /\ Cardinality(B) \in Nat
    BY <1>2, FS_RemoveElement, FS_CardinalityType
<1> HIDE DEF f
<1>7. Cardinality(B \ {x}) < Cardinality(B) BY <1>6
<1>8. \E y, z \in B : y # z /\ f[y] = f[z]
    <2> DEFINE D == B \ {x}
    <2>1. IsFiniteSet(D) /\ Cardinality(D) < Cardinality(B) /\ f \in [B -> D] BY <1>4, <1>6, <1>7
    <2> HIDE DEF D
    <2> QED BY ONLY <1>2, <2>1, FS_PigeonHole
<1> QED BY <1>5, <1>8

\* The functions of 0 .. N that are given on Base, and elsewhere by the value of
\* another argument.
Recursive(N, S, Base, base, prev, g) ==
    {f \in [0 .. N -> S] : \A n \in 0 .. N :
        f[n] = IF n \in Base THEN base[n] ELSE g[<<n, f[prev[n]]>>]}

\* If that argument is always smaller there is one.
LEMMA Recursion ==
    ASSUME NEW N \in Nat, NEW S, NEW Base, NEW base \in [0 .. N -> S],
           NEW prev, \A n \in 0 .. N : n \notin Base => prev[n] \in 0 .. n - 1,
           NEW g \in [(0 .. N) \X S -> S]
    PROVE  Recursive(N, S, Base, base, prev, g) # {}
<1> DEFINE Upto(m) == \E f \in [0 .. m -> S] : \A n \in 0 .. m :
               f[n] = IF n \in Base THEN base[n] ELSE g[<<n, f[prev[n]]>>]
<1> DEFINE T == {m \in Nat : m <= N => Upto(m)}
<1>1. 0 \in T
    <2> DEFINE f == [n \in 0 .. 0 |-> base[n]]
    <2>1. f \in [0 .. 0 -> S] /\ 0 \in Base
        OBVIOUS
    <2>2. \A n \in 0 .. 0 : f[n] = base[n] /\ n \in Base
        BY <2>1
    <2> HIDE DEF f
    <2> QED
        BY <2>1, <2>2
<1>2. ASSUME NEW m \in Nat, m \in T PROVE m + 1 \in T
    <2> SUFFICES ASSUME m + 1 <= N PROVE Upto(m + 1)
        OBVIOUS
    <2>1. PICK f \in [0 .. m -> S] : \A n \in 0 .. m :
              f[n] = IF n \in Base THEN base[n] ELSE g[<<n, f[prev[n]]>>]
        BY <1>2
    <2> DEFINE last == IF m + 1 \in Base THEN base[m + 1] ELSE g[<<m + 1, f[prev[m + 1]]>>]
    <2> DEFINE h == [n \in 0 .. m + 1 |-> IF n = m + 1 THEN last ELSE f[n]]
    <2>2. last \in S
        <3>1. m + 1 \notin Base => prev[m + 1] \in 0 .. m
            OBVIOUS
        <3>2. m + 1 \in 0 .. N
            OBVIOUS
        <3> QED
            BY <3>1, <3>2
    <2>3. \A n \in 0 .. m : h[n] = f[n]
        OBVIOUS
    <2>4. h[m + 1] = last
        OBVIOUS
    <2>5. h \in [0 .. m + 1 -> S]
        BY <2>2
    <2> HIDE DEF h
    <2>6. ASSUME NEW n \in 0 .. m + 1
          PROVE  h[n] = IF n \in Base THEN base[n] ELSE g[<<n, h[prev[n]]>>]
        <3>1. CASE n = m + 1
            <4>1. n \notin Base => prev[n] \in 0 .. m
                BY <3>1
            <4> QED
                BY <3>1, <4>1, <2>3, <2>4
        <3>2. CASE n \in 0 .. m
            <4>1. n \notin Base => prev[n] \in 0 .. m
                BY <3>2
            <4> QED
                BY <3>2, <4>1, <2>1, <2>3
        <3> QED
            BY <3>1, <3>2
    <2> QED
        BY <2>5, <2>6
<1> HIDE DEF T
<1>3. Nat \subseteq T
    BY <1>1, <1>2, NatInd
<1>4. Upto(N)
    BY <1>3 DEF T
<1> QED
    BY <1>4 DEF Recursive

----------------------------------------------------------------------------
(* The loops of FromString.                                                *)

Progress == [at : {"octet", "digits", "throws"}, parts : Nat, value : Nat, result : Nat]

LEMMA Constants ==
    /\ Radix \in Nat /\ Radix > 1
    /\ OctetMax \in Nat /\ OctetMax >= Radix - 1
    /\ Bytes \in Nat /\ Bytes >= Radix
    /\ Parts \in Nat /\ Parts > 0
    /\ Digits \subseteq Nat /\ Digits \subseteq Chars
    /\ Dot \in Chars /\ Dot \notin Digits
    /\ Other \notin Digits \cup {Dot}
<1> QED
    BY UtilsAssumption DEF UtilsAssumption, Bytes, Digits, Dot, Other, Chars

LEMMA ReadType ==
    /\ Reading \in Progress /\ Failed \in Progress
    /\ \A r \in Progress, at \in {"octet", "digits"} : EndOctet(r, at) \in Progress
    /\ \A r \in Progress, c \in Chars : Read(r, c) \in Progress
<1>1. Reading \in Progress /\ Failed \in Progress
    BY DEF Reading, Failed, Loop, Progress
<1>2. ASSUME NEW r \in Progress, NEW at \in {"octet", "digits"}
      PROVE  EndOctet(r, at) \in Progress
    <2>1. r.result * Bytes + r.value \in Nat
        BY Constants DEF Progress
    <2> QED
        BY <2>1 DEF EndOctet, Loop, Progress
<1>3. ASSUME NEW r \in Progress, NEW c \in Chars
      PROVE  Read(r, c) \in Progress
    <2>1. CASE r.at = "octet" /\ r.parts < Parts /\ c \in Digits
        BY <2>1, Constants DEF Read, Loop, Progress
    <2>2. CASE r.at = "digits" /\ c \in Digits /\ r.value * Radix + c <= OctetMax
        <3>1. r.value * Radix + c \in Nat
            BY <2>2, Constants DEF Progress
        <3>2. Read(r, c) = Loop("digits", r.parts, r.value * Radix + c, r.result)
            BY <2>2 DEF Read
        <3> QED
            BY <3>1, <3>2 DEF Loop, Progress
    <2>3. CASE r.at = "digits" /\ c = Dot
        <3>1. Read(r, c) = EndOctet(r, "octet")
            BY <2>3, Constants DEF Read
        <3> QED
            BY <3>1, <1>2
    <2> QED
        BY <2>1, <2>2, <2>3, <1>1 DEF Read
<1> QED
    BY <1>1, <1>2, <1>3

\* The recursive function of ReadAll exists and is what its definition says.
LEMMA ReadAllFunction ==
    ASSUME NEW text \in Seq(Chars)
    PROVE  \E f \in [0 .. Len(text) -> Progress] :
              /\ f[0] = Reading
              /\ \A i \in 1 .. Len(text) : f[i] = Read(f[i - 1], text[i])
              /\ ReadAll(text) = f[Len(text)]
<1> DEFINE N == Len(text)
           G(f) == [i \in 0 .. Len(text) |-> IF i = 0 THEN Reading ELSE Read(f[i - 1], text[i])]
           prev == [n \in 0 .. N |-> n - 1]
           First == {0}
           base == [n \in 0 .. N |-> Reading]
           g == [x \in (0 .. N) \X Progress |->
                    IF x[1] = 0 THEN Reading ELSE Read(x[2], text[x[1]])]
<1>1. N \in Nat /\ \A i \in 1 .. N : text[i] \in Chars
    OBVIOUS
<1>2. base \in [0 .. N -> Progress]
    BY ReadType
<1>3. \A n \in 0 .. N : n \notin First => prev[n] \in 0 .. n - 1
    BY <1>1
<1>4. g \in [(0 .. N) \X Progress -> Progress]
    <2> SUFFICES ASSUME NEW x \in (0 .. N) \X Progress
                 PROVE  (IF x[1] = 0 THEN Reading ELSE Read(x[2], text[x[1]])) \in Progress
        OBVIOUS
    <2> QED
        BY <1>1, ReadType
<1>5. Recursive(N, Progress, First, base, prev, g) # {}
    <2>1. N \in Nat
        BY <1>1
    <2> HIDE DEF N, First, prev, base, g
    <2> QED
        BY ONLY <2>1, <1>2, <1>3, <1>4, Recursion
<1>6. PICK f \in [0 .. N -> Progress] : \A n \in 0 .. N :
          f[n] = IF n \in First THEN base[n] ELSE g[<<n, f[prev[n]]>>]
    <2> HIDE DEF N, First, prev, base, g
    <2> QED
        BY <1>5 DEF Recursive
<1>7. f[0] = Reading
    <2>1. 0 \in 0 .. N /\ 0 \in First
        BY <1>1
    <2>2. f[0] = base[0]
        BY <2>1, <1>6
    <2> QED
        BY <2>1, <2>2
<1>8. ASSUME NEW n \in 1 .. N
      PROVE  f[n] = Read(f[n - 1], text[n])
    <2>1. n \in 0 .. N /\ n - 1 \in 0 .. N /\ n # 0
        BY <1>1
    <2>2. f[n] = g[<<n, f[n - 1]>>] /\ f[n - 1] \in Progress
        BY <1>6, <2>1
    <2> QED
        BY <2>1, <2>2
<1>9. f = G(f)
    BY <1>1, <1>7, <1>8
<1> DEFINE read == CHOOSE h : h = G(h)
<1>10. read = G(read)
    <2> HIDE DEF G
    <2> QED
        BY <1>9
<1>11. ReadAll(text) = read[Len(text)]
    BY Zenon DEF ReadAll
<1> HIDE DEF read
<1>12. read \in [0 .. N -> Progress] /\ read[0] = Reading
       /\ \A i \in 1 .. N : read[i] = Read(read[i - 1], text[i])
    <2>1. DOMAIN read = 0 .. N
        BY <1>10
    <2>2. read[0] = Reading
        BY <1>1, <1>10
    <2>3. \A i \in 1 .. N : read[i] = Read(read[i - 1], text[i])
        BY <1>1, <1>10
    <2> DEFINE T == {n \in Nat : n <= N => read[n] \in Progress}
    <2>4. 0 \in T
        BY <2>2, ReadType
    <2>5. ASSUME NEW n \in Nat, n \in T PROVE n + 1 \in T
        <3> SUFFICES ASSUME n + 1 <= N PROVE read[n + 1] \in Progress
            OBVIOUS
        <3>1. read[n + 1] = Read(read[n], text[n + 1]) /\ read[n] \in Progress
            BY <2>3, <2>5
        <3> QED
            BY <3>1, <1>1, ReadType
    <2> HIDE DEF T
    <2>6. Nat \subseteq T
        BY <2>4, <2>5, NatInd
    <2>7. \A n \in 0 .. N : read[n] \in Progress
        BY <2>6 DEF T
    <2>8. read = [i \in 0 .. N |-> read[i]]
        BY <1>10
    <2> QED
        BY <2>2, <2>3, <2>7, <2>8
<1> QED
    BY <1>11, <1>12

\* One character more.
LEMMA ReadAllAppend ==
    /\ ReadAll(<<>>) = Reading
    /\ \A text \in Seq(Chars) : ReadAll(text) \in Progress
    /\ \A text \in Seq(Chars), c \in Chars :
          ReadAll(Append(text, c)) = Read(ReadAll(text), c)
<1>1. ReadAll(<<>>) = Reading
    <2>1. <<>> \in Seq(Chars) /\ Len(<<>>) = 0
        OBVIOUS
    <2> QED
        BY <2>1, ReadAllFunction
<1>2. \A text \in Seq(Chars) : ReadAll(text) \in Progress
    BY ReadAllFunction
<1>3. ASSUME NEW text \in Seq(Chars), NEW c \in Chars
      PROVE  ReadAll(Append(text, c)) = Read(ReadAll(text), c)
    <2> DEFINE N == Len(text)
               more == Append(text, c)
    <2>1. N \in Nat /\ more \in Seq(Chars) /\ Len(more) = N + 1 /\ more[N + 1] = c
          /\ \A i \in 1 .. N : more[i] = text[i]
        OBVIOUS
    <2>2. PICK f \in [0 .. N -> Progress] :
              /\ f[0] = Reading
              /\ \A i \in 1 .. N : f[i] = Read(f[i - 1], text[i])
              /\ ReadAll(text) = f[N]
        BY ReadAllFunction
    <2> HIDE DEF more
    <2>3. PICK h \in [0 .. Len(more) -> Progress] :
              /\ h[0] = Reading
              /\ \A i \in 1 .. Len(more) : h[i] = Read(h[i - 1], more[i])
              /\ ReadAll(more) = h[Len(more)]
        BY <2>1, ReadAllFunction
    <2> DEFINE T == {n \in Nat : n <= N => h[n] = f[n]}
    <2> HIDE DEF N
    <2>4. 0 \in T
        BY <2>2, <2>3
    <2>5. ASSUME NEW n \in Nat, n \in T PROVE n + 1 \in T
        <3> SUFFICES ASSUME n + 1 <= N PROVE h[n + 1] = f[n + 1]
            OBVIOUS
        <3>1. n + 1 \in 1 .. N /\ n + 1 \in 1 .. Len(more) /\ (n + 1) - 1 = n
            BY <2>1
        <3>2. h[n + 1] = Read(h[n], more[n + 1])
            BY <2>3, <3>1
        <3>3. f[n + 1] = Read(f[n], text[n + 1])
            BY <2>2, <3>1
        <3>4. h[n] = f[n] /\ more[n + 1] = text[n + 1]
            BY <2>1, <2>5, <3>1
        <3> QED
            BY <3>2, <3>3, <3>4
    <2> HIDE DEF T
    <2>6. Nat \subseteq T
        BY <2>4, <2>5, NatInd
    <2>7. h[N] = f[N]
        BY <2>1, <2>6 DEF T
    <2>8. ReadAll(more) = h[N + 1] /\ h[N + 1] = Read(h[N], more[N + 1])
        <3>1. N + 1 \in 1 .. Len(more) /\ (N + 1) - 1 = N
            BY <2>1
        <3> QED
            BY <2>1, <2>3, <3>1
    <2> QED
        BY <2>1, <2>2, <2>7, <2>8 DEF more
<1> QED
    BY <1>1, <1>2, <1>3

----------------------------------------------------------------------------
(* Division.                                                               *)

\* Quotient and remainder, and that there are no others.
LEMMA Division ==
    ASSUME NEW a \in Nat, NEW b \in Nat, b > 0
    PROVE  /\ a \div b \in Nat /\ a % b \in 0 .. b - 1
           /\ a = (a \div b) * b + (a % b)
           /\ \A q \in Nat, r \in 0 .. b - 1 : a = q * b + r => a \div b = q /\ a % b = r
<1>1. a \div b \in Nat /\ a % b \in 0 .. b - 1
    OBVIOUS
<1>2. a = (a \div b) * b + (a % b)
    OBVIOUS
<1>3. ASSUME NEW q \in Nat, NEW r \in 0 .. b - 1, a = q * b + r
      PROVE  a \div b = q /\ a % b = r
    <2> DEFINE d == a \div b
               m == a % b
    <2>1. d \in Nat /\ m \in 0 .. b - 1 /\ d * b + m = q * b + r
        BY <1>1, <1>2, <1>3
    <2> HIDE DEF d, m
    <2>2. d = q
        <3>1. ~ d < q
            <4> SUFFICES ASSUME d < q PROVE FALSE
                OBVIOUS
            <4>1. q * b >= (d + 1) * b
                BY <2>1
            <4>2. (d + 1) * b = d * b + b
                BY <2>1
            <4>3. q * b \in Nat /\ d * b \in Nat
                BY <2>1
            <4> QED
                BY <4>1, <4>2, <4>3, <2>1
        <3>2. ~ q < d
            <4> SUFFICES ASSUME q < d PROVE FALSE
                OBVIOUS
            <4>1. d * b >= (q + 1) * b
                BY <2>1
            <4>2. (q + 1) * b = q * b + b
                BY <2>1
            <4>3. q * b \in Nat /\ d * b \in Nat
                BY <2>1
            <4> QED
                BY <4>1, <4>2, <4>3, <2>1
        <3> QED
            BY <3>1, <3>2, <2>1
    <2>3. m = r
        <3>1. q * b \in Nat
            OBVIOUS
        <3> QED
            BY <2>1, <2>2, <3>1
    <2> QED
        BY <2>2, <2>3 DEF d, m
<1> QED
    BY <1>1, <1>2, <1>3

\* Two divisions are one by the product.
LEMMA DivisionTwice ==
    ASSUME NEW a \in Nat, NEW b \in Nat, NEW c \in Nat, b > 0, c > 0
    PROVE  (a \div b) \div c = a \div (b * c)
<1> DEFINE d == a \div b
           m == a % b
           e == d \div c
           n == d % c
<1>1. d \in Nat /\ m \in 0 .. b - 1 /\ a = d * b + m
    BY Division
<1> HIDE DEF d, m
<1>2. e \in Nat /\ n \in 0 .. c - 1 /\ d = e * c + n
    BY <1>1, Division
<1> HIDE DEF e, n
<1>3. b * c \in Nat /\ b * c > 0 /\ e * c \in Nat /\ e * (b * c) \in Nat /\ n * b \in Nat
    BY <1>2
<1>4. (e * c + n) * b = e * (b * c) + n * b
    BY <1>2
<1>5. a = e * (b * c) + (n * b + m)
    BY <1>1, <1>2, <1>3, <1>4
<1>6. n * b <= (c - 1) * b /\ (c - 1) * b = b * c - b
    BY <1>2
<1>7. n * b + m \in 0 .. b * c - 1
    BY <1>1, <1>3, <1>6
<1>8. a \div (b * c) = e
    BY <1>2, <1>3, <1>5, <1>7, Division
<1> QED
    BY <1>8 DEF d, e

\* The quotient of a large number is smaller and not 0, that of a small one 0.
LEMMA Quotient ==
    ASSUME NEW a \in Nat, NEW b \in Nat, b > 1
    PROVE  /\ a >= b => a \div b \in 1 .. a - 1
           /\ a < b => a \div b = 0 /\ a % b = a
<1> DEFINE d == a \div b
           m == a % b
<1>1. d \in Nat /\ m \in 0 .. b - 1 /\ a = d * b + m
    BY Division
<1>2. ASSUME a < b PROVE a \div b = 0 /\ a % b = a
    <2>1. a = 0 * b + a /\ a \in 0 .. b - 1
        BY <1>2
    <2> QED
        BY <2>1, Division
<1>3. ASSUME a >= b PROVE d \in 1 .. a - 1
    <2> HIDE DEF d, m
    <2>1. d # 0
        <3> SUFFICES ASSUME d = 0 PROVE FALSE
            OBVIOUS
        <3>1. d * b = 0
            OBVIOUS
        <3> QED
            BY <1>1, <1>3, <3>1
    <2>2. d * b >= d * 2 /\ d * b \in Nat
        BY <1>1
    <2> QED
        BY <1>1, <2>1, <2>2
<1> QED
    BY <1>2, <1>3

----------------------------------------------------------------------------
(* What is printed.                                                        *)

Numbers == 0 .. OctetMax
Numerals == Seq(Digits) \ {<<>>}

\* to_string prints a number up to OctetMax digit by digit.
LEMMA Printed ==
    /\ to_string \in [Numbers -> Numerals]
    /\ \A n \in Digits : n \in Numbers /\ to_string[n] = <<n>>
    /\ \A n \in Numbers : n \notin Digits =>
          to_string[n] = Append(to_string[n \div Radix], n % Radix)
<1> DEFINE G(f) == [n \in 0 .. OctetMax |->
                       IF n < Radix THEN <<n>> ELSE Append(f[n \div Radix], n % Radix)]
           N == OctetMax
           q == [n \in 0 .. N |-> n \div Radix]
           d == [n \in 0 .. N |-> n % Radix]
           base == [n \in 0 .. N |-> IF n \in Digits THEN <<n>> ELSE <<0>>]
           g == [x \in (0 .. N) \X Numerals |-> Append(x[2], d[x[1]])]
<1>1. N \in Nat /\ Radix \in Nat /\ Radix > 1 /\ 0 \in Digits /\ Digits \subseteq 0 .. N
      /\ \A n \in 0 .. N : n \in Digits <=> n < Radix
    BY Constants DEF Digits
<1>2. \A n \in 0 .. N : d[n] \in Digits /\ (n \notin Digits => q[n] \in 0 .. n - 1)
    <2> SUFFICES ASSUME NEW n \in 0 .. N
                 PROVE  n % Radix \in Digits /\ (n \notin Digits => n \div Radix \in 0 .. n - 1)
        OBVIOUS
    <2>1. n \in Nat /\ Radix \in Nat /\ Radix > 1 /\ Radix > 0 /\ Digits = 0 .. Radix - 1
        BY <1>1 DEF Digits
    <2>2. n % Radix \in 0 .. Radix - 1
        BY ONLY <2>1, Division
    <2>3. n >= Radix => n \div Radix \in 1 .. n - 1
        BY ONLY <2>1, Quotient
    <2> QED
        BY <2>1, <2>2, <2>3
<1>3. to_string = CHOOSE h : h = G(h)
    BY Zenon DEF to_string
<1>4. \A h : G(h) = [n \in 0 .. N |-> IF n \in Digits THEN <<n>> ELSE Append(h[q[n]], d[n])]
    <2> SUFFICES ASSUME NEW h, NEW n \in 0 .. N
                 PROVE  (IF n < Radix THEN <<n>> ELSE Append(h[n \div Radix], n % Radix))
                        = IF n \in Digits THEN <<n>> ELSE Append(h[q[n]], d[n])
        BY Zenon
    <2>1. q[n] = n \div Radix /\ d[n] = n % Radix
        BY Zenon
    <2>2. n \in Digits <=> n < Radix
        BY <1>1
    <2> QED
        BY ONLY <2>1, <2>2, Zenon
<1>5. \A n \in 0 .. N : n \notin Digits => q[n] = n \div Radix /\ d[n] = n % Radix
    BY Zenon
<1> HIDE DEF q, d, G
<1>6. base \in [0 .. N -> Numerals]
    BY <1>1 DEF Numerals
<1>7. \A n \in 0 .. N, s \in Numerals : Append(s, d[n]) \in Numerals
    BY <1>2, AppendProperties DEF Numerals
<1>8. g \in [(0 .. N) \X Numerals -> Numerals]
    <2> SUFFICES ASSUME NEW x \in (0 .. N) \X Numerals PROVE Append(x[2], d[x[1]]) \in Numerals
        OBVIOUS
    <2> QED
        BY <1>7
<1>9. Recursive(N, Numerals, Digits, base, q, g) # {}
    <2>1. N \in Nat /\ \A n \in 0 .. N : n \notin Digits => q[n] \in 0 .. n - 1
        BY <1>1, <1>2
    <2> HIDE DEF N, base, g
    <2> QED
        BY ONLY <2>1, <1>6, <1>8, Recursion
<1>10. PICK f \in [0 .. N -> Numerals] : \A n \in 0 .. N :
          f[n] = IF n \in Digits THEN base[n] ELSE g[<<n, f[q[n]]>>]
    <2> HIDE DEF N, base, g
    <2> QED
        BY <1>9 DEF Recursive
<1>11. \A n \in 0 .. N : n \notin Digits => q[n] \in 0 .. N
    BY <1>1, <1>2
<1>12. f = G(f)
    <2>1. \A n \in 0 .. N : f[n] = IF n \in Digits THEN <<n>> ELSE Append(f[q[n]], d[n])
        BY <1>10, <1>11
    <2> QED
        BY <1>4, <2>1
<1>13. to_string = [n \in 0 .. N |->
                       IF n \in Digits THEN <<n>> ELSE Append(to_string[q[n]], d[n])]
    <2>1. to_string = G(to_string)
        BY <1>3, <1>12
    <2> QED
        BY <1>4, <2>1
<1>14. \A n \in 0 .. N : to_string[n] =
          IF n \in Digits THEN <<n>> ELSE Append(to_string[q[n]], d[n])
    BY <1>13
<1>15. DOMAIN to_string = 0 .. N /\ to_string = [n \in 0 .. N |-> to_string[n]]
    BY <1>13
<1> DEFINE T == {m \in Nat : \A n \in 0 .. N : n <= m => to_string[n] \in Numerals}
<1>16. \A n \in Digits : to_string[n] \in Numerals
    <2>1. \A n \in Digits : to_string[n] = <<n>>
        BY <1>1, <1>14
    <2>2. \A n \in Digits : <<n>> \in Numerals
        BY DEF Numerals
    <2> QED
        BY <2>1, <2>2, Zenon
<1>17. 0 \in T
    BY <1>1, <1>16
<1>18. ASSUME NEW m \in Nat, m \in T PROVE m + 1 \in T
    <2> SUFFICES ASSUME m + 1 \in 0 .. N, m + 1 \notin Digits PROVE to_string[m + 1] \in Numerals
        <3>1. \A n \in 0 .. N : n <= m + 1 => n <= m \/ n = m + 1
            BY <1>1
        <3> QED
            BY <3>1, <1>1, <1>16, <1>18
    <2>1. q[m + 1] \in 0 .. m /\ q[m + 1] \in 0 .. N
        BY <1>2, <1>11
    <2>2. to_string[q[m + 1]] \in Numerals
        BY <1>18, <2>1
    <2> QED
        BY <1>7, <1>14, <2>2
<1> HIDE DEF T
<1>19. Nat \subseteq T
    BY <1>17, <1>18, NatInd
<1>20. \A n \in 0 .. N : to_string[n] \in Numerals
    BY <1>1, <1>19 DEF T
<1>21. \A n \in Digits : n \in 0 .. N /\ to_string[n] = <<n>>
    BY <1>1, <1>14
<1>22. \A n \in 0 .. N : n \notin Digits =>
          to_string[n] = Append(to_string[n \div Radix], n % Radix)
    BY <1>5, <1>14, Zenon
<1>23. Numbers = 0 .. N
    BY DEF Numbers
<1> HIDE DEF N
<1> QED
    BY <1>15, <1>20, <1>21, <1>22, <1>23, Zenon

\* One digit more, except behind a 0.
LEMMA PrintedDigit ==
    ASSUME NEW n \in Numbers, NEW c \in Digits, n # 0, n * Radix + c <= OctetMax
    PROVE  /\ n * Radix + c \in Numbers
           /\ to_string[n * Radix + c] = Append(to_string[n], c)
<1>1. n \in Nat /\ n >= 1 /\ c \in 0 .. Radix - 1 /\ Radix \in Nat /\ Radix > 1
    BY Constants DEF Numbers, Digits
<1>2. n * Radix \in Nat /\ n * Radix >= Radix
    BY <1>1
<1>3. n * Radix + c \in Numbers /\ n * Radix + c \notin Digits
    BY <1>1, <1>2, Constants DEF Numbers, Digits
<1>4. (n * Radix + c) \div Radix = n /\ (n * Radix + c) % Radix = c
    <2>1. n * Radix + c \in Nat /\ Radix > 0
        BY <1>1
    <2> QED
        BY ONLY <1>1, <2>1, Division
<1>5. to_string[n * Radix + c] =
          Append(to_string[(n * Radix + c) \div Radix], (n * Radix + c) % Radix)
    BY <1>3, Printed, Zenon
<1> QED
    BY <1>3, <1>4, <1>5, Zenon

\* Power is what its definition says.
LEMMA Powers ==
    /\ Power \in [0 .. Parts -> Nat \ {0}]
    /\ Power[0] = 1
    /\ \A k \in 1 .. Parts : Power[k] = Bytes * Power[k - 1]
<1> DEFINE G(f) == [k \in 0 .. Parts |-> IF k = 0 THEN 1 ELSE Bytes * f[k - 1]]
           S == Nat \ {0}
           First == {0}
           base == [k \in 0 .. Parts |-> 1]
           prev == [k \in 0 .. Parts |-> k - 1]
           g == [x \in (0 .. Parts) \X S |-> Bytes * x[2]]
<1>1. Parts \in Nat /\ Bytes \in Nat /\ Bytes > 0
    BY Constants
<1>2. \A s \in S : Bytes * s \in S
    BY <1>1
<1>3. /\ Parts \in Nat
      /\ base \in [0 .. Parts -> S]
      /\ \A k \in 0 .. Parts : k \notin First => prev[k] \in 0 .. k - 1
      /\ g \in [(0 .. Parts) \X S -> S]
    BY <1>1, <1>2
<1>4. Recursive(Parts, S, First, base, prev, g) # {}
    <2> HIDE DEF S, First, base, prev, g
    <2> QED
        BY ONLY <1>3, Recursion
<1>5. PICK f \in [0 .. Parts -> S] : \A k \in 0 .. Parts :
          f[k] = IF k \in First THEN base[k] ELSE g[<<k, f[prev[k]]>>]
    <2> HIDE DEF S, First, base, prev, g
    <2> QED
        BY <1>4 DEF Recursive
<1>6. \A k \in 0 .. Parts : f[k] = IF k = 0 THEN 1 ELSE Bytes * f[k - 1]
    <2> SUFFICES ASSUME NEW k \in 0 .. Parts, k # 0 PROVE f[k] = Bytes * f[k - 1]
        BY <1>5
    <2>1. k - 1 \in 0 .. Parts /\ prev[k] = k - 1 /\ k \notin First
        BY <1>1
    <2>2. f[k] = g[<<k, f[k - 1]>>]
        BY <1>5, <2>1
    <2>3. f[k - 1] \in S
        BY <2>1, <1>5
    <2> QED
        BY <2>1, <2>2, <2>3
<1>7. f = G(f)
    BY <1>6
<1>8. Power = G(Power)
    <2>1. Power = CHOOSE h : h = G(h)
        BY Zenon DEF Power
    <2> HIDE DEF G
    <2> QED
        BY <1>7, <2>1
<1>9. Power[0] = 1 /\ \A k \in 1 .. Parts : Power[k] = Bytes * Power[k - 1]
    BY <1>1, <1>8
<1>10. Power = [k \in 0 .. Parts |-> Power[k]]
    BY <1>8
<1> DEFINE T == {k \in Nat : k <= Parts => Power[k] \in S}
<1>11. 0 \in T
    BY <1>9
<1>12. ASSUME NEW k \in Nat, k \in T PROVE k + 1 \in T
    <2> SUFFICES ASSUME k + 1 <= Parts PROVE Power[k + 1] \in S
        OBVIOUS
    <2>1. Power[k + 1] = Bytes * Power[k]
        BY <1>1, <1>9
    <2>2. Power[k] \in S
        BY <1>1, <1>12
    <2> QED
        BY <1>2, <2>1, <2>2
<1> HIDE DEF T
<1>13. Nat \subseteq T
    BY <1>11, <1>12, NatInd
<1>14. \A k \in 0 .. Parts : Power[k] \in S
    BY <1>1, <1>13 DEF T
<1> QED
    BY <1>9, <1>10, <1>14

\* The numbers of k octets.
NumbersOf(k) == 0 .. Power[k] - 1

\* A number of k octets is one of k - 1 octets and one more.
LEMMA Octets ==
    ASSUME NEW k \in 1 .. Parts
    PROVE  /\ \A n \in NumbersOf(k) :
                 n \div Bytes \in NumbersOf(k - 1) /\ n % Bytes \in Numbers
           /\ \A n \in NumbersOf(k - 1), v \in Numbers :
                 /\ n * Bytes + v \in NumbersOf(k)
                 /\ (n * Bytes + v) \div Bytes = n
                 /\ (n * Bytes + v) % Bytes = v
<1>1. Bytes \in Nat /\ Bytes > 0 /\ Numbers = 0 .. Bytes - 1
    BY Constants DEF Numbers, Bytes
<1> DEFINE p == Power[k - 1]
<1>2. p \in Nat /\ p > 0 /\ Power[k] = Bytes * p
    <2>1. k - 1 \in 0 .. Parts
        BY Constants
    <2> QED
        BY <2>1, Powers
<1> HIDE DEF p
<1>3. NumbersOf(k - 1) = 0 .. p - 1 /\ NumbersOf(k) = 0 .. Bytes * p - 1
    BY <1>2 DEF NumbersOf, p
<1>4. ASSUME NEW n \in NumbersOf(k)
      PROVE  n \div Bytes \in NumbersOf(k - 1) /\ n % Bytes \in Numbers
    <2>1. n \in Nat /\ n < Bytes * p
        BY <1>1, <1>2, <1>3
    <2>2. PICK q \in Nat, r \in 0 .. Bytes - 1 : n \div Bytes = q /\ n % Bytes = r /\ n = q * Bytes + r
        BY ONLY <1>1, <2>1, Division
    <2>3. q < p
        <3> SUFFICES ASSUME q >= p PROVE FALSE
            BY <1>2
        <3>1. q * Bytes >= p * Bytes /\ p * Bytes = Bytes * p /\ q * Bytes \in Nat /\ p * Bytes \in Nat
            BY <1>1, <1>2
        <3> QED
            BY <2>1, <2>2, <3>1, <1>1
    <2> QED
        BY <1>1, <1>2, <1>3, <2>2, <2>3
<1>5. ASSUME NEW n \in NumbersOf(k - 1), NEW v \in Numbers
      PROVE  /\ n * Bytes + v \in NumbersOf(k)
             /\ (n * Bytes + v) \div Bytes = n
             /\ (n * Bytes + v) % Bytes = v
    <2>1. n \in Nat /\ n <= p - 1 /\ v \in 0 .. Bytes - 1
        BY <1>1, <1>2, <1>3
    <2>2. n * Bytes \in Nat /\ n * Bytes <= (p - 1) * Bytes /\ (p - 1) * Bytes = Bytes * p - Bytes
          /\ Bytes * p \in Nat
        BY <1>1, <1>2, <2>1
    <2>3. n * Bytes + v \in Nat /\ n * Bytes + v <= Bytes * p - 1
        BY <1>1, <2>1, <2>2
    <2>4. (n * Bytes + v) \div Bytes = n /\ (n * Bytes + v) % Bytes = v
        BY ONLY <1>1, <2>1, <2>3, Division
    <2> QED
        BY <1>3, <2>2, <2>3, <2>4
<1> QED
    BY <1>4, <1>5

LEMMA OctetsOf ==
    ASSUME NEW k \in 1 .. Parts, NEW n \in NumbersOf(k)
    PROVE  \E q \in NumbersOf(k - 1), v \in Numbers : n = q * Bytes + v
<1>1. n \div Bytes \in NumbersOf(k - 1) /\ n % Bytes \in Numbers
    BY Octets
<1>2. n = (n \div Bytes) * Bytes + (n % Bytes)
    <2>1. n \in Nat /\ Bytes \in Nat /\ Bytes > 0
        BY Constants, Powers DEF NumbersOf
    <2> QED
        BY ONLY <2>1, Division
<1> QED
    BY <1>1, <1>2

Characters == Seq(Chars)

\* dotted[k][n]: the k octets of n, the highest first, each with a dot behind it.
dotted ==
    CHOOSE f \in [0 .. Parts -> [Nat -> Characters]] :
        /\ f[0] = [n \in Nat |-> <<>>]
        /\ \A k \in 1 .. Parts : f[k] =
              [n \in Nat |-> f[k - 1][n \div Bytes] \o to_string[n % Bytes] \o <<Dot>>]

LEMMA Joined ==
    /\ \A v \in Numbers : to_string[v] \in Characters
    /\ <<Dot>> \in Characters /\ <<>> \in Characters
    /\ \A c \in Chars : <<c>> \in Characters
    /\ \A s, t \in Characters : s \o t \in Characters
    /\ \A s \in Characters, c \in Chars : Append(s, c) \in Characters /\ Append(s, c) = s \o <<c>>
<1>1. \A s \in Seq(Digits) : s \in Characters
    BY Constants, SeqMonotonic DEF Characters
<1>2. \A v \in Numbers : to_string[v] \in Characters
    BY <1>1, Printed DEF Numerals
<1>3. <<>> \in Characters /\ (\A c \in Chars : <<c>> \in Characters) /\ Dot \in Chars
    BY Constants DEF Characters
<1>4. \A s, t \in Characters : s \o t \in Characters
    BY ConcatProperties DEF Characters
<1>5. \A s \in Characters, c \in Chars : Append(s, c) \in Characters /\ Append(s, c) = s \o <<c>>
    BY AppendProperties, AppendIsConcat DEF Characters
<1> QED
    BY <1>2, <1>3, <1>4, <1>5

LEMMA Dotted ==
    /\ \A k \in 0 .. Parts, n \in Nat : dotted[k][n] \in Characters
    /\ \A n \in Nat : dotted[0][n] = <<>>
    /\ \A k \in 1 .. Parts, n \in Nat : dotted[k][n] =
          dotted[k - 1][n \div Bytes] \o to_string[n % Bytes] \o <<Dot>>
<1> DEFINE S == [Nat -> Characters]
           q == [n \in Nat |-> n \div Bytes]
           d == [n \in Nat |-> n % Bytes]
           More(f) == [n \in Nat |-> f[q[n]] \o to_string[d[n]] \o <<Dot>>]
           First == {0}
           base == [k \in 0 .. Parts |-> [n \in Nat |-> <<>>]]
           prev == [k \in 0 .. Parts |-> k - 1]
           g == [x \in (0 .. Parts) \X S |-> More(x[2])]
<1>1. Parts \in Nat
    BY Constants
<1>2. \A n \in Nat : q[n] \in Nat /\ d[n] \in Numbers
    <2> SUFFICES ASSUME NEW n \in Nat PROVE n \div Bytes \in Nat /\ n % Bytes \in Numbers
        OBVIOUS
    <2>1. Bytes \in Nat /\ Bytes > 0 /\ Numbers = 0 .. Bytes - 1
        BY Constants DEF Numbers, Bytes
    <2> QED
        BY <2>1, Division
<1>3. \A n \in Nat : q[n] = n \div Bytes /\ d[n] = n % Bytes
    BY Zenon
<1>4. \A f : More(f) = [n \in Nat |-> f[n \div Bytes] \o to_string[n % Bytes] \o <<Dot>>]
    BY <1>3, Zenon
<1> HIDE DEF q, d
<1>5. \A f \in S : More(f) \in S
    BY <1>2, Joined
<1> HIDE DEF More
<1>6. base \in [0 .. Parts -> S]
    BY Joined
<1>7. \A k \in 0 .. Parts : k \notin First => prev[k] \in 0 .. k - 1
    BY <1>1
<1>8. g \in [(0 .. Parts) \X S -> S]
    BY <1>5
<1>9. Recursive(Parts, S, First, base, prev, g) # {}
    <2> HIDE DEF S, First, base, prev, g
    <2> QED
        BY ONLY <1>1, <1>6, <1>7, <1>8, Recursion
<1>10. PICK f \in [0 .. Parts -> S] : \A k \in 0 .. Parts :
          f[k] = IF k \in First THEN base[k] ELSE g[<<k, f[prev[k]]>>]
    <2> HIDE DEF S, First, base, prev, g
    <2> QED
        BY <1>9 DEF Recursive
<1>11. f[0] = [n \in Nat |-> <<>>]
    <2>1. 0 \in 0 .. Parts
        BY <1>1
    <2> QED
        BY <1>10, <2>1
<1>12. ASSUME NEW k \in 1 .. Parts PROVE f[k] = More(f[k - 1])
    <2> HIDE DEF S
    <2>1. k - 1 \in 0 .. Parts /\ k \in 0 .. Parts /\ prev[k] = k - 1 /\ k \notin First
        BY <1>1
    <2>2. f[k] = g[<<k, f[k - 1]>>] /\ f[k - 1] \in S
        BY <1>10, <2>1
    <2> QED
        BY <2>1, <2>2
<1>13. \E h \in [0 .. Parts -> S] :
          /\ h[0] = [n \in Nat |-> <<>>]
          /\ \A k \in 1 .. Parts : h[k] = More(h[k - 1])
    BY <1>11, <1>12
<1>14. dotted = CHOOSE h \in [0 .. Parts -> S] :
          /\ h[0] = [n \in Nat |-> <<>>]
          /\ \A k \in 1 .. Parts : h[k] = More(h[k - 1])
    BY <1>4, Zenon DEF dotted
<1>15. /\ dotted \in [0 .. Parts -> S]
       /\ dotted[0] = [n \in Nat |-> <<>>]
       /\ \A k \in 1 .. Parts : dotted[k] = More(dotted[k - 1])
    BY <1>13, <1>14, ZenonT(30)
<1>16. ASSUME NEW k \in 1 .. Parts, NEW n \in Nat
       PROVE  dotted[k][n] = dotted[k - 1][n \div Bytes] \o to_string[n % Bytes] \o <<Dot>>
    BY <1>4, <1>15, ZenonT(30)
<1> QED
    BY <1>15, <1>16

\* One octet more.
LEMMA DottedOctet ==
    ASSUME NEW k \in 1 .. Parts, NEW n \in NumbersOf(k - 1), NEW v \in Numbers
    PROVE  /\ n * Bytes + v \in NumbersOf(k)
           /\ dotted[k][n * Bytes + v] = dotted[k - 1][n] \o to_string[v] \o <<Dot>>
<1> DEFINE m == n * Bytes + v
<1>1. m \in NumbersOf(k) /\ m \div Bytes = n /\ m % Bytes = v
    BY Octets
<1>2. m \in Nat
    <2>1. Power[k] \in Nat
        BY Powers, Constants
    <2> QED
        BY <1>1, <2>1 DEF NumbersOf
<1> HIDE DEF m
<1>3. dotted[k][m] = dotted[k - 1][n] \o to_string[v] \o <<Dot>>
    BY ONLY <1>1, <1>2, Dotted, Zenon
<1> QED
    BY <1>1, <1>3 DEF m

\* Every octet ends with a digit and a dot.
LEMMA DottedEnd ==
    ASSUME NEW k \in 1 .. Parts, NEW n \in Nat
    PROVE  LET s == dotted[k][n]
           IN  Len(s) > 1 /\ s[Len(s)] = Dot /\ s[Len(s) - 1] \in Digits
<1> DEFINE t == dotted[k - 1][n \div Bytes]
           u == to_string[n % Bytes]
           s == dotted[k][n]
<1>1. s = t \o u \o <<Dot>>
    BY Dotted
<1>2. t \in Characters /\ u \in Numerals
    <2>1. Bytes \in Nat /\ Bytes > 0 /\ Numbers = 0 .. Bytes - 1
        BY Constants DEF Numbers, Bytes
    <2>2. n \div Bytes \in Nat /\ n % Bytes \in Numbers
        BY <2>1, Division
    <2>3. k - 1 \in 0 .. Parts
        BY Constants
    <2> QED
        BY <2>2, <2>3, Dotted, Printed
<1> HIDE DEF s, t, u
<1>3. Len(u) \in Nat /\ Len(u) > 0 /\ u[Len(u)] \in Digits /\ u \in Characters
    <2>1. u \in Seq(Digits) /\ u # <<>>
        BY <1>2 DEF Numerals
    <2>2. Len(u) \in Nat \ {0}
        BY <2>1, EmptySeq
    <2>3. u \in Characters
        BY <2>1, Constants, SeqMonotonic DEF Characters
    <2> QED
        BY <2>1, <2>2, <2>3, ElementOfSeq
<1>4. Len(t) \in Nat /\ t \o u \in Characters /\ Len(t \o u) = Len(t) + Len(u)
      /\ (t \o u)[Len(t) + Len(u)] = u[Len(u)]
    BY <1>2, <1>3 DEF Characters
<1>5. \A x \in Characters : Len(x \o <<Dot>>) = Len(x) + 1 /\ (x \o <<Dot>>)[Len(x) + 1] = Dot
          /\ \A i \in 1 .. Len(x) : (x \o <<Dot>>)[i] = x[i]
    BY Joined, Constants DEF Characters
<1>6. Len(s) = Len(t) + Len(u) + 1 /\ s[Len(t) + Len(u) + 1] = Dot
      /\ s[Len(t) + Len(u)] = u[Len(u)]
    BY <1>1, <1>3, <1>4, <1>5
<1>7. Len(s) > 1 /\ s[Len(s)] = Dot /\ s[Len(s) - 1] \in Digits
    BY <1>3, <1>4, <1>6
<1> QED
    BY <1>7 DEF s

----------------------------------------------------------------------------
(* A text without superfluous characters is read as what it would be       *)
(* printed from.                                                           *)

NoLeadingZero(text) == \A i \in 1 .. Len(text) : ~LeadingZero(text, i)

\* What the loops' variables say about the text so far.
ReadSoFar(text, r) ==
    \/ r.at = "throws"
    \/ /\ r.at = "octet"
       /\ r.parts \in 0 .. Parts /\ r.result \in NumbersOf(r.parts)
       /\ text = dotted[r.parts][r.result]
    \/ /\ r.at = "digits"
       /\ r.parts \in 0 .. Parts - 1 /\ r.result \in NumbersOf(r.parts) /\ r.value \in Numbers
       /\ text = dotted[r.parts][r.result] \o to_string[r.value]

LEMMA NumbersOfType ==
    /\ \A k \in 0 .. Parts : NumbersOf(k) \subseteq Nat /\ 0 \in NumbersOf(k)
    /\ NumbersOf(0) = {0}
    /\ Ips = NumbersOf(Parts)
<1>1. \A k \in 0 .. Parts : Power[k] \in Nat \ {0}
    BY Powers
<1> QED
    BY <1>1, Powers DEF NumbersOf, Ips, UINT32_MAX

\* A number that is read on behind a 0 has a leading zero.
LEMMA ZeroBeforeDigit ==
    ASSUME NEW k \in 0 .. Parts, NEW n \in Nat, NEW c \in Digits
    PROVE  ~NoLeadingZero(Append(dotted[k][n] \o to_string[0], c))
<1> DEFINE t == dotted[k][n]
           s == t \o <<0>>
           more == Append(s, c)
<1>1. 0 \in Digits /\ 0 \in Chars /\ c \in Chars /\ to_string[0] = <<0>>
    BY Constants, Printed DEF Digits
<1>2. t \in Characters /\ Len(t) \in Nat
    BY Dotted DEF Characters
<1>3. t = <<>> \/ (Len(t) > 1 /\ t[Len(t)] = Dot)
    <2>1. CASE k = 0
        BY <2>1, Dotted
    <2>2. CASE k \in 1 .. Parts
        BY <2>2, DottedEnd
    <2> QED
        BY <2>1, <2>2
<1> HIDE DEF t
<1>4. s \in Characters /\ Len(s) = Len(t) + 1 /\ s[Len(t) + 1] = 0
      /\ \A i \in 1 .. Len(t) : s[i] = t[i]
    BY <1>1, <1>2 DEF Characters
<1> HIDE DEF s
<1>5. Len(more) = Len(t) + 2 /\ more[Len(t) + 2] = c
      /\ \A i \in 1 .. Len(t) + 1 : more[i] = s[i]
    BY <1>1, <1>2, <1>4 DEF Characters
<1> HIDE DEF more
<1>6. Len(t) = 0 \/ more[Len(t)] = Dot
    <2>1. ASSUME Len(t) > 1, t[Len(t)] = Dot PROVE more[Len(t)] = Dot
        <3>1. Len(t) \in 1 .. Len(t) /\ Len(t) \in 1 .. Len(t) + 1
            BY <1>2, <2>1
        <3> QED
            BY <1>4, <1>5, <2>1, <3>1
    <2>2. t = <<>> => Len(t) = 0
        OBVIOUS
    <2> QED
        BY <1>3, <2>1, <2>2
<1>7. more[Len(t) + 1] = 0
    BY <1>2, <1>4, <1>5
<1>8. LeadingZero(more, Len(t) + 1)
    <2>1. Len(t) + 1 < Len(more) /\ more[Len(t) + 2] \in Digits
          /\ (Len(t) + 1) + 1 = Len(t) + 2 /\ (Len(t) + 1) - 1 = Len(t)
        BY <1>2, <1>5
    <2> QED
        BY <1>2, <1>6, <1>7, <2>1 DEF LeadingZero
<1>9. Len(t) + 1 \in 1 .. Len(more)
    BY <1>2, <1>5
<1>10. ~NoLeadingZero(more)
    BY <1>8, <1>9 DEF NoLeadingZero
<1> QED
    BY <1>1, <1>10 DEF more, s, t

LEMMA SoFarOctet ==
    ASSUME NEW text, NEW p \in 0 .. Parts, NEW v, NEW n \in NumbersOf(p), text = dotted[p][n]
    PROVE  ReadSoFar(text, Loop("octet", p, v, n))
<1> DEFINE r == Loop("octet", p, v, n)
<1>1. r.at = "octet" /\ r.parts = p /\ r.result = n
    BY DEF Loop
<1> HIDE DEF r
<1>2. ReadSoFar(text, r)
    BY <1>1 DEF ReadSoFar
<1> QED
    BY <1>2 DEF r

LEMMA SoFarDigits ==
    ASSUME NEW text, NEW p \in 0 .. Parts - 1, NEW v \in Numbers, NEW n \in NumbersOf(p),
           text = dotted[p][n] \o to_string[v]
    PROVE  ReadSoFar(text, Loop("digits", p, v, n))
<1> DEFINE r == Loop("digits", p, v, n)
<1>1. r.at = "digits" /\ r.parts = p /\ r.value = v /\ r.result = n
    BY DEF Loop
<1> HIDE DEF r
<1>2. ReadSoFar(text, r)
    BY <1>1 DEF ReadSoFar
<1> QED
    BY <1>2 DEF r

\* One character.
LEMMA ReadsOn ==
    ASSUME NEW text \in Characters, NEW r \in Progress, NEW c \in Chars,
           ReadSoFar(text, r), NoLeadingZero(Append(text, c))
    PROVE  ReadSoFar(Append(text, c), Read(r, c))
<1>1. CASE r.at = "octet" /\ r.parts < Parts /\ c \in Digits
    <2>1. Read(r, c) = Loop("digits", r.parts, c, r.result)
        BY <1>1 DEF Read
    <2>2. r.parts \in 0 .. Parts - 1 /\ r.result \in NumbersOf(r.parts)
          /\ text = dotted[r.parts][r.result]
        BY <1>1, Constants DEF ReadSoFar
    <2>3. c \in Numbers /\ to_string[c] = <<c>>
        BY <1>1, Printed
    <2>4. Append(text, c) = dotted[r.parts][r.result] \o to_string[c]
        BY <2>2, <2>3, Joined
    <2> QED
        BY <2>1, <2>2, <2>3, <2>4, SoFarDigits
<1>2. CASE r.at = "digits" /\ c \in Digits /\ r.value * Radix + c <= OctetMax
    <2>1. Read(r, c) = Loop("digits", r.parts, r.value * Radix + c, r.result)
        BY <1>2 DEF Read
    <2>2. r.parts \in 0 .. Parts - 1 /\ r.result \in NumbersOf(r.parts) /\ r.value \in Numbers
          /\ text = dotted[r.parts][r.result] \o to_string[r.value]
        BY <1>2 DEF ReadSoFar
    <2>3. r.parts \in 0 .. Parts /\ r.result \in Nat
        BY <2>2, NumbersOfType, Constants, SMTT(30)
    <2>4. r.value # 0
        BY <1>2, <2>2, <2>3, ZeroBeforeDigit
    <2>5. r.value * Radix + c \in Numbers
          /\ to_string[r.value * Radix + c] = Append(to_string[r.value], c)
        BY <1>2, <2>2, <2>4, PrintedDigit
    <2>6. Append(text, c) = dotted[r.parts][r.result] \o Append(to_string[r.value], c)
        <3>1. dotted[r.parts][r.result] \in Seq(Chars) /\ to_string[r.value] \in Seq(Chars)
            BY <2>2, <2>3, Dotted, Joined DEF Characters
        <3>2. \A x, y \in Seq(Chars) : Append(x \o y, c) = x \o Append(y, c)
            <4> SUFFICES ASSUME NEW x \in Seq(Chars), NEW y \in Seq(Chars)
                         PROVE  Append(x \o y, c) = x \o Append(y, c)
                OBVIOUS
            <4>1. <<c>> \in Seq(Chars) /\ x \o y \in Seq(Chars)
                BY Joined DEF Characters
            <4>2. Append(x \o y, c) = (x \o y) \o <<c>> /\ Append(y, c) = y \o <<c>>
                BY <4>1, Joined DEF Characters
            <4> QED
                BY <4>1, <4>2, ConcatAssociative
        <3> QED
            BY <2>2, <3>1, <3>2
    <2>7. ReadSoFar(Append(text, c), Loop("digits", r.parts, r.value * Radix + c, r.result))
        <3> DEFINE w == r.value * Radix + c
        <3>1. w \in Numbers /\ Append(text, c) = dotted[r.parts][r.result] \o to_string[w]
            BY <2>5, <2>6
        <3> HIDE DEF w
        <3> QED
            BY <2>2, <3>1, SoFarDigits DEF w
    <2> QED
        BY <2>1, <2>7
<1>3. CASE r.at = "digits" /\ c = Dot
    <2>1. Read(r, c) = Loop("octet", r.parts + 1, r.value, r.result * Bytes + r.value)
        BY <1>3, Constants DEF Read, EndOctet
    <2>2. r.parts \in 0 .. Parts - 1 /\ r.result \in NumbersOf(r.parts) /\ r.value \in Numbers
          /\ text = dotted[r.parts][r.result] \o to_string[r.value]
        BY <1>3 DEF ReadSoFar
    <2>3. r.parts + 1 \in 1 .. Parts /\ (r.parts + 1) - 1 = r.parts /\ r.parts + 1 \in 0 .. Parts
        BY <2>2, Constants, SMTT(30)
    <2>4. r.result * Bytes + r.value \in NumbersOf(r.parts + 1)
          /\ dotted[r.parts + 1][r.result * Bytes + r.value]
                = dotted[r.parts][r.result] \o to_string[r.value] \o <<Dot>>
        <3> DEFINE k == r.parts + 1
        <3>1. k \in 1 .. Parts /\ r.result \in NumbersOf(k - 1) /\ k - 1 = r.parts
            BY <2>2, <2>3
        <3> HIDE DEF k
        <3>2. r.result * Bytes + r.value \in NumbersOf(k)
              /\ dotted[k][r.result * Bytes + r.value]
                    = dotted[k - 1][r.result] \o to_string[r.value] \o <<Dot>>
            BY <2>2, <3>1, DottedOctet
        <3> QED
            BY <3>1, <3>2 DEF k
    <2>5. Append(text, c) = text \o <<Dot>>
        BY <1>3, Joined
    <2>6. ReadSoFar(Append(text, c),
                    Loop("octet", r.parts + 1, r.value, r.result * Bytes + r.value))
        <3> DEFINE k == r.parts + 1
                   w == r.result * Bytes + r.value
        <3>1. k \in 0 .. Parts /\ w \in NumbersOf(k)
            BY <2>3, <2>4
        <3>2. Append(text, c) = dotted[k][w]
            <4>1. Append(text, c) = dotted[r.parts][r.result] \o to_string[r.value] \o <<Dot>>
                BY <2>2, <2>5
            <4> QED
                BY <2>4, <4>1, Zenon
        <3> HIDE DEF k, w
        <3> QED
            BY <3>1, <3>2, SoFarOctet DEF k, w
    <2> QED
        BY <2>1, <2>6
<1>4. CASE Read(r, c) = Failed
    <2>1. Read(r, c).at = "throws"
        BY <1>4 DEF Failed, Loop
    <2> QED
        BY ONLY <2>1 DEF ReadSoFar
<1> QED
    BY <1>1, <1>2, <1>3, <1>4 DEF Read

LEMMA LongerText ==
    ASSUME NEW n \in Nat, NEW s \in Characters, Len(s) = n + 1
    PROVE  \E t \in Characters, c \in Chars : s = Append(t, c) /\ Len(t) = n
<1>1. s \in Seq(Chars) /\ s # <<>>
    BY DEF Characters
<1>2. PICK t \in Seq(Chars), c \in Chars : s = Append(t, c)
    BY ONLY <1>1, SequenceEmptyOrAppend
<1>3. Len(t) = n
    BY <1>2
<1> QED
    BY <1>2, <1>3 DEF Characters

\* Any number of characters.
LEMMA ReadsPlain ==
    ASSUME NEW text \in Characters, NoLeadingZero(text)
    PROVE  ReadSoFar(text, ReadAll(text))
<1> DEFINE T == {n \in Nat : \A s \in Characters :
                    Len(s) = n /\ NoLeadingZero(s) => ReadSoFar(s, ReadAll(s))}
<1>1. 0 \in T
    <2> SUFFICES ASSUME NEW s \in Characters, Len(s) = 0 PROVE ReadSoFar(s, ReadAll(s))
        OBVIOUS
    <2>1. s = <<>> /\ ReadAll(<<>>) = Reading
        BY EmptySeq, ReadAllAppend DEF Characters
    <2>2. 0 \in 0 .. Parts /\ 0 \in NumbersOf(0) /\ dotted[0][0] = <<>>
        BY NumbersOfType, Dotted, Constants
    <2> QED
        BY <2>1, <2>2, SoFarOctet DEF Reading
<1>2. ASSUME NEW n \in Nat, n \in T PROVE n + 1 \in T
    <2> SUFFICES ASSUME NEW s \in Characters, Len(s) = n + 1, NoLeadingZero(s)
                 PROVE  ReadSoFar(s, ReadAll(s))
        OBVIOUS
    <2>1. PICK t \in Characters, c \in Chars : s = Append(t, c)
        BY LongerText
    <2>2. Len(t) = n /\ \A i \in 1 .. n : s[i] = t[i]
        BY <2>1 DEF Characters
    <2>3. NoLeadingZero(t)
        <3> SUFFICES ASSUME NEW i \in 1 .. n, LeadingZero(t, i) PROVE FALSE
            BY <2>2 DEF NoLeadingZero
        <3>1. i < n /\ i \in 1 .. n + 1 /\ i < n + 1 /\ i + 1 \in 1 .. n
              /\ (i # 1 => i - 1 \in 1 .. n)
            BY <2>2 DEF LeadingZero
        <3>2. LeadingZero(s, i)
            BY <2>2, <3>1 DEF LeadingZero
        <3> QED
            BY <3>1, <3>2 DEF NoLeadingZero
    <2>4. ReadSoFar(t, ReadAll(t)) /\ ReadAll(t) \in Progress
        BY <1>2, <2>2, <2>3, ReadAllAppend DEF Characters
    <2>5. ReadAll(s) = Read(ReadAll(t), c)
        BY <2>1, ReadAllAppend DEF Characters
    <2> QED
        BY <2>1, <2>4, <2>5, ReadsOn
<1> HIDE DEF T
<1>3. Nat \subseteq T
    BY <1>1, <1>2, NatInd
<1>4. Len(text) \in Nat
    BY DEF Characters
<1> QED
    BY <1>3, <1>4 DEF T

----------------------------------------------------------------------------
(* ToString prints the octets of a number, the lowest first.               *)

\* The octets of n, the highest first: the remainders of what is left of n
\* above them.
LEMMA HighestFirst ==
    ASSUME NEW n \in Ips
    PROVE  \E a \in [1 .. Parts -> Nat] :
              /\ \A k \in 1 .. Parts : a[k] % Bytes = Octet(n, Parts + 1 - k)
              /\ \A k \in 1 .. Parts : k > 1 => a[k] \div Bytes = a[k - 1]
              /\ a[Parts] = n
<1> DEFINE a == [k \in 1 .. Parts |-> n \div Power[Parts - k]]
<1>1. n \in Nat /\ Bytes \in Nat /\ Bytes > 0 /\ Parts \in Nat /\ Parts > 0
    BY Constants, NumbersOfType
<1>2. \A k \in 1 .. Parts : Power[Parts - k] \in Nat /\ Power[Parts - k] > 0
    BY <1>1, Powers
<1>3. a \in [1 .. Parts -> Nat]
    <2> SUFFICES ASSUME NEW k \in 1 .. Parts PROVE n \div Power[Parts - k] \in Nat
        OBVIOUS
    <2> QED
        BY ONLY <1>1, <1>2, Division
<1>4. ASSUME NEW k \in 1 .. Parts PROVE a[k] % Bytes = Octet(n, Parts + 1 - k)
    <2>1. (Parts + 1 - k) - 1 = Parts - k
        BY <1>1
    <2>2. a[k] = n \div Power[Parts - k]
        BY Zenon
    <2> HIDE DEF a
    <2> QED
        BY <2>1, <2>2 DEF Octet
<1>5. ASSUME NEW k \in 1 .. Parts, k > 1 PROVE a[k] \div Bytes = a[k - 1]
    <2> DEFINE p == Power[Parts - k]
    <2>1. k - 1 \in 1 .. Parts /\ Parts - (k - 1) \in 1 .. Parts
          /\ (Parts - (k - 1)) - 1 = Parts - k
        BY <1>1, <1>5
    <2>2. Power[Parts - (k - 1)] = Bytes * p
        BY <2>1, Powers
    <2>3. a[k] = n \div p /\ a[k - 1] = n \div (Bytes * p)
        BY <2>1, <2>2, Zenon
    <2>4. p \in Nat /\ p > 0
        BY <1>2
    <2> HIDE DEF p, a
    <2>5. p * Bytes = Bytes * p
        BY <1>1, <2>4
    <2>6. (n \div p) \div Bytes = n \div (p * Bytes)
        BY ONLY <1>1, <2>4, DivisionTwice
    <2> QED
        BY <2>3, <2>5, <2>6, Zenon
<1>6. a[Parts] = n
    <2>1. Parts \in 1 .. Parts /\ Parts - Parts = 0 /\ Power[0] = 1
        BY <1>1, Powers
    <2>2. a[Parts] = n \div 1
        BY <2>1
    <2> QED
        BY <1>1, <2>2
<1> HIDE DEF a
<1> QED
    BY <1>3, <1>4, <1>5, <1>6

\* A number whose octets are those of n in reverse is printed as dotted has n.
LEMMA PrintsDotted ==
    ASSUME NEW x \in Ips, NEW n \in Ips,
           \A k \in 1 .. Parts : Octet(x, k) = Octet(n, Parts + 1 - k)
    PROVE  ToString(x) \in Characters /\ ToString(x) \o <<Dot>> = dotted[Parts][n]
<1> DEFINE o == [k \in 1 .. Parts |-> Octet(x, k)]
           G(f) == [k \in 1 .. Parts |->
                       IF k = 1 THEN to_string[Octet(x, 1)]
                       ELSE f[k - 1] \o <<Dot>> \o to_string[Octet(x, k)]]
           H(f) == [k \in 1 .. Parts |->
                       IF k = 1 THEN to_string[o[1]] ELSE f[k - 1] \o <<Dot>> \o to_string[o[k]]]
           text == CHOOSE f : f = G(f)
<1>1. Parts \in Nat /\ Parts > 0 /\ Bytes \in Nat /\ Bytes > 0 /\ Numbers = 0 .. Bytes - 1
    BY Constants DEF Numbers, Bytes
<1>2. ToString(x) = text[Parts]
    BY Zenon DEF ToString
<1>3. \A f : G(f) = H(f)
    <2>1. o[1] = Octet(x, 1) /\ \A k \in 1 .. Parts : o[k] = Octet(x, k)
        <3>1. 1 \in 1 .. Parts
            BY <1>1
        <3> QED
            BY <3>1, Zenon
    <2> QED
        BY <2>1, Zenon
<1>4. PICK a \in [1 .. Parts -> Nat] :
          /\ \A k \in 1 .. Parts : a[k] % Bytes = Octet(n, Parts + 1 - k)
          /\ \A k \in 1 .. Parts : k > 1 => a[k] \div Bytes = a[k - 1]
          /\ a[Parts] = n
    BY HighestFirst
<1>5. \A k \in 1 .. Parts : o[k] = a[k] % Bytes
    BY <1>4, Zenon
<1> HIDE DEF o, G, text
<1>6. \A k \in 1 .. Parts : o[k] \in Numbers /\ to_string[o[k]] \in Characters
    <2> SUFFICES ASSUME NEW k \in 1 .. Parts PROVE o[k] \in Numbers
        BY Joined
    <2>1. a[k] \in Nat
        OBVIOUS
    <2>2. a[k] % Bytes \in 0 .. Bytes - 1
        BY ONLY <1>1, <2>1, Division
    <2> QED
        BY <1>1, <1>5, <2>2
<1>7. \E f : f = H(f)
    <2> DEFINE First == {0, 1}
               base == [k \in 0 .. Parts |-> to_string[o[1]]]
               prev == [k \in 0 .. Parts |-> k - 1]
               g == [y \in (0 .. Parts) \X Characters |->
                        IF y[1] \in First THEN <<>> ELSE y[2] \o <<Dot>> \o to_string[o[y[1]]]]
    <2>1. base \in [0 .. Parts -> Characters]
        BY <1>1, <1>6
    <2>2. \A k \in 0 .. Parts : k \notin First => prev[k] \in 0 .. k - 1
        BY <1>1
    <2>3. g \in [(0 .. Parts) \X Characters -> Characters]
        <3>1. \A k \in 0 .. Parts, s \in Characters :
                  k \notin First => s \o <<Dot>> \o to_string[o[k]] \in Characters
            <4> SUFFICES ASSUME NEW k \in 0 .. Parts, NEW s \in Characters, k \notin First
                         PROVE  s \o <<Dot>> \o to_string[o[k]] \in Characters
                OBVIOUS
            <4>1. to_string[o[k]] \in Characters
                BY <1>1, <1>6
            <4>2. s \o <<Dot>> \in Characters
                BY Joined
            <4> QED
                BY <4>1, <4>2, Joined
        <3> QED
            BY <3>1, Joined
    <2>4. Recursive(Parts, Characters, First, base, prev, g) # {}
        <3> HIDE DEF First, base, prev, g
        <3> QED
            BY ONLY <1>1, <2>1, <2>2, <2>3, Recursion
    <2>5. PICK f \in [0 .. Parts -> Characters] : \A k \in 0 .. Parts :
              f[k] = IF k \in First THEN base[k] ELSE g[<<k, f[prev[k]]>>]
        <3> HIDE DEF First, base, prev, g
        <3> QED
            BY <2>4 DEF Recursive
    <2> DEFINE h == [k \in 1 .. Parts |-> f[k]]
    <2>6. h[1] = to_string[o[1]]
        <3>1. 1 \in 0 .. Parts /\ 1 \in 1 .. Parts
            BY <1>1
        <3> QED
            BY <2>5, <3>1
    <2>7. ASSUME NEW k \in 1 .. Parts, k # 1
          PROVE  h[k] = h[k - 1] \o <<Dot>> \o to_string[o[k]]
        <3>1. k \in 0 .. Parts /\ k - 1 \in 0 .. Parts /\ k - 1 \in 1 .. Parts /\ k \notin First
            BY <1>1, <2>7
        <3>2. prev[k] = k - 1
            BY <3>1
        <3>3. f[k] = g[<<k, f[k - 1]>>] /\ f[k - 1] \in Characters
            <4> HIDE DEF First, base, prev, g
            <4> QED
                BY <2>5, <3>1, <3>2
        <3>4. g[<<k, f[k - 1]>>] = f[k - 1] \o <<Dot>> \o to_string[o[k]]
            BY <3>1, <3>3
        <3> QED
            BY <3>1, <3>3, <3>4
    <2> HIDE DEF h
    <2>8. h = [k \in 1 .. Parts |-> h[k]]
        BY DEF h
    <2>9. h = H(h)
        BY <2>6, <2>7, <2>8
    <2> QED
        BY <2>9
<1>8. text = H(text)
    <2>1. \E f : f = G(f)
        BY <1>3, <1>7, Zenon
    <2>2. text = G(text)
        BY <2>1, Zenon DEF text
    <2> QED
        BY <1>3, <2>2, Zenon
<1>9. text[1] = to_string[o[1]]
      /\ \A k \in 1 .. Parts : k > 1 => text[k] = text[k - 1] \o <<Dot>> \o to_string[o[k]]
    <2>1. \A k \in 1 .. Parts : text[k] =
              IF k = 1 THEN to_string[o[1]] ELSE text[k - 1] \o <<Dot>> \o to_string[o[k]]
        BY <1>8, Zenon
    <2>2. 1 \in 1 .. Parts /\ \A k \in 1 .. Parts : k > 1 => k # 1
        BY <1>1
    <2> QED
        BY <2>1, <2>2, Zenon
<1> HIDE DEF H
<1> DEFINE Right(k) == text[k] \in Characters /\ text[k] \o <<Dot>> = dotted[k][a[k]]
           T == {m \in Nat : m + 1 <= Parts => Right(m + 1)}
<1>10. 0 \in T
    <2>1. 1 \in 1 .. Parts /\ a[1] \in Nat /\ 0 + 1 = 1 /\ 1 - 1 = 0
        BY <1>1
    <2>2. dotted[1][a[1]] = dotted[0][a[1] \div Bytes] \o to_string[a[1] % Bytes] \o <<Dot>>
        BY <2>1, Dotted
    <2>3. dotted[0][a[1] \div Bytes] = <<>>
        <3>1. a[1] \div Bytes \in Nat
            BY ONLY <1>1, <2>1, Division
        <3> QED
            BY <3>1, Dotted
    <2>4. to_string[o[1]] \in Characters /\ <<>> \o to_string[o[1]] = to_string[o[1]]
        BY <1>6, <2>1, ConcatEmptySeq DEF Characters
    <2>5. dotted[1][a[1]] = to_string[o[1]] \o <<Dot>>
        BY <1>5, <2>1, <2>2, <2>3, <2>4
    <2>6. Right(1)
        BY <1>9, <2>4, <2>5
    <2> QED
        BY <2>1, <2>6
<1>11. ASSUME NEW m \in Nat, m \in T PROVE m + 1 \in T
    <2> DEFINE k == (m + 1) + 1
    <2> SUFFICES ASSUME k <= Parts PROVE Right(k)
        OBVIOUS
    <2>1. k \in 1 .. Parts /\ k > 1 /\ k - 1 = m + 1 /\ k - 1 \in 1 .. Parts /\ a[k] \in Nat
        BY <1>1
    <2>2. Right(m + 1)
        <3>1. m + 1 <= Parts
            BY <1>1
        <3>2. m + 1 <= Parts => Right(m + 1)
            <4> HIDE DEF k
            <4> QED
                BY <1>11
        <3> QED
            BY <3>1, <3>2
    <2> HIDE DEF k
    <2>3. text[k] = text[k - 1] \o <<Dot>> \o to_string[o[k]]
        BY <1>9, <2>1
    <2>4. text[k] \in Characters
        <3>1. text[k - 1] \o <<Dot>> \in Characters
            BY <2>1, <2>2, Joined
        <3> QED
            BY <1>6, <2>1, <2>3, <3>1, Joined
    <2>5. dotted[k][a[k]] = dotted[k - 1][a[k] \div Bytes] \o to_string[a[k] % Bytes] \o <<Dot>>
        BY <2>1, Dotted
    <2>6. dotted[k][a[k]] = text[k - 1] \o <<Dot>> \o to_string[o[k]] \o <<Dot>>
        BY <1>4, <1>5, <2>1, <2>2, <2>5
    <2> QED
        BY <2>3, <2>4, <2>6
<1> HIDE DEF T
<1>12. Nat \subseteq T
    BY <1>10, <1>11, NatInd
<1>13. Right(Parts)
    <2>1. Parts - 1 \in T /\ (Parts - 1) + 1 = Parts
        BY <1>1, <1>12
    <2> QED
        BY <1>1, <2>1 DEF T
<1> QED
    BY <1>2, <1>4, <1>13

\* In network order and in host order.
LEMMA Printing ==
    /\ \A n \in Ips : htonl[n] \in Ips /\ ToString(n) \in Characters
    /\ \A n \in Ips : ToString(htonl[n]) \o <<Dot>> = dotted[Parts][n]
    /\ \A n \in Ips : ToString(n) \o <<Dot>> = dotted[Parts][htonl[n]]
<1>1. Parts \in Nat /\ Parts > 0
    BY Constants
<1>2. htonl \in [Ips -> Ips]
      /\ \A ip \in Ips, k \in 1 .. Parts : Octet(htonl[ip], k) = Octet(ip, Parts + 1 - k)
    BY UtilsAssumption, Zenon DEF UtilsAssumption
<1>3. ASSUME NEW n \in Ips
      PROVE  /\ htonl[n] \in Ips
             /\ \A k \in 1 .. Parts : Octet(htonl[n], k) = Octet(n, Parts + 1 - k)
             /\ \A k \in 1 .. Parts : Octet(n, k) = Octet(htonl[n], Parts + 1 - k)
    <2>1. htonl[n] \in Ips /\ \A k \in 1 .. Parts : Octet(htonl[n], k) = Octet(n, Parts + 1 - k)
        BY <1>2
    <2>2. ASSUME NEW k \in 1 .. Parts PROVE Octet(n, k) = Octet(htonl[n], Parts + 1 - k)
        <3>1. Parts + 1 - k \in 1 .. Parts /\ Parts + 1 - (Parts + 1 - k) = k
            BY <1>1
        <3> QED
            BY <2>1, <3>1
    <2> QED
        BY <2>1, <2>2
<1>4. ASSUME NEW n \in Ips
      PROVE  ToString(htonl[n]) \o <<Dot>> = dotted[Parts][n]
    BY <1>3, PrintsDotted
<1>5. ASSUME NEW n \in Ips
      PROVE  ToString(n) \in Characters /\ ToString(n) \o <<Dot>> = dotted[Parts][htonl[n]]
    BY <1>3, PrintsDotted
<1> QED
    BY <1>3, <1>4, <1>5

----------------------------------------------------------------------------
(* FromString reads back what ToString prints.                             *)

\* A text with two pieces and a character.
LEMMA AppendConcat ==
    ASSUME NEW s \in Characters, NEW t \in Characters, NEW c \in Chars
    PROVE  Append(s \o t, c) = s \o Append(t, c)
<1>1. <<c>> \in Seq(Chars) /\ s \in Seq(Chars) /\ t \in Seq(Chars) /\ s \o t \in Characters
    BY Joined DEF Characters
<1>2. Append(s \o t, c) = (s \o t) \o <<c>> /\ Append(t, c) = t \o <<c>>
    BY <1>1, Joined
<1>3. (s \o t) \o <<c>> = s \o (t \o <<c>>)
    BY ONLY <1>1, ConcatAssociative
<1> QED
    BY <1>2, <1>3

LEMMA WithoutDot ==
    ASSUME NEW s \in Characters, NEW t \in Characters, s \o <<Dot>> = t \o <<Dot>>
    PROVE  s = t
<1>1. Dot \in Chars /\ Append(s, Dot) = s \o <<Dot>> /\ Append(t, Dot) = t \o <<Dot>>
    BY Constants, Joined
<1>2. s \in Seq(Chars) /\ t \in Seq(Chars) /\ Append(s, Dot) = Append(t, Dot)
    BY <1>1 DEF Characters
<1>3. Len(s) = Len(t) /\ \A i \in 1 .. Len(s) : s[i] = t[i]
    <2>1. Len(Append(s, Dot)) = Len(s) + 1 /\ Len(Append(t, Dot)) = Len(t) + 1
          /\ Len(s) \in Nat /\ Len(t) \in Nat
        BY <1>2
    <2>2. Len(s) = Len(t)
        BY <1>2, <2>1
    <2>3. \A i \in 1 .. Len(s) : Append(s, Dot)[i] = s[i] /\ Append(t, Dot)[i] = t[i]
        BY <1>2, <2>2
    <2> QED
        BY <1>2, <2>2, <2>3
<1> QED
    BY <1>2, <1>3, SeqEqual

\* FromString by what the loops leave.
LEMMA FromStringIs ==
    ASSUME NEW text \in Characters
    PROVE  LET r == ReadAll(text)
           IN  \/ /\ r.at = "digits" /\ r.parts + 1 = Parts
                  /\ FromString(text) = htonl[r.result * Bytes + r.value]
               \/ /\ r.at = "octet" /\ r.parts = Parts
                  /\ FromString(text) = htonl[r.result]
               \/ /\ r.at = "digits" => r.parts + 1 # Parts
                  /\ r.at = "octet" => r.parts # Parts
                  /\ FromString(text) = Invalid
<1> DEFINE r == ReadAll(text)
           end == IF r.at = "digits" THEN EndOctet(r, "octet") ELSE r
<1>1. r \in Progress
    BY ReadAllAppend DEF Characters
<1>2. FromString(text) = IF end.at = "throws" \/ end.parts # Parts THEN Invalid ELSE htonl[end.result]
    BY Zenon DEF FromString
<1> HIDE DEF r
<1>3. CASE r.at = "digits"
    <2>1. end = Loop("octet", r.parts + 1, r.value, r.result * Bytes + r.value)
        BY <1>3 DEF EndOctet
    <2>2. end.at = "octet" /\ end.parts = r.parts + 1 /\ end.result = r.result * Bytes + r.value
        BY <2>1 DEF Loop
    <2> QED
        BY <1>2, <1>3, <2>2 DEF r
<1>4. CASE r.at = "octet"
    <2>1. end = r
        BY <1>4
    <2> QED
        BY <1>2, <1>4, <2>1 DEF r
<1>5. CASE r.at = "throws"
    <2>1. end = r
        BY <1>5
    <2> QED
        BY <1>2, <1>5, <2>1 DEF r
<1> QED
    BY <1>1, <1>3, <1>4, <1>5 DEF Progress

\* An octet, read digit by digit.
LEMMA ReadsOctet ==
    ASSUME NEW s \in Characters, NEW v \in Numbers,
           ReadAll(s).at = "octet", ReadAll(s).parts < Parts
    PROVE  ReadAll(s \o to_string[v]) = Loop("digits", ReadAll(s).parts, v, ReadAll(s).result)
<1> DEFINE r == ReadAll(s)
           Right(w) == ReadAll(s \o to_string[w]) = Loop("digits", r.parts, w, r.result)
           T == {m \in Nat : \A w \in Numbers : w <= m => Right(w)}
<1>1. s \in Seq(Chars) /\ r \in Progress /\ r.at = "octet" /\ r.parts < Parts
    BY ReadAllAppend DEF Characters
<1>2. \A t \in Characters, c \in Chars : ReadAll(Append(t, c)) = Read(ReadAll(t), c)
    BY ReadAllAppend DEF Characters
<1>3. Radix \in Nat /\ Radix > 1 /\ Digits = 0 .. Radix - 1 /\ Digits \subseteq Chars
      /\ OctetMax \in Nat /\ Numbers = 0 .. OctetMax /\ Digits \subseteq Numbers
    BY Constants DEF Digits, Numbers
<1> HIDE DEF r
<1>4. ASSUME NEW w \in Digits PROVE Right(w)
    <2>1. w \in Chars /\ to_string[w] = <<w>> /\ s \o <<w>> = Append(s, w)
        BY <1>3, <1>4, Printed, Joined
    <2>2. ReadAll(s \o to_string[w]) = Read(r, w)
        BY <1>2, <2>1 DEF r
    <2>3. Read(r, w) = Loop("digits", r.parts, w, r.result)
        BY <1>1, <1>4 DEF Read
    <2> QED
        BY <2>2, <2>3
<1>5. ASSUME NEW w \in Numbers, w \notin Digits, \A u \in Numbers : u < w => Right(u)
      PROVE  Right(w)
    <2> DEFINE u == w \div Radix
               d == w % Radix
    <2>1. to_string[w] = Append(to_string[u], d)
        BY <1>5, Printed
    <2>2. u \in Nat /\ d \in 0 .. Radix - 1 /\ w = u * Radix + d /\ u \in 1 .. w - 1
        <3>1. w \in Nat /\ Radix > 0 /\ w >= Radix
            BY <1>3, <1>5
        <3>2. u \in Nat /\ d \in 0 .. Radix - 1 /\ w = u * Radix + d
            BY ONLY <1>3, <3>1, Division
        <3>3. u \in 1 .. w - 1
            BY ONLY <1>3, <3>1, Quotient
        <3> QED
            BY <3>2, <3>3
    <2> HIDE DEF u, d
    <2>3. u \in Numbers /\ u < w /\ d \in Digits /\ d \in Chars
        BY <1>3, <2>2
    <2>4. ReadAll(s \o to_string[u]) = Loop("digits", r.parts, u, r.result)
        BY <1>5, <2>3
    <2>5. to_string[u] \in Characters /\ s \o to_string[u] \in Characters
        BY <2>3, Joined
    <2>6. s \o to_string[w] = Append(s \o to_string[u], d)
        BY <2>1, <2>3, <2>5, AppendConcat, SMTT(30)
    <2>7. ReadAll(s \o to_string[w]) = Read(Loop("digits", r.parts, u, r.result), d)
        BY <1>2, <2>3, <2>4, <2>5, <2>6
    <2>8. Read(Loop("digits", r.parts, u, r.result), d) = Loop("digits", r.parts, w, r.result)
        <3> DEFINE l == Loop("digits", r.parts, u, r.result)
        <3>1. l.at = "digits" /\ l.parts = r.parts /\ l.value = u /\ l.result = r.result
            BY DEF Loop
        <3>2. l.value * Radix + d = w /\ w <= OctetMax
            BY <1>3, <2>2, <3>1
        <3> HIDE DEF l
        <3>3. Read(l, d) = Loop("digits", l.parts, w, l.result)
            BY <2>3, <3>1, <3>2 DEF Read
        <3> QED
            BY <3>1, <3>3 DEF l
    <2> QED
        BY <2>7, <2>8
<1> HIDE DEF Right
<1>6. 0 \in T
    <2>1. \A w \in Numbers : w <= 0 => w \in Digits
        BY <1>3
    <2> QED
        BY <1>4, <2>1
<1>7. ASSUME NEW m \in Nat, m \in T PROVE m + 1 \in T
    <2> SUFFICES ASSUME m + 1 \in Numbers PROVE Right(m + 1)
        <3>1. \A w \in Numbers : w <= m + 1 => w <= m \/ w = m + 1
            BY <1>3
        <3> QED
            BY <1>7, <3>1
    <2>1. \A w \in Numbers : w < m + 1 => w <= m
        BY <1>3
    <2>2. \A w \in Numbers : w < m + 1 => Right(w)
        BY <1>7, <2>1
    <2> QED
        BY <1>4, <1>5, <2>2
<1> HIDE DEF T
<1>8. Nat \subseteq T
    BY <1>6, <1>7, NatInd
<1>9. Right(v)
    <2>1. v \in Nat
        BY <1>3
    <2> QED
        BY <1>8, <2>1 DEF T
<1> QED
    BY <1>9 DEF Right, r

\* All octets.
LEMMA ReadsDotted ==
    ASSUME NEW k \in 0 .. Parts, NEW n \in NumbersOf(k)
    PROVE  /\ ReadAll(dotted[k][n]).at = "octet"
           /\ ReadAll(dotted[k][n]).parts = k
           /\ ReadAll(dotted[k][n]).result = n
<1> DEFINE Right(j, m) == LET r == ReadAll(dotted[j][m])
                          IN  r.at = "octet" /\ r.parts = j /\ r.result = m
           T == {j \in Nat : j <= Parts => \A m \in NumbersOf(j) : Right(j, m)}
<1>1. Parts \in Nat /\ Parts > 0
    BY Constants
<1>2. 0 \in T
    <2> SUFFICES ASSUME NEW m \in NumbersOf(0) PROVE Right(0, m)
        OBVIOUS
    <2>1. m = 0 /\ dotted[0][m] = <<>>
        BY NumbersOfType, Dotted
    <2> QED
        BY <2>1, ReadAllAppend DEF Reading, Loop
<1>3. ASSUME NEW i \in Nat, i \in T PROVE i + 1 \in T
    <2> DEFINE j == i + 1
    <2> SUFFICES ASSUME j <= Parts, NEW m \in NumbersOf(j) PROVE Right(j, m)
        OBVIOUS
    <2>1. j \in 1 .. Parts /\ j - 1 = i /\ i \in 0 .. Parts /\ i < Parts /\ j \in 0 .. Parts
        BY <1>1
    <2>2. \A q \in NumbersOf(i) : Right(i, q)
        BY <1>1, <1>3, <2>1
    <2> HIDE DEF j
    <2>3. PICK q \in NumbersOf(i), v \in Numbers : m = q * Bytes + v
        BY <2>1, OctetsOf
    <2>4. dotted[j][m] = dotted[i][q] \o to_string[v] \o <<Dot>>
        BY <2>1, <2>3, DottedOctet
    <2> DEFINE s == dotted[i][q]
               l == Loop("digits", i, v, q)
    <2>5. s \in Characters /\ to_string[v] \in Characters /\ s \o to_string[v] \in Characters
        BY <2>1, NumbersOfType, Dotted, Joined
    <2>6. ReadAll(s).at = "octet" /\ ReadAll(s).parts = i /\ ReadAll(s).result = q
        BY <2>2
    <2> HIDE DEF s, l
    <2>7. ReadAll(s \o to_string[v]) = l
        BY <2>1, <2>5, <2>6, ReadsOctet DEF l
    <2>8. dotted[j][m] = Append(s \o to_string[v], Dot)
        BY <2>4, <2>5, Constants, Joined DEF s
    <2>9. ReadAll(dotted[j][m]) = Read(l, Dot)
        BY <2>5, <2>7, <2>8, Constants, ReadAllAppend DEF Characters
    <2>10. l.at = "digits" /\ l.parts = i /\ l.value = v /\ l.result = q
        BY DEF l, Loop
    <2>11. Read(l, Dot) = Loop("octet", l.parts + 1, l.value, l.result * Bytes + l.value)
        BY <2>10, Constants DEF Read, EndOctet
    <2>12. ReadAll(dotted[j][m]) = Loop("octet", j, v, m)
        BY <2>3, <2>9, <2>10, <2>11 DEF j
    <2> QED
        BY <2>12 DEF Loop
<1> HIDE DEF T
<1>4. Nat \subseteq T
    BY <1>2, <1>3, NatInd
<1>5. k \in T /\ k <= Parts
    BY <1>1, <1>4
<1>6. Right(k, n)
    BY <1>5 DEF T
<1> QED
    BY <1>6

\* Swapping twice changes nothing.
LEMMA SwappedTwice ==
    ASSUME NEW ip \in Ips
    PROVE  htonl[htonl[ip]] = ip
<1>1. htonl[ip] \in Ips /\ htonl[htonl[ip]] \in Ips
    BY Printing
<1>2. dotted[Parts][htonl[htonl[ip]]] = dotted[Parts][ip]
    BY <1>1, Printing
<1>3. Parts \in 0 .. Parts /\ Ips = NumbersOf(Parts)
    BY Constants, NumbersOfType
<1>4. ReadAll(dotted[Parts][ip]).result = ip
      /\ ReadAll(dotted[Parts][htonl[htonl[ip]]]).result = htonl[htonl[ip]]
    BY <1>1, <1>3, ReadsDotted
<1> QED
    BY <1>2, <1>4

\* An address that is printed in either byte order is read back.
THEOREM ReadBack == \A ip \in Ips : FromString(ToString(ip)) = ip
<1> SUFFICES ASSUME NEW ip \in Ips PROVE FromString(ToString(ip)) = ip
    OBVIOUS
<1> DEFINE n == htonl[ip]
           k == Parts - 1
           text == ToString(ip)
<1>1. n \in Ips /\ text \in Characters /\ text \o <<Dot>> = dotted[Parts][n]
    BY Printing
<1>2. Parts \in 1 .. Parts /\ k \in 0 .. Parts /\ k < Parts /\ k + 1 = Parts /\ Ips = NumbersOf(Parts)
    BY Constants, NumbersOfType
<1> HIDE DEF n, text
<1>3. PICK q \in NumbersOf(k), v \in Numbers : n = q * Bytes + v
    BY <1>1, <1>2, OctetsOf
<1> DEFINE s == dotted[k][q]
<1>4. dotted[Parts][n] = s \o to_string[v] \o <<Dot>>
    BY <1>2, <1>3, DottedOctet
<1>5. s \in Characters /\ to_string[v] \in Characters /\ s \o to_string[v] \in Characters
    BY <1>2, NumbersOfType, Dotted, Joined
<1>6. ReadAll(s).at = "octet" /\ ReadAll(s).parts = k /\ ReadAll(s).result = q
    BY <1>2, ReadsDotted
<1> HIDE DEF s, k
<1>7. text = s \o to_string[v]
    BY <1>1, <1>4, <1>5, WithoutDot
<1>8. ReadAll(text) = Loop("digits", k, v, q)
    BY <1>2, <1>5, <1>6, <1>7, ReadsOctet
<1>9. ReadAll(text).at = "digits" /\ ReadAll(text).parts = k
      /\ ReadAll(text).value = v /\ ReadAll(text).result = q
    BY <1>8 DEF Loop
<1>10. FromString(text) = htonl[q * Bytes + v]
    BY <1>1, <1>2, <1>9, FromStringIs
<1> QED
    BY <1>3, <1>10, SwappedTwice DEF n, text


\* Without superfluous characters there is nothing but what ToString prints.
LEMMA PlainIsPrinted ==
    ASSUME NEW text \in Characters, Plain(text), FromString(text) # Invalid
    PROVE  FromString(text) \in Ips /\ ToString(FromString(text)) = text
<1> DEFINE r == ReadAll(text)
<1>1. NoLeadingZero(text)
    <2>1. DOMAIN text = 1 .. Len(text)
        BY DEF Characters
    <2> QED
        BY <2>1 DEF NoLeadingZero, Plain, Superfluous
<1>2. ReadSoFar(text, r)
    BY <1>1, ReadsPlain
<1>3. Parts \in 1 .. Parts /\ Parts \in Nat /\ Ips = NumbersOf(Parts)
    BY Constants, NumbersOfType
<1> HIDE DEF r
<1>4. CASE r.at = "digits" /\ r.parts + 1 = Parts /\ FromString(text) = htonl[r.result * Bytes + r.value]
    <2>1. /\ r.parts = Parts - 1 /\ r.result \in NumbersOf(Parts - 1) /\ r.value \in Numbers
          /\ text = dotted[Parts - 1][r.result] \o to_string[r.value]
        <3>1. /\ r.parts \in 0 .. Parts - 1 /\ r.result \in NumbersOf(r.parts) /\ r.value \in Numbers
              /\ text = dotted[r.parts][r.result] \o to_string[r.value]
            BY <1>2, <1>4 DEF ReadSoFar
        <3>2. r.parts \in Int /\ r.parts + 1 = Parts /\ Parts \in Nat
            BY <1>3, <1>4, <3>1
        <3>3. r.parts = Parts - 1
            BY ONLY <3>2
        <3> QED
            BY <3>1, <3>3
    <2> DEFINE n == r.result * Bytes + r.value
    <2>2. n \in Ips /\ dotted[Parts][n] = text \o <<Dot>>
        BY <1>3, <2>1, DottedOctet
    <2> HIDE DEF n
    <2>3. ToString(htonl[n]) \in Characters /\ htonl[n] \in Ips
          /\ ToString(htonl[n]) \o <<Dot>> = text \o <<Dot>>
        BY <2>2, Printing
    <2>4. ToString(htonl[n]) = text
        BY <2>3, WithoutDot
    <2> QED
        BY <1>4, <2>3, <2>4 DEF n
<1>5. CASE r.at = "octet" /\ r.parts = Parts
    <2>1. r.result \in Nat /\ text = dotted[Parts][r.result]
        BY <1>2, <1>3, <1>5, NumbersOfType DEF ReadSoFar
    <2>2. Len(text) > 1 /\ text[Len(text)] = Dot /\ text[Len(text) - 1] \in Digits
        BY <1>3, <2>1, DottedEnd
    <2>3. TrailingDot(text, Len(text)) /\ Len(text) \in DOMAIN text
        BY <2>2 DEF TrailingDot, Characters
    <2> QED
        BY <2>3 DEF Plain, Superfluous
<1> QED
    BY <1>4, <1>5, FromStringIs DEF r

\* What follows is read alike if what precedes is.
LEMMA ReadsAlike ==
    ASSUME NEW s \in Characters, NEW t \in Characters, NEW u \in Characters,
           ReadAll(s) = ReadAll(t)
    PROVE  ReadAll(s \o u) = ReadAll(t \o u)
<1> DEFINE T == {n \in Nat : \A x \in Characters :
                    Len(x) = n => ReadAll(s \o x) = ReadAll(t \o x)}
<1>1. 0 \in T
    <2> SUFFICES ASSUME NEW x \in Characters, Len(x) = 0
                 PROVE  ReadAll(s \o x) = ReadAll(t \o x)
        OBVIOUS
    <2>1. x = <<>> /\ s \o <<>> = s /\ t \o <<>> = t
        BY EmptySeq, ConcatEmptySeq DEF Characters
    <2> QED
        BY <2>1
<1>2. ASSUME NEW n \in Nat, n \in T PROVE n + 1 \in T
    <2> SUFFICES ASSUME NEW x \in Characters, Len(x) = n + 1
                 PROVE  ReadAll(s \o x) = ReadAll(t \o x)
        OBVIOUS
    <2>1. PICK y \in Characters, c \in Chars : x = Append(y, c) /\ Len(y) = n
        BY LongerText
    <2>2. s \o x = Append(s \o y, c) /\ t \o x = Append(t \o y, c)
        BY <2>1, AppendConcat, ZenonT(30)
    <2>3. s \o y \in Characters /\ t \o y \in Characters
        BY Joined
    <2>4. ReadAll(s \o x) = Read(ReadAll(s \o y), c) /\ ReadAll(t \o x) = Read(ReadAll(t \o y), c)
        BY <2>2, <2>3, ReadAllAppend DEF Characters
    <2>5. ReadAll(s \o y) = ReadAll(t \o y)
        BY <1>2, <2>1
    <2> QED
        BY <2>4, <2>5
<1> HIDE DEF T
<1>3. Nat \subseteq T
    BY <1>1, <1>2, NatInd
<1>4. Len(u) \in Nat
    BY DEF Characters
<1> QED
    BY <1>3, <1>4 DEF T

\* Behind nothing or a dot the loops are at an octet, or have thrown.
LEMMA AtAnOctet ==
    /\ ReadAll(<<>>) = Reading
    /\ \A s \in Characters : ReadAll(Append(s, Dot)).at \in {"octet", "throws"}
<1>1. \A r \in Progress : Read(r, Dot).at \in {"octet", "throws"}
    BY Constants DEF Read, EndOctet, Failed, Loop, Progress
<1>2. \A s \in Characters : ReadAll(s) \in Progress /\ ReadAll(Append(s, Dot)) = Read(ReadAll(s), Dot)
    BY Constants, ReadAllAppend DEF Characters
<1> QED
    BY <1>1, <1>2, ReadAllAppend

\* Behind a digit they are in the digits, or have thrown.
LEMMA InTheDigits ==
    \A s \in Characters, c \in Digits : ReadAll(Append(s, c)).at \in {"digits", "throws"}
<1>1. \A r \in Progress, c \in Digits : Read(r, c).at \in {"digits", "throws"}
    BY Constants DEF Read, EndOctet, Failed, Loop, Progress
<1>2. \A s \in Characters, c \in Digits :
          ReadAll(s) \in Progress /\ ReadAll(Append(s, c)) = Read(ReadAll(s), c)
    BY Constants, ReadAllAppend DEF Characters
<1> QED
    BY <1>1, <1>2

\* A zero before a digit at the beginning of an octet is as good as nothing.
LEMMA ZeroIsNothing ==
    ASSUME NEW s \in Characters, NEW c \in Digits,
           ReadAll(s).at \in {"octet", "throws"}
    PROVE  ReadAll(Append(Append(s, 0), c)) = ReadAll(Append(s, c))
<1> DEFINE r == ReadAll(s)
<1>1. r \in Progress /\ r.at \in {"octet", "throws"} /\ 0 \in Digits /\ 0 \in Chars /\ c \in Chars
      /\ c <= OctetMax /\ c \in Nat /\ Dot \notin Digits /\ Radix \in Nat
    BY Constants, ReadAllAppend DEF Characters, Digits
<1>2. ReadAll(Append(s, c)) = Read(r, c) /\ ReadAll(Append(Append(s, 0), c)) = Read(Read(r, 0), c)
    <2>1. Append(s, 0) \in Characters
        BY <1>1, Joined
    <2> QED
        BY <1>1, <2>1, ReadAllAppend DEF Characters
<1> HIDE DEF r
<1>3. Read(Failed, c) = Failed
    BY DEF Read, Failed, Loop
<1>4. CASE r.at = "octet" /\ r.parts < Parts
    <2> DEFINE l == Loop("digits", r.parts, 0, r.result)
    <2>1. Read(r, 0) = l /\ Read(r, c) = Loop("digits", r.parts, c, r.result)
        BY <1>1, <1>4 DEF Read
    <2>2. l.at = "digits" /\ l.parts = r.parts /\ l.value = 0 /\ l.result = r.result
        BY DEF Loop
    <2>3. l.value * Radix + c = c
        BY <1>1, <2>2
    <2> HIDE DEF l
    <2>4. Read(l, c) = Loop("digits", l.parts, l.value * Radix + c, l.result)
        BY <1>1, <2>2, <2>3 DEF Read
    <2> QED
        BY <1>2, <2>1, <2>2, <2>3, <2>4
<1>5. CASE ~(r.at = "octet" /\ r.parts < Parts)
    <2>1. Read(r, 0) = Failed /\ Read(r, c) = Failed
        BY <1>1, <1>5 DEF Read
    <2> QED
        BY <1>2, <1>3, <2>1
<1> QED
    BY <1>4, <1>5

\* Neither is a dot behind the last octet.
LEMMA DotIsNothing ==
    ASSUME NEW s \in Characters, ReadAll(s).at \in {"digits", "throws"}
    PROVE  FromString(Append(s, Dot)) = FromString(s)
<1> DEFINE r == ReadAll(s)
           more == Append(s, Dot)
           end == IF r.at = "digits" THEN EndOctet(r, "octet") ELSE r
           l == ReadAll(more)
           last == IF l.at = "digits" THEN EndOctet(l, "octet") ELSE l
<1>1. FromString(s) = IF end.at = "throws" \/ end.parts # Parts THEN Invalid ELSE htonl[end.result]
    BY Zenon DEF FromString
<1>2. FromString(more) = IF last.at = "throws" \/ last.parts # Parts THEN Invalid ELSE htonl[last.result]
    BY Zenon DEF FromString
<1>3. l = Read(r, Dot)
    BY Constants, ReadAllAppend DEF Characters
<1>4. r.at \in {"digits", "throws"} /\ Dot \notin Digits
    BY Constants
<1> HIDE DEF r, l, more
<1>5. CASE r.at = "digits"
    <2>1. l = EndOctet(r, "octet")
        BY <1>3, <1>4, <1>5 DEF Read
    <2>2. l.at = "octet"
        BY <2>1 DEF EndOctet, Loop
    <2>3. last = end
        BY <1>5, <2>1, <2>2
    <2> HIDE DEF last, end
    <2> QED
        BY <1>1, <1>2, <2>3 DEF more
<1>6. CASE r.at = "throws"
    <2>1. l = Failed
        BY <1>3, <1>4, <1>6 DEF Read
    <2>2. last.at = "throws"
        BY <2>1 DEF Failed, Loop
    <2>3. end.at = "throws"
        BY <1>6
    <2> HIDE DEF last, end
    <2> QED
        BY <1>1, <1>2, <2>2, <2>3 DEF more
<1> QED
    BY <1>4, <1>5, <1>6

LEMMA CharacterBetween ==
    ASSUME NEW s \in Characters, NEW c \in Chars, NEW u \in Characters
    PROVE  s \o (<<c>> \o u) = Append(s, c) \o u
<1>1. s \in Seq(Chars) /\ <<c>> \in Seq(Chars) /\ u \in Seq(Chars) /\ Append(s, c) = s \o <<c>>
    BY Joined DEF Characters
<1>2. (s \o <<c>>) \o u = s \o (<<c>> \o u)
    BY ONLY <1>1, ConcatAssociative
<1> QED
    BY <1>1, <1>2

\* The text up to a place, and from there.
LEMMA Pieces ==
    ASSUME NEW text \in Characters, NEW i \in 0 .. Len(text)
    PROVE  LET s == SubSeq(text, 1, i)
               u == SubSeq(text, i + 1, Len(text))
           IN  /\ s \in Characters /\ u \in Characters /\ text = s \o u
               /\ i > 0 => text[i] \in Chars /\ s = Append(SubSeq(text, 1, i - 1), text[i])
               /\ i = 0 => s = <<>>
               /\ i = Len(text) => u = <<>>
<1> DEFINE n == Len(text)
           s == SubSeq(text, 1, i)
           u == SubSeq(text, i + 1, n)
<1>1. text \in Seq(Chars) /\ n \in Nat /\ i \in Nat /\ i <= n
    BY DEF Characters
<1>2. s \in Characters /\ u \in Characters
    BY <1>1, SubSeqProperties DEF Characters
<1>3. text = s \o u
    <2>1. SubSeq(text, 1, i) \o SubSeq(text, i + 1, n) = SubSeq(text, 1, n)
        <3>1. 1 \in 1 .. n + 1 /\ i \in 1 - 1 .. n /\ n \in i .. n
            BY <1>1
        <3> QED
            BY <1>1, <3>1, ConcatAdjacentSubSeq
    <2>2. SubSeq(text, 1, n) = text
        BY <1>1, SubSeqFull
    <2> QED
        BY <2>1, <2>2
<1>4. ASSUME i > 0
      PROVE  text[i] \in Chars /\ s = Append(SubSeq(text, 1, i - 1), text[i])
    <2>1. 1 \in 1 .. n /\ i \in 1 .. n
        BY <1>1, <1>4
    <2>2. SubSeq(text, 1, i) = SubSeq(text, 1, i - 1) \o << text[i] >>
        BY <1>1, <2>1, SubSeqRecursiveSecond
    <2>3. text[i] \in Chars /\ SubSeq(text, 1, i - 1) \in Characters
        BY <1>1, <2>1, SubSeqProperties DEF Characters
    <2> QED
        BY <2>2, <2>3, Joined
<1>5. i = 0 => s = <<>>
    BY <1>1, SubSeqEmpty
<1>6. i = n => u = <<>>
    BY <1>1, SubSeqEmpty
<1> QED
    BY <1>2, <1>3, <1>4, <1>5, <1>6

\* A superfluous character can be left out.
LEMMA SuperfluousIsNothing ==
    ASSUME NEW text \in Characters, NEW i \in Superfluous(text)
    PROVE  LET less == Seqs!RemoveAt(text, i)
           IN  less \in Characters /\ Len(less) = Len(text) - 1 /\ FromString(less) = FromString(text)
<1> DEFINE n == Len(text)
           s == SubSeq(text, 1, i - 1)
           u == SubSeq(text, i + 1, n)
           less == Seqs!RemoveAt(text, i)
<1>1. n \in Nat /\ i \in 1 .. n /\ i - 1 \in 0 .. n /\ i \in 0 .. n /\ (i - 1) + 1 = i
    BY DEF Superfluous, Characters
<1>2. less = s \o u
    BY DEF Seqs!RemoveAt
<1>3. s \in Characters /\ u \in Characters /\ text[i] \in Chars /\ text = Append(s, text[i]) \o u
    <2>1. s \in Characters
        BY <1>1, Pieces
    <2>2. u \in Characters /\ text = SubSeq(text, 1, i) \o u
        BY <1>1, Pieces
    <2>3. i > 0
        BY <1>1
    <2>4. text[i] \in Chars /\ SubSeq(text, 1, i) = Append(s, text[i])
        BY <1>1, <2>3, Pieces
    <2> HIDE DEF s, u
    <2> QED
        BY <2>1, <2>2, <2>4
<1>4. Append(s, text[i]) \in Characters /\ less \in Characters
    BY <1>2, <1>3, Joined
<1>5. Len(less) = n - 1
    <2>1. Len(s) = i - 1 /\ Len(u) = n - i
        BY <1>1, SubSeqProperties DEF Characters
    <2>2. Len(s \o u) = Len(s) + Len(u)
        BY <1>3, ConcatProperties DEF Characters
    <2> HIDE DEF s, u, less
    <2> QED
        BY <1>1, <1>2, <2>1, <2>2
<1>6. i - 1 = 0 => s = <<>>
    BY <1>1, Pieces
<1>7. i - 1 > 0 => s = Append(SubSeq(text, 1, i - 2), text[i - 1])
                   /\ SubSeq(text, 1, i - 2) \in Characters
    <2> SUFFICES ASSUME i - 1 > 0
                 PROVE  s = Append(SubSeq(text, 1, i - 2), text[i - 1])
                        /\ SubSeq(text, 1, i - 2) \in Characters
        OBVIOUS
    <2> DEFINE j == i - 1
    <2>1. j - 1 = i - 2 /\ i - 2 \in 0 .. n /\ j \in 0 .. n /\ j > 0
        BY <1>1
    <2> HIDE DEF j
    <2>2. SubSeq(text, 1, j) = Append(SubSeq(text, 1, j - 1), text[j])
        BY <2>1, Pieces
    <2>3. SubSeq(text, 1, i - 2) \in Characters
        BY <2>1, Pieces
    <2> QED
        BY <2>1, <2>2, <2>3 DEF j
<1>8. CASE LeadingZero(text, i)
    <2> DEFINE c == text[i + 1]
               v == SubSeq(text, i + 2, n)
    <2>1. i + 1 \in 1 .. n /\ text[i] = 0 /\ c \in Digits /\ c \in Chars /\ 0 \in Chars
          /\ (i = 1 \/ text[i - 1] = Dot)
        <3>1. i < n /\ text[i] = 0 /\ c \in Digits /\ (i = 1 \/ text[i - 1] = Dot)
            BY <1>8 DEF LeadingZero
        <3> HIDE DEF c, s, u, less
        <3> QED
            BY <1>1, <1>3, <3>1, Constants
    <2>2. ReadAll(s).at \in {"octet", "throws"}
        <3>1. CASE i = 1
            <4>1. s = <<>>
                BY <1>1, <1>6, <3>1
            <4>2. Reading.at = "octet"
                BY DEF Reading, Loop
            <4> HIDE DEF s
            <4> QED
                BY <4>1, <4>2, AtAnOctet
        <3>2. CASE i # 1
            <4>1. s = Append(SubSeq(text, 1, i - 2), Dot) /\ SubSeq(text, 1, i - 2) \in Characters
                BY <1>1, <1>7, <2>1, <3>2
            <4> QED
                BY <4>1, AtAnOctet
        <3> QED
            BY <3>1, <3>2
    <2>3. u = <<c>> \o v /\ v \in Characters
        <3>1. u = <<c>> \o SubSeq(text, (i + 1) + 1, n) /\ (i + 1) + 1 = i + 2
            <4>1. n \in i + 1 .. n /\ text \in Seq(Chars)
                BY <1>1, <2>1 DEF Characters
            <4> QED
                BY <1>1, <2>1, <4>1, SubSeqRecursiveFirst
        <3>2. SubSeq(text, (i + 1) + 1, n) \in Characters
            <4>1. i + 1 \in 0 .. n
                BY <1>1, <2>1
            <4> QED
                BY <4>1, Pieces
        <3> QED
            BY <3>1, <3>2
    <2> HIDE DEF s, u, less, c, v
    <2>4. Append(s, c) \in Characters /\ Append(s, 0) \in Characters
          /\ Append(Append(s, 0), c) \in Characters
        BY <1>3, <2>1, Joined
    <2>5. less = Append(s, c) \o v
        BY <1>2, <1>3, <2>1, <2>3, CharacterBetween
    <2>6. text = Append(Append(s, 0), c) \o v
        <3>1. Append(s, 0) \o (<<c>> \o v) = Append(Append(s, 0), c) \o v
            BY <2>1, <2>3, <2>4, CharacterBetween
        <3> QED
            BY <1>3, <2>1, <2>3, <3>1
    <2>7. ReadAll(text) = ReadAll(less)
        <3>1. ReadAll(Append(Append(s, 0), c)) = ReadAll(Append(s, c))
            BY <1>3, <2>1, <2>2, ZeroIsNothing
        <3> QED
            BY <2>3, <2>4, <2>5, <2>6, <3>1, ReadsAlike
    <2>8. FromString(text) = FromString(less)
        BY <2>7 DEF FromString
    <2> QED
        BY <1>4, <1>5, <2>8 DEF less
<1>9. CASE TrailingDot(text, i)
    <2>1. i = n /\ i > 1 /\ text[i] = Dot /\ text[i - 1] \in Digits
        BY <1>9 DEF TrailingDot
    <2>2. u = <<>>
        BY <1>1, <2>1, Pieces
    <2>3. less = s /\ text = Append(s, Dot)
        BY <1>2, <1>3, <1>4, <2>1, <2>2, ConcatEmptySeq DEF Characters
    <2>4. ReadAll(s).at \in {"digits", "throws"}
        <3>1. s = Append(SubSeq(text, 1, i - 2), text[i - 1]) /\ SubSeq(text, 1, i - 2) \in Characters
            BY <1>1, <1>7, <2>1
        <3> HIDE DEF s
        <3> QED
            BY <2>1, <3>1, InTheDigits
    <2> HIDE DEF s, u, less
    <2>5. FromString(text) = FromString(less)
        BY <1>3, <2>3, <2>4, DotIsNothing
    <2> QED
        BY <1>4, <1>5, <2>5 DEF less
<1> QED
    BY <1>8, <1>9 DEF Superfluous

\* FromString is the inverse of ToString on all texts without superfluous
\* characters, in one byte order as in the other, throws for all others of them,
\* and takes no notice of superfluous characters: for every size of octets and
\* addresses, and texts of any length.
THEOREM ReadsRight == ReadsWhatIsPrinted
<1> DEFINE printed == {ToString(ip) : ip \in Ips}
<1> SUFFICES ASSUME NEW text \in Spellings
             PROVE  IF Plain(text)
                    THEN IF text \in printed THEN ToString(FromString(text)) = text
                         ELSE FromString(text) = Invalid
                    ELSE \A i \in Superfluous(text) :
                            FromString(text) = FromString(Seqs!RemoveAt(text, i))
    BY DEF ReadsWhatIsPrinted
<1>1. text \in Characters
    BY UtilsAssumption DEF UtilsAssumption, Characters
<1>2. CASE Plain(text) /\ text \in printed
    <2>1. PICK ip \in Ips : text = ToString(ip)
        BY <1>2
    <2> QED
        BY <1>2, <2>1, ReadBack
<1>3. CASE Plain(text) /\ text \notin printed
    BY <1>1, <1>3, PlainIsPrinted
<1>4. CASE ~Plain(text)
    BY <1>1, <1>4, SuperfluousIsNothing
<1> QED
    BY <1>2, <1>3, <1>4

\* What an accepted text stands for is printed with as many characters if none
\* of its own are superfluous, and with fewer if some are.
LEMMA PrintedIsShorter ==
    ASSUME NEW text \in Characters, FromString(text) # Invalid
    PROVE  /\ FromString(text) \in Ips
           /\ Len(ToString(FromString(text))) <= Len(text)
           /\ ~Plain(text) => Len(ToString(FromString(text))) < Len(text)
<1> DEFINE Right(s) == /\ FromString(s) \in Ips
                       /\ Len(ToString(FromString(s))) <= Len(s)
                       /\ ~Plain(s) => Len(ToString(FromString(s))) < Len(s)
           T == {n \in Nat : \A s \in Characters :
                    Len(s) = n /\ FromString(s) # Invalid => Right(s)}
<1>1. ASSUME NEW s \in Characters, Plain(s), FromString(s) # Invalid
      PROVE  Right(s)
    <2>1. FromString(s) \in Ips /\ ToString(FromString(s)) = s
        BY <1>1, PlainIsPrinted
    <2>2. Len(s) \in Nat
        BY DEF Characters
    <2> QED
        BY <1>1, <2>1, <2>2
<1>2. ASSUME NEW s \in Characters, ~Plain(s), FromString(s) # Invalid
      PROVE  \E less \in Characters :
                /\ Len(less) = Len(s) - 1 /\ FromString(less) = FromString(s)
                /\ Right(less) => Right(s)
    <2>1. PICK i \in Superfluous(s) : TRUE
        BY <1>2 DEF Plain
    <2>2. PICK less \in Characters : Len(less) = Len(s) - 1 /\ FromString(less) = FromString(s)
        BY <2>1, SuperfluousIsNothing
    <2>3. Len(s) \in Nat
        BY DEF Characters
    <2>4. ASSUME Right(less) PROVE Right(s)
        <3>1. Len(ToString(FromString(s))) \in Nat
            BY <2>2, <2>4, Printing DEF Characters
        <3>2. Len(ToString(FromString(s))) < Len(s)
            BY <2>2, <2>3, <2>4, <3>1
        <3> QED
            BY <2>2, <2>3, <2>4, <3>1, <3>2
    <2> QED
        BY <2>2, <2>4
<1> HIDE DEF Right
<1>3. 0 \in T
    <2> SUFFICES ASSUME NEW s \in Characters, Len(s) = 0, FromString(s) # Invalid PROVE Right(s)
        OBVIOUS
    <2>1. Plain(s)
        BY DEF Plain, Superfluous, Characters
    <2> QED
        BY <1>1, <2>1
<1>4. ASSUME NEW n \in Nat, n \in T PROVE n + 1 \in T
    <2> SUFFICES ASSUME NEW s \in Characters, Len(s) = n + 1, FromString(s) # Invalid, ~Plain(s)
                 PROVE  Right(s)
        BY <1>1
    <2>1. PICK less \in Characters :
              /\ Len(less) = Len(s) - 1 /\ FromString(less) = FromString(s)
              /\ Right(less) => Right(s)
        BY <1>2
    <2> QED
        BY <1>4, <2>1
<1> HIDE DEF T
<1>5. Nat \subseteq T
    BY <1>3, <1>4, NatInd
<1>6. Len(text) \in Nat
    BY DEF Characters
<1>7. Right(text)
    BY <1>5, <1>6 DEF T
<1> QED
    BY <1>7 DEF Right

\* FromString gives an address or throws.
THEOREM FromStringType == \A text \in Characters : FromString(text) \in Ips \cup {Invalid}
<1> QED
    BY PrintedIsShorter

\* An address is printed the way it was read if and only if the text had no
\* superfluous characters.
THEOREM PlainIffPrinted ==
    \A text \in Characters :
        FromString(text) # Invalid => (ToString(FromString(text)) = text <=> Plain(text))
<1> SUFFICES ASSUME NEW text \in Characters, FromString(text) # Invalid
             PROVE  ToString(FromString(text)) = text <=> Plain(text)
    OBVIOUS
<1>1. CASE Plain(text)
    BY <1>1, PlainIsPrinted
<1>2. CASE ~Plain(text)
    <2>1. Len(ToString(FromString(text))) < Len(text) /\ Len(text) \in Nat
        BY <1>2, PrintedIsShorter DEF Characters
    <2> QED
        BY <1>2, <2>1
<1> QED
    BY <1>1, <1>2

=============================================================================
