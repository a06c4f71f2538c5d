------------------------------- MODULE QRMath -------------------------------
(***************************************************************************)
(* The arithmetic of the QR code library (src/web/qrcode.js): the field of *)
(* 256 elements through its tables of powers and logarithms, polynomials   *)
(* over it (the highest coefficient first), the generator polynomial of    *)
(* the Reed-Solomon code, and the BCH words of the format and type number. *)
(***************************************************************************)
EXTENDS Integers, Sequences, SequencesExt

\* The bitwise exclusive or of two naturals.
Xor[a, b \in Nat] == IF a = 0 THEN b ELSE IF b = 0 THEN a
                    ELSE ((a + b) % 2) + 2 * Xor[a \div 2, b \div 2]

\* EXP_TABLE as a sequence: position i + 1 holds the i-th power.  An entry
\* depends on those four, five, six and eight before it, so the recursion
\* takes four entries at a time.
ExpTable[n \in Nat] ==
  IF n <= 8 THEN [i \in 1..8 |-> 2^(i - 1)]
  ELSE LET t == ExpTable[n - 4]
           next(i) == Xor[Xor[t[i - 4], t[i - 5]], Xor[t[i - 6], t[i - 8]]]
       IN  t \o [k \in 1..4 |-> next(n - 4 + k)]

EXP_TABLE == ExpTable[256]

\* LOG_TABLE: built from the first 255 powers, the last writer wins.
LOG_TABLE == [n \in 1..255 |-> CHOOSE i \in 0..254 : EXP_TABLE[i + 1] = n]

glog(n) == LOG_TABLE[n]

\* gexp reduces its argument by 255 only from 256 on, and raises it from below 0.
gexp(n) == EXP_TABLE[1 + CASE n < 0 -> n % 255
                           [] n >= 256 -> ((n - 1) % 255) + 1
                           [] OTHER -> n]

\* The constructor qrPolynomial: leading zeros go, shift zeros are added.
Polynomial(num, shift) ==
  LET lead == SelectInSeq(num, LAMBDA x : x # 0)
  IN  SubSeq(num, IF lead = 0 THEN Len(num) + 1 ELSE lead, Len(num)) \o [i \in 1..shift |-> 0]

\* multiply and mod.
Product(a, b) ==
  LET term(k, i) == IF k - i \in 1..Len(b)
                    THEN gexp(glog(a[i]) + glog(b[k - i])) ELSE 0
      sum(k) == FoldLeft(LAMBDA acc, i : Xor[acc, term(k, i)], 0, [i \in 1..Len(a) |-> i])
  IN  Polynomial([k \in 1..(Len(a) + Len(b) - 1) |-> sum(k + 1)], 0)

Remainder(a, e) ==
  LET mod[r \in Seq(Nat)] ==
        IF Len(r) < Len(e) THEN r
        ELSE LET ratio == glog(r[1]) - glog(e[1])
                 num == [i \in 1..Len(r) |->
                           IF i > Len(e) THEN r[i] ELSE Xor[r[i], gexp(glog(e[i]) + ratio)]]
             IN  mod[Polynomial(num, 0)]
  IN  mod[a]

ErrorCorrectPolynomial[length \in Nat] ==
  IF length = 0 THEN <<1>>
  ELSE Product(ErrorCorrectPolynomial[length - 1], <<1, gexp(length - 1)>>)

\* getBCHDigit: the number of binary digits.
BCHDigit[data \in Nat] == IF data = 0 THEN 0 ELSE 1 + BCHDigit[data \div 2]

BCHRemainder[d, g \in Nat] ==
  IF BCHDigit[d] < BCHDigit[g] THEN d
  ELSE BCHRemainder[Xor[d, g * 2^(BCHDigit[d] - BCHDigit[g])], g]

G15 == 2^10 + 2^8 + 2^5 + 2^4 + 2^2 + 2 + 1
G18 == 2^12 + 2^11 + 2^10 + 2^9 + 2^8 + 2^5 + 2^2 + 1
G15_MASK == 2^14 + 2^12 + 2^10 + 2^4 + 2

\* Mutation: the remainder is left out.
BareInfo(data) == Xor[data * 2^10, G15_MASK]

\* The words: data, remainder, and a mask on the format word.
BCHTypeInfo(data) == Xor[data * 2^10 + BCHRemainder[data * 2^10, G15], G15_MASK]
BCHTypeNumber(data) == data * 2^12 + BCHRemainder[data * 2^12, G18]

Bit(n, i) == (n \div 2^i) % 2
=============================================================================
