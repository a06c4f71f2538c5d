------------------------------ MODULE QRReader ------------------------------
(***************************************************************************)
(* What a scanner makes of a QR code symbol: the reference against which   *)
(* the symbols of the library are checked.  It follows the reading order   *)
(* of the QR code standard and shares with the library only the number of  *)
(* codewords per block.  A symbol is a function [row][col] to 0 or 1.      *)
(***************************************************************************)
EXTENDS QRTables, FiniteSets

Unreadable == <<[mode |-> "unreadable", chars |-> <<>>]>>

\* Addition in the field: the bits in which two numbers differ.
Plus[a, b \in Nat] == IF a + b = 0 THEN 0
                     ELSE (IF a % 2 = b % 2 THEN 0 ELSE 1) + 2 * Plus[a \div 2, b \div 2]

Minimum(a, b) == IF a < b THEN a ELSE b

TypeOf(m) == (Cardinality(DOMAIN m) - 17) \div 4

\* The number whose binary digits these are.
Number(bits) == FoldLeft(LAMBDA n, b : 2 * n + b, 0, bits)
-----------------------------------------------------------------------------
(***************************************************************************)
(* Geometry, from the rules of the standard instead of a table             *)
(***************************************************************************)

\* The distance between alignment patterns: even, and the first gap takes
\* what is left; type 32 is the standard's one exception.
AlignmentStep(type) ==
  LET gaps == type \div 7 + 1
  IN  IF type = 32 THEN 26 ELSE 2 * ((4 * type + 4 + 2 * gaps - 1) \div (2 * gaps))
AlignmentPositions(type) ==
  IF type = 1 THEN {}
  ELSE {6} \cup {4 * type + 10 - k * AlignmentStep(type) : k \in 0..(type \div 7)}

\* The standard's count of the modules that carry data.
DataModules(type) ==
  LET side == type \div 7 + 2
  IN  (16 * type + 128) * type + 64
        - (IF type < 2 THEN 0 ELSE (25 * side - 10) * side - 55)
        - (IF type < 7 THEN 0 ELSE 36)

\* Modules that belong to finders, format, timing, alignment or type word.
Reserved(type, r, c) ==
  LET n == 4 * type + 17
      last == n - 7
      near(a, b) == a - b \in -2..2
      corner(a, b) == <<a, b>> \in {<<6, 6>>, <<6, last>>, <<last, 6>>}
  IN  \/ r <= 8 /\ (c <= 8 \/ c >= n - 8)
      \/ r >= n - 8 /\ c <= 8
      \/ r = 6 \/ c = 6
      \/ \E a, b \in AlignmentPositions(type) : near(r, a) /\ near(c, b) /\ ~corner(a, b)
      \/ type >= 7 /\ \/ (r <= 5 /\ c \in (n - 11)..(n - 9))
                       \/ (c <= 5 /\ r \in (n - 11)..(n - 9))

\* Data modules two columns at a time from the lower right corner.
RightColumns(n) == [k \in 1..((n - 1) \div 2) |-> IF n + 1 - 2 * k > 6 THEN n + 1 - 2 * k ELSE n - 2 * k]
Strip(n, k) ==
  LET row(s) == IF k % 2 = 1 THEN n - s ELSE s - 1
  IN  [s \in 1..(2 * n) |-> <<row((s + 1) \div 2), RightColumns(n)[k] - ((s + 1) % 2)>>]
ReadingOrder(type) ==
  LET n == 4 * type + 17
  IN  SelectSeq(FlattenSeq([k \in 1..((n - 1) \div 2) |-> Strip(n, k)]),
                LAMBDA p : ~Reserved(type, p[1], p[2]))

\* The first format copy, round the upper left finder, highest bit first.
FormatCells == [k \in 1..15 |->
  IF k <= 6 THEN <<8, k - 1>> ELSE IF k = 7 THEN <<8, 7>> ELSE IF k = 8 THEN <<8, 8>>
  ELSE IF k = 9 THEN <<7, 8>> ELSE <<15 - k, 8>>]
\* The second copy, under the right and beside the lower finder.
FormatCells2(n) == [k \in 1..15 |-> IF k <= 7 THEN <<n - k, 8>> ELSE <<8, n - 16 + k>>]

\* Finders are squares of seven in rings of dark, light and dark; timing
\* modules alternate; the module beside the lower finder is dark.
PatternsIntact(m) ==
  LET n == Cardinality(DOMAIN m)
      ring(x, y) == LET a == IF x > 3 THEN x - 3 ELSE 3 - x
                        b == IF y > 3 THEN y - 3 ELSE 3 - y
                    IN  IF a > b THEN a ELSE b
  IN  /\ \A o \in {<<0, 0>>, <<0, n - 7>>, <<n - 7, 0>>} : \A x, y \in -1..7 :
           (o[1] + x \in DOMAIN m /\ o[2] + y \in DOMAIN m)
             => m[o[1] + x][o[2] + y] = (IF ring(x, y) \in {0, 1, 3} THEN 1 ELSE 0)
      /\ \A k \in 8..(n - 9) : m[6][k] = 1 - (k % 2) /\ m[k][6] = 1 - (k % 2)
      /\ m[n - 8][8] = 1
\* The type word that types from 7 on carry twice.
TypeWord(m, down) ==
  LET n == Cardinality(DOMAIN m)
      at(i) == IF down THEN m[i \div 3][n - 11 + (i % 3)] ELSE m[n - 11 + (i % 3)][i \div 3]
  IN  Number([k \in 1..18 |-> at(18 - k)])

\* The remainder of a word by a generator of the given degree.
WordRemainder[word, generator, degree \in Nat] ==
  IF word < 2^degree THEN word
  ELSE LET top == CHOOSE k \in degree..17 : 2^k <= word /\ word < 2^(k + 1)
       IN  WordRemainder[Plus[word, generator * 2^(top - degree)], generator, degree]
-----------------------------------------------------------------------------
(***************************************************************************)
(* The Reed-Solomon check, by shift-and-add multiplication                 *)
(***************************************************************************)
Double(a) == IF a < 128 THEN 2 * a ELSE Plus[2 * a - 256, 29]
Times[a, b \in Nat] == IF b = 0 THEN 0
                      ELSE IF b % 2 = 1 THEN Plus[a, Times[Double(a), b \div 2]]
                      ELSE Times[Double(a), b \div 2]

PowerOfTwo[k \in Nat] == IF k = 0 THEN 1 ELSE Double(PowerOfTwo[k - 1])

\* What every field element becomes when multiplied by the k-th power of 2.
Multiple == [k \in 0..29 |-> [a \in 0..255 |-> Times[a, PowerOfTwo[k]]]]

\* A block is a codeword when it vanishes at the first ecCount powers of 2.
Vanishes(block, k) == FoldLeft(LAMBDA v, c : Plus[Multiple[k][v], c], 0, block) = 0
Correct(block, ecCount) == \A k \in 0..(ecCount - 1) : Vanishes(block, k)

\* The codewords of every block: data by columns, then correction by columns.
Blocks(codewords, shapes) ==
  LET count == Len(shapes)
      short == shapes[1].dataCount
      longs == {k \in 1..count : shapes[k].dataCount > short}
      total == short * count + Cardinality(longs)
      ec == shapes[1].totalCount - short
      longIndex(k) == Cardinality({j \in longs : j <= k})
  IN  [k \in 1..count |->
         [i \in 1..short |-> codewords[(i - 1) * count + k]]
         \o (IF k \in longs THEN <<codewords[short * count + longIndex(k)]>> ELSE <<>>)
         \o [i \in 1..ec |-> codewords[total + (i - 1) * count + k]]]
-----------------------------------------------------------------------------
(***************************************************************************)
(* Segments                                                                *)
(***************************************************************************)
AlphaCodes == [v \in 0..44 |-> IF v < 10 THEN v + 48 ELSE IF v < 36 THEN v + 55
                                ELSE <<32, 36, 37, 42, 43, 45, 46, 47, 58>>[v - 35]]

\* The bits of n characters, and the characters.
BodyLength(mode, n) ==
  CASE mode = "Byte" -> 8 * n
    [] mode = "Numeric" -> (10 * n + 2) \div 3
    [] mode = "Alphanumeric" -> (11 * n + 1) \div 2
Body(mode, n, bits) ==
  LET digits(k) == Number(SubSeq(bits, 10 * ((k - 1) \div 3) + 1,
                                 Minimum(10 * ((k - 1) \div 3) + 10, Len(bits))))
      inChunk(k) == Minimum(3, n - 3 * ((k - 1) \div 3))
      pair(k) == Number(SubSeq(bits, 11 * ((k - 1) \div 2) + 1,
                               Minimum(11 * ((k - 1) \div 2) + 11, Len(bits))))
  IN  [k \in 1..n |->
        CASE mode = "Byte" -> Number(SubSeq(bits, 8 * k - 7, 8 * k))
          [] mode = "Numeric" ->
               48 + ((digits(k) \div 10^(inChunk(k) - 1 - ((k - 1) % 3))) % 10)
          [] mode = "Alphanumeric" ->
               AlphaCodes[IF k % 2 = 1 /\ k < n THEN pair(k) \div 45 ELSE pair(k) % 45]]

\* Segments up to the terminator or the end of the data.
Parse[bits \in Seq(0..1), type \in Types] ==
  IF Len(bits) < 4 \/ Number(SubSeq(bits, 1, 4)) = 0 THEN <<>>
  ELSE LET known == {x \in Modes : QRMode[x] = Number(SubSeq(bits, 1, 4))}
           mode == CHOOSE x \in known : TRUE
           width == LengthInBits(mode, type)
           n == Number(SubSeq(bits, 5, 4 + width))
           end == 4 + width + BodyLength(mode, n)
       IN  IF known = {} \/ end > Len(bits) THEN Unreadable
           ELSE <<[mode |-> mode, chars |-> Body(mode, n, SubSeq(bits, 5 + width, end))]>>
                  \o Parse[SubSeq(bits, end + 1, Len(bits)), type]

\* The standard's eight masks.
Flipped(mask, i, j) ==
  <<(i + j) % 2, i % 2, j % 3, (i + j) % 3, (i \div 2 + j \div 3) % 2,
    ((i * j) % 2) + ((i * j) % 3), (((i * j) % 2) + ((i * j) % 3)) % 2,
    (((i * j) % 3) + ((i + j) % 2)) % 2>>[mask + 1] = 0

\* The whole reading.
Read(m) ==
  LET n == Cardinality(DOMAIN m)
      type == TypeOf(m)
      format == Number([k \in 1..15 |-> m[FormatCells[k][1]][FormatCells[k][2]]])
      format2 == Number([k \in 1..15 |-> m[FormatCells2(n)[k][1]][FormatCells2(n)[k][2]]])
      word == Plus[format, 21522]
      lev == CHOOSE x \in Levels : QRErrorCorrectionLevel[x] = word \div 8192
      mask == (word \div 1024) % 8
      cells == ReadingOrder(type)
      bits == [k \in DOMAIN cells |->
                 (m[cells[k][1]][cells[k][2]]
                    + (IF Flipped(mask, cells[k][1], cells[k][2]) THEN 1 ELSE 0)) % 2]
      codewords == [k \in 1..(Len(bits) \div 8) |-> Number(SubSeq(bits, 8 * k - 7, 8 * k))]
      shapes == RSBlocks(type, lev)
      blocks == Blocks(codewords, shapes)
      data == FlattenSeq([k \in DOMAIN shapes |-> SubSeq(blocks[k], 1, shapes[k].dataCount)])
      dataBits == [b \in 1..(8 * Len(data)) |->
                     (data[1 + (b - 1) \div 8] \div 2^(7 - ((b - 1) % 8))) % 2]
      intact ==
        /\ PatternsIntact(m)
        /\ format = format2 /\ WordRemainder[word, 1335, 10] = 0
        /\ type >= 7 => /\ TypeWord(m, TRUE) = TypeWord(m, FALSE)
                        /\ TypeWord(m, TRUE) \div 4096 = type
                        /\ WordRemainder[TypeWord(m, TRUE), 7973, 12] = 0
        /\ \A k \in DOMAIN blocks :
             Correct(blocks[k], shapes[k].totalCount - shapes[k].dataCount)
  IN  IF intact THEN Parse[dataBits, type] ELSE Unreadable
=============================================================================
