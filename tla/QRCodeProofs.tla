---------------------------- MODULE QRCodeProofs ----------------------------
(***************************************************************************)
(* What holds of the symbols of all forty types, of which TLC makes three. *)
(* First where everything lies: no pattern overwrites another one wrongly, *)
(* the alignment patterns follow the rule of the standard, the modules     *)
(* that are left are those the standard leaves to the data, and the path   *)
(* of the data visits each of them exactly once, in the scanner's order.   *)
(* Then what make leaves behind: the codewords of the data that the object *)
(* holds, under the best mask, with the words that name level and mask.    *)
(***************************************************************************)
EXTENDS MCQRCode, FiniteSetTheorems, FunctionTheorems, WellFoundedInduction,
        NaturalsInduction, TLAPS

\* How the function modules are laid over each other: the bits of the type
\* word, the module that is always dark, the bits of the format word, and
\* below them finders, alignment patterns and timing.
NumberPlace(type, r, c) ==
  type >= 7 /\ (r \in 0..5 \/ c \in 0..5) /\ NumberBitsAt(ModuleCount(type), r, c) # {}
InfoPlace(n, r, c) == (r = 8 \/ c = 8) /\ InfoBits(n, r, c) # {}
OneOf(word, bits) == \E i \in bits : Bit(word, i) = 1
Dark(b) == IF b THEN 1 ELSE 0
Ground(type, r, c) ==
  IF InProbe(ModuleCount(type), r, c) THEN Dark(ProbeDark(ModuleCount(type), r, c))
  ELSE IF AdjustAt(type, AdjustCentres(type), r, c) # {}
       THEN Dark(\E p \in AdjustAt(type, AdjustCentres(type), r, c) : AdjustDark(p, r, c))
  ELSE TimingAt(ModuleCount(type), r, c)

LEMMA InfoDownPlaces ==
  ASSUME NEW n \in Nat, n >= 21, NEW i \in 0..14
  PROVE  /\ InfoDown(n, i)[2] = 8
         /\ InfoDown(n, i)[1] \in 0..(n - 1)
         /\ InfoDown(n, i)[1] \in (0..5) \cup {7, 8} \cup ((n - 7)..(n - 1))
         /\ InfoBits(n, InfoDown(n, i)[1], InfoDown(n, i)[2]) = {i}
<1>1. i < 6 \/ i = 6 \/ i = 7 \/ i >= 8
    OBVIOUS
<1>2. InfoDown(n, i) = <<InfoDown(n, i)[1], 8>>
    BY DEF InfoDown
<1>3. /\ InfoDown(n, i)[1] \in (0..5) \cup {7, 8} \cup ((n - 7)..(n - 1))
      /\ InfoDown(n, i)[1] \in 0..(n - 1)
    BY <1>1 DEF InfoDown
<1>4. ASSUME NEW j \in 0..14, InfoDown(n, j) = InfoDown(n, i) PROVE j = i
    BY <1>4, <1>1 DEF InfoDown
<1>5. ASSUME NEW j \in 0..14 PROVE InfoAcross(n, j) # InfoDown(n, i)
    BY <1>1 DEF InfoDown, InfoAcross
<1> QED
    BY <1>2, <1>3, <1>4, <1>5 DEF InfoBits

LEMMA InfoAcrossPlaces ==
  ASSUME NEW n \in Nat, n >= 21, NEW i \in 0..14
  PROVE  /\ InfoAcross(n, i)[1] = 8
         /\ InfoAcross(n, i)[2] \in 0..(n - 1)
         /\ InfoAcross(n, i)[2] \in (0..5) \cup {7} \cup ((n - 8)..(n - 1))
         /\ InfoBits(n, InfoAcross(n, i)[1], InfoAcross(n, i)[2]) = {i}
<1>1. i < 8 \/ i = 8 \/ i >= 9
    OBVIOUS
<1>2. InfoAcross(n, i) = <<8, InfoAcross(n, i)[2]>>
    BY DEF InfoAcross
<1>3. /\ InfoAcross(n, i)[2] \in (0..5) \cup {7} \cup ((n - 8)..(n - 1))
      /\ InfoAcross(n, i)[2] \in 0..(n - 1)
    BY <1>1 DEF InfoAcross
<1>4. ASSUME NEW j \in 0..14, InfoAcross(n, j) = InfoAcross(n, i) PROVE j = i
    BY <1>4, <1>1 DEF InfoAcross
<1>5. ASSUME NEW j \in 0..14 PROVE InfoAcross(n, i) # InfoDown(n, j)
    BY <1>1 DEF InfoDown, InfoAcross
<1> QED
    BY <1>2, <1>3, <1>4, <1>5 DEF InfoBits

LEMMA NumberPlaces ==
  ASSUME NEW n \in Nat, n >= 45, NEW i \in 0..17
  PROVE  /\ NumberDown(n, i)[1] \in 0..5 /\ NumberDown(n, i)[2] \in (n - 11)..(n - 9)
         /\ NumberAcross(n, i) = <<NumberDown(n, i)[2], NumberDown(n, i)[1]>>
         /\ NumberBitsAt(n, NumberDown(n, i)[1], NumberDown(n, i)[2]) = {i}
         /\ NumberBitsAt(n, NumberAcross(n, i)[1], NumberAcross(n, i)[2]) = {i}
<1>1. /\ NumberDown(n, i) = <<i \div 3, (i % 3) + n - 11>>
      /\ NumberAcross(n, i) = <<(i % 3) + n - 11, i \div 3>>
    BY DEF NumberDown, NumberAcross
<1>2. i \div 3 \in 0..5 /\ i % 3 \in 0..2
    OBVIOUS
<1>3. ASSUME NEW j \in 0..17, j \div 3 = i \div 3, (j % 3) + n - 11 = (i % 3) + n - 11 PROVE j = i
    BY <1>3
<1>4. ASSUME NEW j \in 0..17 PROVE j \div 3 # (i % 3) + n - 11 /\ i \div 3 # (j % 3) + n - 11
    OBVIOUS
<1> QED
    BY <1>1, <1>2, <1>3, <1>4 DEF NumberBitsAt, NumberDown, NumberAcross

LEMMA Size ==
  ASSUME NEW type \in Types
  PROVE  /\ ModuleCount(type) \in Nat /\ ModuleCount(type) >= 21
         /\ ModuleCount(type) % 2 = 1 /\ ModuleCount(type) = 4 * type + 17
         /\ type >= 7 => ModuleCount(type) >= 45
BY DEF ModuleCount, Types

\* Where the upper layers lie, and that no two of them meet.
LEMMA UpperPlaces ==
  ASSUME NEW type \in Types, NEW r \in Int, NEW c \in Int
  PROVE  LET n == ModuleCount(type) IN
         /\ NumberPlace(type, r, c) =>
              \/ r \in 0..5 /\ c \in (n - 11)..(n - 9) /\ n >= 45
              \/ c \in 0..5 /\ r \in (n - 11)..(n - 9) /\ n >= 45
         /\ InfoPlace(n, r, c) =>
              \/ c = 8 /\ r \in (0..5) \cup {7, 8} \cup ((n - 7)..(n - 1))
              \/ r = 8 /\ c \in (0..5) \cup {7} \cup ((n - 8)..(n - 1))
         /\ <<r, c>> = FixedModule(n) <=> r = n - 8 /\ c = 8
<1> DEFINE n == ModuleCount(type)
<1>1. n \in Nat /\ n >= 21 /\ (type >= 7 => n >= 45)
    BY Size
<1>2. ASSUME NumberPlace(type, r, c)
      PROVE  \/ r \in 0..5 /\ c \in (n - 11)..(n - 9) /\ n >= 45
             \/ c \in 0..5 /\ r \in (n - 11)..(n - 9) /\ n >= 45
  <2>1. PICK i \in 0..17 : <<r, c>> = NumberDown(n, i) \/ <<r, c>> = NumberAcross(n, i)
      BY <1>2 DEF NumberPlace, NumberBitsAt
  <2>2. n >= 45
      BY <1>1, <1>2 DEF NumberPlace
  <2>3. /\ NumberDown(n, i)[1] \in 0..5 /\ NumberDown(n, i)[2] \in (n - 11)..(n - 9)
        /\ NumberAcross(n, i) = <<NumberDown(n, i)[2], NumberDown(n, i)[1]>>
      BY <1>1, <2>2, NumberPlaces
  <2> QED
      BY <2>1, <2>2, <2>3
<1>3. ASSUME InfoPlace(n, r, c)
      PROVE  \/ c = 8 /\ r \in (0..5) \cup {7, 8} \cup ((n - 7)..(n - 1))
             \/ r = 8 /\ c \in (0..5) \cup {7} \cup ((n - 8)..(n - 1))
  <2>1. PICK i \in 0..14 : <<r, c>> = InfoDown(n, i) \/ <<r, c>> = InfoAcross(n, i)
      BY <1>3 DEF InfoPlace, InfoBits
  <2>2. /\ InfoDown(n, i)[2] = 8
        /\ InfoDown(n, i)[1] \in (0..5) \cup {7, 8} \cup ((n - 7)..(n - 1))
      BY <1>1, InfoDownPlaces
  <2>3. /\ InfoAcross(n, i)[1] = 8
        /\ InfoAcross(n, i)[2] \in (0..5) \cup {7} \cup ((n - 8)..(n - 1))
      BY <1>1, InfoAcrossPlaces
  <2>4. CASE <<r, c>> = InfoDown(n, i)
      BY <2>2, <2>4
  <2>5. CASE <<r, c>> = InfoAcross(n, i)
      BY <2>3, <2>5
  <2> QED
      BY <2>1, <2>4, <2>5
<1>4. <<r, c>> = FixedModule(n) <=> r = n - 8 /\ c = 8
    BY <1>1 DEF FixedModule
<1> QED
    BY <1>2, <1>3, <1>4

LEMMA LayersApart ==
  ASSUME NEW type \in Types, NEW r \in Int, NEW c \in Int
  PROVE  LET n == ModuleCount(type) IN
         /\ ~(NumberPlace(type, r, c) /\ <<r, c>> = FixedModule(n))
         /\ ~(NumberPlace(type, r, c) /\ InfoPlace(n, r, c))
         /\ ~(<<r, c>> = FixedModule(n) /\ InfoPlace(n, r, c))
<1> DEFINE n == ModuleCount(type)
<1>1. n \in Nat /\ n >= 21
    BY Size
<1>2. /\ NumberPlace(type, r, c) =>
           \/ r \in 0..5 /\ c \in (n - 11)..(n - 9) /\ n >= 45
           \/ c \in 0..5 /\ r \in (n - 11)..(n - 9) /\ n >= 45
      /\ InfoPlace(n, r, c) =>
           \/ c = 8 /\ r \in (0..5) \cup {7, 8} \cup ((n - 7)..(n - 1))
           \/ r = 8 /\ c \in (0..5) \cup {7} \cup ((n - 8)..(n - 1))
      /\ <<r, c>> = FixedModule(n) <=> r = n - 8 /\ c = 8
    BY UpperPlaces
<1> HIDE DEF n
<1> QED
    BY <1>1, <1>2 DEF n

LEMMA ModuleAt ==
  ASSUME NEW type \in Types, NEW lev, NEW mask, NEW test \in BOOLEAN,
         NEW r \in 0..(ModuleCount(type) - 1), NEW c \in 0..(ModuleCount(type) - 1)
  PROVE  LET n == ModuleCount(type)
             v == FunctionModules(type, lev, mask, test)[r][c]
             info == BCHTypeInfo(8 * QRErrorCorrectionLevel[lev] + mask)
             number == BCHTypeNumber(type)
         IN  /\ NumberPlace(type, r, c) => v = Dark(~test /\ OneOf(number, NumberBitsAt(n, r, c)))
             /\ <<r, c>> = FixedModule(n) => v = Dark(~test)
             /\ InfoPlace(n, r, c) => v = Dark(~test /\ OneOf(info, InfoBits(n, r, c)))
             /\ ~NumberPlace(type, r, c) /\ <<r, c>> # FixedModule(n) /\ ~InfoPlace(n, r, c) =>
                  v = Ground(type, r, c)
<1> DEFINE n == ModuleCount(type)
           info == BCHTypeInfo(8 * QRErrorCorrectionLevel[lev] + mask)
           number == BCHTypeNumber(type)
           centres == AdjustCentres(type)
           written(word, bits) == IF ~test /\ \E i \in bits : Bit(word, i) = 1 THEN 1 ELSE 0
           at(x, y) ==
             CASE type >= 7 /\ (x \in 0..5 \/ y \in 0..5) /\ NumberBitsAt(n, x, y) # {} ->
                    written(number, NumberBitsAt(n, x, y))
               [] <<x, y>> = FixedModule(n) -> IF test THEN 0 ELSE 1
               [] (x = 8 \/ y = 8) /\ InfoBits(n, x, y) # {} -> written(info, InfoBits(n, x, y))
               [] OTHER ->
                    IF InProbe(n, x, y) THEN IF ProbeDark(n, x, y) THEN 1 ELSE 0
                    ELSE IF AdjustAt(type, centres, x, y) # {}
                         THEN IF \E p \in AdjustAt(type, centres, x, y) : AdjustDark(p, x, y) THEN 1 ELSE 0
                    ELSE TimingAt(n, x, y)
<1>1. FunctionModules(type, lev, mask, test) = [x \in 0..(n - 1) |-> [y \in 0..(n - 1) |-> at(x, y)]]
    BY Zenon DEF FunctionModules
<1>2. FunctionModules(type, lev, mask, test)[r][c] = at(r, c)
  <2> HIDE DEF at
  <2> QED
    BY <1>1
<1>3. /\ ~(NumberPlace(type, r, c) /\ <<r, c>> = FixedModule(n))
      /\ ~(NumberPlace(type, r, c) /\ InfoPlace(n, r, c))
      /\ ~(<<r, c>> = FixedModule(n) /\ InfoPlace(n, r, c))
    BY LayersApart, Size
<1>4. NumberPlace(type, r, c) => at(r, c) = Dark(~test /\ OneOf(number, NumberBitsAt(n, r, c)))
    BY <1>3 DEF NumberPlace, InfoPlace, Dark, OneOf
<1>5. <<r, c>> = FixedModule(n) => at(r, c) = Dark(~test)
    BY <1>3 DEF NumberPlace, InfoPlace, Dark
<1>6. InfoPlace(n, r, c) => at(r, c) = Dark(~test /\ OneOf(info, InfoBits(n, r, c)))
    BY <1>3 DEF NumberPlace, InfoPlace, Dark, OneOf
<1>7. ~NumberPlace(type, r, c) /\ <<r, c>> # FixedModule(n) /\ ~InfoPlace(n, r, c) =>
                  at(r, c) = Ground(type, r, c)
    BY DEF NumberPlace, InfoPlace, Dark, Ground
<1> QED
    BY <1>2, <1>4, <1>5, <1>6, <1>7
-----------------------------------------------------------------------------
\* What a scanner looks for on a symbol: the two copies of the format word and
\* the dark module, the two copies of the type word, the finders with their
\* borders, the alignment patterns and the timing lines.
FormatStands(m, n, info) ==
  /\ m[n - 8][8] = 1
  /\ \A i \in 0..14 : /\ m[InfoDown(n, i)[1]][8] = Dark(Bit(info, i) = 1)
                      /\ m[8][InfoAcross(n, i)[2]] = Dark(Bit(info, i) = 1)
NumberStands(m, n, number) ==
  \A i \in 0..17 : LET p == NumberDown(n, i)
                   IN  m[p[1]][p[2]] = Dark(Bit(number, i) = 1) /\ m[p[2]][p[1]] = m[p[1]][p[2]]
FindersStand(m, n) ==
  \A r, c \in 0..(n - 1) : InProbe(n, r, c) => m[r][c] = Dark(ProbeDark(n, r, c))
AlignmentStands(m, type) ==
  \A p \in AdjustCentres(type) : \A x, y \in -2..2 :
    m[p[1] + x][p[2] + y] = Dark(AdjustDark(p, p[1] + x, p[2] + y))
TimingStands(m, n) ==
  \A k \in 8..(n - 9) : m[6][k] = Dark(k % 2 = 0) /\ m[k][6] = Dark(k % 2 = 0)
PatternsStand(m, type, info) ==
  LET n == ModuleCount(type)
  IN  /\ FormatStands(m, n, info)
      /\ type >= 7 => NumberStands(m, n, BCHTypeNumber(type))
      /\ FindersStand(m, n)
      /\ AlignmentStands(m, type)
      /\ TimingStands(m, n)

\* The same for the symbol that is shown, which is made without the test flag.
LEMMA PrintedAt ==
  ASSUME NEW type \in Types, NEW lev, NEW mask
  PROVE  LET n == ModuleCount(type)
             info == BCHTypeInfo(8 * QRErrorCorrectionLevel[lev] + mask)
             number == BCHTypeNumber(type)
         IN  \A r \in 0..(n - 1), c \in 0..(n - 1) :
               LET v == FunctionModules(type, lev, mask, FALSE)[r][c]
               IN  /\ NumberPlace(type, r, c) =>
                        v = Dark(~FALSE /\ OneOf(number, NumberBitsAt(n, r, c)))
                   /\ <<r, c>> = FixedModule(n) => v = Dark(~FALSE)
                   /\ InfoPlace(n, r, c) =>
                        v = Dark(~FALSE /\ OneOf(info, InfoBits(n, r, c)))
                   /\ ~NumberPlace(type, r, c) /\ <<r, c>> # FixedModule(n)
                        /\ ~InfoPlace(n, r, c) => v = Ground(type, r, c)
<1>1. FALSE \in BOOLEAN
    OBVIOUS
<1> QED
    BY <1>1, ModuleAt, ZenonT(60)

LEMMA FormatOfFunction ==
  ASSUME NEW type \in Types, NEW lev, NEW mask
  PROVE  FormatStands(FunctionModules(type, lev, mask, FALSE), ModuleCount(type),
                      BCHTypeInfo(8 * QRErrorCorrectionLevel[lev] + mask))
<1> DEFINE n == ModuleCount(type)
           m == FunctionModules(type, lev, mask, FALSE)
           info == BCHTypeInfo(8 * QRErrorCorrectionLevel[lev] + mask)
<1>1. n \in Nat /\ n >= 21
    BY Size
<1> HIDE DEF m, info
<1>2. m[n - 8][8] = 1
  <2>1. n - 8 \in 0..(n - 1) /\ 8 \in 0..(n - 1) /\ <<n - 8, 8>> = FixedModule(n)
      BY <1>1 DEF FixedModule
  <2>2. ASSUME NEW r \in 0..(n - 1), NEW c \in 0..(n - 1), <<r, c>> = FixedModule(n)
        PROVE  m[r][c] = Dark(~FALSE)
      BY <2>2, PrintedAt, ZenonT(30) DEF m
  <2> QED
      BY <2>1, <2>2 DEF Dark
<1>3. ASSUME NEW r \in 0..(n - 1), NEW c \in 0..(n - 1), NEW i \in 0..14,
             r = 8 \/ c = 8, InfoBits(n, r, c) = {i}
      PROVE  m[r][c] = Dark(Bit(info, i) = 1)
  <2>1. InfoPlace(n, r, c)
      BY <1>3 DEF InfoPlace
  <2>2. m[r][c] = Dark(~FALSE /\ OneOf(info, InfoBits(n, r, c)))
      BY <2>1, PrintedAt, ZenonT(30) DEF m, info
  <2>3. OneOf(info, InfoBits(n, r, c)) <=> Bit(info, i) = 1
      BY <1>3 DEF OneOf
  <2> QED
      BY <2>2, <2>3 DEF Dark
<1>4. ASSUME NEW i \in 0..14
      PROVE  /\ m[InfoDown(n, i)[1]][8] = Dark(Bit(info, i) = 1)
             /\ m[8][InfoAcross(n, i)[2]] = Dark(Bit(info, i) = 1)
  <2>1. /\ InfoDown(n, i)[2] = 8 /\ InfoDown(n, i)[1] \in 0..(n - 1)
        /\ InfoBits(n, InfoDown(n, i)[1], InfoDown(n, i)[2]) = {i}
      BY <1>1, InfoDownPlaces
  <2>2. /\ InfoAcross(n, i)[1] = 8 /\ InfoAcross(n, i)[2] \in 0..(n - 1)
        /\ InfoBits(n, InfoAcross(n, i)[1], InfoAcross(n, i)[2]) = {i}
      BY <1>1, InfoAcrossPlaces
  <2>3. 8 \in 0..(n - 1)
      BY <1>1
  <2> QED
      BY <2>1, <2>2, <2>3, <1>3
<1> QED
    BY <1>2, <1>4 DEF FormatStands, m, info

LEMMA NumberOfFunction ==
  ASSUME NEW type \in Types, NEW lev, NEW mask, type >= 7
  PROVE  NumberStands(FunctionModules(type, lev, mask, FALSE), ModuleCount(type),
                      BCHTypeNumber(type))
<1> DEFINE n == ModuleCount(type)
           m == FunctionModules(type, lev, mask, FALSE)
           number == BCHTypeNumber(type)
<1>1. n \in Nat /\ n >= 45
    BY Size
<1> HIDE DEF m, number
<1>2. ASSUME NEW r \in 0..(n - 1), NEW c \in 0..(n - 1), NEW i \in 0..17,
             r \in 0..5 \/ c \in 0..5, NumberBitsAt(n, r, c) = {i}
      PROVE  m[r][c] = Dark(Bit(number, i) = 1)
  <2>1. NumberPlace(type, r, c)
      BY <1>2 DEF NumberPlace
  <2>2. m[r][c] = Dark(~FALSE /\ OneOf(number, NumberBitsAt(n, r, c)))
      BY <2>1, PrintedAt, ZenonT(30) DEF m, number
  <2>3. OneOf(number, NumberBitsAt(n, r, c)) <=> Bit(number, i) = 1
      BY <1>2 DEF OneOf
  <2> QED
      BY <2>2, <2>3 DEF Dark
<1>3. ASSUME NEW i \in 0..17
      PROVE  LET p == NumberDown(n, i)
             IN  m[p[1]][p[2]] = Dark(Bit(number, i) = 1) /\ m[p[2]][p[1]] = m[p[1]][p[2]]
  <2> DEFINE p == NumberDown(n, i)
  <2>1. /\ p[1] \in 0..5 /\ p[2] \in (n - 11)..(n - 9)
        /\ NumberAcross(n, i) = <<p[2], p[1]>>
        /\ NumberBitsAt(n, p[1], p[2]) = {i}
        /\ NumberBitsAt(n, NumberAcross(n, i)[1], NumberAcross(n, i)[2]) = {i}
      BY <1>1, NumberPlaces
  <2>2. p[1] \in 0..(n - 1) /\ p[2] \in 0..(n - 1)
      BY <1>1, <2>1
  <2>3. NumberBitsAt(n, p[2], p[1]) = {i}
      BY <2>1
  <2> HIDE DEF p
  <2>4. m[p[1]][p[2]] = Dark(Bit(number, i) = 1)
      BY <2>1, <2>2, <1>2
  <2>5. m[p[2]][p[1]] = Dark(Bit(number, i) = 1)
      BY <2>1, <2>2, <2>3, <1>2
  <2> QED
      BY <2>4, <2>5 DEF p
<1> QED
    BY <1>3 DEF NumberStands, m, number

LEMMA FindersOfFunction ==
  ASSUME NEW type \in Types, NEW lev, NEW mask
  PROVE  FindersStand(FunctionModules(type, lev, mask, FALSE), ModuleCount(type))
<1> DEFINE n == ModuleCount(type)
<1>1. n \in Nat /\ n >= 21
    BY Size
<1> SUFFICES ASSUME NEW r \in 0..(n - 1), NEW c \in 0..(n - 1), InProbe(n, r, c)
             PROVE  FunctionModules(type, lev, mask, FALSE)[r][c] = Dark(ProbeDark(n, r, c))
    BY DEF FindersStand
<1>2. \/ r \in 0..7 /\ c \in 0..7
      \/ r \in (n - 8)..(n - 1) /\ c \in 0..7
      \/ r \in 0..7 /\ c \in (n - 8)..(n - 1)
    BY <1>1 DEF InProbe, ProbeCorners
<1>3. ~NumberPlace(type, r, c) /\ <<r, c>> # FixedModule(n) /\ ~InfoPlace(n, r, c)
  <2>1. /\ NumberPlace(type, r, c) =>
             \/ r \in 0..5 /\ c \in (n - 11)..(n - 9) /\ n >= 45
             \/ c \in 0..5 /\ r \in (n - 11)..(n - 9) /\ n >= 45
        /\ InfoPlace(n, r, c) =>
             \/ c = 8 /\ r \in (0..5) \cup {7, 8} \cup ((n - 7)..(n - 1))
             \/ r = 8 /\ c \in (0..5) \cup {7} \cup ((n - 8)..(n - 1))
        /\ <<r, c>> = FixedModule(n) <=> r = n - 8 /\ c = 8
    <3>1. r \in Int /\ c \in Int
        BY <1>1
    <3> HIDE DEF n
    <3> QED
        BY <3>1, UpperPlaces, SMTT(30) DEF n
  <2> HIDE DEF n
  <2> QED
      BY <1>1, <1>2, <2>1
<1>4. FunctionModules(type, lev, mask, FALSE)[r][c] = Ground(type, r, c)
    BY <1>3, PrintedAt, ZenonT(30)
<1> QED
    BY <1>4 DEF Ground

\* The alignment patterns lie on even rows and columns, on the sixth, on the
\* sixth from the end or well between them, and apart from each other.
Spread(type, s) ==
  /\ \A i \in DOMAIN s : /\ s[i] \in Nat /\ s[i] % 2 = 0
                         /\ s[i] = 6 \/ s[i] = 4 * type + 10 \/ s[i] \in 22..(4 * type - 6)
  /\ \A i, j \in DOMAIN s : i # j => s[i] - s[j] >= 12 \/ s[j] - s[i] >= 12
LEMMA TableSpread == \A type \in Types : Spread(type, PatternPosition[type])
<1> DEFINE P(t) == Spread(t, PatternPosition[t])
<1> USE DEF PatternPosition, Spread
<1>1. P(1) OBVIOUS
<1>2. P(2) OBVIOUS
<1>3. P(3) OBVIOUS
<1>4. P(4) OBVIOUS
<1>5. P(5) OBVIOUS
<1>6. P(6) OBVIOUS
<1>7. P(7) OBVIOUS
<1>8. P(8) OBVIOUS
<1>9. P(9) OBVIOUS
<1>10. P(10) OBVIOUS
<1>11. P(11) OBVIOUS
<1>12. P(12) OBVIOUS
<1>13. P(13) OBVIOUS
<1>14. P(14) OBVIOUS
<1>15. P(15) OBVIOUS
<1>16. P(16) OBVIOUS
<1>17. P(17) OBVIOUS
<1>18. P(18) OBVIOUS
<1>19. P(19) OBVIOUS
<1>20. P(20) OBVIOUS
<1>21. P(21) OBVIOUS
<1>22. P(22) OBVIOUS
<1>23. P(23) OBVIOUS
<1>24. P(24) OBVIOUS
<1>25. P(25) OBVIOUS
<1>26. P(26) OBVIOUS
<1>27. P(27) OBVIOUS
<1>28. P(28) OBVIOUS
<1>29. P(29) OBVIOUS
<1>30. P(30) OBVIOUS
<1>31. P(31) OBVIOUS
<1>32. P(32) OBVIOUS
<1>33. P(33) OBVIOUS
<1>34. P(34) OBVIOUS
<1>35. P(35) OBVIOUS
<1>36. P(36) OBVIOUS
<1>37. P(37) OBVIOUS
<1>38. P(38) OBVIOUS
<1>39. P(39) OBVIOUS
<1>40. P(40) OBVIOUS
<1> HIDE DEF P
<1>41. \A t \in 1..40 : P(t)
    BY <1>1, <1>2, <1>3, <1>4, <1>5, <1>6, <1>7, <1>8, <1>9, <1>10, <1>11, <1>12, <1>13, <1>14, <1>15, <1>16, <1>17, <1>18, <1>19, <1>20, <1>21, <1>22, <1>23, <1>24, <1>25, <1>26, <1>27, <1>28, <1>29, <1>30, <1>31, <1>32, <1>33, <1>34, <1>35, <1>36, <1>37, <1>38, <1>39, <1>40
<1> QED
    BY <1>41 DEF P, Types

LEMMA CentrePlaces ==
  ASSUME NEW type \in Types, NEW p \in AdjustCentres(type)
  PROVE  LET n == ModuleCount(type) IN
         /\ p = <<p[1], p[2]>> /\ p[1] \in ToSet(PatternPosition[type])
         /\ p[2] \in ToSet(PatternPosition[type])
         /\ p[1] \in Nat /\ p[2] \in Nat /\ p[1] % 2 = 0 /\ p[2] % 2 = 0
         /\ \/ p[1] = 6 /\ p[2] \in 22..(n - 23)
            \/ p[2] = 6 /\ p[1] \in 22..(n - 23)
            \/ p[1] \in 22..(n - 23) /\ p[2] \in 22..(n - 23)
            \/ p[1] = n - 7 /\ p[2] \in 22..(n - 23)
            \/ p[2] = n - 7 /\ p[1] \in 22..(n - 23)
            \/ p[1] = n - 7 /\ p[2] = n - 7
<1> DEFINE n == ModuleCount(type)
           s == PatternPosition[type]
<1>1. n \in Nat /\ n >= 21 /\ n = 4 * type + 17 /\ type \in Nat
    BY Size DEF Types
<1>2. p = <<p[1], p[2]>> /\ p[1] \in ToSet(s) /\ p[2] \in ToSet(s) /\ ~InProbe(n, p[1], p[2])
    BY DEF AdjustCentres
<1>3. Spread(type, s)
    BY TableSpread
<1>4. ASSUME NEW q \in ToSet(s)
      PROVE  q \in Nat /\ q % 2 = 0 /\ (q = 6 \/ q = n - 7 \/ q \in 22..(n - 23))
  <2>1. PICK i \in DOMAIN s : q = s[i]
      BY DEF ToSet
  <2>2. /\ q \in Nat /\ q % 2 = 0
        /\ q = 6 \/ q = 4 * type + 10 \/ q \in 22..(4 * type - 6)
      BY <1>3, <2>1 DEF Spread
  <2> HIDE DEF n
  <2> QED
      BY <1>1, <2>2
<1>5. ~(p[1] = 6 /\ p[2] = 6) /\ ~(p[1] = 6 /\ p[2] = n - 7) /\ ~(p[1] = n - 7 /\ p[2] = 6)
  <2>1. \A q \in ProbeCorners(n) : ~(p[1] - q[1] \in -1..7 /\ p[2] - q[2] \in -1..7)
      BY <1>2 DEF InProbe
  <2>2. /\ ~(p[1] - 0 \in -1..7 /\ p[2] - 0 \in -1..7)
        /\ ~(p[1] - 0 \in -1..7 /\ p[2] - (n - 7) \in -1..7)
        /\ ~(p[1] - (n - 7) \in -1..7 /\ p[2] - 0 \in -1..7)
      BY <2>1 DEF ProbeCorners
  <2> HIDE DEF n
  <2> QED
      BY <1>1, <2>2
<1>6. /\ p[1] \in Nat /\ p[2] \in Nat /\ p[1] % 2 = 0 /\ p[2] % 2 = 0
      /\ p[1] = 6 \/ p[1] = n - 7 \/ p[1] \in 22..(n - 23)
      /\ p[2] = 6 \/ p[2] = n - 7 \/ p[2] \in 22..(n - 23)
    BY <1>2, <1>4
<1> QED
    BY <1>2, <1>5, <1>6

\* Two alignment patterns never share a module.
LEMMA OneCentre ==
  ASSUME NEW type \in Types, NEW p \in AdjustCentres(type), NEW r \in Int, NEW c \in Int,
         AbsVal(r - p[1]) <= 2, AbsVal(c - p[2]) <= 2
  PROVE  AdjustAt(type, AdjustCentres(type), r, c) = {p}
<1> DEFINE s == PatternPosition[type]
           near(z) == {q \in ToSet(s) : AbsVal(z - q) <= 2}
<1>1. Spread(type, s)
    BY TableSpread
<1>2. ASSUME NEW u \in ToSet(s), NEW z \in Int, AbsVal(z - u) <= 2
      PROVE  near(z) = {u}
  <2>1. PICK i \in DOMAIN s : u = s[i]
      BY DEF ToSet
  <2>2. u \in Nat
      BY <1>1, <2>1 DEF Spread
  <2>3. ASSUME NEW q \in ToSet(s), AbsVal(z - q) <= 2 PROVE q = u
    <3>1. PICK j \in DOMAIN s : q = s[j]
        BY DEF ToSet
    <3>2. q \in Nat /\ (i # j => u - q >= 12 \/ q - u >= 12)
        BY <1>1, <2>1, <3>1 DEF Spread
    <3> QED
        BY <2>1, <2>2, <2>3, <1>2, <3>1, <3>2 DEF AbsVal
  <2> QED
      BY <2>3, <1>2
<1>3. p = <<p[1], p[2]>> /\ p[1] \in ToSet(s) /\ p[2] \in ToSet(s)
    BY CentrePlaces
<1>4. near(r) = {p[1]} /\ near(c) = {p[2]}
    BY <1>2, <1>3
<1>5. AdjustAt(type, AdjustCentres(type), r, c) = (near(r) \X near(c)) \cap AdjustCentres(type)
    BY DEF AdjustAt
<1> HIDE DEF near
<1> QED
    BY <1>3, <1>4, <1>5

LEMMA AlignmentOfFunction ==
  ASSUME NEW type \in Types, NEW lev, NEW mask
  PROVE  AlignmentStands(FunctionModules(type, lev, mask, FALSE), type)
<1> DEFINE n == ModuleCount(type)
<1>1. n \in Nat /\ n >= 21
    BY Size
<1> SUFFICES ASSUME NEW p \in AdjustCentres(type), NEW x \in -2..2, NEW y \in -2..2
             PROVE  FunctionModules(type, lev, mask, FALSE)[p[1] + x][p[2] + y]
                      = Dark(AdjustDark(p, p[1] + x, p[2] + y))
    BY DEF AlignmentStands
<1> DEFINE r == p[1] + x
           c == p[2] + y
<1>2. /\ p[1] \in Nat /\ p[2] \in Nat
      /\ \/ p[1] = 6 /\ p[2] \in 22..(n - 23)
         \/ p[2] = 6 /\ p[1] \in 22..(n - 23)
         \/ p[1] \in 22..(n - 23) /\ p[2] \in 22..(n - 23)
         \/ p[1] = n - 7 /\ p[2] \in 22..(n - 23)
         \/ p[2] = n - 7 /\ p[1] \in 22..(n - 23)
         \/ p[1] = n - 7 /\ p[2] = n - 7
    BY CentrePlaces
<1>3. r \in Int /\ c \in Int
    BY <1>2
<1>4. /\ NumberPlace(type, r, c) =>
           \/ r \in 0..5 /\ c \in (n - 11)..(n - 9) /\ n >= 45
           \/ c \in 0..5 /\ r \in (n - 11)..(n - 9) /\ n >= 45
      /\ InfoPlace(n, r, c) =>
           \/ c = 8 /\ r \in (0..5) \cup {7, 8} \cup ((n - 7)..(n - 1))
           \/ r = 8 /\ c \in (0..5) \cup {7} \cup ((n - 8)..(n - 1))
      /\ <<r, c>> = FixedModule(n) <=> r = n - 8 /\ c = 8
    BY <1>3, UpperPlaces
<1>5. InProbe(n, r, c) => \/ r \in -1..7 /\ c \in -1..7
                          \/ r \in (n - 8)..n /\ c \in -1..7
                          \/ r \in -1..7 /\ c \in (n - 8)..n
    BY <1>1, <1>3 DEF InProbe, ProbeCorners
<1>6. /\ r \in 0..(n - 1) /\ c \in 0..(n - 1) /\ ~InProbe(n, r, c)
      /\ ~NumberPlace(type, r, c) /\ <<r, c>> # FixedModule(n) /\ ~InfoPlace(n, r, c)
  <2> HIDE DEF n, r, c
  <2>1. r \in 0..(n - 1) /\ c \in 0..(n - 1)
      BY <1>1, <1>2, SMTT(30) DEF r, c
  <2>2. ~InProbe(n, r, c)
      BY <1>1, <1>2, <1>5, SMTT(30) DEF r, c
  <2>3. ~NumberPlace(type, r, c)
      BY <1>1, <1>2, <1>4, SMTT(30) DEF r, c
  <2>4. <<r, c>> # FixedModule(n) /\ ~InfoPlace(n, r, c)
      BY <1>1, <1>2, <1>4, SMTT(30) DEF r, c
  <2> QED
      BY <2>1, <2>2, <2>3, <2>4
<1>7. FunctionModules(type, lev, mask, FALSE)[r][c] = Ground(type, r, c)
    BY <1>6, PrintedAt, ZenonT(30)
<1>8. AdjustAt(type, AdjustCentres(type), r, c) = {p}
  <2>1. AbsVal(r - p[1]) <= 2 /\ AbsVal(c - p[2]) <= 2
      BY <1>2 DEF AbsVal
  <2> HIDE DEF r, c
  <2> QED
      BY <2>1, <1>3, OneCentre
<1> HIDE DEF r, c
<1>9. Ground(type, r, c) = Dark(AdjustDark(p, r, c))
  <2>1. AdjustAt(type, AdjustCentres(type), r, c) # {}
      BY <1>8
  <2>2. (\E q \in AdjustAt(type, AdjustCentres(type), r, c) : AdjustDark(q, r, c))
          <=> AdjustDark(p, r, c)
      BY <1>8
  <2> QED
      BY <1>6, <2>1, <2>2 DEF Ground, Dark
<1> QED
    BY <1>7, <1>9 DEF r, c

LEMMA TimingOfFunction ==
  ASSUME NEW type \in Types, NEW lev, NEW mask
  PROVE  TimingStands(FunctionModules(type, lev, mask, FALSE), ModuleCount(type))
<1> DEFINE n == ModuleCount(type)
           m == FunctionModules(type, lev, mask, FALSE)
<1>1. n \in Nat /\ n >= 21
    BY Size
<1>2. ASSUME NEW r \in 0..(n - 1), NEW c \in 0..(n - 1),
             (r = 6 /\ c \in 8..(n - 9)) \/ (c = 6 /\ r \in 8..(n - 9))
      PROVE  m[r][c] = IF (r + c) % 2 = 0 THEN 1 ELSE 0
  <2>1. /\ NumberPlace(type, r, c) =>
             \/ r \in 0..5 /\ c \in (n - 11)..(n - 9) /\ n >= 45
             \/ c \in 0..5 /\ r \in (n - 11)..(n - 9) /\ n >= 45
        /\ InfoPlace(n, r, c) =>
             \/ c = 8 /\ r \in (0..5) \cup {7, 8} \cup ((n - 7)..(n - 1))
             \/ r = 8 /\ c \in (0..5) \cup {7} \cup ((n - 8)..(n - 1))
        /\ <<r, c>> = FixedModule(n) <=> r = n - 8 /\ c = 8
    <3>1. r \in Int /\ c \in Int
        BY <1>1
    <3> HIDE DEF n
    <3> QED
        BY <3>1, UpperPlaces, SMTT(30) DEF n
  <2>2. InProbe(n, r, c) => \/ r \in -1..7 /\ c \in -1..7
                            \/ r \in (n - 8)..n /\ c \in -1..7
                            \/ r \in -1..7 /\ c \in (n - 8)..n
      BY <1>1, <1>2 DEF InProbe, ProbeCorners
  <2>3. /\ ~NumberPlace(type, r, c) /\ <<r, c>> # FixedModule(n) /\ ~InfoPlace(n, r, c)
        /\ ~InProbe(n, r, c)
    <3> HIDE DEF n
    <3>1. ~NumberPlace(type, r, c) /\ <<r, c>> # FixedModule(n)
        BY <1>1, <1>2, <2>1, SMTT(30)
    <3>2. ~InfoPlace(n, r, c)
        BY <1>1, <1>2, <2>1, SMTT(30)
    <3>3. ~InProbe(n, r, c)
        BY <1>1, <1>2, <2>2, SMTT(30)
    <3> QED
        BY <3>1, <3>2, <3>3
  <2>4. m[r][c] = Ground(type, r, c)
      BY <2>3, PrintedAt, ZenonT(30) DEF m
  <2>5. TimingAt(n, r, c) = IF (r + c) % 2 = 0 THEN 1 ELSE 0
    <3>1. CASE r = 6 /\ c \in 8..(n - 9)
        BY <3>1 DEF TimingAt
    <3>2. CASE c = 6 /\ r \in 8..(n - 9)
        BY <3>2 DEF TimingAt
    <3> QED
        BY <1>2, <3>1, <3>2
  <2>6. ASSUME NEW p \in AdjustAt(type, AdjustCentres(type), r, c)
        PROVE  AdjustDark(p, r, c) <=> (r + c) % 2 = 0
    <3>1. p \in AdjustCentres(type) /\ AbsVal(r - p[1]) <= 2 /\ AbsVal(c - p[2]) <= 2
        BY DEF AdjustAt
    <3>2. /\ p[1] \in Nat /\ p[2] \in Nat /\ p[1] % 2 = 0 /\ p[2] % 2 = 0
          /\ p[1] = 6 \/ p[1] >= 14
          /\ p[2] = 6 \/ p[2] >= 14
      <4>1. /\ p[1] \in Nat /\ p[2] \in Nat /\ p[1] % 2 = 0 /\ p[2] % 2 = 0
            /\ \/ p[1] = 6 /\ p[2] \in 22..(n - 23)
               \/ p[2] = 6 /\ p[1] \in 22..(n - 23)
               \/ p[1] \in 22..(n - 23) /\ p[2] \in 22..(n - 23)
               \/ p[1] = n - 7 /\ p[2] \in 22..(n - 23)
               \/ p[2] = n - 7 /\ p[1] \in 22..(n - 23)
               \/ p[1] = n - 7 /\ p[2] = n - 7
          BY <3>1, CentrePlaces
      <4> HIDE DEF n
      <4> QED
          BY <1>1, <4>1
    <3>3. CASE r = 6
      <4>1. p[1] = 6
          BY <3>1, <3>2, <3>3 DEF AbsVal
      <4>2. AdjustDark(p, r, c) <=> AbsVal(c - p[2]) = 2 \/ AbsVal(c - p[2]) = 0
          BY <4>1, <3>3 DEF AdjustDark, AbsVal
      <4>3. c = p[2] - 2 \/ c = p[2] - 1 \/ c = p[2] \/ c = p[2] + 1 \/ c = p[2] + 2
          BY <3>1, <3>2 DEF AbsVal
      <4> QED
          BY <4>2, <4>3, <3>2, <3>3 DEF AbsVal
    <3>4. CASE c = 6
      <4>1. p[2] = 6
          BY <3>1, <3>2, <3>4 DEF AbsVal
      <4>2. AdjustDark(p, r, c) <=> AbsVal(r - p[1]) = 2 \/ AbsVal(r - p[1]) = 0
          BY <4>1, <3>4 DEF AdjustDark, AbsVal
      <4>3. r = p[1] - 2 \/ r = p[1] - 1 \/ r = p[1] \/ r = p[1] + 1 \/ r = p[1] + 2
          BY <3>1, <3>2 DEF AbsVal
      <4> QED
          BY <4>2, <4>3, <3>2, <3>4 DEF AbsVal
    <3> QED
        BY <1>2, <3>3, <3>4
  <2> HIDE DEF m
  <2>7. CASE AdjustAt(type, AdjustCentres(type), r, c) = {}
      BY <2>3, <2>4, <2>5, <2>7 DEF Ground
  <2>8. CASE AdjustAt(type, AdjustCentres(type), r, c) # {}
    <3>1. (\E p \in AdjustAt(type, AdjustCentres(type), r, c) : AdjustDark(p, r, c))
            <=> (r + c) % 2 = 0
        BY <2>6, <2>8
    <3>2. Ground(type, r, c)
            = Dark(\E p \in AdjustAt(type, AdjustCentres(type), r, c) : AdjustDark(p, r, c))
        BY <2>3, <2>8 DEF Ground
    <3> QED
        BY <2>4, <3>1, <3>2 DEF Dark
  <2> QED
      BY <2>7, <2>8
<1> HIDE DEF m
<1>3. ASSUME NEW k \in 8..(n - 9)
      PROVE  m[6][k] = Dark(k % 2 = 0) /\ m[k][6] = Dark(k % 2 = 0)
  <2>1. k \in 0..(n - 1) /\ 6 \in 0..(n - 1)
      BY <1>1
  <2>2. m[6][k] = IF (6 + k) % 2 = 0 THEN 1 ELSE 0
      BY <2>1, <1>2, Zenon
  <2>3. m[k][6] = IF (k + 6) % 2 = 0 THEN 1 ELSE 0
      BY <2>1, <1>2, Zenon
  <2>4. ((6 + k) % 2 = 0 <=> k % 2 = 0) /\ ((k + 6) % 2 = 0 <=> k % 2 = 0)
      OBVIOUS
  <2> QED
      BY <2>2, <2>3, <2>4 DEF Dark
<1> QED
    BY <1>3 DEF TimingStands, m

\* No layer of the patterns writes over another one wrongly: finders, timing,
\* alignment patterns, both copies of the format word and of the type word
\* stand in the function modules of every type.
THEOREM PatternsTheorem ==
  ASSUME NEW type \in Types, NEW lev, NEW mask
  PROVE  PatternsStand(FunctionModules(type, lev, mask, FALSE), type,
                       BCHTypeInfo(8 * QRErrorCorrectionLevel[lev] + mask))
BY FormatOfFunction, NumberOfFunction, FindersOfFunction, AlignmentOfFunction,
   TimingOfFunction DEF PatternsStand
-----------------------------------------------------------------------------
\* The table of PatternPosition is what the rule of the standard gives.
LEMMA TableRule == \A type \in Types : ToSet(PatternPosition[type]) = AlignmentPositions(type)
<1> DEFINE P(t) == ToSet(PatternPosition[t]) = AlignmentPositions(t)
<1> USE DEF PatternPosition, ToSet, AlignmentPositions, AlignmentStep
<1>1. P(1) OBVIOUS
<1>2. P(2) OBVIOUS
<1>3. P(3) OBVIOUS
<1>4. P(4) OBVIOUS
<1>5. P(5) OBVIOUS
<1>6. P(6) OBVIOUS
<1>7. P(7) OBVIOUS
<1>8. P(8) OBVIOUS
<1>9. P(9) OBVIOUS
<1>10. P(10) OBVIOUS
<1>11. P(11) OBVIOUS
<1>12. P(12) OBVIOUS
<1>13. P(13) OBVIOUS
<1>14. P(14) OBVIOUS
<1>15. P(15) OBVIOUS
<1>16. P(16) OBVIOUS
<1>17. P(17) OBVIOUS
<1>18. P(18) OBVIOUS
<1>19. P(19) OBVIOUS
<1>20. P(20) OBVIOUS
<1>21. P(21) OBVIOUS
<1>22. P(22) OBVIOUS
<1>23. P(23) OBVIOUS
<1>24. P(24) OBVIOUS
<1>25. P(25) OBVIOUS
<1>26. P(26) OBVIOUS
<1>27. P(27) OBVIOUS
<1>28. P(28) OBVIOUS
<1>29. P(29) OBVIOUS
<1>30. P(30) OBVIOUS
<1>31. P(31) OBVIOUS
<1>32. P(32) OBVIOUS
<1>33. P(33) OBVIOUS
<1>34. P(34) OBVIOUS
<1>35. P(35) OBVIOUS
<1>36. P(36) OBVIOUS
<1>37. P(37) OBVIOUS
<1>38. P(38) OBVIOUS
<1>39. P(39) OBVIOUS
<1>40. P(40) OBVIOUS
<1> HIDE DEF P
<1>41. \A t \in 1..40 : P(t)
    BY <1>1, <1>2, <1>3, <1>4, <1>5, <1>6, <1>7, <1>8, <1>9, <1>10, <1>11, <1>12, <1>13, <1>14, <1>15, <1>16, <1>17, <1>18, <1>19, <1>20, <1>21, <1>22, <1>23, <1>24, <1>25, <1>26, <1>27, <1>28, <1>29, <1>30, <1>31, <1>32, <1>33, <1>34, <1>35, <1>36, <1>37, <1>38, <1>39, <1>40
<1> QED
    BY <1>41 DEF P, Types

\* AlignmentFollowsRule, for every type.
LEMMA CentresFollowRule ==
  ASSUME NEW type \in Types
  PROVE  LET at == AlignmentPositions(type)
             last == 4 * type + 10
         IN  AdjustCentres(type) = (at \X at) \ {<<6, 6>>, <<6, last>>, <<last, 6>>}
<1> DEFINE n == ModuleCount(type)
           s == PatternPosition[type]
           at == AlignmentPositions(type)
<1>1. n \in Nat /\ n >= 21 /\ n = 4 * type + 17
    BY Size
<1>2. ToSet(s) = at
    BY TableRule
<1>3. Spread(type, s)
    BY TableSpread
<1>4. ASSUME NEW q \in at PROVE q \in Nat /\ (q = 6 \/ q = n - 7 \/ q \in 22..(n - 23))
  <2>1. PICK i \in DOMAIN s : q = s[i]
      BY <1>2 DEF ToSet
  <2>2. q \in Nat /\ (q = 6 \/ q = 4 * type + 10 \/ q \in 22..(4 * type - 6))
      BY <1>3, <2>1 DEF Spread
  <2> HIDE DEF n
  <2> QED
      BY <1>1, <2>2 DEF Types
<1>5. ASSUME NEW a \in at, NEW b \in at
      PROVE  InProbe(n, a, b) <=> <<a, b>> \in {<<6, 6>>, <<6, n - 7>>, <<n - 7, 6>>}
  <2>1. /\ a \in Nat /\ (a = 6 \/ a = n - 7 \/ a \in 22..(n - 23))
        /\ b \in Nat /\ (b = 6 \/ b = n - 7 \/ b \in 22..(n - 23))
      BY <1>4
  <2>2. InProbe(n, a, b) <=> \/ a - 0 \in -1..7 /\ b - 0 \in -1..7
                             \/ a - (n - 7) \in -1..7 /\ b - 0 \in -1..7
                             \/ a - 0 \in -1..7 /\ b - (n - 7) \in -1..7
      BY DEF InProbe, ProbeCorners
  <2> HIDE DEF n, at
  <2> QED
      BY <1>1, <2>1, <2>2
<1>6. n - 7 = 4 * type + 10
    BY <1>1 DEF Types
<1>7. AdjustCentres(type) = {p \in at \X at : ~InProbe(n, p[1], p[2])}
    BY <1>2 DEF AdjustCentres
<1> HIDE DEF n, at
<1>8. AdjustCentres(type) = (at \X at) \ {<<6, 6>>, <<6, n - 7>>, <<n - 7, 6>>}
    BY <1>5, <1>7
<1> QED
    BY <1>6, <1>8 DEF at

\* The alignment patterns of all types stand where the standard's rule puts
\* them, and nowhere on a finder.
THEOREM AlignmentTheorem == Spec => []AlignmentFollowsRule
<1>1. AlignmentFollowsRule
    BY CentresFollowRule DEF AlignmentFollowsRule
<1> QED
    BY <1>1, PTL
-----------------------------------------------------------------------------
\* Division by a number that is not a literal.
LEMMA DivMod ==
  ASSUME NEW d \in Nat, d > 0, NEW q \in Int, NEW r \in 0..(d - 1)
  PROVE  (q * d + r) \div d = q /\ (q * d + r) % d = r
<1> DEFINE x == q * d + r
           Q == x \div d
           R == x % d
<1>1. x \in Int /\ Q \in Int /\ R \in 0..(d - 1) /\ x = d * Q + R
    OBVIOUS
<1> HIDE DEF Q, R
<1>2. q * d \in Int /\ d * Q \in Int /\ q * d + r = d * Q + R
    BY <1>1
<1>3. ~(Q >= q + 1)
  <2> SUFFICES ASSUME Q >= q + 1 PROVE FALSE
      OBVIOUS
  <2>1. d * Q >= d * (q + 1)
      BY <1>1
  <2>2. d * (q + 1) = q * d + d
      OBVIOUS
  <2> QED
      BY <1>1, <1>2, <2>1, <2>2
<1>4. ~(Q <= q - 1)
  <2> SUFFICES ASSUME Q <= q - 1 PROVE FALSE
      OBVIOUS
  <2>1. d * Q <= d * (q - 1)
      BY <1>1
  <2>2. d * (q - 1) = q * d - d
      OBVIOUS
  <2> QED
      BY <1>1, <1>2, <2>1, <2>2
<1>5. Q = q
    BY <1>1, <1>3, <1>4
<1>6. R = r
    BY <1>1, <1>2, <1>5
<1> QED
    BY <1>5, <1>6 DEF Q, R

\* The row and the column that the path takes in a step of a pair of columns.
PathCell(n, pair, step, side) ==
  <<IF pair % 2 = 0 THEN n - 1 - step ELSE step, RightColumn(n, pair) - side>>

\* A place on the path is a pair of columns, a step along it and a side.
LEMMA PathAt ==
  ASSUME NEW n \in Nat, NEW h \in Nat, n = 2 * h + 1,
         NEW pair \in 0..(h - 1), NEW step \in 0..(n - 1), NEW side \in 0..1
  PROVE  LET k == pair * (2 * n) + (2 * step + side) + 1
         IN  k \in DOMAIN Path(n) /\ Path(n)[k] = PathCell(n, pair, step, side)
<1> DEFINE d == 2 * n
           m == 2 * step + side
           k == pair * d + m + 1
<1>1. d \in Nat /\ d > 0 /\ m \in 0..(d - 1)
    OBVIOUS
<1>2. (pair * d + m) \div d = pair /\ (pair * d + m) % d = m
    BY <1>1, DivMod
<1>3. k - 1 = pair * d + m /\ k \in Int /\ k >= 1
  <2>1. pair * d \in Nat
      BY <1>1
  <2> HIDE DEF d, m
  <2> QED
      BY <2>1, <1>1
<1>4. m \div 2 = step /\ (pair * d + m) % 2 = side
  <2>1. m \div 2 = step /\ m % 2 = side
      OBVIOUS
  <2>2. pair * d = 2 * (pair * n) /\ pair * n \in Nat
      OBVIOUS
  <2>3. pair * d + m = 2 * (pair * n + step) + side /\ pair * n + step \in Nat
      BY <2>2
  <2> QED
      BY <2>1, <2>3
<1>5. k <= n * (n - 1)
  <2>1. pair * d <= (h - 1) * d
      BY <1>1
  <2>2. (h - 1) * d = n * (n - 1) - d
      OBVIOUS
  <2>3. pair * d \in Int /\ n * (n - 1) \in Int
      BY <1>1
  <2> HIDE DEF d, m
  <2> QED
      BY <2>1, <2>2, <2>3, <1>1, <1>3
<1>6. k \in 1..(n * (n - 1))
  <2>1. n * (n - 1) \in Int
      OBVIOUS
  <2> HIDE DEF k
  <2> QED
      BY <2>1, <1>3, <1>5
<1>7. DOMAIN Path(n) = 1..(n * (n - 1))
    BY DEF Path
<1>8. Path(n)[k] = LET p == (k - 1) \div (2 * n)
                       s == ((k - 1) % (2 * n)) \div 2
                   IN  <<IF p % 2 = 0 THEN n - 1 - s ELSE s, RightColumn(n, p) - ((k - 1) % 2)>>
  <2> HIDE DEF k
  <2> QED
      BY <1>6 DEF Path
<1>9. (k - 1) \div (2 * n) = pair /\ ((k - 1) % (2 * n)) \div 2 = step /\ (k - 1) % 2 = side
  <2> HIDE DEF k, m
  <2> QED
      BY <1>2, <1>3, <1>4
<1> HIDE DEF k
<1> QED
    BY <1>6, <1>7, <1>8, <1>9 DEF PathCell, k

\* And every place is one.
LEMMA PathSplit ==
  ASSUME NEW n \in Nat, NEW h \in Nat, n = 2 * h + 1, NEW k \in DOMAIN Path(n)
  PROVE  \E pair \in 0..(h - 1), step \in 0..(n - 1), side \in 0..1 :
           k = pair * (2 * n) + (2 * step + side) + 1
<1> DEFINE d == 2 * n
           pair == (k - 1) \div d
           m == (k - 1) % d
<1>1. d \in Nat /\ d > 0 /\ k \in 1..(n * (n - 1)) /\ k - 1 \in Nat /\ n * (n - 1) \in Int
    BY DEF Path
<1>2. pair \in Int /\ m \in 0..(d - 1) /\ k - 1 = d * pair + m
    BY <1>1
<1>3. n * (n - 1) = h * d /\ h * d \in Int
    OBVIOUS
<1> HIDE DEF pair, m, d
<1>4. pair >= 0
  <2> SUFFICES ASSUME pair <= -1 PROVE FALSE
      BY <1>2
  <2>1. d * pair <= -d /\ d * pair \in Int
      BY <1>1, <1>2
  <2> QED
      BY <1>1, <1>2, <2>1
<1>5. pair <= h - 1
  <2> SUFFICES ASSUME pair >= h PROVE FALSE
      BY <1>2
  <2>1. d * pair >= d * h /\ d * pair \in Int /\ d * h = h * d
      BY <1>1, <1>2
  <2> QED
      BY <1>1, <1>2, <1>3, <2>1
<1> DEFINE step == m \div 2
           side == m % 2
<1>6. step \in 0..(n - 1) /\ side \in 0..1 /\ m = 2 * step + side
  <2>1. m \in 0..(2 * n - 1)
      BY <1>2 DEF d
  <2> QED
      BY <2>1
<1> HIDE DEF step, side
<1>7. d * pair = pair * (2 * n)
    BY <1>2 DEF d
<1>8. k = pair * (2 * n) + (2 * step + side) + 1
  <2>1. pair * (2 * n) \in Int
      BY <1>2
  <2> QED
      BY <1>1, <1>2, <1>6, <1>7, <2>1
<1>9. pair \in 0..(h - 1)
    BY <1>2, <1>4, <1>5
<1> QED
    BY <1>6, <1>8, <1>9

\* The column and the row of a place, for a symbol as wide as a type makes it.
LEMMA PathColumn ==
  ASSUME NEW n \in Nat, NEW h \in Nat, n = 2 * h + 1, h % 2 = 0, h >= 10,
         NEW pair \in 0..(h - 1), NEW side \in 0..1
  PROVE  LET c == RightColumn(n, pair) - side IN
         /\ c \in 0..(n - 1) /\ c # 6
         /\ c > 6 => 2 * pair + side = n - 1 - c
         /\ c < 6 => 2 * pair + side = n - 2 - c
BY DEF RightColumn

\* The path of mapData visits every module outside the timing column exactly
\* once, and nothing else: every data bit has a place of its own.
THEOREM PathTheorem ==
  ASSUME NEW type \in Types
  PROVE  LET n == ModuleCount(type) IN
         /\ \A k \in DOMAIN Path(n) : /\ Path(n)[k][1] \in 0..(n - 1)
                                      /\ Path(n)[k][2] \in 0..(n - 1) \ {6}
         /\ \A r \in 0..(n - 1), c \in 0..(n - 1) \ {6} :
              \E k \in DOMAIN Path(n) : /\ Path(n)[k] = <<r, c>>
                                        /\ \A j \in DOMAIN Path(n) : Path(n)[j] = <<r, c>> => j = k
<1> DEFINE n == ModuleCount(type)
           h == 2 * type + 8
           place(p, s, e) == p * (2 * n) + (2 * s + e) + 1
<1>1. n \in Nat /\ h \in Nat /\ n = 2 * h + 1 /\ h % 2 = 0 /\ h >= 10
    BY DEF ModuleCount, Types
<1> HIDE DEF n, h
<1>2. ASSUME NEW p \in 0..(h - 1), NEW s \in 0..(n - 1), NEW e \in 0..1
      PROVE  /\ place(p, s, e) \in DOMAIN Path(n)
             /\ Path(n)[place(p, s, e)] = PathCell(n, p, s, e)
    BY <1>1, PathAt
<1>3. ASSUME NEW k \in DOMAIN Path(n)
      PROVE  \E p \in 0..(h - 1), s \in 0..(n - 1), e \in 0..1 : k = place(p, s, e)
    BY <1>1, PathSplit
<1> HIDE DEF place
<1>4. ASSUME NEW p \in 0..(h - 1), NEW e \in 0..1
      PROVE  LET c == RightColumn(n, p) - e IN
             /\ c \in 0..(n - 1) /\ c # 6
             /\ c > 6 => 2 * p + e = n - 1 - c
             /\ c < 6 => 2 * p + e = n - 2 - c
    BY <1>1, PathColumn, ZenonT(30)
<1>5. ASSUME NEW k \in DOMAIN Path(n)
      PROVE  Path(n)[k][1] \in 0..(n - 1) /\ Path(n)[k][2] \in 0..(n - 1) \ {6}
  <2>1. PICK p \in 0..(h - 1), s \in 0..(n - 1), e \in 0..1 : k = place(p, s, e)
      BY <1>3
  <2>2. Path(n)[k] = PathCell(n, p, s, e)
      BY <1>2, <2>1
  <2>3. RightColumn(n, p) - e \in 0..(n - 1) /\ RightColumn(n, p) - e # 6
      BY <1>4
  <2> QED
      BY <1>1, <2>2, <2>3 DEF PathCell
<1>6. ASSUME NEW r \in 0..(n - 1), NEW c \in 0..(n - 1) \ {6}
      PROVE  \E k \in DOMAIN Path(n) : /\ Path(n)[k] = <<r, c>>
                                       /\ \A j \in DOMAIN Path(n) : Path(n)[j] = <<r, c>> => j = k
  <2>1. \E p \in 0..(h - 1), e \in 0..1 : RightColumn(n, p) - e = c
    <3>1. CASE c > 6 /\ c % 2 = 0
      <4>1. (n - 1 - c) \div 2 \in 0..(h - 1) /\ RightColumn(n, (n - 1 - c) \div 2) - 0 = c
          BY <1>1, <3>1 DEF RightColumn
      <4> QED
          BY <4>1
    <3>2. CASE c > 6 /\ c % 2 = 1
      <4>1. (n - 2 - c) \div 2 \in 0..(h - 1) /\ RightColumn(n, (n - 2 - c) \div 2) - 1 = c
          BY <1>1, <3>2 DEF RightColumn
      <4> QED
          BY <4>1
    <3>3. CASE c < 6 /\ c % 2 = 1
      <4>1. (n - 2 - c) \div 2 \in 0..(h - 1) /\ RightColumn(n, (n - 2 - c) \div 2) - 0 = c
          BY <1>1, <3>3 DEF RightColumn
      <4> QED
          BY <4>1
    <3>4. CASE c < 6 /\ c % 2 = 0
      <4>1. (n - 3 - c) \div 2 \in 0..(h - 1) /\ RightColumn(n, (n - 3 - c) \div 2) - 1 = c
          BY <1>1, <3>4 DEF RightColumn
      <4> QED
          BY <4>1
    <3> QED
        BY <1>1, <3>1, <3>2, <3>3, <3>4
  <2>2. PICK p \in 0..(h - 1), e \in 0..1 : RightColumn(n, p) - e = c
      BY <2>1
  <2> DEFINE s == IF p % 2 = 0 THEN n - 1 - r ELSE r
             k == place(p, s, e)
  <2>3. s \in 0..(n - 1)
      BY <1>1
  <2>4. k \in DOMAIN Path(n) /\ Path(n)[k] = PathCell(n, p, s, e)
    <3> HIDE DEF s
    <3> QED
        BY <1>2, <2>3
  <2>5. PathCell(n, p, s, e) = <<r, c>>
      BY <1>1, <2>2 DEF PathCell
  <2>6. ASSUME NEW j \in DOMAIN Path(n), Path(n)[j] = <<r, c>> PROVE j = k
    <3>1. PICK q \in 0..(h - 1), t \in 0..(n - 1), f \in 0..1 : j = place(q, t, f)
        BY <1>3
    <3>2. PathCell(n, q, t, f) = <<r, c>>
        BY <1>2, <2>6, <3>1
    <3>3. RightColumn(n, q) - f = c
        BY <3>2 DEF PathCell
    <3>4. 2 * q + f = 2 * p + e
      <4>1. /\ c > 6 => 2 * p + e = n - 1 - c
            /\ c < 6 => 2 * p + e = n - 2 - c
          BY <1>4, <2>2
      <4>2. /\ c > 6 => 2 * q + f = n - 1 - c
            /\ c < 6 => 2 * q + f = n - 2 - c
          BY <1>4, <3>3
      <4> QED
          BY <1>1, <4>1, <4>2
    <3>5. q = p /\ f = e
        BY <3>4
    <3>6. t = s
        BY <1>1, <3>2, <3>5 DEF PathCell
    <3> QED
        BY <3>1, <3>5, <3>6
  <2> HIDE DEF k
  <2> QED
      BY <2>4, <2>5, <2>6
<1> QED
    BY <1>5, <1>6 DEF n

\* A scanner goes along the strips of the standard in the order in which
\* mapData fills them.
THEOREM OrderTheorem ==
  ASSUME NEW type \in Types
  PROVE  LET n == ModuleCount(type) IN
         \A k \in 1..((n - 1) \div 2), s \in 1..(2 * n) :
           Strip(n, k)[s] = Path(n)[(k - 1) * (2 * n) + s]
<1> DEFINE n == ModuleCount(type)
           h == (n - 1) \div 2
<1>1. n \in Nat /\ n >= 21 /\ h \in Nat /\ n = 2 * h + 1
    BY Size
<1> SUFFICES ASSUME NEW k \in 1..h, NEW s \in 1..(2 * n)
             PROVE  Strip(n, k)[s] = Path(n)[(k - 1) * (2 * n) + s]
    OBVIOUS
<1> HIDE DEF n, h
<1> DEFINE pair == k - 1
           step == (s - 1) \div 2
           side == (s - 1) % 2
<1>2. pair \in 0..(h - 1) /\ step \in 0..(n - 1) /\ side \in 0..1 /\ s = 2 * step + side + 1
    BY <1>1
<1>3. Path(n)[pair * (2 * n) + (2 * step + side) + 1] = PathCell(n, pair, step, side)
  <2> HIDE DEF pair, step, side
  <2> QED
      BY <1>1, <1>2, PathAt
<1>4. pair * (2 * n) + (2 * step + side) + 1 = (k - 1) * (2 * n) + s
  <2> DEFINE x == pair * (2 * n)
  <2>1. x \in Int
      BY <1>1, <1>2
  <2> HIDE DEF x, step, side
  <2>2. x + (2 * step + side) + 1 = x + s
      BY <2>1, <1>2
  <2> QED
      BY <2>2 DEF x
<1>5. Strip(n, k)[s] = <<IF k % 2 = 1 THEN n - ((s + 1) \div 2) ELSE ((s + 1) \div 2) - 1,
                         RightColumns(n)[k] - ((s + 1) % 2)>>
    BY DEF Strip
<1>6. (s + 1) \div 2 = step + 1 /\ (s + 1) % 2 = side
    OBVIOUS
<1>7. RightColumns(n)[k] = RightColumn(n, pair)
  <2>1. k \in 1..((n - 1) \div 2)
      BY DEF h
  <2> QED
      BY <2>1, <1>1 DEF RightColumns, RightColumn
<1>8. k % 2 = 1 <=> pair % 2 = 0
    OBVIOUS
<1> HIDE DEF pair, step, side
<1>9. Strip(n, k)[s] = PathCell(n, pair, step, side)
    BY <1>1, <1>2, <1>5, <1>6, <1>7, <1>8 DEF PathCell
<1> QED
    BY <1>3, <1>4, <1>9
-----------------------------------------------------------------------------
\* The bits of the type word and of the format word fill these places.
LEMMA PlacesFilled ==
  ASSUME NEW type \in Types, NEW r \in Int, NEW c \in Int
  PROVE  LET n == ModuleCount(type) IN
         /\ NumberPlace(type, r, c) <=>
              type >= 7 /\ \/ r \in 0..5 /\ c \in (n - 11)..(n - 9)
                           \/ c \in 0..5 /\ r \in (n - 11)..(n - 9)
         /\ InfoPlace(n, r, c) <=>
              \/ c = 8 /\ r \in (0..5) \cup {7, 8} \cup ((n - 7)..(n - 1))
              \/ r = 8 /\ c \in (0..5) \cup {7} \cup ((n - 8)..(n - 1))
<1> DEFINE n == ModuleCount(type)
<1>1. n \in Nat /\ n >= 21 /\ (type >= 7 => n >= 45)
    BY Size
<1>2. ASSUME type >= 7, NEW a \in 0..5, NEW b \in (n - 11)..(n - 9)
      PROVE  \E i \in 0..17 : NumberDown(n, i) = <<a, b>> /\ NumberAcross(n, i) = <<b, a>>
  <2> DEFINE i == 3 * a + (b - (n - 11))
  <2> HIDE DEF n
  <2>1. i \in 0..17 /\ i \div 3 = a /\ i % 3 = b - (n - 11)
      BY <1>1, <1>2
  <2>2. (i % 3) + n - 11 = b
      BY <1>1, <2>1
  <2> HIDE DEF i
  <2>3. NumberDown(n, i) = <<a, b>> /\ NumberAcross(n, i) = <<b, a>>
      BY <2>1, <2>2 DEF NumberDown, NumberAcross
  <2> QED
      BY <2>1, <2>3
<1>3. ASSUME type >= 7, \/ r \in 0..5 /\ c \in (n - 11)..(n - 9)
                        \/ c \in 0..5 /\ r \in (n - 11)..(n - 9)
      PROVE  NumberPlace(type, r, c)
  <2>1. \E i \in 0..17 : <<r, c>> = NumberDown(n, i) \/ <<r, c>> = NumberAcross(n, i)
      BY <1>2, <1>3
  <2> QED
      BY <1>3, <2>1 DEF NumberPlace, NumberBitsAt
<1>4. ASSUME r \in (0..5) \cup {7, 8} \cup ((n - 7)..(n - 1))
      PROVE  \E i \in 0..14 : InfoDown(n, i) = <<r, 8>>
  <2> DEFINE i == IF r <= 5 THEN r ELSE IF r <= 8 THEN r - 1 ELSE r - n + 15
  <2> HIDE DEF n
  <2>1. i \in 0..14 /\ (IF i < 6 THEN i ELSE IF i < 8 THEN i + 1 ELSE n - 15 + i) = r
      BY <1>1, <1>4
  <2> HIDE DEF i
  <2> QED
      BY <2>1 DEF InfoDown
<1>5. ASSUME c \in (0..5) \cup {7} \cup ((n - 8)..(n - 1))
      PROVE  \E i \in 0..14 : InfoAcross(n, i) = <<8, c>>
  <2> DEFINE i == IF c >= n - 8 THEN n - 1 - c ELSE IF c = 7 THEN 8 ELSE 14 - c
  <2> HIDE DEF n
  <2>1. i \in 0..14 /\ (IF i < 8 THEN n - i - 1 ELSE IF i < 9 THEN 15 - i ELSE 14 - i) = c
      BY <1>1, <1>5
  <2> HIDE DEF i
  <2> QED
      BY <2>1 DEF InfoAcross
<1>6. ASSUME \/ c = 8 /\ r \in (0..5) \cup {7, 8} \cup ((n - 7)..(n - 1))
             \/ r = 8 /\ c \in (0..5) \cup {7} \cup ((n - 8)..(n - 1))
      PROVE  InfoPlace(n, r, c)
  <2>1. \E i \in 0..14 : <<r, c>> = InfoDown(n, i) \/ <<r, c>> = InfoAcross(n, i)
      BY <1>4, <1>5, <1>6
  <2> QED
      BY <1>6, <2>1 DEF InfoPlace, InfoBits
<1>7. /\ NumberPlace(type, r, c) => type >= 7
      /\ NumberPlace(type, r, c) =>
           \/ r \in 0..5 /\ c \in (n - 11)..(n - 9) /\ n >= 45
           \/ c \in 0..5 /\ r \in (n - 11)..(n - 9) /\ n >= 45
      /\ InfoPlace(n, r, c) =>
           \/ c = 8 /\ r \in (0..5) \cup {7, 8} \cup ((n - 7)..(n - 1))
           \/ r = 8 /\ c \in (0..5) \cup {7} \cup ((n - 8)..(n - 1))
    BY UpperPlaces DEF NumberPlace
<1> QED
    BY <1>3, <1>6, <1>7

\* A module is near a centre that AdjustCentres keeps when the rule says so.
LEMMA NearCentre ==
  ASSUME NEW type \in Types, NEW r \in Int, NEW c \in Int
  PROVE  LET at == AlignmentPositions(type)
             last == 4 * type + 10
         IN  AdjustAt(type, AdjustCentres(type), r, c) # {}
               <=> \E a, b \in at : /\ r - a \in -2..2 /\ c - b \in -2..2
                                    /\ <<a, b>> \notin {<<6, 6>>, <<6, last>>, <<last, 6>>}
<1> DEFINE at == AlignmentPositions(type)
           last == 4 * type + 10
           near(x) == {q \in at : AbsVal(x - q) <= 2}
<1>1. at \subseteq Int
    BY DEF AlignmentPositions, AlignmentStep, Types
<1>2. AdjustCentres(type) = (at \X at) \ {<<6, 6>>, <<6, last>>, <<last, 6>>}
    BY CentresFollowRule
<1>3. AdjustAt(type, AdjustCentres(type), r, c) = (near(r) \X near(c)) \cap AdjustCentres(type)
    BY TableRule DEF AdjustAt
<1> HIDE DEF at
<1>4. \A x \in Int : near(x) = {q \in at : x - q \in -2..2}
  <2>1. ASSUME NEW x \in Int, NEW q \in at PROVE AbsVal(x - q) <= 2 <=> x - q \in -2..2
      BY <1>1 DEF AbsVal
  <2> QED
      BY <2>1
<1> HIDE DEF near, last
<1>5. \A p \in AdjustAt(type, AdjustCentres(type), r, c) :
        /\ p[1] \in at /\ p[2] \in at /\ r - p[1] \in -2..2 /\ c - p[2] \in -2..2
        /\ <<p[1], p[2]>> \notin {<<6, 6>>, <<6, last>>, <<last, 6>>}
    BY <1>2, <1>3, <1>4
<1>6. \A a, b \in at : /\ r - a \in -2..2 /\ c - b \in -2..2
                       /\ <<a, b>> \notin {<<6, 6>>, <<6, last>>, <<last, 6>>}
                       => <<a, b>> \in AdjustAt(type, AdjustCentres(type), r, c)
    BY <1>2, <1>3, <1>4
<1> QED
    BY <1>5, <1>6 DEF at, last

\* The modules that the library leaves to the data are those that the rules of
\* the standard leave to it, whatever level, mask and test.
LEMMA BlankByRule ==
  ASSUME NEW type \in Types, NEW lev, NEW mask, NEW test \in BOOLEAN,
         NEW r \in 0..(ModuleCount(type) - 1), NEW c \in 0..(ModuleCount(type) - 1)
  PROVE  FunctionModules(type, lev, mask, test)[r][c] = Null <=> ~Reserved(type, r, c)
<1> DEFINE n == ModuleCount(type)
           v == FunctionModules(type, lev, mask, test)[r][c]
           last == 4 * type + 10
           aligned == \E a, b \in AlignmentPositions(type) :
                        /\ r - a \in -2..2 /\ c - b \in -2..2
                        /\ <<a, b>> \notin {<<6, 6>>, <<6, last>>, <<last, 6>>}
<1>1. n \in Nat /\ n >= 21 /\ n = 4 * type + 17 /\ type \in Nat /\ (type >= 7 => n >= 45)
    BY Size DEF Types
<1>2. v = Null <=> /\ ~NumberPlace(type, r, c) /\ <<r, c>> # FixedModule(n) /\ ~InfoPlace(n, r, c)
                   /\ Ground(type, r, c) = Null
  <2>1. /\ NumberPlace(type, r, c) => \E b : v = Dark(b)
        /\ <<r, c>> = FixedModule(n) => \E b : v = Dark(b)
        /\ InfoPlace(n, r, c) => \E b : v = Dark(b)
        /\ ~NumberPlace(type, r, c) /\ <<r, c>> # FixedModule(n) /\ ~InfoPlace(n, r, c) =>
             v = Ground(type, r, c)
      BY ModuleAt
  <2>2. \A b : Dark(b) # Null
      BY DEF Dark, Null
  <2> HIDE DEF v
  <2> QED
      BY <2>1, <2>2
<1>3. Ground(type, r, c) = Null <=>
        ~InProbe(n, r, c) /\ AdjustAt(type, AdjustCentres(type), r, c) = {} /\ TimingAt(n, r, c) = Null
    BY DEF Ground, Dark, Null
<1>4. AdjustAt(type, AdjustCentres(type), r, c) # {} <=> aligned
    BY NearCentre
<1>5. TimingAt(n, r, c) # Null <=> (c = 6 /\ r \in 8..(n - 9)) \/ (r = 6 /\ c \in 8..(n - 9))
    BY DEF TimingAt, Null
<1>6. InProbe(n, r, c) <=> \/ r - 0 \in -1..7 /\ c - 0 \in -1..7
                           \/ r - (n - 7) \in -1..7 /\ c - 0 \in -1..7
                           \/ r - 0 \in -1..7 /\ c - (n - 7) \in -1..7
    BY DEF InProbe, ProbeCorners
<1>7. /\ NumberPlace(type, r, c) <=>
           type >= 7 /\ \/ r \in 0..5 /\ c \in (n - 11)..(n - 9)
                        \/ c \in 0..5 /\ r \in (n - 11)..(n - 9)
      /\ InfoPlace(n, r, c) <=>
           \/ c = 8 /\ r \in (0..5) \cup {7, 8} \cup ((n - 7)..(n - 1))
           \/ r = 8 /\ c \in (0..5) \cup {7} \cup ((n - 8)..(n - 1))
  <2>1. r \in Int /\ c \in Int
      OBVIOUS
  <2> QED
      BY <2>1, PlacesFilled
<1>8. <<r, c>> = FixedModule(n) <=> r = n - 8 /\ c = 8
    BY <1>1 DEF FixedModule
<1>9. Reserved(type, r, c) <=>
        \/ r <= 8 /\ (c <= 8 \/ c >= n - 8)
        \/ r >= n - 8 /\ c <= 8
        \/ r = 6 \/ c = 6
        \/ aligned
        \/ type >= 7 /\ \/ r <= 5 /\ c \in (n - 11)..(n - 9)
                        \/ c <= 5 /\ r \in (n - 11)..(n - 9)
  <2>1. n - 7 = last
      BY <1>1
  <2> QED
      BY <2>1, <1>1 DEF Reserved, ModuleCount
<1>10. r \in 0..(n - 1) /\ c \in 0..(n - 1)
    OBVIOUS
<1> HIDE DEF n, v, aligned
<1>11. v = Null <=> /\ ~NumberPlace(type, r, c) /\ ~(r = n - 8 /\ c = 8) /\ ~InfoPlace(n, r, c)
                    /\ ~InProbe(n, r, c) /\ ~aligned
                    /\ ~(c = 6 /\ r \in 8..(n - 9)) /\ ~(r = 6 /\ c \in 8..(n - 9))
    BY <1>2, <1>3, <1>4, <1>5, <1>8
<1>12. v = Null <=> ~Reserved(type, r, c)
    BY <1>1, <1>6, <1>7, <1>9, <1>10, <1>11
<1> QED
    BY <1>12 DEF v

\* The blank modules do not depend on level, mask or test: they are those that
\* the rules of the standard leave to the data, and the path of mapData visits
\* each of them exactly once.
THEOREM BlankTheorem ==
  ASSUME NEW type \in Types, NEW lev, NEW mask, NEW test \in BOOLEAN,
         NEW r \in 0..(ModuleCount(type) - 1), NEW c \in 0..(ModuleCount(type) - 1)
  PROVE  LET blank == FunctionModules(type, lev, mask, test)[r][c] = Null
             path == Path(ModuleCount(type))
         IN  /\ blank <=> ~Reserved(type, r, c)
             /\ blank => \E k \in DOMAIN path : /\ path[k] = <<r, c>>
                                                /\ \A j \in DOMAIN path : path[j] = <<r, c>> => j = k
<1> DEFINE n == ModuleCount(type)
<1>1. FunctionModules(type, lev, mask, test)[r][c] = Null <=> ~Reserved(type, r, c)
    BY BlankByRule
<1>2. ~Reserved(type, r, c) => c \in 0..(n - 1) \ {6}
    BY DEF Reserved
<1> QED
    BY <1>1, <1>2, PathTheorem

-----------------------------------------------------------------------------
\* The bit of the codewords at a place, and zero beyond the last codeword.
DataBit(data, k) ==
  IF k <= 8 * Len(data) THEN Bit(data[1 + (k - 1) \div 8], 7 - ((k - 1) % 8)) ELSE 0

\* mapData writes only where the function modules are blank.
LEMMA MapDataKeeps ==
  ASSUME NEW blank, NEW data, NEW type, NEW mask
  PROVE  \A r \in DOMAIN blank, c \in DOMAIN blank :
           blank[r][c] # Null => MapData(blank, data, type, mask)[r][c] = blank[r][c]
<1> SUFFICES ASSUME NEW r \in DOMAIN blank, NEW c \in DOMAIN blank, blank[r][c] # Null
             PROVE  MapData(blank, data, type, mask)[r][c] = blank[r][c]
    OBVIOUS
<1> DEFINE bit(k) == IF k <= 8 * Len(data) THEN Bit(data[1 + (k - 1) \div 8], 7 - ((k - 1) % 8)) ELSE 0
           masked(x, y) == IF Masked(mask, x, y) THEN 1 ELSE 0
           value(x, y) == LET set == blank[x][y]
                          IN  IF set # Null THEN set
                              ELSE (bit(BitIndexes[type][<<x, y>>]) + masked(x, y)) % 2
<1>1. MapData(blank, data, type, mask) = [x \in DOMAIN blank |-> [y \in DOMAIN blank |-> value(x, y)]]
    BY Zenon DEF MapData
<1>2. value(r, c) = blank[r][c]
    OBVIOUS
<1> HIDE DEF value
<1> QED
    BY <1>1, <1>2

\* What mapData puts on the blank modules.
LEMMA MapDataFills ==
  ASSUME NEW blank, NEW data, NEW type, NEW mask
  PROVE  \A r \in DOMAIN blank, c \in DOMAIN blank :
           blank[r][c] = Null =>
             MapData(blank, data, type, mask)[r][c]
               = (DataBit(data, BitIndexes[type][<<r, c>>]) + (IF Masked(mask, r, c) THEN 1 ELSE 0)) % 2
<1> SUFFICES ASSUME NEW r \in DOMAIN blank, NEW c \in DOMAIN blank, blank[r][c] = Null
             PROVE  MapData(blank, data, type, mask)[r][c]
                      = (DataBit(data, BitIndexes[type][<<r, c>>])
                           + (IF Masked(mask, r, c) THEN 1 ELSE 0)) % 2
    OBVIOUS
<1> DEFINE bit(k) == IF k <= 8 * Len(data) THEN Bit(data[1 + (k - 1) \div 8], 7 - ((k - 1) % 8)) ELSE 0
           masked(x, y) == IF Masked(mask, x, y) THEN 1 ELSE 0
           value(x, y) == LET set == blank[x][y]
                          IN  IF set # Null THEN set
                              ELSE (bit(BitIndexes[type][<<x, y>>]) + masked(x, y)) % 2
<1>1. MapData(blank, data, type, mask) = [x \in DOMAIN blank |-> [y \in DOMAIN blank |-> value(x, y)]]
    BY Zenon DEF MapData
<1>2. value(r, c) = (bit(BitIndexes[type][<<r, c>>]) + masked(r, c)) % 2
  <2> HIDE DEF bit, masked
  <2> QED
      OBVIOUS
<1>3. \A k : bit(k) = DataBit(data, k)
    BY Zenon DEF DataBit
<1> HIDE DEF value, bit
<1>4. MapData(blank, data, type, mask)[r][c] = value(r, c)
    BY <1>1
<1> QED
    BY <1>2, <1>3, <1>4

\* So the patterns stand on the whole symbol as well.
THEOREM SymbolPatterns ==
  ASSUME NEW type \in Types, NEW lev, NEW mask, NEW data
  PROVE  PatternsStand(Symbol(data, type, lev, mask, FALSE), type,
                       BCHTypeInfo(8 * QRErrorCorrectionLevel[lev] + mask))
<1> DEFINE n == ModuleCount(type)
           f == FunctionModules(type, lev, mask, FALSE)
           m == Symbol(data, type, lev, mask, FALSE)
           info == BCHTypeInfo(8 * QRErrorCorrectionLevel[lev] + mask)
           number == BCHTypeNumber(type)
<1>1. n \in Nat /\ n >= 21 /\ (type >= 7 => n >= 45)
    BY Size
<1>2. PatternsStand(f, type, info)
    BY PatternsTheorem
<1>3. \A r, c \in 0..(n - 1) : f[r][c] # Null => m[r][c] = f[r][c]
  <2>1. DOMAIN f = 0..(n - 1) /\ m = MapData(f, data, type, mask)
      BY Zenon DEF FunctionModules, Symbol
  <2> HIDE DEF f, m, n
  <2>2. \A r \in DOMAIN f, c \in DOMAIN f :
          f[r][c] # Null => MapData(f, data, type, mask)[r][c] = f[r][c]
      BY MapDataKeeps
  <2> QED
      BY <2>1, <2>2
<1> HIDE DEF f, m, info, n, number
<1>4. \A b : Dark(b) # Null
    BY DEF Dark, Null
<1>5. /\ FormatStands(f, n, info) /\ (type >= 7 => NumberStands(f, n, number))
      /\ FindersStand(f, n) /\ AlignmentStands(f, type) /\ TimingStands(f, n)
    BY <1>2 DEF PatternsStand, n, number
<1>6. FormatStands(m, n, info)
  <2>1. n - 8 \in 0..(n - 1) /\ 8 \in 0..(n - 1)
      BY <1>1
  <2>2. \A i \in 0..14 : InfoDown(n, i)[1] \in 0..(n - 1) /\ InfoAcross(n, i)[2] \in 0..(n - 1)
      BY <1>1, InfoDownPlaces, InfoAcrossPlaces
  <2>3. f[n - 8][8] = 1 /\ 1 # Null
      BY <1>5 DEF FormatStands, Null
  <2>4. m[n - 8][8] = 1
      BY <2>1, <2>3, <1>3
  <2>5. ASSUME NEW i \in 0..14
        PROVE  /\ m[InfoDown(n, i)[1]][8] = Dark(Bit(info, i) = 1)
               /\ m[8][InfoAcross(n, i)[2]] = Dark(Bit(info, i) = 1)
    <3>1. /\ f[InfoDown(n, i)[1]][8] = Dark(Bit(info, i) = 1)
          /\ f[8][InfoAcross(n, i)[2]] = Dark(Bit(info, i) = 1)
        BY <1>5 DEF FormatStands
    <3>2. f[InfoDown(n, i)[1]][8] # Null /\ f[8][InfoAcross(n, i)[2]] # Null
        BY <1>4, <3>1
    <3> QED
        BY <2>1, <2>2, <3>1, <3>2, <1>3
  <2> QED
      BY <2>4, <2>5 DEF FormatStands
<1>7. ASSUME type >= 7 PROVE NumberStands(m, n, number)
  <2> SUFFICES ASSUME NEW i \in 0..17
               PROVE  LET p == NumberDown(n, i)
                      IN  m[p[1]][p[2]] = Dark(Bit(number, i) = 1) /\ m[p[2]][p[1]] = m[p[1]][p[2]]
      BY DEF NumberStands
  <2> DEFINE p == NumberDown(n, i)
  <2>1. p[1] \in 0..5 /\ p[2] \in (n - 11)..(n - 9) /\ n >= 45
      BY <1>1, <1>7, NumberPlaces
  <2>2. p[1] \in 0..(n - 1) /\ p[2] \in 0..(n - 1)
      BY <2>1, <1>1
  <2>3. f[p[1]][p[2]] = Dark(Bit(number, i) = 1) /\ f[p[2]][p[1]] = f[p[1]][p[2]]
      BY <1>5, <1>7 DEF NumberStands
  <2> HIDE DEF p
  <2>4. f[p[1]][p[2]] # Null /\ f[p[2]][p[1]] # Null
      BY <1>4, <2>3
  <2>5. m[p[1]][p[2]] = f[p[1]][p[2]] /\ m[p[2]][p[1]] = f[p[2]][p[1]]
      BY <2>2, <2>4, <1>3
  <2> QED
      BY <2>3, <2>5 DEF p
<1>8. FindersStand(m, n)
    BY <1>3, <1>4, <1>5 DEF FindersStand
<1>9. AlignmentStands(m, type)
  <2> SUFFICES ASSUME NEW p \in AdjustCentres(type), NEW x \in -2..2, NEW y \in -2..2
               PROVE  m[p[1] + x][p[2] + y] = Dark(AdjustDark(p, p[1] + x, p[2] + y))
      BY DEF AlignmentStands
  <2>1. f[p[1] + x][p[2] + y] = Dark(AdjustDark(p, p[1] + x, p[2] + y))
      BY <1>5 DEF AlignmentStands
  <2>2. p[1] + x \in 0..(n - 1) /\ p[2] + y \in 0..(n - 1)
    <3>1. /\ p[1] \in Nat /\ p[2] \in Nat
          /\ \/ p[1] = 6 /\ p[2] \in 22..(n - 23)
             \/ p[2] = 6 /\ p[1] \in 22..(n - 23)
             \/ p[1] \in 22..(n - 23) /\ p[2] \in 22..(n - 23)
             \/ p[1] = n - 7 /\ p[2] \in 22..(n - 23)
             \/ p[2] = n - 7 /\ p[1] \in 22..(n - 23)
             \/ p[1] = n - 7 /\ p[2] = n - 7
        BY CentrePlaces DEF n
    <3> QED
        BY <1>1, <3>1
  <2> QED
      BY <2>1, <2>2, <1>3, <1>4
<1>10. TimingStands(m, n)
  <2> SUFFICES ASSUME NEW k \in 8..(n - 9)
               PROVE  m[6][k] = Dark(k % 2 = 0) /\ m[k][6] = Dark(k % 2 = 0)
      BY DEF TimingStands
  <2>1. f[6][k] = Dark(k % 2 = 0) /\ f[k][6] = Dark(k % 2 = 0)
      BY <1>5 DEF TimingStands
  <2>2. k \in 0..(n - 1) /\ 6 \in 0..(n - 1)
      BY <1>1
  <2>3. f[6][k] # Null /\ f[k][6] # Null
      BY <1>4, <2>1
  <2> QED
      BY <2>1, <2>2, <2>3, <1>3
<1> QED
    BY <1>6, <1>7, <1>8, <1>9, <1>10 DEF PatternsStand, m, info, n, number
-----------------------------------------------------------------------------
LEMMA FinitePairs ==
  ASSUME NEW A, NEW B, IsFiniteSet(A), IsFiniteSet(B), NEW S \in SUBSET (A \X B)
  PROVE  IsFiniteSet(S) /\ Cardinality(S) \in Nat
BY FS_Product, FS_Subset, FS_CardinalityType

\* What a symbol loses is a number.
LEMMA LostPointType ==
  ASSUME NEW m, NEW n \in Nat, DOMAIN m = 0..(n - 1)
  PROVE  LostPoint(m) \in Int
<1> DEFINE D == DOMAIN m
           size == Cardinality(D)
<1>1. IsFiniteSet(D) /\ size \in Nat
    BY FS_Interval, FS_CardinalityType
<1>2. NeighbourLoss(m) \in Int
  <2> DEFINE counted == {<<p, SameCount(m, p[1], p[2])>> : p \in D \X D}
             f == [p \in D \X D |-> <<p, SameCount(m, p[1], p[2])>>]
             cells(k) == Cardinality({q \in counted : q[2] = k})
  <2>1. IsFiniteSet(D \X D)
      BY <1>1, FS_Product
  <2>2. f \in Surjection(D \X D, counted)
      BY DEF Surjection
  <2>3. IsFiniteSet(counted)
    <3> HIDE DEF f, counted
    <3> QED
        BY <2>1, <2>2, FS_Surjection
  <2>4. \A k : cells(k) \in Nat
    <3> HIDE DEF counted
    <3> TAKE k
    <3>1. {q \in counted : q[2] = k} \in SUBSET counted
        OBVIOUS
    <3> QED
        BY <3>1, <2>3, FS_Subset, FS_CardinalityType
  <2> HIDE DEF cells
  <2>5. 4 * cells(6) + 5 * cells(7) + 6 * cells(8) \in Int
      BY <2>4
  <2> QED
      BY <2>5 DEF NeighbourLoss, cells
<1>3. SquareLoss(m) \in Int
  <2> DEFINE last == size - 1
             S == {p \in (0..(last - 1)) \X (0..(last - 1)) :
                     m[p[1]][p[2]] + m[p[1] + 1][p[2]] + m[p[1]][p[2] + 1]
                       + m[p[1] + 1][p[2] + 1] \in {0, 4}}
  <2>1. IsFiniteSet(0..(last - 1))
      BY <1>1, FS_Interval
  <2>2. S \in SUBSET ((0..(last - 1)) \X (0..(last - 1)))
      OBVIOUS
  <2>3. SquareLoss(m) = 3 * Cardinality(S)
      BY Zenon DEF SquareLoss
  <2> HIDE DEF S, last
  <2>4. Cardinality(S) \in Nat
      BY <2>1, <2>2, FinitePairs
  <2> QED
      BY <2>3, <2>4
<1>4. RunLoss(m) \in Int
  <2> DEFINE last == size - 1
             across == {p \in (0..last) \X (0..(last - 6)) :
                          \A k \in 1..7 : m[p[1]][p[2] + k - 1] = FinderRun[k]}
             down == {p \in (0..(last - 6)) \X (0..last) :
                          \A k \in 1..7 : m[p[1] + k - 1][p[2]] = FinderRun[k]}
  <2>1. IsFiniteSet(0..last) /\ IsFiniteSet(0..(last - 6))
    <3>1. last \in Int /\ last - 6 \in Int
        BY <1>1
    <3> HIDE DEF last
    <3> QED
        BY <3>1, FS_Interval, SMTT(30)
  <2>2. across \in SUBSET ((0..last) \X (0..(last - 6)))
      OBVIOUS
  <2>3. down \in SUBSET ((0..(last - 6)) \X (0..last))
      OBVIOUS
  <2>4. RunLoss(m) = 40 * (Cardinality(across) + Cardinality(down))
      BY Zenon DEF RunLoss
  <2> HIDE DEF across, down, last
  <2>5. Cardinality(across) \in Nat /\ Cardinality(down) \in Nat
      BY <2>1, <2>2, <2>3, FinitePairs
  <2> QED
      BY <2>4, <2>5
<1>5. Cardinality({p \in D \X D : m[p[1]][p[2]] = 1}) \in Nat
  <2>1. {p \in D \X D : m[p[1]][p[2]] = 1} \in SUBSET (D \X D)
      OBVIOUS
  <2> QED
      BY <2>1, <1>1, FinitePairs
<1> DEFINE dark == Cardinality({p \in D \X D : m[p[1]][p[2]] = 1})
<1>6. LostPoint(m) = size * size * (NeighbourLoss(m) + SquareLoss(m) + RunLoss(m))
                       + AbsVal(200 * dark - 100 * size * size)
    BY Zenon DEF LostPoint
<1>7. 200 * dark - 100 * size * size \in Int
  <2> HIDE DEF size
  <2>1. 200 * dark \in Int /\ 100 * size * size \in Int
      BY <1>1, <1>5
  <2> QED
      BY <2>1
<1>8. AbsVal(200 * dark - 100 * size * size) \in Int
    BY <1>7 DEF AbsVal
<1> HIDE DEF dark, size
<1>9. size * size * (NeighbourLoss(m) + SquareLoss(m) + RunLoss(m)) \in Int
    BY <1>1, <1>2, <1>3, <1>4
<1> QED
    BY <1>6, <1>8, <1>9
-----------------------------------------------------------------------------
LEMMA SymbolDomain ==
  ASSUME NEW type \in Types, NEW lev, NEW mask, NEW test, NEW data
  PROVE  /\ ModuleCount(type) \in Nat
         /\ DOMAIN Symbol(data, type, lev, mask, test) = 0..(ModuleCount(type) - 1)
<1>1. ModuleCount(type) \in Nat
    BY DEF Types, ModuleCount
<1>2. DOMAIN FunctionModules(type, lev, mask, test) = 0..(ModuleCount(type) - 1)
    BY Zenon DEF FunctionModules
<1>3. \A blank : DOMAIN MapData(blank, data, type, mask) = DOMAIN blank
    BY Zenon DEF MapData
<1> QED
    BY <1>1, <1>2, <1>3 DEF Symbol

LEMMA LossType ==
  ASSUME NEW type \in Types, NEW lev, NEW mask, NEW test, NEW data
  PROVE  LostPoint(Symbol(data, type, lev, mask, test)) \in Int
BY SymbolDomain, LostPointType
-----------------------------------------------------------------------------
\* The library and the standard mean the same by a mask.
LEMMA SameMasks ==
  ASSUME NEW mask \in 0..7, NEW i \in Nat, NEW j \in Nat
  PROVE  Flipped(mask, i, j) <=> Masked(mask, i, j)
<1> USE DEF Flipped, Masked
<1>1. CASE mask = 0
    BY <1>1
<1>2. CASE mask = 1
    BY <1>2
<1>3. CASE mask = 2
    BY <1>3
<1>4. CASE mask = 3
    BY <1>4
<1>5. CASE mask = 4
    BY <1>5
<1>6. CASE mask = 5
    BY <1>6
<1>7. CASE mask = 6
    BY <1>7
<1>8. CASE mask = 7
    BY <1>8
<1> HIDE DEF Flipped, Masked
<1> QED
    BY <1>1, <1>2, <1>3, <1>4, <1>5, <1>6, <1>7, <1>8

\* The finders with their borders as PatternsIntact looks at them.
LEMMA FindersIntact ==
  ASSUME NEW m, NEW n \in Nat, n >= 21, FindersStand(m, n),
         NEW o \in {<<0, 0>>, <<0, n - 7>>, <<n - 7, 0>>}, NEW x \in -1..7, NEW y \in -1..7,
         o[1] + x \in 0..(n - 1), o[2] + y \in 0..(n - 1)
  PROVE  LET a == IF x > 3 THEN x - 3 ELSE 3 - x
             b == IF y > 3 THEN y - 3 ELSE 3 - y
         IN  m[o[1] + x][o[2] + y] = IF (IF a > b THEN a ELSE b) \in {0, 1, 3} THEN 1 ELSE 0
<1> DEFINE r == o[1] + x
           c == o[2] + y
           dark(u, v) == \/ u \in 0..6 /\ v \in {0, 6}
                         \/ v \in 0..6 /\ u \in {0, 6}
                         \/ u \in 2..4 /\ v \in 2..4
<1>1. r \in 0..(n - 1) /\ c \in 0..(n - 1)
    OBVIOUS
<1>2. InProbe(n, r, c)
  <2>1. o \in ProbeCorners(n) /\ r - o[1] \in -1..7 /\ c - o[2] \in -1..7
      BY DEF ProbeCorners
  <2> HIDE DEF r, c
  <2> QED
      BY <2>1 DEF InProbe
<1>3. ProbeDark(n, r, c) <=> \/ dark(r - 0, c - 0)
                             \/ dark(r - (n - 7), c - 0)
                             \/ dark(r - 0, c - (n - 7))
  <2> HIDE DEF r, c
  <2> QED
      BY DEF ProbeDark, ProbeCorners
<1>4. ProbeDark(n, r, c) <=> dark(x, y)
  <2>1. CASE o = <<0, 0>>
    <3>1. r = x /\ c = y
        BY <2>1
    <3> HIDE DEF r, c
    <3> QED
        BY <1>3, <3>1
  <2>2. CASE o = <<0, n - 7>>
    <3>1. r = x /\ c = n - 7 + y
        BY <2>2
    <3> HIDE DEF r, c
    <3> QED
        BY <1>3, <3>1
  <2>3. CASE o = <<n - 7, 0>>
    <3>1. r = n - 7 + x /\ c = y
        BY <2>3
    <3> HIDE DEF r, c
    <3> QED
        BY <1>3, <3>1
  <2> QED
      BY <2>1, <2>2, <2>3
<1>5. m[r][c] = Dark(dark(x, y))
  <2> HIDE DEF r, c, dark
  <2> QED
      BY <1>1, <1>2, <1>4 DEF FindersStand, Dark
<1> QED
    BY <1>5 DEF Dark

\* A symbol as a scanner finds it: its size names the type, its finders, timing
\* lines and alignment patterns stand, both copies of the format word carry
\* the level and the mask and both copies of the type word the type, and every
\* module that the standard leaves to the data carries the bit of its place,
\* turned over where the standard's mask says so.
FoundByScanner(m, type, lev, mask, data) ==
  LET n == ModuleCount(type)
      info == BCHTypeInfo(8 * QRErrorCorrectionLevel[lev] + mask)
      number == BCHTypeNumber(type)
  IN  /\ Cardinality(DOMAIN m) = n /\ TypeOf(m) = type
      /\ PatternsIntact(m)
      /\ AlignmentStands(m, type)
      /\ \A k \in 1..15 :
           LET at == FormatCells[k]
               at2 == FormatCells2(n)[k]
           IN  /\ m[at[1]][at[2]] = Dark(Bit(info, 15 - k) = 1)
               /\ m[at2[1]][at2[2]] = Dark(Bit(info, 15 - k) = 1)
      /\ type >= 7 => \A i \in 0..17 :
           /\ m[i \div 3][n - 11 + (i % 3)] = Dark(Bit(number, i) = 1)
           /\ m[n - 11 + (i % 3)][i \div 3] = Dark(Bit(number, i) = 1)
      /\ \A r, c \in 0..(n - 1) :
           ~Reserved(type, r, c) =>
             m[r][c] = (DataBit(data, BitIndexes[type][<<r, c>>])
                          + (IF Flipped(mask, r, c) THEN 1 ELSE 0)) % 2

\* This is so of the symbols of every type, level, mask and data.
THEOREM SymbolFound ==
  ASSUME NEW type \in Types, NEW lev, NEW mask \in 0..7, NEW data
  PROVE  FoundByScanner(Symbol(data, type, lev, mask, FALSE), type, lev, mask, data)
<1> DEFINE n == ModuleCount(type)
           m == Symbol(data, type, lev, mask, FALSE)
           f == FunctionModules(type, lev, mask, FALSE)
           info == BCHTypeInfo(8 * QRErrorCorrectionLevel[lev] + mask)
           number == BCHTypeNumber(type)
<1>1. n \in Nat /\ n >= 21 /\ n = 4 * type + 17 /\ type \in Nat /\ (type >= 7 => n >= 45)
    BY Size DEF Types
<1>2. /\ FormatStands(m, n, info) /\ (type >= 7 => NumberStands(m, n, number))
      /\ FindersStand(m, n) /\ AlignmentStands(m, type) /\ TimingStands(m, n)
  <2>1. PatternsStand(m, type, info)
      BY SymbolPatterns
  <2> HIDE DEF m, info
  <2> QED
      BY <2>1 DEF PatternsStand
<1>3. DOMAIN m = 0..(n - 1) /\ DOMAIN f = 0..(n - 1) /\ m = MapData(f, data, type, mask)
  <2>1. DOMAIN m = 0..(n - 1)
      BY SymbolDomain
  <2>2. DOMAIN f = 0..(n - 1) /\ m = MapData(f, data, type, mask)
      BY Zenon DEF FunctionModules, Symbol
  <2> QED
      BY <2>1, <2>2
<1>4. \A r, c \in 0..(n - 1) :
        ~Reserved(type, r, c) =>
          m[r][c] = (DataBit(data, BitIndexes[type][<<r, c>>])
                       + (IF Flipped(mask, r, c) THEN 1 ELSE 0)) % 2
  <2> SUFFICES ASSUME NEW r \in 0..(n - 1), NEW c \in 0..(n - 1), ~Reserved(type, r, c)
               PROVE  m[r][c] = (DataBit(data, BitIndexes[type][<<r, c>>])
                                   + (IF Flipped(mask, r, c) THEN 1 ELSE 0)) % 2
      OBVIOUS
  <2>1. f[r][c] = Null
    <3>1. \A test \in BOOLEAN :
            FunctionModules(type, lev, mask, test)[r][c] = Null <=> ~Reserved(type, r, c)
        BY BlankByRule
    <3> QED
        BY <3>1
  <2>2. Flipped(mask, r, c) <=> Masked(mask, r, c)
    <3>1. r \in Nat /\ c \in Nat
        BY <1>1
    <3> QED
        BY <3>1, SameMasks
  <2> HIDE DEF f, n, m
  <2>3. \A x \in DOMAIN f, y \in DOMAIN f :
          f[x][y] = Null =>
            MapData(f, data, type, mask)[x][y]
              = (DataBit(data, BitIndexes[type][<<x, y>>])
                   + (IF Masked(mask, x, y) THEN 1 ELSE 0)) % 2
      BY MapDataFills
  <2> QED
      BY <1>3, <2>1, <2>2, <2>3
<1> HIDE DEF m, f, info, number, n
<1>5. Cardinality(DOMAIN m) = n
    BY <1>1, <1>3, FS_Interval
<1>6. TypeOf(m) = type
    BY <1>1, <1>5 DEF TypeOf
<1>7. PatternsIntact(m)
  <2>1. ASSUME NEW o \in {<<0, 0>>, <<0, n - 7>>, <<n - 7, 0>>}, NEW x \in -1..7, NEW y \in -1..7,
               o[1] + x \in DOMAIN m, o[2] + y \in DOMAIN m
        PROVE  LET a == IF x > 3 THEN x - 3 ELSE 3 - x
                   b == IF y > 3 THEN y - 3 ELSE 3 - y
               IN  m[o[1] + x][o[2] + y] = IF (IF a > b THEN a ELSE b) \in {0, 1, 3} THEN 1 ELSE 0
    <3>1. o[1] + x \in 0..(n - 1) /\ o[2] + y \in 0..(n - 1)
        BY <2>1, <1>3
    <3>2. n \in Nat /\ n >= 21 /\ FindersStand(m, n)
        BY <1>1, <1>2
    <3> QED
        BY <3>1, <3>2, FindersIntact, SMTT(30)
  <2>2. ASSUME NEW k \in 8..(n - 9) PROVE m[6][k] = 1 - (k % 2) /\ m[k][6] = 1 - (k % 2)
    <3>1. m[6][k] = Dark(k % 2 = 0) /\ m[k][6] = Dark(k % 2 = 0)
        BY <1>2 DEF TimingStands
    <3>2. k \in Int
        BY <1>1
    <3> QED
        BY <3>1, <3>2 DEF Dark
  <2>3. m[n - 8][8] = 1
      BY <1>2 DEF FormatStands
  <2> QED
      BY <2>1, <2>2, <2>3, <1>5 DEF PatternsIntact
<1>8. ASSUME NEW k \in 1..15
      PROVE  /\ m[FormatCells[k][1]][FormatCells[k][2]] = Dark(Bit(info, 15 - k) = 1)
             /\ m[FormatCells2(n)[k][1]][FormatCells2(n)[k][2]] = Dark(Bit(info, 15 - k) = 1)
  <2> DEFINE i == 15 - k
  <2>1. i \in 0..14 /\ k = 15 - i
      OBVIOUS
  <2>2. \/ FormatCells[k] = <<8, InfoAcross(n, i)[2]>> /\ FormatCells2(n)[k] = <<InfoDown(n, i)[1], 8>>
        \/ FormatCells[k] = <<InfoDown(n, i)[1], 8>> /\ FormatCells2(n)[k] = <<8, InfoAcross(n, i)[2]>>
    <3> HIDE DEF i
    <3> QED
        BY <1>1, <2>1 DEF FormatCells, FormatCells2, InfoDown, InfoAcross
  <2> HIDE DEF i
  <2>3. /\ m[InfoDown(n, i)[1]][8] = Dark(Bit(info, i) = 1)
        /\ m[8][InfoAcross(n, i)[2]] = Dark(Bit(info, i) = 1)
      BY <1>2, <2>1 DEF FormatStands
  <2> QED
      BY <2>2, <2>3 DEF i
<1>9. ASSUME type >= 7, NEW i \in 0..17
      PROVE  /\ m[i \div 3][n - 11 + (i % 3)] = Dark(Bit(number, i) = 1)
             /\ m[n - 11 + (i % 3)][i \div 3] = Dark(Bit(number, i) = 1)
  <2>1. NumberDown(n, i) = <<i \div 3, n - 11 + (i % 3)>>
      BY <1>1 DEF NumberDown
  <2> QED
      BY <1>2, <1>9, <2>1 DEF NumberStands
<1> QED
    BY <1>2, <1>4, <1>5, <1>6, <1>7, <1>8, <1>9 DEF FoundByScanner, n, info, number, m
-----------------------------------------------------------------------------
\* The codewords of the data that the object holds, and the symbol of a mask.
Data == CreateData(dataList, typeNumber, level)
Tried(k) == Symbol(Data, typeNumber, level, k, TRUE)
Lost(k) == LostPoint(Tried(k))

\* The best mask of those before one: the first that loses least.
BestBefore(t) ==
  /\ pattern \in 0..(t - 1) /\ minLostPoint = Lost(pattern)
  /\ \A k \in 0..(t - 1) : IF k < pattern THEN Lost(k) > minLostPoint
                                           ELSE Lost(k) >= minLostPoint

\* While the masks are tried, the symbol carries the one of this round and the
\* best of the earlier rounds is kept; afterwards it carries the best of all.
SymbolInv ==
  /\ level \in Levels /\ trial \in 0..Idle
  /\ trial # Idle \/ dataCache # <<>> => typeNumber \in Types /\ dataCache = Data
  /\ trial # Idle => modules = Tried(trial)
  /\ trial \in 1..7 => BestBefore(trial)
  /\ trial = Idle /\ dataCache # <<>> =>
       BestBefore(8) /\ modules = Symbol(Data, typeNumber, level, pattern, FALSE)

LEMMA StepMakeSymbol ==
  ASSUME SymbolInv, Make PROVE SymbolInv'
<1>1. MadeType \in Types /\ level \in Levels
    BY MadeAssumption DEF Make
<1>2. /\ typeNumber' = MadeType /\ level' = level /\ dataList' = dataList
      /\ trial' = 0 /\ trial = Idle
    BY DEF Make
<1>3. dataCache # <<>> => MadeType = typeNumber
  <2> SUFFICES ASSUME dataCache # <<>> PROVE MadeType = typeNumber
      OBVIOUS
  <2>1. typeNumber \in Types
      BY Zenon DEF SymbolInv
  <2>2. ~(typeNumber < 1)
      BY <2>1 DEF Types
  <2> QED
      BY <2>2, Zenon DEF MadeType
<1>4. Data' = CreateData(dataList, MadeType, level)
    BY <1>2 DEF Data
<1>5. dataCache' = Data'
    BY <1>3, <1>4 DEF Make, SymbolInv, Data
<1>6. modules' = Tried(0)'
    BY <1>2, <1>5 DEF Make, Tried
<1> QED
    BY <1>1, <1>2, <1>5, <1>6 DEF SymbolInv, Idle

\* A round leaves the best of the masks so far.
LEMMA RoundKeepsBest ==
  ASSUME SymbolInv, NEW t \in 0..7, trial = t, KeepBetter,
         UNCHANGED <<dataList, typeNumber, level>>
  PROVE  BestBefore(t + 1)'
<1>1. typeNumber \in Types /\ modules = Tried(t)
    BY DEF SymbolInv, Idle
<1>2. \A k : Lost(k) \in Int /\ Lost(k)' = Lost(k)
    BY <1>1, LossType DEF Lost, Tried, Data
<1> DEFINE lost == LostPoint(modules)
<1>3. lost = Lost(t)
    BY <1>1 DEF Lost
<1>4. t # 0 => BestBefore(t) /\ \A k \in 0..(t - 1) : k <= t - 1
    BY DEF SymbolInv
<1>5. CASE Better(lost)
  <2>1. minLostPoint' = Lost(t) /\ pattern' = t
      BY <1>3, <1>5 DEF KeepBetter
  <2>2. ASSUME NEW k \in 0..(t - 1) PROVE Lost(k) > Lost(t)
    <3>1. lost < minLostPoint /\ BestBefore(t)
        BY <1>4, <1>5 DEF Better
    <3>2. Lost(k) >= minLostPoint /\ minLostPoint \in Int
        BY <3>1, <1>2 DEF BestBefore
    <3> QED
        BY <3>1, <3>2, <1>2, <1>3
  <2>3. ASSUME NEW k \in 0..(t + 1 - 1)
        PROVE  IF k < t THEN Lost(k) > Lost(t) ELSE Lost(k) >= Lost(t)
      BY <2>2, <1>2
  <2> QED
      BY <2>1, <2>3, <1>2 DEF BestBefore
<1>6. CASE ~Better(lost)
  <2>1. minLostPoint' = minLostPoint /\ pattern' = pattern
      BY <1>6 DEF KeepBetter, best
  <2>2. t # 0 /\ ~(lost < minLostPoint) /\ BestBefore(t)
      BY <1>4, <1>6 DEF Better
  <2>3. Lost(t) >= minLostPoint /\ minLostPoint \in Int /\ minLostPoint = Lost(pattern)
      BY <2>2, <1>2, <1>3 DEF BestBefore
  <2>4. pattern \in 0..(t - 1)
      BY <2>2 DEF BestBefore
  <2>5. ASSUME NEW k \in 0..(t + 1 - 1)
        PROVE  IF k < pattern THEN Lost(k) > minLostPoint ELSE Lost(k) >= minLostPoint
    <3>1. CASE k = t
        BY <3>1, <2>3, <2>4
    <3>2. CASE k # t
        BY <3>2, <2>2 DEF BestBefore
    <3> QED
        BY <3>1, <3>2
  <2> QED
      BY <2>1, <2>3, <2>4, <2>5, <1>2 DEF BestBefore
<1> QED
    BY <1>5, <1>6

LEMMA SymbolInvHolds == Spec => []SymbolInv
<1>1. Init => SymbolInv
    BY ObjectsAssumption DEF Init, SymbolInv, Idle
<1>2. SymbolInv /\ [Next]_vars => SymbolInv'
  <2> SUFFICES ASSUME SymbolInv, [Next]_vars PROVE SymbolInv'
      OBVIOUS
  <2>1. CASE \E d \in Segments : AddData(d)
      BY <2>1 DEF AddData, Forget, SymbolInv, Idle, best
  <2>2. CASE Make
      BY <2>2, StepMakeSymbol
  <2>3. CASE MakeThrows
      BY <2>3 DEF MakeThrows, SymbolInv, Idle, best
  <2>4. ASSUME NEW t \in 0..6, trial = t, TryMask PROVE SymbolInv'
    <3>1. typeNumber \in Types /\ dataCache = Data
        BY <2>4 DEF SymbolInv, Idle
    <3>2. /\ trial' = t + 1 /\ UNCHANGED <<typeNumber, level, dataList, dataCache>>
          /\ modules' = Symbol(dataCache, typeNumber, level, t + 1, TRUE)
        BY <2>4 DEF TryMask
    <3>3. BestBefore(t + 1)'
        BY <3>2, <2>4, RoundKeepsBest DEF TryMask
    <3>4. Data' = Data /\ modules' = Tried(t + 1)'
        BY <3>1, <3>2 DEF Data, Tried
    <3>5. modules' = Tried(trial)' /\ BestBefore(trial)'
        BY <3>2, <3>3, <3>4 DEF Tried, BestBefore
    <3>6. trial' \in 0..Idle /\ trial' # Idle
        BY <3>2 DEF Idle
    <3> QED
        BY <3>1, <3>2, <3>4, <3>5, <3>6 DEF SymbolInv
  <2>5. CASE FinishMake
    <3>1. trial = 7 /\ typeNumber \in Types /\ dataCache = Data
        BY <2>5 DEF FinishMake, SymbolInv, Idle
    <3>2. /\ trial' = Idle /\ UNCHANGED <<typeNumber, level, dataList, dataCache>>
          /\ modules' = Symbol(dataCache, typeNumber, level, pattern', FALSE)
        BY <2>5 DEF FinishMake
    <3>3. BestBefore(7 + 1)'
        BY <3>1, <3>2, <2>5, RoundKeepsBest DEF FinishMake
    <3>4. Data' = Data
        BY <3>2 DEF Data
    <3> QED
        BY <3>1, <3>2, <3>3, <3>4 DEF SymbolInv, Idle
  <2>6. CASE UNCHANGED vars
    <3>1. UNCHANGED <<typeNumber, level, dataList, dataCache, modules, trial, minLostPoint, pattern>>
        BY <2>6 DEF vars, best
    <3>2. Data' = Data
        BY <3>1 DEF Data
    <3> QED
        BY <3>1, <3>2 DEF SymbolInv, BestBefore, Lost, Tried
  <2> QED
    <3>1. ASSUME TryMask PROVE trial \in 0..6
        BY <3>1 DEF TryMask, SymbolInv, Idle
    <3> QED
        BY <3>1, <2>1, <2>2, <2>3, <2>4, <2>5, <2>6 DEF Next
<1> QED
    BY <1>1, <1>2, PTL DEF Spec

\* Every symbol that was made carries the codewords of the data the object
\* holds and the best of the eight masks: the trial of getBestMaskPattern, a
\* second make and codewords kept from the first leave nothing else behind.
THEOREM BestSymbolTheorem == Spec => []BestSymbolMade
<1>1. SymbolInv => BestSymbolMade
  <2> SUFFICES ASSUME SymbolInv, trial = Idle, dataCache # <<>>
               PROVE  /\ pattern \in 0..7
                      /\ modules = Symbol(Data, typeNumber, level, pattern, FALSE)
                      /\ \A k \in 0..7 : IF k < pattern THEN Lost(k) > Lost(pattern)
                                                         ELSE Lost(k) >= Lost(pattern)
      BY Zenon DEF BestSymbolMade, Data, Lost, Tried
  <2>1. BestBefore(8) /\ modules = Symbol(Data, typeNumber, level, pattern, FALSE)
      BY DEF SymbolInv
  <2> QED
      BY <2>1 DEF BestBefore
<1> QED
    BY <1>1, SymbolInvHolds, PTL

\* A symbol that make leaves is found with the codewords of the data that the
\* object holds, under its own level, type and mask.
MadeSymbolFound ==
  trial = Idle /\ dataCache # <<>> =>
    FoundByScanner(modules, typeNumber, level, pattern, CreateData(dataList, typeNumber, level))
THEOREM ScannerTheorem == Spec => []MadeSymbolFound
<1>1. SymbolInv => MadeSymbolFound
  <2> SUFFICES ASSUME SymbolInv, trial = Idle, dataCache # <<>>
               PROVE  FoundByScanner(modules, typeNumber, level, pattern, Data)
      BY DEF MadeSymbolFound, Data
  <2>1. /\ typeNumber \in Types /\ pattern \in 0..7
        /\ modules = Symbol(Data, typeNumber, level, pattern, FALSE)
      BY DEF SymbolInv, BestBefore
  <2> QED
      BY <2>1, SymbolFound
<1> QED
    BY <1>1, SymbolInvHolds, PTL
-----------------------------------------------------------------------------
LEMMA LeastNatural ==
  ASSUME NEW T, T \subseteq Nat, T # {}
  PROVE  \E x \in T : \A y \in T : x <= y
<1>1. PICK x \in T : \A y \in T : ~(<<y, x>> \in OpToRel(<, Nat))
    BY WFMin, NatLessThanWellFounded, Zenon
<1>2. ASSUME NEW y \in T PROVE ~(y < x)
  <2>1. y \in Nat /\ x \in Nat
      OBVIOUS
  <2>2. y < x => <<y, x>> \in OpToRel(<, Nat)
      BY <2>1, Zenon DEF OpToRel
  <2> QED
      BY <1>1, <2>2
<1>3. \A y \in T : x <= y
    BY <1>2
<1> QED
    BY <1>3

\* The loop of make finds the first type that holds the data.
LEMMA FittingTypeFirst ==
  ASSUME NEW list, NEW lev
  PROVE  LET type == FittingType(list, lev) IN
         /\ type \in Types
         /\ \A t \in 1..(type - 1) : Overflows(list, t, lev)
         /\ Overflows(list, type, lev) => type = 40
<1> DEFINE fitting == {t \in 1..39 : ~Overflows(list, t, lev)}
           type == FittingType(list, lev)
<1>1. CASE fitting = {}
  <2>1. type = 40
      BY <1>1 DEF FittingType
  <2> QED
      BY <1>1, <2>1 DEF Types
<1>2. CASE fitting # {}
  <2>1. \E t \in fitting : \A u \in fitting : t <= u
    <3>1. fitting \subseteq Nat
        OBVIOUS
    <3> HIDE DEF fitting
    <3> QED
        BY <1>2, <3>1, LeastNatural
  <2>2. type = CHOOSE t \in fitting : \A u \in fitting : t <= u
      BY <1>2 DEF FittingType
  <2>3. type \in fitting /\ \A u \in fitting : type <= u
    <3> HIDE DEF fitting, type
    <3> QED
        BY <2>1, <2>2
  <2> QED
      BY <2>3 DEF Types
<1> QED
    BY <1>1, <1>2

\* Codewords are only ever there for data that the object's type can hold.
CodewordsFit ==
  /\ typeNumber \in 0..40
  /\ dataCache # <<>> => typeNumber \in Types /\ ~Overflows(dataList, typeNumber, level)

\* A type is chosen once: the smallest that holds the data of that moment, or
\* the largest when none does, and no later addData or make changes it.
ChosenOnce ==
  typeNumber' # typeNumber =>
    /\ typeNumber = 0 /\ typeNumber' \in Types
    /\ \A t \in 1..(typeNumber' - 1) : Overflows(dataList, t, level)
    /\ Overflows(dataList, typeNumber', level) => typeNumber' = 40

\* The type of an object is chosen once: it is the smallest that holds the data of
\* that moment, no later call changes it, and codewords that are kept fit it (the
\* loop of make, and the dataCache that addData and make share).
THEOREM TypeTheorem == Spec => []CodewordsFit /\ [][ChosenOnce]_vars
<1>1. Init => CodewordsFit
    BY ObjectsAssumption DEF Init, CodewordsFit
<1>2. ASSUME CodewordsFit, Make \/ MakeThrows
      PROVE  MadeType \in Types /\ ChosenOnce
  <2>1. typeNumber' = MadeType /\ <<MadeType, level>> \in MadeSymbols \cup {<<40, "L">>}
      BY <1>2 DEF Make, MakeThrows
  <2>2. MadeType \in Types
    <3>1. CASE <<MadeType, level>> \in MadeSymbols
        BY <3>1, MadeAssumption
    <3>2. CASE <<MadeType, level>> = <<40, "L">>
        BY <3>2 DEF Types
    <3> QED
        BY <2>1, <3>1, <3>2
  <2>3. CASE typeNumber < 1
    <3>1. typeNumber = 0 /\ MadeType = FittingType(dataList, level)
        BY <1>2, <2>3 DEF CodewordsFit, MadeType
    <3> QED
        BY <2>1, <2>2, <3>1, FittingTypeFirst DEF ChosenOnce
  <2>4. CASE ~(typeNumber < 1)
      BY <2>1, <2>2, <2>4 DEF ChosenOnce, MadeType
  <2> QED
      BY <2>2, <2>3, <2>4
<1>3. CodewordsFit /\ [Next]_vars => CodewordsFit' /\ [ChosenOnce]_vars
  <2> SUFFICES ASSUME CodewordsFit, [Next]_vars PROVE CodewordsFit' /\ [ChosenOnce]_vars
      OBVIOUS
  <2>1. CASE \E d \in Segments : AddData(d)
      BY <2>1 DEF AddData, Forget, CodewordsFit, ChosenOnce
  <2>2. CASE Make
    <3>1. MadeType \in Types /\ ChosenOnce
        BY <2>2, <1>2
    <3>2. typeNumber' = MadeType /\ dataList' = dataList /\ level' = level
        BY <2>2 DEF Make
    <3>3. CASE dataCache # <<>>
      <4>1. typeNumber \in Types /\ ~Overflows(dataList, typeNumber, level)
          BY <3>3, Zenon DEF CodewordsFit
      <4>2. ~(typeNumber < 1)
          BY <4>1 DEF Types
      <4>3. MadeType = typeNumber
          BY <4>2, Zenon DEF MadeType
      <4> QED
          BY <3>1, <3>2, <4>1, <4>3 DEF CodewordsFit, Types
    <3>4. CASE dataCache = <<>>
      <4>1. ~Overflows(dataList, MadeType, level)
          BY <2>2, <3>4 DEF Make
      <4> QED
          BY <3>1, <3>2, <4>1 DEF CodewordsFit, Types
    <3> QED
        BY <3>3, <3>4
  <2>3. CASE MakeThrows
    <3>1. MadeType \in Types /\ ChosenOnce
        BY <2>3, <1>2
    <3>2. typeNumber' = MadeType /\ dataCache' = <<>>
        BY <2>3 DEF MakeThrows
    <3> QED
        BY <3>1, <3>2 DEF CodewordsFit, Types
  <2>4. CASE TryMask \/ FinishMake
      BY <2>4 DEF TryMask, FinishMake, CodewordsFit, ChosenOnce
  <2>5. CASE UNCHANGED vars
      BY <2>5 DEF vars, CodewordsFit
  <2> QED
      BY <2>1, <2>2, <2>3, <2>4, <2>5 DEF Next
<1> QED
    BY <1>1, <1>3, PTL DEF Spec
=============================================================================
