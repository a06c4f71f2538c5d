------------------------------- MODULE QRCode -------------------------------
(***************************************************************************)
(* The QR code object of src/web/qrcode.js, which showQR of the page       *)
(* creates, fills with addData and makes: the choice of the symbol type,   *)
(* the codewords, the placement of the patterns and of the data, and the   *)
(* choice of the mask.                                                     *)
(*                                                                         *)
(* A segment is [mode, chars], chars a sequence of character codes.  A     *)
(* symbol is a function [row][col] to 0 (light), 1 (dark) or Null, the     *)
(* value of a module nothing has written yet.                              *)
(***************************************************************************)
EXTENDS QRTables, QRMath, FiniteSets

CONSTANTS
    TypeNumbers,  \* the type numbers an object is created with, 0 for automatic
    UsedLevels,   \* the error correction levels it is created with
    Segments,     \* the data addData is called with
    MaxSegments,  \* bound on the calls of addData
    MakeTypes,    \* the types whose symbol is made: a bound on the work
    MadeSymbols   \* and among them the pairs <<type, level>>

ASSUME ObjectsAssumption == TypeNumbers \subseteq 0..40 /\ UsedLevels \subseteq Levels
ASSUME MadeAssumption == MakeTypes \subseteq Types /\ MadeSymbols \subseteq MakeTypes \X Levels

VARIABLES
    typeNumber, level, dataList,
    dataCache,   \* the codewords kept from the last make, or <<>>
    modules,     \* the symbol
    trial,       \* make's loop over the masks: the one tried, or Idle
    minLostPoint, pattern,
    result       \* what the last call came to: "none", "made" or "threw"

best == <<minLostPoint, pattern>>
vars == <<typeNumber, level, dataList, dataCache, modules, trial, best, result>>

Idle == 8

Null == -1
Min2(a, b) == IF a < b THEN a ELSE b
AbsVal(x) == IF x < 0 THEN -x ELSE x
-----------------------------------------------------------------------------
(***************************************************************************)
(* Codewords                                                               *)
(***************************************************************************)

\* qrBitBuffer.put: the bits of a number, the highest first.
Put(num, length) == [i \in 1..length |-> Bit(num, length - i)]

\* The number that a run of decimal digits stands for (strToNum).
StrToNum(s) == FoldLeft(LAMBDA n, c : n * 10 + (c - 48), 0, s)

\* getCode: the value of a character of the alphanumeric mode.
GetCode(c) ==
  CASE c \in 48..57 -> c - 48
    [] c \in 65..90 -> c - 55
    [] OTHER -> 35 + SelectInSeq(<<32, 36, 37, 42, 43, 45, 46, 47, 58>>, LAMBDA x : x = c)

\* The chunks of a sequence, size characters each, the last one maybe shorter.
Chunks(s, size) ==
  [k \in 1..((Len(s) + size - 1) \div size) |->
     SubSeq(s, size * (k - 1) + 1, Min2(size * k, Len(s)))]

\* write of the three kinds of data.
NumberBits(s) ==
  FlattenSeq([k \in DOMAIN Chunks(s, 3) |->
    LET c == Chunks(s, 3)[k] IN Put(StrToNum(c), <<4, 7, 10>>[Len(c)])])
AlphaNumBits(s) ==
  FlattenSeq([k \in DOMAIN Chunks(s, 2) |->
    LET c == Chunks(s, 2)[k]
    IN  IF Len(c) = 2 THEN Put(GetCode(c[1]) * 45 + GetCode(c[2]), 11)
        ELSE Put(GetCode(c[1]), 6)])

\* The low eight bits of every character code.
StringToBytes(s) == [k \in DOMAIN s |-> s[k] % 256]
ByteBits(s) ==
  LET bytes == StringToBytes(s)
  IN  [b \in 1..(8 * Len(bytes)) |-> Bit(bytes[1 + (b - 1) \div 8], 7 - ((b - 1) % 8))]

\* One segment: mode, length field, data.
SegmentBits(d, type) ==
  Put(QRMode[d.mode], 4) \o Put(Len(d.chars), LengthInBits(d.mode, type))
    \o CASE d.mode = "Numeric" -> NumberBits(d.chars)
         [] d.mode = "Alphanumeric" -> AlphaNumBits(d.chars)
         [] d.mode = "Byte" -> ByteBits(d.chars)

\* The length of the buffer that holds all segments, for a given type.
WrittenLength(d) ==
  LET n == Len(d.chars)
  IN  CASE d.mode = "Numeric" -> 10 * (n \div 3) + <<0, 4, 7>>[1 + (n % 3)]
        [] d.mode = "Alphanumeric" -> 11 * (n \div 2) + 6 * (n % 2)
        [] d.mode = "Byte" -> 8 * n
BufferLength(list, type) ==
  FoldLeft(LAMBDA n, d : n + 4 + LengthInBits(d.mode, type) + WrittenLength(d), 0, list)

Overflows(list, type, lev) == BufferLength(list, type) > 8 * TotalDataCount(type, lev)

\* Mutation: the loop starts at two.
LoopFromTwo(list, lev) ==
  LET fitting == {t \in 2..39 : ~Overflows(list, t, lev)}
  IN  IF fitting = {} THEN 40 ELSE CHOOSE t \in fitting : \A u \in fitting : t <= u

\* The loop of make: the first type below 40 that holds the data, else 40.
FittingType(list, lev) ==
  LET fitting == {t \in 1..39 : ~Overflows(list, t, lev)}
  IN  IF fitting = {} THEN 40 ELSE CHOOSE t \in fitting : \A u \in fitting : t <= u

\* The bytes of a buffer whose length is a multiple of eight.
ToBytes(bits) ==
  [k \in 1..(Len(bits) \div 8) |->
     FoldLeft(LAMBDA n, b : 2 * n + b, 0, SubSeq(bits, 8 * k - 7, 8 * k))]

PAD0 == 236
PAD1 == 17

\* createData up to createBytes: terminator, zero bits, pad bytes in turn.
PaddedBytes(list, type, lev) ==
  LET capacity == TotalDataCount(type, lev)
      buffer == FlattenSeq([k \in DOMAIN list |-> SegmentBits(list[k], type)])
      ended == IF Len(buffer) + 4 <= 8 * capacity THEN buffer \o Put(0, 4) ELSE buffer
      bytes == ToBytes(ended \o Put(0, (8 - (Len(ended) % 8)) % 8))
  IN  bytes \o [k \in 1..(capacity - Len(bytes)) |-> IF k % 2 = 1 THEN PAD0 ELSE PAD1]

\* The error correction codewords of one block, left-filled with zeros.
ErrorCorrection(data, ecCount) ==
  LET modPoly == Remainder(Polynomial(data, ecCount), ErrorCorrectPolynomial[ecCount])
  IN  IF Len(modPoly) >= ecCount
      THEN SubSeq(modPoly, Len(modPoly) - ecCount + 1, Len(modPoly))
      ELSE [k \in 1..(ecCount - Len(modPoly)) |-> 0] \o modPoly

\* The first codewords of all blocks, then the second ones, and so on.
Interleaved(blocks) ==
  LET longest == CHOOSE n \in {Len(blocks[k]) : k \in DOMAIN blocks} :
                   \A k \in DOMAIN blocks : Len(blocks[k]) <= n
      column(i) == LET reach == SelectSeq(blocks, LAMBDA b : Len(b) >= i)
                   IN  [k \in DOMAIN reach |-> reach[k][i]]
  IN  FlattenSeq([i \in 1..longest |-> column(i)])

\* createBytes: the blocks cut out of the buffer, corrected and interleaved.
CreateBytes(bytes, blocks) ==
  LET offset(r) == FoldLeft(LAMBDA n, k : n + blocks[k].dataCount, 0, [k \in 1..(r - 1) |-> k])
      dcdata == [r \in DOMAIN blocks |->
                   SubSeq(bytes, offset(r) + 1, offset(r) + blocks[r].dataCount)]
      ecdata == [r \in DOMAIN blocks |->
                   ErrorCorrection(dcdata[r], blocks[r].totalCount - blocks[r].dataCount)]
  IN  Interleaved(dcdata) \o Interleaved(ecdata)

CreateData(list, type, lev) ==
  CreateBytes(PaddedBytes(list, type, lev), RSBlocks(type, lev))
-----------------------------------------------------------------------------
(***************************************************************************)
(* Placement                                                               *)
(***************************************************************************)
ModuleCount(type) == 4 * type + 17

\* setupPositionProbePattern: three finders with their light borders.
ProbeCorners(n) == {<<0, 0>>, <<n - 7, 0>>, <<0, n - 7>>}
InProbe(n, r, c) == \E p \in ProbeCorners(n) : r - p[1] \in -1..7 /\ c - p[2] \in -1..7
ProbeDark(n, r, c) ==
  \E p \in ProbeCorners(n) :
    LET x == r - p[1]  y == c - p[2]
    IN  \/ x \in 0..6 /\ y \in {0, 6}
        \/ y \in 0..6 /\ x \in {0, 6}
        \/ x \in 2..4 /\ y \in 2..4

\* Mutation: the finders are not looked at.
AllCentres(type) == ToSet(PatternPosition[type]) \X ToSet(PatternPosition[type])

\* setupPositionAdjustPattern: a pattern stays away where its centre is taken.
AdjustCentres(type) ==
  {p \in ToSet(PatternPosition[type]) \X ToSet(PatternPosition[type]) :
     ~InProbe(ModuleCount(type), p[1], p[2])}
\* The centres of the patterns that a module lies in, at most one.
AdjustAt(type, centres, r, c) ==
  LET near(x) == {q \in ToSet(PatternPosition[type]) : AbsVal(x - q) <= 2}
  IN  (near(r) \X near(c)) \cap centres
AdjustDark(p, r, c) ==
  LET x == AbsVal(r - p[1])  y == AbsVal(c - p[2])
  IN  x = 2 \/ y = 2 \/ (x = 0 /\ y = 0)

\* setupTimingPattern: dark and light in turn between the finders.
TimingAt(n, r, c) ==
  IF c = 6 /\ r \in 8..(n - 9) THEN 1 - (r % 2)
  ELSE IF r = 6 /\ c \in 8..(n - 9) THEN 1 - (c % 2)
  ELSE Null

\* setupTypeInfo: where bit i of the format word goes, down and across.
InfoDown(n, i) == <<IF i < 6 THEN i ELSE IF i < 8 THEN i + 1 ELSE n - 15 + i, 8>>
InfoAcross(n, i) == <<8, IF i < 8 THEN n - i - 1 ELSE IF i < 9 THEN 15 - i ELSE 14 - i>>
FixedModule(n) == <<n - 8, 8>>

\* setupTypeNumber: where bit i of the type word goes.
NumberDown(n, i) == <<i \div 3, (i % 3) + n - 11>>
NumberAcross(n, i) == <<(i % 3) + n - 11, i \div 3>>

InfoBits(n, r, c) == {i \in 0..14 : <<r, c>> \in {InfoDown(n, i), InfoAcross(n, i)}}
NumberBitsAt(n, r, c) == {i \in 0..17 : <<r, c>> \in {NumberDown(n, i), NumberAcross(n, i)}}

\* The symbol before the data: the later calls of makeImpl write over the
\* earlier ones, the timing pattern only where nothing is yet.  In a test the
\* format and type bits stay light.
FunctionModules(type, lev, mask, test) ==
  LET n == ModuleCount(type)
      centres == AdjustCentres(type)
      info == BCHTypeInfo(8 * QRErrorCorrectionLevel[lev] + mask)
      number == BCHTypeNumber(type)
      written(word, bits) == IF ~test /\ \E i \in bits : Bit(word, i) = 1 THEN 1 ELSE 0
      at(r, c) ==
        CASE type >= 7 /\ (r \in 0..5 \/ c \in 0..5) /\ NumberBitsAt(n, r, c) # {} ->
               written(number, NumberBitsAt(n, r, c))
          [] <<r, c>> = FixedModule(n) -> IF test THEN 0 ELSE 1
          [] (r = 8 \/ c = 8) /\ InfoBits(n, r, c) # {} -> written(info, InfoBits(n, r, c))
          [] OTHER ->
               IF InProbe(n, r, c) THEN IF ProbeDark(n, r, c) THEN 1 ELSE 0
               ELSE IF AdjustAt(type, centres, r, c) # {}
                    THEN IF \E p \in AdjustAt(type, centres, r, c) : AdjustDark(p, r, c) THEN 1 ELSE 0
               ELSE TimingAt(n, r, c)
  IN  [r \in 0..(n - 1) |-> [c \in 0..(n - 1) |-> at(r, c)]]

\* getMaskFunction.
Masked(mask, i, j) ==
  CASE mask = 0 -> (i + j) % 2 = 0
    [] mask = 1 -> i % 2 = 0
    [] mask = 2 -> j % 3 = 0
    [] mask = 3 -> (i + j) % 3 = 0
    [] mask = 4 -> (i \div 2 + j \div 3) % 2 = 0
    [] mask = 5 -> ((i * j) % 2) + ((i * j) % 3) = 0
    [] mask = 6 -> (((i * j) % 2) + ((i * j) % 3)) % 2 = 0
    [] mask = 7 -> (((i * j) % 3) + ((i + j) % 2)) % 2 = 0

\* The path of mapData: pairs of columns from the right, the timing column
\* passed over, upwards and downwards in turn, right before left.
RightColumn(n, pair) == LET col == n - 1 - 2 * pair IN IF col > 6 THEN col ELSE col - 1
Path(n) ==
  [k \in 1..(n * (n - 1)) |->
     LET pair == (k - 1) \div (2 * n)
         step == ((k - 1) % (2 * n)) \div 2
     IN  <<IF pair % 2 = 0 THEN n - 1 - step ELSE step, RightColumn(n, pair) - ((k - 1) % 2)>>]

\* For every module that mapData fills, its place among them.
BitIndex(type) ==
  LET blank == FunctionModules(type, "L", 0, TRUE)
      path == SelectSeq(Path(ModuleCount(type)), LAMBDA p : blank[p[1]][p[2]] = Null)
  IN  [p \in ToSet(path) |-> SelectInSeq(path, LAMBDA q : q = p)]
BitIndexes == [type \in MakeTypes |-> BitIndex(type)]

\* mapData on top of the function modules; beyond the data the bits are zero.
MapData(blank, data, type, mask) ==
  LET bit(k) == IF k <= 8 * Len(data) THEN Bit(data[1 + (k - 1) \div 8], 7 - ((k - 1) % 8)) ELSE 0
      masked(r, c) == IF Masked(mask, r, c) THEN 1 ELSE 0
  IN  [r \in DOMAIN blank |-> [c \in DOMAIN blank |->
         LET set == blank[r][c]
         IN  IF set # Null THEN set
             ELSE (bit(BitIndexes[type][<<r, c>>]) + masked(r, c)) % 2]]

\* makeImpl.
Symbol(data, type, lev, mask, test) ==
  MapData(FunctionModules(type, lev, mask, test), data, type, mask)
-----------------------------------------------------------------------------
(***************************************************************************)
(* The choice of the mask                                                  *)
(***************************************************************************)
Around == (-1..1) \X (-1..1) \ {<<0, 0>>}

\* How many of a module's neighbours have its colour.
SameCount(m, r, c) ==
  Cardinality({d \in Around : /\ r + d[1] \in DOMAIN m /\ c + d[2] \in DOMAIN m
                              /\ m[r + d[1]][c + d[2]] = m[r][c]})

\* Level 1: a module with six or more of them costs their number less two.
NeighbourLoss(m) ==
  LET counted == {<<p, SameCount(m, p[1], p[2])>> : p \in (DOMAIN m) \X (DOMAIN m)}
      cells(k) == Cardinality({q \in counted : q[2] = k})
  IN  4 * cells(6) + 5 * cells(7) + 6 * cells(8)

\* Level 2: 3 for every two by two square of one colour.
SquareLoss(m) ==
  LET last == Cardinality(DOMAIN m) - 1
  IN  3 * Cardinality({p \in (0..(last - 1)) \X (0..(last - 1)) :
                        m[p[1]][p[2]] + m[p[1] + 1][p[2]] + m[p[1]][p[2] + 1]
                          + m[p[1] + 1][p[2] + 1] \in {0, 4}})

\* Level 3: 40 for every run that looks like the middle of a finder.
FinderRun == <<1, 0, 1, 1, 1, 0, 1>>
RunLoss(m) ==
  LET last == Cardinality(DOMAIN m) - 1
      across == {p \in (0..last) \X (0..(last - 6)) :
                   \A k \in 1..7 : m[p[1]][p[2] + k - 1] = FinderRun[k]}
      down == {p \in (0..(last - 6)) \X (0..last) :
                   \A k \in 1..7 : m[p[1] + k - 1][p[2]] = FinderRun[k]}
  IN  40 * (Cardinality(across) + Cardinality(down))

\* getLostPoint, times the number of modules so that it is an integer:
\* level 4 is twice the distance of the dark percentage from fifty.
LostPoint(m) ==
  LET n == Cardinality(DOMAIN m)
      dark == Cardinality({p \in (DOMAIN m) \X (DOMAIN m) : m[p[1]][p[2]] = 1})
  IN  n * n * (NeighbourLoss(m) + SquareLoss(m) + RunLoss(m))
        + AbsVal(200 * dark - 100 * n * n)
-----------------------------------------------------------------------------
(***************************************************************************)
(* The object                                                              *)
(***************************************************************************)
Init ==
  /\ typeNumber \in TypeNumbers
  /\ level \in UsedLevels
  /\ dataList = <<>> /\ dataCache = <<>> /\ modules = <<>>
  /\ trial = Idle /\ minLostPoint = 0 /\ pattern = 0
  /\ result = "none"

\* Bound on the work: objects of other types are created and left alone.
Worked == typeNumber = 0 \/ <<typeNumber, level>> \in MadeSymbols

\* Mutation: the codewords of the earlier make are kept.
KeepCodewords(cache) == cache

\* addData forgets the codewords of an earlier make.
Forget(cache) == <<>>
AddData(d) ==
  /\ trial = Idle /\ Worked /\ Len(dataList) < MaxSegments
  /\ dataList' = Append(dataList, d)
  /\ dataCache' = Forget(dataCache)
  /\ UNCHANGED <<typeNumber, level, modules, trial, best, result>>

\* The type of make: chosen once, and kept by the object from then on.
MadeType == IF typeNumber < 1 THEN FittingType(dataList, level) ELSE typeNumber

\* make begins: the data fits, or its codewords are there already, and the
\* first mask is tried.
Make ==
  /\ trial = Idle /\ <<MadeType, level>> \in MadeSymbols
  /\ dataCache # <<>> \/ ~Overflows(dataList, MadeType, level)
  /\ dataCache' = IF dataCache # <<>> THEN dataCache
                  ELSE CreateData(dataList, MadeType, level)
  /\ typeNumber' = MadeType
  /\ trial' = 0
  /\ modules' = Symbol(dataCache', MadeType, level, 0, TRUE)
  /\ minLostPoint' = 0 /\ pattern' = 0
  /\ UNCHANGED <<level, dataList, result>>

\* make when it does not fit: "code length overflow" is thrown out of the
\* first try, after the type was kept and the patterns were set up.
MakeThrows ==
  /\ trial = Idle /\ dataCache = <<>>
  /\ <<MadeType, level>> \in MadeSymbols \cup {<<40, "L">>}
  /\ Overflows(dataList, MadeType, level)
  /\ modules' = FunctionModules(MadeType, level, 0, TRUE)
  /\ typeNumber' = MadeType
  /\ result' = "threw"
  /\ UNCHANGED <<level, dataList, dataCache, trial, best>>

\* Mutation: the mask that loses most is taken.
Worse(lost) == trial = 0 \/ lost > minLostPoint

\* One round of getBestMaskPattern: the mask that is on the symbol replaces
\* the best one when it loses less, and the next one is put on.
Better(lost) == trial = 0 \/ lost < minLostPoint
KeepBetter ==
  LET lost == LostPoint(modules)
  IN  IF Better(lost) THEN minLostPoint' = lost /\ pattern' = trial
      ELSE UNCHANGED best
TryMask ==
  /\ trial < 7
  /\ KeepBetter
  /\ trial' = trial + 1
  /\ modules' = Symbol(dataCache, typeNumber, level, trial + 1, TRUE)
  /\ UNCHANGED <<typeNumber, level, dataList, dataCache, result>>

\* The last round, and the symbol with the best mask and its format word.
FinishMake ==
  /\ trial = 7
  /\ KeepBetter
  /\ trial' = Idle
  /\ modules' = Symbol(dataCache, typeNumber, level, pattern', FALSE)
  /\ result' = "made"
  /\ UNCHANGED <<typeNumber, level, dataList, dataCache>>

Next == (\E d \in Segments : AddData(d)) \/ Make \/ MakeThrows \/ TryMask \/ FinishMake

Spec == Init /\ [][Next]_vars
-----------------------------------------------------------------------------
\* A symbol that was made carries the codewords of exactly the data that the
\* object holds now, for the type it holds now, under the mask that loses
\* least of all eight and the first of those: no round of the trial, earlier
\* make or kept codewords show through.
BestSymbolMade ==
  trial = Idle /\ dataCache # <<>> =>
    LET data == CreateData(dataList, typeNumber, level)
        lost(k) == LostPoint(Symbol(data, typeNumber, level, k, TRUE))
        least == lost(pattern)
    IN  /\ pattern \in 0..7
        /\ modules = Symbol(data, typeNumber, level, pattern, FALSE)
        /\ \A k \in 0..7 : IF k < pattern THEN lost(k) > least ELSE lost(k) >= least
=============================================================================
