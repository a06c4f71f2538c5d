------------------------------ MODULE MCQRCode ------------------------------
(***************************************************************************)
(* The QR code object on small texts, its symbols read back by the scanner *)
(* of QRReader; the tables are checked for all types and levels.           *)
(***************************************************************************)
EXTENDS QRCode, QRReader

Text(codes) == [mode |-> "Byte", chars |-> codes]
\* "http://a", which twice fills the first symbol of Symbols to its last bit, and a
\* link that no symbol can hold.
ShortLink == Text(<<104, 116, 116, 112, 58, 47, 47, 97>>)
EndlessLink == Text([k \in 1..2954 |-> 47])
Digits == [mode |-> "Numeric", chars |-> <<52, 57, 49, 48, 55>>]
Capitals == [mode |-> "Alphanumeric", chars |-> <<65, 47, 57>>]
AllSegments == {ShortLink, EndlessLink, Digits, Capitals}

\* One small block, a larger one, and blocks of two lengths with a type word.
Symbols == {<<1, "L">>, <<2, "L">>, <<7, "Q">>}
-----------------------------------------------------------------------------
\* A scanner reads from a symbol exactly what was added to the object: every
\* pattern, format bit, mask and data module is where it is looked for, every
\* block is a Reed-Solomon codeword, and codewords of an earlier make are not
\* used for data added since.
SymbolReads == trial = Idle /\ dataCache # <<>> => Read(modules) = dataList

\* The blocks of every type and level fill the data modules of the symbol,
\* carry equally many correction codewords, and the longer ones come last.
BlocksFillSymbol ==
  typeNumber \in Types =>
    LET blocks == RSBlocks(typeNumber, level)
        ec(b) == b.totalCount - b.dataCount
    IN  /\ FoldLeft(LAMBDA n, b : n + b.totalCount, 0, blocks) = DataModules(typeNumber) \div 8
        /\ \A j, k \in DOMAIN blocks : ec(blocks[j]) = ec(blocks[k])
        /\ \A j, k \in DOMAIN blocks : j < k =>
             blocks[k].dataCount - blocks[j].dataCount \in {0, 1}

\* The alignment patterns stand where the standard's rule puts them, and
\* nowhere on a finder.
AlignmentFollowsRule ==
  typeNumber \in Types =>
    LET at == AlignmentPositions(typeNumber)
        last == 4 * typeNumber + 10
    IN  AdjustCentres(typeNumber) = (at \X at) \ {<<6, 6>>, <<6, last>>, <<last, 6>>}

\* Format words differ in seven bits and type words in eight, so that a
\* scanner corrects three of them.
Distance(a, b) == Cardinality({i \in 0..17 : Bit(a, i) # Bit(b, i)})
InfoWords == [data \in 0..31 |-> BCHTypeInfo(data)]
TypeWords == [type \in 7..40 |-> BCHTypeNumber(type)]
WordsApart ==
  dataList = <<>> =>
    LET own == {8 * QRErrorCorrectionLevel[level] + mask : mask \in 0..7}
    IN  /\ \A a \in own, b \in 0..31 : a # b => Distance(InfoWords[a], InfoWords[b]) >= 7
        /\ typeNumber >= 7 => \A t \in 7..40 \ {typeNumber} :
             Distance(TypeWords[typeNumber], TypeWords[t]) >= 8

\* An object that chooses its type takes the smallest symbol that holds the
\* data, and make throws, which the page shows as "URL too long for QR", only
\* when the chosen symbol really does not hold it.
Fits(list, type, lev) ==
  LET bits == FoldLeft(LAMBDA n, d : n + 4 + LengthInBits(d.mode, type)
                                       + BodyLength(d.mode, Len(d.chars)), 0, list)
      ec == FoldLeft(LAMBDA n, b : n + b.totalCount - b.dataCount, 0, RSBlocks(type, lev))
  IN  bits <= 8 * (DataModules(type) \div 8 - ec)
SmallestTypeTaken ==
  [][typeNumber' # 0 =>
       /\ typeNumber = 0 => \A t \in 1..(typeNumber' - 1) : ~Fits(dataList, t, level)
       /\ modules' # modules =>
            (Fits(dataList, typeNumber', level) <=> dataCache' # <<>>)]_vars
=============================================================================
