------------------------------ MODULE GridValues ------------------------------
(***************************************************************************)
(* The values of a grid on their way from a message to an answer.  The     *)
(* unpacker hands over the points in the order of the message              *)
(* (TransferInt and TransferFloat, grib2api.c, put them in memory order);  *)
(* ParseGrid (metaparse.c) converts units, cuts out a subgrid, keeps the   *)
(* missing values apart from the others, applies the bitmap and computes   *)
(* statistics; ReadGrib2Record (degrib2.c) numbers the weather strings in  *)
(* use; WriteGradsCube (writegra.c) and gribWriteFloat (writeflt.c) store  *)
(* the grid; gribReadFloat (cube.c) reads it back, and getCubeValAtPnt     *)
(* (genprobe.c) the value at a point.                                      *)
(*                                                                         *)
(* Values are integers, in units of which Ulp make one of the last decimal *)
(* that is stored.  A unit conversion is linear (the 10^value of some      *)
(* elements is left out).  An array is a function from 0 .. n - 1.         *)
(***************************************************************************)
EXTENDS GridOrder, FiniteSets, FiniteSetsExt

CONSTANTS
    Cases,       \* the messages and the options they are read with
    Undef,       \* 9999
    Ulp,
    CubeScans,   \* the orders of the rows in the file, 0 or 64
    Windows,     \* subgrids that are read back: <<x1, y1, x2, y2>>
    Points,      \* that are probed: <<x, y>>, in halves of a cell
    Strays       \* what memory that nobody wrote may hold

(* A part of a grid, from its lower left corner to its upper right one.    *)
Rectangles == {w \in Int \X Int \X Int \X Int : w[1] <= w[3] /\ w[2] <= w[4]}

ASSUME GridAssumption ==
    /\ Undef \in Int /\ Ulp \in Nat \ {0} /\ Undef % Ulp = 0 /\ Strays \subseteq Int
    /\ CubeScans \subseteq {0, GRIB2BIT_2}
    /\ \A c \in Cases :
          /\ c.Nx \in Nat \ {0} /\ c.Ny \in Nat \ {0}
          /\ c.scan \in ScanModes /\ c.f_miss \in 0 .. 2
          /\ {c.missPri, c.missSec, c.unitM, c.unitB} \subseteq Int
          /\ c.fld \in [0 .. c.Nx * c.Ny - 1 -> Int]
          /\ c.bmap \in {<<>>} \cup [0 .. c.Nx * c.Ny - 1 -> Int]
          /\ IsFiniteSet(DOMAIN c.table)
          /\ c.table \in [0 .. Cardinality(DOMAIN c.table) - 1 -> {0, 1}]
          /\ c.sub # <<>> => c.sub \in Rectangles
    /\ Windows \subseteq Rectangles
    /\ Points \subseteq Int \X Int

VARIABLES
    msg,         \* the message: Nx, Ny, scan, fld, bmap (empty: none), f_miss,
                 \* missPri, missSec, table (of the strings that are valid;
                 \* empty: the values are numbers), unitM, unitB, and sub,
                 \* the subgrid that is asked for (empty: none)
    stray,
    pc,          \* "unpack", "parse", "refused", "decoded" or "stored"
    iain, ib,    \* the values and the bitmap in memory
    scan,        \* their order
    grid,        \* grib_Data with its gridAttrib and table
    file,        \* the floats of the grid in the file
    fscan,       \* the order of the rows in the file
    answer,      \* to the last question asked of the file
    truth        \* history: the values that the cells have in the message

unpacked == <<iain, ib, scan>>
given == <<msg, stray, truth>>
vars == <<given, pc, unpacked, grid, file, fscan, answer>>

At(array, i) == IF i \in DOMAIN array THEN array[i] ELSE stray

(* f[i] is written at Place(i), one i after the other, and elsewhere the   *)
(* array keeps what it has; what is written outside it is lost to it.      *)
Scatter(array, f, Place(_)) ==
    [j \in DOMAIN array |->
        LET writers == {i \in DOMAIN f : Place(i) = j}
        IN  IF writers = {} THEN array[j] ELSE f[Max(writers)]]

-----------------------------------------------------------------------------
(* TransferInt and TransferFloat.                                          *)
InOrder == msg.scan \div 16 = 4

Transfer(f) ==
    LET Place(i) == InMemory(ScanIndex2XY(i, msg.scan, msg.Nx, msg.Ny), msg.Nx)
    IN  IF InOrder THEN f ELSE Scatter([i \in DOMAIN f |-> stray], f, Place)

PlaceOf(i) == InMemory(ScanIndex2XY(i, scan, msg.Nx, msg.Ny), msg.Nx)

(* The subgrid.                                                            *)
f_subGrid == msg.sub # <<>>
Sub == IF f_subGrid THEN msg.sub ELSE <<1, 1, msg.Nx, msg.Ny>>
Width(w) == w[3] - w[1] + 1
Height(w) == w[4] - w[2] + 1
Cells(w) == 0 .. Width(w) * Height(w) - 1
Column(w, j) == w[1] + (j % Width(w))
Row(w, j) == w[2] + (j \div Width(w))
Inside(w, j) == Column(w, j) \in 1 .. msg.Nx /\ Row(w, j) \in 1 .. msg.Ny

(* The pointer into iain starts at the first column of the subgrid, but    *)
(* moves on only in columns that the grid has.                             *)
RawAt(j) == LET skipped == IF Sub[1] < 1 THEN 1 - Sub[1] ELSE 0
            IN  At(iain, (Row(Sub, j) - 1) * msg.Nx + Column(Sub, j) - 1 - skipped)

-----------------------------------------------------------------------------
(* ParseGrid, first walk (ParseGridNoMiss, ParseGridPrimMiss,              *)
(* ParseGridSecMiss and the loop for other scan modes).                    *)
f_txtType == msg.table # <<>>
IsMissing(raw) == \/ msg.f_miss # 0 /\ raw = msg.missPri
                  \/ msg.f_miss = 2 /\ raw = msg.missSec
Converted(raw) == msg.unitM * raw + msg.unitB
NotInTable(raw) == /\ f_txtType
                   /\ Converted(raw) \in DOMAIN msg.table
                   /\ msg.table[Converted(raw)] = 0
BecomesMissing(raw) == ~IsMissing(raw) /\ msg.f_miss # 0 /\ NotInTable(raw)

Value(raw) == IF IsMissing(raw) THEN raw
              ELSE IF BecomesMissing(raw) THEN msg.missPri ELSE Converted(raw)

InRange(raw) == /\ ~IsMissing(raw)
                /\ f_txtType /\ msg.f_miss # 0 => Value(raw) # msg.missPri

Walked == {j \in Cells(Sub) : Inside(Sub, j)}

UsedStrings == {Converted(RawAt(j)) : j \in {k \in Walked : ~IsMissing(RawAt(k))}}

(* Mutant: a string that is not valid is never marked as used.             *)
TableAfterOfValid ==
    [t \in DOMAIN msg.table |->
        IF t \in UsedStrings /\ msg.table[t] = 1 THEN 2 ELSE msg.table[t]]

TableAfter ==
    [t \in DOMAIN msg.table |->
        IF t \notin UsedStrings THEN msg.table[t]
        ELSE IF msg.table[t] = 1 THEN 2 ELSE IF msg.f_miss = 0 THEN 3 ELSE 0]

(* Mutant: cells that the subgrid has and the grid has not are not counted. *)
MissCntInside == Cardinality({j \in Walked : \/ IsMissing(RawAt(j))
                                             \/ BecomesMissing(RawAt(j))})

MissCnt == IF msg.f_miss = 0 THEN 0
           ELSE Cardinality({j \in Cells(Sub) : \/ j \notin Walked
                                                \/ IsMissing(RawAt(j))
                                                \/ BecomesMissing(RawAt(j))})

FirstWalk ==
    LET range == {Value(RawAt(j)) : j \in {k \in Walked : InRange(RawAt(k))}}
    IN  [data |-> [j \in Cells(Sub) |->
                     IF j \in Walked THEN Value(RawAt(j))
                     ELSE IF msg.f_miss = 0 THEN Undef ELSE msg.missPri],
         f_miss |-> msg.f_miss, missPri |-> msg.missPri, missSec |-> msg.missSec,
         f_maxmin |-> range # {},
         min |-> IF range = {} THEN stray ELSE Min(range),
         max |-> IF range = {} THEN stray ELSE Max(range),
         numMiss |-> MissCnt,
         table |-> TableAfter]

(* Mutant: only a range that goes on beyond it is taken to hold a missing  *)
(* value.                                                                  *)
HoldsStrictly(g, miss) == g.f_maxmin /\ g.min < miss /\ miss < g.max

(* Whether a number of the grid may be taken for the missing value.        *)
Holds(g, miss) == g.f_maxmin /\ g.min <= miss /\ miss <= g.max

(* The missing values are moved beyond the range, and the grid is walked   *)
(* again: the whole grid, also when grib_Data is a subgrid of it.          *)
Readjusted(g) ==
    LET movesPri == g.f_miss # 0 /\ Holds(g, g.missPri)
        movesSec == g.f_miss = 2 /\ Holds(g, g.missSec)
        pri == IF movesPri THEN g.max + 1 ELSE g.missPri
        sec == IF movesSec THEN g.max + 2 ELSE g.missSec
        lost == {i \in DOMAIN iain : IsMissing(iain[i])}
        moved == [i \in lost |-> IF iain[i] = g.missPri THEN pri ELSE sec]
    IN  IF movesPri \/ movesSec
        THEN [data |-> Scatter(g.data, moved, PlaceOf), f_miss |-> g.f_miss,
              missPri |-> pri, missSec |-> sec, f_maxmin |-> g.f_maxmin,
              min |-> g.min, max |-> g.max, numMiss |-> g.numMiss, table |-> g.table]
        ELSE g

(* The bitmap, if there is one.  The range is forgotten before it is asked *)
(* whether it holds Undef, so that this is never found.  With missing      *)
(* values in the data the bitmap is not looked at.                         *)
Masked(g) ==
    LET off == {i \in DOMAIN ib : ib[i] # 1}
        range == {At(g.data, PlaceOf(i)) : i \in DOMAIN ib \ off}
    IN  IF msg.bmap = <<>> THEN g
        ELSE IF g.f_miss # 0
        THEN [data |-> g.data, f_miss |-> g.f_miss, missPri |-> g.missPri,
              missSec |-> g.missSec, f_maxmin |-> TRUE, min |-> g.missPri,
              max |-> g.missPri, numMiss |-> g.numMiss, table |-> g.table]
        ELSE [data |-> Scatter(g.data, [i \in off |-> Undef], PlaceOf),
              f_miss |-> 1, missPri |-> Undef, missSec |-> g.missSec, f_maxmin |-> TRUE,
              min |-> IF range = {} THEN Undef ELSE Min(range),
              max |-> IF range = {} THEN Undef ELSE Max(range),
              numMiss |-> Cardinality(off), table |-> g.table]

(* The strings in use are numbered; a string that is in use and not valid  *)
(* is marked by 3, which is set back to 0.                                 *)
Numbered(g) ==
    LET used(t) == g.table[t] >= 2
        index == [t \in DOMAIN g.table |->
                     IF used(t) THEN Cardinality({s \in 0 .. t - 1 : used(s)}) ELSE -1]
    IN  [data |-> g.data, f_miss |-> g.f_miss, missPri |-> g.missPri,
         missSec |-> g.missSec, f_maxmin |-> g.f_maxmin, min |-> g.min, max |-> g.max,
         numMiss |-> g.numMiss,
         table |-> [t \in DOMAIN g.table |-> IF g.table[t] = 3 THEN 0 ELSE g.table[t]],
         validIndex |-> index]

ParseGrid == Masked(Readjusted(FirstWalk))

-----------------------------------------------------------------------------
(* Rounding to the decimals that are stored.                               *)
Round(v) == ((2 * v + Ulp) \div (2 * Ulp)) * Ulp

GridNx == Width(Sub)
GridNy == Height(Sub)

(* A file has only one missing value.                                      *)
Stored(g, v) == IF g.f_miss = 2 /\ v = g.missSec THEN Round(g.missPri) ELSE Round(v)

(* The row of the grid that is row y of the file (from 0), and where the   *)
(* file has row r (from 1).                                                *)
SourceRow(s, y) == IF s = 0 THEN (GridNy - 1) - y ELSE y
FileRow(r) == IF fscan = 0 THEN (GridNy - 1) - (r - 1) ELSE r - 1

(* gribReadFloat finds the row from the subgrid alone.                     *)
ReadRow(w, r) == IF fscan = 0 THEN (Height(w) - 1) + (w[2] - 1) - (r - w[2])
                 ELSE r - 1

(* Mutant: the columns left of the grid are skipped in the file as well.   *)
ReadCellShifted(w, j) ==
    IF ~(Column(w, j) \in 1 .. GridNx /\ Row(w, j) \in 1 .. GridNy) THEN Undef
    ELSE LET skipped == IF w[1] < 1 THEN 1 - w[1] ELSE 0
         IN  At(file, ReadRow(w, Row(w, j)) * GridNx + Column(w, j) - 1 - skipped)

(* A cell of the subgrid: missing outside the grid, else from the file.    *)
ReadCell(w, j) ==
    IF ~(Column(w, j) \in 1 .. GridNx /\ Row(w, j) \in 1 .. GridNy) THEN Undef
    ELSE At(file, ReadRow(w, Row(w, j)) * GridNx + Column(w, j) - 1)

CellInFile(x, y) == At(file, FileRow(y) * GridNx + x - 1)

(* getCubeValAtPnt, four times the answer.  Strings are not interpolated   *)
(* (genCubeFillValue).  The fourth corner is not tested: d21 is, again.    *)
Nearest(p) == LET x == (p[1] + 1) \div 2
                  y == (p[2] + 1) \div 2
              IN  IF x \in 1 .. GridNx /\ y \in 1 .. GridNy
                  THEN 4 * CellInFile(x, y) ELSE 4 * Undef

(* Mutant: the two directions are swapped.                                 *)
BilinearSwapped(p) ==
    LET x == p[1] \div 2
        y == p[2] \div 2
        d11 == CellInFile(x, y)
        d12 == CellInFile(x, y + 1)
        d21 == CellInFile(x + 1, y)
        d22 == CellInFile(x + 1, y + 1)
        t1 == 2 * d11 + (p[1] % 2) * (d12 - d11)
        t2 == 2 * d21 + (p[1] % 2) * (d22 - d21)
    IN  IF \/ ~(x >= 1 /\ x + 1 <= GridNx /\ y >= 1 /\ y + 1 <= GridNy)
           \/ Undef \in {d11, d12, d21}
        THEN 4 * Undef
        ELSE 2 * t1 + (p[2] % 2) * (t2 - t1)

Bilinear(p) ==
    LET x == p[1] \div 2
        y == p[2] \div 2
        d11 == CellInFile(x, y)
        d12 == CellInFile(x, y + 1)
        d21 == CellInFile(x + 1, y)
        d22 == CellInFile(x + 1, y + 1)
        t1 == 2 * d11 + (p[1] % 2) * (d21 - d11)
        t2 == 2 * d12 + (p[1] % 2) * (d22 - d12)
    IN  IF \/ ~(x >= 1 /\ x + 1 <= GridNx /\ y >= 1 /\ y + 1 <= GridNy)
           \/ Undef \in {d11, d12, d21}
        THEN 4 * Undef
        ELSE 2 * t1 + (p[2] % 2) * (t2 - t1)

-----------------------------------------------------------------------------
(* What the values should be, from the definition of flag table 3.4: the   *)
(* points are met one after the other on a walk through the grid.          *)
StepOnLine(p) == IF HasBit(msg.scan, GRIB2BIT_3) THEN [p EXCEPT !.y = @ + p.dy]
                 ELSE [p EXCEPT !.x = @ + p.dx]
OnGrid(p) == p.x \in 1 .. msg.Nx /\ p.y \in 1 .. msg.Ny

FirstPoint == [x |-> IF HasBit(msg.scan, GRIB2BIT_1) THEN msg.Nx ELSE 1,
               y |-> IF HasBit(msg.scan, GRIB2BIT_2) THEN 1 ELSE msg.Ny,
               dx |-> IF HasBit(msg.scan, GRIB2BIT_1) THEN -1 ELSE 1,
               dy |-> IF HasBit(msg.scan, GRIB2BIT_2) THEN 1 ELSE -1]

NextLine(p) ==
    LET boustrophedon == HasBit(msg.scan, GRIB2BIT_4)
    IN  IF HasBit(msg.scan, GRIB2BIT_3)
        THEN [x |-> p.x + p.dx, y |-> IF boustrophedon THEN p.y ELSE FirstPoint.y,
              dx |-> p.dx, dy |-> IF boustrophedon THEN -p.dy ELSE p.dy]
        ELSE [x |-> IF boustrophedon THEN p.x ELSE FirstPoint.x, y |-> p.y + p.dy,
              dx |-> IF boustrophedon THEN -p.dx ELSE p.dx, dy |-> p.dy]

Walk[i \in DOMAIN msg.fld] ==
    IF i = 0 THEN FirstPoint
    ELSE IF OnGrid(StepOnLine(Walk[i - 1])) THEN StepOnLine(Walk[i - 1])
    ELSE NextLine(Walk[i - 1])

(* The point of the message at a cell of the decoded grid.                 *)
PointAt(j) == CHOOSE i \in DOMAIN msg.fld : /\ Walk[i].x = Column(Sub, j)
                                            /\ Walk[i].y = Row(Sub, j)

(* The cells that have a value in the message, and the value.              *)
HasValue(j) == /\ Inside(Sub, j)
               /\ LET i == PointAt(j)
                  IN  /\ msg.bmap # <<>> => msg.bmap[i] = 1
                      /\ ~IsMissing(msg.fld[i])
                      /\ ~(msg.f_miss # 0 /\ NotInTable(msg.fld[i]))
ValueOf(j) == Converted(msg.fld[PointAt(j)])
Truths == [j \in {k \in Cells(Sub) : HasValue(k)} |-> ValueOf(j)]

-----------------------------------------------------------------------------
NoGrid == [data |-> <<>>]
NoAnswer == [of |-> "nothing"]

Init == /\ msg \in Cases
        /\ stray \in Strays
        /\ pc = "unpack"
        /\ iain = <<>> /\ ib = <<>> /\ scan = msg.scan
        /\ grid = NoGrid
        /\ file = <<>> /\ fscan = 0
        /\ answer = NoAnswer
        /\ truth = Truths

Unpack == /\ pc = "unpack"
          /\ iain' = Transfer(msg.fld)
          /\ ib' = Transfer(msg.bmap)
          /\ scan' = IF InOrder THEN msg.scan ELSE 64 + (msg.scan % 16)
          /\ pc' = "parse"
          /\ UNCHANGED <<given, grid, file, fscan, answer>>

(* A subgrid is cut out of a grid in scan mode 64 only.                    *)
Refuse == /\ pc = "parse"
          /\ f_subGrid /\ scan # 64
          /\ pc' = "refused"
          /\ UNCHANGED <<given, unpacked, grid, file, fscan, answer>>

Decode == /\ pc = "parse"
          /\ f_subGrid => scan = 64
          /\ grid' = Numbered(ParseGrid)
          /\ pc' = "decoded"
          /\ UNCHANGED <<given, unpacked, file, fscan, answer>>

Store == /\ pc = "decoded"
         /\ fscan' \in CubeScans
         /\ file' = [k \in Cells(Sub) |->
                       Stored(grid, grid.data[SourceRow(fscan', k \div GridNx) * GridNx
                                              + (k % GridNx)])]
         /\ pc' = "stored"
         /\ UNCHANGED <<given, unpacked, grid, answer>>

ReadBack == \E w \in Windows :
              LET data == [j \in Cells(w) |-> ReadCell(w, j)]
              IN  /\ pc = "stored"
                  /\ answer' = [of |-> "window", at |-> w, data |-> data,
                                numMiss |-> Cardinality({j \in Cells(w) : data[j] = Undef})]
                  /\ UNCHANGED <<given, pc, unpacked, grid, file, fscan>>

Probe == \E p \in Points, f_interp \in BOOLEAN :
           /\ pc = "stored"
           /\ answer' = IF f_interp /\ ~f_txtType
                        THEN [of |-> "cells", at |-> p, ans |-> Bilinear(p)]
                        ELSE [of |-> "cell", at |-> p, ans |-> Nearest(p)]
           /\ UNCHANGED <<given, pc, unpacked, grid, file, fscan>>

Next == Unpack \/ Refuse \/ Decode \/ Store \/ ReadBack \/ Probe

Spec == Init /\ [][Next]_vars

-----------------------------------------------------------------------------
(* The messages that the properties of the decoded grid are proved for:    *)
(* a subgrid starts inside the grid, a bitmap and missing values in the    *)
(* data exclude each other, and where f_readjust does not find all the     *)
(* missing cells no value reaches the missing values.                      *)
ValuesIn(c) ==
    {c.unitM * c.fld[i] + c.unitB :
        i \in {k \in DOMAIN c.fld : /\ c.f_miss # 0 => c.fld[k] # c.missPri
                                    /\ c.f_miss = 2 => c.fld[k] # c.missSec}}

Decodable(c) ==
    /\ c.sub # <<>> => c.sub[1] >= 1
    /\ c.bmap # <<>> => /\ c.f_miss = 0 /\ c.sub = <<>> /\ c.table = <<>>
                        /\ Undef \notin ValuesIn(c)
    /\ c.f_miss # 0 /\ (c.sub # <<>> \/ c.table # <<>>) =>
          \A v \in ValuesIn(c) : v < c.missPri /\ (c.f_miss = 2 => v < c.missSec)

(* ... and those of interpolated answers: no value is stored as 9999.      *)
Storable(c) == \A v \in ValuesIn(c) : Round(v) # Undef

-----------------------------------------------------------------------------
Decoded == pc \in {"decoded", "stored"}
WithValue == DOMAIN truth
MissingOf(g) == IF g.f_miss = 0 THEN {Undef}
                ELSE IF g.f_miss = 1 THEN {g.missPri} ELSE {g.missPri, g.missSec}
MissingValues == MissingOf(grid)

(* Whatever the order of the message and the part that is asked for, each  *)
(* cell has the value that the message has for it, in the new units, and   *)
(* every other cell a missing value (TransferInt, ParseGrid, f_readjust).  *)
DecodesInPlace ==
    Decoded => \A j \in Cells(Sub) : IF j \in WithValue THEN grid.data[j] = truth[j]
                                     ELSE grid.data[j] \in MissingValues

(* No value can be taken for a missing one, although the units were        *)
(* converted after the missing value was chosen (f_readjust, the bitmap).  *)
MissingIsApart ==
    Decoded /\ grid.f_miss # 0 => \A j \in WithValue : truth[j] \notin MissingValues

(* numMiss, min and max are those of the cells that were decoded.          *)
StatisticsAreExact ==
    Decoded => /\ grid.f_miss # 0 =>
                      grid.numMiss = Cardinality(Cells(Sub) \ WithValue)
               /\ WithValue # {} => /\ grid.f_maxmin
                                    /\ grid.min = Min({truth[j] : j \in WithValue})
                                    /\ grid.max = Max({truth[j] : j \in WithValue})

(* The strings that some cell refers to are numbered 0, 1, ... in the      *)
(* order of the table, and no others.                                      *)
NumbersStringsInUse ==
    LET inUse == {t \in DOMAIN msg.table :
                    \E j \in WithValue : truth[j] = t}
    IN  Decoded => \A t \in DOMAIN msg.table :
                      grid.validIndex[t] = IF t \in inUse
                                           THEN Cardinality({s \in inUse : s < t})
                                           ELSE -1

(* The value of a cell of the file: what was decoded, rounded.             *)
FileTruth(j) == IF j \in WithValue THEN Round(truth[j]) ELSE Undef

(* The index says nothing of missing values: all readers of the file take  *)
(* them to be 9999, so what follows is about files for which this is so.   *)
UsesUndef == grid.f_miss # 0 => Round(grid.missPri) = Undef

CellAt(x, y) == (x - 1) + (y - 1) * GridNx
ColumnsOf(w, j) == Column(w, j) \in 1 .. GridNx /\ Row(w, j) \in 1 .. GridNy

(* In a file that begins with the top row gribReadFloat finds a subgrid    *)
(* only when it is as far from the top as from the bottom.                 *)
RowsAreFound(w) == fscan = 0 => w[2] - 1 = GridNy - w[4]

(* What is read back from a file, in either order of rows and for a part   *)
(* of the grid or more than it, is what was decoded (gribReadFloat).       *)
ReadsBackWhatWasDecoded ==
    answer.of = "window" /\ UsesUndef /\ RowsAreFound(answer.at) =>
        \A j \in Cells(answer.at) :
            answer.data[j] = IF ColumnsOf(answer.at, j)
                             THEN FileTruth(CellAt(Column(answer.at, j), Row(answer.at, j)))
                             ELSE Undef

(* The corners of the cell of points around a probed point.                *)
Corner(p, dx, dy) == [x |-> (p[1] \div 2) + dx, y |-> (p[2] \div 2) + dy]
Corners(p) == {Corner(p, dx, dy) : dx \in 0 .. 1, dy \in 0 .. 1}
CornerOn(c) == c.x \in 1 .. GridNx /\ c.y \in 1 .. GridNy
CornerValue(c) == FileTruth(CellAt(c.x, c.y))
AnyMissing(cs) == \E c \in cs : ~CornerOn(c) \/ CellAt(c.x, c.y) \notin WithValue

(* Four times the mean of the corners, weighted by their nearness.         *)
Weight(p, c) == LET wx == IF c.x = p[1] \div 2 THEN 2 - (p[1] % 2) ELSE p[1] % 2
                    wy == IF c.y = p[2] \div 2 THEN 2 - (p[2] % 2) ELSE p[2] % 2
                IN  wx * wy
WeightedMean(p) == LET term(c) == Weight(p, c) * CornerValue(c)
                   IN  term(Corner(p, 0, 0)) + term(Corner(p, 0, 1))
                       + term(Corner(p, 1, 0)) + term(Corner(p, 1, 1))

(* The answer for the nearest cell, and the one from the four around.      *)
NearestIsDecoded(p, ans) ==
    LET c == [x |-> (p[1] + 1) \div 2, y |-> (p[2] + 1) \div 2]
    IN  ans = 4 * (IF CornerOn(c) THEN CornerValue(c) ELSE Undef)

MeanIsDecoded(p, ans) ==
    IF AnyMissing(Corners(p) \ {Corner(p, 1, 1)}) \/ ~CornerOn(Corner(p, 1, 1))
    THEN ans = 4 * Undef
    ELSE ~AnyMissing({Corner(p, 1, 1)}) => ans = WeightedMean(p)

(* The answer to a probe is the value decoded for the nearest cell or the  *)
(* mean of the four around it, and missing when one of them is missing or  *)
(* outside the grid; about the fourth corner this says nothing.            *)
ProbesWhatWasDecoded ==
    /\ answer.of = "cell" /\ UsesUndef => NearestIsDecoded(answer.at, answer.ans)
    /\ answer.of = "cells" /\ UsesUndef => MeanIsDecoded(answer.at, answer.ans)

(* Violated: nothing is interpolated from a missing value (the first three *)
(* corners are tested, and BiLinearCompute, interp.c, tests all four).     *)
InterpolatesOnlyValues ==
    answer.of = "cells" /\ UsesUndef
        /\ AnyMissing({c \in Corners(answer.at) : Weight(answer.at, c) > 0})
        => answer.ans = 4 * Undef
=============================================================================
