------------------------- MODULE GridAndClockProofs -------------------------
(***************************************************************************)
(* The way of a grid from the message to the answer: ScanIndex2XY and      *)
(* XY2ScanIndex are inverses of each other and walk as the flag table      *)
(* says, for grids of every size and every scan mode; and what             *)
(* ParseGrid and its callees decode, store and look up is what the         *)
(* message holds, for grids of every size, bitmaps and missing values.     *)
(* Then the calendar of clock.c: its arithmetic is that of the Gregorian   *)
(* calendar, in every year.                                                *)
(***************************************************************************)
EXTENDS GridValues, GregorianClock, TLAPS, FiniteSetTheorems, WellFoundedInduction

(* Quotient and remainder of a number that is given by them.               *)
LEMMA DivMod ==
    ASSUME NEW n \in Nat \ {0}, NEW a \in Int
    PROVE  /\ a \div n \in Int
           /\ a % n \in 0 .. n - 1
           /\ a = (a \div n) * n + (a % n)
  BY SMT

LEMMA QuotientIsUnique ==
    ASSUME NEW n \in Nat \ {0}, NEW q \in Int, NEW r \in 0 .. n - 1,
           NEW p \in Int, NEW s \in 0 .. n - 1, q * n + r = p * n + s
    PROVE  q = p /\ r = s
<1>1. ~(q >= p + 1)
  <2>1. SUFFICES ASSUME q >= p + 1 PROVE FALSE OBVIOUS
  <2>2. (q - p) * n >= n BY <2>1, SMT
  <2>3. (q - p) * n = s - r BY SMT
  <2> QED BY <2>2, <2>3, SMT
<1>2. ~(p >= q + 1)
  <2>1. SUFFICES ASSUME p >= q + 1 PROVE FALSE OBVIOUS
  <2>2. (p - q) * n >= n BY <2>1, SMT
  <2>3. (p - q) * n = r - s BY SMT
  <2> QED BY <2>2, <2>3, SMT
<1> QED BY <1>1, <1>2, SMT

(* A number below m * n has a quotient below m.                            *)
LEMMA QuotientIsBounded ==
    ASSUME NEW n \in Nat \ {0}, NEW m \in Nat \ {0}, NEW a \in 0 .. m * n - 1
    PROVE  a \div n \in 0 .. m - 1
<1> DEFINE q == a \div n
           r == a % n
<1>1. q \in Int /\ r \in 0 .. n - 1 /\ a = q * n + r
  BY DivMod, m * n \in Int, a \in Int
<1>2. ~(q >= m)
  <2>1. SUFFICES ASSUME q >= m PROVE FALSE OBVIOUS
  <2>2. (q - m) * n >= 0 BY <1>1, <2>1, SMT
  <2>3. q * n >= m * n BY <1>1, <2>2, SMT
  <2> QED BY <1>1, <2>3, SMT
<1>3. ~(q <= -1)
  <2>1. SUFFICES ASSUME q <= -1 PROVE FALSE OBVIOUS
  <2>2. (-1 - q) * n >= 0 BY <1>1, <2>1, SMT
  <2>3. q * n <= -n BY <1>1, <2>2, SMT
  <2> QED BY <1>1, <2>3, SMT
<1> HIDE DEF q, r
<1>4. q \in 0 .. m - 1 BY <1>1, <1>2, <1>3, SMT
<1> QED BY <1>4 DEF q

(* The number of a point that is k-th in its line lies within the grid.    *)
LEMMA NumberIsBounded ==
    ASSUME NEW n \in Nat \ {0}, NEW m \in Nat \ {0}, NEW q \in 0 .. m - 1,
           NEW r \in 0 .. n - 1
    PROVE  r + q * n \in 0 .. m * n - 1
<1>1. (m - 1 - q) * n >= 0 BY SMT
<1>2. q * n >= 0 BY SMT
<1>3. q * n <= m * n - n BY <1>1, SMT
<1>4. q * n \in Int /\ m * n \in Int BY SMT
<1> QED BY <1>2, <1>3, <1>4, SMT

LEMMA QuotientOfSum ==
    ASSUME NEW n \in Nat \ {0}, NEW q \in Nat, NEW r \in 0 .. n - 1
    PROVE  (r + q * n) \div n = q /\ (r + q * n) % n = r
<1> DEFINE a == r + q * n
<1>1. a \in Int BY SMT
<1>2. a \div n \in Int /\ a % n \in 0 .. n - 1 /\ a = (a \div n) * n + (a % n)
  BY <1>1, DivMod
<1>3. q * n + r = (a \div n) * n + (a % n) BY <1>2, SMT
<1> QED BY <1>2, <1>3, QuotientIsUnique

(* Turning a line round twice, or mirroring a coordinate twice, changes    *)
(* nothing, and neither leaves the grid.                                   *)
LEMMA TurnedTwice ==
    ASSUME NEW mode, NEW line, NEW n \in Nat \ {0}, NEW k \in 0 .. n - 1
    PROVE  /\ Turned(mode, n, line, k) \in 0 .. n - 1
           /\ Turned(mode, n, line, Turned(mode, n, line, k)) = k
  BY DEF Turned

LEMMA MirroredTwice ==
    ASSUME NEW mode, NEW n \in Nat \ {0}, NEW z \in 0 .. n - 1
    PROVE  /\ MirrorX(mode, n, z) \in 0 .. n - 1
           /\ MirrorY(mode, n, z) \in 0 .. n - 1
           /\ MirrorX(mode, n, MirrorX(mode, n, z)) = z
           /\ MirrorY(mode, n, MirrorY(mode, n, z)) = z
  BY DEF MirrorX, MirrorY

(* ScanIndex2XY takes the number of a point of the message to coordinates  *)
(* within the grid, and XY2ScanIndex takes them back to that number: no    *)
(* two points of a message are put in the same place (scan.c says of the   *)
(* two routines that they are inverses, and tries some sizes).             *)
THEOREM ScanIndexRoundTrip ==
    ASSUME NEW Nx \in Nat \ {0}, NEW Ny \in Nat \ {0}, NEW mode \in ScanModes,
           NEW row \in 0 .. Nx * Ny - 1
    PROVE  LET p == ScanIndex2XY(row, mode, Nx, Ny)
           IN  /\ p.x \in 1 .. Nx /\ p.y \in 1 .. Ny
               /\ XY2ScanIndex(p.x, p.y, mode, Nx, Ny) = row
<1> DEFINE n == LineLength(mode, Nx, Ny)
           m == IF HasBit(mode, GRIB2BIT_3) THEN Nx ELSE Ny
           line == row \div n
           k == Turned(mode, n, line, row % n)
           x == IF HasBit(mode, GRIB2BIT_3) THEN line ELSE k
           y == IF HasBit(mode, GRIB2BIT_3) THEN k ELSE line
           p == ScanIndex2XY(row, mode, Nx, Ny)
<1>1. n \in Nat \ {0} /\ m \in Nat \ {0} /\ Nx * Ny = m * n
  BY SMT DEF LineLength
<1>2. row \in 0 .. m * n - 1 /\ row \in Int BY <1>1
<1>3. line \in 0 .. m - 1 BY <1>1, <1>2, QuotientIsBounded
<1>4. row % n \in 0 .. n - 1 /\ row = line * n + (row % n) BY <1>1, <1>2, DivMod
<1>5. k \in 0 .. n - 1 /\ Turned(mode, n, line, k) = row % n
  BY <1>1, <1>4, TurnedTwice
<1>6. x \in 0 .. Nx - 1 /\ y \in 0 .. Ny - 1 BY <1>3, <1>5 DEF LineLength
<1>7. p = [x |-> MirrorX(mode, Nx, x) + 1, y |-> MirrorY(mode, Ny, y) + 1]
  BY DEF ScanIndex2XY
<1> HIDE DEF p, k, line
<1>8. /\ MirrorX(mode, Nx, x) \in 0 .. Nx - 1 /\ MirrorX(mode, Nx, MirrorX(mode, Nx, x)) = x
      /\ MirrorY(mode, Ny, y) \in 0 .. Ny - 1 /\ MirrorY(mode, Ny, MirrorY(mode, Ny, y)) = y
  BY <1>6, MirroredTwice
<1>9. p.x \in 1 .. Nx /\ p.y \in 1 .. Ny
  <2>1. p.x = MirrorX(mode, Nx, x) + 1 /\ p.y = MirrorY(mode, Ny, y) + 1 BY <1>7
  <2> QED BY <2>1, <1>8, SMT
<1>10. p.x - 1 = MirrorX(mode, Nx, x) /\ p.y - 1 = MirrorY(mode, Ny, y)
  <2>1. p.x = MirrorX(mode, Nx, x) + 1 /\ p.y = MirrorY(mode, Ny, y) + 1 BY <1>7
  <2> QED BY <2>1, <1>8, SMT
<1>11. MirrorX(mode, Nx, p.x - 1) = x /\ MirrorY(mode, Ny, p.y - 1) = y BY <1>8, <1>10
<1>12. XY2ScanIndex(p.x, p.y, mode, Nx, Ny) = Turned(mode, n, line, k) + line * n
  BY <1>11, Zenon DEF XY2ScanIndex
<1>13. Turned(mode, n, line, k) + line * n = row BY <1>1, <1>3, <1>4, <1>5, SMT
<1> QED BY <1>9, <1>12, <1>13 DEF p

(* The other way round: every place of the grid belongs to a point of the  *)
(* message, so that no value is left from the grid before.                 *)
THEOREM XYRoundTrip ==
    ASSUME NEW Nx \in Nat \ {0}, NEW Ny \in Nat \ {0}, NEW mode \in ScanModes,
           NEW x \in 1 .. Nx, NEW y \in 1 .. Ny
    PROVE  LET row == XY2ScanIndex(x, y, mode, Nx, Ny)
           IN  /\ row \in 0 .. Nx * Ny - 1
               /\ ScanIndex2XY(row, mode, Nx, Ny) = [x |-> x, y |-> y]
<1> DEFINE n == LineLength(mode, Nx, Ny)
           m == IF HasBit(mode, GRIB2BIT_3) THEN Nx ELSE Ny
           x0 == MirrorX(mode, Nx, x - 1)
           y0 == MirrorY(mode, Ny, y - 1)
           line == IF HasBit(mode, GRIB2BIT_3) THEN x0 ELSE y0
           k == IF HasBit(mode, GRIB2BIT_3) THEN y0 ELSE x0
           r == Turned(mode, n, line, k)
           row == XY2ScanIndex(x, y, mode, Nx, Ny)
<1>1. n \in Nat \ {0} /\ m \in Nat \ {0} /\ Nx * Ny = m * n
  BY SMT DEF LineLength
<1>2. x - 1 \in 0 .. Nx - 1 /\ y - 1 \in 0 .. Ny - 1 BY SMT
<1>3. /\ x0 \in 0 .. Nx - 1 /\ MirrorX(mode, Nx, x0) = x - 1
      /\ y0 \in 0 .. Ny - 1 /\ MirrorY(mode, Ny, y0) = y - 1
  BY <1>2, MirroredTwice
<1> HIDE DEF x0, y0
<1>4. line \in 0 .. m - 1 /\ k \in 0 .. n - 1 BY <1>3 DEF LineLength
<1>5. r \in 0 .. n - 1 /\ Turned(mode, n, line, r) = k BY <1>1, <1>4, TurnedTwice
<1>6. row = r + line * n BY DEF XY2ScanIndex, x0, y0
<1> HIDE DEF r, row
<1>7. row \in 0 .. m * n - 1 BY <1>1, <1>4, <1>5, <1>6, NumberIsBounded
<1>8. row \div n = line /\ row % n = r
  <2>1. line \in Nat BY <1>1, <1>4
  <2> HIDE DEF line, n
  <2> QED BY <1>1, <1>5, <1>6, <2>1, QuotientOfSum
<1>9. ScanIndex2XY(row, mode, Nx, Ny) =
        [x |-> MirrorX(mode, Nx, x0) + 1, y |-> MirrorY(mode, Ny, y0) + 1]
  BY <1>5, <1>8, Zenon DEF ScanIndex2XY
<1>10. MirrorX(mode, Nx, x0) + 1 = x /\ MirrorY(mode, Ny, y0) + 1 = y BY <1>3, SMT
<1> QED BY <1>1, <1>7, <1>9, <1>10 DEF row

(***************************************************************************)
(* Flag table 3.4.                                                         *)
(***************************************************************************)

(* The types of the message.                                               *)
LEMMA MessageType ==
    ASSUME msg \in Cases
    PROVE  /\ msg.Nx \in Nat \ {0} /\ msg.Ny \in Nat \ {0} /\ msg.Nx * msg.Ny \in Nat \ {0}
           /\ msg.scan \in ScanModes /\ msg.f_miss \in 0 .. 2
           /\ msg.missPri \in Int /\ msg.missSec \in Int /\ msg.unitM \in Int /\ msg.unitB \in Int
           /\ msg.fld \in [0 .. msg.Nx * msg.Ny - 1 -> Int]
           /\ msg.bmap = <<>> \/ msg.bmap \in [0 .. msg.Nx * msg.Ny - 1 -> Int]
           /\ msg.sub # <<>> => msg.sub \in Rectangles
<1>1. msg.Nx \in Nat \ {0} /\ msg.Ny \in Nat \ {0}
  BY GridAssumption
<1>2. msg.Nx * msg.Ny \in Nat \ {0}
  BY <1>1
<1>3. QED
  BY <1>1, <1>2, GridAssumption

LEMMA DivModNext ==
    ASSUME NEW n \in Nat \ {0}, NEW a \in Nat
    PROVE  /\ a \div n \in Nat /\ a % n \in 0 .. n - 1
           /\ a % n # n - 1 => (a + 1) % n = (a % n) + 1 /\ (a + 1) \div n = a \div n
           /\ a % n = n - 1 => (a + 1) % n = 0 /\ (a + 1) \div n = (a \div n) + 1
<1> DEFINE q == a \div n
           r == a % n
<1>1. q \in Int /\ r \in 0 .. n - 1 /\ a = q * n + r
  BY DivMod
<1>2. q \in Nat
  <2>1. SUFFICES ASSUME q <= -1 PROVE FALSE
    BY <1>1
  <2>2. (-1 - q) * n >= 0
    BY <1>1, <2>1, SMT
  <2>3. q * n <= -n
    BY <1>1, <2>2, SMT
  <2>4. QED
    BY <1>1, <2>3, SMT
<1> HIDE DEF q, r
<1>3. ASSUME r # n - 1 PROVE (a + 1) % n = r + 1 /\ (a + 1) \div n = q
  <2>1. r + 1 \in 0 .. n - 1 /\ a + 1 = (r + 1) + q * n
    BY <1>1, <1>3
  <2>2. QED
    BY <1>2, <2>1, QuotientOfSum
<1>4. ASSUME r = n - 1 PROVE (a + 1) % n = 0 /\ (a + 1) \div n = q + 1
  <2>1. 0 \in 0 .. n - 1 /\ q + 1 \in Nat
    BY <1>2
  <2>2. (q + 1) * n = q * n + n
    BY <1>2, SMT
  <2>3. a + 1 = 0 + (q + 1) * n
    BY <1>1, <1>4, <2>2
  <2>4. (0 + (q + 1) * n) \div n = q + 1 /\ (0 + (q + 1) * n) % n = 0
    BY <2>1, QuotientOfSum, Zenon
  <2>5. QED
    BY <2>3, <2>4, Zenon
<1>5. QED
  BY <1>1, <1>2, <1>3, <1>4 DEF q, r

(* The i-th point according to scan.c, and the way the walk goes on from   *)
(* it.                                                                     *)
PlaceIn(i) == ScanIndex2XY(i, msg.scan, msg.Nx, msg.Ny)
ByColumns == HasBit(msg.scan, GRIB2BIT_3)
PerLine == LineLength(msg.scan, msg.Nx, msg.Ny)
GoesBack(i) == RunsBack(msg.scan, i \div PerLine)
Met(i) == [x |-> PlaceIn(i).x, y |-> PlaceIn(i).y,
           dx |-> IF ~ByColumns /\ GoesBack(i) THEN -FirstPoint.dx ELSE FirstPoint.dx,
           dy |-> IF ByColumns /\ GoesBack(i) THEN -FirstPoint.dy ELSE FirstPoint.dy]

(* The coordinates of the k-th point of a line, when the lines are rows    *)
(* and when they are columns.                                              *)
LEMMA PlaceInLine ==
    ASSUME msg \in Cases, NEW i \in 0 .. msg.Nx * msg.Ny - 1
    PROVE  LET l == i \div PerLine
               k == Turned(msg.scan, PerLine, l, i % PerLine)
               cx == IF ByColumns THEN l ELSE k
               cy == IF ByColumns THEN k ELSE l
           IN  /\ PerLine \in Nat \ {0} /\ l \in Nat /\ i % PerLine \in 0 .. PerLine - 1
               /\ PerLine = IF ByColumns THEN msg.Ny ELSE msg.Nx
               /\ k \in 0 .. PerLine - 1
               /\ cx \in 0 .. msg.Nx - 1 /\ cy \in 0 .. msg.Ny - 1
               /\ PlaceIn(i).x = FirstPoint.x + cx * FirstPoint.dx
               /\ PlaceIn(i).y = FirstPoint.y + cy * FirstPoint.dy
               /\ PlaceIn(i).x \in 1 .. msg.Nx /\ PlaceIn(i).y \in 1 .. msg.Ny
<1> DEFINE n == PerLine
           l == i \div n
           k == Turned(msg.scan, n, l, i % n)
           cx == IF ByColumns THEN l ELSE k
           cy == IF ByColumns THEN k ELSE l
<1>1. msg.Nx \in Nat \ {0} /\ msg.Ny \in Nat \ {0} /\ msg.scan \in ScanModes
  BY MessageType
<1>2. n \in Nat \ {0} /\ n = IF ByColumns THEN msg.Ny ELSE msg.Nx
  BY <1>1 DEF PerLine, LineLength, ByColumns
<1>3. i \in Nat
  BY <1>1
<1>4. l \in Nat /\ i % n \in 0 .. n - 1
  BY <1>2, <1>3, DivModNext
<1>5. l \in 0 .. (IF ByColumns THEN msg.Nx ELSE msg.Ny) - 1
  <2> DEFINE m == IF ByColumns THEN msg.Nx ELSE msg.Ny
  <2>1. m \in Nat \ {0} /\ msg.Nx * msg.Ny = m * n
    BY <1>1, <1>2, SMT
  <2>2. i \in 0 .. m * n - 1
    BY <2>1
  <2> HIDE DEF n, m
  <2>3. i \div n \in 0 .. m - 1
    BY <1>2, <2>1, <2>2, QuotientIsBounded
  <2>4. QED
    BY <2>3 DEF m
<1>6. k \in 0 .. n - 1
  BY <1>2, <1>4, TurnedTwice
<1> HIDE DEF n, l, k
<1>7. cx \in 0 .. msg.Nx - 1 /\ cy \in 0 .. msg.Ny - 1
  BY <1>2, <1>5, <1>6
<1>8. PlaceIn(i) = [x |-> MirrorX(msg.scan, msg.Nx, cx) + 1, y |-> MirrorY(msg.scan, msg.Ny, cy) + 1]
  BY Zenon DEF PlaceIn, ScanIndex2XY, ByColumns, PerLine, n, l, k
<1> HIDE DEF cx, cy
<1>9. MirrorX(msg.scan, msg.Nx, cx) + 1 = FirstPoint.x + cx * FirstPoint.dx
  <2>1. CASE HasBit(msg.scan, GRIB2BIT_1)
    <3>1. FirstPoint.x = msg.Nx /\ FirstPoint.dx = -1 /\ MirrorX(msg.scan, msg.Nx, cx) = msg.Nx - 1 - cx
      BY <2>1 DEF FirstPoint, MirrorX
    <3>2. QED
      BY <1>1, <1>7, <3>1
  <2>2. CASE ~HasBit(msg.scan, GRIB2BIT_1)
    <3>1. FirstPoint.x = 1 /\ FirstPoint.dx = 1 /\ MirrorX(msg.scan, msg.Nx, cx) = cx
      BY <2>2 DEF FirstPoint, MirrorX
    <3>2. QED
      BY <1>1, <1>7, <3>1
  <2>3. QED
    BY <2>1, <2>2
<1>10. MirrorY(msg.scan, msg.Ny, cy) + 1 = FirstPoint.y + cy * FirstPoint.dy
  <2>1. CASE ~HasBit(msg.scan, GRIB2BIT_2)
    <3>1. FirstPoint.y = msg.Ny /\ FirstPoint.dy = -1 /\ MirrorY(msg.scan, msg.Ny, cy) = msg.Ny - 1 - cy
      BY <2>1 DEF FirstPoint, MirrorY
    <3>2. QED
      BY <1>1, <1>7, <3>1
  <2>2. CASE HasBit(msg.scan, GRIB2BIT_2)
    <3>1. FirstPoint.y = 1 /\ FirstPoint.dy = 1 /\ MirrorY(msg.scan, msg.Ny, cy) = cy
      BY <2>2 DEF FirstPoint, MirrorY
    <3>2. QED
      BY <1>1, <1>7, <3>1
  <2>3. QED
    BY <2>1, <2>2
<1>11. PlaceIn(i).x \in 1 .. msg.Nx /\ PlaceIn(i).y \in 1 .. msg.Ny
  BY <1>1, ScanIndexRoundTrip DEF PlaceIn
<1>12. QED
  BY <1>2, <1>4, <1>6, <1>7, <1>8, <1>9, <1>10, <1>11 DEF n, l, k, cx, cy

(* A turned line ends where the next one begins, and is walked through     *)
(* backwards.                                                              *)
LEMMA TurnsRound ==
    ASSUME NEW mode, NEW l \in Nat, NEW n \in Nat \ {0}, NEW k \in 0 .. n - 1
    PROVE  /\ k # n - 1 => Turned(mode, n, l, k + 1)
                              = Turned(mode, n, l, k) + (IF RunsBack(mode, l) THEN -1 ELSE 1)
           /\ k = n - 1 => Turned(mode, n, l, k) = IF RunsBack(mode, l) THEN 0 ELSE n - 1
           /\ Turned(mode, n, l + 1, 0) = IF RunsBack(mode, l + 1) THEN n - 1 ELSE 0
           /\ RunsBack(mode, l + 1) <=> HasBit(mode, GRIB2BIT_4) /\ ~RunsBack(mode, l)
           /\ ~HasBit(mode, GRIB2BIT_4) => ~RunsBack(mode, l)
<1>1. (l + 1) % 2 = 1 <=> ~(l % 2 = 1)
  OBVIOUS
<1>2. QED
  BY <1>1 DEF Turned, RunsBack

(* One step of the walk, on the coordinates.                               *)
LEMMA StepsTo ==
    ASSUME NEW px, NEW py, NEW ex, NEW ey
    PROVE  LET p == [x |-> px, y |-> py, dx |-> ex, dy |-> ey]
               B == HasBit(msg.scan, GRIB2BIT_4)
           IN  /\ StepOnLine(p) = IF ByColumns
                                  THEN [x |-> px, y |-> py + ey, dx |-> ex, dy |-> ey]
                                  ELSE [x |-> px + ex, y |-> py, dx |-> ex, dy |-> ey]
               /\ NextLine(p) = IF ByColumns
                                THEN [x |-> px + ex, y |-> IF B THEN py ELSE FirstPoint.y,
                                      dx |-> ex, dy |-> IF B THEN -ey ELSE ey]
                                ELSE [x |-> IF B THEN px ELSE FirstPoint.x, y |-> py + ey,
                                      dx |-> IF B THEN -ex ELSE ex, dy |-> ey]
               /\ OnGrid(p) <=> px \in 1 .. msg.Nx /\ py \in 1 .. msg.Ny
<1> DEFINE p == [x |-> px, y |-> py, dx |-> ex, dy |-> ey]
           B == HasBit(msg.scan, GRIB2BIT_4)
<1>1. p.x = px /\ p.y = py /\ p.dx = ex /\ p.dy = ey
  OBVIOUS
<1>2. /\ [p EXCEPT !.y = @ + p.dy] = [x |-> px, y |-> py + ey, dx |-> ex, dy |-> ey]
      /\ [p EXCEPT !.x = @ + p.dx] = [x |-> px + ex, y |-> py, dx |-> ex, dy |-> ey]
  OBVIOUS
<1> HIDE DEF p, B
<1>3. StepOnLine(p) = IF ByColumns THEN [p EXCEPT !.y = @ + p.dy] ELSE [p EXCEPT !.x = @ + p.dx]
  BY Zenon DEF StepOnLine, ByColumns
<1>4. NextLine(p) = IF ByColumns
                    THEN [x |-> p.x + p.dx, y |-> IF B THEN p.y ELSE FirstPoint.y,
                          dx |-> p.dx, dy |-> IF B THEN -p.dy ELSE p.dy]
                    ELSE [x |-> IF B THEN p.x ELSE FirstPoint.x, y |-> p.y + p.dy,
                          dx |-> IF B THEN -p.dx ELSE p.dx, dy |-> p.dy]
  BY Zenon DEF NextLine, ByColumns, B
<1>5. OnGrid(p) <=> px \in 1 .. msg.Nx /\ py \in 1 .. msg.Ny
  BY <1>1 DEF OnGrid
<1>6. QED
  BY <1>1, <1>2, <1>3, <1>4, <1>5, Zenon DEF p, B

(* From a point of a line the walk goes on in it, and leaves it for the    *)
(* next at its end.                                                        *)
LEMMA MetNext ==
    ASSUME msg \in Cases, NEW i \in 0 .. msg.Nx * msg.Ny - 1, i + 1 \in 0 .. msg.Nx * msg.Ny - 1
    PROVE  Met(i + 1) = IF OnGrid(StepOnLine(Met(i))) THEN StepOnLine(Met(i)) ELSE NextLine(Met(i))
<1> DEFINE n == PerLine
           l == i \div n
           r == i % n
           k == Turned(msg.scan, n, l, r)
           x0 == FirstPoint.x
           y0 == FirstPoint.y
           dx == FirstPoint.dx
           dy == FirstPoint.dy
           nextL == (i + 1) \div n
           nextR == (i + 1) % n
           nextK == Turned(msg.scan, n, nextL, nextR)
           B == HasBit(msg.scan, GRIB2BIT_4)
           back == RunsBack(msg.scan, l)
           nextBack == RunsBack(msg.scan, nextL)
<1>1. msg.Nx \in Nat \ {0} /\ msg.Ny \in Nat \ {0} /\ i \in Nat
  BY MessageType
<1>2. /\ n \in Nat \ {0} /\ l \in Nat /\ r \in 0 .. n - 1 /\ k \in 0 .. n - 1
      /\ n = IF ByColumns THEN msg.Ny ELSE msg.Nx
      /\ PlaceIn(i).x = x0 + (IF ByColumns THEN l ELSE k) * dx
      /\ PlaceIn(i).y = y0 + (IF ByColumns THEN k ELSE l) * dy
      /\ PlaceIn(i).x \in 1 .. msg.Nx /\ PlaceIn(i).y \in 1 .. msg.Ny
  BY PlaceInLine
<1>3. /\ nextL \in Nat /\ nextK \in 0 .. n - 1
      /\ PlaceIn(i + 1).x = x0 + (IF ByColumns THEN nextL ELSE nextK) * dx
      /\ PlaceIn(i + 1).y = y0 + (IF ByColumns THEN nextK ELSE nextL) * dy
      /\ PlaceIn(i + 1).x \in 1 .. msg.Nx /\ PlaceIn(i + 1).y \in 1 .. msg.Ny
  BY PlaceInLine
<1>4. /\ x0 \in Int /\ y0 \in Int /\ dx \in {-1, 1} /\ dy \in {-1, 1}
      /\ dx = 1 => x0 = 1
      /\ dx = -1 => x0 = msg.Nx
      /\ dy = 1 => y0 = 1
      /\ dy = -1 => y0 = msg.Ny
  BY <1>1 DEF FirstPoint
<1>5. /\ Met(i) = [x |-> PlaceIn(i).x, y |-> PlaceIn(i).y,
                   dx |-> IF ~ByColumns /\ back THEN -dx ELSE dx,
                   dy |-> IF ByColumns /\ back THEN -dy ELSE dy]
      /\ Met(i + 1) = [x |-> PlaceIn(i + 1).x, y |-> PlaceIn(i + 1).y,
                       dx |-> IF ~ByColumns /\ nextBack THEN -dx ELSE dx,
                       dy |-> IF ByColumns /\ nextBack THEN -dy ELSE dy]
  BY Zenon DEF Met, GoesBack
<1>7. /\ r # n - 1 => nextR = r + 1 /\ nextL = l
      /\ r = n - 1 => nextR = 0 /\ nextL = l + 1
  <2> HIDE DEF n
  <2>1. QED
    BY <1>1, <1>2, DivModNext
<1> HIDE DEF n, l, r, nextL, nextR
<1>8. ASSUME r # n - 1
      PROVE  nextL = l /\ nextK = k + (IF back THEN -1 ELSE 1) /\ (nextBack <=> back)
  <2>1. nextL = l /\ nextR = r + 1
    BY <1>7, <1>8
  <2>2. Turned(msg.scan, n, l, r + 1) = Turned(msg.scan, n, l, r) + (IF RunsBack(msg.scan, l) THEN -1 ELSE 1)
    BY <1>2, <1>8 DEF Turned
  <2>3. QED
    BY <2>1, <2>2, Zenon
<1>9. ASSUME r = n - 1
      PROVE  /\ nextL = l + 1 /\ k = (IF back THEN 0 ELSE n - 1)
             /\ nextK = (IF nextBack THEN n - 1 ELSE 0)
             /\ nextBack <=> B /\ ~back
             /\ ~B => ~back
  BY <1>2, <1>7, <1>9, TurnsRound
<1> HIDE DEF n, l, r, k, x0, y0, dx, dy, nextL, nextK, B, back, nextBack
<1>10. PICK px \in Int, py \in Int, qx \in Int, qy \in Int :
         px = PlaceIn(i).x /\ py = PlaceIn(i).y /\ qx = PlaceIn(i + 1).x /\ qy = PlaceIn(i + 1).y
  BY <1>1, <1>2, <1>3
<1>11. CASE ByColumns
  <2> DEFINE d == IF back THEN -dy ELSE dy
             e == IF nextBack THEN -dy ELSE dy
  <2>1. /\ Met(i) = [x |-> px, y |-> py, dx |-> dx, dy |-> d]
        /\ Met(i + 1) = [x |-> qx, y |-> qy, dx |-> dx, dy |-> e]
    BY <1>5, <1>10, <1>11
  <2> HIDE DEF d, e
  <2> DEFINE p == [x |-> px, y |-> py, dx |-> dx, dy |-> d]
  <2>2. /\ StepOnLine(p) = [x |-> px, y |-> py + d, dx |-> dx, dy |-> d]
        /\ NextLine(p) = [x |-> px + dx, y |-> IF B THEN py ELSE y0, dx |-> dx,
                          dy |-> IF B THEN -d ELSE d]
    <3>1. /\ StepOnLine(p) = IF ByColumns
                             THEN [x |-> px, y |-> py + d, dx |-> dx, dy |-> d]
                             ELSE [x |-> px + dx, y |-> py, dx |-> dx, dy |-> d]
          /\ NextLine(p) = IF ByColumns
                           THEN [x |-> px + dx, y |-> IF B THEN py ELSE y0, dx |-> dx,
                                 dy |-> IF B THEN -d ELSE d]
                           ELSE [x |-> IF B THEN px ELSE x0, y |-> py + d,
                                 dx |-> IF B THEN -dx ELSE dx, dy |-> d]
      BY StepsTo DEF B, x0, y0
    <3>2. QED
      BY <1>11, <3>1, Zenon
  <2>3. OnGrid([x |-> px, y |-> py + d, dx |-> dx, dy |-> d]) <=> py + d \in 1 .. msg.Ny
    BY <1>2, <1>10, StepsTo, Zenon
  <2> HIDE DEF p
  <2>4. /\ StepOnLine(Met(i)) = [x |-> px, y |-> py + d, dx |-> dx, dy |-> d]
        /\ NextLine(Met(i)) = [x |-> px + dx, y |-> IF B THEN py ELSE y0, dx |-> dx,
                               dy |-> IF B THEN -d ELSE d]
        /\ OnGrid(StepOnLine(Met(i))) <=> py + d \in 1 .. msg.Ny
    <3>1. Met(i) = p
      BY <2>1 DEF p
    <3>2. QED
      BY <2>2, <2>3, <3>1, Zenon
  <2>5. /\ px = x0 + l * dx /\ py = y0 + k * dy /\ n = msg.Ny
        /\ qx = x0 + nextL * dx /\ qy = y0 + nextK * dy
        /\ qy \in 1 .. msg.Ny
    BY <1>2, <1>3, <1>10, <1>11
  <2>6. CASE r # n - 1
    <3>1. qx = px /\ qy = py + d /\ e = d
      BY <1>2, <1>4, <1>8, <2>5, <2>6 DEF d, e
    <3>2. py + d \in 1 .. msg.Ny
      BY <2>5, <3>1
    <3>3. QED
      BY <2>1, <2>4, <3>1, <3>2
  <2>7. CASE r = n - 1
    <3>1. qx = px + dx
      BY <1>2, <1>4, <1>9, <2>5, <2>7
    <3>2. py + d \notin 1 .. msg.Ny
      BY <1>1, <1>2, <1>4, <1>9, <2>5, <2>7 DEF d
    <3>3. qy = IF B THEN py ELSE y0
      BY <1>1, <1>2, <1>4, <1>9, <2>5, <2>7
    <3>4. e = IF B THEN -d ELSE d
      BY <1>4, <1>9, <2>7 DEF d, e
    <3>5. QED
      BY <2>1, <2>4, <3>1, <3>2, <3>3, <3>4
  <2>8. QED
    BY <2>6, <2>7
<1>12. CASE ~ByColumns
  <2> DEFINE d == IF back THEN -dx ELSE dx
             e == IF nextBack THEN -dx ELSE dx
  <2>1. /\ Met(i) = [x |-> px, y |-> py, dx |-> d, dy |-> dy]
        /\ Met(i + 1) = [x |-> qx, y |-> qy, dx |-> e, dy |-> dy]
    BY <1>5, <1>10, <1>12
  <2> HIDE DEF d, e
  <2> DEFINE p == [x |-> px, y |-> py, dx |-> d, dy |-> dy]
  <2>2. /\ StepOnLine(p) = [x |-> px + d, y |-> py, dx |-> d, dy |-> dy]
        /\ NextLine(p) = [x |-> IF B THEN px ELSE x0, y |-> py + dy,
                          dx |-> IF B THEN -d ELSE d, dy |-> dy]
    <3>1. /\ StepOnLine(p) = IF ByColumns
                             THEN [x |-> px, y |-> py + dy, dx |-> d, dy |-> dy]
                             ELSE [x |-> px + d, y |-> py, dx |-> d, dy |-> dy]
          /\ NextLine(p) = IF ByColumns
                           THEN [x |-> px + d, y |-> IF B THEN py ELSE y0, dx |-> d,
                                 dy |-> IF B THEN -dy ELSE dy]
                           ELSE [x |-> IF B THEN px ELSE x0, y |-> py + dy,
                                 dx |-> IF B THEN -d ELSE d, dy |-> dy]
      BY StepsTo DEF B, x0, y0
    <3>2. QED
      BY <1>12, <3>1, Zenon
  <2>3. OnGrid([x |-> px + d, y |-> py, dx |-> d, dy |-> dy]) <=> px + d \in 1 .. msg.Nx
    BY <1>2, <1>10, StepsTo, Zenon
  <2> HIDE DEF p
  <2>4. /\ StepOnLine(Met(i)) = [x |-> px + d, y |-> py, dx |-> d, dy |-> dy]
        /\ NextLine(Met(i)) = [x |-> IF B THEN px ELSE x0, y |-> py + dy,
                               dx |-> IF B THEN -d ELSE d, dy |-> dy]
        /\ OnGrid(StepOnLine(Met(i))) <=> px + d \in 1 .. msg.Nx
    <3>1. Met(i) = p
      BY <2>1 DEF p
    <3>2. QED
      BY <2>2, <2>3, <3>1, Zenon
  <2>5. /\ px = x0 + k * dx /\ py = y0 + l * dy /\ n = msg.Nx
        /\ qx = x0 + nextK * dx /\ qy = y0 + nextL * dy
        /\ qx \in 1 .. msg.Nx
    BY <1>2, <1>3, <1>10, <1>12
  <2>6. CASE r # n - 1
    <3>1. qy = py /\ qx = px + d /\ e = d
      BY <1>2, <1>4, <1>8, <2>5, <2>6 DEF d, e
    <3>2. px + d \in 1 .. msg.Nx
      BY <2>5, <3>1
    <3>3. QED
      BY <2>1, <2>4, <3>1, <3>2
  <2>7. CASE r = n - 1
    <3>1. qy = py + dy
      BY <1>2, <1>4, <1>9, <2>5, <2>7
    <3>2. px + d \notin 1 .. msg.Nx
      BY <1>1, <1>2, <1>4, <1>9, <2>5, <2>7 DEF d
    <3>3. qx = IF B THEN px ELSE x0
      BY <1>1, <1>2, <1>4, <1>9, <2>5, <2>7
    <3>4. e = IF B THEN -d ELSE d
      BY <1>4, <1>9, <2>7 DEF d, e
    <3>5. QED
      BY <2>1, <2>4, <3>1, <3>2, <3>3, <3>4
  <2>8. QED
    BY <2>6, <2>7
<1>13. QED
  BY <1>11, <1>12

(* Induction, for a set instead of a predicate.                            *)
Less == {p \in Nat \X Nat : p[1] < p[2]}

LEMMA LessWellFounded == IsWellFoundedOn(Less, Nat)
<1>1. OpToRel(<, Nat) = Less
  BY Zenon DEF OpToRel, Less
<1>2. QED
  BY <1>1, NatLessThanWellFounded, Zenon

LEMMA NatInSet ==
    ASSUME NEW S, 0 \in S, \A n \in Nat : n \in S => n + 1 \in S
    PROVE  \A n \in Nat : n \in S
<1> DEFINE T == {n \in Nat : n \notin S}
<1>1. SUFFICES ASSUME T # {} PROVE FALSE
  OBVIOUS
<1>2. \E x \in T : \A y \in T : ~ (<<y, x>> \in Less)
  <2> HIDE DEF T
  <2>1. T \subseteq Nat
    BY DEF T
  <2>2. QED
    BY <1>1, <2>1, LessWellFounded, WFMin, Zenon
<1>3. PICK x \in T : \A y \in T : ~ (<<y, x>> \in Less)
  BY <1>2
<1>4. \A y \in T : ~(y < x)
  BY <1>3 DEF Less
<1>5. x # 0
  OBVIOUS
<1>6. x - 1 \in Nat /\ x - 1 < x /\ x = (x - 1) + 1
  BY <1>5
<1>7. x - 1 \in S
  BY <1>4, <1>6
<1>8. QED
  BY <1>6, <1>7

(* The walk of the flag table meets the i-th point where ScanIndex2XY has  *)
(* it, for every scan mode and every size of the grid.                     *)
THEOREM WalksAsTheFlagTable ==
    ASSUME msg \in Cases, NEW i \in DOMAIN msg.fld
    PROVE  /\ Walk[i] = Met(i)
           /\ Walk[i].x = ScanIndex2XY(i, msg.scan, msg.Nx, msg.Ny).x
           /\ Walk[i].y = ScanIndex2XY(i, msg.scan, msg.Nx, msg.Ny).y
<1> DEFINE D == DOMAIN msg.fld
           F(f, k) == IF k = 0 THEN FirstPoint
                      ELSE IF OnGrid(StepOnLine(f[k - 1])) THEN StepOnLine(f[k - 1])
                      ELSE NextLine(f[k - 1])
           g == [k \in D |-> Met(k)]
<1>1. D = 0 .. msg.Nx * msg.Ny - 1 /\ msg.Nx * msg.Ny \in Nat \ {0}
  BY MessageType
<1>2. Met(0) = FirstPoint
  <2>1. 0 \in 0 .. msg.Nx * msg.Ny - 1
    BY <1>1
  <2>2. PerLine \in Nat \ {0}
    BY <2>1, PlaceInLine
  <2>3. 0 \div PerLine = 0 /\ 0 % PerLine = 0
    BY <2>2, QuotientOfSum
  <2>4. ~GoesBack(0) /\ Turned(msg.scan, PerLine, 0, 0) = 0
    BY <2>3 DEF GoesBack, RunsBack, Turned
  <2>5. PlaceIn(0).x = FirstPoint.x + 0 * FirstPoint.dx /\ PlaceIn(0).y = FirstPoint.y + 0 * FirstPoint.dy
    BY <2>1, <2>3, <2>4, PlaceInLine
  <2>6. FirstPoint.x \in Int /\ FirstPoint.y \in Int /\ FirstPoint.dx \in Int /\ FirstPoint.dy \in Int
    BY MessageType DEF FirstPoint
  <2>7. PlaceIn(0).x = FirstPoint.x /\ PlaceIn(0).y = FirstPoint.y
    BY <2>5, <2>6
  <2>8. Met(0) = [x |-> FirstPoint.x, y |-> FirstPoint.y, dx |-> FirstPoint.dx, dy |-> FirstPoint.dy]
    BY <2>4, <2>7 DEF Met
  <2>9. QED
    BY <2>8 DEF FirstPoint
<1>3. ASSUME NEW k \in D PROVE g[k] = F(g, k)
  <2>1. CASE k = 0
    BY <1>2, <2>1
  <2>2. CASE k # 0
    <3>1. k - 1 \in 0 .. msg.Nx * msg.Ny - 1 /\ (k - 1) + 1 = k /\ k - 1 \in D
      BY <1>1, <1>3, <2>2
    <3>2. Met((k - 1) + 1) = IF OnGrid(StepOnLine(Met(k - 1))) THEN StepOnLine(Met(k - 1))
                             ELSE NextLine(Met(k - 1))
      BY <1>1, <1>3, <3>1, MetNext
    <3>3. g[k - 1] = Met(k - 1) /\ g[k] = Met(k)
      BY <1>3, <3>1
    <3> HIDE DEF g, D
    <3>4. QED
      BY <2>2, <3>1, <3>2, <3>3, Zenon
  <2>3. QED
    BY <2>1, <2>2
<1> HIDE DEF F
<1>4. g = [k \in D |-> F(g, k)]
  BY <1>3
<1>5. Walk = CHOOSE f : f = [k \in D |-> F(f, k)]
  BY Zenon DEF Walk, F
<1> HIDE DEF g, D
<1>6. Walk = [k \in D |-> F(Walk, k)]
  BY <1>4, <1>5, Zenon
<1> DEFINE S == {k \in Nat : k \in D => Walk[k] = Met(k)}
<1>7. 0 \in S
  BY <1>2, <1>6 DEF F
<1>8. ASSUME NEW k \in Nat, k \in S PROVE k + 1 \in S
  <2>1. SUFFICES ASSUME k + 1 \in D PROVE Walk[k + 1] = Met(k + 1)
    BY <1>8
  <2>2. k \in 0 .. msg.Nx * msg.Ny - 1 /\ k + 1 \in 0 .. msg.Nx * msg.Ny - 1 /\ k \in D
    BY <1>1, <1>8, <2>1
  <2>3. Walk[k] = Met(k)
    BY <1>8, <2>2
  <2>4. Walk[k + 1] = F(Walk, k + 1)
    BY <1>6, <2>1
  <2>5. (k + 1) - 1 = k /\ k + 1 # 0
    BY <1>8
  <2>6. F(Walk, k + 1) = IF OnGrid(StepOnLine(Met(k))) THEN StepOnLine(Met(k)) ELSE NextLine(Met(k))
    BY <2>3, <2>5, Zenon DEF F
  <2>7. QED
    BY <2>2, <2>4, <2>6, MetNext, Zenon
<1> HIDE DEF S
<1>9. \A k \in Nat : k \in S
  BY <1>7, <1>8, NatInSet, Zenon
<1>10. i \in Nat /\ i \in D
  BY <1>1 DEF D
<1>11. Walk[i] = Met(i)
  BY <1>9, <1>10 DEF S
<1>12. QED
  BY <1>11 DEF Met, PlaceIn

(***************************************************************************)
(* Cells of memory, of the grid and of a subgrid.                          *)
(***************************************************************************)
Grid == 0 .. msg.Nx * msg.Ny - 1

(* The point of the message at coordinates, and at a cell of a part.       *)
PointNr(x, y) == XY2ScanIndex(x, y, msg.scan, msg.Nx, msg.Ny)
From(j) == PointNr((j % msg.Nx) + 1, (j \div msg.Nx) + 1)
Raw(w, j) == msg.fld[PointNr(Column(w, j), Row(w, j))]

LEMMA CellOfCoordinates ==
    ASSUME NEW nx \in Nat \ {0}, NEW ny \in Nat \ {0}, NEW x \in 1 .. nx, NEW y \in 1 .. ny,
           NEW j, j = (x - 1) + (y - 1) * nx
    PROVE  j \in 0 .. nx * ny - 1 /\ (j % nx) + 1 = x /\ (j \div nx) + 1 = y
<1>1. x - 1 \in 0 .. nx - 1 /\ y - 1 \in 0 .. ny - 1 /\ y - 1 \in Nat
  OBVIOUS
<1>2. nx * ny = ny * nx
  BY SMT
<1>3. (x - 1) + (y - 1) * nx \in 0 .. ny * nx - 1
  BY <1>1, NumberIsBounded
<1>4. ((x - 1) + (y - 1) * nx) \div nx = y - 1 /\ ((x - 1) + (y - 1) * nx) % nx = x - 1
  BY <1>1, QuotientOfSum
<1>5. j \div nx = y - 1 /\ j % nx = x - 1 /\ j \in 0 .. nx * ny - 1
  BY <1>2, <1>3, <1>4, Zenon
<1>6. QED
  BY <1>5

LEMMA CoordinatesOfCell ==
    ASSUME NEW nx \in Nat \ {0}, NEW ny \in Nat \ {0}, NEW j \in 0 .. nx * ny - 1
    PROVE  /\ (j % nx) + 1 \in 1 .. nx /\ (j \div nx) + 1 \in 1 .. ny
           /\ j = (((j % nx) + 1) - 1) + (((j \div nx) + 1) - 1) * nx
<1>1. nx * ny = ny * nx
  BY SMT
<1>2. j \div nx \in 0 .. ny - 1
  BY <1>1, QuotientIsBounded
<1>3. j % nx \in 0 .. nx - 1 /\ j = (j \div nx) * nx + (j % nx)
  BY DivMod
<1> DEFINE q == j \div nx
           r == j % nx
<1> HIDE DEF q, r
<1>4. q \in 0 .. ny - 1 /\ r \in 0 .. nx - 1 /\ j = q * nx + r
  BY <1>2, <1>3 DEF q, r
<1>5. r + 1 \in 1 .. nx /\ q + 1 \in 1 .. ny /\ j = ((r + 1) - 1) + ((q + 1) - 1) * nx
  BY <1>4
<1>6. QED
  BY <1>5 DEF q, r

(* The points of the message are those of the walk, one for each cell.     *)
LEMMA PointOfCoordinates ==
    ASSUME msg \in Cases, NEW x \in 1 .. msg.Nx, NEW y \in 1 .. msg.Ny
    PROVE  /\ PointNr(x, y) \in Grid
           /\ PlaceIn(PointNr(x, y)) = [x |-> x, y |-> y]
           /\ \A i \in Grid : PlaceIn(i).x = x /\ PlaceIn(i).y = y => i = PointNr(x, y)
<1>1. msg.Nx \in Nat \ {0} /\ msg.Ny \in Nat \ {0} /\ msg.scan \in ScanModes
  BY MessageType
<1>2. PointNr(x, y) \in Grid /\ PlaceIn(PointNr(x, y)) = [x |-> x, y |-> y]
  BY <1>1, XYRoundTrip DEF PointNr, PlaceIn, Grid
<1>3. ASSUME NEW i \in Grid, PlaceIn(i).x = x, PlaceIn(i).y = y PROVE i = PointNr(x, y)
  <2>1. XY2ScanIndex(PlaceIn(i).x, PlaceIn(i).y, msg.scan, msg.Nx, msg.Ny) = i
    BY <1>1, ScanIndexRoundTrip DEF PlaceIn, Grid
  <2>2. QED
    BY <1>3, <2>1, Zenon DEF PointNr
<1>4. QED
  BY <1>2, <1>3

LEMMA PointAtIs ==
    ASSUME msg \in Cases, NEW j, Inside(Sub, j)
    PROVE  /\ PointAt(j) = PointNr(Column(Sub, j), Row(Sub, j))
           /\ PointAt(j) \in Grid
<1> DEFINE x == Column(Sub, j)
           y == Row(Sub, j)
<1>1. x \in 1 .. msg.Nx /\ y \in 1 .. msg.Ny
  BY DEF Inside
<1>2. DOMAIN msg.fld = Grid
  BY MessageType DEF Grid
<1> HIDE DEF x, y
<1>3. /\ PointNr(x, y) \in Grid
      /\ PlaceIn(PointNr(x, y)) = [x |-> x, y |-> y]
      /\ \A i \in Grid : PlaceIn(i).x = x /\ PlaceIn(i).y = y => i = PointNr(x, y)
  BY <1>1, PointOfCoordinates
<1>4. \A i \in Grid : Walk[i].x = PlaceIn(i).x /\ Walk[i].y = PlaceIn(i).y
  BY <1>2, WalksAsTheFlagTable DEF PlaceIn
<1>5. PointAt(j) = CHOOSE i \in Grid : Walk[i].x = x /\ Walk[i].y = y
  BY <1>2, Zenon DEF PointAt, x, y
<1>6. Walk[PointNr(x, y)].x = x /\ Walk[PointNr(x, y)].y = y
  <2>1. PlaceIn(PointNr(x, y)).x = x /\ PlaceIn(PointNr(x, y)).y = y
    BY <1>3
  <2>2. QED
    BY <1>3, <1>4, <2>1, Zenon
<1>7. PointAt(j) \in Grid /\ Walk[PointAt(j)].x = x /\ Walk[PointAt(j)].y = y
  BY <1>3, <1>5, <1>6, Zenon
<1>8. PointAt(j) = PointNr(x, y)
  BY <1>3, <1>4, <1>7, Zenon
<1>9. QED
  BY <1>7, <1>8 DEF x, y

(* The bits of the modes that are as they are in memory.                   *)
LEMMA ModeInOrder ==
    ASSUME NEW mode \in Int, mode \div 16 = 4
    PROVE  /\ ~HasBit(mode, GRIB2BIT_1) /\ HasBit(mode, GRIB2BIT_2)
           /\ ~HasBit(mode, GRIB2BIT_3) /\ ~HasBit(mode, GRIB2BIT_4)
<1>1. mode \in 64 .. 79
  OBVIOUS
<1>2. mode \div 128 = 0 /\ mode \div 64 = 1 /\ mode \div 32 = 2
  BY <1>1
<1>3. QED
  BY <1>2 DEF HasBit, GRIB2BIT_1, GRIB2BIT_2, GRIB2BIT_3, GRIB2BIT_4

LEMMA InOrderPlaces ==
    ASSUME NEW mode \in Int, mode \div 16 = 4, NEW nx \in Nat \ {0}, NEW ny \in Nat \ {0},
           NEW j \in 0 .. nx * ny - 1
    PROVE  /\ InMemory(ScanIndex2XY(j, mode, nx, ny), nx) = j
           /\ XY2ScanIndex((j % nx) + 1, (j \div nx) + 1, mode, nx, ny) = j
<1>1. /\ ~HasBit(mode, GRIB2BIT_1) /\ HasBit(mode, GRIB2BIT_2)
      /\ ~HasBit(mode, GRIB2BIT_3) /\ ~HasBit(mode, GRIB2BIT_4)
  BY ModeInOrder
<1> DEFINE q == j \div nx
           r == j % nx
<1>2. q \in Int /\ r \in Int /\ j = r + q * nx
  BY DivMod
<1>3. ScanIndex2XY(j, mode, nx, ny) = [x |-> r + 1, y |-> q + 1]
  BY <1>1, Zenon DEF ScanIndex2XY, LineLength, Turned, RunsBack, MirrorX, MirrorY
<1> HIDE DEF q, r
<1>4. (r + 1) - 1 = r /\ (q + 1) - 1 = q
  BY <1>2
<1>5. XY2ScanIndex(r + 1, q + 1, mode, nx, ny) = r + q * nx
  BY <1>1, <1>4, Zenon DEF XY2ScanIndex, LineLength, Turned, RunsBack, MirrorX, MirrorY
<1>6. InMemory([x |-> r + 1, y |-> q + 1], nx) = r + q * nx
  <2>1. InMemory([x |-> r + 1, y |-> q + 1], nx) = ((r + 1) - 1) + ((q + 1) - 1) * nx
    BY DEF InMemory
  <2>2. QED
    BY <1>4, <2>1, Zenon
<1>7. QED
  BY <1>2, <1>3, <1>5, <1>6, Zenon DEF q, r

(* What TransferInt and TransferFloat do: each cell gets the value of its  *)
(* point, whatever was in memory before.                                   *)
LEMMA TransferGives ==
    ASSUME msg \in Cases, NEW f \in [Grid -> Int]
    PROVE  Transfer(f) = [j \in Grid |-> f[From(j)]]
<1>1. msg.Nx \in Nat \ {0} /\ msg.Ny \in Nat \ {0} /\ msg.scan \in Int
  <2>1. msg.Nx \in Nat \ {0} /\ msg.Ny \in Nat \ {0} /\ msg.scan \in ScanModes
    BY MessageType
  <2>2. QED
    BY <2>1 DEF ScanModes
<1>2. CASE InOrder
  <2>1. \A j \in Grid : From(j) = j
    BY <1>1, <1>2, InOrderPlaces DEF InOrder, Grid, From, PointNr
  <2>2. Transfer(f) = f
    BY <1>2, Zenon DEF Transfer
  <2>3. QED
    BY <2>1, <2>2
<1>3. CASE ~InOrder
  <2> DEFINE Place(i) == InMemory(PlaceIn(i), msg.Nx)
             W(j) == {i \in Grid : Place(i) = j}
             empty == [i \in Grid |-> stray]
  <2>1. DOMAIN f = Grid
    OBVIOUS
  <2>2. Transfer(f) = [j \in DOMAIN empty |-> IF W(j) = {} THEN empty[j] ELSE f[Max(W(j))]]
    BY <1>3, <2>1, Zenon DEF Transfer, Scatter, PlaceIn
  <2>3. ASSUME NEW j \in Grid PROVE W(j) = {From(j)} /\ From(j) \in Int
    <3> DEFINE x == (j % msg.Nx) + 1
               y == (j \div msg.Nx) + 1
    <3>1. x \in 1 .. msg.Nx /\ y \in 1 .. msg.Ny /\ j = (x - 1) + (y - 1) * msg.Nx
      BY <1>1, CoordinatesOfCell DEF Grid
    <3> HIDE DEF x, y
    <3>2. /\ PointNr(x, y) \in Grid
          /\ PlaceIn(PointNr(x, y)) = [x |-> x, y |-> y]
          /\ \A i \in Grid : PlaceIn(i).x = x /\ PlaceIn(i).y = y => i = PointNr(x, y)
      BY <3>1, PointOfCoordinates
    <3>3. Place(PointNr(x, y)) = j
      <4>1. InMemory([x |-> x, y |-> y], msg.Nx) = (x - 1) + (y - 1) * msg.Nx
        BY DEF InMemory
      <4>2. QED
        BY <3>1, <3>2, <4>1, Zenon
    <3>4. ASSUME NEW i \in Grid, Place(i) = j PROVE i = PointNr(x, y)
      <4> DEFINE u == PlaceIn(i).x
                 v == PlaceIn(i).y
      <4>1. u \in 1 .. msg.Nx /\ v \in 1 .. msg.Ny
        BY PlaceInLine DEF Grid
      <4>2. j = (u - 1) + (v - 1) * msg.Nx
        BY <3>4, Zenon DEF InMemory
      <4> HIDE DEF u, v
      <4>3. (j % msg.Nx) + 1 = u /\ (j \div msg.Nx) + 1 = v
        BY <1>1, <4>1, <4>2, CellOfCoordinates
      <4>4. u = x /\ v = y
        BY <4>3 DEF x, y
      <4>5. QED
        BY <3>2, <4>4 DEF u, v
    <3>5. From(j) = PointNr(x, y)
      BY DEF From, x, y
    <3>6. From(j) \in Int
      BY <1>1, <3>2, <3>5 DEF Grid
    <3> HIDE DEF Place
    <3>7. QED
      BY <3>2, <3>3, <3>4, <3>5, <3>6
  <2>4. ASSUME NEW j \in Grid PROVE Max(W(j)) = From(j) /\ W(j) # {}
    <3>1. W(j) = {From(j)} /\ From(j) \in Int
      BY <2>3
    <3> HIDE DEF W
    <3>2. QED
      BY <3>1 DEF Max
  <2> HIDE DEF W
  <2>5. QED
    BY <2>2, <2>4
<1>4. QED
  BY <1>2, <1>3

LEMMA FromIsPoint ==
    ASSUME msg \in Cases, NEW j \in Grid
    PROVE  From(j) \in Grid
<1>1. msg.Nx \in Nat \ {0} /\ msg.Ny \in Nat \ {0}
  BY MessageType
<1>2. (j % msg.Nx) + 1 \in 1 .. msg.Nx /\ (j \div msg.Nx) + 1 \in 1 .. msg.Ny
  BY <1>1, CoordinatesOfCell DEF Grid
<1>3. QED
  BY <1>2, PointOfCoordinates DEF From

(* After TransferInt the order is that of the grid.                        *)
LEMMA PlaceOfIs ==
    ASSUME msg \in Cases, scan \in Int, scan \div 16 = 4, NEW i \in Grid
    PROVE  PlaceOf(i) = i
<1>1. msg.Nx \in Nat \ {0} /\ msg.Ny \in Nat \ {0}
  BY MessageType
<1>2. QED
  BY <1>1, InOrderPlaces DEF PlaceOf, Grid

(* The parts of a grid.                                                    *)
LEMMA PartType ==
    ASSUME msg \in Cases
    PROVE  /\ Sub \in Rectangles
           /\ Width(Sub) \in Nat \ {0} /\ Height(Sub) \in Nat \ {0}
           /\ Width(Sub) * Height(Sub) \in Nat \ {0}
           /\ \A j \in Cells(Sub) : Column(Sub, j) \in Int /\ Row(Sub, j) \in Int
<1>1. msg.Nx \in Nat \ {0} /\ msg.Ny \in Nat \ {0}
  BY MessageType
<1>2. Sub \in Rectangles
  <2>1. CASE msg.sub = <<>>
    <3>1. Sub = <<1, 1, msg.Nx, msg.Ny>>
      BY <2>1, Zenon DEF Sub, f_subGrid
    <3>2. QED
      BY <1>1, <3>1 DEF Rectangles
  <2>2. CASE msg.sub # <<>>
    BY <2>2, MessageType DEF Sub, f_subGrid
  <2>3. QED
    BY <2>1, <2>2
<1>3. Width(Sub) \in Nat \ {0} /\ Height(Sub) \in Nat \ {0} /\ Sub[1] \in Int /\ Sub[2] \in Int
  BY <1>2 DEF Rectangles, Width, Height
<1>4. Width(Sub) * Height(Sub) \in Nat \ {0}
  BY <1>3
<1>5. ASSUME NEW j \in Cells(Sub) PROVE Column(Sub, j) \in Int /\ Row(Sub, j) \in Int
  BY <1>3, <1>4 DEF Column, Row, Cells
<1>6. QED
  BY <1>2, <1>3, <1>4, <1>5

(* A cell of the whole grid.                                               *)
LEMMA WholeGrid ==
    ASSUME msg \in Cases, msg.sub = <<>>
    PROVE  /\ Cells(Sub) = Grid
           /\ Width(Sub) = msg.Nx /\ Height(Sub) = msg.Ny
           /\ \A j \in Grid : Inside(Sub, j) /\ PointNr(Column(Sub, j), Row(Sub, j)) = From(j)
<1>1. msg.Nx \in Nat \ {0} /\ msg.Ny \in Nat \ {0}
  BY MessageType
<1>2. Sub = <<1, 1, msg.Nx, msg.Ny>>
  BY Zenon DEF Sub, f_subGrid
<1>3. Width(Sub) = msg.Nx /\ Height(Sub) = msg.Ny
  BY <1>1, <1>2 DEF Width, Height
<1>4. Cells(Sub) = Grid
  BY <1>3 DEF Cells, Grid
<1>5. ASSUME NEW j \in Grid
      PROVE  Inside(Sub, j) /\ PointNr(Column(Sub, j), Row(Sub, j)) = From(j)
  <2>1. (j % msg.Nx) + 1 \in 1 .. msg.Nx /\ (j \div msg.Nx) + 1 \in 1 .. msg.Ny
    BY <1>1, CoordinatesOfCell DEF Grid
  <2>2. Sub[1] = 1 /\ Sub[2] = 1
    BY <1>2
  <2> DEFINE r == j % msg.Nx
             q == j \div msg.Nx
  <2>3. Column(Sub, j) = 1 + r /\ Row(Sub, j) = 1 + q
    BY <1>3, <2>2 DEF Column, Row
  <2>4. r \in Int /\ q \in Int
    BY <1>1 DEF Grid
  <2> HIDE DEF r, q
  <2>5. Column(Sub, j) = r + 1 /\ Row(Sub, j) = q + 1
    BY <2>3, <2>4
  <2>6. QED
    BY <2>1, <2>5 DEF Inside, From, r, q
<1>6. QED
  BY <1>3, <1>4, <1>5

(* A finite set of numbers that are counted has a least and a greatest.    *)
LEMMA BoundsOfValues ==
    ASSUME NEW N \in Nat, NEW K \in SUBSET (0 .. N - 1), K # {}, NEW f \in [K -> Int]
    PROVE  LET S == {f[j] : j \in K}
           IN  /\ Min(S) \in S /\ Max(S) \in S /\ S \subseteq Int
               /\ \A v \in S : Min(S) <= v /\ v <= Max(S)
<1> DEFINE S == {f[j] : j \in K}
           Below(n) == {j \in K : j < n}
           T == {n \in Nat : Below(n) # {} => \E a, b \in Below(n) : \A j \in Below(n) :
                                                f[a] <= f[j] /\ f[j] <= f[b]}
<1>0. \A j \in K : j \in Int /\ 0 <= j /\ j < N
  OBVIOUS
<1>1. 0 \in T
  <2>1. \A j \in Below(0) : FALSE
    BY <1>0
  <2> HIDE DEF Below
  <2>2. QED
    BY <2>1
<1>2. ASSUME NEW n \in Nat, n \in T PROVE n + 1 \in T
  <2>1. Below(n + 1) = Below(n) \cup (K \cap {n})
    <3>1. \A j \in K : j < n + 1 <=> j < n \/ j = n
      BY <1>0
    <3>2. QED
      BY <3>1, Zenon
  <2>2. CASE n \notin K
    <3>1. Below(n + 1) = Below(n)
      BY <2>1, <2>2
    <3> HIDE DEF Below
    <3>2. n + 1 \in Nat
      OBVIOUS
    <3>3. QED
      BY <1>2, <3>1, <3>2, Zenon
  <2>3. CASE n \in K /\ Below(n) = {}
    <3>1. Below(n + 1) = {n} /\ f[n] \in Int
      BY <2>1, <2>3
    <3> HIDE DEF Below
    <3>2. QED
      BY <1>2, <3>1
  <2>4. CASE n \in K /\ Below(n) # {}
    <3>1. PICK a \in Below(n), b \in Below(n) :
            \A j \in Below(n) : f[a] <= f[j] /\ f[j] <= f[b]
      BY <1>2, <2>4
    <3>2. PICK va \in Int, vb \in Int, vn \in Int : va = f[a] /\ vb = f[b] /\ vn = f[n]
      BY <2>4
    <3>3. Below(n + 1) = Below(n) \cup {n}
      BY <2>1, <2>4
    <3>4. \A j \in Below(n) : f[j] \in Int
      OBVIOUS
    <3> HIDE DEF Below
    <3> DEFINE c == IF vn <= va THEN n ELSE a
               d == IF vn <= vb THEN b ELSE n
    <3>5. c \in Below(n + 1) /\ d \in Below(n + 1)
      BY <3>3
    <3>6. ASSUME NEW j \in Below(n + 1) PROVE f[c] <= f[j] /\ f[j] <= f[d]
      <4>1. CASE j = n
        BY <3>2, <4>1
      <4>2. CASE j \in Below(n)
        <5>1. PICK vj \in Int : vj = f[j]
          BY <3>4, <4>2
        <5>2. va <= vj /\ vj <= vb
          BY <3>1, <3>2, <4>2, <5>1
        <5>3. f[c] = (IF vn <= va THEN vn ELSE va) /\ f[d] = (IF vn <= vb THEN vb ELSE vn)
          BY <3>2
        <5> HIDE DEF c, d
        <5>4. QED
          BY <5>1, <5>2, <5>3
      <4>3. QED
        BY <3>3, <4>1, <4>2
    <3> HIDE DEF c, d
    <3>7. QED
      BY <1>2, <3>5, <3>6
  <2>5. QED
    BY <2>2, <2>3, <2>4
<1> HIDE DEF T
<1>3. N \in T
  BY <1>1, <1>2, NatInSet, Zenon
<1>4. Below(N) = K
  BY <1>0
<1> HIDE DEF Below
<1>5. PICK a \in K, b \in K : \A j \in K : f[a] <= f[j] /\ f[j] <= f[b]
  BY <1>3, <1>4 DEF T
<1>6. S \subseteq Int /\ f[a] \in S /\ f[b] \in S /\ \A v \in S : f[a] <= v /\ v <= f[b]
  BY <1>5
<1> HIDE DEF S
<1>7. Min(S) \in S /\ \A v \in S : Min(S) <= v
  BY <1>6 DEF Min
<1>8. Max(S) \in S /\ \A v \in S : Max(S) >= v
  BY <1>6 DEF Max
<1>9. ASSUME NEW v \in S PROVE Min(S) <= v /\ v <= Max(S)
  <2>1. PICK mx \in Int, vv \in Int : mx = Max(S) /\ vv = v
    BY <1>6, <1>8
  <2>2. mx >= vv
    BY <1>8, <2>1
  <2>3. QED
    BY <1>7, <2>1, <2>2
<1>10. QED
  BY <1>6, <1>7, <1>8, <1>9 DEF S

(***************************************************************************)
(* ParseGrid.                                                              *)
(***************************************************************************)

(* The cells with a value as far as the data tell, and with the bitmap.    *)
Kept == {j \in Cells(Sub) : /\ Inside(Sub, j)
                            /\ ~IsMissing(Raw(Sub, j))
                            /\ ~(msg.f_miss # 0 /\ NotInTable(Raw(Sub, j)))}
Valued == {j \in Kept : msg.bmap # <<>> => msg.bmap[PointNr(Column(Sub, j), Row(Sub, j))] = 1}

(* What the unpacker hands over.                                           *)
MemInv == /\ iain = [j \in Grid |-> msg.fld[From(j)]]
          /\ msg.bmap # <<>> => ib = [j \in Grid |-> msg.bmap[From(j)]]
          /\ scan \in Int /\ scan \div 16 = 4

LEMMA TruthsAre ==
    ASSUME msg \in Cases
    PROVE  Truths = [j \in Valued |-> Converted(Raw(Sub, j))]
<1>1. \A j : Inside(Sub, j) => PointAt(j) = PointNr(Column(Sub, j), Row(Sub, j))
  BY PointAtIs
<1>2. \A j : HasValue(j) <=> /\ Inside(Sub, j)
                             /\ msg.bmap # <<>> => msg.bmap[PointAt(j)] = 1
                             /\ ~IsMissing(msg.fld[PointAt(j)])
                             /\ ~(msg.f_miss # 0 /\ NotInTable(msg.fld[PointAt(j)]))
  BY Zenon DEF HasValue
<1>3. \A j : Inside(Sub, j) => msg.fld[PointAt(j)] = Raw(Sub, j)
  BY <1>1, Zenon DEF Raw
<1>4. {j \in Cells(Sub) : HasValue(j)} = Valued
  BY <1>1, <1>2, <1>3 DEF Valued, Kept
<1>5. \A j \in Valued : ValueOf(j) = Converted(Raw(Sub, j))
  BY <1>3, Zenon DEF Valued, Kept, ValueOf
<1>6. Truths = [j \in {k \in Cells(Sub) : HasValue(k)} |-> ValueOf(j)]
  BY Zenon DEF Truths
<1>7. QED
  BY <1>4, <1>5, <1>6

(* The value of a cell of the grid is that of its point.                   *)
LEMMA RawAtIs ==
    ASSUME msg \in Cases, Decodable(msg), MemInv, NEW j \in Cells(Sub), Inside(Sub, j)
    PROVE  /\ RawAt(j) = Raw(Sub, j)
           /\ Raw(Sub, j) \in Int
           /\ PointNr(Column(Sub, j), Row(Sub, j)) \in DOMAIN msg.fld
<1> DEFINE x == Column(Sub, j)
           y == Row(Sub, j)
           c == (y - 1) * msg.Nx + x - 1 - 0
<1>1. msg.Nx \in Nat \ {0} /\ msg.Ny \in Nat \ {0} /\ msg.fld \in [Grid -> Int]
  BY MessageType DEF Grid
<1>2. x \in 1 .. msg.Nx /\ y \in 1 .. msg.Ny
  BY DEF Inside
<1>3. Sub[1] \in Int /\ ~(Sub[1] < 1)
  <2>1. CASE msg.sub = <<>>
    <3>1. Sub = <<1, 1, msg.Nx, msg.Ny>>
      BY <2>1, Zenon DEF Sub, f_subGrid
    <3>2. QED
      BY <3>1
  <2>2. CASE msg.sub # <<>>
    <3>1. msg.sub[1] >= 1 /\ Sub = msg.sub
      BY <2>2, Zenon DEF Sub, f_subGrid, Decodable
    <3>2. Sub[1] \in Int
      BY PartType DEF Rectangles
    <3>3. QED
      BY <3>1, <3>2
  <2>3. QED
    BY <2>1, <2>2
<1> HIDE DEF x, y
<1>4. c = (x - 1) + (y - 1) * msg.Nx
  <2>1. x \in Int /\ (y - 1) * msg.Nx \in Int
    BY <1>1, <1>2
  <2>2. QED
    BY <2>1
<1>5. RawAt(j) = At(iain, c)
  BY <1>3, Zenon DEF RawAt, x, y
<1> HIDE DEF c
<1>6. c \in Grid /\ (c % msg.Nx) + 1 = x /\ (c \div msg.Nx) + 1 = y
  <2>1. PICK nx \in Nat \ {0}, ny \in Nat \ {0} : nx = msg.Nx /\ ny = msg.Ny
    BY <1>1
  <2>2. PICK u \in 1 .. nx, v \in 1 .. ny : u = x /\ v = y
    BY <1>2, <2>1
  <2>3. c = (u - 1) + (v - 1) * nx
    BY <1>4, <2>1, <2>2, Zenon
  <2>4. c \in 0 .. nx * ny - 1 /\ (c % nx) + 1 = u /\ (c \div nx) + 1 = v
    BY <2>3, CellOfCoordinates
  <2>5. QED
    BY <2>1, <2>2, <2>4 DEF Grid
<1>7. From(c) = PointNr(x, y) /\ PointNr(x, y) \in Grid
  BY <1>2, <1>6, PointOfCoordinates DEF From
<1>8. At(iain, c) = msg.fld[PointNr(x, y)]
  BY <1>6, <1>7 DEF At, MemInv
<1>9. QED
  BY <1>1, <1>5, <1>7, <1>8 DEF Raw, x, y

(* What is not missing counts as one of the values of the message.         *)
LEMMA ValuesCount ==
    ASSUME msg \in Cases, Decodable(msg), MemInv, NEW j \in Cells(Sub), Inside(Sub, j),
           ~IsMissing(Raw(Sub, j))
    PROVE  Converted(Raw(Sub, j)) \in ValuesIn(msg) /\ Converted(Raw(Sub, j)) \in Int
<1> DEFINE i == PointNr(Column(Sub, j), Row(Sub, j))
<1>1. i \in DOMAIN msg.fld /\ Raw(Sub, j) = msg.fld[i] /\ Raw(Sub, j) \in Int
  BY RawAtIs DEF Raw
<1> HIDE DEF i
<1>2. msg.f_miss # 0 => msg.fld[i] # msg.missPri
  BY <1>1 DEF IsMissing
<1>3. msg.f_miss = 2 => msg.fld[i] # msg.missSec
  BY <1>1 DEF IsMissing
<1>4. Converted(Raw(Sub, j)) = msg.unitM * msg.fld[i] + msg.unitB
  BY <1>1, Zenon DEF Converted
<1>5. msg.unitM * msg.fld[i] + msg.unitB \in ValuesIn(msg)
  BY <1>1, <1>2, <1>3, Zenon DEF ValuesIn
<1>6. msg.unitM * Raw(Sub, j) + msg.unitB \in Int
  BY <1>1, MessageType
<1>7. QED
  BY <1>4, <1>5, <1>6 DEF Converted

ValueAt(j) == Converted(Raw(Sub, j))
ValuesAt(K) == {ValueAt(j) : j \in K}

(* The grid g has the values of K, and missing values elsewhere.           *)
Fills(g, K) == \A j \in Cells(Sub) : IF j \in K THEN g.data[j] = ValueAt(j)
                                     ELSE g.data[j] \in MissingOf(g)
Spans(g, K) == ValuesAt(K) # {} => /\ g.f_maxmin
                                   /\ g.min = Min(ValuesAt(K))
                                   /\ g.max = Max(ValuesAt(K))
Counts(g, K) == g.f_miss # 0 => g.numMiss = Cardinality(Cells(Sub) \ K)
Apart(g, K) == g.f_miss # 0 => \A j \in K : ValueAt(j) \notin MissingOf(g)

LEMMA WhatCountsIsKept ==
    ASSUME msg \in Cases, Decodable(msg), MemInv, NEW j \in Walked
    PROVE  /\ RawAt(j) = Raw(Sub, j) /\ j \in Cells(Sub)
           /\ InRange(RawAt(j)) <=> j \in Kept
           /\ j \in Kept <=> ~IsMissing(RawAt(j)) /\ ~BecomesMissing(RawAt(j))
           /\ j \in Kept => Value(RawAt(j)) = ValueAt(j)
           /\ j \notin Kept => /\ \/ Value(RawAt(j)) = msg.missPri
                                  \/ msg.f_miss = 2 /\ Value(RawAt(j)) = msg.missSec
                               /\ msg.f_miss # 0
                               /\ f_txtType \/ IsMissing(RawAt(j))
<1> DEFINE raw == Raw(Sub, j)
<1>1. j \in Cells(Sub) /\ Inside(Sub, j) /\ RawAt(j) = raw
  BY RawAtIs DEF Walked
<1>2. ~IsMissing(raw) => Converted(raw) \in ValuesIn(msg) /\ Converted(raw) \in Int
  BY <1>1, ValuesCount
<1>3. /\ msg.missPri \in Int
      /\ msg.f_miss # 0 /\ f_txtType => \A v \in ValuesIn(msg) : v < msg.missPri
  BY MessageType DEF Decodable, f_txtType
<1>4. j \in Kept <=> ~IsMissing(raw) /\ ~(msg.f_miss # 0 /\ NotInTable(raw))
  BY <1>1, Zenon DEF Kept
<1>5. ValueAt(j) = Converted(raw)
  BY DEF ValueAt
<1> HIDE DEF raw
<1>6. f_txtType /\ msg.f_miss # 0 /\ ~IsMissing(raw) => Converted(raw) # msg.missPri
  <2>1. SUFFICES ASSUME f_txtType, msg.f_miss # 0, ~IsMissing(raw) PROVE Converted(raw) # msg.missPri
    OBVIOUS
  <2>2. Converted(raw) \in Int /\ Converted(raw) < msg.missPri
    BY <1>2, <1>3, <2>1
  <2>3. QED
    BY <1>3, <2>2
<1>7. j \in Kept <=> ~IsMissing(raw) /\ ~BecomesMissing(raw)
  BY <1>4, Zenon DEF BecomesMissing
<1>8. CASE j \in Kept
  <2>1. Value(raw) = Converted(raw)
    BY <1>7, <1>8, Zenon DEF Value
  <2>2. InRange(raw)
    BY <1>6, <1>7, <1>8, <2>1, Zenon DEF InRange
  <2>3. QED
    BY <1>1, <1>5, <1>7, <1>8, <2>1, <2>2, Zenon DEF raw
<1>9. CASE j \notin Kept /\ IsMissing(raw)
  <2>1. Value(raw) = raw
    BY <1>9, Zenon DEF Value
  <2>2. /\ msg.f_miss # 0
        /\ raw = msg.missPri \/ (msg.f_miss = 2 /\ raw = msg.missSec)
    <3>1. \/ msg.f_miss # 0 /\ raw = msg.missPri
          \/ msg.f_miss = 2 /\ raw = msg.missSec
      BY <1>9, Zenon DEF IsMissing
    <3>2. QED
      BY <3>1
  <2>3. ~InRange(raw)
    BY <1>9, Zenon DEF InRange
  <2>4. QED
    BY <1>1, <1>7, <1>9, <2>1, <2>2, <2>3, Zenon DEF raw
<1>10. CASE j \notin Kept /\ ~IsMissing(raw)
  <2>1. BecomesMissing(raw) /\ msg.f_miss # 0 /\ f_txtType
    BY <1>4, <1>10, Zenon DEF BecomesMissing, NotInTable
  <2>2. Value(raw) = msg.missPri
    BY <1>10, <2>1, Zenon DEF Value
  <2>3. ~InRange(raw)
    BY <1>10, <2>1, <2>2, Zenon DEF InRange
  <2>4. QED
    BY <1>1, <1>7, <1>10, <2>1, <2>2, <2>3, Zenon DEF raw
<1>11. QED
  BY <1>8, <1>9, <1>10

LEMMA FirstWalkIs ==
    ASSUME msg \in Cases, Decodable(msg), MemInv
    PROVE  LET g == FirstWalk
           IN  /\ g.f_miss = msg.f_miss /\ g.missPri = msg.missPri /\ g.missSec = msg.missSec
               /\ g.f_maxmin = (ValuesAt(Kept) # {})
               /\ DOMAIN g.data = Cells(Sub)
               /\ g.table = TableAfter
               /\ Fills(g, Kept) /\ Spans(g, Kept) /\ Counts(g, Kept)
<1> DEFINE range == {Value(RawAt(j)) : j \in {k \in Walked : InRange(RawAt(k))}}
           value(j) == IF j \in Walked THEN Value(RawAt(j))
                       ELSE IF msg.f_miss = 0 THEN Undef ELSE msg.missPri
           data == [j \in Cells(Sub) |-> value(j)]
           lo == IF range = {} THEN stray ELSE Min(range)
           hi == IF range = {} THEN stray ELSE Max(range)
           has == range # {}
           g == FirstWalk
<1>1. g = [data |-> data, f_miss |-> msg.f_miss, missPri |-> msg.missPri,
           missSec |-> msg.missSec, f_maxmin |-> has, min |-> lo, max |-> hi,
           numMiss |-> MissCnt, table |-> TableAfter]
  BY Zenon DEF FirstWalk
<1>2. Walked = {j \in Cells(Sub) : Inside(Sub, j)} /\ Kept \subseteq Walked
  BY DEF Walked, Kept
<1>3. range = ValuesAt(Kept)
  <2>1. {k \in Walked : InRange(RawAt(k))} = Kept
    BY <1>2, WhatCountsIsKept, Zenon
  <2>2. \A j \in Kept : Value(RawAt(j)) = ValueAt(j)
    BY <1>2, WhatCountsIsKept, Zenon
  <2>3. range = {Value(RawAt(j)) : j \in Kept}
    BY <2>1, Zenon
  <2> HIDE DEF range
  <2>4. QED
    BY <2>2, <2>3 DEF ValuesAt
<1>4. msg.f_miss # 0 => MissCnt = Cardinality(Cells(Sub) \ Kept)
  <2> DEFINE lost == {j \in Cells(Sub) : \/ j \notin Walked
                                         \/ IsMissing(RawAt(j))
                                         \/ BecomesMissing(RawAt(j))}
  <2>1. lost = Cells(Sub) \ Kept
    BY <1>2, WhatCountsIsKept, Zenon
  <2>2. msg.f_miss # 0 => MissCnt = Cardinality(lost)
    BY Zenon DEF MissCnt
  <2> HIDE DEF lost
  <2>3. QED
    BY <2>1, <2>2, Zenon
<1> HIDE DEF range, data, lo, hi, g, has
<1>5. /\ g.f_miss = msg.f_miss /\ g.missPri = msg.missPri /\ g.missSec = msg.missSec
      /\ g.f_maxmin = has /\ g.data = data /\ g.min = lo /\ g.max = hi
      /\ g.numMiss = MissCnt /\ g.table = TableAfter
  BY <1>1
<1>6. Fills(g, Kept)
  <2>1. SUFFICES ASSUME NEW j \in Cells(Sub)
                 PROVE  IF j \in Kept THEN g.data[j] = ValueAt(j) ELSE g.data[j] \in MissingOf(g)
    BY Zenon DEF Fills
  <2>2. g.data[j] = value(j)
    BY <1>5, <2>1 DEF data
  <2>3. msg.f_miss \in 0 .. 2
    BY MessageType
  <2>4. CASE j \in Kept
    <3>1. value(j) = ValueAt(j)
      BY <1>2, <2>4, WhatCountsIsKept, Zenon
    <3> HIDE DEF value
    <3>2. QED
      BY <2>2, <2>4, <3>1
  <2>5. CASE j \notin Kept /\ j \in Walked
    <3>1. /\ value(j) = msg.missPri \/ (msg.f_miss = 2 /\ value(j) = msg.missSec)
          /\ msg.f_miss # 0
      BY <2>5, WhatCountsIsKept, Zenon
    <3> HIDE DEF value
    <3>2. QED
      BY <1>5, <2>2, <2>3, <2>5, <3>1 DEF MissingOf
  <2>6. CASE j \notin Walked
    <3>1. value(j) = IF msg.f_miss = 0 THEN Undef ELSE msg.missPri
      BY <2>6
    <3> HIDE DEF value
    <3>2. QED
      BY <1>2, <1>5, <2>2, <2>3, <2>6, <3>1 DEF MissingOf
  <2>7. QED
    BY <1>2, <2>4, <2>5, <2>6
<1>7. Spans(g, Kept)
  BY <1>3, <1>5 DEF Spans, lo, hi, has
<1>8. Counts(g, Kept)
  BY <1>4, <1>5 DEF Counts
<1>9. g.f_maxmin = (ValuesAt(Kept) # {})
  BY <1>3, <1>5 DEF has
<1>10. DOMAIN g.data = Cells(Sub)
  BY <1>5 DEF data
<1>11. QED
  BY <1>5, <1>6, <1>7, <1>8, <1>9, <1>10 DEF g

LEMMA ValuesAreBounded ==
    ASSUME msg \in Cases, Decodable(msg), MemInv, ValuesAt(Kept) # {}
    PROVE  /\ Min(ValuesAt(Kept)) \in Int /\ Max(ValuesAt(Kept)) \in ValuesAt(Kept)
           /\ ValuesAt(Kept) \subseteq Int /\ ValuesAt(Kept) \subseteq ValuesIn(msg)
           /\ \A v \in ValuesAt(Kept) : Min(ValuesAt(Kept)) <= v /\ v <= Max(ValuesAt(Kept))
<1> DEFINE N == Width(Sub) * Height(Sub)
           f == [j \in Kept |-> ValueAt(j)]
           S == {f[j] : j \in Kept}
<1>1. N \in Nat /\ Kept \in SUBSET (0 .. N - 1)
  BY PartType DEF Kept, Cells
<1>2. ASSUME NEW j \in Kept PROVE ValueAt(j) \in Int /\ ValueAt(j) \in ValuesIn(msg)
  BY ValuesCount DEF Kept, ValueAt
<1>3. f \in [Kept -> Int] /\ Kept # {}
  BY <1>2 DEF ValuesAt
<1>4. S = ValuesAt(Kept)
  BY DEF ValuesAt
<1> HIDE DEF N, f
<1>5. /\ Min(S) \in S /\ Max(S) \in S /\ S \subseteq Int
      /\ \A v \in S : Min(S) <= v /\ v <= Max(S)
  BY <1>1, <1>3, BoundsOfValues, Zenon
<1>6. ValuesAt(Kept) \subseteq ValuesIn(msg)
  BY <1>2 DEF ValuesAt
<1> HIDE DEF S
<1>7. QED
  BY <1>4, <1>5, <1>6

(* f_readjust: no value is left that could be taken for a missing one.     *)
LEMMA ReadjustedIs ==
    ASSUME msg \in Cases, Decodable(msg), MemInv
    PROVE  LET g == Readjusted(FirstWalk)
           IN  /\ g.f_miss = msg.f_miss
               /\ g.f_maxmin = (ValuesAt(Kept) # {})
               /\ DOMAIN g.data = Cells(Sub)
               /\ g.table = TableAfter
               /\ Fills(g, Kept) /\ Spans(g, Kept) /\ Counts(g, Kept) /\ Apart(g, Kept)
<1> DEFINE w == FirstWalk
           g == Readjusted(w)
           R == ValuesAt(Kept)
           lo == Min(R)
           hi == Max(R)
           movesPri == w.f_miss # 0 /\ Holds(w, w.missPri)
           movesSec == w.f_miss = 2 /\ Holds(w, w.missSec)
           pri == IF movesPri THEN w.max + 1 ELSE w.missPri
           sec == IF movesSec THEN w.max + 2 ELSE w.missSec
           lost == {i \in DOMAIN iain : IsMissing(iain[i])}
           moved == [i \in lost |-> IF iain[i] = w.missPri THEN pri ELSE sec]
           data == Scatter(w.data, moved, PlaceOf)
<1> HIDE DEF w
<1>1. /\ w.f_miss = msg.f_miss /\ w.missPri = msg.missPri /\ w.missSec = msg.missSec
      /\ w.f_maxmin = (R # {})
      /\ DOMAIN w.data = Cells(Sub)
      /\ w.table = TableAfter
      /\ Fills(w, Kept) /\ Spans(w, Kept) /\ Counts(w, Kept)
  BY FirstWalkIs DEF w
<1>2. msg.f_miss \in 0 .. 2 /\ msg.missPri \in Int /\ msg.missSec \in Int
  BY MessageType
<1>3. R # {} => /\ w.f_maxmin /\ w.min = lo /\ w.max = hi
                /\ lo \in Int /\ hi \in R /\ R \subseteq Int /\ R \subseteq ValuesIn(msg)
                /\ \A v \in R : lo <= v /\ v <= hi
  BY <1>1, ValuesAreBounded DEF Spans
<1>4. \A j \in Kept : ValueAt(j) \in R
  BY DEF ValuesAt
<1>5. g = IF movesPri \/ movesSec
          THEN [data |-> data, f_miss |-> w.f_miss, missPri |-> pri, missSec |-> sec,
                f_maxmin |-> w.f_maxmin, min |-> w.min, max |-> w.max,
                numMiss |-> w.numMiss, table |-> w.table]
          ELSE w
  BY Zenon DEF Readjusted
<1> HIDE DEF R
<1>6. CASE ~(movesPri \/ movesSec)
  <2>1. g = w
    BY <1>5, <1>6, Zenon
  <2>2. ASSUME w.f_miss # 0, NEW j \in Kept PROVE ValueAt(j) \notin MissingOf(w)
    <3>1. PICK v \in Int, u \in Int, t \in Int : v = ValueAt(j) /\ u = lo /\ t = hi /\ u <= v /\ v <= t
      BY <1>3, <1>4
    <3>2. R # {} /\ w.f_maxmin /\ w.min = u /\ w.max = t
      BY <1>3, <1>4, <3>1
    <3>3. ~(u <= w.missPri /\ w.missPri <= t)
      BY <1>6, <2>2, <3>2 DEF Holds
    <3>4. w.f_miss = 2 => ~(u <= w.missSec /\ w.missSec <= t)
      BY <1>6, <3>2 DEF Holds
    <3>5. QED
      BY <1>1, <1>2, <2>2, <3>1, <3>3, <3>4 DEF MissingOf
  <2>3. Apart(w, Kept)
    BY <2>2 DEF Apart
  <2>4. QED
    BY <1>1, <2>1, <2>3 DEF w, R
<1>7. CASE movesPri \/ movesSec
  <2>1. msg.f_miss # 0 /\ R # {}
    <3>1. w.f_maxmin
      BY <1>7, Zenon DEF Holds
    <3>2. R # {}
      BY <1>1, <3>1, Zenon
    <3>3. QED
      BY <1>1, <1>2, <1>7, <3>2
  <2>2. PICK u \in Int, t \in Int : u = lo /\ t = hi /\ w.min = u /\ w.max = t
    BY <1>3, <2>1
  <2>3. msg.sub = <<>> /\ ~f_txtType
    <3>1. SUFFICES ASSUME msg.sub # <<>> \/ f_txtType PROVE FALSE
      OBVIOUS
    <3>2. hi \in ValuesIn(msg)
      BY <1>3, <2>1
    <3>3. t < msg.missPri /\ (msg.f_miss = 2 => t < msg.missSec)
      BY <2>1, <2>2, <3>1, <3>2 DEF Decodable, f_txtType
    <3>4. ~movesPri /\ ~movesSec
      BY <1>1, <1>2, <2>2, <3>3 DEF Holds
    <3>5. QED
      BY <1>7, <3>4
  <2>4. Cells(Sub) = Grid /\ \A j \in Grid : Inside(Sub, j) /\ Raw(Sub, j) = iain[j]
    BY <2>3, WholeGrid DEF Raw, MemInv
  <2>5. DOMAIN iain = Grid
    BY DEF MemInv
  <2>6. \A j \in Grid : j \in Kept <=> j \notin lost
    BY <2>3, <2>4, <2>5 DEF Kept, NotInTable
  <2> DEFINE W(j) == {i \in lost : PlaceOf(i) = j}
  <2>7. data = [j \in Grid |-> IF W(j) = {} THEN w.data[j] ELSE moved[Max(W(j))]]
    <3>1. DOMAIN moved = lost
      OBVIOUS
    <3> HIDE DEF moved, lost
    <3>2. data = [j \in DOMAIN w.data |->
                    IF {i \in DOMAIN moved : PlaceOf(i) = j} = {} THEN w.data[j]
                    ELSE moved[Max({i \in DOMAIN moved : PlaceOf(i) = j})]]
      BY DEF Scatter
    <3> HIDE DEF data
    <3>3. QED
      BY <1>1, <2>4, <3>1, <3>2, Zenon
  <2>8. ASSUME NEW j \in Grid PROVE data[j] = IF j \in lost THEN moved[j] ELSE w.data[j]
    <3>1. j \in Int /\ \A i \in Grid : PlaceOf(i) = i
      BY PlaceOfIs, MessageType DEF Grid, MemInv
    <3>2. W(j) = IF j \in lost THEN {j} ELSE {}
      BY <2>5, <3>1
    <3> HIDE DEF W, lost, moved
    <3>3. Max({j}) = j
      BY <3>1 DEF Max
    <3>4. QED
      BY <2>7, <2>8, <3>2, <3>3
  <2>9. /\ g.f_miss = msg.f_miss /\ g.f_maxmin = w.f_maxmin /\ g.data = data
        /\ g.missPri = pri /\ g.missSec = sec /\ g.min = w.min /\ g.max = w.max
        /\ g.numMiss = w.numMiss /\ g.table = w.table
    <3> HIDE DEF g, data, pri, sec, movesPri, movesSec
    <3>1. QED
      BY <1>1, <1>5, <1>7
  <2>10. Fills(g, Kept)
    <3>1. SUFFICES ASSUME NEW j \in Grid
                   PROVE  IF j \in Kept THEN g.data[j] = ValueAt(j) ELSE g.data[j] \in MissingOf(g)
      BY <2>4, Zenon DEF Fills
    <3>2. CASE j \in Kept
      <4>1. w.data[j] = ValueAt(j)
        BY <1>1, <2>4, <3>1, <3>2 DEF Fills
      <4>2. g.data[j] = w.data[j]
        BY <2>6, <2>8, <2>9, <3>1, <3>2
      <4> HIDE DEF g
      <4>3. QED
        BY <3>2, <4>1, <4>2
    <3>3. CASE j \notin Kept
      <4>1. j \in lost /\ g.data[j] = moved[j]
        BY <2>6, <2>8, <2>9, <3>1, <3>3
      <4>2. moved[j] = IF iain[j] = msg.missPri THEN pri ELSE sec
        BY <1>1, <4>1
      <4>3. iain[j] = msg.missPri \/ msg.f_miss = 2
        BY <4>1 DEF IsMissing
      <4> HIDE DEF g, pri, sec, moved
      <4>4. QED
        BY <1>2, <2>1, <2>9, <3>3, <4>1, <4>2, <4>3 DEF MissingOf
    <3>4. QED
      BY <3>2, <3>3
  <2>11. Apart(g, Kept)
    <3>1. SUFFICES ASSUME NEW j \in Kept PROVE ValueAt(j) \notin MissingOf(g)
      BY DEF Apart
    <3>2. PICK v \in Int : v = ValueAt(j) /\ u <= v /\ v <= t
      BY <1>3, <1>4, <2>1, <2>2
    <3>3. v # pri
      BY <1>1, <1>2, <1>3, <2>1, <2>2, <3>2 DEF Holds
    <3>4. msg.f_miss = 2 => v # sec
      BY <1>1, <1>2, <1>3, <2>1, <2>2, <3>2 DEF Holds
    <3> HIDE DEF g, pri, sec
    <3>5. QED
      BY <1>2, <2>1, <2>9, <3>2, <3>3, <3>4 DEF MissingOf
  <2> HIDE DEF g
  <2>12. Spans(g, Kept) /\ Counts(g, Kept)
    BY <1>1, <2>9 DEF Spans, Counts
  <2>13. DOMAIN data = Cells(Sub)
    BY <2>4, <2>7
  <2> HIDE DEF data
  <2>14. QED
    BY <1>1, <2>9, <2>10, <2>11, <2>12, <2>13 DEF g, w, R
<1>8. QED
  BY <1>6, <1>7

(* The whole of ParseGrid, with the bitmap.                                *)
LEMMA ParsedIs ==
    ASSUME msg \in Cases, Decodable(msg), MemInv
    PROVE  LET g == ParseGrid
           IN  /\ g.table = TableAfter /\ g.f_miss \in 0 .. 2
               /\ Fills(g, Valued) /\ Spans(g, Valued) /\ Counts(g, Valued) /\ Apart(g, Valued)
<1> DEFINE w == Readjusted(FirstWalk)
           g == Masked(w)
           off == {i \in DOMAIN ib : ib[i] # 1}
           range == {At(w.data, PlaceOf(i)) : i \in DOMAIN ib \ off}
           mask == [i \in off |-> Undef]
           data == Scatter(w.data, mask, PlaceOf)
           lo == IF range = {} THEN Undef ELSE Min(range)
           hi == IF range = {} THEN Undef ELSE Max(range)
<1> HIDE DEF w
<1>1. /\ w.f_miss = msg.f_miss
      /\ DOMAIN w.data = Cells(Sub)
      /\ w.table = TableAfter
      /\ Fills(w, Kept) /\ Spans(w, Kept) /\ Counts(w, Kept) /\ Apart(w, Kept)
  BY ReadjustedIs DEF w
<1>2. ParseGrid = g /\ msg.f_miss \in 0 .. 2
  BY MessageType DEF ParseGrid, w
<1>3. CASE msg.bmap = <<>>
  <2>1. g = w
    BY <1>3, Zenon DEF Masked
  <2>2. Valued = Kept
    BY <1>3 DEF Valued
  <2> HIDE DEF g
  <2>3. QED
    BY <1>1, <1>2, <2>1, <2>2, Zenon
<1>4. CASE msg.bmap # <<>>
  <2>1. msg.f_miss = 0 /\ msg.sub = <<>> /\ Undef \notin ValuesIn(msg)
    BY <1>4 DEF Decodable
  <2>2. Cells(Sub) = Grid /\ \A j \in Grid : Inside(Sub, j) /\ PointNr(Column(Sub, j), Row(Sub, j)) = From(j)
    BY <2>1, WholeGrid
  <2>3. Kept = Grid
    BY <2>1, <2>2 DEF Kept, IsMissing
  <2>4. ib = [j \in Grid |-> msg.bmap[From(j)]]
    BY <1>4 DEF MemInv
  <2>5. off = Grid \ Valued /\ Valued \subseteq Grid /\ DOMAIN ib \ off = Valued
    BY <1>4, <2>2, <2>3, <2>4 DEF Valued
  <2>6. \A i \in Grid : PlaceOf(i) = i /\ i \in Int
    BY PlaceOfIs, MessageType DEF Grid, MemInv
  <2>7. ASSUME NEW j \in Grid PROVE data[j] = IF j \in off THEN Undef ELSE w.data[j]
    <3> DEFINE W == {i \in off : PlaceOf(i) = j}
    <3>1. DOMAIN mask = off
      OBVIOUS
    <3> HIDE DEF mask, off
    <3>2. data = [k \in DOMAIN w.data |->
                    IF {i \in DOMAIN mask : PlaceOf(i) = k} = {} THEN w.data[k]
                    ELSE mask[Max({i \in DOMAIN mask : PlaceOf(i) = k})]]
      BY DEF Scatter
    <3> HIDE DEF data
    <3>3. data[j] = IF W = {} THEN w.data[j] ELSE mask[Max(W)]
      BY <1>1, <2>2, <2>7, <3>1, <3>2, Zenon
    <3>4. W = IF j \in off THEN {j} ELSE {}
      BY <2>5, <2>6
    <3> HIDE DEF W
    <3>5. j \in Int => Max({j}) = j
      BY DEF Max
    <3>6. j \in off => mask[j] = Undef
      BY DEF mask
    <3>7. QED
      BY <2>6, <3>3, <3>4, <3>5, <3>6
  <2>8. range = ValuesAt(Valued)
    <3>1. \A i \in Valued : At(w.data, PlaceOf(i)) = ValueAt(i)
      BY <1>1, <2>2, <2>3, <2>5, <2>6 DEF At, Fills
    <3>2. range = {At(w.data, PlaceOf(i)) : i \in Valued}
      BY <2>5, Zenon
    <3> HIDE DEF range
    <3>3. QED
      BY <3>1, <3>2 DEF ValuesAt
  <2>9. g = [data |-> data, f_miss |-> 1, missPri |-> Undef, missSec |-> w.missSec,
             f_maxmin |-> TRUE, min |-> lo, max |-> hi, numMiss |-> Cardinality(off),
             table |-> w.table]
    <3>1. ~(w.f_miss # 0)
      BY <1>1, <2>1
    <3>2. QED
      BY <1>4, <3>1, Zenon DEF Masked
  <2> HIDE DEF off, range, mask, data, lo, hi, g
  <2>10. /\ g.f_miss = 1 /\ g.missPri = Undef /\ g.f_maxmin /\ g.min = lo /\ g.max = hi
         /\ g.numMiss = Cardinality(off) /\ g.data = data /\ g.table = w.table
         /\ MissingOf(g) = {Undef}
    BY <2>9 DEF MissingOf
  <2>11. Fills(g, Valued)
    <3>1. \A j \in Grid : w.data[j] = ValueAt(j)
      BY <1>1, <2>2, <2>3 DEF Fills
    <3>2. QED
      BY <2>2, <2>5, <2>7, <2>10, <3>1 DEF Fills
  <2>12. Spans(g, Valued)
    BY <2>8, <2>10 DEF Spans, lo, hi
  <2>13. Counts(g, Valued)
    BY <2>2, <2>5, <2>10 DEF Counts
  <2>14. Apart(g, Valued)
    <3>1. \A j \in Kept : ValueAt(j) \in ValuesIn(msg)
      BY ValuesCount DEF Kept, ValueAt
    <3>2. QED
      BY <2>1, <2>3, <2>5, <2>10, <3>1 DEF Apart
  <2>15. QED
    BY <1>1, <1>2, <2>10, <2>11, <2>12, <2>13, <2>14
<1>5. QED
  BY <1>3, <1>4

(* The numbers of the strings.                                             *)
LEMMA NumberedIs ==
    ASSUME msg \in Cases, Decodable(msg), MemInv
    PROVE  LET g == Numbered(ParseGrid)
               inUse == {t \in DOMAIN msg.table : \E j \in Valued : ValueAt(j) = t}
           IN  /\ g.f_miss \in 0 .. 2
               /\ Fills(g, Valued) /\ Spans(g, Valued) /\ Counts(g, Valued) /\ Apart(g, Valued)
               /\ \A t \in DOMAIN msg.table :
                     g.validIndex[t] = IF t \in inUse THEN Cardinality({s \in inUse : s < t})
                                       ELSE -1
<1> DEFINE w == ParseGrid
           g == Numbered(w)
           inUse == {t \in DOMAIN msg.table : \E j \in Valued : ValueAt(j) = t}
           used(t) == w.table[t] >= 2
           D == DOMAIN msg.table
           table == [t \in DOMAIN w.table |-> IF w.table[t] = 3 THEN 0 ELSE w.table[t]]
           index == [t \in DOMAIN w.table |->
                       IF used(t) THEN Cardinality({s \in 0 .. t - 1 : used(s)}) ELSE -1]
<1> HIDE DEF w
<1>1. /\ w.table = TableAfter /\ w.f_miss \in 0 .. 2
      /\ Fills(w, Valued) /\ Spans(w, Valued) /\ Counts(w, Valued) /\ Apart(w, Valued)
  BY ParsedIs DEF w
<1>2. g = [data |-> w.data, f_miss |-> w.f_miss, missPri |-> w.missPri,
           missSec |-> w.missSec, f_maxmin |-> w.f_maxmin, min |-> w.min, max |-> w.max,
           numMiss |-> w.numMiss, table |-> table, validIndex |-> index]
  BY Zenon DEF Numbered
<1> HIDE DEF g, table, index
<1>3. /\ g.data = w.data /\ g.f_miss = w.f_miss /\ g.missPri = w.missPri
      /\ g.missSec = w.missSec /\ g.f_maxmin = w.f_maxmin /\ g.min = w.min
      /\ g.max = w.max /\ g.numMiss = w.numMiss /\ g.validIndex = index
  BY <1>2
<1>4. MissingOf(g) = MissingOf(w)
  BY <1>3, Zenon DEF MissingOf
<1>5. Fills(g, Valued) /\ Spans(g, Valued) /\ Counts(g, Valued) /\ Apart(g, Valued)
  <2>1. Fills(g, Valued)
    BY <1>1, <1>3, <1>4, Zenon DEF Fills
  <2>2. Spans(g, Valued)
    BY <1>1, <1>3, Zenon DEF Spans
  <2>3. Counts(g, Valued)
    BY <1>1, <1>3, Zenon DEF Counts
  <2>4. Apart(g, Valued)
    BY <1>1, <1>3, <1>4, Zenon DEF Apart
  <2>5. QED
    BY <2>1, <2>2, <2>3, <2>4
<1>6. DOMAIN w.table = D
  BY <1>1 DEF TableAfter
<1>7. PICK n \in Nat : D = 0 .. n - 1 /\ msg.table \in [0 .. n - 1 -> {0, 1}]
  <2>1. /\ IsFiniteSet(D)
        /\ msg.table \in [0 .. Cardinality(D) - 1 -> {0, 1}]
    BY GridAssumption
  <2>2. Cardinality(D) \in Nat
    BY <2>1, FS_CardinalityType
  <2>3. D = 0 .. Cardinality(D) - 1
    BY <2>1
  <2> HIDE DEF D
  <2>4. QED
    BY <2>1, <2>2, <2>3
<1>8. D # {} => msg.bmap = <<>> /\ Valued = Kept
  <2>1. D # {} => msg.table # <<>>
    OBVIOUS
  <2>2. QED
    BY <2>1 DEF Decodable, Valued
<1>9. ASSUME NEW t \in D PROVE used(t) <=> t \in inUse
  <2>1. \A j \in Walked : /\ RawAt(j) = Raw(Sub, j)
                          /\ j \in Kept <=> ~IsMissing(RawAt(j)) /\ ~BecomesMissing(RawAt(j))
    BY WhatCountsIsKept
  <2>2. Kept \subseteq Walked
    BY DEF Kept, Walked
  <2>3. t \in UsedStrings <=> \E j \in Walked : ~IsMissing(RawAt(j)) /\ Converted(RawAt(j)) = t
    BY Zenon DEF UsedStrings
  <2>4. msg.table[t] \in {0, 1} /\ f_txtType
    BY <1>7 DEF f_txtType
  <2>5. w.table[t] = IF t \notin UsedStrings THEN msg.table[t]
                     ELSE IF msg.table[t] = 1 THEN 2 ELSE IF msg.f_miss = 0 THEN 3 ELSE 0
    BY <1>1, <1>9 DEF TableAfter
  <2>6. used(t) <=> t \in UsedStrings /\ (msg.table[t] = 1 \/ msg.f_miss = 0)
    BY <2>4, <2>5
  <2>7. ASSUME NEW j \in Walked, ~IsMissing(RawAt(j)), Converted(RawAt(j)) = t
        PROVE  BecomesMissing(RawAt(j)) <=> ~(msg.table[t] = 1 \/ msg.f_miss = 0)
    BY <1>9, <2>4, <2>7 DEF BecomesMissing, NotInTable
  <2>8. t \in inUse <=> \E j \in Kept : ValueAt(j) = t
    BY <1>8, <1>9, Zenon
  <2>9. ASSUME NEW j \in Kept, ValueAt(j) = t PROVE used(t)
    BY <2>1, <2>2, <2>3, <2>6, <2>7, <2>9 DEF ValueAt
  <2>10. ASSUME used(t) PROVE \E j \in Kept : ValueAt(j) = t
    <3>1. PICK j \in Walked : ~IsMissing(RawAt(j)) /\ Converted(RawAt(j)) = t
      BY <2>3, <2>6, <2>10
    <3>2. ~BecomesMissing(RawAt(j))
      BY <2>6, <2>7, <2>10, <3>1
    <3>3. QED
      BY <2>1, <3>1, <3>2 DEF ValueAt
  <2>11. QED
    BY <2>8, <2>9, <2>10
<1> HIDE DEF used
<1>10. ASSUME NEW t \in D
       PROVE  g.validIndex[t] = IF t \in inUse THEN Cardinality({s \in inUse : s < t}) ELSE -1
  <2>1. g.validIndex[t] = IF used(t) THEN Cardinality({s \in 0 .. t - 1 : used(s)}) ELSE -1
    BY <1>3, <1>6, <1>10 DEF index
  <2>2. {s \in 0 .. t - 1 : used(s)} = {s \in inUse : s < t}
    <3>1. \A s : s \in 0 .. t - 1 <=> s \in D /\ s < t
      BY <1>7, <1>10
    <3>2. inUse \subseteq D
      OBVIOUS
    <3> HIDE DEF inUse, D
    <3>3. QED
      BY <1>9, <3>1, <3>2
  <2> HIDE DEF inUse, D
  <2>3. QED
    BY <1>9, <1>10, <2>1, <2>2
<1>11. QED
  BY <1>1, <1>3, <1>5, <1>10 DEF g, w

(***************************************************************************)
(* The file.                                                               *)
(***************************************************************************)

(* Rounding keeps what has no more decimals than are stored: 9999 does not *)
(* change on its way through the file.                                     *)
LEMMA RoundKeeps ==
    ASSUME NEW v \in Int, v % Ulp = 0
    PROVE  Round(v) = v
<1>1. Ulp \in Nat \ {0} /\ 2 * Ulp \in Nat \ {0} /\ 2 * v + Ulp \in Int
  BY GridAssumption
<1> DEFINE k == v \div Ulp
           q == (2 * v + Ulp) \div (2 * Ulp)
           r == (2 * v + Ulp) % (2 * Ulp)
<1>2. k \in Int /\ v = k * Ulp
  <2>1. k \in Int /\ v = k * Ulp + (v % Ulp)
    BY <1>1, DivMod
  <2>2. k * Ulp \in Int
    BY <1>1, <2>1
  <2> HIDE DEF k
  <2>3. QED
    BY <2>1, <2>2
<1>3. q \in Int /\ r \in 0 .. 2 * Ulp - 1 /\ 2 * v + Ulp = q * (2 * Ulp) + r
  BY <1>1, DivMod
<1> HIDE DEF k, q, r
<1>4. Ulp \in 0 .. 2 * Ulp - 1
  BY <1>1
<1>5. 2 * v + Ulp = k * (2 * Ulp) + Ulp
  <2>1. k * (2 * Ulp) = 2 * (k * Ulp)
    BY <1>1, <1>2
  <2>2. QED
    BY <1>1, <1>2, <2>1
<1>6. q = k
  BY <1>1, <1>2, <1>3, <1>4, <1>5, QuotientIsUnique
<1>7. Round(v) = q * Ulp
  BY Zenon DEF Round, q
<1>8. QED
  BY <1>2, <1>6, <1>7

(* Where the file has the cells of the grid.                               *)
FileInv == \A x \in 1 .. GridNx, y \in 1 .. GridNy :
              /\ FileRow(y) * GridNx + x - 1 \in DOMAIN file
              /\ file[FileRow(y) * GridNx + x - 1] = Stored(grid, grid.data[CellAt(x, y)])

ValuesInv ==
    /\ msg \in Cases /\ stray \in Int
    /\ truth = [j \in Valued |-> ValueAt(j)]
    /\ pc \in {"unpack", "parse", "refused", "decoded", "stored"}
    /\ pc # "unpack" => MemInv
    /\ DecodesInPlace /\ MissingIsApart /\ StatisticsAreExact /\ NumbersStringsInUse
    /\ Decoded => grid.f_miss \in 0 .. 2
    /\ pc = "stored" => FileInv
    /\ pc # "stored" => answer = NoAnswer
    /\ ReadsBackWhatWasDecoded

(* What depends on the message alone stays with it.                        *)
LEMMA SameMessage ==
    ASSUME msg' = msg
    PROVE  /\ Sub' = Sub /\ Grid' = Grid /\ GridNx' = GridNx /\ GridNy' = GridNy
           /\ Valued' = Valued /\ \A j : ValueAt(j)' = ValueAt(j)
           /\ \A j : From(j)' = From(j)
<1>1. Sub' = Sub /\ Grid' = Grid
  BY DEF Sub, f_subGrid, Grid
<1>2. GridNx' = GridNx /\ GridNy' = GridNy
  BY <1>1 DEF GridNx, GridNy
<1>3. \A x, y : PointNr(x, y)' = PointNr(x, y)
  BY DEF PointNr
<1>4. \A j : From(j)' = From(j)
  BY <1>3 DEF From
<1>5. \A j : Raw(Sub, j)' = Raw(Sub, j)
  BY <1>1, <1>3 DEF Raw
<1>6. \A v : (IsMissing(v)' <=> IsMissing(v)) /\ Converted(v)' = Converted(v)
  BY DEF IsMissing, Converted
<1>7. \A v : NotInTable(v)' <=> NotInTable(v)
  BY <1>6 DEF NotInTable, f_txtType
<1>8. \A j : ValueAt(j)' = ValueAt(j)
  BY <1>5, <1>6 DEF ValueAt
<1>9. Kept' = Kept
  BY <1>1, <1>5, <1>6, <1>7 DEF Kept, Inside
<1>10. Valued' = Valued
  BY <1>1, <1>3, <1>9 DEF Valued
<1>11. QED
  BY <1>1, <1>2, <1>4, <1>8, <1>10

(* What the file has for a cell, when it says which values are missing.    *)
LEMMA FileHolds ==
    ASSUME ValuesInv, pc = "stored", UsesUndef, NEW x \in 1 .. GridNx, NEW y \in 1 .. GridNy
    PROVE  CellInFile(x, y) = FileTruth(CellAt(x, y))
<1> DEFINE j == CellAt(x, y)
<1>1. GridNx \in Nat \ {0} /\ GridNy \in Nat \ {0} /\ Cells(Sub) = 0 .. GridNx * GridNy - 1
  BY PartType DEF GridNx, GridNy, Cells, ValuesInv
<1>2. j \in Cells(Sub)
  <2>1. j = (x - 1) + (y - 1) * GridNx
    BY DEF CellAt
  <2> HIDE DEF j
  <2>2. QED
    BY <1>1, <2>1, CellOfCoordinates
<1> HIDE DEF j
<1>3. CellInFile(x, y) = Stored(grid, grid.data[j])
  BY DEF ValuesInv, FileInv, CellInFile, At, j
<1>4. Round(Undef) = Undef
  BY RoundKeeps, GridAssumption
<1>5. IF j \in WithValue THEN grid.data[j] = truth[j] ELSE grid.data[j] \in MissingValues
  BY <1>2 DEF ValuesInv, DecodesInPlace, Decoded
<1>6. grid.f_miss # 0 => Round(grid.missPri) = Undef
  BY DEF UsesUndef
<1>7. CASE j \in WithValue
  <2>1. ~(grid.f_miss = 2 /\ truth[j] = grid.missSec)
    BY <1>7 DEF ValuesInv, MissingIsApart, Decoded, MissingValues, MissingOf
  <2>2. QED
    BY <1>3, <1>5, <1>7, <2>1 DEF Stored, FileTruth, j
<1>8. CASE j \notin WithValue
  <2>1. Stored(grid, grid.data[j]) = Undef
    <3>1. grid.f_miss \in 0 .. 2
      BY DEF ValuesInv, Decoded
    <3>2. grid.data[j] \in MissingOf(grid)
      BY <1>5, <1>8 DEF MissingValues
    <3>3. CASE grid.f_miss = 0
      BY <1>4, <3>2, <3>3 DEF Stored, MissingOf
    <3>4. CASE grid.f_miss = 1
      BY <1>6, <3>2, <3>4 DEF Stored, MissingOf
    <3>5. CASE grid.f_miss = 2
      BY <1>6, <3>2, <3>5 DEF Stored, MissingOf
    <3>6. QED
      BY <3>1, <3>3, <3>4, <3>5
  <2>2. QED
    BY <1>3, <1>8, <2>1 DEF FileTruth, j
<1>9. QED
  BY <1>7, <1>8

(* A row of the file is written where it is looked for.                    *)
LEMMA StoreGives ==
    ASSUME msg \in Cases, NEW s, NEW x \in 1 .. GridNx, NEW y \in 1 .. GridNy
    PROVE  LET k == SourceRow(s, y - 1) * GridNx + x - 1
           IN  /\ k \in Cells(Sub)
               /\ SourceRow(s, k \div GridNx) * GridNx + (k % GridNx) = CellAt(x, y)
<1> DEFINE n == GridNx
           m == GridNy
           k0 == SourceRow(s, y - 1) * n + x - 1
<1>1. n \in Nat \ {0} /\ m \in Nat \ {0} /\ Cells(Sub) = 0 .. n * m - 1
  BY PartType DEF GridNx, GridNy, Cells
<1>2. PICK z \in 1 .. m : SourceRow(s, y - 1) = z - 1 /\ SourceRow(s, z - 1) = y - 1
  <2>1. SourceRow(s, y - 1) + 1 \in 1 .. m
    BY <1>1 DEF SourceRow
  <2>2. SourceRow(s, (SourceRow(s, y - 1) + 1) - 1) = y - 1
    BY <1>1 DEF SourceRow
  <2>3. SourceRow(s, y - 1) = (SourceRow(s, y - 1) + 1) - 1
    BY <1>1 DEF SourceRow
  <2>4. QED
    BY <2>1, <2>2, <2>3
<1>3. k0 = (x - 1) + (z - 1) * n
  <2>1. (z - 1) * n \in Int /\ x \in Int
    BY <1>1
  <2>2. k0 = (z - 1) * n + x - 1
    BY <1>2
  <2> HIDE DEF k0, n
  <2>3. QED
    BY <2>1, <2>2
<1> HIDE DEF k0, n, m
<1>4. k0 \in 0 .. n * m - 1 /\ (k0 % n) + 1 = x /\ (k0 \div n) + 1 = z
  BY <1>1, <1>3, CellOfCoordinates DEF n
<1>5. k0 \div n = z - 1 /\ k0 % n = x - 1
  <2>1. k0 \div n \in Int /\ k0 % n \in Int /\ x \in Int /\ z \in Int
    BY <1>1, <1>4, DivMod
  <2>2. QED
    BY <1>4, <2>1
<1>6. SourceRow(s, k0 \div n) * n + (k0 % n) = (y - 1) * n + (x - 1)
  BY <1>2, <1>5, Zenon
<1>7. (y - 1) * n + (x - 1) = CellAt(x, y)
  <2>1. y \in Int /\ x \in Int /\ (y - 1) * n \in Int
    BY <1>1 DEF m, n
  <2>2. CellAt(x, y) = (x - 1) + (y - 1) * n
    BY DEF CellAt, n
  <2>3. QED
    BY <2>1, <2>2
<1>8. QED
  BY <1>1, <1>4, <1>6, <1>7 DEF k0, n

(***************************************************************************)
(* The steps.                                                              *)
(***************************************************************************)
Message == /\ msg \in Cases /\ stray \in Int
           /\ truth = [j \in Valued |-> ValueAt(j)]

LEMMA SameTruth ==
    ASSUME Message, UNCHANGED <<msg, stray, truth>>
    PROVE  Message'
<1>1. Valued' = Valued /\ \A j : ValueAt(j)' = ValueAt(j)
  BY SameMessage
<1>2. QED
  BY <1>1 DEF Message

LEMMA SameMemory ==
    ASSUME MemInv, UNCHANGED <<msg, iain, ib, scan>>
    PROVE  MemInv'
<1>1. Grid' = Grid /\ \A j : From(j)' = From(j)
  BY SameMessage
<1>2. QED
  BY <1>1 DEF MemInv

GridInv == /\ DecodesInPlace /\ MissingIsApart /\ StatisticsAreExact /\ NumbersStringsInUse
           /\ Decoded => grid.f_miss \in 0 .. 2

LEMMA SameGrid ==
    ASSUME GridInv, UNCHANGED <<msg, truth, grid>>, Decoded' => Decoded
    PROVE  GridInv'
<1>1. Sub' = Sub
  BY SameMessage
<1>2. DecodesInPlace'
  BY <1>1 DEF GridInv, DecodesInPlace, WithValue, MissingValues
<1>3. MissingIsApart'
  BY <1>1 DEF GridInv, MissingIsApart, WithValue, MissingValues
<1>4. StatisticsAreExact'
  BY <1>1 DEF GridInv, StatisticsAreExact, WithValue
<1>5. NumbersStringsInUse'
  BY <1>1 DEF GridInv, NumbersStringsInUse, WithValue
<1>6. QED
  BY <1>2, <1>3, <1>4, <1>5 DEF GridInv

LEMMA NoGridYet ==
    ASSUME ~Decoded
    PROVE  GridInv
  BY DEF GridInv, DecodesInPlace, MissingIsApart, StatisticsAreExact, NumbersStringsInUse

LEMMA SameFile ==
    ASSUME FileInv, UNCHANGED <<msg, grid, file, fscan>>
    PROVE  FileInv'
<1>1. GridNx' = GridNx /\ GridNy' = GridNy
  BY SameMessage
<1>2. \A y : FileRow(y)' = FileRow(y)
  BY <1>1 DEF FileRow
<1>3. \A x, y : CellAt(x, y)' = CellAt(x, y)
  BY <1>1 DEF CellAt
<1>4. \A v : Stored(grid, v)' = Stored(grid, v)
  BY DEF Stored
<1>5. QED
  BY <1>1, <1>2, <1>3, <1>4 DEF FileInv

LEMMA InvIs ==
    ValuesInv <=> /\ Message /\ GridInv /\ ReadsBackWhatWasDecoded
                  /\ pc \in {"unpack", "parse", "refused", "decoded", "stored"}
                  /\ pc # "unpack" => MemInv
                  /\ pc = "stored" => FileInv
                  /\ pc # "stored" => answer = NoAnswer
  BY DEF ValuesInv, Message, GridInv

LEMMA InitValues ==
    ASSUME Init
    PROVE  ValuesInv
<1>1. msg \in Cases /\ stray \in Int /\ pc = "unpack" /\ answer = NoAnswer /\ truth = Truths
  BY GridAssumption DEF Init
<1>2. truth = [j \in Valued |-> ValueAt(j)]
  BY <1>1, TruthsAre DEF ValueAt
<1>3. GridInv
  BY <1>1, NoGridYet DEF Decoded
<1>4. ReadsBackWhatWasDecoded
  BY <1>1 DEF ReadsBackWhatWasDecoded, NoAnswer
<1>5. QED
  BY <1>1, <1>2, <1>3, <1>4, InvIs DEF Message

LEMMA UnpackKeeps ==
    ASSUME ValuesInv, Unpack
    PROVE  ValuesInv'
<1>1. /\ msg \in Cases /\ Message
      /\ UNCHANGED <<msg, stray, truth, grid, file, fscan, answer>>
      /\ pc = "unpack" /\ pc' = "parse" /\ answer = NoAnswer
  BY InvIs DEF Unpack, given, Message
<1>2. Message'
  BY <1>1, SameTruth
<1>3. MemInv'
  <2>1. Grid' = Grid /\ \A j : From(j)' = From(j)
    BY <1>1, SameMessage
  <2>2. iain' = [j \in Grid |-> msg.fld[From(j)]]
    BY <1>1, TransferGives, MessageType DEF Unpack, Grid
  <2>3. msg.bmap # <<>> => ib' = [j \in Grid |-> msg.bmap[From(j)]]
    BY <1>1, TransferGives, MessageType DEF Unpack, Grid
  <2>4. scan' \in Int /\ scan' \div 16 = 4
    <3>1. msg.scan \in 0 .. 255
      BY <1>1, MessageType DEF ScanModes
    <3>2. PICK z \in 0 .. 255 : z = msg.scan
      BY <3>1
    <3>3. scan' = IF z \div 16 = 4 THEN z ELSE 64 + (z % 16)
      BY <3>2, Zenon DEF Unpack, InOrder
    <3>4. QED
      BY <3>3
  <2>5. QED
    BY <1>1, <2>1, <2>2, <2>3, <2>4 DEF MemInv
<1>4. GridInv'
  <2>1. ~Decoded'
    BY <1>1 DEF Decoded
  <2>2. QED
    BY <2>1 DEF GridInv, DecodesInPlace, MissingIsApart, StatisticsAreExact, NumbersStringsInUse
<1>5. ReadsBackWhatWasDecoded'
  BY <1>1 DEF ReadsBackWhatWasDecoded, NoAnswer
<1>6. QED
  BY <1>1, <1>2, <1>3, <1>4, <1>5 DEF ValuesInv, Message, GridInv

LEMMA RefuseKeeps ==
    ASSUME ValuesInv, Refuse
    PROVE  ValuesInv'
<1>1. /\ Message /\ MemInv
      /\ UNCHANGED <<msg, stray, truth, iain, ib, scan, grid, file, fscan, answer>>
      /\ pc' = "refused" /\ answer = NoAnswer
  BY InvIs DEF Refuse, given, unpacked
<1>2. Message' /\ MemInv'
  BY <1>1, SameTruth, SameMemory
<1>3. GridInv'
  <2>1. ~Decoded'
    BY <1>1 DEF Decoded
  <2>2. QED
    BY <2>1 DEF GridInv, DecodesInPlace, MissingIsApart, StatisticsAreExact, NumbersStringsInUse
<1>4. ReadsBackWhatWasDecoded'
  BY <1>1 DEF ReadsBackWhatWasDecoded, NoAnswer
<1>5. QED
  BY <1>1, <1>2, <1>3, <1>4 DEF ValuesInv, Message, GridInv

LEMMA DecodeKeeps ==
    ASSUME ValuesInv, Decode, \A c \in Cases : Decodable(c)
    PROVE  ValuesInv'
<1>1. /\ Message /\ MemInv /\ msg \in Cases
      /\ UNCHANGED <<msg, stray, truth, iain, ib, scan, file, fscan, answer>>
      /\ pc' = "decoded" /\ answer = NoAnswer /\ grid' = Numbered(ParseGrid)
  BY InvIs DEF Decode, given, unpacked, Message
<1>2. Message' /\ MemInv'
  BY <1>1, SameTruth, SameMemory
<1>3. PICK g : g = Numbered(ParseGrid)
  OBVIOUS
<1> DEFINE inUse == {t \in DOMAIN msg.table : \E j \in Valued : ValueAt(j) = t}
<1>4. /\ g.f_miss \in 0 .. 2
      /\ Fills(g, Valued) /\ Spans(g, Valued) /\ Counts(g, Valued) /\ Apart(g, Valued)
      /\ \A t \in DOMAIN msg.table :
            g.validIndex[t] = IF t \in inUse THEN Cardinality({s \in inUse : s < t}) ELSE -1
  BY <1>1, <1>3, NumberedIs
<1>5. /\ truth = [j \in Valued |-> ValueAt(j)] /\ DOMAIN truth = Valued
      /\ {truth[j] : j \in Valued} = ValuesAt(Valued)
  BY <1>1 DEF Message, ValuesAt
<1>6. /\ grid' = g /\ truth' = truth /\ Sub' = Sub /\ WithValue' = Valued
      /\ MissingValues' = MissingOf(g)
  BY <1>1, <1>3, <1>5, SameMessage DEF WithValue, MissingValues
<1>7. DecodesInPlace'
  BY <1>4, <1>5, <1>6 DEF DecodesInPlace, Fills
<1>8. MissingIsApart'
  BY <1>4, <1>5, <1>6 DEF MissingIsApart, Apart
<1>9. StatisticsAreExact'
  <2>1. Valued # {} => ValuesAt(Valued) # {}
    BY DEF ValuesAt
  <2>2. QED
    BY <1>4, <1>5, <1>6, <2>1 DEF StatisticsAreExact, Spans, Counts
<1>10. NumbersStringsInUse'
  <2>1. inUse = {t \in DOMAIN msg'.table : \E j \in WithValue' : truth'[j] = t}
    BY <1>1, <1>5, <1>6
  <2> HIDE DEF inUse
  <2>2. QED
    BY <1>1, <1>4, <1>6, <2>1 DEF NumbersStringsInUse
<1>11. GridInv'
  BY <1>4, <1>6, <1>7, <1>8, <1>9, <1>10 DEF GridInv
<1>12. ReadsBackWhatWasDecoded'
  BY <1>1 DEF ReadsBackWhatWasDecoded, NoAnswer
<1>13. QED
  BY <1>1, <1>2, <1>11, <1>12 DEF ValuesInv, Message, GridInv

LEMMA StoreKeeps ==
    ASSUME ValuesInv, Store
    PROVE  ValuesInv'
<1>1. /\ Message /\ MemInv /\ GridInv /\ msg \in Cases
      /\ UNCHANGED <<msg, stray, truth, iain, ib, scan, grid, answer>>
      /\ pc = "decoded" /\ pc' = "stored" /\ answer = NoAnswer
  BY InvIs DEF Store, given, unpacked, Message
<1>2. Message' /\ MemInv' /\ GridInv'
  BY <1>1, SameTruth, SameMemory, SameGrid DEF Decoded
<1>3. FileInv'
  <2> DEFINE s == fscan'
             k(y, x) == SourceRow(s, y - 1) * GridNx + x - 1
  <2>1. PICK f : f = file'
    OBVIOUS
  <2>2. f = [c \in Cells(Sub) |->
               Stored(grid, grid.data[SourceRow(s, c \div GridNx) * GridNx + (c % GridNx)])]
    BY <2>1, Zenon DEF Store
  <2>3. ASSUME NEW x \in 1 .. GridNx, NEW y \in 1 .. GridNy
        PROVE  k(y, x) \in DOMAIN f /\ f[k(y, x)] = Stored(grid, grid.data[CellAt(x, y)])
    <3>1. /\ k(y, x) \in Cells(Sub)
          /\ SourceRow(s, k(y, x) \div GridNx) * GridNx + (k(y, x) % GridNx) = CellAt(x, y)
      BY <1>1, StoreGives
    <3> HIDE DEF k
    <3>2. QED
      BY <2>2, <3>1
  <2>4. /\ GridNx' = GridNx /\ GridNy' = GridNy
        /\ \A x, y : CellAt(x, y)' = CellAt(x, y)
        /\ \A v : Stored(grid, v)' = Stored(grid, v)
    BY <1>1, SameMessage DEF CellAt, Stored
  <2>5. \A y : FileRow(y)' = SourceRow(s, y - 1)
    BY <2>4 DEF FileRow, SourceRow
  <2>6. QED
    BY <1>1, <2>1, <2>3, <2>4, <2>5 DEF FileInv
<1>4. ReadsBackWhatWasDecoded'
  BY <1>1 DEF ReadsBackWhatWasDecoded, NoAnswer
<1>5. QED
  BY <1>1, <1>2, <1>3, <1>4 DEF ValuesInv, Message, GridInv

(* What is the same in the states before and after a question.             *)
LEMMA Asked ==
    ASSUME ValuesInv, pc = "stored",
           UNCHANGED <<msg, stray, truth, pc, iain, ib, scan, grid, file, fscan>>
    PROVE  /\ Message' /\ MemInv' /\ GridInv' /\ FileInv'
           /\ GridNx' = GridNx /\ GridNy' = GridNy /\ (UsesUndef' <=> UsesUndef)
           /\ WithValue' = WithValue
           /\ \A j : FileTruth(j)' = FileTruth(j)
           /\ \A x, y : CellAt(x, y)' = CellAt(x, y)
<1>1. Message' /\ MemInv' /\ GridInv' /\ FileInv'
  BY InvIs, SameTruth, SameMemory, SameGrid, SameFile DEF Decoded
<1>2. GridNx' = GridNx /\ GridNy' = GridNy
  BY SameMessage
<1>3. (UsesUndef' <=> UsesUndef) /\ WithValue' = WithValue
  BY DEF UsesUndef, WithValue
<1>4. \A j : FileTruth(j)' = FileTruth(j)
  BY <1>3 DEF FileTruth
<1>5. \A x, y : CellAt(x, y)' = CellAt(x, y)
  BY <1>2 DEF CellAt
<1>6. QED
  BY <1>1, <1>2, <1>3, <1>4, <1>5

(* A part that is as far from the top as from the bottom is found.         *)
LEMMA ReadGives ==
    ASSUME ValuesInv, pc = "stored", UsesUndef, NEW w \in Windows, RowsAreFound(w),
           NEW j \in Cells(w)
    PROVE  ReadCell(w, j) = IF ColumnsOf(w, j)
                            THEN FileTruth(CellAt(Column(w, j), Row(w, j))) ELSE Undef
<1> DEFINE x == Column(w, j)
           y == Row(w, j)
<1>1. GridNx \in Nat \ {0} /\ GridNy \in Nat \ {0}
  BY PartType DEF GridNx, GridNy, ValuesInv
<1>2. /\ w[2] \in Int /\ w[4] \in Int
  BY GridAssumption DEF Rectangles
<1>3. CASE ~ColumnsOf(w, j)
  BY <1>3, Zenon DEF ReadCell, ColumnsOf
<1>4. CASE ColumnsOf(w, j)
  <2>1. x \in 1 .. GridNx /\ y \in 1 .. GridNy
    BY <1>4 DEF ColumnsOf
  <2>2. ReadCell(w, j) = At(file, ReadRow(w, y) * GridNx + x - 1)
    BY <1>4, Zenon DEF ReadCell, ColumnsOf
  <2> HIDE DEF x, y
  <2>3. ReadRow(w, y) = FileRow(y)
    BY <1>1, <1>2, <2>1 DEF ReadRow, FileRow, RowsAreFound, Height
  <2>4. ReadCell(w, j) = CellInFile(x, y)
    BY <2>2, <2>3, Zenon DEF CellInFile
  <2>5. QED
    BY <1>4, <2>1, <2>4, FileHolds DEF x, y
<1>5. QED
  BY <1>3, <1>4

LEMMA ReadBackKeeps ==
    ASSUME ValuesInv, ReadBack
    PROVE  ValuesInv'
<1>1. PICK w \in Windows :
        LET data == [j \in Cells(w) |-> ReadCell(w, j)]
        IN  /\ pc = "stored"
            /\ answer' = [of |-> "window", at |-> w, data |-> data,
                          numMiss |-> Cardinality({j \in Cells(w) : data[j] = Undef})]
            /\ UNCHANGED <<given, pc, unpacked, grid, file, fscan>>
  BY Zenon DEF ReadBack
<1>2. /\ pc = "stored" /\ msg \in Cases
      /\ UNCHANGED <<msg, stray, truth, pc, iain, ib, scan, grid, file, fscan>>
      /\ answer'.at = w
      /\ answer'.data = [j \in Cells(w) |-> ReadCell(w, j)]
  BY <1>1 DEF given, unpacked, ValuesInv
<1>3. /\ Message' /\ MemInv' /\ GridInv' /\ FileInv'
      /\ GridNx' = GridNx /\ GridNy' = GridNy /\ (UsesUndef' <=> UsesUndef)
      /\ \A j : FileTruth(j)' = FileTruth(j)
      /\ \A x, y : CellAt(x, y)' = CellAt(x, y)
  BY <1>2, Asked
<1>4. ReadsBackWhatWasDecoded'
  <2>1. SUFFICES ASSUME UsesUndef, RowsAreFound(answer.at)', NEW j \in Cells(w)
                 PROVE  ReadCell(w, j) = IF ColumnsOf(w, j)'
                                         THEN FileTruth(CellAt(Column(w, j), Row(w, j)))'
                                         ELSE Undef
    BY <1>2, <1>3 DEF ReadsBackWhatWasDecoded
  <2>2. RowsAreFound(w)
    BY <1>2, <1>3, <2>1 DEF RowsAreFound
  <2>3. ColumnsOf(w, j)' <=> ColumnsOf(w, j)
    BY <1>3 DEF ColumnsOf
  <2>4. FileTruth(CellAt(Column(w, j), Row(w, j)))' = FileTruth(CellAt(Column(w, j), Row(w, j)))
    BY <1>2, <1>3 DEF FileTruth, WithValue
  <2>5. QED
    BY <1>2, <2>1, <2>2, <2>3, <2>4, ReadGives
<1>5. QED
  BY <1>2, <1>3, <1>4 DEF ValuesInv, Message, GridInv

LEMMA ProbeKeeps ==
    ASSUME ValuesInv, Probe
    PROVE  ValuesInv'
<1>1. PICK p \in Points, f_interp \in BOOLEAN :
        /\ pc = "stored"
        /\ answer' = IF f_interp /\ ~f_txtType
                     THEN [of |-> "cells", at |-> p, ans |-> Bilinear(p)]
                     ELSE [of |-> "cell", at |-> p, ans |-> Nearest(p)]
        /\ UNCHANGED <<given, pc, unpacked, grid, file, fscan>>
  BY Zenon DEF Probe
<1>2. /\ pc = "stored"
      /\ UNCHANGED <<msg, stray, truth, pc, iain, ib, scan, grid, file, fscan>>
      /\ answer'.of # "window"
  BY <1>1 DEF given, unpacked
<1>3. Message' /\ MemInv' /\ GridInv' /\ FileInv'
  BY <1>2, Asked
<1>4. ReadsBackWhatWasDecoded'
  BY <1>2 DEF ReadsBackWhatWasDecoded
<1>5. QED
  BY <1>2, <1>3, <1>4 DEF ValuesInv, Message, GridInv

LEMMA StepKeeps ==
    ASSUME ValuesInv, [Next]_vars, \A c \in Cases : Decodable(c)
    PROVE  ValuesInv'
<1>1. CASE Unpack
  BY <1>1, UnpackKeeps
<1>2. CASE Refuse
  BY <1>2, RefuseKeeps
<1>3. CASE Decode
  BY <1>3, DecodeKeeps
<1>4. CASE Store
  BY <1>4, StoreKeeps
<1>5. CASE ReadBack
  BY <1>5, ReadBackKeeps
<1>6. CASE Probe
  BY <1>6, ProbeKeeps
<1>7. CASE UNCHANGED vars
  <2>1. UNCHANGED <<msg, stray, truth, pc, iain, ib, scan, grid, file, fscan, answer>>
    BY <1>7 DEF vars, given, unpacked
  <2>2. Message' /\ GridInv'
    BY <2>1, InvIs, SameTruth, SameGrid DEF Decoded
  <2>3. (pc # "unpack" => MemInv') /\ (pc = "stored" => FileInv')
    BY <2>1, InvIs, SameMemory, SameFile
  <2>4. ReadsBackWhatWasDecoded'
    <3>1. CASE pc = "stored"
      <4>1. /\ GridNx' = GridNx /\ GridNy' = GridNy /\ (UsesUndef' <=> UsesUndef)
            /\ WithValue' = WithValue
            /\ \A j : FileTruth(j)' = FileTruth(j)
            /\ \A x, y : CellAt(x, y)' = CellAt(x, y)
        BY <2>1, <3>1, Asked
      <4>2. RowsAreFound(answer.at)' <=> RowsAreFound(answer.at)
        BY <2>1, <4>1 DEF RowsAreFound
      <4>3. \A j : ColumnsOf(answer.at, j)' <=> ColumnsOf(answer.at, j)
        BY <2>1, <4>1 DEF ColumnsOf
      <4>4. \A j : FileTruth(CellAt(Column(answer.at, j), Row(answer.at, j)))'
                     = FileTruth(CellAt(Column(answer.at, j), Row(answer.at, j)))
        BY <2>1, <4>1 DEF FileTruth, WithValue
      <4>5. ReadsBackWhatWasDecoded
        BY DEF ValuesInv
      <4>6. QED
        BY <2>1, <4>1, <4>2, <4>3, <4>4, <4>5 DEF ReadsBackWhatWasDecoded
    <3>2. CASE pc # "stored"
      BY <2>1, <3>2, InvIs DEF ReadsBackWhatWasDecoded, NoAnswer
    <3>3. QED
      BY <3>1, <3>2
  <2>5. QED
    BY <2>1, <2>2, <2>3, <2>4 DEF ValuesInv, Message, GridInv
<1>8. QED
  BY <1>1, <1>2, <1>3, <1>4, <1>5, <1>6, <1>7 DEF Next

LEMMA ValuesInvariant ==
    ASSUME \A c \in Cases : Decodable(c)
    PROVE  Spec => []ValuesInv
<1>1. Init => ValuesInv
  BY InitValues
<1>2. ValuesInv /\ [Next]_vars => ValuesInv'
  BY StepKeeps
<1>3. QED
  BY <1>1, <1>2, PTL DEF Spec

(***************************************************************************)
(* The answers to a probe.                                                 *)
(***************************************************************************)
LEMMA NearestGives ==
    ASSUME ValuesInv, pc = "stored", UsesUndef, NEW p \in Points
    PROVE  NearestIsDecoded(p, Nearest(p))
<1> DEFINE x == (p[1] + 1) \div 2
           y == (p[2] + 1) \div 2
           c == [x |-> x, y |-> y]
<1>1. c.x = x /\ c.y = y
  OBVIOUS
<1> HIDE DEF x, y
<1>2. CornerOn(c) <=> x \in 1 .. GridNx /\ y \in 1 .. GridNy
  BY <1>1 DEF CornerOn
<1>3. CornerValue(c) = FileTruth(CellAt(x, y))
  BY <1>1, Zenon DEF CornerValue
<1> HIDE DEF c
<1>4. Nearest(p) = 4 * (IF CornerOn(c) THEN CornerValue(c) ELSE Undef)
  <2>1. CASE CornerOn(c)
    <3>1. CellInFile(x, y) = CornerValue(c)
      BY <1>2, <1>3, <2>1, FileHolds
    <3>2. Nearest(p) = 4 * CellInFile(x, y)
      BY <1>2, <2>1, Zenon DEF Nearest, x, y
    <3>3. QED
      BY <2>1, <3>1, <3>2, Zenon
  <2>2. CASE ~CornerOn(c)
    <3>1. Nearest(p) = 4 * Undef
      BY <1>2, <2>2, Zenon DEF Nearest, x, y
    <3>2. QED
      BY <2>2, <3>1, Zenon
  <2>3. QED
    BY <2>1, <2>2
<1>5. QED
  BY <1>4, Zenon DEF NearestIsDecoded, c, x, y

(* A value is not stored as 9999.                                          *)
LEMMA ValuesAreStored ==
    ASSUME ValuesInv, pc = "stored", \A c \in Cases : Decodable(c) /\ Storable(c),
           NEW j \in WithValue
    PROVE  FileTruth(j) \in Int /\ FileTruth(j) # Undef
<1>1. /\ msg \in Cases /\ MemInv /\ Decodable(msg) /\ Storable(msg)
      /\ j \in Valued /\ truth[j] = ValueAt(j)
  BY DEF ValuesInv, WithValue
<1>2. ValueAt(j) \in ValuesIn(msg) /\ ValueAt(j) \in Int
  BY <1>1, ValuesCount DEF Valued, Kept, ValueAt
<1>3. FileTruth(j) = Round(ValueAt(j))
  BY <1>1 DEF FileTruth
<1>4. PICK v \in Int : v = ValueAt(j)
  BY <1>2
<1>5. Round(v) \in Int
  <2>1. Ulp \in Nat \ {0} /\ 2 * Ulp \in Nat \ {0} /\ 2 * v + Ulp \in Int
    BY GridAssumption
  <2>2. (2 * v + Ulp) \div (2 * Ulp) \in Int
    BY <2>1, DivMod
  <2>3. QED
    BY <2>1, <2>2 DEF Round
<1>6. QED
  BY <1>1, <1>2, <1>3, <1>4, <1>5 DEF Storable

LEMMA CornersAre ==
    ASSUME NEW p
    PROVE  Corners(p) = {Corner(p, 0, 0), Corner(p, 0, 1), Corner(p, 1, 0), Corner(p, 1, 1)}
<1>1. \A d : d \in 0 .. 1 <=> d = 0 \/ d = 1
  OBVIOUS
<1>2. \A c : c \in Corners(p) <=> \E dx \in 0 .. 1, dy \in 0 .. 1 : c = Corner(p, dx, dy)
  BY DEF Corners
<1>3. \A c : c \in Corners(p) =>
        c \in {Corner(p, 0, 0), Corner(p, 0, 1), Corner(p, 1, 0), Corner(p, 1, 1)}
  <2>1. TAKE c
  <2>2. HAVE c \in Corners(p)
  <2>3. PICK dx \in 0 .. 1, dy \in 0 .. 1 : c = Corner(p, dx, dy)
    BY <1>2, <2>2
  <2>4. (dx = 0 \/ dx = 1) /\ (dy = 0 \/ dy = 1)
    BY <1>1
  <2>5. QED
    BY <2>3, <2>4, Zenon
<1>4. \A dx \in 0 .. 1, dy \in 0 .. 1 : Corner(p, dx, dy) \in Corners(p)
  BY <1>2
<1>5. 0 \in 0 .. 1 /\ 1 \in 0 .. 1
  OBVIOUS
<1>6. /\ Corner(p, 0, 0) \in Corners(p) /\ Corner(p, 0, 1) \in Corners(p)
      /\ Corner(p, 1, 0) \in Corners(p) /\ Corner(p, 1, 1) \in Corners(p)
  BY <1>4, <1>5, Zenon
<1>7. QED
  BY <1>3, <1>6, Zenon

LEMMA MeanGives ==
    ASSUME ValuesInv, pc = "stored", UsesUndef, NEW p \in Points,
           \A c \in Cases : Decodable(c) /\ Storable(c)
    PROVE  MeanIsDecoded(p, Bilinear(p))
<1> DEFINE x == p[1] \div 2
           y == p[2] \div 2
           fx == p[1] % 2
           fy == p[2] % 2
           c11 == Corner(p, 0, 0)
           c12 == Corner(p, 0, 1)
           c21 == Corner(p, 1, 0)
           c22 == Corner(p, 1, 1)
           d11 == CellInFile(x, y)
           d12 == CellInFile(x, y + 1)
           d21 == CellInFile(x + 1, y)
           d22 == CellInFile(x + 1, y + 1)
           t1 == 2 * d11 + fx * (d21 - d11)
           t2 == 2 * d12 + fx * (d22 - d12)
           outside == ~(x >= 1 /\ x + 1 <= GridNx /\ y >= 1 /\ y + 1 <= GridNy)
           three == AnyMissing(Corners(p) \ {c22})
<1>1. /\ GridNx \in Nat \ {0} /\ GridNy \in Nat \ {0}
      /\ x \in Int /\ y \in Int /\ fx \in {0, 1} /\ fy \in {0, 1}
  <2>1. GridNx \in Nat \ {0} /\ GridNy \in Nat \ {0}
    BY PartType DEF GridNx, GridNy, ValuesInv
  <2>2. p[1] \in Int /\ p[2] \in Int
    BY GridAssumption
  <2>3. QED
    BY <2>1, <2>2
<1>2. /\ x + 0 = x /\ y + 0 = y /\ x # x + 1 /\ y # y + 1
  BY <1>1
<1>3. Bilinear(p) = IF outside \/ Undef \in {d11, d12, d21} THEN 4 * Undef
                    ELSE 2 * t1 + fy * (t2 - t1)
  BY Zenon DEF Bilinear
<1> HIDE DEF x, y, fx, fy
<1>4. /\ c11 = [x |-> x, y |-> y] /\ c12 = [x |-> x, y |-> y + 1]
      /\ c21 = [x |-> x + 1, y |-> y] /\ c22 = [x |-> x + 1, y |-> y + 1]
  BY <1>2 DEF Corner, x, y
<1>5. /\ c11.x = x /\ c11.y = y /\ c12.x = x /\ c12.y = y + 1
      /\ c21.x = x + 1 /\ c21.y = y /\ c22.x = x + 1 /\ c22.y = y + 1
  BY <1>4
<1> HIDE DEF c11, c12, c21, c22
<1>6. Corners(p) \ {c22} = {c11, c12, c21}
  <2>1. Corners(p) = {c11, c12, c21, c22}
    BY CornersAre, Zenon DEF c11, c12, c21, c22
  <2>2. c11 # c22 /\ c12 # c22 /\ c21 # c22
    BY <1>2, <1>5
  <2>3. QED
    BY <2>1, <2>2, Zenon
<1> DEFINE Missing(c) == ~CornerOn(c) \/ CellAt(c.x, c.y) \notin WithValue
<1>7. /\ three <=> Missing(c11) \/ Missing(c12) \/ Missing(c21)
      /\ AnyMissing({c22}) <=> Missing(c22)
  BY <1>6, Zenon DEF AnyMissing
<1> HIDE DEF three
<1>8. /\ outside <=> ~CornerOn(c11) \/ ~CornerOn(c12) \/ ~CornerOn(c21) \/ ~CornerOn(c22)
      /\ CornerOn(c12) /\ CornerOn(c21) => ~outside
  BY <1>1, <1>5 DEF CornerOn
<1>9. MeanIsDecoded(p, Bilinear(p)) <=>
        IF three \/ ~CornerOn(c22) THEN Bilinear(p) = 4 * Undef
        ELSE ~AnyMissing({c22}) => Bilinear(p) = WeightedMean(p)
  BY Zenon DEF MeanIsDecoded, three, c22
<1>10. CASE outside
  <2>1. Bilinear(p) = 4 * Undef
    BY <1>3, <1>10, Zenon
  <2>2. three \/ ~CornerOn(c22)
    BY <1>7, <1>8, <1>10
  <2>3. QED
    BY <1>9, <2>1, <2>2, Zenon
<1>11. CASE ~outside
  <2>1. CornerOn(c11) /\ CornerOn(c12) /\ CornerOn(c21) /\ CornerOn(c22)
    BY <1>8, <1>11
  <2> DEFINE v11 == CornerValue(c11)
             v12 == CornerValue(c12)
             v21 == CornerValue(c21)
             v22 == CornerValue(c22)
  <2>2. d11 = v11 /\ d12 = v12 /\ d21 = v21 /\ d22 = v22
    <3>1. /\ x \in 1 .. GridNx /\ y \in 1 .. GridNy
          /\ x + 1 \in 1 .. GridNx /\ y + 1 \in 1 .. GridNy
      BY <1>5, <2>1 DEF CornerOn
    <3>2. /\ v11 = FileTruth(CellAt(x, y)) /\ v12 = FileTruth(CellAt(x, y + 1))
          /\ v21 = FileTruth(CellAt(x + 1, y)) /\ v22 = FileTruth(CellAt(x + 1, y + 1))
      BY <1>5, Zenon DEF CornerValue
    <3>3. QED
      BY <3>1, <3>2, FileHolds
  <2>3. ASSUME NEW c, ~Missing(c) PROVE CornerValue(c) \in Int /\ CornerValue(c) # Undef
    BY <2>3, ValuesAreStored DEF CornerValue
  <2>4. ASSUME NEW c, CornerOn(c), Missing(c) PROVE CornerValue(c) = Undef
    BY <2>4 DEF CornerValue, FileTruth
  <2> HIDE DEF d11, d12, d21, d22, Missing, outside
  <2>5. CASE three
    <3>1. Undef \in {v11, v12, v21}
      BY <1>7, <2>1, <2>4, <2>5, Zenon
    <3>2. Bilinear(p) = 4 * Undef
      BY <1>3, <2>2, <3>1, Zenon
    <3>3. QED
      BY <1>9, <2>5, <3>2, Zenon
  <2>6. CASE ~three /\ ~AnyMissing({c22})
    <3>1. /\ v11 \in Int /\ v12 \in Int /\ v21 \in Int /\ v22 \in Int
          /\ v11 # Undef /\ v12 # Undef /\ v21 # Undef
      BY <1>7, <2>3, <2>6, Zenon
    <3>2. Bilinear(p) = 2 * t1 + fy * (t2 - t1)
      BY <1>3, <1>11, <2>2, <3>1, Zenon
    <3>3. /\ Weight(p, c11) = (2 - fx) * (2 - fy) /\ Weight(p, c12) = (2 - fx) * fy
          /\ Weight(p, c21) = fx * (2 - fy) /\ Weight(p, c22) = fx * fy
      BY <1>2, <1>5, Zenon DEF Weight, x, y, fx, fy
    <3>4. WeightedMean(p) = ((2 - fx) * (2 - fy)) * v11 + ((2 - fx) * fy) * v12
                            + (fx * (2 - fy)) * v21 + (fx * fy) * v22
      BY <3>3, Zenon DEF WeightedMean, c11, c12, c21, c22
    <3>5. PICK a \in Int, b \in Int, c \in Int, d \in Int :
            a = v11 /\ b = v12 /\ c = v21 /\ d = v22
      BY <3>1
    <3>6. t1 = 2 * a + fx * (c - a) /\ t2 = 2 * b + fx * (d - b)
      BY <2>2, <3>5, Zenon
    <3> HIDE DEF t1, t2, v11, v12, v21, v22
    <3>7. WeightedMean(p) = ((2 - fx) * (2 - fy)) * a + ((2 - fx) * fy) * b
                            + (fx * (2 - fy)) * c + (fx * fy) * d
      BY <3>4, <3>5, Zenon
    <3>8. Bilinear(p) = WeightedMean(p)
      <4>1. CASE fx = 0 /\ fy = 0
        BY <3>2, <3>6, <3>7, <4>1
      <4>2. CASE fx = 0 /\ fy = 1
        BY <3>2, <3>6, <3>7, <4>2
      <4>3. CASE fx = 1 /\ fy = 0
        BY <3>2, <3>6, <3>7, <4>3
      <4>4. CASE fx = 1 /\ fy = 1
        BY <3>2, <3>6, <3>7, <4>4
      <4>5. QED
        BY <1>1, <4>1, <4>2, <4>3, <4>4
    <3>9. QED
      BY <1>9, <2>1, <2>6, <3>8, Zenon
  <2>7. CASE ~three /\ AnyMissing({c22})
    BY <1>9, <2>1, <2>7, Zenon
  <2>8. QED
    BY <2>5, <2>6, <2>7
<1>12. QED
  BY <1>10, <1>11

ProbeInv == ValuesInv /\ ProbesWhatWasDecoded

LEMMA NotProbedYet ==
    ASSUME answer.of \notin {"cell", "cells"}
    PROVE  ProbesWhatWasDecoded
  BY DEF ProbesWhatWasDecoded

LEMMA SameAnswers ==
    ASSUME ValuesInv, pc = "stored",
           UNCHANGED <<msg, stray, truth, pc, iain, ib, scan, grid, file, fscan>>
    PROVE  /\ UsesUndef' <=> UsesUndef
           /\ \A p, a : NearestIsDecoded(p, a)' <=> NearestIsDecoded(p, a)
           /\ \A p, a : MeanIsDecoded(p, a)' <=> MeanIsDecoded(p, a)
<1>1. /\ GridNx' = GridNx /\ GridNy' = GridNy /\ (UsesUndef' <=> UsesUndef)
      /\ WithValue' = WithValue
      /\ \A j : FileTruth(j)' = FileTruth(j)
      /\ \A x, y : CellAt(x, y)' = CellAt(x, y)
  BY Asked
<1>2. \A c : (CornerOn(c)' <=> CornerOn(c)) /\ CornerValue(c)' = CornerValue(c)
  <2>1. TAKE c
  <2>2. CornerOn(c)' <=> CornerOn(c)
    BY <1>1 DEF CornerOn
  <2>3. CornerValue(c)' = CornerValue(c)
    BY <1>1 DEF CornerValue, FileTruth, CellAt, WithValue
  <2>4. QED
    BY <2>2, <2>3
<1>3. \A S : AnyMissing(S)' <=> AnyMissing(S)
  BY <1>1, <1>2 DEF AnyMissing
<1>4. \A p : WeightedMean(p)' = WeightedMean(p)
  BY <1>2 DEF WeightedMean
<1>5. \A p, a : NearestIsDecoded(p, a)' <=> NearestIsDecoded(p, a)
  BY <1>2 DEF NearestIsDecoded
<1>6. \A p, a : MeanIsDecoded(p, a)' <=> MeanIsDecoded(p, a)
  BY <1>2, <1>3, <1>4 DEF MeanIsDecoded
<1>7. QED
  BY <1>1, <1>5, <1>6

LEMMA ProbesInvariant ==
    ASSUME \A c \in Cases : Decodable(c) /\ Storable(c)
    PROVE  Spec => []ProbeInv
<1>1. Init => ProbeInv
  BY InitValues, NotProbedYet DEF ProbeInv, Init, NoAnswer
<1>2. ASSUME ProbeInv, [Next]_vars PROVE ProbeInv'
  <2>1. ValuesInv /\ ValuesInv'
    BY <1>2, StepKeeps DEF ProbeInv
  <2> SUFFICES ProbesWhatWasDecoded'
    BY <2>1 DEF ProbeInv
  <2>2. ASSUME answer'.of \notin {"cell", "cells"} PROVE ProbesWhatWasDecoded'
    BY <2>2 DEF ProbesWhatWasDecoded
  <2>3. pc # "stored" => answer = NoAnswer /\ answer.of = "nothing"
    BY <2>1 DEF ValuesInv, NoAnswer
  <2>4. ASSUME answer' = answer, pc # "stored" PROVE ProbesWhatWasDecoded'
    BY <2>2, <2>3, <2>4
  <2>5. CASE Unpack \/ Refuse \/ Decode \/ Store
    BY <2>4, <2>5 DEF Unpack, Refuse, Decode, Store
  <2>6. CASE ReadBack
    BY <2>2, <2>6 DEF ReadBack
  <2>7. CASE Probe
    <3>1. PICK p \in Points, f_interp \in BOOLEAN :
            /\ pc = "stored"
            /\ answer' = IF f_interp /\ ~f_txtType
                         THEN [of |-> "cells", at |-> p, ans |-> Bilinear(p)]
                         ELSE [of |-> "cell", at |-> p, ans |-> Nearest(p)]
            /\ UNCHANGED <<given, pc, unpacked, grid, file, fscan>>
      BY <2>7, Zenon DEF Probe
    <3>2. UNCHANGED <<msg, stray, truth, pc, iain, ib, scan, grid, file, fscan>>
      BY <3>1 DEF given, unpacked
    <3>3. /\ UsesUndef' <=> UsesUndef
          /\ \A q, a : NearestIsDecoded(q, a)' <=> NearestIsDecoded(q, a)
          /\ \A q, a : MeanIsDecoded(q, a)' <=> MeanIsDecoded(q, a)
      BY <2>1, <3>1, <3>2, SameAnswers
    <3>4. UsesUndef => NearestIsDecoded(p, Nearest(p)) /\ MeanIsDecoded(p, Bilinear(p))
      BY <1>2, <2>1, <3>1, NearestGives, MeanGives
    <3>5. PICK a, b : a = Nearest(p) /\ b = Bilinear(p)
      OBVIOUS
    <3>6. CASE answer' = [of |-> "cells", at |-> p, ans |-> b]
      BY <3>3, <3>4, <3>5, <3>6 DEF ProbesWhatWasDecoded
    <3>7. CASE answer' = [of |-> "cell", at |-> p, ans |-> a]
      BY <3>3, <3>4, <3>5, <3>7 DEF ProbesWhatWasDecoded
    <3>8. QED
      BY <3>1, <3>5, <3>6, <3>7, Zenon
  <2>8. CASE UNCHANGED vars
    <3>1. /\ UNCHANGED <<msg, stray, truth, pc, iain, ib, scan, grid, file, fscan>>
          /\ answer' = answer
      BY <2>8 DEF vars, given, unpacked
    <3>2. CASE pc = "stored"
      <4>1. /\ UsesUndef' <=> UsesUndef
            /\ \A q, a : NearestIsDecoded(q, a)' <=> NearestIsDecoded(q, a)
            /\ \A q, a : MeanIsDecoded(q, a)' <=> MeanIsDecoded(q, a)
        BY <2>1, <3>1, <3>2, SameAnswers
      <4>2. PICK at, ans, of : at = answer.at /\ ans = answer.ans /\ of = answer.of
        OBVIOUS
      <4>3. /\ of = "cell" /\ UsesUndef => NearestIsDecoded(at, ans)
            /\ of = "cells" /\ UsesUndef => MeanIsDecoded(at, ans)
        BY <1>2, <4>2, Zenon DEF ProbeInv, ProbesWhatWasDecoded
      <4>4. answer'.at = at /\ answer'.ans = ans /\ answer'.of = of
        BY <3>1, <4>2
      <4>5. QED
        BY <4>1, <4>3, <4>4 DEF ProbesWhatWasDecoded
    <3>3. QED
      BY <2>4, <3>1, <3>2
  <2>9. QED
    BY <1>2, <2>5, <2>6, <2>7, <2>8 DEF Next
<1>3. QED
  BY <1>1, <1>2, PTL DEF Spec

(***************************************************************************)
(* The results, for every set of messages that are decodable, in every     *)
(* scan mode and with every subgrid, bitmap, table and unit.               *)
(***************************************************************************)

(* Each cell of the decoded grid or subgrid has the value that the flag    *)
(* table gives it, in the new units, and every other a missing value       *)
(* (TransferInt, ParseGrid, f_readjust, the bitmap).                       *)
THEOREM DecodedInPlace ==
    ASSUME \A c \in Cases : Decodable(c)
    PROVE  Spec => []DecodesInPlace
<1>1. ValuesInv => DecodesInPlace
  BY DEF ValuesInv
<1>2. QED
  BY <1>1, ValuesInvariant, PTL

(* No value of the decoded grid can be taken for a missing one, although   *)
(* the units were converted after the missing value was chosen             *)
(* (f_readjust of ParseGrid, the bitmap).                                  *)
THEOREM MissingStaysApart ==
    ASSUME \A c \in Cases : Decodable(c)
    PROVE  Spec => []MissingIsApart
<1>1. ValuesInv => MissingIsApart
  BY DEF ValuesInv
<1>2. QED
  BY <1>1, ValuesInvariant, PTL

(* numMiss, min and max are those of the cells that were decoded           *)
(* (ParseGrid's walks, and f_readjust and the bitmap after them).          *)
THEOREM CountsEveryCell ==
    ASSUME \A c \in Cases : Decodable(c)
    PROVE  Spec => []StatisticsAreExact
<1>1. ValuesInv => StatisticsAreExact
  BY DEF ValuesInv
<1>2. QED
  BY <1>1, ValuesInvariant, PTL

(* The weather strings that some cell refers to are numbered in the order  *)
(* of the table, and no others (ParseGrid marks them, ReadGrib2Record      *)
(* numbers them).                                                          *)
THEOREM NumbersUsedStrings ==
    ASSUME \A c \in Cases : Decodable(c)
    PROVE  Spec => []NumbersStringsInUse
<1>1. ValuesInv => NumbersStringsInUse
  BY DEF ValuesInv
<1>2. QED
  BY <1>1, ValuesInvariant, PTL

(* What is read back from a file of a cube, in either order of the rows    *)
(* and for a part of the grid or more than it, is what was decoded         *)
(* (WriteGradsCube, gribWriteFloat, gribReadFloat).                        *)
THEOREM ReadsBack ==
    ASSUME \A c \in Cases : Decodable(c)
    PROVE  Spec => []ReadsBackWhatWasDecoded
<1>1. ValuesInv => ReadsBackWhatWasDecoded
  BY DEF ValuesInv
<1>2. QED
  BY <1>1, ValuesInvariant, PTL

(* A probe answers with the value decoded for the nearest cell or with the *)
(* weighted mean of the four around the point (getCubeValAtPnt).           *)
THEOREM ProbesDecoded ==
    ASSUME \A c \in Cases : Decodable(c) /\ Storable(c)
    PROVE  Spec => []ProbesWhatWasDecoded
<1>1. ProbeInv => ProbesWhatWasDecoded
  BY DEF ProbeInv
<1>2. QED
  BY <1>1, ProbesInvariant, PTL

-----------------------------------------------------------------------------
(***************************************************************************)
(* Years.                                                                  *)
(***************************************************************************)

YearLength(y) == IF IsLeap(y) THEN 366 ELSE 365

(* C's remainders tell the leap years, before year 0 too.                  *)
LEMMA LeapYears ==
    ASSUME NEW y \in Int
    PROVE  ISLEAPYEAR(y) <=> IsLeap(y)
  BY DEF ISLEAPYEAR, IsLeap, CMod, CDiv

LEMMA NextNewYear ==
    ASSUME NEW y \in Int
    PROVE  NewYearsDay(y) \in Int /\ NewYearsDay(y + 1) = NewYearsDay(y) + YearLength(y)
  BY DEF NewYearsDay, LeapsBefore, YearLength, IsLeap

(* The years next to a leap year are none.                                 *)
LEMMA LeapsAreApart ==
    ASSUME NEW y \in Int, IsLeap(y), NEW k \in 1 .. 3
    PROVE  ~IsLeap(y + k) /\ ~IsLeap(y - k)
<1>1. k = 1 \/ k = 2 \/ k = 3
  OBVIOUS
<1>2. QED
  BY <1>1 DEF IsLeap

(* 400 years have as many days wherever they start.                        *)
LEMMA PeriodDays ==
    ASSUME NEW p \in Int
    PROVE  NewYearsDay(1970 + 400 * p) = PERIOD_YEARS * p
  BY DEF NewYearsDay, LeapsBefore, PERIOD_YEARS

LEMMA YearsInOrder ==
    ASSUME NEW y \in Int, NEW z \in Int, y < z
    PROVE  NewYearsDay(y + 1) <= NewYearsDay(z)
  BY DEF NewYearsDay, LeapsBefore

(* The year of a day, and the day of the year.                             *)
YearDays == [year : Int, day : Nat]

IsYearDay(t, r) == /\ r \in YearDays
                   /\ NewYearsDay(r.year) + r.day = t /\ r.day < YearLength(r.year)

LEMMA OneYearDay ==
    ASSUME NEW t \in Int, NEW r, IsYearDay(t, r), NEW q, IsYearDay(t, q)
    PROVE  r = q
<1>1. PICK y \in Int, d \in Nat : r = [year |-> y, day |-> d]
  BY DEF IsYearDay, YearDays
<1>2. PICK z \in Int, e \in Nat : q = [year |-> z, day |-> e]
  BY DEF IsYearDay, YearDays
<1>3. /\ NewYearsDay(y) + d = t /\ d < YearLength(y)
      /\ NewYearsDay(z) + e = t /\ e < YearLength(z)
  BY <1>1, <1>2 DEF IsYearDay
<1>4. /\ NewYearsDay(y) \in Int /\ NewYearsDay(y + 1) = NewYearsDay(y) + YearLength(y)
      /\ NewYearsDay(z) \in Int /\ NewYearsDay(z + 1) = NewYearsDay(z) + YearLength(z)
  BY NextNewYear
<1>4a. YearLength(y) \in Int /\ YearLength(z) \in Int
  BY DEF YearLength
<1>5. ~(y < z)
  <2>1. SUFFICES ASSUME y < z PROVE FALSE
    OBVIOUS
  <2>2. NewYearsDay(y + 1) <= NewYearsDay(z)
    BY <2>1, YearsInOrder
  <2>3. QED
    BY <1>3, <1>4, <1>4a, <2>2
<1>6. ~(z < y)
  <2>1. SUFFICES ASSUME z < y PROVE FALSE
    OBVIOUS
  <2>2. NewYearsDay(z + 1) <= NewYearsDay(y)
    BY <2>1, YearsInOrder
  <2>3. QED
    BY <1>3, <1>4, <1>4a, <2>2
<1>7. y = z
  BY <1>5, <1>6
<1>8. d = e
  BY <1>3, <1>4, <1>7
<1>9. QED
  BY <1>1, <1>2, <1>7, <1>8

(* Every day lies in a year.                                               *)
LEMMA NextYearDay ==
    ASSUME NEW t \in Int, NEW r, IsYearDay(t, r)
    PROVE  /\ \E q : IsYearDay(t + 1, q)
           /\ \E q : IsYearDay(t - 1, q)
<1>1. PICK y \in Int, d \in Nat : r = [year |-> y, day |-> d]
  BY DEF IsYearDay, YearDays
<1>2. NewYearsDay(y) + d = t /\ d < YearLength(y)
  BY <1>1 DEF IsYearDay
<1>3. /\ NewYearsDay(y) \in Int /\ NewYearsDay(y + 1) = NewYearsDay(y) + YearLength(y)
      /\ NewYearsDay(y - 1) \in Int /\ NewYearsDay(y) = NewYearsDay(y - 1) + YearLength(y - 1)
  BY NextNewYear, (y - 1) + 1 = y, y - 1 \in Int
<1>4. YearLength(y) \in {365, 366} /\ YearLength(y - 1) \in {365, 366} /\ YearLength(y + 1) \in {365, 366}
  BY DEF YearLength
<1>5. \E q : IsYearDay(t + 1, q)
  <2>1. CASE d + 1 < YearLength(y)
    <3>1. IsYearDay(t + 1, [year |-> y, day |-> d + 1])
      BY <1>2, <1>3, <1>4, <2>1 DEF IsYearDay, YearDays
    <3>2. QED
      BY <3>1
  <2>2. CASE ~(d + 1 < YearLength(y))
    <3>1. IsYearDay(t + 1, [year |-> y + 1, day |-> 0])
      BY <1>2, <1>3, <1>4, <2>2 DEF IsYearDay, YearDays
    <3>2. QED
      BY <3>1
  <2>3. QED
    BY <2>1, <2>2
<1>6. \E q : IsYearDay(t - 1, q)
  <2>1. CASE d > 0
    <3>1. IsYearDay(t - 1, [year |-> y, day |-> d - 1])
      BY <1>2, <1>3, <1>4, <2>1 DEF IsYearDay, YearDays
    <3>2. QED
      BY <3>1
  <2>2. CASE d = 0
    <3>1. IsYearDay(t - 1, [year |-> y - 1, day |-> YearLength(y - 1) - 1])
      BY <1>2, <1>3, <1>4, <2>2 DEF IsYearDay, YearDays
    <3>2. QED
      BY <3>1
  <2>3. QED
    BY <2>1, <2>2
<1>7. QED
  BY <1>5, <1>6

LEMMA SomeYearDay ==
    ASSUME NEW t \in Int
    PROVE  \E r : IsYearDay(t, r)
<1> DEFINE S == {n \in Nat : (\E r : IsYearDay(n, r)) /\ (\E r : IsYearDay(0 - n, r))}
<1>1. 0 \in S
  <2>1. NewYearsDay(1970) = 0
    BY DEF NewYearsDay, LeapsBefore
  <2>2. IsYearDay(0, [year |-> 1970, day |-> 0])
    BY <2>1 DEF IsYearDay, YearDays, YearLength
  <2>3. 0 - 0 = 0
    OBVIOUS
  <2>4. QED
    BY <2>2, <2>3
<1>2. ASSUME NEW n \in Nat, n \in S PROVE n + 1 \in S
  <2>1. n \in Nat /\ n \in Int /\ 0 - n \in Int /\ 0 - (n + 1) = (0 - n) - 1 /\ n + 1 \in Nat
    OBVIOUS
  <2>2. (\E q : IsYearDay(n + 1, q)) /\ (\E q : IsYearDay((0 - n) - 1, q))
    BY <1>2, <2>1, NextYearDay
  <2>3. QED
    BY <2>1, <2>2
<1>3. \A n \in Nat : n \in S
  <2> HIDE DEF S
  <2>1. QED
    BY <1>1, <1>2, NatInSet
<1>4. CASE t >= 0
  BY <1>3, <1>4
<1>5. CASE t < 0
  <2>1. 0 - t \in Nat /\ 0 - (0 - t) = t
    BY <1>5
  <2>2. QED
    BY <1>3, <2>1
<1>6. QED
  BY <1>4, <1>5

(***************************************************************************)
(* Clock_Epoch2YearDay.                                                    *)
(***************************************************************************)

(* As many years as fit, from a leap year on or up to one, are as long as  *)
(* they are taken to be.                                                   *)
LEMMA LeapJump ==
    ASSUME NEW y \in Int, NEW n \in Nat
    PROVE  /\ LeapStep(n) \in 1 .. 4
           /\ n >= 366 => DaysOf(LeapStep(n)) \in 366 .. n
           /\ \A k \in 1 .. 4 :
                 /\ IsLeap(y) => NewYearsDay(y + k) = NewYearsDay(y) + DaysOf(k)
                 /\ IsLeap(y - 1) => NewYearsDay(y - k) = NewYearsDay(y) - DaysOf(k)
<1>1. LeapStep(n) \in 1 .. 4
  BY DEF LeapStep
<1>2. n >= 366 => DaysOf(LeapStep(n)) \in 366 .. n
  BY DEF LeapStep, DaysOf
<1>3. ASSUME NEW k \in 1 .. 4, IsLeap(y) PROVE NewYearsDay(y + k) = NewYearsDay(y) + DaysOf(k)
  <2>1. /\ YearLength(y) = 366 /\ YearLength(y + 1) = 365
        /\ YearLength(y + 2) = 365 /\ YearLength(y + 3) = 365
    BY <1>3, LeapsAreApart DEF YearLength
  <2>2. /\ NewYearsDay(y) \in Int /\ NewYearsDay(y + 1) = NewYearsDay(y) + 366
        /\ NewYearsDay(y + 2) = NewYearsDay(y) + 731
        /\ NewYearsDay(y + 3) = NewYearsDay(y) + 1096
        /\ NewYearsDay(y + 4) = NewYearsDay(y) + 1461
    BY <2>1, NextNewYear, (y + 1) + 1 = y + 2, (y + 2) + 1 = y + 3, (y + 3) + 1 = y + 4,
       y + 1 \in Int, y + 2 \in Int, y + 3 \in Int
  <2>3. k = 1 \/ k = 2 \/ k = 3 \/ k = 4
    OBVIOUS
  <2>4. QED
    BY <2>2, <2>3 DEF DaysOf
<1>4. ASSUME NEW k \in 1 .. 4, IsLeap(y - 1) PROVE NewYearsDay(y - k) = NewYearsDay(y) - DaysOf(k)
  <2>0. y - 1 \in Int /\ y - 2 \in Int /\ y - 3 \in Int /\ y - 4 \in Int
        /\ (y - 1) - 1 = y - 2 /\ (y - 1) - 2 = y - 3 /\ (y - 1) - 3 = y - 4
    OBVIOUS
  <2>1. /\ YearLength(y - 1) = 366 /\ YearLength(y - 2) = 365
        /\ YearLength(y - 3) = 365 /\ YearLength(y - 4) = 365
    <3>1. ~IsLeap((y - 1) - 1) /\ ~IsLeap((y - 1) - 2) /\ ~IsLeap((y - 1) - 3)
      BY <1>4, <2>0, LeapsAreApart
    <3>2. QED
      BY <1>4, <2>0, <3>1 DEF YearLength
  <2>2. /\ NewYearsDay(y) \in Int /\ NewYearsDay(y - 1) = NewYearsDay(y) - 366
        /\ NewYearsDay(y - 2) = NewYearsDay(y) - 731
        /\ NewYearsDay(y - 3) = NewYearsDay(y) - 1096
        /\ NewYearsDay(y - 4) = NewYearsDay(y) - 1461
    BY <2>0, <2>1, NextNewYear, (y - 1) + 1 = y, (y - 2) + 1 = y - 1, (y - 3) + 1 = y - 2,
       (y - 4) + 1 = y - 3
  <2>3. k = 1 \/ k = 2 \/ k = 3 \/ k = 4
    OBVIOUS
  <2>4. QED
    BY <2>2, <2>3 DEF DaysOf
<1>5. QED
  BY <1>1, <1>2, <1>3, <1>4

TheYearDay(t) == CHOOSE r : IsYearDay(t, r)

LEMMA TheYearDayIs ==
    ASSUME NEW t \in Int
    PROVE  /\ IsYearDay(t, TheYearDay(t))
           /\ \A r : IsYearDay(t, r) => r = TheYearDay(t)
<1>1. IsYearDay(t, TheYearDay(t))
  BY SomeYearDay, Zenon DEF TheYearDay
<1>2. QED
  BY <1>1, OneYearDay, Zenon

(* Where the walk forward ends.                                            *)
WithinYear(n, year) == IF n = 365 /\ ~ISLEAPYEAR(year) THEN [year |-> year + 1, day |-> 0]
                                                       ELSE [year |-> year, day |-> n]

(* The walk forward satisfies its equation, and so finds the year and the  *)
(* day of the year.                                                        *)
LEMMA ForwardMeets ==
    ASSUME NEW n \in Nat, NEW year \in Int
    PROVE  /\ n < 366 =>
                 IsYearDay(NewYearsDay(year) + n, WithinYear(n, year))
           /\ n >= 366 /\ ISLEAPYEAR(year) =>
                 /\ LeapStep(n) \in 1 .. 4
                 /\ n - DaysOf(LeapStep(n)) \in 0 .. n - 1
                 /\ NewYearsDay(year + LeapStep(n)) + (n - DaysOf(LeapStep(n))) = NewYearsDay(year) + n
           /\ n >= 366 /\ ~ISLEAPYEAR(year) =>
                 NewYearsDay(year + 1) + (n - 365) = NewYearsDay(year) + n
<1>1. ISLEAPYEAR(year) <=> IsLeap(year)
  BY LeapYears
<1>2. NewYearsDay(year) \in Int /\ NewYearsDay(year + 1) = NewYearsDay(year) + YearLength(year)
  BY NextNewYear
<1>3. YearLength(year) = (IF IsLeap(year) THEN 366 ELSE 365) /\ YearLength(year + 1) > 0
  BY DEF YearLength
<1>4. ASSUME n < 366
      PROVE  IsYearDay(NewYearsDay(year) + n, WithinYear(n, year))
  BY <1>1, <1>2, <1>3, <1>4 DEF WithinYear, IsYearDay, YearDays
<1>5. ASSUME n >= 366, ISLEAPYEAR(year)
      PROVE  /\ LeapStep(n) \in 1 .. 4
             /\ n - DaysOf(LeapStep(n)) \in 0 .. n - 1
             /\ NewYearsDay(year + LeapStep(n)) + (n - DaysOf(LeapStep(n))) = NewYearsDay(year) + n
  <2>1. PICK k \in 1 .. 4 : k = LeapStep(n)
    BY LeapJump
  <2>2. PICK d \in 366 .. n : d = DaysOf(k)
    BY <1>5, <2>1, LeapJump
  <2>3. NewYearsDay(year + k) = NewYearsDay(year) + d
    BY <1>1, <1>5, <2>2, LeapJump
  <2>4. QED
    BY <1>2, <2>1, <2>2, <2>3
<1>6. ASSUME n >= 366, ~ISLEAPYEAR(year)
      PROVE  NewYearsDay(year + 1) + (n - 365) = NewYearsDay(year) + n
  BY <1>1, <1>2, <1>3, <1>6
<1>7. QED
  BY <1>4, <1>5, <1>6

LEMMA ForwardEquation ==
    ASSUME NEW n \in Nat, NEW year \in Int
    PROVE  /\ n < 366 => YearsForward[n][year] = WithinYear(n, year)
           /\ ~(n < 366) /\ ISLEAPYEAR(year) =>
                 YearsForward[n][year] = YearsForward[n - DaysOf(LeapStep(n))][year + LeapStep(n)]
           /\ ~(n < 366) /\ ~ISLEAPYEAR(year) =>
                 YearsForward[n][year] = YearsForward[n - 365][year + 1]
<1> DEFINE E(f, i, y) ==
              IF i < 366 THEN WithinYear(i, y)
              ELSE IF ISLEAPYEAR(y) THEN f[i - DaysOf(LeapStep(i))][y + LeapStep(i)]
                                    ELSE f[i - 365][y + 1]
           Body(f) == [i \in Nat |-> [y \in Int |-> E(f, i, y)]]
           g == [i \in Nat |-> [y \in Int |-> TheYearDay(NewYearsDay(y) + i)]]
<1>1. YearsForward = CHOOSE f : f = Body(f)
  BY Zenon DEF YearsForward, WithinYear
<1>2. ASSUME NEW i \in Nat, NEW y \in Int
      PROVE  E(g, i, y) = TheYearDay(NewYearsDay(y) + i)
  <2>1. NewYearsDay(y) \in Int /\ NewYearsDay(y) + i \in Int
    BY NextNewYear
  <2>2. CASE i < 366
    BY <2>1, <2>2, ForwardMeets, TheYearDayIs
  <2>3. CASE i >= 366 /\ ISLEAPYEAR(y)
    <3>0. i - DaysOf(LeapStep(i)) \in Nat /\ y + LeapStep(i) \in Int
      <4>1. LeapStep(i) \in 1 .. 4 /\ i - DaysOf(LeapStep(i)) \in 0 .. i - 1
        BY <2>3, ForwardMeets
      <4>2. QED
        BY <4>1
    <3>1. PICK m \in Nat, z \in Int : m = i - DaysOf(LeapStep(i)) /\ z = y + LeapStep(i)
      BY <3>0, Zenon
    <3>2. NewYearsDay(z) + m = NewYearsDay(y) + i
      BY <2>3, <3>1, ForwardMeets
    <3>3. g[m][z] = TheYearDay(NewYearsDay(z) + m)
      OBVIOUS
    <3>4. QED
      BY <2>3, <3>1, <3>2, <3>3
  <2>4. CASE i >= 366 /\ ~ISLEAPYEAR(y)
    <3>1. PICK m \in Nat, z \in Int : m = i - 365 /\ z = y + 1
      BY <2>4
    <3>2. NewYearsDay(z) + m = NewYearsDay(y) + i
      BY <2>4, <3>1, ForwardMeets
    <3>3. g[m][z] = TheYearDay(NewYearsDay(z) + m)
      OBVIOUS
    <3>4. QED
      BY <2>4, <3>1, <3>2, <3>3
  <2>5. QED
    BY <2>2, <2>3, <2>4
<1>3. g = Body(g)
  <2> HIDE DEF E
  <2>1. \A i \in Nat : [y \in Int |-> TheYearDay(NewYearsDay(y) + i)] = [y \in Int |-> E(g, i, y)]
    <3> HIDE DEF g
    <3>1. QED
      BY <1>2
  <2> DEFINE h == g
  <2>2. \A i \in Nat : [y \in Int |-> TheYearDay(NewYearsDay(y) + i)] = [y \in Int |-> E(h, i, y)]
    BY <2>1, Zenon
  <2> HIDE DEF h
  <2>3. g = [i \in Nat |-> [y \in Int |-> E(h, i, y)]]
    BY <2>2, Zenon
  <2>4. QED
    BY <2>3, Zenon DEF h
<1> HIDE DEF E, Body, g
<1>4. YearsForward = Body(YearsForward)
  BY <1>1, <1>3, Zenon
<1>5. YearsForward = [i \in Nat |-> [y \in Int |-> E(YearsForward, i, y)]]
  BY <1>4, Zenon DEF Body
<1> DEFINE F == YearsForward
<1>6. F = [i \in Nat |-> [y \in Int |-> E(YearsForward, i, y)]]
  BY <1>5, Zenon
<1>7. YearsForward[n][year] = E(YearsForward, n, year)
  <2>1. F[n][year] = E(YearsForward, n, year)
    <3> HIDE DEF F
    <3>1. QED
      BY <1>6
  <2>2. QED
    BY <2>1, Zenon
<1>8. QED
  BY <1>7, Zenon DEF E

LEMMA ForwardIs ==
    \A n \in Nat, year \in Int : IsYearDay(NewYearsDay(year) + n, YearsForward[n][year])
<1> DEFINE Found(n) == \A year \in Int : IsYearDay(NewYearsDay(year) + n, YearsForward[n][year])
           S == {m \in Nat : \A n \in 0 .. m : Found(n)}
<1>1. ASSUME NEW n \in Nat, \A m \in 0 .. n - 1 : Found(m) PROVE Found(n)
  <2>1. SUFFICES ASSUME NEW year \in Int
                 PROVE  IsYearDay(NewYearsDay(year) + n, YearsForward[n][year])
    OBVIOUS
  <2>2. CASE n < 366
    <3>1. YearsForward[n][year] = WithinYear(n, year)
      BY <2>2, ForwardEquation
    <3>2. IsYearDay(NewYearsDay(year) + n, WithinYear(n, year))
      BY <2>2, ForwardMeets
    <3>3. QED
      BY <3>1, <3>2, Zenon
  <2>3. CASE n >= 366 /\ ISLEAPYEAR(year)
    <3>1. LeapStep(n) \in 1 .. 4 /\ n - DaysOf(LeapStep(n)) \in 0 .. n - 1
      BY <2>3, ForwardMeets
    <3>2. PICK m \in 0 .. n - 1, y \in Int : m = n - DaysOf(LeapStep(n)) /\ y = year + LeapStep(n)
      <4>1. year + LeapStep(n) \in Int
        BY <3>1
      <4>2. QED
        BY <3>1, <4>1, Zenon
    <3>3. NewYearsDay(y) + m = NewYearsDay(year) + n
      BY <2>3, <3>2, ForwardMeets
    <3>4. YearsForward[n][year] = YearsForward[m][y]
      <4>1. ~(n < 366)
        BY <2>3
      <4>2. QED
        BY <2>3, <3>2, <4>1, ForwardEquation, Zenon
    <3>5. QED
      BY <1>1, <3>3, <3>4
  <2>4. CASE n >= 366 /\ ~ISLEAPYEAR(year)
    <3>1. PICK m \in 0 .. n - 1, y \in Int : m = n - 365 /\ y = year + 1
      BY <2>4
    <3>2. NewYearsDay(y) + m = NewYearsDay(year) + n
      BY <2>4, <3>1, ForwardMeets
    <3>3. YearsForward[n][year] = YearsForward[m][y]
      <4>1. ~(n < 366)
        BY <2>4
      <4>2. QED
        BY <2>4, <3>1, <4>1, ForwardEquation
    <3>4. QED
      BY <1>1, <3>2, <3>3
  <2>5. QED
    BY <2>2, <2>3, <2>4
<1> HIDE DEF Found
<1>2. 0 \in S
  BY <1>1
<1>3. ASSUME NEW m \in Nat, m \in S PROVE m + 1 \in S
  <2>1. \A n \in 0 .. (m + 1) - 1 : Found(n)
    BY <1>3
  <2>2. Found(m + 1)
    BY <1>1, <2>1
  <2>3. QED
    BY <1>3, <2>2
<1>4. \A m \in Nat : m \in S
  <2> HIDE DEF S
  <2>1. QED
    BY <1>2, <1>3, NatInSet
<1>5. QED
  BY <1>4 DEF Found

(* Where the walk back ends.                                            *)
YearBefore(n, year) ==
    IF n > 0 THEN [year |-> year - 1, day |-> (IF ISLEAPYEAR(year - 1) THEN 366 ELSE 365) - n]
             ELSE [year |-> year, day |-> 0]

(* The walk back satisfies its equation, and so finds the year and the  *)
(* day of the year.                                                        *)
LEMMA BackMeets ==
    ASSUME NEW n \in Nat, NEW year \in Int
    PROVE  /\ n < 366 =>
                 IsYearDay(NewYearsDay(year) - n, YearBefore(n, year))
           /\ n >= 366 /\ ISLEAPYEAR(year - 1) =>
                 /\ LeapStep(n) \in 1 .. 4
                 /\ n - DaysOf(LeapStep(n)) \in 0 .. n - 1
                 /\ NewYearsDay(year - LeapStep(n)) - (n - DaysOf(LeapStep(n))) = NewYearsDay(year) - n
           /\ n >= 366 /\ ~ISLEAPYEAR(year - 1) =>
                 NewYearsDay(year - 1) - (n - 365) = NewYearsDay(year) - n
<1>1. ISLEAPYEAR(year - 1) <=> IsLeap(year - 1)
  BY LeapYears, year - 1 \in Int
<1>2. /\ NewYearsDay(year) \in Int /\ NewYearsDay(year - 1) \in Int
      /\ NewYearsDay(year) = NewYearsDay(year - 1) + YearLength(year - 1)
  BY NextNewYear, (year - 1) + 1 = year, year - 1 \in Int
<1>3. YearLength(year - 1) = (IF IsLeap(year - 1) THEN 366 ELSE 365) /\ YearLength(year) > 0
  BY DEF YearLength
<1>4. ASSUME n < 366
      PROVE  IsYearDay(NewYearsDay(year) - n, YearBefore(n, year))
  <2>1. CASE n = 0
    BY <1>2, <1>3, <2>1 DEF YearBefore, IsYearDay, YearDays
  <2>2. CASE n > 0 /\ IsLeap(year - 1)
    BY <1>1, <1>2, <1>3, <1>4, <2>2 DEF YearBefore, IsYearDay, YearDays
  <2>3. CASE n > 0 /\ ~IsLeap(year - 1)
    BY <1>1, <1>2, <1>3, <1>4, <2>3 DEF YearBefore, IsYearDay, YearDays
  <2>4. QED
    BY <2>1, <2>2, <2>3
<1>5. ASSUME n >= 366, ISLEAPYEAR(year - 1)
      PROVE  /\ LeapStep(n) \in 1 .. 4
             /\ n - DaysOf(LeapStep(n)) \in 0 .. n - 1
             /\ NewYearsDay(year - LeapStep(n)) - (n - DaysOf(LeapStep(n))) = NewYearsDay(year) - n
  <2>1. PICK k \in 1 .. 4 : k = LeapStep(n)
    BY LeapJump
  <2>2. PICK d \in 366 .. n : d = DaysOf(k)
    BY <1>5, <2>1, LeapJump
  <2>3. NewYearsDay(year - k) = NewYearsDay(year) - d
    BY <1>1, <1>5, <2>2, LeapJump
  <2>4. QED
    BY <1>2, <2>1, <2>2, <2>3
<1>6. ASSUME n >= 366, ~ISLEAPYEAR(year - 1)
      PROVE  NewYearsDay(year - 1) - (n - 365) = NewYearsDay(year) - n
  BY <1>1, <1>2, <1>3, <1>6
<1>7. QED
  BY <1>4, <1>5, <1>6

LEMMA BackEquation ==
    ASSUME NEW n \in Nat, NEW year \in Int
    PROVE  /\ n < 366 => YearsBack[n][year] = YearBefore(n, year)
           /\ ~(n < 366) /\ ISLEAPYEAR(year - 1) =>
                 YearsBack[n][year] = YearsBack[n - DaysOf(LeapStep(n))][year - LeapStep(n)]
           /\ ~(n < 366) /\ ~ISLEAPYEAR(year - 1) =>
                 YearsBack[n][year] = YearsBack[n - 365][year - 1]
<1> DEFINE E(f, i, y) ==
              IF i < 366 THEN YearBefore(i, y)
              ELSE IF ISLEAPYEAR(y - 1) THEN f[i - DaysOf(LeapStep(i))][y - LeapStep(i)]
                                    ELSE f[i - 365][y - 1]
           Body(f) == [i \in Nat |-> [y \in Int |-> E(f, i, y)]]
           g == [i \in Nat |-> [y \in Int |-> TheYearDay(NewYearsDay(y) - i)]]
<1>1. YearsBack = CHOOSE f : f = Body(f)
  BY Zenon DEF YearsBack, YearBefore
<1>2. ASSUME NEW i \in Nat, NEW y \in Int
      PROVE  E(g, i, y) = TheYearDay(NewYearsDay(y) - i)
  <2>1. NewYearsDay(y) \in Int /\ NewYearsDay(y) - i \in Int
    BY NextNewYear
  <2>2. CASE i < 366
    BY <2>1, <2>2, BackMeets, TheYearDayIs
  <2>3. CASE i >= 366 /\ ISLEAPYEAR(y - 1)
    <3>0. i - DaysOf(LeapStep(i)) \in Nat /\ y - LeapStep(i) \in Int
      <4>1. LeapStep(i) \in 1 .. 4 /\ i - DaysOf(LeapStep(i)) \in 0 .. i - 1
        BY <2>3, BackMeets
      <4>2. QED
        BY <4>1
    <3>1. PICK m \in Nat, z \in Int : m = i - DaysOf(LeapStep(i)) /\ z = y - LeapStep(i)
      BY <3>0, Zenon
    <3>2. NewYearsDay(z) - m = NewYearsDay(y) - i
      BY <2>3, <3>1, BackMeets
    <3>3. g[m][z] = TheYearDay(NewYearsDay(z) - m)
      OBVIOUS
    <3>4. QED
      BY <2>3, <3>1, <3>2, <3>3
  <2>4. CASE i >= 366 /\ ~ISLEAPYEAR(y - 1)
    <3>1. PICK m \in Nat, z \in Int : m = i - 365 /\ z = y - 1
      BY <2>4
    <3>2. NewYearsDay(z) - m = NewYearsDay(y) - i
      BY <2>4, <3>1, BackMeets
    <3>3. g[m][z] = TheYearDay(NewYearsDay(z) - m)
      OBVIOUS
    <3>4. QED
      BY <2>4, <3>1, <3>2, <3>3
  <2>5. QED
    BY <2>2, <2>3, <2>4
<1>3. g = Body(g)
  <2> HIDE DEF E
  <2>1. \A i \in Nat : [y \in Int |-> TheYearDay(NewYearsDay(y) - i)] = [y \in Int |-> E(g, i, y)]
    <3> HIDE DEF g
    <3>1. QED
      BY <1>2
  <2> DEFINE h == g
  <2>2. \A i \in Nat : [y \in Int |-> TheYearDay(NewYearsDay(y) - i)] = [y \in Int |-> E(h, i, y)]
    BY <2>1, Zenon
  <2> HIDE DEF h
  <2>3. g = [i \in Nat |-> [y \in Int |-> E(h, i, y)]]
    BY <2>2, Zenon
  <2>4. QED
    BY <2>3, Zenon DEF h
<1> HIDE DEF E, Body, g
<1>4. YearsBack = Body(YearsBack)
  BY <1>1, <1>3, Zenon
<1>5. YearsBack = [i \in Nat |-> [y \in Int |-> E(YearsBack, i, y)]]
  BY <1>4, Zenon DEF Body
<1> DEFINE F == YearsBack
<1>6. F = [i \in Nat |-> [y \in Int |-> E(YearsBack, i, y)]]
  BY <1>5, Zenon
<1>7. YearsBack[n][year] = E(YearsBack, n, year)
  <2>1. F[n][year] = E(YearsBack, n, year)
    <3> HIDE DEF F
    <3>1. QED
      BY <1>6
  <2>2. QED
    BY <2>1, Zenon
<1>8. QED
  BY <1>7, Zenon DEF E

LEMMA BackIs ==
    \A n \in Nat, year \in Int : IsYearDay(NewYearsDay(year) - n, YearsBack[n][year])
<1> DEFINE Found(n) == \A year \in Int : IsYearDay(NewYearsDay(year) - n, YearsBack[n][year])
           S == {m \in Nat : \A n \in 0 .. m : Found(n)}
<1>1. ASSUME NEW n \in Nat, \A m \in 0 .. n - 1 : Found(m) PROVE Found(n)
  <2>1. SUFFICES ASSUME NEW year \in Int
                 PROVE  IsYearDay(NewYearsDay(year) - n, YearsBack[n][year])
    OBVIOUS
  <2>2. CASE n < 366
    <3>1. YearsBack[n][year] = YearBefore(n, year)
      BY <2>2, BackEquation
    <3>2. IsYearDay(NewYearsDay(year) - n, YearBefore(n, year))
      BY <2>2, BackMeets
    <3>3. QED
      BY <3>1, <3>2, Zenon
  <2>3. CASE n >= 366 /\ ISLEAPYEAR(year - 1)
    <3>1. LeapStep(n) \in 1 .. 4 /\ n - DaysOf(LeapStep(n)) \in 0 .. n - 1
      BY <2>3, BackMeets
    <3>2. PICK m \in 0 .. n - 1, y \in Int : m = n - DaysOf(LeapStep(n)) /\ y = year - LeapStep(n)
      <4>1. year - LeapStep(n) \in Int
        BY <3>1
      <4>2. QED
        BY <3>1, <4>1, Zenon
    <3>3. NewYearsDay(y) - m = NewYearsDay(year) - n
      BY <2>3, <3>2, BackMeets
    <3>4. YearsBack[n][year] = YearsBack[m][y]
      <4>1. ~(n < 366)
        BY <2>3
      <4>2. QED
        BY <2>3, <3>2, <4>1, BackEquation, Zenon
    <3>5. QED
      BY <1>1, <3>3, <3>4
  <2>4. CASE n >= 366 /\ ~ISLEAPYEAR(year - 1)
    <3>1. PICK m \in 0 .. n - 1, y \in Int : m = n - 365 /\ y = year - 1
      BY <2>4
    <3>2. NewYearsDay(y) - m = NewYearsDay(year) - n
      BY <2>4, <3>1, BackMeets
    <3>3. YearsBack[n][year] = YearsBack[m][y]
      <4>1. ~(n < 366)
        BY <2>4
      <4>2. QED
        BY <2>4, <3>1, <4>1, BackEquation
    <3>4. QED
      BY <1>1, <3>2, <3>3
  <2>5. QED
    BY <2>2, <2>3, <2>4
<1> HIDE DEF Found
<1>2. 0 \in S
  BY <1>1
<1>3. ASSUME NEW m \in Nat, m \in S PROVE m + 1 \in S
  <2>1. \A n \in 0 .. (m + 1) - 1 : Found(n)
    BY <1>3
  <2>2. Found(m + 1)
    BY <1>1, <2>1
  <2>3. QED
    BY <1>3, <2>2
<1>4. \A m \in Nat : m \in S
  <2> HIDE DEF S
  <2>1. QED
    BY <1>2, <1>3, NatInSet
<1>5. QED
  BY <1>4 DEF Found

(* Clock_Epoch2YearDay finds the year of any day, and the day of the year. *)
LEMMA EpochIs ==
    ASSUME NEW t \in Int
    PROVE  IsYearDay(t, Clock_Epoch2YearDay(t))
<1>1. PICK p \in Int : p = CDiv(t, PERIOD_YEARS)
  BY DEF CDiv, PERIOD_YEARS
<1>2. PICK l \in Int : l = t - PERIOD_YEARS * p
  BY DEF PERIOD_YEARS
<1>3. PICK y \in Int : y = 1970 + 400 * p
  OBVIOUS
<1>4. NewYearsDay(y) + l = t
  BY <1>2, <1>3, PeriodDays DEF PERIOD_YEARS
<1>5. Clock_Epoch2YearDay(t) = IF l >= 0 THEN YearsForward[l][y] ELSE YearsBack[-l][y]
  BY <1>1, <1>2, <1>3 DEF Clock_Epoch2YearDay
<1>6. CASE l >= 0
  <2>1. Clock_Epoch2YearDay(t) = YearsForward[l][y]
    BY <1>5, <1>6
  <2>2. IsYearDay(NewYearsDay(y) + l, YearsForward[l][y])
    BY <1>6, ForwardIs
  <2>3. QED
    BY <1>4, <2>1, <2>2, Zenon
<1>7. CASE ~(l >= 0)
  <2>1. PICK n \in Nat : n = -l
    BY <1>7
  <2>2. Clock_Epoch2YearDay(t) = YearsBack[n][y]
    BY <1>5, <1>7, <2>1, Zenon
  <2>3. IsYearDay(NewYearsDay(y) - n, YearsBack[n][y])
    BY BackIs
  <2>4. NewYearsDay(y) - n = t
    BY <1>4, <2>1, NextNewYear
  <2>5. QED
    BY <2>2, <2>3, <2>4, Zenon
<1>8. QED
  BY <1>6, <1>7

(***************************************************************************)
(* Clock_ScanDate.                                                         *)
(***************************************************************************)

(* The days of the years walked through, up to a year.                     *)
UpStep(n, year) ==
    /\ NewYearsDay(year) \in Int /\ NewYearsDay(year - n) \in Int
    /\ ~ISLEAPYEAR(year - n) =>
          NewYearsDay(year - (n - 1)) = NewYearsDay(year - n) + 365
    /\ ISLEAPYEAR(year - n) =>
          /\ WalkStep(n) \in 1 .. n
          /\ DaysOf(WalkStep(n)) \in Int
          /\ NewYearsDay(year - (n - WalkStep(n))) = NewYearsDay(year - n) + DaysOf(WalkStep(n))

LEMMA UpMeets ==
    ASSUME NEW n \in Nat \ {0}, NEW year \in Int
    PROVE  UpStep(n, year)
<1>1. PICK y \in Int : y = year - n
  OBVIOUS
<1>2. PICK k \in 1 .. 4 : k = WalkStep(n) /\ k <= n
  BY DEF WalkStep
<1>3. year - (n - 1) = y + 1 /\ year - (n - k) = y + k
  BY <1>1
<1>4. NewYearsDay(year) \in Int /\ NewYearsDay(y) \in Int /\ NewYearsDay(y + 1) = NewYearsDay(y) + YearLength(y)
  BY NextNewYear
<1>5. ~ISLEAPYEAR(y) => NewYearsDay(y + 1) = NewYearsDay(y) + 365
  BY <1>4, LeapYears DEF YearLength
<1>6. ISLEAPYEAR(y) => NewYearsDay(y + k) = NewYearsDay(y) + DaysOf(k)
  BY LeapJump, LeapYears
<1>7. k \in 1 .. n
  BY <1>2
<1>7a. DaysOf(k) \in Int
  BY DEF DaysOf
<1>8. QED
  BY <1>1, <1>2, <1>3, <1>4, <1>5, <1>6, <1>7, <1>7a, Zenon DEF UpStep

LEMMA UpEquation ==
    ASSUME NEW n \in Nat, NEW year \in Int
    PROVE  /\ n = 0 => DaysUp[n][year] = 0
           /\ n # 0 /\ ~ISLEAPYEAR(year - n) => DaysUp[n][year] = 365 + DaysUp[n - 1][year]
           /\ n # 0 /\ ISLEAPYEAR(year - n) =>
                 DaysUp[n][year] = DaysOf(WalkStep(n)) + DaysUp[n - WalkStep(n)][year]
<1> DEFINE E(f, i, y) == IF i = 0 THEN 0
                         ELSE IF ~ISLEAPYEAR(y - i) THEN 365 + f[i - 1][y]
                         ELSE DaysOf(WalkStep(i)) + f[i - WalkStep(i)][y]
           Body(f) == [i \in Nat |-> [y \in Int |-> E(f, i, y)]]
           g == [i \in Nat |-> [y \in Int |-> NewYearsDay(y) - NewYearsDay(y - i)]]
<1>1. DaysUp = CHOOSE f : f = Body(f)
  BY Zenon DEF DaysUp
<1>2. ASSUME NEW i \in Nat, NEW y \in Int
      PROVE  E(g, i, y) = NewYearsDay(y) - NewYearsDay(y - i)
  <2>1. CASE i = 0
    BY <2>1, NextNewYear, y - 0 = y
  <2>1a. i # 0 => UpStep(i, y)
    BY UpMeets
  <2>2. CASE i # 0 /\ ~ISLEAPYEAR(y - i)
    <3>1. PICK m \in Nat : m = i - 1
      BY <2>2
    <3>2. g[m][y] = NewYearsDay(y) - NewYearsDay(y - m)
      OBVIOUS
    <3>3. /\ NewYearsDay(y) \in Int /\ NewYearsDay(y - i) \in Int
          /\ NewYearsDay(y - m) = NewYearsDay(y - i) + 365
      BY <2>1a, <2>2, <3>1 DEF UpStep
    <3>4. E(g, i, y) = 365 + g[m][y]
      <4> HIDE DEF g
      <4>1. QED
        BY <2>2, <3>1
    <3>5. QED
      <4> HIDE DEF E, g
      <4>1. QED
        BY <3>2, <3>3, <3>4
  <2>3. CASE i # 0 /\ ISLEAPYEAR(y - i)
    <3>0. WalkStep(i) \in 1 .. i /\ DaysOf(WalkStep(i)) \in Int
      BY <2>1a, <2>3 DEF UpStep
    <3>1. PICK m \in Nat : m = i - WalkStep(i)
      BY <3>0
    <3>2. g[m][y] = NewYearsDay(y) - NewYearsDay(y - m)
      OBVIOUS
    <3>3. /\ NewYearsDay(y) \in Int /\ NewYearsDay(y - i) \in Int
          /\ NewYearsDay(y - m) = NewYearsDay(y - i) + DaysOf(WalkStep(i))
      BY <2>1a, <2>3, <3>1 DEF UpStep
    <3>4. E(g, i, y) = DaysOf(WalkStep(i)) + g[m][y]
      <4> HIDE DEF g
      <4>1. QED
        BY <2>3, <3>1
    <3>5. QED
      <4> HIDE DEF E, g
      <4>1. QED
        BY <3>0, <3>2, <3>3, <3>4
  <2>4. QED
    BY <2>1, <2>2, <2>3
<1>3. g = Body(g)
  <2> HIDE DEF E
  <2>1. \A i \in Nat : [y \in Int |-> NewYearsDay(y) - NewYearsDay(y - i)] = [y \in Int |-> E(g, i, y)]
    <3> HIDE DEF g
    <3>1. QED
      BY <1>2
  <2> DEFINE h == g
  <2>2. \A i \in Nat : [y \in Int |-> NewYearsDay(y) - NewYearsDay(y - i)] = [y \in Int |-> E(h, i, y)]
    BY <2>1, Zenon
  <2> HIDE DEF h
  <2>3. g = [i \in Nat |-> [y \in Int |-> E(h, i, y)]]
    BY <2>2, Zenon
  <2>4. QED
    BY <2>3, Zenon DEF h
<1> HIDE DEF E, Body, g
<1>4. DaysUp = Body(DaysUp)
  BY <1>1, <1>3, Zenon
<1>5. DaysUp = [i \in Nat |-> [y \in Int |-> E(DaysUp, i, y)]]
  BY <1>4, Zenon DEF Body
<1> DEFINE F == DaysUp
<1>6. F = [i \in Nat |-> [y \in Int |-> E(DaysUp, i, y)]]
  BY <1>5, Zenon
<1>7. DaysUp[n][year] = E(DaysUp, n, year)
  <2>1. F[n][year] = E(DaysUp, n, year)
    <3> HIDE DEF F
    <3>1. QED
      BY <1>6
  <2>2. QED
    BY <2>1, Zenon
<1>8. QED
  BY <1>7, Zenon DEF E

LEMMA UpIs ==
    \A n \in Nat, year \in Int : DaysUp[n][year] = NewYearsDay(year) - NewYearsDay(year - n)
<1> DEFINE Counted(n) == \A year \in Int : DaysUp[n][year] = NewYearsDay(year) - NewYearsDay(year - n)
           S == {m \in Nat : \A n \in 0 .. m : Counted(n)}
<1>1. ASSUME NEW n \in Nat, \A m \in 0 .. n - 1 : Counted(m) PROVE Counted(n)
  <2>1. SUFFICES ASSUME NEW year \in Int
                 PROVE  DaysUp[n][year] = NewYearsDay(year) - NewYearsDay(year - n)
    OBVIOUS
  <2>2. CASE n = 0
    BY <2>2, UpEquation, NextNewYear, year - 0 = year
  <2>2a. n # 0 => UpStep(n, year)
    BY UpMeets
  <2>3. CASE n # 0 /\ ISLEAPYEAR(year - n)
    <3>1. WalkStep(n) \in 1 .. n /\ DaysOf(WalkStep(n)) \in Int
      BY <2>2a, <2>3 DEF UpStep
    <3>2. PICK m \in 0 .. n - 1 : m = n - WalkStep(n)
      BY <3>1
    <3>3. /\ NewYearsDay(year) \in Int /\ NewYearsDay(year - n) \in Int
          /\ NewYearsDay(year - m) = NewYearsDay(year - n) + DaysOf(WalkStep(n))
      BY <2>2a, <2>3, <3>2 DEF UpStep
    <3>4. DaysUp[n][year] = DaysOf(WalkStep(n)) + DaysUp[m][year]
      BY <2>3, <3>2, UpEquation
    <3>5. DaysUp[m][year] = NewYearsDay(year) - NewYearsDay(year - m)
      BY <1>1
    <3>6. QED
      BY <3>1, <3>3, <3>4, <3>5
  <2>4. CASE n # 0 /\ ~ISLEAPYEAR(year - n)
    <3>1. PICK m \in 0 .. n - 1 : m = n - 1
      BY <2>4
    <3>2. /\ NewYearsDay(year) \in Int /\ NewYearsDay(year - n) \in Int
          /\ NewYearsDay(year - m) = NewYearsDay(year - n) + 365
      BY <2>2a, <2>4, <3>1 DEF UpStep
    <3>3. DaysUp[n][year] = 365 + DaysUp[m][year]
      BY <2>4, <3>1, UpEquation
    <3>4. DaysUp[m][year] = NewYearsDay(year) - NewYearsDay(year - m)
      BY <1>1
    <3>5. QED
      BY <3>2, <3>3, <3>4
  <2>5. QED
    BY <2>2, <2>3, <2>4
<1> HIDE DEF Counted
<1>2. 0 \in S
  BY <1>1
<1>3. ASSUME NEW m \in Nat, m \in S PROVE m + 1 \in S
  <2>1. \A n \in 0 .. (m + 1) - 1 : Counted(n)
    BY <1>3
  <2>2. Counted(m + 1)
    BY <1>1, <2>1
  <2>3. QED
    BY <1>3, <2>2
<1>4. \A m \in Nat : m \in S
  <2> HIDE DEF S
  <2>1. QED
    BY <1>2, <1>3, NatInSet
<1>5. QED
  BY <1>4 DEF Counted

(* The days of the years walked through, down to a year.                     *)
DownStep(n, year) ==
    /\ NewYearsDay(year) \in Int /\ NewYearsDay(year + n) \in Int
    /\ ~ISLEAPYEAR(year + n - 1) =>
          NewYearsDay(year + (n - 1)) = NewYearsDay(year + n) - 365
    /\ ISLEAPYEAR(year + n - 1) =>
          /\ WalkStep(n) \in 1 .. n
          /\ DaysOf(WalkStep(n)) \in Int
          /\ NewYearsDay(year + (n - WalkStep(n))) = NewYearsDay(year + n) - DaysOf(WalkStep(n))

LEMMA DownMeets ==
    ASSUME NEW n \in Nat \ {0}, NEW year \in Int
    PROVE  DownStep(n, year)
<1>1. PICK y \in Int : y = year + n
  OBVIOUS
<1>2. PICK k \in 1 .. 4 : k = WalkStep(n) /\ k <= n
  BY DEF WalkStep
<1>3. /\ year + (n - 1) = y - 1 /\ year + (n - k) = y - k /\ year + n - 1 = y - 1
      /\ y - 1 \in Int /\ (y - 1) + 1 = y
  BY <1>1
<1>4. /\ NewYearsDay(year) \in Int /\ NewYearsDay(y) \in Int /\ NewYearsDay(y - 1) \in Int
      /\ NewYearsDay(y) = NewYearsDay(y - 1) + YearLength(y - 1)
  BY <1>3, NextNewYear
<1>5. ~ISLEAPYEAR(y - 1) => NewYearsDay(y - 1) = NewYearsDay(y) - 365
  BY <1>3, <1>4, LeapYears DEF YearLength
<1>6. ISLEAPYEAR(y - 1) => NewYearsDay(y - k) = NewYearsDay(y) - DaysOf(k)
  BY <1>3, LeapJump, LeapYears
<1>7. k \in 1 .. n
  BY <1>2
<1>7a. DaysOf(k) \in Int
  BY DEF DaysOf
<1>8. QED
  BY <1>1, <1>2, <1>3, <1>4, <1>5, <1>6, <1>7, <1>7a, Zenon DEF DownStep

LEMMA DownEquation ==
    ASSUME NEW n \in Nat, NEW year \in Int
    PROVE  /\ n = 0 => DaysDown[n][year] = 0
           /\ n # 0 /\ ~ISLEAPYEAR(year + n - 1) => DaysDown[n][year] = 365 + DaysDown[n - 1][year]
           /\ n # 0 /\ ISLEAPYEAR(year + n - 1) =>
                 DaysDown[n][year] = DaysOf(WalkStep(n)) + DaysDown[n - WalkStep(n)][year]
<1> DEFINE E(f, i, y) == IF i = 0 THEN 0
                         ELSE IF ~ISLEAPYEAR(y + i - 1) THEN 365 + f[i - 1][y]
                         ELSE DaysOf(WalkStep(i)) + f[i - WalkStep(i)][y]
           Body(f) == [i \in Nat |-> [y \in Int |-> E(f, i, y)]]
           g == [i \in Nat |-> [y \in Int |-> NewYearsDay(y + i) - NewYearsDay(y)]]
<1>1. DaysDown = CHOOSE f : f = Body(f)
  BY Zenon DEF DaysDown
<1>2. ASSUME NEW i \in Nat, NEW y \in Int
      PROVE  E(g, i, y) = NewYearsDay(y + i) - NewYearsDay(y)
  <2>1. CASE i = 0
    BY <2>1, NextNewYear, y + 0 = y
  <2>1a. i # 0 => DownStep(i, y)
    BY DownMeets
  <2>2. CASE i # 0 /\ ~ISLEAPYEAR(y + i - 1)
    <3>1. PICK m \in Nat : m = i - 1
      BY <2>2
    <3>2. g[m][y] = NewYearsDay(y + m) - NewYearsDay(y)
      OBVIOUS
    <3>3. /\ NewYearsDay(y) \in Int /\ NewYearsDay(y + i) \in Int
          /\ NewYearsDay(y + m) = NewYearsDay(y + i) - 365
      BY <2>1a, <2>2, <3>1 DEF DownStep
    <3>4. E(g, i, y) = 365 + g[m][y]
      <4> HIDE DEF g
      <4>1. QED
        BY <2>2, <3>1
    <3>5. QED
      <4> HIDE DEF E, g
      <4>1. QED
        BY <3>2, <3>3, <3>4
  <2>3. CASE i # 0 /\ ISLEAPYEAR(y + i - 1)
    <3>0. WalkStep(i) \in 1 .. i /\ DaysOf(WalkStep(i)) \in Int
      BY <2>1a, <2>3 DEF DownStep
    <3>1. PICK m \in Nat : m = i - WalkStep(i)
      BY <3>0
    <3>2. g[m][y] = NewYearsDay(y + m) - NewYearsDay(y)
      OBVIOUS
    <3>3. /\ NewYearsDay(y) \in Int /\ NewYearsDay(y + i) \in Int
          /\ NewYearsDay(y + m) = NewYearsDay(y + i) - DaysOf(WalkStep(i))
      BY <2>1a, <2>3, <3>1 DEF DownStep
    <3>4. E(g, i, y) = DaysOf(WalkStep(i)) + g[m][y]
      <4> HIDE DEF g
      <4>1. QED
        BY <2>3, <3>1
    <3>5. QED
      <4> HIDE DEF E, g
      <4>1. QED
        BY <3>0, <3>2, <3>3, <3>4
  <2>4. QED
    BY <2>1, <2>2, <2>3
<1>3. g = Body(g)
  <2> HIDE DEF E
  <2>1. \A i \in Nat : [y \in Int |-> NewYearsDay(y + i) - NewYearsDay(y)] = [y \in Int |-> E(g, i, y)]
    <3> HIDE DEF g
    <3>1. QED
      BY <1>2
  <2> DEFINE h == g
  <2>2. \A i \in Nat : [y \in Int |-> NewYearsDay(y + i) - NewYearsDay(y)] = [y \in Int |-> E(h, i, y)]
    BY <2>1, Zenon
  <2> HIDE DEF h
  <2>3. g = [i \in Nat |-> [y \in Int |-> E(h, i, y)]]
    BY <2>2, Zenon
  <2>4. QED
    BY <2>3, Zenon DEF h
<1> HIDE DEF E, Body, g
<1>4. DaysDown = Body(DaysDown)
  BY <1>1, <1>3, Zenon
<1>5. DaysDown = [i \in Nat |-> [y \in Int |-> E(DaysDown, i, y)]]
  BY <1>4, Zenon DEF Body
<1> DEFINE F == DaysDown
<1>6. F = [i \in Nat |-> [y \in Int |-> E(DaysDown, i, y)]]
  BY <1>5, Zenon
<1>7. DaysDown[n][year] = E(DaysDown, n, year)
  <2>1. F[n][year] = E(DaysDown, n, year)
    <3> HIDE DEF F
    <3>1. QED
      BY <1>6
  <2>2. QED
    BY <2>1, Zenon
<1>8. QED
  BY <1>7, Zenon DEF E

LEMMA DownIs ==
    \A n \in Nat, year \in Int : DaysDown[n][year] = NewYearsDay(year + n) - NewYearsDay(year)
<1> DEFINE Counted(n) == \A year \in Int : DaysDown[n][year] = NewYearsDay(year + n) - NewYearsDay(year)
           S == {m \in Nat : \A n \in 0 .. m : Counted(n)}
<1>1. ASSUME NEW n \in Nat, \A m \in 0 .. n - 1 : Counted(m) PROVE Counted(n)
  <2>1. SUFFICES ASSUME NEW year \in Int
                 PROVE  DaysDown[n][year] = NewYearsDay(year + n) - NewYearsDay(year)
    OBVIOUS
  <2>2. CASE n = 0
    <3>0. DaysDown[n][year] = 0
      BY <2>2, DownEquation, Zenon
    <3>1. DaysDown[n][year] = 0 /\ year + n = year /\ NewYearsDay(year) \in Int
      BY <2>2, <3>0, NextNewYear
    <3>2. NewYearsDay(year + n) = NewYearsDay(year)
      BY <3>1, Zenon
    <3>3. QED
      BY <3>1, <3>2
  <2>2a. n # 0 => DownStep(n, year)
    BY DownMeets
  <2>3. CASE n # 0 /\ ISLEAPYEAR(year + n - 1)
    <3>1. WalkStep(n) \in 1 .. n /\ DaysOf(WalkStep(n)) \in Int
      BY <2>2a, <2>3 DEF DownStep
    <3>2. PICK m \in 0 .. n - 1 : m = n - WalkStep(n)
      BY <3>1
    <3>3. /\ NewYearsDay(year) \in Int /\ NewYearsDay(year + n) \in Int
          /\ NewYearsDay(year + m) = NewYearsDay(year + n) - DaysOf(WalkStep(n))
      BY <2>2a, <2>3, <3>2 DEF DownStep
    <3>4. DaysDown[n][year] = DaysOf(WalkStep(n)) + DaysDown[m][year]
      BY <2>3, <3>2, DownEquation
    <3>5. DaysDown[m][year] = NewYearsDay(year + m) - NewYearsDay(year)
      BY <1>1
    <3>6. QED
      BY <3>1, <3>3, <3>4, <3>5
  <2>4. CASE n # 0 /\ ~ISLEAPYEAR(year + n - 1)
    <3>1. PICK m \in 0 .. n - 1 : m = n - 1
      BY <2>4
    <3>2. /\ NewYearsDay(year) \in Int /\ NewYearsDay(year + n) \in Int
          /\ NewYearsDay(year + m) = NewYearsDay(year + n) - 365
      BY <2>2a, <2>4, <3>1 DEF DownStep
    <3>3. DaysDown[n][year] = 365 + DaysDown[m][year]
      BY <2>4, <3>1, DownEquation
    <3>4. DaysDown[m][year] = NewYearsDay(year + m) - NewYearsDay(year)
      BY <1>1
    <3>5. QED
      BY <3>2, <3>3, <3>4
  <2>5. QED
    BY <2>2, <2>3, <2>4
<1> HIDE DEF Counted
<1>2. 0 \in S
  BY <1>1
<1>3. ASSUME NEW m \in Nat, m \in S PROVE m + 1 \in S
  <2>1. \A n \in 0 .. (m + 1) - 1 : Counted(n)
    BY <1>3
  <2>2. Counted(m + 1)
    BY <1>1, <2>1
  <2>3. QED
    BY <1>3, <2>2
<1>4. \A m \in Nat : m \in S
  <2> HIDE DEF S
  <2>1. QED
    BY <1>2, <1>3, NatInSet
<1>5. \A n \in Nat : Counted(n)
  BY <1>4
<1>6. QED
  BY <1>5, Zenon DEF Counted

(***************************************************************************)
(* Months.                                                                 *)
(***************************************************************************)

(* The day of the year, from 0, on which a month starts.                   *)
MonthStart(y, m) ==
    (CASE m = 1 -> 0 [] m = 2 -> 31 [] m = 3 -> 59 [] m = 4 -> 90 [] m = 5 -> 120 [] m = 6 -> 151
       [] m = 7 -> 181 [] m = 8 -> 212 [] m = 9 -> 243 [] m = 10 -> 273 [] m = 11 -> 304 [] OTHER -> 334)
    + (IF m > 2 /\ IsLeap(y) THEN 1 ELSE 0)

IsDate(y, m, d) == y \in Int /\ m \in 1 .. 12 /\ d \in 1 .. Length(y, m)

DayOfYear(y, m, d) == MonthStart(y, m) + d - 1

DayNumber(y, m, d) == NewYearsDay(y) + DayOfYear(y, m, d)

LEMMA Twelve ==
    ASSUME NEW m \in 1 .. 12
    PROVE  \/ m = 1 \/ m = 2 \/ m = 3 \/ m = 4 \/ m = 5 \/ m = 6
           \/ m = 7 \/ m = 8 \/ m = 9 \/ m = 10 \/ m = 11 \/ m = 12
  OBVIOUS

LEMMA MonthLengths ==
    ASSUME NEW y \in Int, NEW m \in 1 .. 12
    PROVE  /\ Length(y, m) \in 28 .. 31 /\ MonthStart(y, m) \in Nat
           /\ m < 12 => MonthStart(y, m + 1) = MonthStart(y, m) + Length(y, m)
           /\ m = 12 => YearLength(y) = MonthStart(y, m) + Length(y, m)
           /\ MonthStart(y, m) + Length(y, m) <= YearLength(y)
  BY Twelve DEF Length, MonthStart, YearLength

LEMMA NumDayIs ==
    ASSUME NEW y \in Int, NEW m \in 1 .. 12, NEW d \in Int
    PROVE  /\ NumDayOfYear(m, d, y) = DayOfYear(y, m, d)
           /\ NumDayOfMonth(m, y) = Length(y, m)
<1>1. ISLEAPYEAR(y) <=> IsLeap(y)
  BY LeapYears
<1>2. NumDayOfYear(m, d, y) = DayOfYear(y, m, d)
  BY <1>1, Twelve DEF NumDayOfYear, DayOfYear, MonthStart, CDiv
<1>3. NumDayOfMonth(m, y) = Length(y, m)
  BY <1>1, Twelve DEF NumDayOfMonth, Length, CMod, CDiv
<1>4. QED
  BY <1>2, <1>3

(* The months of 30 and 31 days are told from the day of the year.         *)
LEMMA MonthNumIs ==
    ASSUME NEW y, NEW m, NEW d, IsDate(y, m, d)
    PROVE  Clock_MonthNum(DayOfYear(y, m, d), y) = m
<1>1. y \in Int /\ m \in 1 .. 12 /\ d \in Int /\ 1 <= d /\ d <= Length(y, m)
  BY MonthLengths DEF IsDate
<1>2. ISLEAPYEAR(y) <=> IsLeap(y)
  BY <1>1, LeapYears
<1>3. MonthStart(y, m) + d - 1 \in Int
  <2>1. MonthStart(y, m) \in Nat
    BY <1>1, MonthLengths
  <2>2. QED
    BY <1>1, <2>1
<1>3a. PICK c \in Int : c = MonthStart(y, m) + d - 1
  BY <1>3, Zenon
<1>4. PICK leap \in BOOLEAN : leap = IsLeap(y)
  BY DEF IsLeap
<1>5. Clock_MonthNum(c, y) = m
  BY <1>1, <1>2, <1>3a, <1>4, Twelve DEF Clock_MonthNum, MonthStart, Length, CDiv
<1>6. QED
  BY <1>3a, <1>5, Zenon DEF DayOfYear

(* Clock_ScanDate numbers the dates.                                       *)
LEMMA ScanDateIs ==
    ASSUME NEW y, NEW m, NEW d, IsDate(y, m, d)
    PROVE  Clock_ScanDate(y, m, d) = DayNumber(y, m, d)
<1>1. y \in Int /\ m \in 1 .. 12 /\ d \in Int /\ 1 <= d /\ d <= Length(y, m)
  BY MonthLengths DEF IsDate
<1>2. NumDayOfYear(m, d, y) = DayOfYear(y, m, d) /\ NumDayOfMonth(m, y) = Length(y, m)
  BY <1>1, NumDayIs
<1>3. DayOfYear(y, m, d) \in Int
  <2>1. MonthStart(y, m) \in Nat
    BY <1>1, MonthLengths
  <2>2. QED
    BY <1>1, <2>1 DEF DayOfYear
<1>4. PICK p \in Int : p = CDiv(y - 1970, 400)
  BY <1>1 DEF CDiv
<1>5. PICK t \in Int : t = 1970 + 400 * p
  OBVIOUS
<1>6. ~(m \notin 1 .. 12 \/ d < 0 \/ d > NumDayOfMonth(m, y))
  <2>1. Length(y, m) \in 28 .. 31
    BY <1>1, MonthLengths, Zenon
  <2>2. QED
    BY <1>1, <1>2, <2>1
<1>7. Clock_ScanDate(y, m, d)
          = DayOfYear(y, m, d) + PERIOD_YEARS * p
            + (IF t < y THEN DaysUp[y - t][y] ELSE -DaysDown[t - y][y])
  <2> DEFINE Sum(q, u) == NumDayOfYear(m, d, y) + PERIOD_YEARS * q
                          + (IF u < y THEN DaysUp[y - u][y] ELSE -DaysDown[u - y][y])
             Bad == m \notin 1 .. 12 \/ d < 0 \/ d > NumDayOfMonth(m, y)
             All == Sum(CDiv(y - 1970, 400), 1970 + 400 * CDiv(y - 1970, 400))
  <2>1. Clock_ScanDate(y, m, d) = IF Bad THEN 0 ELSE All
    BY DEF Clock_ScanDate
  <2>1a. ~Bad
    BY <1>6, Zenon
  <2> HIDE DEF Sum, Bad, All
  <2>2. Clock_ScanDate(y, m, d) = All
    BY <2>1, <2>1a, Zenon
  <2>2a. All = Sum(p, t)
    BY <1>4, <1>5 DEF All
  <2>3. Clock_ScanDate(y, m, d) = Sum(p, t)
    BY <2>2, <2>2a, Zenon
  <2>4. QED
    BY <1>2, <2>3, Zenon DEF Sum
<1>8. NewYearsDay(t) = PERIOD_YEARS * p /\ NewYearsDay(t) \in Int /\ NewYearsDay(y) \in Int
  BY <1>1, <1>5, PeriodDays, NextNewYear
<1>9. t < y => DaysUp[y - t][y] = NewYearsDay(y) - NewYearsDay(t)
  <2>1. SUFFICES ASSUME t < y PROVE DaysUp[y - t][y] = NewYearsDay(y) - NewYearsDay(t)
    OBVIOUS
  <2>2. PICK n \in Nat : n = y - t /\ t = y - n
    BY <1>1, <2>1
  <2>3. DaysUp[n][y] = NewYearsDay(y) - NewYearsDay(y - n)
    BY <1>1, UpIs
  <2>4. QED
    BY <2>2, <2>3, Zenon
<1>10. ~(t < y) => DaysDown[t - y][y] = NewYearsDay(t) - NewYearsDay(y)
  <2>1. SUFFICES ASSUME ~(t < y) PROVE DaysDown[t - y][y] = NewYearsDay(t) - NewYearsDay(y)
    OBVIOUS
  <2>2. PICK n \in Nat : n = t - y /\ t = y + n
    BY <1>1, <2>1
  <2>3. DaysDown[n][y] = NewYearsDay(y + n) - NewYearsDay(y)
    BY <1>1, DownIs
  <2>4. QED
    BY <2>2, <2>3, Zenon
<1>11. QED
  BY <1>1, <1>3, <1>7, <1>8, <1>9, <1>10 DEF DayNumber, PERIOD_YEARS

(* The year and the day of the year of a date.                             *)
LEMMA DateYearDay ==
    ASSUME NEW y, NEW m, NEW d, IsDate(y, m, d)
    PROVE  /\ DayOfYear(y, m, d) \in Nat
           /\ DayNumber(y, m, d) \in Int
           /\ Clock_Epoch2YearDay(DayNumber(y, m, d)) = [year |-> y, day |-> DayOfYear(y, m, d)]
<1>1. y \in Int /\ m \in 1 .. 12 /\ d \in Int /\ 1 <= d /\ d <= Length(y, m)
  BY MonthLengths DEF IsDate
<1>2. PICK s \in Nat : s = MonthStart(y, m)
  BY <1>1, MonthLengths
<1>3. PICK l \in 28 .. 31 : l = Length(y, m)
  BY <1>1, MonthLengths, Zenon
<1>4. PICK c \in Nat : c = s + d - 1
  BY <1>1
<1>5. DayOfYear(y, m, d) = c
  BY <1>2, <1>4, Zenon DEF DayOfYear
<1>6. PICK b \in Int : b = NewYearsDay(y)
  BY <1>1, NextNewYear
<1>7. c < YearLength(y)
  <2>1. s + l <= YearLength(y)
    BY <1>1, <1>2, <1>3, MonthLengths
  <2>2. YearLength(y) \in Int
    BY DEF YearLength
  <2>3. QED
    BY <1>1, <1>3, <1>4, <2>1, <2>2
<1>8. PICK t \in Int : t = b + c
  OBVIOUS
<1>9. DayNumber(y, m, d) = t
  BY <1>5, <1>6, <1>8, Zenon DEF DayNumber
<1>10. IsYearDay(t, [year |-> y, day |-> c])
  <2> DEFINE r == [year |-> y, day |-> c]
  <2>1. r \in YearDays /\ r.year = y /\ r.day = c
    BY <1>1 DEF YearDays
  <2> HIDE DEF r
  <2>2. IsYearDay(t, r)
    BY <1>6, <1>7, <1>8, <2>1, Zenon DEF IsYearDay
  <2>3. QED
    BY <2>2, Zenon DEF r
<1>11. Clock_Epoch2YearDay(t) = [year |-> y, day |-> c]
  BY <1>10, EpochIs, OneYearDay, Zenon
<1>12. QED
  BY <1>5, <1>9, <1>11, Zenon

(* Clock_PrintDate finds the date of a day number, and the time of a       *)
(* second of the day.                                                      *)
HourOf(s) == (s % 86400) \div 3600
MinOf(s) == (s % 3600) \div 60
SecOf(s) == s % 60

LEMMA PrintDateIs ==
    ASSUME NEW y, NEW m, NEW d, IsDate(y, m, d), NEW s
    PROVE  Clock_PrintDate(Clock(DayNumber(y, m, d), s))
               = [year |-> y, month |-> m, day |-> d,
                  hour |-> HourOf(s), min |-> MinOf(s), sec |-> SecOf(s)]
<1> DEFINE c == Clock(DayNumber(y, m, d), s)
           yd == [year |-> y, day |-> DayOfYear(y, m, d)]
<1>1. c.day = DayNumber(y, m, d) /\ c.sec = s
  BY DEF Clock
<1>2. Clock_Epoch2YearDay(c.day) = yd
  BY <1>1, DateYearDay, Zenon
<1>3. yd.year = y /\ yd.day = DayOfYear(y, m, d)
  OBVIOUS
<1>4. Clock_MonthNum(yd.day, yd.year) = m
  BY <1>3, MonthNumIs, Zenon
<1>5. yd.day - NumDayOfYear(m, 1, y) + 1 = d
  <2>1. y \in Int /\ m \in 1 .. 12 /\ d \in Int
    BY MonthLengths DEF IsDate
  <2>2. NumDayOfYear(m, 1, y) = DayOfYear(y, m, 1)
    BY <2>1, NumDayIs
  <2>3. MonthStart(y, m) \in Nat
    BY <2>1, MonthLengths
  <2>4. DayOfYear(y, m, d) - DayOfYear(y, m, 1) + 1 = d
    BY <2>1, <2>3 DEF DayOfYear
  <2>5. QED
    BY <1>3, <2>2, <2>4, Zenon
<1> DEFINE Printed(e, k) == [year |-> e.year, month |-> k, day |-> e.day - NumDayOfYear(k, 1, e.year) + 1,
                             hour |-> HourOf(c.sec), min |-> MinOf(c.sec), sec |-> SecOf(c.sec)]
<1> HIDE DEF c, yd
<1>6. Clock_PrintDate(c) = Printed(Clock_Epoch2YearDay(c.day),
                                   Clock_MonthNum(Clock_Epoch2YearDay(c.day).day, Clock_Epoch2YearDay(c.day).year))
  BY DEF Clock_PrintDate, HourOf, MinOf, SecOf
<1>7. Clock_PrintDate(c) = Printed(yd, m)
  <2> HIDE DEF Printed
  <2>1. QED
    BY <1>2, <1>4, <1>6, Zenon
<1>8. Clock_PrintDate(c) = [year |-> y, month |-> m, day |-> d,
                            hour |-> HourOf(s), min |-> MinOf(s), sec |-> SecOf(s)]
  BY <1>1, <1>3, <1>5, <1>7
<1>9. QED
  BY <1>8 DEF c

(***************************************************************************)
(* The walk of the clock beside the calendar.                              *)
(***************************************************************************)

(* A clock has the number and the weekday of a date.                       *)
CalendarAt(e, t) ==
    /\ e \in [year : Int, month : 1 .. 12, day : Int, weekday : Int]
    /\ IsDate(e.year, e.month, e.day)
    /\ t = DayNumber(e.year, e.month, e.day)
    /\ e.weekday = (4 + t) % 7

CalendarInv == CalendarAt(date, totDay)

LEMMA CalendarIs ==
    ASSUME NEW y, NEW m, NEW d, NEW w, NEW t,
           IsDate(y, m, d), t = DayNumber(y, m, d), w = (4 + t) % 7
    PROVE  CalendarAt([year |-> y, month |-> m, day |-> d, weekday |-> w], t)
<1> DEFINE e == [year |-> y, month |-> m, day |-> d, weekday |-> w]
<1>1. e.year = y /\ e.month = m /\ e.day = d /\ e.weekday = w
  OBVIOUS
<1>2. t \in Int
  BY DateYearDay, Zenon
<1>3. y \in Int /\ m \in 1 .. 12 /\ d \in Int
  BY MonthLengths DEF IsDate
<1>4. e \in [year : Int, month : 1 .. 12, day : Int, weekday : Int]
  BY <1>2, <1>3
<1> HIDE DEF e
<1>5. CalendarAt(e, t)
  BY <1>1, <1>4, Zenon DEF CalendarAt
<1>6. QED
  BY <1>5, Zenon DEF e

(* The next day of a date has the next number and the next weekday.        *)
LEMMA NextDayIs ==
    ASSUME NEW y, NEW m, NEW d, IsDate(y, m, d)
    PROVE  /\ d < Length(y, m) =>
                 IsDate(y, m, d + 1) /\ DayNumber(y, m, d + 1) = DayNumber(y, m, d) + 1
           /\ d = Length(y, m) /\ m < 12 =>
                 IsDate(y, m + 1, 1) /\ DayNumber(y, m + 1, 1) = DayNumber(y, m, d) + 1
           /\ d = Length(y, m) /\ ~(m < 12) =>
                 IsDate(y + 1, 1, 1) /\ DayNumber(y + 1, 1, 1) = DayNumber(y, m, d) + 1
           /\ d < Length(y, m) \/ d = Length(y, m)
<1>1. y \in Int /\ m \in 1 .. 12 /\ d \in Int /\ 1 <= d /\ d <= Length(y, m)
  BY MonthLengths DEF IsDate
<1>2. PICK l \in 28 .. 31 : l = Length(y, m)
  BY <1>1, MonthLengths, Zenon
<1>3. PICK s \in Nat : s = MonthStart(y, m)
  BY <1>1, MonthLengths, Zenon
<1>4. NewYearsDay(y) \in Int /\ NewYearsDay(y + 1) = NewYearsDay(y) + YearLength(y)
  BY <1>1, NextNewYear
<1>5. DayNumber(y, m, d) = NewYearsDay(y) + (s + d - 1)
  BY <1>3, Zenon DEF DayNumber, DayOfYear
<1>6. ASSUME d < l
      PROVE  IsDate(y, m, d + 1) /\ DayNumber(y, m, d + 1) = DayNumber(y, m, d) + 1
  <2>1. DayNumber(y, m, d + 1) = NewYearsDay(y) + (s + (d + 1) - 1)
    BY <1>3, Zenon DEF DayNumber, DayOfYear
  <2>2. DayNumber(y, m, d + 1) = DayNumber(y, m, d) + 1
    BY <1>1, <1>4, <1>5, <2>1
  <2>3. d + 1 \in 1 .. l
    BY <1>1, <1>6
  <2>4. QED
    BY <1>1, <1>2, <2>2, <2>3, Zenon DEF IsDate
<1>7. ASSUME d = l, m < 12
      PROVE  IsDate(y, m + 1, 1) /\ DayNumber(y, m + 1, 1) = DayNumber(y, m, d) + 1
  <2>1. PICK n \in 1 .. 12 : n = m + 1
    BY <1>1, <1>7
  <2>2. MonthStart(y, n) = s + l
    <3>1. MonthStart(y, m + 1) = MonthStart(y, m) + Length(y, m)
      BY <1>1, <1>7, MonthLengths
    <3>2. QED
      BY <1>2, <1>3, <2>1, <3>1, Zenon
  <2>3. DayNumber(y, n, 1) = NewYearsDay(y) + (s + l + 1 - 1)
    BY <2>2, Zenon DEF DayNumber, DayOfYear
  <2>4. DayNumber(y, n, 1) = DayNumber(y, m, d) + 1
    BY <1>1, <1>4, <1>5, <1>7, <2>3
  <2>5. Length(y, n) \in 28 .. 31
    BY <1>1, MonthLengths, Zenon
  <2>6. 1 \in 1 .. Length(y, n)
    BY <2>5
  <2>7. QED
    BY <1>1, <2>1, <2>4, <2>6, Zenon DEF IsDate
<1>8. ASSUME d = l, ~(m < 12)
      PROVE  IsDate(y + 1, 1, 1) /\ DayNumber(y + 1, 1, 1) = DayNumber(y, m, d) + 1
  <2>1. PICK z \in Int : z = y + 1
    BY <1>1
  <2>2. YearLength(y) = s + l
    <3>1. m = 12
      BY <1>1, <1>8
    <3>2. QED
      BY <1>1, <1>2, <1>3, <3>1, MonthLengths
  <2>3. MonthStart(z, 1) = 0
    BY DEF MonthStart
  <2>4. DayNumber(z, 1, 1) = NewYearsDay(z) + (0 + 1 - 1)
    BY <2>3, Zenon DEF DayNumber, DayOfYear
  <2>5. NewYearsDay(z) = NewYearsDay(y) + (s + l)
    BY <1>4, <2>1, <2>2, Zenon
  <2>6. DayNumber(z, 1, 1) = DayNumber(y, m, d) + 1
    BY <1>1, <1>4, <1>5, <1>8, <2>4, <2>5
  <2>7. IsDate(z, 1, 1)
    BY DEF IsDate, Length
  <2>8. QED
    BY <2>1, <2>6, <2>7, Zenon
<1>9. d < l \/ d = l
  BY <1>1, <1>2
<1>10. QED
  BY <1>2, <1>6, <1>7, <1>8, <1>9, Zenon

(* The number of a day and the weekday go on together.                     *)
THEOREM CalendarInvariant == ClockSpec => []CalendarInv
<1>1. ClockInit => CalendarInv
  <2>1. SUFFICES ASSUME NEW y \in Starts, totDay = NewYearsDay(y), date = NewYear(y)
                 PROVE  CalendarInv
    BY DEF ClockInit
  <2>2. y \in Int
    <3>1. Starts \subseteq Int
      BY ClockAssumption
    <3>2. QED
      BY <3>1, Zenon
  <2>3. IsDate(y, 1, 1)
    BY <2>2 DEF IsDate, Length
  <2>4. totDay = DayNumber(y, 1, 1)
    <3>1. MonthStart(y, 1) = 0 /\ NewYearsDay(y) \in Int
      BY <2>2, NextNewYear DEF MonthStart
    <3>2. QED
      BY <2>1, <3>1 DEF DayNumber, DayOfYear
  <2>5. PICK w : w = (4 + totDay) % 7
    OBVIOUS
  <2>6. date = [year |-> y, month |-> 1, day |-> 1, weekday |-> w]
    BY <2>1, <2>5, Zenon DEF NewYear
  <2>7. QED
    BY <2>3, <2>4, <2>5, <2>6, CalendarIs, Zenon DEF CalendarInv
<1>2. CalendarInv /\ [Tomorrow]_clockVars => CalendarInv'
  <2>1. SUFFICES ASSUME CalendarInv, Tomorrow PROVE CalendarInv'
    BY Zenon DEF CalendarInv, clockVars
  <2>2. PICK y \in Int, m \in 1 .. 12, d \in Int, w \in Int :
               date = [year |-> y, month |-> m, day |-> d, weekday |-> w]
    BY <2>1 DEF CalendarInv, CalendarAt
  <2>3. date.year = y /\ date.month = m /\ date.day = d /\ date.weekday = w
    BY <2>2
  <2>4. IsDate(y, m, d) /\ totDay = DayNumber(y, m, d) /\ w = (4 + totDay) % 7
    BY <2>1, <2>3, Zenon DEF CalendarInv, CalendarAt
  <2>5. totDay \in Int
    BY <2>4, DateYearDay, Zenon
  <2>6. PICK t \in Int : t = totDay + 1
    BY <2>5
  <2>7. PICK v : v = (w + 1) % 7
    OBVIOUS
  <2>8. v = (4 + t) % 7
    BY <2>4, <2>5, <2>6, <2>7
  <2>9. totDay' = t /\ date' = NextDay(date)
    BY <2>1, <2>6 DEF Tomorrow
  <2>10. NextDay(date) =
            CASE d < Length(y, m) -> [year |-> y, month |-> m, day |-> d + 1, weekday |-> v]
              [] d = Length(y, m) /\ m < 12 -> [year |-> y, month |-> m + 1, day |-> 1, weekday |-> v]
              [] OTHER -> [year |-> y + 1, month |-> 1, day |-> 1, weekday |-> v]
    BY <2>3, <2>7 DEF NextDay
  <2>11. PICK l \in 28 .. 31 : l = Length(y, m)
    BY <2>2, MonthLengths, Zenon
  <2>11a. /\ d < l => IsDate(y, m, d + 1) /\ t = DayNumber(y, m, d + 1)
          /\ d = l /\ m < 12 => IsDate(y, m + 1, 1) /\ t = DayNumber(y, m + 1, 1)
          /\ d = l /\ ~(m < 12) => IsDate(y + 1, 1, 1) /\ t = DayNumber(y + 1, 1, 1)
          /\ d < l \/ d = l
    <3>1. /\ d < Length(y, m) => IsDate(y, m, d + 1) /\ DayNumber(y, m, d + 1) = DayNumber(y, m, d) + 1
          /\ d = Length(y, m) /\ m < 12 =>
                IsDate(y, m + 1, 1) /\ DayNumber(y, m + 1, 1) = DayNumber(y, m, d) + 1
          /\ d = Length(y, m) /\ ~(m < 12) =>
                IsDate(y + 1, 1, 1) /\ DayNumber(y + 1, 1, 1) = DayNumber(y, m, d) + 1
          /\ d < Length(y, m) \/ d = Length(y, m)
      BY <2>4, NextDayIs, Zenon
    <3>2. t = DayNumber(y, m, d) + 1
      BY <2>4, <2>6, Zenon
    <3>3. QED
      BY <2>11, <3>1, <3>2, Zenon
  <2>12. CASE d < l
    <3>1. date' = [year |-> y, month |-> m, day |-> d + 1, weekday |-> v]
      BY <2>9, <2>10, <2>11, <2>12
    <3>2. IsDate(y, m, d + 1) /\ t = DayNumber(y, m, d + 1)
      BY <2>11a, <2>12, Zenon
    <3>3. QED
      BY <2>8, <2>9, <3>1, <3>2, CalendarIs, Zenon DEF CalendarInv
  <2>13. CASE d = l /\ m < 12
    <3>1. date' = [year |-> y, month |-> m + 1, day |-> 1, weekday |-> v]
      BY <2>9, <2>10, <2>11, <2>13
    <3>2. IsDate(y, m + 1, 1) /\ t = DayNumber(y, m + 1, 1)
      BY <2>11a, <2>13, Zenon
    <3>3. QED
      BY <2>8, <2>9, <3>1, <3>2, CalendarIs, Zenon DEF CalendarInv
  <2>14. CASE d = l /\ ~(m < 12)
    <3>1. date' = [year |-> y + 1, month |-> 1, day |-> 1, weekday |-> v]
      BY <2>9, <2>10, <2>11, <2>14
    <3>2. IsDate(y + 1, 1, 1) /\ t = DayNumber(y + 1, 1, 1)
      BY <2>11a, <2>14, Zenon
    <3>3. QED
      BY <2>8, <2>9, <3>1, <3>2, CalendarIs, Zenon DEF CalendarInv
  <2>15. QED
    BY <2>11a, <2>12, <2>13, <2>14, Zenon
<1>3. QED
  BY <1>1, <1>2, PTL DEF ClockSpec

(* The date of the invariant, by its fields.                               *)
LEMMA CalendarDate ==
    ASSUME CalendarInv
    PROVE  /\ IsDate(date.year, date.month, date.day)
           /\ date.year \in Int /\ date.month \in 1 .. 12 /\ date.day \in Int
           /\ totDay = DayNumber(date.year, date.month, date.day) /\ totDay \in Int
<1>1. IsDate(date.year, date.month, date.day) /\ totDay = DayNumber(date.year, date.month, date.day)
  BY Zenon DEF CalendarInv, CalendarAt
<1>2. date.year \in Int /\ date.month \in 1 .. 12 /\ date.day \in Int
  BY DEF CalendarInv, CalendarAt
<1>3. QED
  BY <1>1, <1>2, DateYearDay, Zenon

(* The date Clock_PrintDate prints is that of the calendar, in every year. *)
THEOREM PrintsTheDate == ClockSpec => []DatesAreRight
<1>1. CalendarInv => DatesAreRight
  <2>1. SUFFICES ASSUME CalendarInv, NEW s \in Seconds
                 PROVE  DateOf(Clock(totDay, s)) = <<date.year, date.month, date.day>>
    BY Zenon DEF DatesAreRight
  <2>2. PICK y, m, d : y = date.year /\ m = date.month /\ d = date.day
    OBVIOUS
  <2>3. IsDate(y, m, d) /\ totDay = DayNumber(y, m, d)
    BY <2>1, <2>2, CalendarDate, Zenon
  <2>4. PICK p : p = Clock_PrintDate(Clock(totDay, s))
    OBVIOUS
  <2>5. p.year = y /\ p.month = m /\ p.day = d
    BY <2>3, <2>4, PrintDateIs
  <2>6. QED
    BY <2>2, <2>4, <2>5, Zenon DEF DateOf
<1>2. QED
  BY <1>1, CalendarInvariant, PTL

LEMMA LaterIs ==
    ASSUME NEW d, NEW a, NEW s
    PROVE  Later(Clock(d, a), s) = Clock(d + ((a + s) \div SEC_DAY), (a + s) % SEC_DAY)
<1> DEFINE c == Clock(d, a)
<1>1. c.day = d /\ c.sec = a
  BY DEF Clock
<1> HIDE DEF c
<1>2. Later(c, s) = Clock(c.day + ((c.sec + s) \div SEC_DAY), (c.sec + s) % SEC_DAY)
  BY Zenon DEF Later
<1>3. Later(c, s) = Clock(d + ((a + s) \div SEC_DAY), (a + s) % SEC_DAY)
  BY <1>1, <1>2, Zenon
<1>4. QED
  BY <1>3, Zenon DEF c

(* A clock that is printed as a number and scanned is the same.            *)
THEOREM ScansWhatItPrints == ClockSpec => []ScanInvertsPrint
<1>1. ASSUME NEW s \in Nat, s < 86400, NEW day \in Int
      PROVE  /\ SecOf(s) + MinOf(s) * 60 + HourOf(s) * 3600 = s
             /\ day + ((0 + s) \div SEC_DAY) = day /\ (0 + s) % SEC_DAY = s
  BY <1>1 DEF SecOf, MinOf, HourOf, SEC_DAY
<1>2. CalendarInv => ScanInvertsPrint
  <2>1. SUFFICES ASSUME CalendarInv, NEW s \in Seconds
                 PROVE  Clock_ScanDateNumber(Clock_PrintDate(Clock(totDay, s))) = Clock(totDay, s)
    BY Zenon DEF ScanInvertsPrint
  <2>2. s \in Nat /\ s < 86400
    BY ClockAssumption
  <2>3. PICK y, m, d : y = date.year /\ m = date.month /\ d = date.day
    OBVIOUS
  <2>4. IsDate(y, m, d) /\ totDay = DayNumber(y, m, d) /\ totDay \in Int
    BY <2>1, <2>3, CalendarDate, Zenon
  <2>5. PICK p : p = Clock_PrintDate(Clock(totDay, s))
    OBVIOUS
  <2>6. /\ p.year = y /\ p.month = m /\ p.day = d
        /\ p.hour = HourOf(s) /\ p.min = MinOf(s) /\ p.sec = SecOf(s)
    BY <2>4, <2>5, PrintDateIs
  <2>7. p.sec + p.min * 60 + p.hour * 3600 = s
    <3>1. SecOf(s) + MinOf(s) * 60 + HourOf(s) * 3600 = s
      BY <1>1, <2>2
    <3>2. QED
      BY <2>6, <3>1
  <2>8. Clock_ScanDate(p.year, p.month, p.day) = totDay
    <3>1. Clock_ScanDate(y, m, d) = totDay
      BY <2>4, ScanDateIs, Zenon
    <3>2. QED
      BY <2>6, <3>1, Zenon
  <2>9. Clock_ScanDateNumber(p) = Later(Clock(totDay, 0), s)
    BY <2>7, <2>8 DEF Clock_ScanDateNumber
  <2>10. Later(Clock(totDay, 0), s) = Clock(totDay, s)
    <3>1. totDay + ((0 + s) \div SEC_DAY) = totDay /\ (0 + s) % SEC_DAY = s
      BY <1>1, <2>2, <2>4
    <3>2. Later(Clock(totDay, 0), s) = Clock(totDay + ((0 + s) \div SEC_DAY), (0 + s) % SEC_DAY)
      BY LaterIs, Zenon
    <3>3. QED
      BY <3>1, <3>2, Zenon
  <2>11. QED
    BY <2>5, <2>9, <2>10, Zenon
<1>3. QED
  BY <1>2, CalendarInvariant, PTL

(* The same day of another month, or its last day, for any number of       *)
(* months.                                                                 *)
THEOREM AddsAnyMonths == ClockSpec => []AddsMonths
<1>1. ASSUME CalendarInv, NEW n \in Int
      PROVE  LET month == 12 * date.year + date.month - 1 + n
                 z == month \div 12
                 k == (month % 12) + 1
             IN  DateOf(Clock(Clock_AddMonthYear(totDay, n, 0), 0))
                     = <<z, k, IF date.day <= Length(z, k) THEN date.day ELSE Length(z, k)>>
  <2>1. PICK y \in Int, m \in 1 .. 12, d \in Int : y = date.year /\ m = date.month /\ d = date.day
    BY <1>1, CalendarDate, Zenon
  <2>2. IsDate(y, m, d) /\ totDay = DayNumber(y, m, d)
    BY <1>1, <2>1, CalendarDate, Zenon
  <2>3. PICK p : p = Clock_PrintDate(Clock(totDay, 0))
    OBVIOUS
  <2>4. p.year = y /\ p.month = m /\ p.day = d
    BY <2>2, <2>3, PrintDateIs
  <2>5. PICK z \in Int : z = (12 * y + m - 1 + n) \div 12
    OBVIOUS
  <2>6. PICK k \in 1 .. 12 : k = ((12 * y + m - 1 + n) % 12) + 1
    OBVIOUS
  <2>7. y + ((m + n - 1) \div 12) + 0 = z /\ ((m + n - 1) % 12) + 1 = k
    BY <2>5, <2>6
  <2>8. PICK l \in 28 .. 31 : l = Length(z, k) /\ l = NumDayOfMonth(k, z)
    <3>1. Length(z, k) \in 28 .. 31
      BY MonthLengths, Zenon
    <3>2. NumDayOfMonth(k, z) = Length(z, k)
      BY NumDayIs, 1 \in Int, Zenon
    <3>3. QED
      BY <3>1, <3>2, Zenon
  <2>9. PICK e \in Int : e = (IF d > l THEN l ELSE d) /\ e = (IF d <= l THEN d ELSE l)
    OBVIOUS
  <2>10. IsDate(z, k, e)
    <3>1. 1 <= d
      BY <2>2, MonthLengths DEF IsDate
    <3>2. e \in 1 .. l
      BY <2>9, <3>1
    <3>3. QED
      BY <2>8, <3>2, Zenon DEF IsDate
  <2>11. Clock_AddMonthYear(totDay, n, 0) = Clock_ScanDate(z, k, e)
    <3> DEFINE Moved(q, j) == Clock_ScanDate(q, j, IF p.day > NumDayOfMonth(j, q) THEN NumDayOfMonth(j, q) ELSE p.day)
    <3>1. Clock_AddMonthYear(totDay, n, 0)
            = Moved(p.year + ((p.month + n - 1) \div 12) + 0, ((p.month + n - 1) % 12) + 1)
      BY <2>3 DEF Clock_AddMonthYear
    <3>2. Clock_AddMonthYear(totDay, n, 0) = Moved(z, k)
      <4> HIDE DEF Moved
      <4>1. QED
        BY <2>4, <2>7, <3>1, Zenon
    <3>3. Moved(z, k) = Clock_ScanDate(z, k, e)
      BY <2>4, <2>8, <2>9, Zenon
    <3> HIDE DEF Moved
    <3>4. QED
      BY <3>2, <3>3, Zenon
  <2>12. DateOf(Clock(Clock_AddMonthYear(totDay, n, 0), 0)) = <<z, k, e>>
    <3>1. PICK q : q = Clock_PrintDate(Clock(DayNumber(z, k, e), 0))
      OBVIOUS
    <3>2. q.year = z /\ q.month = k /\ q.day = e
      BY <2>10, <3>1, PrintDateIs
    <3>3. Clock_AddMonthYear(totDay, n, 0) = DayNumber(z, k, e)
      BY <2>10, <2>11, ScanDateIs, Zenon
    <3>4. QED
      BY <3>1, <3>2, <3>3, Zenon DEF DateOf
  <2>13. QED
    BY <2>1, <2>5, <2>6, <2>8, <2>9, <2>12, Zenon
<1>2. CalendarInv => AddsMonths
  <2>1. \A n \in Months : n \in Int
    BY ClockAssumption
  <2>2. QED
    BY <1>1, <2>1, Zenon DEF AddsMonths
<1>3. QED
  BY <1>2, CalendarInvariant, PTL

(***************************************************************************)
(* Daylight saving time.                                                   *)
(***************************************************************************)

(* Day j of the year is a Sunday of a month, from the low-th to the        *)
(* high-th of the month, in a year that starts on weekday f.               *)
IsSunday(y, f, j, month, low, high) ==
    /\ j \in Int /\ (f + j) % 7 = 0
    /\ MonthStart(y, month) + low - 1 <= j /\ j <= MonthStart(y, month) + high - 1

LEMMA SomeLeap ==
    ASSUME NEW y \in Int
    PROVE  \E leap \in BOOLEAN : (leap <=> IsLeap(y)) /\ (leap <=> ISLEAPYEAR(y))
<1>1. ISLEAPYEAR(y) <=> IsLeap(y)
  BY LeapYears
<1>2. CASE IsLeap(y)
  <2>1. WITNESS TRUE \in BOOLEAN
  <2>2. QED
    BY <1>1, <1>2, Zenon
<1>3. CASE ~IsLeap(y)
  <2>1. WITNESS FALSE \in BOOLEAN
  <2>2. QED
    BY <1>1, <1>3, Zenon
<1>4. QED
  BY <1>2, <1>3, Zenon

(* The tables hold the Sundays on which daylight saving time starts and    *)
(* ends, for every weekday of January 1st, in leap years too.              *)
LEMMA Starts2007 ==
    ASSUME NEW y \in Int, y >= 2007, NEW f \in 0 .. 6
    PROVE  \E j : IsSunday(y, f, j, 3, 8, 14) /\ DaylightStart(y, f) = 86400 * j + 7200
<1>1. PICK leap \in BOOLEAN : (leap <=> IsLeap(y)) /\ (leap <=> ISLEAPYEAR(y))
  BY SomeLeap
<1>2. PICK j \in Int : j = (CASE f = 0 -> 70 [] f = 1 -> 69 [] f = 2 -> 68 [] f = 3 -> 67
                              [] f = 4 -> (IF leap THEN 73 ELSE 66) [] f = 5 -> 72 [] OTHER -> 71)
  OBVIOUS
<1>3. f = 0 \/ f = 1 \/ f = 2 \/ f = 3 \/ f = 4 \/ f = 5 \/ f = 6
  OBVIOUS
<1>4. MonthStart(y, 3) = IF leap THEN 60 ELSE 59
  BY <1>1 DEF MonthStart
<1>5. IsSunday(y, f, j, 3, 8, 14)
  BY <1>2, <1>3, <1>4 DEF IsSunday
<1>6. DaylightStart(y, f) = start2007[f + 1] + (IF leap /\ f = 4 THEN 604800 ELSE 0)
  BY <1>1 DEF DaylightStart, WeekLater
<1>7. DaylightStart(y, f) = 86400 * j + 7200
  BY <1>2, <1>3, <1>6 DEF start2007
<1>8. QED
  BY <1>5, <1>7

LEMMA Starts2006 ==
    ASSUME NEW y \in Int, ~(y >= 2007), NEW f \in 0 .. 6
    PROVE  \E j : IsSunday(y, f, j, 4, 1, 7) /\ DaylightStart(y, f) = 86400 * j + 7200
<1>1. PICK leap \in BOOLEAN : (leap <=> IsLeap(y)) /\ (leap <=> ISLEAPYEAR(y))
  BY SomeLeap
<1>2. PICK j \in Int : j = (CASE f = 0 -> 91 [] f = 1 -> (IF leap THEN 97 ELSE 90) [] f = 2 -> 96 [] f = 3 -> 95
                              [] f = 4 -> 94 [] f = 5 -> 93 [] OTHER -> 92)
  OBVIOUS
<1>3. f = 0 \/ f = 1 \/ f = 2 \/ f = 3 \/ f = 4 \/ f = 5 \/ f = 6
  OBVIOUS
<1>4. MonthStart(y, 4) = IF leap THEN 91 ELSE 90
  BY <1>1 DEF MonthStart
<1>5. IsSunday(y, f, j, 4, 1, 7)
  BY <1>2, <1>3, <1>4 DEF IsSunday
<1>6. DaylightStart(y, f) = start2006[f + 1] + (IF leap /\ f = 1 THEN 604800 ELSE 0)
  BY <1>1 DEF DaylightStart, WeekLater
<1>7. DaylightStart(y, f) = 86400 * j + 7200
  BY <1>2, <1>3, <1>6 DEF start2006
<1>8. QED
  BY <1>5, <1>7

LEMMA Ends2007 ==
    ASSUME NEW y \in Int, y >= 2007, NEW f \in 0 .. 6
    PROVE  \E j : IsSunday(y, f, j, 11, 1, 7) /\ DaylightEnd(y, f) = 86400 * j + 3600
<1>1. PICK leap \in BOOLEAN : (leap <=> IsLeap(y)) /\ (leap <=> ISLEAPYEAR(y))
  BY SomeLeap
<1>2. PICK j \in Int : j = (CASE f = 0 -> 308 [] f = 1 -> 307 [] f = 2 -> 306 [] f = 3 -> 305
                              [] f = 4 -> (IF leap THEN 311 ELSE 304) [] f = 5 -> 310 [] OTHER -> 309)
  OBVIOUS
<1>3. f = 0 \/ f = 1 \/ f = 2 \/ f = 3 \/ f = 4 \/ f = 5 \/ f = 6
  OBVIOUS
<1>4. MonthStart(y, 11) = IF leap THEN 305 ELSE 304
  BY <1>1 DEF MonthStart
<1>5. IsSunday(y, f, j, 11, 1, 7)
  BY <1>2, <1>3, <1>4 DEF IsSunday
<1>6. DaylightEnd(y, f) = end2007[f + 1] + (IF leap /\ f = 4 THEN 604800 ELSE 0)
  BY <1>1 DEF DaylightEnd, WeekLater
<1>7. DaylightEnd(y, f) = 86400 * j + 3600
  BY <1>2, <1>3, <1>6 DEF end2007
<1>8. QED
  BY <1>5, <1>7

LEMMA Ends2006 ==
    ASSUME NEW y \in Int, ~(y >= 2007), NEW f \in 0 .. 6
    PROVE  \E j : IsSunday(y, f, j, 10, 25, 31) /\ DaylightEnd(y, f) = 86400 * j + 3600
<1>1. PICK leap \in BOOLEAN : (leap <=> IsLeap(y)) /\ (leap <=> ISLEAPYEAR(y))
  BY SomeLeap
<1>2. PICK j \in Int : j = (CASE f = 0 -> 301 [] f = 1 -> 300 [] f = 2 -> 299 [] f = 3 -> 298
                              [] f = 4 -> (IF leap THEN 304 ELSE 297) [] f = 5 -> 303 [] OTHER -> 302)
  OBVIOUS
<1>3. f = 0 \/ f = 1 \/ f = 2 \/ f = 3 \/ f = 4 \/ f = 5 \/ f = 6
  OBVIOUS
<1>4. MonthStart(y, 10) = IF leap THEN 274 ELSE 273
  BY <1>1 DEF MonthStart
<1>5. IsSunday(y, f, j, 10, 25, 31)
  BY <1>2, <1>3, <1>4 DEF IsSunday
<1>6. DaylightEnd(y, f) = end2006[f + 1] + (IF leap /\ f = 4 THEN 604800 ELSE 0)
  BY <1>1 DEF DaylightEnd, WeekLater
<1>7. DaylightEnd(y, f) = 86400 * j + 3600
  BY <1>2, <1>3, <1>6 DEF end2006
<1>8. QED
  BY <1>5, <1>7

LEMMA MonthsInOrder ==
    ASSUME NEW y \in Int, NEW m \in 1 .. 12, NEW k \in 1 .. 12, m < k
    PROVE  MonthStart(y, m) + Length(y, m) <= MonthStart(y, k)
<1>1. MonthStart(y, m) + Length(y, m) = MonthStart(y, m + 1)
  <2>1. m < 12
    OBVIOUS
  <2>2. QED
    BY <2>1, MonthLengths, Zenon
<1>2. PICK n \in 1 .. 12 : n = m + 1 /\ n <= k
  OBVIOUS
<1>3. MonthStart(y, n) <= MonthStart(y, k)
  BY <1>2, Twelve DEF MonthStart
<1>4. MonthStart(y, n) \in Nat /\ MonthStart(y, k) \in Nat
  BY MonthLengths
<1>5. QED
  BY <1>1, <1>2, <1>3, Zenon

(* A date, and a Sunday of a month of the same year: c is the day of the   *)
(* year of day d of month m.                                               *)
Beside(c, m, d, f, j, month, low, high) ==
    /\ m < month => c < j
    /\ m > month => c > j
    /\ m = month => \E k \in low .. high : c - j = d - k /\ (f + c) % 7 = (d - k) % 7

DaysOfMonth(y, month, low, high) ==
    month \in 1 .. 12 /\ low \in 1 .. 31 /\ high \in 1 .. 31 /\ high <= Length(y, month)

LEMMA BesideSunday ==
    ASSUME NEW y, NEW m, NEW d, IsDate(y, m, d), NEW f \in 0 .. 6,
           NEW month, NEW low, NEW high, DaysOfMonth(y, month, low, high),
           NEW j, IsSunday(y, f, j, month, low, high)
    PROVE  Beside(DayOfYear(y, m, d), m, d, f, j, month, low, high)
<1>1. y \in Int /\ m \in 1 .. 12 /\ d \in Int /\ 1 <= d /\ d <= Length(y, m)
  BY MonthLengths DEF IsDate
<1>1a. month \in 1 .. 12 /\ low \in Int /\ high \in Int /\ 1 <= low /\ high <= Length(y, month)
  BY DEF DaysOfMonth
<1>2. PICK s \in Nat : s = MonthStart(y, m)
  BY <1>1, MonthLengths, Zenon
<1>3. PICK l \in 28 .. 31 : l = Length(y, m)
  BY <1>1, MonthLengths, Zenon
<1>4. PICK t \in Nat : t = MonthStart(y, month)
  BY <1>1, <1>1a, MonthLengths, Zenon
<1>5. PICK n \in 28 .. 31 : n = Length(y, month)
  BY <1>1, <1>1a, MonthLengths, Zenon
<1>6. PICK c \in Int : c = DayOfYear(y, m, d) /\ c = s + d - 1
  BY <1>1, <1>2 DEF DayOfYear
<1>7. j \in Int /\ (f + j) % 7 = 0 /\ t + low - 1 <= j /\ j <= t + high - 1 /\ high <= n
  BY <1>1a, <1>4, <1>5, Zenon DEF IsSunday
<1>8. d <= l
  BY <1>1, <1>3, Zenon
<1>9. ASSUME m < month PROVE c < j
  <2>1. s + l <= t
    BY <1>1, <1>2, <1>3, <1>4, <1>1a, <1>9, MonthsInOrder, Zenon
  <2>2. QED
    BY <1>1, <1>1a, <1>6, <1>7, <1>8, <2>1
<1>10. ASSUME m > month PROVE c > j
  <2>1. t + n <= s
    <3>1. month < m
      BY <1>1, <1>1a, <1>10
    <3>2. QED
      BY <1>1, <1>2, <1>4, <1>1a, <1>5, <3>1, MonthsInOrder, Zenon
  <2>2. QED
    BY <1>1, <1>1a, <1>6, <1>7, <2>1
<1>11. ASSUME m = month PROVE \E k \in low .. high : c - j = d - k /\ (f + c) % 7 = (d - k) % 7
  <2>1. s = t
    BY <1>2, <1>4, <1>11, Zenon
  <2>2. PICK k \in low .. high : k = j - t + 1
    BY <1>1a, <1>7
  <2>3. c - j = d - k
    BY <1>1, <1>6, <1>7, <2>1, <2>2
  <2>4. (f + c) % 7 = (d - k) % 7
    <3>1. PICK a \in Int : a = f + j
      BY <1>7
    <3>2. PICK b \in Int : b = d - k
      BY <1>1
    <3>3. f + c = a + b /\ a % 7 = 0
      BY <1>1, <1>7, <2>3, <3>1, <3>2
    <3>4. (a + b) % 7 = b % 7
      BY <3>3
    <3>5. QED
      BY <3>2, <3>3, <3>4, Zenon
  <2>5. QED
    BY <2>3, <2>4, Zenon
<1>12. Beside(c, m, d, f, j, month, low, high)
  BY <1>9, <1>10, <1>11, Zenon DEF Beside
<1>13. QED
  BY <1>6, <1>12, Zenon

LEMMA BesideSundays ==
    ASSUME NEW y, NEW m, NEW d, IsDate(y, m, d), NEW f \in 0 .. 6, NEW c, c = DayOfYear(y, m, d)
    PROVE  /\ c \in Nat
           /\ \A j : /\ IsSunday(y, f, j, 3, 8, 14) => Beside(c, m, d, f, j, 3, 8, 14)
                     /\ IsSunday(y, f, j, 4, 1, 7) => Beside(c, m, d, f, j, 4, 1, 7)
                     /\ IsSunday(y, f, j, 11, 1, 7) => Beside(c, m, d, f, j, 11, 1, 7)
                     /\ IsSunday(y, f, j, 10, 25, 31) => Beside(c, m, d, f, j, 10, 25, 31)
<1>1. /\ DaysOfMonth(y, 3, 8, 14) /\ DaysOfMonth(y, 4, 1, 7)
      /\ DaysOfMonth(y, 11, 1, 7) /\ DaysOfMonth(y, 10, 25, 31)
  BY DEF DaysOfMonth, Length
<1>2. c \in Nat
  BY DateYearDay, Zenon
<1>3. ASSUME NEW month, NEW low, NEW high, DaysOfMonth(y, month, low, high),
             NEW j, IsSunday(y, f, j, month, low, high)
      PROVE  Beside(c, m, d, f, j, month, low, high)
  BY <1>3, BesideSunday, Zenon
<1>4. QED
  BY <1>1, <1>2, <1>3, Zenon

(* The Sundays of a month that are over on day d, when the k-th is one.    *)
LEMMA SundaysAre ==
    ASSUME NEW d \in Int, 1 <= d, d <= 31, NEW k \in Int, NEW w, w = (d - k) % 7
    PROVE  /\ w \in 0 .. 6
           /\ 8 <= k /\ k <= 14 =>
                 /\ d > k <=> \/ (d + 6 - w) \div 7 > 2
                              \/ (d + 6 - w) \div 7 = 2 /\ w # 0
                 /\ d = k <=> (d + 6 - w) \div 7 = 2 /\ w = 0
           /\ 1 <= k /\ k <= 7 =>
                 /\ d > k <=> \/ (d + 6 - w) \div 7 > 1
                              \/ (d + 6 - w) \div 7 = 1 /\ w # 0
                 /\ d = k <=> (d + 6 - w) \div 7 = 1 /\ w = 0
                 /\ d < k <=> (d + 6 - w) \div 7 = 0
           /\ 25 <= k /\ k <= 31 =>
                 /\ d < k <=> d + 7 - w <= 31
                 /\ d = k => w = 0
                 /\ d > k => w # 0
<1>1. w \in 0 .. 6 /\ \E q \in Int : d - k = 7 * q + w
  OBVIOUS
<1>2. PICK q \in Int : d - k = 7 * q + w
  BY <1>1
<1>3. QED
  BY <1>1, <1>2

LEMMA DateFields ==
    ASSUME NEW y, NEW m, NEW d, IsDate(y, m, d)
    PROVE  y \in Int /\ m \in 1 .. 12 /\ d \in Int /\ 1 <= d /\ d <= 31
<1>1. y \in Int /\ m \in 1 .. 12
  BY Zenon DEF IsDate
<1>2. PICK l \in 28 .. 31 : l = Length(y, m)
  BY <1>1, MonthLengths, Zenon
<1>3. d \in 1 .. l
  BY <1>2, Zenon DEF IsDate
<1>4. QED
  BY <1>1, <1>3

SecondOfDay(s) == s \in Nat /\ s < 86400

(* Seconds of the year, before and after a second of day j.                *)
LEMMA SecondsInOrder ==
    ASSUME NEW c \in Int, NEW j \in Int, NEW s, SecondOfDay(s), NEW x, SecondOfDay(x)
    PROVE  /\ c * 86400 + s >= 86400 * j + x <=> c > j \/ (c = j /\ s >= x)
           /\ c * 86400 + s <= 86400 * j + x <=> c < j \/ (c = j /\ s <= x)
  BY DEF SecondOfDay

LEMMA StartedIs ==
    ASSUME NEW e, IsDate(e.year, e.month, e.day), NEW f \in 0 .. 6, NEW c, c = DayOfYear(e.year, e.month, e.day),
           e.weekday = (f + c) % 7, NEW s, SecondOfDay(s)
    PROVE  c * SEC_DAY + s >= DaylightStart(e.year, f)
               <=> HasStarted(e, s, IF e.year >= 2007 THEN 3 ELSE 4, IF e.year >= 2007 THEN 2 ELSE 1)
<1>1. PICK y, m, d, w : y = e.year /\ m = e.month /\ d = e.day /\ w = e.weekday
  OBVIOUS
<1>2. IsDate(y, m, d) /\ c = DayOfYear(y, m, d) /\ w = (f + c) % 7
  BY <1>1
<1>3. y \in Int /\ m \in 1 .. 12 /\ d \in Int /\ 1 <= d /\ d <= 31
  BY <1>2, DateFields, Zenon
<1>3a. /\ c \in Nat
       /\ \A j : /\ IsSunday(y, f, j, 3, 8, 14) => Beside(c, m, d, f, j, 3, 8, 14)
                 /\ IsSunday(y, f, j, 4, 1, 7) => Beside(c, m, d, f, j, 4, 1, 7)
                 /\ IsSunday(y, f, j, 11, 1, 7) => Beside(c, m, d, f, j, 11, 1, 7)
                 /\ IsSunday(y, f, j, 10, 25, 31) => Beside(c, m, d, f, j, 10, 25, 31)
  BY <1>2, BesideSundays, Zenon
<1>4. c \in Int
  BY <1>3a
<1>5. CASE y >= 2007
  <2>1. PICK j : IsSunday(y, f, j, 3, 8, 14) /\ DaylightStart(y, f) = 86400 * j + 7200
    BY <1>3, <1>5, Starts2007
  <2>2. j \in Int
    BY <2>1 DEF IsSunday
  <2>3. /\ m < 3 => c < j
        /\ m > 3 => c > j
        /\ m = 3 => \E k \in 8 .. 14 : c - j = d - k /\ (f + c) % 7 = (d - k) % 7
    <3>1. IsSunday(y, f, j, 3, 8, 14)
      BY <2>1
    <3>2. Beside(c, m, d, f, j, 3, 8, 14)
      BY <1>3a, <3>1
    <3>3. QED
      BY <3>2 DEF Beside
  <2>4. c * 86400 + s >= DaylightStart(y, f) <=> c > j \/ (c = j /\ s >= 7200)
    BY <1>4, <2>1, <2>2, SecondsInOrder DEF SecondOfDay
  <2>5. c > j \/ (c = j /\ s >= 7200)
            <=> \/ m > 3
                \/ m = 3 /\ (d + 6 - w) \div 7 > 2
                \/ m = 3 /\ (d + 6 - w) \div 7 = 2 /\ (w # 0 \/ s >= 7200)
    <3>1. CASE m # 3
      BY <1>3, <1>4, <2>2, <2>3, <3>1
    <3>2. CASE m = 3
      <4>1. PICK k \in 8 .. 14 : c - j = d - k /\ w = (d - k) % 7
        BY <1>2, <2>3, <3>2
      <4>2. /\ d > k <=> \/ (d + 6 - w) \div 7 > 2
                         \/ (d + 6 - w) \div 7 = 2 /\ w # 0
            /\ d = k <=> (d + 6 - w) \div 7 = 2 /\ w = 0
        BY <1>3, <4>1, SundaysAre
      <4>3. (c > j <=> d > k) /\ (c = j <=> d = k)
        BY <1>3, <1>4, <2>2, <4>1
      <4>4. ~(3 > 3)
        OBVIOUS
      <4>5. QED
        BY <3>2, <4>2, <4>3, <4>4
    <3>3. QED
      BY <3>1, <3>2
  <2>6. QED
    BY <1>1, <1>5, <2>4, <2>5 DEF HasStarted, SundaysTo, SEC_DAY
<1>6. CASE ~(y >= 2007)
  <2>1. PICK j : IsSunday(y, f, j, 4, 1, 7) /\ DaylightStart(y, f) = 86400 * j + 7200
    BY <1>3, <1>6, Starts2006
  <2>2. j \in Int
    BY <2>1 DEF IsSunday
  <2>3. /\ m < 4 => c < j
        /\ m > 4 => c > j
        /\ m = 4 => \E k \in 1 .. 7 : c - j = d - k /\ (f + c) % 7 = (d - k) % 7
    <3>1. IsSunday(y, f, j, 4, 1, 7)
      BY <2>1
    <3>2. Beside(c, m, d, f, j, 4, 1, 7)
      BY <1>3a, <3>1
    <3>3. QED
      BY <3>2 DEF Beside
  <2>4. c * 86400 + s >= DaylightStart(y, f) <=> c > j \/ (c = j /\ s >= 7200)
    BY <1>4, <2>1, <2>2, SecondsInOrder DEF SecondOfDay
  <2>5. c > j \/ (c = j /\ s >= 7200)
            <=> \/ m > 4
                \/ m = 4 /\ (d + 6 - w) \div 7 > 1
                \/ m = 4 /\ (d + 6 - w) \div 7 = 1 /\ (w # 0 \/ s >= 7200)
    <3>1. CASE m # 4
      BY <1>3, <1>4, <2>2, <2>3, <3>1
    <3>2. CASE m = 4
      <4>1. PICK k \in 1 .. 7 : c - j = d - k /\ w = (d - k) % 7
        BY <1>2, <2>3, <3>2
      <4>2. /\ d > k <=> \/ (d + 6 - w) \div 7 > 1
                         \/ (d + 6 - w) \div 7 = 1 /\ w # 0
            /\ d = k <=> (d + 6 - w) \div 7 = 1 /\ w = 0
        BY <1>3, <4>1, SundaysAre
      <4>3. (c > j <=> d > k) /\ (c = j <=> d = k)
        BY <1>3, <1>4, <2>2, <4>1
      <4>4. ~(4 > 4)
        OBVIOUS
      <4>5. QED
        BY <3>2, <4>2, <4>3, <4>4
    <3>3. QED
      BY <3>1, <3>2
  <2>6. QED
    BY <1>1, <1>6, <2>4, <2>5 DEF HasStarted, SundaysTo, SEC_DAY
<1>7. QED
  BY <1>5, <1>6

LEMMA NotEndedIs ==
    ASSUME NEW e, IsDate(e.year, e.month, e.day), NEW f \in 0 .. 6, NEW c, c = DayOfYear(e.year, e.month, e.day),
           e.weekday = (f + c) % 7, NEW s, SecondOfDay(s), ~EndsAt(e, s)
    PROVE  c * SEC_DAY + s <= DaylightEnd(e.year, f) <=> HasNotEnded(e, s)
<1>1. PICK y, m, d, w : y = e.year /\ m = e.month /\ d = e.day /\ w = e.weekday
  OBVIOUS
<1>2. IsDate(y, m, d) /\ c = DayOfYear(y, m, d) /\ w = (f + c) % 7
  BY <1>1
<1>3. y \in Int /\ m \in 1 .. 12 /\ d \in Int /\ 1 <= d /\ d <= 31
  BY <1>2, DateFields, Zenon
<1>3a. /\ c \in Nat
       /\ \A j : /\ IsSunday(y, f, j, 3, 8, 14) => Beside(c, m, d, f, j, 3, 8, 14)
                 /\ IsSunday(y, f, j, 4, 1, 7) => Beside(c, m, d, f, j, 4, 1, 7)
                 /\ IsSunday(y, f, j, 11, 1, 7) => Beside(c, m, d, f, j, 11, 1, 7)
                 /\ IsSunday(y, f, j, 10, 25, 31) => Beside(c, m, d, f, j, 10, 25, 31)
  BY <1>2, BesideSundays, Zenon
<1>4. c \in Int
  BY <1>3a
<1>5. CASE y >= 2007
  <2>1. PICK j : IsSunday(y, f, j, 11, 1, 7) /\ DaylightEnd(y, f) = 86400 * j + 3600
    BY <1>3, <1>5, Ends2007
  <2>2. j \in Int
    BY <2>1 DEF IsSunday
  <2>3. /\ m < 11 => c < j
        /\ m > 11 => c > j
        /\ m = 11 => \E k \in 1 .. 7 : c - j = d - k /\ (f + c) % 7 = (d - k) % 7
    <3>1. IsSunday(y, f, j, 11, 1, 7)
      BY <2>1
    <3>2. Beside(c, m, d, f, j, 11, 1, 7)
      BY <1>3a, <3>1
    <3>3. QED
      BY <3>2 DEF Beside
  <2>4. c * 86400 + s <= DaylightEnd(y, f) <=> c < j \/ (c = j /\ s <= 3600)
    BY <1>4, <2>1, <2>2, SecondsInOrder DEF SecondOfDay
  <2>5. c < j \/ (c = j /\ s <= 3600)
            <=> \/ m < 11
                \/ m = 11 /\ (d + 6 - w) \div 7 = 0
                \/ m = 11 /\ (d + 6 - w) \div 7 = 1 /\ w = 0 /\ s <= 3600
    <3>1. CASE m # 11
      BY <1>3, <1>4, <2>2, <2>3, <3>1
    <3>2. CASE m = 11
      <4>1. PICK k \in 1 .. 7 : c - j = d - k /\ w = (d - k) % 7
        BY <1>2, <2>3, <3>2
      <4>2. /\ d = k <=> (d + 6 - w) \div 7 = 1 /\ w = 0
            /\ d < k <=> (d + 6 - w) \div 7 = 0
        BY <1>3, <4>1, SundaysAre
      <4>3. (c < j <=> d < k) /\ (c = j <=> d = k)
        BY <1>3, <1>4, <2>2, <4>1
      <4>4. ~(11 < 11)
        OBVIOUS
      <4>5. QED
        BY <3>2, <4>2, <4>3, <4>4
    <3>3. QED
      BY <3>1, <3>2
  <2>6. ~(m = 11 /\ (d + 6 - w) \div 7 = 1 /\ w = 0 /\ s = 3600)
    BY <1>1, <1>5 DEF EndsAt, SundaysTo
  <2>7. s <= 3600 <=> s < 3600 \/ s = 3600
    BY DEF SecondOfDay
  <2>8. c < j \/ (c = j /\ s <= 3600)
            <=> \/ m < 11
                \/ m = 11 /\ (d + 6 - w) \div 7 = 0
                \/ m = 11 /\ (d + 6 - w) \div 7 = 1 /\ w = 0 /\ s < 3600
    BY <2>5, <2>6, <2>7
  <2>9. QED
    BY <1>1, <1>5, <2>4, <2>8 DEF HasNotEnded, SundaysTo, SEC_DAY
<1>6. CASE ~(y >= 2007)
  <2>1. PICK j : IsSunday(y, f, j, 10, 25, 31) /\ DaylightEnd(y, f) = 86400 * j + 3600
    BY <1>3, <1>6, Ends2006
  <2>2. j \in Int
    BY <2>1 DEF IsSunday
  <2>3. /\ m < 10 => c < j
        /\ m > 10 => c > j
        /\ m = 10 => \E k \in 25 .. 31 : c - j = d - k /\ (f + c) % 7 = (d - k) % 7
    <3>1. IsSunday(y, f, j, 10, 25, 31)
      BY <2>1
    <3>2. Beside(c, m, d, f, j, 10, 25, 31)
      BY <1>3a, <3>1
    <3>3. QED
      BY <3>2 DEF Beside
  <2>4. c * 86400 + s <= DaylightEnd(y, f) <=> c < j \/ (c = j /\ s <= 3600)
    BY <1>4, <2>1, <2>2, SecondsInOrder DEF SecondOfDay
  <2>5. c < j \/ (c = j /\ s <= 3600)
            <=> \/ m < 10
                \/ m = 10 /\ d + 7 - w <= 31
                \/ m = 10 /\ w = 0 /\ s <= 3600
    <3>1. CASE m # 10
      BY <1>3, <1>4, <2>2, <2>3, <3>1
    <3>2. CASE m = 10
      <4>1. PICK k \in 25 .. 31 : c - j = d - k /\ w = (d - k) % 7
        BY <1>2, <2>3, <3>2
      <4>2. /\ d < k <=> d + 7 - w <= 31
            /\ d = k => w = 0
            /\ d > k => w # 0
        <5>1. /\ d \in Int /\ 1 <= d /\ d <= 31 /\ k \in Int /\ w = (d - k) % 7
              /\ 25 <= k /\ k <= 31
          BY <1>3, <4>1
        <5>2. QED
          BY <5>1, SundaysAre, Zenon
      <4>3. (c < j <=> d < k) /\ (c = j <=> d = k) /\ (d < k \/ d = k \/ d > k)
        <5>1. d \in Int /\ c - j = d - k
          BY <1>3, <4>1, Zenon
        <5>2. QED
          BY <1>4, <2>2, <5>1
      <4>4. ~(10 < 10)
        OBVIOUS
      <4>5. QED
        BY <3>2, <4>2, <4>3, <4>4
    <3>3. QED
      BY <3>1, <3>2
  <2>6. m = 10 => Length(y, m) = 31
    BY DEF Length
  <2>7. ~(m = 10 /\ ~(d + 7 - w <= 31) /\ w = 0 /\ s = 3600)
    BY <1>1, <1>6, <2>6 DEF EndsAt, SundayToCome
  <2>8. s <= 3600 <=> s < 3600 \/ s = 3600
    BY DEF SecondOfDay
  <2>9. c < j \/ (c = j /\ s <= 3600)
            <=> \/ m < 10
                \/ m = 10 /\ d + 7 - w <= 31
                \/ m = 10 /\ w = 0 /\ s < 3600
    BY <2>5, <2>7, <2>8
  <2>10. QED
    BY <1>1, <1>6, <2>4, <2>6, <2>9 DEF HasNotEnded, SundayToCome, SEC_DAY
<1>7. QED
  BY <1>5, <1>6

(* The local clock, and the weekday of January 1st, that                   *)
(* Clock_IsDaylightSaving2 finds.                                          *)
LEMMA LocalIs ==
    ASSUME NEW t \in Int, NEW s, SecondOfDay(s), NEW tz \in Int
    PROVE  Later(Later(Clock(t, s), tz * 3600), -tz * 3600) = Clock(t, s)
<1>1. PICK a \in Int : a = tz * 3600 /\ -tz * 3600 = 0 - a
  OBVIOUS
<1>2. PICK q \in Int, r \in Int : q = t + ((s + a) \div SEC_DAY) /\ r = (s + a) % SEC_DAY
  BY DEF SEC_DAY, SecondOfDay
<1>3. q + ((r + (0 - a)) \div SEC_DAY) = t /\ (r + (0 - a)) % SEC_DAY = s
  BY <1>2 DEF SEC_DAY, SecondOfDay
<1>4. Later(Clock(t, s), a) = Clock(q, r)
  <2>1. Later(Clock(t, s), a) = Clock(t + ((s + a) \div SEC_DAY), (s + a) % SEC_DAY)
    BY LaterIs
  <2>2. QED
    BY <1>2, <2>1
<1>5. Later(Clock(q, r), 0 - a) = Clock(t, s)
  <2>1. Later(Clock(q, r), 0 - a) = Clock(q + ((r + (0 - a)) \div SEC_DAY), (r + (0 - a)) % SEC_DAY)
    BY LaterIs
  <2>2. QED
    BY <1>3, <2>1
<1>6. QED
  BY <1>1, <1>4, <1>5

(* Daylight saving time is that of the Sundays, in every year since 1970   *)
(* and in every time zone, at every second but the one at which it ends.   *)
THEOREM KnowsDaylightSaving == ClockSpec => []DaylightIsRight
<1>1. ASSUME CalendarInv, date.year >= 1970, NEW s, SecondOfDay(s), NEW tz \in Int,
             ~EndsAt(date, s)
      PROVE  Clock_IsDaylightSaving2(Later(Clock(totDay, s), tz * 3600), tz)
                <=> /\ HasStarted(date, s, IF date.year >= 2007 THEN 3 ELSE 4, IF date.year >= 2007 THEN 2 ELSE 1)
                    /\ HasNotEnded(date, s)
  <2>1. PICK y \in Int, m \in 1 .. 12, d \in Int : y = date.year /\ m = date.month /\ d = date.day
    BY <1>1, CalendarDate
  <2>2. IsDate(y, m, d) /\ totDay = DayNumber(y, m, d) /\ totDay \in Int /\ date.weekday = (4 + totDay) % 7
    BY <1>1, <2>1, CalendarDate DEF CalendarInv, CalendarAt
  <2>3. PICK c \in Nat : c = DayOfYear(y, m, d)
    BY <2>2, DateYearDay
  <2>4. Clock_Epoch2YearDay(totDay) = [year |-> y, day |-> c]
    BY <2>2, <2>3, DateYearDay
  <2>5. PICK b \in Nat : b = NewYearsDay(y)
    <3>1. NewYearsDay(1970) = 0
      BY DEF NewYearsDay, LeapsBefore
    <3>2. NewYearsDay(y) \in Int /\ NewYearsDay(y) >= 0
      <4>1. NewYearsDay(y) \in Int
        BY NextNewYear
      <4>2. CASE y = 1970
        BY <3>1, <4>2
      <4>3. CASE 1970 < y
        <5>1. NewYearsDay(1970 + 1) <= NewYearsDay(y)
          BY <4>3, YearsInOrder
        <5>2. NewYearsDay(1970 + 1) = NewYearsDay(1970) + YearLength(1970)
          BY NextNewYear
        <5>3. QED
          BY <3>1, <4>1, <5>1, <5>2 DEF YearLength
      <4>4. QED
        BY <1>1, <2>1, <4>2, <4>3
    <3>3. QED
      BY <3>2
  <2>6. totDay = b + c
    BY <2>2, <2>3, <2>5, Zenon DEF DayNumber
  <2>7. PICK f \in 0 .. 6 : f = (4 + b) % 7 /\ f = CMod(4 + (totDay - c), 7)
    <3>1. totDay - c = b
      BY <2>6
    <3>2. CMod(4 + b, 7) = (4 + b) % 7 /\ (4 + b) % 7 \in 0 .. 6
      BY DEF CMod, CDiv
    <3>3. QED
      BY <3>1, <3>2
  <2>8. date.weekday = (f + c) % 7
    BY <2>2, <2>6, <2>7
  <2>9. Later(Later(Clock(totDay, s), tz * 3600), -tz * 3600) = Clock(totDay, s)
    BY <1>1, <2>2, LocalIs
  <2>10. Clock_IsDaylightSaving2(Later(Clock(totDay, s), tz * 3600), tz)
            <=> c * SEC_DAY + s >= DaylightStart(y, f) /\ c * SEC_DAY + s <= DaylightEnd(y, f)
    <3>1. PICK l : l = Clock(totDay, s)
      OBVIOUS
    <3>2. l.day = totDay /\ l.sec = s
      BY <3>1 DEF Clock
    <3>3. PICK u : u = Later(l, tz * 3600) /\ Later(u, -tz * 3600) = l
      BY <2>9, <3>1
    <3>4. PICK yd : yd = Clock_Epoch2YearDay(l.day) /\ yd.year = y /\ yd.day = c
      BY <2>4, <3>2
    <3>5. Clock_IsDaylightSaving2(u, tz)
            <=> /\ yd.day * SEC_DAY + l.sec >= DaylightStart(yd.year, CMod(4 + (l.day - yd.day), 7))
                /\ yd.day * SEC_DAY + l.sec <= DaylightEnd(yd.year, CMod(4 + (l.day - yd.day), 7))
      BY <3>3, <3>4 DEF Clock_IsDaylightSaving2
    <3>6. QED
      BY <2>7, <3>1, <3>2, <3>3, <3>4, <3>5
  <2>11. IsDate(date.year, date.month, date.day) /\ c = DayOfYear(date.year, date.month, date.day)
    BY <2>1, <2>2, <2>3
  <2>12. c * SEC_DAY + s >= DaylightStart(y, f)
             <=> HasStarted(date, s, IF date.year >= 2007 THEN 3 ELSE 4, IF date.year >= 2007 THEN 2 ELSE 1)
    BY <1>1, <2>1, <2>8, <2>11, StartedIs
  <2>13. c * SEC_DAY + s <= DaylightEnd(y, f) <=> HasNotEnded(date, s)
    BY <1>1, <2>1, <2>8, <2>11, NotEndedIs
  <2>14. QED
    BY <2>10, <2>12, <2>13
<1>2. CalendarInv => DaylightIsRight
  <2>1. SUFFICES ASSUME CalendarInv, date.year >= 1970, NEW s \in Seconds, NEW tz \in TimeZones,
                        ~EndsAt(date, s)
                 PROVE  Clock_IsDaylightSaving2(Later(Clock(totDay, s), tz * 3600), tz)
                          <=> /\ HasStarted(date, s, IF date.year >= 2007 THEN 3 ELSE 4,
                                                     IF date.year >= 2007 THEN 2 ELSE 1)
                              /\ HasNotEnded(date, s)
    BY DEF DaylightIsRight
  <2>2. SecondOfDay(s) /\ tz \in Int
    BY ClockAssumption DEF SecondOfDay
  <2>3. QED
    BY <1>1, <2>1, <2>2
<1>3. QED
  BY <1>2, CalendarInvariant, PTL
=============================================================================
