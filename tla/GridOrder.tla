------------------------------ MODULE GridOrder ------------------------------
(***************************************************************************)
(* The order of the points of a grid (scan.c).  A message lists them in    *)
(* one of 16 orders (GRIB2 flag table 3.4); in memory they are in the      *)
(* order of scan mode 64, by row, from the lower left corner.  Points are  *)
(* numbered from 0 and coordinates from 1.                                 *)
(***************************************************************************)
EXTENDS Integers

GRIB2BIT_1 == 128    \* decrease x
GRIB2BIT_2 == 64     \* increase y
GRIB2BIT_3 == 32     \* adjacent points in y direction consecutive
GRIB2BIT_4 == 16     \* adjacent rows scan in opposite directions

ScanModes == 0 .. 255

HasBit(scan, bit) == (scan \div bit) % 2 = 1

(* The number of points in a line, which is a row or a column.             *)
LineLength(scan, Nx, Ny) == IF HasBit(scan, GRIB2BIT_3) THEN Ny ELSE Nx

(* Whether a line is scanned against the direction of the first.           *)
RunsBack(scan, line) == HasBit(scan, GRIB2BIT_4) /\ line % 2 = 1

Turned(scan, n, line, k) == IF RunsBack(scan, line) THEN n - 1 - k ELSE k

MirrorX(scan, Nx, x) == IF HasBit(scan, GRIB2BIT_1) THEN Nx - 1 - x ELSE x
MirrorY(scan, Ny, y) == IF HasBit(scan, GRIB2BIT_2) THEN y ELSE Ny - 1 - y

(* Mutant: the remainder is taken by the length of a row in every mode.    *)
ScanIndex2XYByRows(row, scan, Nx, Ny) ==
    LET line == row \div Nx
        k == Turned(scan, Nx, line, row % Nx)
        x == IF HasBit(scan, GRIB2BIT_3) THEN line ELSE k
        y == IF HasBit(scan, GRIB2BIT_3) THEN k ELSE line
    IN  [x |-> MirrorX(scan, Nx, x) + 1, y |-> MirrorY(scan, Ny, y) + 1]

ScanIndex2XY(row, scan, Nx, Ny) ==
    LET n == LineLength(scan, Nx, Ny)
        line == row \div n
        k == Turned(scan, n, line, row % n)
        x == IF HasBit(scan, GRIB2BIT_3) THEN line ELSE k
        y == IF HasBit(scan, GRIB2BIT_3) THEN k ELSE line
    IN  [x |-> MirrorX(scan, Nx, x) + 1, y |-> MirrorY(scan, Ny, y) + 1]

XY2ScanIndex(x, y, scan, Nx, Ny) ==
    LET n == LineLength(scan, Nx, Ny)
        x0 == MirrorX(scan, Nx, x - 1)
        y0 == MirrorY(scan, Ny, y - 1)
        line == IF HasBit(scan, GRIB2BIT_3) THEN x0 ELSE y0
        k == IF HasBit(scan, GRIB2BIT_3) THEN y0 ELSE x0
    IN  Turned(scan, n, line, k) + line * n

(* The number of a point in memory.                                        *)
InMemory(p, Nx) == (p.x - 1) + (p.y - 1) * Nx
=============================================================================
