---------------------------- MODULE MCGridValues ----------------------------
(* Messages for GridValues.  Values are small numbers, 9999 is 90, and     *)
(* values are stored in multiples of 2.                                    *)
EXTENDS GridValues

Plain == [Nx |-> 2, Ny |-> 2, scan |-> 64, fld |-> <<>>, bmap |-> <<>>, f_miss |-> 0,
          missPri |-> 0, missSec |-> 0, table |-> <<>>, unitM |-> 1, unitB |-> 0,
          sub |-> <<>>]

(* Every order, of grids that are no squares, whole or in part: the        *)
(* subgrid may reach beyond the right and the upper border.                *)
Oblongs == {[Plain EXCEPT !.Nx = n[1], !.Ny = n[2], !.scan = 16 * s,
                          !.fld = [i \in 0 .. 5 |-> 2 * i], !.f_miss = m] :
               n \in {<<2, 3>>, <<3, 2>>}, s \in 0 .. 15, m \in 0 .. 1}

InAllOrders ==
    {[c EXCEPT !.missPri = p] : c \in Oblongs, p \in {90, 4}}
    \cup {[c EXCEPT !.missPri = 90, !.sub = w] :
             c \in Oblongs, w \in {<<2, 1, 4, 2>>, <<1, 2, 2, 4>>}}

(* No subgrid of a grid whose scan mode has other bits (scan 65).          *)
Refused == {[Plain EXCEPT !.scan = 65, !.fld = [i \in 0 .. 3 |-> i],
                          !.sub = <<1, 1, 2, 2>>]}

(* The values are any three and a fourth.                                  *)
Fields(vals, v) == {[i \in 0 .. 3 |-> IF i = 3 THEN v ELSE f[i]] : f \in [0 .. 2 -> vals]}

(* Missing values within, at the edge of and beyond the range, before and   *)
(* after the units are converted.                                          *)
WithMissing ==
    {[Plain EXCEPT !.scan = s, !.fld = f, !.f_miss = m, !.missPri = p[1],
                   !.missSec = p[2], !.unitM = u[1], !.unitB = u[2]] :
        s \in {64, 65, 0}, f \in Fields({3, 5, 7, 90}, 7), m \in 1 .. 2,
        p \in {<<90, 5>>, <<5, 90>>, <<90, 91>>}, u \in {<<1, 0>>, <<3, -4>>}}

WithBitmap ==
    {[Plain EXCEPT !.scan = s, !.fld = f, !.bmap = b, !.unitM = u] :
        s \in {64, 0, 176}, f \in [0 .. 3 -> {2, 8}], b \in [0 .. 3 -> 0 .. 1],
        u \in {1, 3}}

(* Weather strings, of which the second may be invalid.                    *)
WithTable ==
    {[Plain EXCEPT !.scan = s, !.fld = f, !.f_miss = m, !.missPri = 90,
                   !.missSec = 92, !.table = t] :
        s \in {64, 128}, f \in Fields({0, 1, 2, 90}, 0), m \in 0 .. 2,
        t \in {[k \in 0 .. 2 |-> 1], [k \in 0 .. 2 |-> IF k = 1 THEN 0 ELSE 1]}}

AllCases == InAllOrders \cup WithMissing \cup WithBitmap \cup WithTable
            \cup Refused

(* The theorems of GridAndClockProofs are about these messages.              *)
ASSUME CasesAreDecodable == \A c \in AllCases : Decodable(c)

ReadWindows == {<<1, 1, 2, 2>>, <<0, 0, 2, 3>>, <<2, 1, 3, 3>>}
ProbedPoints == {<<2, 2>>, <<3, 3>>, <<3, 2>>, <<4, 5>>, <<5, 3>>, <<0, 2>>, <<8, 2>>}
=============================================================================
