--------------------------- MODULE MCDegribConvert ---------------------------
(***************************************************************************)
(* The lists of at most two files of at most two messages each, where a    *)
(* message is a GRIB1 or TDLPack one, a GRIB2 one of two grids of which    *)
(* both, or only the first, can be decoded, or trailing bytes.             *)
(***************************************************************************)
EXTENDS DegribConvert

Grib1 == [ver |-> 1, grids |-> <<0>>, sect0 |-> TRUE, intact |-> 1]
Tdlp == [ver |-> -1, grids |-> <<0>>, sect0 |-> TRUE, intact |-> 1]
Grib2(n, k) == [ver |-> 2, grids |-> [i \in 1..n |-> 0], sect0 |-> TRUE, intact |-> k]
Trailing == [ver |-> 1, grids |-> <<0>>, sect0 |-> FALSE, intact |-> 0]

Msgs == {Grib1, Grib2(2, 2), Grib2(3, 1), Trailing}
FilesOf(S) == {<<>>} \cup {<<m>> : m \in S} \cup {<<m, n>> : m, n \in S}

MCField == {0}
MCFileLists ==
    {<<a, b>> : a, b \in FilesOf(Msgs)} \cup {<<<<Tdlp, Grib2(3, 3), Tdlp>>, <<>>, <<Tdlp>>>>}
MCRequests == {[msgNum |-> 0, subgNum |-> 0]} \cup [msgNum : 1..4, subgNum : 0..1]
===============================================================================
