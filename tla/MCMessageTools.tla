---------------------------- MODULE MCMessageTools ----------------------------
(***************************************************************************)
(* Files of up to three messages of the three kinds, with headers shorter  *)
(* and longer than GRIB_LIMIT, decoys, trailing bytes, and cut off at the  *)
(* end.                                                                    *)
(***************************************************************************)
EXTENDS MessageTools

M(ver, gap, len, head, time, grids) ==
    [ver |-> ver, gap |-> gap, len |-> len, head |-> head, refTime |-> time,
     grids |-> grids, decoys |-> {60}]

Grib1(gap, t) == M(1, gap, 100, 36, t, 1)
Grib2(gap, t, n) == M(2, gap, 200, 37, t, n)
Tdlp(t) == M(-1, 12, 93, 47, t, 1)

File(ms, trail, missing) == [msgs |-> ms, trail |-> trail, missing |-> missing]
Whole(ms) == File(ms, 0, 0)

MCFiles == {Whole(<<>>),
            Whole(<<Grib2(41, 5, 2), Grib1(0, 3)>>),
            Whole(<<Grib1(292, 2), Grib2(293, 4, 1)>>),
            Whole(<<Grib1(293, 1)>>),
            Whole(<<Tdlp(4), Tdlp(2), Tdlp(3)>>),
            File(<<Grib1(21, 1), Tdlp(4)>>, 0, 0),
            File(<<Grib2(0, 5, 3)>>, 11, 0),
            File(<<>>, 40, 0),
            File(<<Grib1(0, 6), Grib2(0, 4, 2)>>, 0, 50),
            File(<<Grib2(21, 6, 1), Grib1(0, 4)>>, 0, 70)}

MCByteLists == {<<f>> : f \in MCFiles} \cup {<<f, g>> : f, g \in MCFiles}
TdlpLists == {<<Whole(<<Tdlp(4)>>), Whole(<<Tdlp(2), Tdlp(3)>>)>>}
MCMsgNums == 0..4
MCGarbage == {99}
===============================================================================
