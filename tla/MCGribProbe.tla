----------------------------- MODULE MCGribProbe -----------------------------
(***************************************************************************)
(* One file of up to three messages of one, two or three grids, some with  *)
(* a bad grid definition or an undecodable grid, or trailing bytes.        *)
(***************************************************************************)
EXTENDS GribProbe

Msg(v, gs, k) == [ver |-> v, grids |-> gs, sect0 |-> TRUE, intact |-> k]
Trailing == [ver |-> 1, grids |-> <<TRUE>>, sect0 |-> FALSE, intact |-> 0]

Msgs == {Msg(1, <<TRUE>>, 1), Msg(2, <<TRUE, TRUE>>, 2), Msg(2, <<TRUE, TRUE, FALSE>>, 3),
         Msg(2, <<TRUE, TRUE, TRUE>>, 1), Trailing}

MCField == BOOLEAN
MCFileLists ==
    {<<f>> : f \in {<<>>} \cup {<<a>> : a \in Msgs} \cup {<<a, b>> : a, b \in Msgs}
                      \cup {<<a, b, c>> : a, b, c \in Msgs}}
===============================================================================
