----------------------------- MODULE MCFlxIndex -----------------------------
(***************************************************************************)
(* Grids of two elements, two reference times, tags of three lengths, two  *)
(* grid definitions and three valid times, one of which comes back with a  *)
(* place of another length.                                                *)
(***************************************************************************)
EXTENDS FlxIndex

G(gds, el, ref, tag, valid, place) ==
    [gds |-> gds, element |-> el, refTime |-> ref, tag |-> tag,
     validTime |-> valid, place |-> place]

MCGrids == {G(7, 1, 5, <<1>>, 6, <<3>>), G(7, 1, 5, <<1>>, 8, <<3>>),
            G(7, 1, 5, <<1>>, 8, <<4, 4>>), G(8, 1, 5, <<1>>, 7, <<>>),
            G(7, 2, 5, <<>>, 7, <<3>>), G(8, 1, 6, <<2, 1>>, 7, <<3>>)}

ASSUME CountsDoFit == CountsFit
===============================================================================
