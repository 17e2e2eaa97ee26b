--------------------------- MODULE MCDatabaseProbe ---------------------------
(***************************************************************************)
(* The live database gets the grids of files of at most two messages; in   *)
(* the archive each grid has a file of its own, and one of them is the     *)
(* same NDFD element as Max, under another name.                           *)
(***************************************************************************)
EXTENDS DatabaseProbe

D(kind, valid, name) ==
    [kind |-> kind, validTime |-> valid, P1 |-> valid, name |-> name, known |-> TRUE]

Max1 == D("Max", 12, "max12")
Max2 == D("Max", 24, "max24")
Old1 == D("OldMax", 12, "old12")
Old3 == D("OldMax", 36, "old36")

MCField == {Max1, Max2, Old1, Old3}
MCNames == {d.name : d \in MCField} \cup {"cube"}

Msg(gs) == [ver |-> 2, grids |-> gs, sect0 |-> TRUE, intact |-> Len(gs)]

MCLists == { << <<Msg(<<Max1>>)>> >>, << <<Msg(<<Max2>>)>>, <<Msg(<<Max1>>)>> >> }
MCRequests == {[msgNum |-> 0, f_Append |-> TRUE, f_Cube |-> TRUE]}

MCFilter == {[kind |-> k, time |-> t] : k \in {"Max", "OldMax"}, t \in {12, 36}}
MCSight(kind) == IF kind = "OldMax" THEN "Max" ELSE kind

Kept == {Old1, Old3}
MCArchive ==
    [idx |-> [ok |-> TRUE,
              store |-> {[key |-> [kind |-> d.kind, time |-> d.validTime],
                          place |-> [name |-> d.name, offset |-> 0]] : d \in Kept}],
     dat |-> [n \in MCNames |->
                 LET own == {d \in Kept : d.name = n}
                 IN  IF own = {} THEN <<>>
                     ELSE <<[ver |-> 2, field |-> CHOOSE d \in own : TRUE]>>]]

MCProbeLists == {<<"live", "archive">>, <<"archive", "live">>}
Zeroed == {0}
===============================================================================
