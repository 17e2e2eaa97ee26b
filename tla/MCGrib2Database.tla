--------------------------- MODULE MCGrib2Database ---------------------------
(***************************************************************************)
(* Files of at most two messages: GRIB2 messages of one to three grids, a  *)
(* second grid of the key of the first, one that the index cannot hold,    *)
(* and a GRIB1 total, which is indexed under the start of its time range.  *)
(***************************************************************************)
EXTENDS Grib2Database

D(kind, valid, p1, name, known) ==
    [kind |-> kind, validTime |-> valid, P1 |-> p1, name |-> name, known |-> known]

Max1 == D("Max", 12, 12, "max12", TRUE)
Max2 == D("Max", 24, 24, "max24", TRUE)
Odd == D("Odd", 12, 12, "odd", FALSE)
Rain6 == D("Rain", 6, 0, "rain6", TRUE)

MCField == {Max1, Max2, Odd, Rain6}
MCNames == {d.name : d \in MCField} \cup {"cube"}

Msg(v, gs) == [ver |-> v, grids |-> gs, sect0 |-> TRUE, intact |-> Len(gs)]
One(d) == Msg(2, <<d>>)
Two(d, e) == Msg(2, <<d, e>>)

ForgetLists ==
    {<< <<Two(Max1, Max2)>>, <<>>, <<Two(Max2, Max1)>> >>,
     << <<Msg(1, <<Rain6>>)>>, <<Msg(2, <<Max1, Max2, Max1>>), One(Odd)>> >>}

DeliveryFiles == {<<>>, <<One(Max1)>>, <<Msg(1, <<Rain6>>)>>, <<Two(Max1, Max2)>>,
                  <<Two(Max1, Max2), One(Max1)>>, <<One(Max2), Msg(2, <<Max1, Max2, Max1>>)>>,
                  <<One(Max2), One(Odd)>>}
DeliveryLists == {<<f>> : f \in DeliveryFiles} \cup {<<f, g>> : f, g \in DeliveryFiles}
                    \cup {<<f, <<>>, g>> : f, g \in DeliveryFiles}

Opt(n, app, cube) == [msgNum |-> n, f_Append |-> app, f_Cube |-> cube]
CubeRuns == {Opt(n, TRUE, TRUE) : n \in {0, 2}}
ForgetRequests == CubeRuns \cup {Opt(0, TRUE, FALSE)}
AllMessages == {Opt(0, app, cube) : app, cube \in BOOLEAN}
Zeroed == {0}
===============================================================================
