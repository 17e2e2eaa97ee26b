---------------------------- MODULE MCStormTotal ----------------------------
(***************************************************************************)
(* Files of up to three one-grid messages, whose time ranges lie before,   *)
(* across, inside and after the windows from hour 2 to hours 5 and 8.      *)
(***************************************************************************)
EXTENDS StormTotal

Data(el, end, val) == [element |-> el, end |-> end, len |-> 2, val |-> val, single |-> TRUE]
Instant == [element |-> "QPF", end |-> 4, len |-> 0, val |-> 1, single |-> FALSE]
Totals == {Data("QPF", end, 1) : end \in {1, 3, 4, 5, 9}} \cup {Data("QPF", 4, 9999)}
MCField == Totals \cup {Data("Snow", 5, 2), Data("QPF", 6, 5), Instant}

Grib2(gs) == [ver |-> 2, grids |-> gs, sect0 |-> TRUE, intact |-> Len(gs)]
Grib1(d) == [ver |-> 1, grids |-> <<d>>, sect0 |-> TRUE, intact |-> 1]
Torn(d) == [ver |-> 2, grids |-> <<d>>, sect0 |-> TRUE, intact |-> 0]
Single == {Grib2(<<d>>) : d \in MCField}
              \cup {Grib1(Instant), Torn(Instant)}

OneGridFiles == {<<>>} \cup {<<a>> : a \in Single} \cup {<<a, b>> : a, b \in Single}
                   \cup {<<a, b, c>> : a, b, c \in Single}
MCFileLists == {<<f>> : f \in OneGridFiles}
MCWindows == {[startTime |-> 2, endTime |-> 5], [startTime |-> 2, endTime |-> 8]}
===============================================================================
