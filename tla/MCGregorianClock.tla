--------------------------- MODULE MCGregorianClock ---------------------------
(* Walks of four years each: all the years from 1970 to 2033, which hold   *)
(* every kind of year (all weekdays of January 1st, leap and common, with  *)
(* both rules of daylight saving time), the years before them, turns of    *)
(* centuries that are leap years and that are not, and the ends of the     *)
(* periods of 400 years around 1970.                                       *)
EXTENDS GregorianClock

MCStarts == {1568, 1599, 1899, 1970, 1974, 1978, 1982, 1986, 1990, 1994, 1998, 2002,
             2006, 2010, 2014, 2018, 2022, 2026, 2030, 1966, 2098, 2368, 2768}
MCMonths == {-14, 1, 12}
MCTimeZones == {-10, 5}
MCSeconds == {3599, 3600, 3601, 7199, 7200}
=============================================================================
