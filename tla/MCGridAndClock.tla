---------------------------- MODULE MCGridAndClock ----------------------------
(* The values of a grid and the calendar have no state in common, and one  *)
(* run looks at both: messages are decoded on the first day of 1970, and   *)
(* the clock walks while the message at hand is the one that is refused.   *)
EXTENDS MCGridValues, MCGregorianClock

OnFirstDay == from = 1970 /\ totDay = 0
AtRest == msg \in Refused /\ pc = "unpack"

GridAndClockInit == Init /\ ClockInit /\ (OnFirstDay \/ AtRest)

GridStep == OnFirstDay /\ Next /\ UNCHANGED clockVars
ClockStep == AtRest /\ Tomorrow /\ UNCHANGED vars

GridAndClockSpec ==
    GridAndClockInit /\ [][GridStep \/ ClockStep]_<<vars, clockVars>>
===============================================================================
