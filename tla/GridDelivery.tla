---------------------------- MODULE GridDelivery ----------------------------
(***************************************************************************)
(* What a command that walks through GRIB files promises its user: the     *)
(* grids asked for are delivered one at a time, in the order they lie in   *)
(* the files, each exactly once; the command may give up, but when it ends *)
(* well every grid asked for has been delivered; and it ends.              *)
(***************************************************************************)
EXTENDS GribFiles

VARIABLES
    asked,     \* the grids the command is to deliver
    out,       \* the grids delivered so far
    status     \* "running", "ok" or "failed"

vars == <<asked, out, status>>

Delivered == {out[i] : i \in 1..Len(out)}

Init == /\ asked \in SUBSET Grid
        /\ out = <<>>
        /\ status = "running"

IsNext(g) == /\ g \notin Delivered
             /\ \A h \in asked : Before(h, g) => h \in Delivered

Deliver == /\ status = "running"
           /\ \E g \in asked : IsNext(g) /\ out' = Append(out, g)
           /\ UNCHANGED <<asked, status>>

Finish == /\ status = "running"
          /\ asked \subseteq Delivered
          /\ status' = "ok"
          /\ UNCHANGED <<asked, out>>

GiveUp == /\ status = "running"
          /\ status' = "failed"
          /\ UNCHANGED <<asked, out>>

Next == Deliver \/ Finish \/ GiveUp

Spec == Init /\ [][Next]_vars /\ WF_vars(Next)
===============================================================================
