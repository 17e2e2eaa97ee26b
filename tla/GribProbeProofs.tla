--------------------------- MODULE GribProbeProofs ---------------------------
(***************************************************************************)
(* For any input files: the types of GribProbe, and that degrib -P probes  *)
(* the grids of its file in order, but for those after the first one of    *)
(* the last message.                                                       *)
(***************************************************************************)
EXTENDS GribProbe, GribReaderProofs

(* A step that leaves the reader alone leaves it in order.                 *)
LEMMA ReaderUnchanged ==
    ASSUME ReaderTypeOK, UNCHANGED readerVars
    PROVE  ReaderTypeOK'
  BY DEF ReaderTypeOK, readerVars, IsMessage

(* In the loop the file is open.                                           *)
TypeInv == /\ TypeOK
           /\ pc = "loop" => inName = 1
           /\ pc = "open" => inName = 0 /\ msgPos = 0 /\ f_endMsg = 1 /\ subgNum = 0

LEMMA TypeInit == Init => TypeInv
<1> SUFFICES ASSUME Init PROVE TypeInv
  OBVIOUS
<1>1. ReaderTypeOK
  BY FilesType DEF Init, ReaderInit, ReaderTypeOK
<1>2. QED
  BY <1>1 DEF Init, ReaderInit, TypeInv, TypeOK

LEMMA TypeStep == TypeInv /\ [Next]_vars => TypeInv'
<1> SUFFICES ASSUME TypeInv, [Next]_vars PROVE TypeInv'
  OBVIOUS
<1> USE DEF TypeInv, TypeOK
<1>1. /\ files \in FileLists /\ Len(files) \in Nat /\ Len(files) > 0
      /\ \A f \in 1..Len(files) : Len(files[f]) \in Nat
  BY FilesType, ProbeFilesAssumption DEF ReaderTypeOK
<1>2. CASE OpenFile
  <2>1. ReaderTypeOK'
    BY <1>1, <1>2 DEF OpenFile, ReaderTypeOK, IsMessage
  <2>2. QED
    BY <1>2, <2>1 DEF OpenFile
<1>3. CASE OpenFails
  BY <1>3, ReaderUnchanged DEF OpenFails, Return, readerVars
<1>4. CASE ProbeGrid
  <2>1. subgNum' \in Nat
    BY <1>4 DEF ProbeGrid, ReaderTypeOK
  <2>2. GridRead \in Grid /\ ReaderTypeOK'
    BY <1>4, <2>1, ReadGrib2RecordTypes DEF ProbeGrid
  <2>3. out' \in Seq(Grid)
    BY <1>4, <2>2 DEF ProbeGrid
  <2>4. QED
    BY <1>4, <2>2, <2>3 DEF ProbeGrid, ReadGrib2Record, Return
<1>5. CASE ProbeFails
  BY <1>5, ReaderUnchanged DEF ProbeFails, Return, readerVars
<1>6. CASE EndOfFile
  BY <1>6, ReaderUnchanged DEF EndOfFile, Return, readerVars
<1>7. CASE UNCHANGED vars
  BY <1>7, ReaderUnchanged DEF vars, readerVars
<1>8. QED
  BY <1>2, <1>3, <1>4, <1>5, <1>6, <1>7 DEF Next, Terminated

(* GRIB2Probe keeps the types of its state: the position stays in the file *)
(* and while f_endMsg is 0 IS->ipack holds a GRIB2 message.                *)
THEOREM TypeCorrect == Spec => []TypeOK
<1>1. TypeInv => TypeOK
  BY DEF TypeInv
<1>2. QED
  BY <1>1, TypeInit, TypeStep, PTL DEF Spec

(***************************************************************************)
(* What is delivered.                                                      *)
(***************************************************************************)

(* A grid is delivered by appending it to out.                             *)
LEMMA DeliveredAppend ==
    ASSUME out \in Seq(Grid), NEW g \in Grid, out' = Append(out, g)
    PROVE  Delivery!Delivered' = Delivery!Delivered \cup {g}
<1>1. Len(out') = Len(out) + 1 /\ Len(out) \in Nat
  OBVIOUS
<1>2. \A i \in 1..Len(out) : out'[i] = out[i]
  OBVIOUS
<1>3. out'[Len(out) + 1] = g
  OBVIOUS
<1>4. 1..Len(out') = 1..Len(out) \cup {Len(out) + 1}
  BY <1>1
<1>5. QED
  BY <1>2, <1>3, <1>4 DEF Delivery!Delivered

(* The grid that is to be probed next, or where it would lie.              *)
Pos == IF f_endMsg = 1 THEN <<1, msgPos + 1, 0>> ELSE <<1, msgPos, subgNum>>

(* The loop's bookkeeping is consistent, and what has been probed is       *)
(* exactly what lies before the position it stands for.                    *)
LoopInv == pc # "done" => IF f_endMsg = 1 THEN subgNum = 0
                          ELSE ipack = <<1, msgPos>> /\ subgNum > 0

DeliveredInv == pc # "done" => Delivery!Delivered = GridsBefore(files, Pos)

AllInv == TypeInv /\ LoopInv /\ DeliveredInv

LEMMA AllInit == Init => AllInv
<1> SUFFICES ASSUME Init PROVE AllInv
  OBVIOUS
<1>1. TypeInv
  BY TypeInit
<1>2. Delivery!Delivered = {}
  BY DEF Init, Delivery!Delivered
<1>3. files \in FileLists /\ 1 \in 1..Len(files)
  BY FilesType, ProbeFilesAssumption DEF Init, ReaderInit
<1>4. Pos = <<1, 1, 0>>
  BY DEF Init, ReaderInit, Pos
<1>5. GridsBefore(files, Pos) = {}
  BY <1>3, <1>4, GridsBeforeEnds
<1>6. QED
  BY <1>1, <1>2, <1>5 DEF Init, ReaderInit, AllInv, LoopInv, DeliveredInv

(* ProbeGrid reads the grid at Pos and moves Pos behind it.                *)
LEMMA ProbeGridMoves ==
    ASSUME AllInv, ProbeGrid
    PROVE  /\ GridRead = Pos
           /\ Pos \in GridsOf(files) /\ Pos \in Grid
           /\ Pos \notin Tail1 /\ Pos[1] = 1
           /\ IF f_endMsg' = 1 THEN subgNum' = 0 ELSE ipack' = <<1, msgPos'>> /\ subgNum' > 0
           /\ GridsBefore(files, Pos') = GridsBefore(files, Pos) \cup {Pos}
<1> DEFINE m == Source[2]
           s == Wanted
<1>1. /\ ReaderTypeOK /\ inName = 1 /\ pc = "loop" /\ files \in FileLists
      /\ ReadGrib2Record /\ ReadSucceeds /\ LoopAgain
  BY DEF AllInv, TypeInv, TypeOK, ProbeGrid, ReadGrib2Record, ReaderTypeOK
<1>2. /\ Source[1] \in 1..Len(files)
      /\ m \in 1..Len(files[Source[1]])
      /\ s \in 0..(NumGrids(files, Source[1], m) - 1)
  BY <1>1, SourceIsMessage
<1>3. Source[1] = 1 /\ Source = <<1, m>> /\ (f_endMsg # 1 => m = msgPos)
      /\ (f_endMsg = 1 => m = msgPos + 1)
  BY <1>1 DEF AllInv, LoopInv, Source
<1>4. s = IF f_endMsg = 1 THEN 0 ELSE subgNum
  <2>1. CASE f_endMsg = 1
    BY <1>1, <2>1 DEF AllInv, LoopInv, Wanted
  <2>2. CASE f_endMsg # 1
    <3>1. SourceMsg.ver = 2
      BY <1>1, <2>2 DEF ReaderTypeOK, SourceMsg, Source
    <3>2. QED
      BY <2>2, <3>1 DEF Wanted
  <2>3. QED
    BY <2>1, <2>2
<1>5. Pos = <<1, m, s>>
  BY <1>3, <1>4 DEF Pos
<1>6. GridRead = <<1, m, s>>
  BY <1>3 DEF GridRead
<1>7. /\ msgPos' = m /\ ipack' = <<1, m>> /\ files' = files
      /\ f_endMsg' = IF s + 1 = NumGrids(files, 1, m) THEN 1 ELSE 0
      /\ subgNum' = IF f_endMsg' # 1 THEN subgNum + 1 ELSE 0
  BY <1>1, <1>3 DEF ReadGrib2Record, ProbeGrid, SourceMsg, NumGrids
<1>8. f_endMsg' # 1 => subgNum' = s + 1
  <2>1. CASE f_endMsg = 1
    BY <1>1, <1>4, <1>7, <2>1 DEF AllInv, LoopInv
  <2>2. CASE f_endMsg # 1
    BY <1>4, <1>7, <2>2
  <2>3. QED
    BY <2>1, <2>2
<1>9. Len(files[1]) \in Nat /\ m \in 1..Len(files[1]) /\ s \in 0..(NumGrids(files, 1, m) - 1)
      /\ 1 \in 1..Len(files) /\ s \in Nat
  <2> HIDE DEF m, s
  <2>1. QED
    BY <1>1, <1>2, <1>3, FilesType DEF NumGrids
<1>10. Pos' = After(files, 1, m, s)
  <2> HIDE DEF m, s
  <2>1. QED
    BY <1>7, <1>8 DEF Pos, After
<1>11. IF f_endMsg' = 1 THEN subgNum' = 0 ELSE ipack' = <<1, msgPos'>> /\ subgNum' > 0
  <2> HIDE DEF m, s
  <2>1. QED
    BY <1>7, <1>8, <1>9
<1>12. GridsBefore(files, Pos') = GridsBefore(files, Pos) \cup {Pos}
  BY <1>1, <1>5, <1>9, <1>10, GridsBeforeAfter
<1>13. Pos \in GridsOf(files) /\ Pos \in Grid
  BY <1>1, <1>5, <1>9, GridData
<1>14. m = Len(files[1]) => s = 0
  <2>1. msgPos \in Nat /\ msgPos <= Len(files[1]) /\ msgPos # Len(files[1])
    BY <1>1 DEF LoopAgain, AtEOF, ReaderTypeOK
  <2>2. CASE f_endMsg = 1
    BY <1>4, <2>2
  <2>3. CASE f_endMsg # 1
    BY <1>3, <2>1, <2>3
  <2>4. QED
    BY <2>2, <2>3
<1>15. Pos \notin Tail1 /\ Pos[1] = 1
  <2> HIDE DEF m, s
  <2>1. Pos[1] = 1 /\ Pos[2] = m /\ Pos[3] = s
    BY <1>5
  <2>2. QED
    BY <1>9, <1>14, <2>1 DEF Tail1
<1>16. QED
  BY <1>5, <1>6, <1>11, <1>12, <1>13, <1>15

LEMMA FilesStay == [Next]_vars => files' = files
  BY DEF Next, vars, readerVars, Terminated, OpenFile, OpenFails, ProbeGrid, ProbeFails,
         EndOfFile, ReadGrib2Record

LEMMA AllStep == AllInv /\ [Next]_vars => AllInv'
<1> SUFFICES ASSUME AllInv, [Next]_vars PROVE AllInv'
  OBVIOUS
<1>1. TypeInv'
  BY TypeStep DEF AllInv
<1>2. files' = files
  BY FilesStay
<1>3. SUFFICES LoopInv' /\ DeliveredInv'
  BY <1>1 DEF AllInv
<1>4. ASSUME UNCHANGED out PROVE UNCHANGED Delivery!Delivered
  BY <1>4 DEF Delivery!Delivered
<1>5. CASE OpenFile
  <2>1. Pos' = Pos /\ LoopInv'
    BY <1>5 DEF OpenFile, Pos, LoopInv, AllInv
  <2>2. QED
    BY <1>2, <1>4, <1>5, <2>1 DEF OpenFile, AllInv, DeliveredInv
<1>6. CASE ProbeGrid
  <2>1. /\ GridRead = Pos /\ Pos \in Grid
        /\ IF f_endMsg' = 1 THEN subgNum' = 0 ELSE ipack' = <<1, msgPos'>> /\ subgNum' > 0
        /\ GridsBefore(files, Pos') = GridsBefore(files, Pos) \cup {Pos}
    BY <1>6, ProbeGridMoves
  <2>2. LoopInv'
    BY <2>1 DEF LoopInv
  <2>3. CASE pc' = "done"
    BY <2>2, <2>3 DEF DeliveredInv
  <2>4. CASE pc' # "done"
    <3>1. out' = Append(out, Pos)
      BY <1>6, <2>1, <2>4 DEF ProbeGrid, Return
    <3>2. Delivery!Delivered' = Delivery!Delivered \cup {Pos}
      BY <2>1, <3>1, DeliveredAppend DEF AllInv, TypeInv, TypeOK
    <3>3. Delivery!Delivered = GridsBefore(files, Pos)
      BY <1>6 DEF ProbeGrid, AllInv, DeliveredInv
    <3>4. QED
      BY <1>2, <2>1, <2>2, <3>2, <3>3 DEF DeliveredInv
  <2>5. QED
    BY <2>3, <2>4
<1>7. CASE OpenFails \/ ProbeFails \/ EndOfFile
  BY <1>7 DEF OpenFails, ProbeFails, EndOfFile, Return, LoopInv, DeliveredInv
<1>8. CASE UNCHANGED vars
  <2>1. UNCHANGED <<Pos, pc>> /\ LoopInv'
    BY <1>8 DEF vars, readerVars, Pos, LoopInv, AllInv
  <2>2. QED
    BY <1>2, <1>4, <1>8, <2>1 DEF vars, AllInv, DeliveredInv
<1>9. QED
  BY <1>5, <1>6, <1>7, <1>8 DEF Next, Terminated

LEMMA DeliveryInit == Init => Delivery!Init
<1> SUFFICES ASSUME Init PROVE Delivery!Init
  OBVIOUS
<1>1. files \in FileLists
  BY DEF Init, ReaderInit
<1>2. ASSUME NEW g \in GridsOf(files) PROVE g \in Grid
  <2>1. PICK f \in 1..Len(files) : \E m \in 1..Len(files[f]) :
                \E s \in 0..(NumGrids(files, f, m) - 1) : g = <<f, m, s>>
    BY <1>1, GridsOfNames
  <2>2. PICK m \in 1..Len(files[f]) : \E s \in 0..(NumGrids(files, f, m) - 1) : g = <<f, m, s>>
    BY <2>1
  <2>3. QED
    BY <1>1, <2>2, GridData
<1>3. FileGrids \ Tail1 \in SUBSET Grid
  BY <1>2 DEF FileGrids
<1>4. QED
  BY <1>3 DEF Init, Status, Delivery!Init, Delivery!Grid, Grid

(* At the end of the file all the grids but the tail lie before Pos.       *)
LEMMA AllBeforeTheEnd ==
    ASSUME AllInv, pc = "loop", AtEOF
    PROVE  FileGrids \ Tail1 \subseteq GridsBefore(files, Pos)
<1>1. files \in FileLists /\ msgPos = Len(files[1]) /\ msgPos \in Nat /\ subgNum \in Nat
  BY DEF AllInv, TypeInv, TypeOK, ReaderTypeOK, AtEOF
<1>2. SUFFICES ASSUME NEW g \in FileGrids \ Tail1 PROVE Before(g, Pos)
  BY DEF GridsBefore, FileGrids
<1>3. g \in GridsOf(files) /\ g[1] = 1
  BY DEF FileGrids
<1>4. PICK f \in 1..Len(files) : \E m \in 1..Len(files[f]) :
              \E s \in 0..(NumGrids(files, f, m) - 1) : g = <<f, m, s>>
  BY <1>1, <1>3, GridsOfNames
<1>5. PICK m \in 1..Len(files[f]) : \E s \in 0..(NumGrids(files, f, m) - 1) : g = <<f, m, s>>
  BY <1>4
<1>6. PICK s \in 0..(NumGrids(files, f, m) - 1) : g = <<f, m, s>>
  BY <1>5
<1>7. f = 1 /\ m \in Nat /\ m <= Len(files[1]) /\ s \in Nat
  BY <1>1, <1>3, <1>6, FilesType DEF NumGrids
<1>8. m = Len(files[1]) => s = 0
  BY <1>6, <1>7 DEF Tail1
<1>9. CASE f_endMsg = 1
  BY <1>1, <1>6, <1>7, <1>9 DEF Pos, Before
<1>10. CASE f_endMsg # 1
  <2>1. Pos = <<1, msgPos, subgNum>> /\ subgNum > 0
    BY <1>10 DEF Pos, AllInv, LoopInv
  <2>2. QED
    BY <1>1, <1>6, <1>7, <1>8, <2>1 DEF Before
<1>11. QED
  BY <1>9, <1>10

(* Every step maps to a step of GridDelivery or changes nothing it sees.   *)
LEMMA DeliveryStep == AllInv /\ [Next]_vars => [Delivery!Next]_(Delivery!vars)
<1> SUFFICES ASSUME AllInv, [Next]_vars PROVE [Delivery!Next]_(Delivery!vars)
  OBVIOUS
<1> DEFINE Asked == FileGrids \ Tail1
<1>1. UNCHANGED Asked
  BY FilesStay DEF FileGrids, Tail1
<1>2. CASE ProbeGrid /\ pc' # "done"
  <2>1. GridRead = Pos /\ Pos \in GridsOf(files) /\ Pos \notin Tail1 /\ Pos[1] = 1
    BY <1>2, ProbeGridMoves
  <2>2. Pos \in Asked
    BY <2>1 DEF FileGrids
  <2>3. Delivery!Delivered = GridsBefore(files, Pos)
    BY <1>2 DEF ProbeGrid, AllInv, DeliveredInv
  <2>4. out' = Append(out, Pos) /\ Status = "running" /\ Status' = "running"
    BY <1>2, <2>1 DEF ProbeGrid, Return, Status
  <2>5. ~Before(Pos, Pos)
    BY <2>1, GridsOfNames, FilesType DEF Before, AllInv, TypeInv, TypeOK, ReaderTypeOK
  <2>6. Delivery!IsNext(Pos)
    BY <2>3, <2>5 DEF Delivery!IsNext, Delivery!Before, Before, GridsBefore, FileGrids
  <2>7. Delivery!Deliver
    BY <1>1, <2>2, <2>4, <2>6 DEF Delivery!Deliver
  <2>8. QED
    BY <2>7 DEF Delivery!Next
<1>3. CASE EndOfFile
  <2>1. Delivery!Delivered = GridsBefore(files, Pos) /\ Asked \subseteq GridsBefore(files, Pos)
    BY <1>3, AllBeforeTheEnd DEF EndOfFile, LoopAgain, AllInv, DeliveredInv
  <2>2. Status = "running" /\ Status' = "ok" /\ out' = out
    BY <1>3 DEF EndOfFile, Return, Status
  <2>3. QED
    BY <1>1, <2>1, <2>2 DEF Delivery!Finish, Delivery!Next
<1>4. CASE OpenFails \/ ProbeFails \/ (ProbeGrid /\ pc' = "done")
  <2>1. Status = "running" /\ Status' = "failed" /\ out' = out
    BY <1>4 DEF OpenFails, ProbeFails, ProbeGrid, Return, Status, AllInv, TypeInv, TypeOK
  <2>2. QED
    BY <1>1, <2>1 DEF Delivery!GiveUp, Delivery!Next
<1>5. CASE OpenFile \/ UNCHANGED vars
  <2>1. UNCHANGED <<out, Status>>
    BY <1>5 DEF OpenFile, Status, vars
  <2>2. QED
    BY <1>1, <2>1 DEF Delivery!vars
<1>6. QED
  BY <1>2, <1>3, <1>4, <1>5 DEF Next, Terminated

(* For any files, degrib -P probes the grids of its file in order, each    *)
(* once, and returns 0 only when it has probed all of them but those after *)
(* the first one of the last message (the safety part of                   *)
(* ProbesAllButATail).                                                     *)
THEOREM ProbesInOrder ==
    Spec => Delivery!Init /\ [][Delivery!Next]_(Delivery!vars)
<1>1. Spec => []AllInv
  BY AllInit, AllStep, PTL DEF Spec
<1>2. QED
  BY <1>1, DeliveryInit, DeliveryStep, PTL DEF Spec
===============================================================================
