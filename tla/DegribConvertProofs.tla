------------------------- MODULE DegribConvertProofs -------------------------
(***************************************************************************)
(* For any input files and -msg options: the types of DegribConvert, and   *)
(* that degrib -C implements the safety part of GridDelivery.              *)
(***************************************************************************)
EXTENDS DegribConvert, GribReaderProofs, FiniteSetTheorems

(***************************************************************************)
(* Types.                                                                  *)
(***************************************************************************)

(* Once the loops are entered, a file is open.                             *)
TypeInv == TypeOK /\ (pc \in {"find", "enter", "loop"} => inName > 0)

LEMMA TypeInit == Init => TypeInv
<1> SUFFICES ASSUME Init PROVE TypeInv
  OBVIOUS
<1>1. ReaderTypeOK
  BY FilesType DEF Init, ReaderInit, ReaderTypeOK
<1>2. out \in Seq(Grid)
  BY DEF Init
<1>3. QED
  BY <1>1, <1>2 DEF Init, TypeInv, TypeOK

(* A step that leaves the reader alone leaves it in order.                 *)
LEMMA ReaderUnchanged ==
    ASSUME ReaderTypeOK, UNCHANGED readerVars
    PROVE  ReaderTypeOK'
  BY DEF ReaderTypeOK, readerVars, IsMessage

LEMMA TypeStep == TypeInv /\ [Next]_vars => TypeInv'
<1> SUFFICES ASSUME TypeInv, [Next]_vars PROVE TypeInv'
  OBVIOUS
<1> USE DEF TypeInv, TypeOK
<1>1. /\ Len(files) \in Nat
      /\ \A f \in 1..Len(files) : files[f] \in Seq(Message) /\ Len(files[f]) \in Nat
  BY FilesType DEF ReaderTypeOK
<1>2. usr.msgNum \in Nat /\ usr.subgNum \in Nat
  BY RequestsAssumption
<1>3. CASE OpenFile
  <2>1. ReaderTypeOK'
    BY <1>1, <1>3 DEF OpenFile, ReaderTypeOK, IsMessage
  <2>2. QED
    BY <1>3, <2>1 DEF OpenFile, ReaderTypeOK
<1>4. CASE OpenFails
  BY <1>4, ReaderUnchanged DEF OpenFails, Return
<1>5. CASE NoMoreFiles
  BY <1>5, ReaderUnchanged DEF NoMoreFiles, Return
<1>6. CASE FindMessage
  <2> DEFINE r == FindGRIBMsg(files[inName], usr.msgNum, curMsg)
  <2>1. inName \in 1..Len(files)
    BY <1>1, <1>6 DEF FindMessage, ReaderTypeOK
  <2>2. r.pos \in Nat /\ r.pos <= Len(files[inName]) /\ r.curMsg \in Nat
    BY <1>1, <1>2, <2>1, FindGRIBMsgTypes
  <2>3. /\ msgPos' \in {msgPos, r.pos}
        /\ curMsg' \in {curMsg, r.curMsg}
        /\ pc' \in {"done", "enter", "open"}
        /\ ret' \in {ret, 1}
        /\ UNCHANGED <<files, inName, ipack, f_endMsg, subgNum, usr, healthy, out>>
        /\ pc = "find"
    <3> HIDE DEF r
    <3>1. QED
      BY <1>6 DEF FindMessage, Return, r
  <2> HIDE DEF r
  <2>4. ReaderTypeOK'
    BY <2>2, <2>3 DEF ReaderTypeOK, IsMessage
  <2>5. QED
    BY <2>2, <2>3, <2>4
<1>7. CASE Enter
  <2>1. ReaderTypeOK'
    BY <1>2, <1>7 DEF Enter, ReaderTypeOK, IsMessage
  <2>2. QED
    BY <1>7, <2>1 DEF Enter
<1>8. CASE ConvertGrid
  <2>1. subgNum' \in Nat
    BY <1>8 DEF ConvertGrid, ReaderTypeOK
  <2>2. GridRead \in Grid /\ ReaderTypeOK'
    BY <1>8, <2>1, ReadGrib2RecordTypes DEF ConvertGrid
  <2>3. out' \in Seq(Grid)
    BY <1>8, <2>2 DEF ConvertGrid
  <2>4. QED
    BY <1>8, <2>2, <2>3 DEF ConvertGrid, ReadGrib2Record
<1>9. CASE EnterFails \/ ConvertFails
  BY <1>9, ReaderUnchanged DEF EnterFails, ConvertFails, Return
<1>10. CASE EndOfFile
  BY <1>10, ReaderUnchanged DEF EndOfFile, Return
<1>11. CASE Break
  BY <1>11, ReaderUnchanged DEF Break, Return
<1>12. CASE UNCHANGED vars
  BY <1>12, ReaderUnchanged DEF vars, readerVars
<1>13. QED
  BY <1>3, <1>4, <1>5, <1>6, <1>7, <1>8, <1>9, <1>10, <1>11, <1>12 DEF Next, Terminated

(* DegribConvert keeps the types of its state: the position stays in the   *)
(* open file, and while f_endMsg is 0 IS->ipack holds a GRIB2 message.     *)
THEOREM TypeCorrect == Spec => []TypeOK
<1>1. TypeInv => TypeOK
  BY DEF TypeInv
<1>2. QED
  BY <1>1, TypeInit, TypeStep, PTL DEF Spec

(* A grid is delivered by appending it to out.                             *)
LEMMA DeliveredAppend ==
    ASSUME out \in Seq(Grid), NEW g \in Grid, out' = Append(out, g)
    PROVE  Delivery!Delivered' = Delivery!Delivered \cup {g}
<1>1. Len(out') = Len(out) + 1 /\ Len(out) \in Nat
  OBVIOUS
<1>2. \A i \in 1..Len(out) : out'[i] = out[i]
  OBVIOUS
<1>3. out'[Len(out) + 1] = g
  OBVIOUS
<1>4. 1..Len(out') = 1..Len(out) \cup {Len(out) + 1}
  BY <1>1
<1>5. QED
  BY <1>2, <1>3, <1>4 DEF Delivery!Delivered

(***************************************************************************)
(* With -msg all, degrib -C implements GridDelivery.                       *)
(***************************************************************************)

(* The grid that is to be converted next, or where it would lie.           *)
Pos == CASE pc = "open"  -> <<inName + 1, 0, 0>>
         [] pc = "enter" -> <<inName, 0, 0>>
         [] OTHER        -> IF f_endMsg = 1 THEN <<inName, msgPos + 1, 0>>
                                            ELSE <<inName, msgPos, subgNum>>

(* The loop's bookkeeping (f_endMsg, subgNum, the file position and        *)
(* IS->ipack) is consistent, and what has been delivered is exactly what   *)
(* lies before the position it stands for.                                 *)
LoopInv == /\ pc \in {"open", "enter", "loop", "done"}
           /\ pc = "enter" => msgPos = 0
           /\ pc = "loop" => IF f_endMsg = 1 THEN subgNum = 0 ELSE ipack = <<inName, msgPos>>

DeliveredInv == pc # "done" => Delivery!Delivered = GridsBefore(files, Pos)

AllInv == TypeInv /\ usr.msgNum = 0 /\ LoopInv /\ DeliveredInv

LEMMA AllInit == Init /\ usr.msgNum = 0 => AllInv
<1> SUFFICES ASSUME Init, usr.msgNum = 0 PROVE AllInv
  OBVIOUS
<1>1. TypeInv
  BY TypeInit
<1>2. Delivery!Delivered = {}
  BY DEF Init, Delivery!Delivered
<1>3. Pos = <<1, 0, 0>>
  BY DEF Init, ReaderInit, Pos
<1>4. GridsBefore(files, Pos) = {}
  BY <1>3, GridsBeforeEnds DEF Init, ReaderInit
<1>5. QED
  BY <1>1, <1>2, <1>4 DEF Init, AllInv, LoopInv, DeliveredInv

(* ConvertGrid reads the grid at Pos and moves Pos behind it.              *)
LEMMA ConvertGridMoves ==
    ASSUME AllInv, ConvertGrid
    PROVE  /\ GridRead = Pos
           /\ Pos \in GridsOf(files) /\ Pos \in Grid
           /\ LoopInv'
           /\ GridsBefore(files, Pos') = GridsBefore(files, Pos) \cup {Pos}
<1> DEFINE m == Source[2]
           s == Wanted
<1>1. /\ ReaderTypeOK /\ inName > 0 /\ pc = "loop" /\ usr.msgNum = 0
      /\ files \in FileLists
      /\ ReadGrib2Record /\ ReadSucceeds
  BY DEF AllInv, TypeInv, TypeOK, ConvertGrid, ReadGrib2Record, ReaderTypeOK
<1>2. /\ Source[1] \in 1..Len(files)
      /\ m \in 1..Len(files[Source[1]])
      /\ s \in 0..(NumGrids(files, Source[1], m) - 1)
  BY <1>1, SourceIsMessage
<1>3. Source[1] = inName /\ Source = <<inName, m>> /\ (f_endMsg # 1 => m = msgPos)
      /\ (f_endMsg = 1 => m = msgPos + 1)
  BY <1>1 DEF AllInv, LoopInv, Source
<1>4. s = IF f_endMsg = 1 THEN 0 ELSE subgNum
  <2>1. CASE f_endMsg = 1
    BY <1>1, <2>1 DEF AllInv, LoopInv, Wanted
  <2>2. CASE f_endMsg # 1
    <3>1. SourceMsg.ver = 2
      BY <1>1, <2>2 DEF ReaderTypeOK, SourceMsg, Source
    <3>2. QED
      BY <2>2, <3>1 DEF Wanted
  <2>3. QED
    BY <2>1, <2>2
<1>5. Pos = <<inName, m, s>>
  BY <1>1, <1>3, <1>4 DEF Pos
<1>6. GridRead = <<inName, m, s>>
  BY <1>3 DEF GridRead
<1>7. /\ msgPos' = m /\ ipack' = <<inName, m>> /\ inName' = inName /\ files' = files
      /\ f_endMsg' = IF s + 1 = NumGrids(files, inName, m) THEN 1 ELSE 0
      /\ subgNum' = IF f_endMsg' # 1 THEN subgNum + 1 ELSE 0
      /\ pc' = "loop"
  BY <1>1, <1>3 DEF ReadGrib2Record, ConvertGrid, SourceMsg, NumGrids
<1>8. f_endMsg' # 1 => subgNum' = s + 1
  <2>1. CASE f_endMsg = 1
    BY <1>1, <1>4, <1>7, <2>1 DEF AllInv, LoopInv
  <2>2. CASE f_endMsg # 1
    BY <1>4, <1>7, <2>2
  <2>3. QED
    BY <2>1, <2>2
<1>9. Pos' = After(files, inName, m, s)
  <2> HIDE DEF m, s
  <2>1. QED
    BY <1>7, <1>8 DEF Pos, After
<1>10. LoopInv'
  <2> HIDE DEF m, s
  <2>1. QED
    BY <1>7 DEF LoopInv
<1>11. GridsBefore(files, Pos') = GridsBefore(files, Pos) \cup {Pos}
  BY <1>1, <1>2, <1>3, <1>5, <1>9, GridsBeforeAfter
<1>12. Pos \in GridsOf(files) /\ Pos \in Grid
  BY <1>1, <1>2, <1>3, <1>5, GridData
<1>13. QED
  BY <1>5, <1>6, <1>10, <1>11, <1>12

LEMMA AllStep == AllInv /\ [Next]_vars => AllInv'
<1> SUFFICES ASSUME AllInv, [Next]_vars PROVE AllInv'
  OBVIOUS
<1>1. TypeInv'
  BY TypeStep DEF AllInv
<1>2. files' = files /\ usr' = usr /\ files \in FileLists
  BY DEF AllInv, TypeInv, TypeOK, ReaderTypeOK, Next, vars, readerVars, Terminated, OpenFile,
         OpenFails, NoMoreFiles, FindMessage, Enter, EnterFails, ConvertGrid, ConvertFails, EndOfFile,
         Break, ReadGrib2Record
<1>3. SUFFICES LoopInv' /\ DeliveredInv'
  BY <1>1, <1>2 DEF AllInv
<1>4. ASSUME UNCHANGED out PROVE UNCHANGED Delivery!Delivered
  BY <1>4 DEF Delivery!Delivered
<1>5. ASSUME UNCHANGED <<out, files>>, pc # "done",
             GridsBefore(files, Pos') = GridsBefore(files, Pos)
      PROVE  DeliveredInv'
  BY <1>4, <1>5 DEF AllInv, DeliveredInv
<1>6. Len(files) \in Nat /\ inName \in 0..Len(files) /\ (inName > 0 => inName \in 1..Len(files))
  BY <1>2, FilesType DEF AllInv, TypeInv, TypeOK, ReaderTypeOK
<1>7. CASE OpenFile
  <2>1. Pos = <<inName + 1, 0, 0>> /\ Pos' = <<inName + 1, 0, 0>> /\ LoopInv'
    BY <1>6, <1>7 DEF OpenFile, Pos, LoopInv, AllInv
  <2>2. QED
    BY <1>5, <1>7, <2>1 DEF OpenFile
<1>8. CASE Enter
  <2>1. inName \in 1..Len(files)
    BY <1>6, <1>8 DEF AllInv, TypeInv, Enter
  <2>2. Pos = <<inName, 0, 0>> /\ Pos' = <<inName, 1, 0>> /\ LoopInv'
    BY <1>8 DEF Enter, Pos, LoopInv, AllInv
  <2>3. QED
    BY <1>2, <1>5, <1>8, <2>1, <2>2, GridsBeforeEnds DEF Enter
<1>9. CASE ConvertGrid
  <2>1. GridRead = Pos /\ Pos \in Grid /\ LoopInv'
        /\ GridsBefore(files, Pos') = GridsBefore(files, Pos) \cup {Pos}
    BY <1>9, ConvertGridMoves
  <2>2. Delivery!Delivered' = Delivery!Delivered \cup {Pos}
    BY <1>9, <2>1, DeliveredAppend DEF ConvertGrid, AllInv, TypeInv, TypeOK
  <2>3. Delivery!Delivered = GridsBefore(files, Pos)
    BY <1>9 DEF ConvertGrid, AllInv, DeliveredInv
  <2>4. QED
    BY <1>2, <2>1, <2>2, <2>3 DEF DeliveredInv
<1>10. CASE EndOfFile
  <2>1. inName \in 1..Len(files) /\ pc = "loop" /\ pc' = "open"
    BY <1>6, <1>10 DEF AllInv, TypeInv, EndOfFile
  <2>2. Pos = <<inName, Len(files[inName]) + 1, 0>> /\ Pos' = <<inName + 1, 0, 0>> /\ LoopInv'
    BY <1>10, <2>1 DEF EndOfFile, LoopAgain, AtEOF, Pos, LoopInv, AllInv, readerVars
  <2>3. GridsBefore(files, Pos') = GridsBefore(files, Pos)
    BY <1>2, <2>1, <2>2, GridsBeforeEnds
  <2>4. QED
    BY <1>5, <1>10, <2>1, <2>2, <2>3 DEF EndOfFile, readerVars
<1>11. CASE OpenFails \/ NoMoreFiles \/ EnterFails \/ ConvertFails
  BY <1>11 DEF OpenFails, NoMoreFiles, EnterFails, ConvertFails, Return, LoopInv, DeliveredInv
<1>12. CASE UNCHANGED vars
  <2>1. UNCHANGED Pos /\ LoopInv'
    BY <1>12 DEF vars, readerVars, Pos, LoopInv, AllInv
  <2>2. QED
    BY <1>2, <1>4, <1>12, <2>1 DEF vars, AllInv, DeliveredInv
<1>13. ~FindMessage /\ ~Break
  BY DEF AllInv, LoopInv, FindMessage, Break
<1>14. QED
  BY <1>7, <1>8, <1>9, <1>10, <1>11, <1>12, <1>13 DEF Next, Terminated

(* The initial states are the abstract ones.                               *)
LEMMA DeliveryInit == Init => Delivery!Init
<1> SUFFICES ASSUME Init PROVE Delivery!Init
  OBVIOUS
<1>1. files \in FileLists
  BY DEF Init, ReaderInit
<1>2. Asked \subseteq GridsOf(files)
  BY DEF Asked
<1>3. ASSUME NEW g \in GridsOf(files) PROVE g \in Grid
  <2>1. PICK f \in 1..Len(files) : \E m \in 1..Len(files[f]) :
                \E s \in 0..(NumGrids(files, f, m) - 1) : g = <<f, m, s>>
    BY <1>1, GridsOfNames
  <2>2. PICK m \in 1..Len(files[f]) : \E s \in 0..(NumGrids(files, f, m) - 1) : g = <<f, m, s>>
    BY <2>1
  <2>3. QED
    BY <1>1, <2>2, GridData
<1>4. Asked \in SUBSET Grid
  BY <1>2, <1>3
<1>5. QED
  BY <1>4 DEF Init, Status, Delivery!Init, Delivery!Grid, Grid

(* Every step maps to a step of GridDelivery or changes nothing it sees.   *)
LEMMA DeliveryStep == AllInv /\ [Next]_vars => [Delivery!Next]_(Delivery!vars)
<1> SUFFICES ASSUME AllInv, [Next]_vars PROVE [Delivery!Next]_(Delivery!vars)
  OBVIOUS
<1>1. Asked = GridsOf(files) /\ UNCHANGED Asked
  <2>1. files' = files /\ usr' = usr
    BY DEF Next, vars, readerVars, Terminated, OpenFile, OpenFails, NoMoreFiles, FindMessage,
           Enter, EnterFails, ConvertGrid, ConvertFails, EndOfFile, Break, ReadGrib2Record
  <2>2. QED
    BY <2>1 DEF Asked, AllInv
<1>2. CASE ConvertGrid
  <2>1. GridRead = Pos /\ Pos \in GridsOf(files)
    BY <1>2, ConvertGridMoves
  <2>2. Delivery!Delivered = GridsBefore(files, Pos)
    BY <1>2 DEF ConvertGrid, AllInv, DeliveredInv
  <2>3. out' = Append(out, Pos) /\ Status = "running" /\ Status' = "running"
    BY <1>2, <2>1 DEF ConvertGrid, Status, AllInv
  <2>4. ~Before(Pos, Pos)
    BY <2>1, GridsOfNames, FilesType DEF Before, AllInv, TypeInv, TypeOK, ReaderTypeOK
  <2>5. Delivery!IsNext(Pos)
    BY <1>1, <2>2, <2>4 DEF Delivery!IsNext, Delivery!Before, Before, GridsBefore
  <2>6. Delivery!Deliver
    BY <1>1, <2>1, <2>3, <2>5 DEF Delivery!Deliver
  <2>7. QED
    BY <2>6 DEF Delivery!Next
<1>3. CASE NoMoreFiles
  <2>1. Pos = <<Len(files) + 1, 0, 0>> /\ pc = "open"
    BY <1>3 DEF NoMoreFiles, Pos
  <2>2. Delivery!Delivered = GridsOf(files)
    BY <2>1, GridsBeforeEnds DEF AllInv, DeliveredInv, TypeInv, TypeOK, ReaderTypeOK
  <2>3. Status = "running" /\ Status' = "ok" /\ out' = out
    BY <1>3 DEF NoMoreFiles, Return, Status
  <2>4. QED
    BY <1>1, <2>2, <2>3 DEF Delivery!Finish, Delivery!Next
<1>4. CASE OpenFails \/ EnterFails \/ ConvertFails
  <2>1. Status = "running" /\ Status' = "failed" /\ out' = out
    BY <1>4 DEF OpenFails, EnterFails, ConvertFails, Return, Status
  <2>2. QED
    BY <1>1, <2>1 DEF Delivery!GiveUp, Delivery!Next
<1>5. CASE OpenFile \/ Enter \/ EndOfFile \/ UNCHANGED vars
  <2>1. UNCHANGED <<out, Status>>
    BY <1>5 DEF OpenFile, Enter, EndOfFile, Status, AllInv, vars
  <2>2. QED
    BY <1>1, <2>1 DEF Delivery!vars
<1>6. ~FindMessage /\ ~Break
  BY DEF AllInv, LoopInv, FindMessage, Break
<1>7. QED
  BY <1>2, <1>3, <1>4, <1>5, <1>6 DEF Next, Terminated

(***************************************************************************)
(* With -msg n.k, degrib -C implements GridDelivery.                       *)
(***************************************************************************)

(* The messages of the first n files, one by one.                          *)
MessagesIn(fl, n) == UNION {{e} \X (1..Len(fl[e])) : e \in 1..n}

LEMMA UpToFinite ==
    ASSUME NEW k \in Nat
    PROVE  IsFiniteSet(1..k) /\ Cardinality(1..k) = k
<1>1. IsFiniteSet(1..k) /\ Cardinality(1..k) = IF 1 > k THEN 0 ELSE k - 1 + 1
  BY FS_Interval
<1>2. QED
  BY <1>1

LEMMA MessagesInFinite ==
    ASSUME NEW fl \in FileLists, NEW n \in 0..Len(fl)
    PROVE  IsFiniteSet(MessagesIn(fl, n))
<1> DEFINE T == [e \in 1..n |-> {e} \X (1..Len(fl[e]))]
           S == {{e} \X (1..Len(fl[e])) : e \in 1..n}
<1>1. Len(fl) \in Nat /\ n \in Int
  BY FilesType
<1>2. IsFiniteSet(1..n)
  BY <1>1, FS_Interval
<1>3. T \in Surjection(1..n, S)
  BY DEF Surjection
<1>4. IsFiniteSet(S)
  <2> HIDE DEF T, S
  <2>1. QED
    BY <1>2, <1>3, FS_Surjection
<1>5. ASSUME NEW e \in 1..n PROVE IsFiniteSet({e} \X (1..Len(fl[e])))
  <2>1. Len(fl[e]) \in Nat
    BY <1>1, FilesType
  <2>2. IsFiniteSet({e})
    BY FS_Singleton
  <2>3. IsFiniteSet(1..Len(fl[e]))
    BY <2>1, UpToFinite, Zenon
  <2>4. QED
    BY <2>2, <2>3, FS_Product
<1>6. \A U \in S : IsFiniteSet(U)
  BY <1>5
<1> HIDE DEF S
<1>7. IsFiniteSet(UNION S)
  BY <1>4, <1>6, FS_UNION
<1>8. QED
  BY <1>7 DEF S, MessagesIn

(* The count of the messages before a file, one file on.                   *)
LEMMA MessagesCount ==
    ASSUME NEW fl \in FileLists
    PROVE  /\ MessagesBefore(fl, 1) = 0
           /\ \A f \in 1..Len(fl) + 1 : MessagesBefore(fl, f) \in Nat
           /\ \A f \in 1..Len(fl) :
                 MessagesBefore(fl, f + 1) = MessagesBefore(fl, f) + Len(fl[f])
<1>1. Len(fl) \in Nat
  BY FilesType
<1>2. ASSUME NEW f \in 1..Len(fl) + 1
      PROVE  /\ MessagesBefore(fl, f) = Cardinality(MessagesIn(fl, f - 1))
             /\ MessagesBefore(fl, f) \in Nat
  <2>1. f - 1 \in 0..Len(fl)
    BY <1>1
  <2>2. MessagesBefore(fl, f) = Cardinality(MessagesIn(fl, f - 1))
    BY Zenon DEF MessagesBefore, MessagesIn
  <2>3. QED
    BY <2>1, <2>2, MessagesInFinite, FS_CardinalityType
<1>3. MessagesBefore(fl, 1) = 0
  <2>1. MessagesIn(fl, 0) = {}
    BY DEF MessagesIn
  <2>2. QED
    BY <1>1, <1>2, <2>1, FS_EmptySet
<1>4. ASSUME NEW f \in 1..Len(fl)
      PROVE  MessagesBefore(fl, f + 1) = MessagesBefore(fl, f) + Len(fl[f])
  <2> DEFINE A == MessagesIn(fl, f - 1)
             B == {f} \X (1..Len(fl[f]))
  <2>1. MessagesIn(fl, f) = A \cup B
    <3>1. 1..f = 1..(f - 1) \cup {f}
      OBVIOUS
    <3>2. QED
      BY <3>1 DEF MessagesIn
  <2>2. A \cap B = {}
    BY DEF MessagesIn
  <2>3. IsFiniteSet(A) /\ Cardinality(A) \in Nat
    <3>1. f - 1 \in 0..Len(fl)
      BY <1>1
    <3>2. QED
      BY <3>1, MessagesInFinite, FS_CardinalityType
  <2>4. IsFiniteSet(B) /\ Cardinality(B) = Len(fl[f])
    <3>1. Len(fl[f]) \in Nat
      BY <1>1, FilesType
    <3>2. IsFiniteSet({f}) /\ Cardinality({f}) = 1
      BY FS_Singleton
    <3>3. IsFiniteSet(1..Len(fl[f])) /\ Cardinality(1..Len(fl[f])) = Len(fl[f])
      BY <3>1, UpToFinite, Zenon
    <3>4. IsFiniteSet(B) /\ Cardinality(B) = Cardinality({f}) * Cardinality(1..Len(fl[f]))
      BY <3>2, <3>3, FS_Product
    <3>5. QED
      BY <3>1, <3>2, <3>3, <3>4
  <2> HIDE DEF A, B
  <2>5. Cardinality(A \cup B) = Cardinality(A) + Cardinality(B)
    <3>1. Cardinality(A \cap B) = 0
      BY <2>2, FS_EmptySet
    <3>2. Cardinality(A \cup B) = Cardinality(A) + Cardinality(B) - Cardinality(A \cap B)
      BY <2>3, <2>4, FS_Union
    <3>3. Len(fl[f]) \in Nat
      BY <1>1, FilesType
    <3>4. QED
      BY <2>3, <2>4, <3>1, <3>2, <3>3
  <2>6. MessagesBefore(fl, f + 1) = Cardinality(A \cup B)
    <3>1. f + 1 \in 1..Len(fl) + 1 /\ (f + 1) - 1 = f
      BY <1>1
    <3>2. QED
      BY <1>2, <2>1, <3>1
  <2>7. MessagesBefore(fl, f) = Cardinality(A)
    BY <1>1, <1>2 DEF A
  <2>8. QED
    BY <2>4, <2>5, <2>6, <2>7
<1>5. QED
  BY <1>2, <1>3, <1>4

(* The messages of a file come before those of a later one.                *)
LEMMA MessagesGrow ==
    ASSUME NEW fl \in FileLists, NEW e \in 1..Len(fl), NEW f \in 1..Len(fl) + 1, e < f
    PROVE  MessagesBefore(fl, e) + Len(fl[e]) <= MessagesBefore(fl, f)
<1>1. Len(fl) \in Nat
  BY FilesType
<1>2. MessagesIn(fl, e) \subseteq MessagesIn(fl, f - 1)
  <2>1. 1..e \subseteq 1..(f - 1)
    BY <1>1
  <2>2. QED
    BY <2>1, Zenon DEF MessagesIn
<1>3. IsFiniteSet(MessagesIn(fl, f - 1))
  BY <1>1, MessagesInFinite
<1>4. Cardinality(MessagesIn(fl, e)) <= Cardinality(MessagesIn(fl, f - 1))
  BY <1>2, <1>3, FS_Subset
<1>5. MessagesBefore(fl, e + 1) = Cardinality(MessagesIn(fl, e))
  <2>1. (e + 1) - 1 = e
    BY <1>1
  <2>2. QED
    BY <2>1, Zenon DEF MessagesBefore, MessagesIn
<1>6. MessagesBefore(fl, f) = Cardinality(MessagesIn(fl, f - 1))
  BY Zenon DEF MessagesBefore, MessagesIn
<1>7. MessagesBefore(fl, e + 1) = MessagesBefore(fl, e) + Len(fl[e])
  BY MessagesCount
<1>8. QED
  BY <1>4, <1>5, <1>6, <1>7

(* No two messages have the same number.                                   *)
LEMMA MessageNumbers ==
    ASSUME NEW fl \in FileLists, NEW e \in 1..Len(fl), NEW f \in 1..Len(fl),
           NEW k \in 1..Len(fl[e]), NEW m \in 1..Len(fl[f]),
           MessagesBefore(fl, e) + k = MessagesBefore(fl, f) + m
    PROVE  e = f /\ k = m
<1>1. Len(fl) \in Nat /\ Len(fl[e]) \in Nat /\ Len(fl[f]) \in Nat
  BY FilesType
<1>2. MessagesBefore(fl, e) \in Nat /\ MessagesBefore(fl, f) \in Nat
  BY <1>1, MessagesCount
<1>3. e < f => MessagesBefore(fl, e) + Len(fl[e]) <= MessagesBefore(fl, f)
  BY <1>1, MessagesGrow
<1>4. f < e => MessagesBefore(fl, f) + Len(fl[f]) <= MessagesBefore(fl, e)
  BY <1>1, MessagesGrow
<1>5. QED
  BY <1>1, <1>2, <1>3, <1>4

(* So at most one grid is asked for: that of the message with the number   *)
(* of the -msg option, if the message has it.                              *)
LEMMA OneIsAsked ==
    ASSUME files \in FileLists, usr \in Requests, usr.msgNum > 0,
           NEW f \in 1..Len(files), NEW m \in 1..Len(files[f]),
           NEW s \in 0..(NumGrids(files, f, m) - 1),
           MessagesBefore(files, f) + m = usr.msgNum,
           s = IF files[f][m].ver = 2 THEN usr.subgNum ELSE 0
    PROVE  Asked = {<<f, m, s>>}
<1>1. usr.msgNum # 0
  BY RequestsAssumption
<1>2. <<f, m, s>> \in GridsOf(files)
  BY GridData
<1>3. <<f, m, s>> \in Asked
  BY <1>1, <1>2 DEF Asked
<1>4. ASSUME NEW g \in Asked PROVE g = <<f, m, s>>
  <2>1. /\ g \in GridsOf(files) /\ MessagesBefore(files, g[1]) + g[2] = usr.msgNum
        /\ files[g[1]][g[2]].ver = 2 => g[3] = usr.subgNum
    BY <1>1 DEF Asked
  <2>2. PICK e \in 1..Len(files) : \E k \in 1..Len(files[e]) :
                \E t \in 0..(NumGrids(files, e, k) - 1) : g = <<e, k, t>>
    BY <2>1, GridsOfNames
  <2>3. PICK k \in 1..Len(files[e]) : \E t \in 0..(NumGrids(files, e, k) - 1) : g = <<e, k, t>>
    BY <2>2
  <2>4. PICK t \in 0..(NumGrids(files, e, k) - 1) : g = <<e, k, t>>
    BY <2>3
  <2>5. e = f /\ k = m
    BY <2>1, <2>4, MessageNumbers
  <2>6. t = s
    <3>1. CASE files[f][m].ver = 2
      BY <2>1, <2>4, <2>5, <3>1
    <3>2. CASE files[f][m].ver # 2
      <4>1. Len(files[f][m].grids) = 1
        BY <3>2, FilesType
      <4>2. QED
        BY <2>5, <3>2, <4>1 DEF NumGrids
    <3>3. QED
      BY <3>1, <3>2
  <2>7. QED
    BY <2>4, <2>5, <2>6
<1>5. QED
  BY <1>3, <1>4

(* And none if the files end before that message.                          *)
LEMMA NoneIsAsked ==
    ASSUME files \in FileLists, usr \in Requests, usr.msgNum > 0,
           MessagesBefore(files, Len(files) + 1) < usr.msgNum
    PROVE  Asked = {}
<1>1. SUFFICES ASSUME NEW g \in Asked PROVE FALSE
  OBVIOUS
<1>2. usr.msgNum # 0 /\ usr.msgNum \in Nat
  BY RequestsAssumption
<1>3. g \in GridsOf(files) /\ MessagesBefore(files, g[1]) + g[2] = usr.msgNum
  BY <1>2 DEF Asked
<1>4. PICK e \in 1..Len(files) : \E k \in 1..Len(files[e]) :
              \E t \in 0..(NumGrids(files, e, k) - 1) : g = <<e, k, t>>
  BY <1>3, GridsOfNames
<1>5. PICK k \in 1..Len(files[e]) : \E t \in 0..(NumGrids(files, e, k) - 1) : g = <<e, k, t>>
  BY <1>4
<1>6. MessagesBefore(files, e) + k = usr.msgNum
  BY <1>3, <1>5
<1>7. Len(files) \in Nat /\ Len(files[e]) \in Nat
  BY FilesType
<1>8. Len(files) + 1 \in 1..Len(files) + 1 /\ e < Len(files) + 1 /\ e \in 1..Len(files) + 1
  BY <1>7
<1>9. MessagesBefore(files, e) + Len(files[e]) <= MessagesBefore(files, Len(files) + 1)
  BY <1>8, MessagesGrow
<1>10. MessagesBefore(files, e) \in Nat /\ MessagesBefore(files, Len(files) + 1) \in Nat
  BY <1>8, MessagesCount
<1>11. QED
  BY <1>2, <1>6, <1>7, <1>9, <1>10

(* DegribIt's count is that of the messages in the files it is through     *)
(* with; once FindGRIBMsg has found the message, it is the next one to be  *)
(* read, and nothing is delivered before it is; then all that was asked    *)
(* for is.                                                                 *)
CountInv == /\ pc = "open" => curMsg = MessagesBefore(files, inName + 1)
            /\ pc = "find" => curMsg = MessagesBefore(files, inName)
            /\ pc \in {"open", "find"} => curMsg < usr.msgNum

FoundInv == /\ pc \in {"enter", "loop"} =>
                  /\ MessagesBefore(files, inName) + msgPos + 1 = usr.msgNum
                  /\ msgPos < Len(files[inName])
            /\ pc = "loop" => f_endMsg = 1 /\ subgNum = usr.subgNum

OneOutInv == /\ pc \in {"open", "find", "enter", "loop"} => out = <<>>
             /\ pc = "break" => Asked \subseteq Delivery!Delivered

OneInv == TypeInv /\ usr.msgNum > 0 /\ CountInv /\ FoundInv /\ OneOutInv

LEMMA OneInit == Init /\ usr.msgNum > 0 => OneInv
<1> SUFFICES ASSUME Init, usr.msgNum > 0 PROVE OneInv
  OBVIOUS
<1>1. TypeInv
  BY TypeInit
<1>2. MessagesBefore(files, 1) = 0
  BY MessagesCount DEF Init, ReaderInit
<1>3. QED
  BY <1>1, <1>2 DEF Init, ReaderInit, OneInv, CountInv, FoundInv, OneOutInv

(* FindGRIBMsg stops behind the file, or before the message.               *)
LEMMA FindsTheMessage ==
    ASSUME NEW file \in Seq(Message), NEW msgNum \in Nat, NEW cur \in Nat, cur < msgNum
    PROVE  LET r == FindGRIBMsg(file, msgNum, cur)
           IN  r.ret # -1 =>
                  IF r.curMsg = msgNum
                  THEN cur + r.pos + 1 = msgNum /\ r.pos < Len(file)
                  ELSE r.curMsg = cur + Len(file) /\ r.curMsg < msgNum
<1> DEFINE skip == IF msgNum > cur + 1 THEN msgNum - (cur + 1) ELSE 0
<1>1. skip = msgNum - (cur + 1) /\ skip \in Nat /\ Len(file) \in Nat
  OBVIOUS
<1> HIDE DEF skip
<1>2. QED
  BY <1>1 DEF FindGRIBMsg, skip

(* The message found is read, and the grid is the one that is asked for.   *)
LEMMA ConvertsTheOne ==
    ASSUME OneInv, ConvertGrid
    PROVE  GridRead \in Grid /\ Asked = {GridRead}
<1>1. /\ ReaderTypeOK /\ usr \in Requests /\ inName > 0 /\ pc = "loop" /\ usr.msgNum > 0
      /\ files \in FileLists /\ ReadSucceeds
      /\ f_endMsg = 1 /\ subgNum = usr.subgNum
      /\ MessagesBefore(files, inName) + msgPos + 1 = usr.msgNum
  BY DEF OneInv, FoundInv, TypeInv, TypeOK, ConvertGrid, ReadGrib2Record, ReaderTypeOK
<1>2. Source[1] = inName /\ Source[2] = msgPos + 1 /\ msgPos \in Nat
  BY <1>1 DEF Source, ReaderTypeOK
<1>3. /\ inName \in 1..Len(files)
      /\ msgPos + 1 \in 1..Len(files[inName])
      /\ Wanted \in 0..(NumGrids(files, inName, msgPos + 1) - 1)
  BY <1>1, <1>2, SourceIsMessage
<1>4. Wanted = IF files[inName][msgPos + 1].ver = 2 THEN usr.subgNum ELSE 0
  BY <1>1, <1>2 DEF Wanted, SourceMsg
<1>5. GridRead = <<inName, msgPos + 1, Wanted>>
  BY <1>2 DEF GridRead
<1>6. MessagesBefore(files, inName) + (msgPos + 1) = usr.msgNum
  <2>1. MessagesBefore(files, inName) \in Nat
    <3>1. Len(files) \in Nat
      BY <1>1, FilesType
    <3>2. inName \in 1..Len(files) + 1
      BY <1>3, <3>1
    <3>3. QED
      BY <1>1, <3>2, MessagesCount
  <2>2. QED
    BY <1>1, <1>2, <2>1
<1>7. Asked = {<<inName, msgPos + 1, Wanted>>}
  BY <1>1, <1>3, <1>4, <1>6, OneIsAsked
<1>8. GridRead \in Grid
  BY <1>1, <1>3, <1>5, GridData
<1>9. QED
  BY <1>5, <1>7, <1>8

(* The files and the option stay, and with them what is asked for.         *)
LEMMA AskedStays == [Next]_vars => files' = files /\ usr' = usr /\ Asked' = Asked
<1> SUFFICES ASSUME [Next]_vars PROVE files' = files /\ usr' = usr /\ Asked' = Asked
  OBVIOUS
<1>1. files' = files /\ usr' = usr
  BY DEF Next, vars, readerVars, Terminated, OpenFile, OpenFails, NoMoreFiles, FindMessage,
         Enter, EnterFails, ConvertGrid, ConvertFails, EndOfFile, Break, ReadGrib2Record
<1>2. QED
  BY <1>1 DEF Asked

LEMMA OneStep == OneInv /\ [Next]_vars => OneInv'
<1> SUFFICES ASSUME OneInv, [Next]_vars PROVE OneInv'
  OBVIOUS
<1>1. TypeInv'
  BY TypeStep DEF OneInv
<1>2. files' = files /\ usr' = usr /\ Asked' = Asked
  BY AskedStays
<1>3. /\ files \in FileLists /\ Len(files) \in Nat /\ inName \in 0..Len(files)
      /\ usr \in Requests /\ usr.msgNum \in Nat /\ usr.msgNum > 0 /\ curMsg \in Nat
      /\ \A f \in 1..Len(files) : files[f] \in Seq(Message) /\ Len(files[f]) \in Nat
  BY FilesType, RequestsAssumption DEF OneInv, TypeInv, TypeOK, ReaderTypeOK
<1>4. CountInv /\ FoundInv /\ OneOutInv
  BY DEF OneInv
<1>5. SUFFICES CountInv' /\ FoundInv' /\ OneOutInv'
  BY <1>1, <1>2, <1>3 DEF OneInv
<1>6. CASE OpenFile
  <2>1. pc = "open" /\ pc' = "find" /\ inName' = inName + 1
        /\ UNCHANGED <<curMsg, out>>
    BY <1>3, <1>6 DEF OpenFile
  <2>2. QED
    BY <1>2, <1>4, <2>1 DEF CountInv, FoundInv, OneOutInv
<1>7. CASE FindMessage
  <2> DEFINE r == FindGRIBMsg(files[inName], usr.msgNum, curMsg)
  <2>1. inName \in 1..Len(files) /\ pc = "find"
    BY <1>3, <1>7 DEF FindMessage, OneInv, TypeInv
  <2>2. r.ret # -1 => IF r.curMsg = usr.msgNum
                      THEN curMsg + r.pos + 1 = usr.msgNum /\ r.pos < Len(files[inName])
                      ELSE r.curMsg = curMsg + Len(files[inName]) /\ r.curMsg < usr.msgNum
    BY <1>3, <1>4, <2>1, FindsTheMessage DEF CountInv
  <2>3. /\ IF r.ret = -1
           THEN pc' = "done"
           ELSE /\ pc' = IF r.curMsg = usr.msgNum THEN "enter" ELSE "open"
                /\ msgPos' = r.pos /\ curMsg' = r.curMsg
        /\ inName' = inName /\ out' = out
    BY <1>7 DEF FindMessage, Return
  <2> HIDE DEF r
  <2>4. MessagesBefore(files, inName + 1) = MessagesBefore(files, inName) + Len(files[inName])
        /\ curMsg = MessagesBefore(files, inName) /\ out = <<>>
    BY <1>3, <1>4, <2>1, MessagesCount DEF CountInv, OneOutInv
  <2>5. CASE r.ret = -1
    BY <2>3, <2>5 DEF CountInv, FoundInv, OneOutInv
  <2>6. CASE r.ret # -1 /\ r.curMsg = usr.msgNum
    BY <1>2, <2>2, <2>3, <2>4, <2>6 DEF CountInv, FoundInv, OneOutInv
  <2>7. CASE r.ret # -1 /\ r.curMsg # usr.msgNum
    BY <1>2, <2>2, <2>3, <2>4, <2>7 DEF CountInv, FoundInv, OneOutInv
  <2>8. QED
    BY <2>5, <2>6, <2>7
<1>8. CASE Enter
  <2>1. /\ pc = "enter" /\ pc' = "loop" /\ f_endMsg' = 1 /\ subgNum' = usr.subgNum
        /\ UNCHANGED <<files, inName, msgPos, out>>
    BY <1>3, <1>8 DEF Enter
  <2>2. QED
    BY <1>2, <1>4, <2>1 DEF CountInv, FoundInv, OneOutInv
<1>9. CASE ConvertGrid
  <2>1. GridRead \in Grid /\ Asked = {GridRead}
    BY <1>9, ConvertsTheOne
  <2>2. Delivery!Delivered' = Delivery!Delivered \cup {GridRead}
    BY <1>9, <2>1, DeliveredAppend DEF ConvertGrid, OneInv, TypeInv, TypeOK
  <2>3. pc' = "break"
    BY <1>3, <1>9 DEF ConvertGrid
  <2>4. QED
    BY <1>2, <2>1, <2>2, <2>3 DEF CountInv, FoundInv, OneOutInv
<1>10. CASE OpenFails \/ NoMoreFiles \/ EnterFails \/ ConvertFails \/ Break
  BY <1>10 DEF OpenFails, NoMoreFiles, EnterFails, ConvertFails, Break, Return, CountInv, FoundInv, OneOutInv
<1>11. CASE EndOfFile
  BY <1>3, <1>11 DEF EndOfFile, Return, CountInv, FoundInv, OneOutInv
<1>12. CASE UNCHANGED vars
  <2>1. Delivery!Delivered' = Delivery!Delivered
    BY <1>12 DEF vars, Delivery!Delivered
  <2>2. QED
    BY <1>2, <1>4, <1>12, <2>1 DEF vars, readerVars, CountInv, FoundInv, OneOutInv
<1>13. QED
  BY <1>6, <1>7, <1>8, <1>9, <1>10, <1>11, <1>12 DEF Next, Terminated

(* Every step maps to a step of GridDelivery or changes nothing it sees.   *)
LEMMA OneDeliveryStep == OneInv /\ [Next]_vars => [Delivery!Next]_(Delivery!vars)
<1> SUFFICES ASSUME OneInv, [Next]_vars PROVE [Delivery!Next]_(Delivery!vars)
  OBVIOUS
<1>1. Asked' = Asked
  BY AskedStays
<1>2. /\ files \in FileLists /\ usr \in Requests /\ usr.msgNum > 0
      /\ msgPos \in Nat /\ (pc = "loop" => inName > 0)
  BY DEF OneInv, TypeInv, TypeOK, ReaderTypeOK
<1>3. CASE ConvertGrid
  <2>1. GridRead \in Grid /\ Asked = {GridRead}
    BY <1>3, ConvertsTheOne
  <2>2. Delivery!Delivered = {}
    BY <1>3 DEF ConvertGrid, OneInv, OneOutInv, Delivery!Delivered
  <2>3. out' = Append(out, GridRead) /\ Status = "running" /\ Status' = "running"
    BY <1>2, <1>3 DEF ConvertGrid, Status
  <2>4. ~Before(GridRead, GridRead)
    <3>1. GridRead[1] \in Nat /\ GridRead[2] \in Nat /\ GridRead[3] \in Nat
      BY <2>1 DEF Grid
    <3>2. QED
      BY <3>1 DEF Before
  <2>5. Delivery!IsNext(GridRead)
    BY <2>1, <2>2, <2>4 DEF Delivery!IsNext, Delivery!Before, Before
  <2>6. QED
    BY <1>1, <2>1, <2>3, <2>5 DEF Delivery!Deliver, Delivery!Next
<1>4. CASE NoMoreFiles
  <2>1. MessagesBefore(files, Len(files) + 1) < usr.msgNum
    BY <1>4 DEF NoMoreFiles, OneInv, CountInv
  <2>2. Asked = {}
    BY <1>2, <2>1, NoneIsAsked
  <2>3. Status = "running" /\ Status' = "ok" /\ out' = out
    BY <1>4 DEF NoMoreFiles, Return, Status
  <2>4. QED
    BY <1>1, <2>2, <2>3 DEF Delivery!Finish, Delivery!Next
<1>5. CASE Break
  <2>1. Asked \subseteq Delivery!Delivered
    BY <1>5 DEF Break, OneInv, OneOutInv
  <2>2. Status = "running" /\ Status' = "ok" /\ out' = out
    BY <1>5 DEF Break, Return, Status
  <2>3. QED
    BY <1>1, <2>1, <2>2 DEF Delivery!Finish, Delivery!Next
<1>6. CASE FindMessage
  <2>1. pc = "find" /\ out' = out /\ (pc' = "done" => ret' = 1)
    BY <1>6 DEF FindMessage, Return
  <2>2. CASE pc' = "done"
    <3>1. Status = "running" /\ Status' = "failed"
      BY <2>1, <2>2 DEF Status
    <3>2. QED
      BY <1>1, <2>1, <3>1 DEF Delivery!GiveUp, Delivery!Next
  <2>3. CASE pc' # "done"
    <3>1. Status' = Status
      BY <2>1, <2>3 DEF Status
    <3>2. QED
      BY <1>1, <2>1, <3>1 DEF Delivery!vars
  <2>4. QED
    BY <2>2, <2>3
<1>7. CASE OpenFails \/ EnterFails \/ ConvertFails
  <2>1. Status = "running" /\ Status' = "failed" /\ out' = out
    BY <1>7 DEF OpenFails, EnterFails, ConvertFails, Return, Status
  <2>2. QED
    BY <1>1, <2>1 DEF Delivery!GiveUp, Delivery!Next
<1>8. CASE OpenFile \/ Enter \/ UNCHANGED vars
  <2>1. UNCHANGED <<out, Status>>
    BY <1>8 DEF OpenFile, Enter, Status, vars
  <2>2. QED
    BY <1>1, <2>1 DEF Delivery!vars
<1>9. ~EndOfFile
  BY <1>2 DEF EndOfFile, LoopAgain, AtEOF, OneInv, FoundInv, TypeInv, TypeOK
<1>10. QED
  BY <1>3, <1>4, <1>5, <1>6, <1>7, <1>8, <1>9 DEF Next, Terminated

(* For any input files and -msg option, degrib -C hands the grids the      *)
(* option names to MainConvert, in order, each once, and ends well only    *)
(* after the last one; at the first problem it stops (the safety part of   *)
(* DeliversWhatIsAsked).                                                   *)
THEOREM DeliversTheAsked == Spec => Delivery!Init /\ [][Delivery!Next]_(Delivery!vars)
<1>1. Init => AllInv \/ OneInv
  <2>1. Init => usr.msgNum = 0 \/ usr.msgNum > 0
    BY RequestsAssumption DEF Init
  <2>2. QED
    BY <2>1, AllInit, OneInit
<1>2. (AllInv \/ OneInv) /\ [Next]_vars => (AllInv \/ OneInv)'
  BY AllStep, OneStep
<1>3. (AllInv \/ OneInv) /\ [Next]_vars => [Delivery!Next]_(Delivery!vars)
  BY DeliveryStep, OneDeliveryStep
<1>4. QED
  BY <1>1, <1>2, <1>3, DeliveryInit, PTL DEF Spec
===============================================================================
