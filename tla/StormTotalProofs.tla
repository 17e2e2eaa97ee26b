--------------------------- MODULE StormTotalProofs ---------------------------
(***************************************************************************)
(* For any file and window: the types of StormTotal, and that of a file of *)
(* one-grid messages the total is that of the grids inside the window, and *)
(* a window without grids is told from one with some.                      *)
(***************************************************************************)
EXTENDS StormTotal, GribReaderProofs, WellFoundedInduction

(* What all the iterations of the loop have in common.                     *)
IterateInv == /\ ReaderTypeOK
              /\ inName = 1

LEMMA ReaderUnchanged ==
    ASSUME ReaderTypeOK, UNCHANGED readerVars
    PROVE  ReaderTypeOK'
  BY DEF ReaderTypeOK, readerVars, IsMessage

LEMMA IterateTypes ==
    ASSUME IterateInv, NEW d \in Field, Iterate(d)
    PROVE  /\ IterateInv'
           /\ GridRead \in Grid
           /\ d.end \in Nat /\ d.val \in Int
<1>1. ReadGrib2Record /\ subgNum' \in Nat
  BY DEF Iterate, IterateInv, ReaderTypeOK
<1>2. ReaderTypeOK' /\ GridRead \in Grid
  BY <1>1, ReadGrib2RecordTypes DEF IterateInv
<1>3. QED
  BY <1>1, <1>2, StormAssumption DEF IterateInv, ReadGrib2Record

TypeInv == TypeOK /\ IterateInv

LEMMA TypeInit == Init => TypeInv
<1> SUFFICES ASSUME Init PROVE TypeInv
  OBVIOUS
<1>1. files \in FileLists /\ Len(files) \in Nat /\ Len(files) > 0 /\ Len(files[1]) \in Nat
  BY FilesType, StormAssumption DEF Init
<1>2. ReaderTypeOK
  BY <1>1 DEF Init, ReaderTypeOK
<1>3. kept \in Seq(Grid)
  BY DEF Init
<1>4. /\ pc = "loop" /\ error = 0 /\ msgEnd = 0 /\ grib_total = None /\ inName = 1
      /\ f_haveMsg = FALSE /\ f_haveMsgBeforeEnd = FALSE
  BY DEF Init
<1>5. f_haveMsg \in BOOLEAN /\ f_haveMsgBeforeEnd \in BOOLEAN
  BY <1>4
<1>6. error \in 0..3 /\ msgEnd \in Nat
  BY <1>4
<1>7. QED
  BY <1>2, <1>3, <1>4, <1>5, <1>6, Zenon DEF TypeInv, TypeOK, IterateInv

LEMMA TypeStep == TypeInv /\ [Next]_vars => TypeInv'
<1> SUFFICES ASSUME TypeInv, [Next]_vars PROVE TypeInv'
  OBVIOUS
<1> USE DEF TypeInv, TypeOK
<1>1. CASE ReadFails \/ EndOfFile
  BY <1>1, ReaderUnchanged DEF ReadFails, EndOfFile, LeaveLoop, locals, readerVars, IterateInv
<1>2. CASE Conclude
  <2>1. error' \in 0..3
    BY <1>2 DEF Conclude, AfterError
  <2>2. QED
    BY <1>2, <2>1, ReaderUnchanged DEF Conclude, locals, readerVars, IterateInv
<1>3. ASSUME NEW d \in Field, NotUsable(d) PROVE TypeInv'
  <2>1. IterateInv' /\ EndOf(d) \in Nat
    BY <1>3, IterateTypes DEF NotUsable, EndOf
  <2>2. QED
    BY <1>3, <2>1 DEF NotUsable, LeaveLoop, IterateInv
<1>4. ASSUME NEW d \in Field, PastTheEnd(d) PROVE TypeInv'
  <2>1. IterateInv' /\ EndOf(d) \in Nat
    BY <1>4, IterateTypes DEF PastTheEnd, EndOf
  <2>2. QED
    BY <1>4, <2>1 DEF PastTheEnd, LeaveLoop, IterateInv
<1>5. ASSUME NEW d \in Field, TooEarly(d) PROVE TypeInv'
  <2>1. IterateInv' /\ EndOf(d) \in Nat
    BY <1>5, IterateTypes DEF TooEarly, EndOf
  <2>2. QED
    BY <1>5, <2>1 DEF TooEarly, IterateInv
<1>6. ASSUME NEW d \in Field, Mismatch(d) PROVE TypeInv'
  <2>1. IterateInv' /\ EndOf(d) \in Nat
    BY <1>6, IterateTypes DEF Mismatch, EndOf
  <2>2. QED
    BY <1>6, <2>1 DEF Mismatch, LeaveLoop, IterateInv
<1>7. ASSUME NEW d \in Field, Accumulate(d) PROVE TypeInv'
  <2>1. IterateInv' /\ EndOf(d) \in Nat /\ d.val \in Int /\ GridRead \in Grid
    BY <1>7, IterateTypes DEF Accumulate, EndOf
  <2>2. grib_total' \in Int
    BY <1>7, <2>1, StormAssumption DEF Accumulate
  <2>3. kept' \in Seq(Grid)
    BY <1>7, <2>1 DEF Accumulate
  <2>4. QED
    BY <1>7, <2>1, <2>2, <2>3 DEF Accumulate, IterateInv
<1>8. CASE UNCHANGED vars
  BY <1>8, ReaderUnchanged DEF vars, locals, readerVars, IterateInv
<1>9. QED
  BY <1>1, <1>2, <1>3, <1>4, <1>5, <1>6, <1>7, <1>8 DEF Next, Terminated

(* StormTotal keeps the types of its state.                                *)
THEOREM TypeCorrect == Spec => []TypeOK
<1>1. TypeInv => TypeOK
  BY DEF TypeInv
<1>2. QED
  BY <1>1, TypeInit, TypeStep, PTL DEF Spec

(***************************************************************************)
(* Files of one-grid messages.                                             *)
(***************************************************************************)

OneGridFiles == \A fl \in FileLists : \A f \in 1..Len(fl) : \A m \in 1..Len(fl[f]) :
                    Len(fl[f][m].grids) = 1

(* The messages are taken one by one, and the grids that were added are of *)
(* messages before the file position.                                      *)
KeptInv == /\ f_endMsg = 1
           /\ subgNum = 0
           /\ \A i \in DOMAIN kept : kept[i][2] <= msgPos

(* An iteration reads the next message.                                    *)
LEMMA IterateNext ==
    ASSUME OneGridFiles, TypeInv, KeptInv, NEW d \in Field, Iterate(d)
    PROVE  /\ f_endMsg' = 1 /\ subgNum' = 0
           /\ msgPos' = msgPos + 1
           /\ GridRead[2] = msgPos + 1
           /\ GridRead \in Grid
<1>1. ReaderTypeOK /\ inName = 1 /\ ReadGrib2Record /\ ReadSucceeds /\ subgNum' = subgNum
  BY DEF TypeInv, TypeOK, IterateInv, Iterate, ReadGrib2Record
<1>2. Source = <<1, msgPos + 1>> /\ Wanted = 0
  BY <1>1 DEF KeptInv, Source, Wanted
<1>3. Source[1] \in 1..Len(files) /\ Source[2] \in 1..Len(files[Source[1]])
  BY <1>1, SourceIsMessage
<1>4. Len(SourceMsg.grids) = 1
  BY <1>1, <1>3 DEF OneGridFiles, SourceMsg, ReaderTypeOK
<1>5. f_endMsg' = 1 /\ msgPos' = msgPos + 1
  BY <1>1, <1>2, <1>4 DEF ReadGrib2Record, KeptInv
<1>6. GridRead \in Grid
  BY IterateTypes DEF TypeInv
<1>7. QED
  BY <1>1, <1>2, <1>5, <1>6 DEF GridRead, KeptInv

LEMMA KeptStep ==
    ASSUME OneGridFiles, TypeInv, KeptInv, [Next]_vars
    PROVE  KeptInv'
<1>1. msgPos \in Nat /\ kept \in Seq(Grid)
  BY DEF TypeInv, TypeOK, ReaderTypeOK
<1>2. \A i \in DOMAIN kept : kept[i] \in Grid /\ kept[i][2] \in Nat
  BY <1>1 DEF Grid
<1>3. CASE ReadFails \/ EndOfFile \/ Conclude \/ UNCHANGED vars
  BY <1>3 DEF ReadFails, EndOfFile, Conclude, vars, locals, readerVars, KeptInv
<1>4. ASSUME NEW d \in Field, NotUsable(d) \/ PastTheEnd(d) \/ Mismatch(d) \/ TooEarly(d)
      PROVE  KeptInv'
  <2>1. Iterate(d) /\ kept' = kept
    BY <1>4 DEF NotUsable, PastTheEnd, Mismatch, TooEarly
  <2>2. f_endMsg' = 1 /\ subgNum' = 0 /\ msgPos' = msgPos + 1
    BY <2>1, IterateNext
  <2>3. QED
    BY <1>1, <1>2, <2>1, <2>2 DEF KeptInv
<1>5. ASSUME NEW d \in Field, Accumulate(d) PROVE KeptInv'
  <2> DEFINE n == Len(kept)
             g == GridRead
  <2>1. Iterate(d) /\ kept' = Append(kept, g)
    BY <1>5 DEF Accumulate
  <2>2. f_endMsg' = 1 /\ subgNum' = 0 /\ msgPos' = msgPos + 1 /\ g[2] = msgPos + 1 /\ g \in Grid
    BY <2>1, IterateNext
  <2> HIDE DEF g
  <2>3. /\ DOMAIN kept' = DOMAIN kept \cup {n + 1}
        /\ \A i \in DOMAIN kept : kept'[i] = kept[i]
        /\ kept'[n + 1] = g
        /\ n + 1 \notin DOMAIN kept
    BY <1>1, <2>1, <2>2
  <2> HIDE DEF n
  <2>4. \A i \in DOMAIN kept : kept[i][2] <= msgPos
    BY DEF KeptInv
  <2>5. \A i \in DOMAIN kept' : kept'[i][2] <= msgPos + 1
    BY <1>1, <1>2, <2>2, <2>3, <2>4
  <2>6. QED
    BY <2>2, <2>5 DEF KeptInv
<1>6. QED
  BY <1>3, <1>4, <1>5 DEF Next, Terminated

(***************************************************************************)
(* The total.  What the first m grids add up to is defined by recursion,   *)
(* so that it takes an induction to see that it is well defined.           *)
(***************************************************************************)

Less == {p \in Nat \X Nat : p[1] < p[2]}

LEMMA LessWellFounded == IsWellFoundedOn(Less, Nat)
<1>1. OpToRel(<, Nat) = Less
  BY Zenon DEF OpToRel, Less
<1>2. QED
  BY <1>1, NatLessThanWellFounded, Zenon

(* Induction, for a set instead of a predicate.                            *)
LEMMA NatInSet ==
    ASSUME NEW S, 0 \in S, \A n \in Nat : n \in S => n + 1 \in S
    PROVE  \A n \in Nat : n \in S
<1> DEFINE T == {n \in Nat : n \notin S}
<1>1. SUFFICES ASSUME T # {} PROVE FALSE
  OBVIOUS
<1>2. \E x \in T : \A y \in T : ~ (<<y, x>> \in Less)
  <2> HIDE DEF T
  <2>1. T \subseteq Nat
    BY DEF T
  <2>2. QED
    BY <1>1, <2>1, LessWellFounded, WFMin, Zenon
<1>3. PICK x \in T : \A y \in T : ~ (<<y, x>> \in Less)
  BY <1>2
<1>4. \A y \in T : ~(y < x)
  BY <1>3 DEF Less
<1>5. x # 0
  OBVIOUS
<1>6. x - 1 \in Nat /\ x - 1 < x /\ x = (x - 1) + 1
  BY <1>5
<1>7. x - 1 \in S
  BY <1>4, <1>6
<1>8. QED
  BY <1>6, <1>7

LEMMA TotalToSums ==
    ASSUME NEW ds, Len(ds) \in Nat, \A m \in 1..Len(ds) : ds[m].val \in Int, NEW w
    PROVE  LET total == TotalTo(ds, w)
           IN  /\ total[0] = 0
               /\ \A m \in 0..Len(ds) : total[m] \in Int
               /\ \A m \in 1..Len(ds) :
                     total[m] = total[m - 1] + IF LiesInside(ds[m], w) THEN ds[m].val ELSE 0
<1> DEFINE N == Len(ds)
           add == [m \in 1..N |-> IF LiesInside(ds[m], w) THEN ds[m].val ELSE 0]
           total == TotalTo(ds, w)
<1>1. N \in Nat /\ add \in [1..N -> Int]
  OBVIOUS
<1> HIDE DEF add, N
<1> DEFINE Sums(n, f) == f[0] = 0 /\ \A m \in 1..n : f[m] = f[m - 1] + add[m]
           S == {n \in Nat : n <= N => \E f \in [0..n -> Int] : Sums(n, f)}
<1>2. 0 \in S
  <2>1. [m \in 0..0 |-> 0] \in [0..0 -> Int] /\ Sums(0, [m \in 0..0 |-> 0])
    OBVIOUS
  <2>2. QED
    BY <2>1
<1>3. ASSUME NEW n \in Nat, n \in S PROVE n + 1 \in S
  <2>1. SUFFICES ASSUME n + 1 <= N PROVE \E f \in [0..n + 1 -> Int] : Sums(n + 1, f)
    OBVIOUS
  <2>2. PICK f \in [0..n -> Int] : Sums(n, f)
    <3>1. n <= N
      BY <1>1, <2>1
    <3>2. QED
      BY <1>3, <3>1
  <2>3. f[n] + add[n + 1] \in Int
    BY <1>1, <2>1
  <2> DEFINE g == [m \in 0..n + 1 |-> IF m = n + 1 THEN f[n] + add[n + 1] ELSE f[m]]
  <2>4. g \in [0..n + 1 -> Int]
    BY <2>3
  <2>5. g[0] = 0 /\ g[n] = f[n] /\ g[n + 1] = f[n] + add[n + 1]
    BY <2>2
  <2>6. ASSUME NEW m \in 1..n PROVE g[m] = g[m - 1] + add[m]
    BY <2>2
  <2>7. Sums(n + 1, g)
    <3> HIDE DEF g
    <3>1. \A m \in 1..n + 1 : m \in 1..n \/ m = n + 1
      OBVIOUS
    <3>2. (n + 1) - 1 = n
      OBVIOUS
    <3>3. QED
      BY <2>5, <2>6, <3>1, <3>2
  <2>8. QED
    BY <2>4, <2>7
<1>4. N \in S
  <2> HIDE DEF S
  <2>1. QED
    BY <1>1, <1>2, <1>3, NatInSet
<1>5. PICK f \in [0..N -> Int] : Sums(N, f)
  <2>1. N <= N
    BY <1>1
  <2>2. QED
    BY <1>4, <2>1
<1> DEFINE IsTotal(h) == h = [m \in 0..N |-> IF m = 0 THEN 0
                                            ELSE h[m - 1] + (IF LiesInside(ds[m], w)
                                                             THEN ds[m].val ELSE 0)]
<1>6. \A m \in 1..N : add[m] = IF LiesInside(ds[m], w) THEN ds[m].val ELSE 0
  BY DEF add
<1>7. IsTotal(f)
  <2>1. ASSUME NEW m \in 0..N
        PROVE  f[m] = IF m = 0 THEN 0 ELSE f[m - 1] + (IF LiesInside(ds[m], w) THEN ds[m].val ELSE 0)
    <3>1. m # 0 => m \in 1..N
      BY <1>1
    <3>2. QED
      BY <1>5, <1>6, <3>1
  <2>2. QED
    BY <2>1
<1>8. IsTotal(total)
  BY <1>7, Zenon DEF TotalTo, N
<1> HIDE DEF total
<1>9. \A m \in 0..N : total[m] = IF m = 0 THEN 0
                                 ELSE total[m - 1] + (IF LiesInside(ds[m], w) THEN ds[m].val ELSE 0)
  BY <1>8
<1>10. \A m \in 0..N : total[m] \in Int
  <2> DEFINE U == {n \in Nat : n <= N => total[n] \in Int}
  <2>1. 0 \in U
    BY <1>1, <1>9
  <2>2. ASSUME NEW n \in Nat, n \in U PROVE n + 1 \in U
    <3>1. CASE n + 1 <= N
      <4>1. n + 1 \in 1..N /\ n \in 0..N /\ (n + 1) - 1 = n
        BY <1>1, <3>1
      <4>2. total[n + 1] = total[n] + add[n + 1]
        <5>1. n + 1 \in 0..N /\ n + 1 # 0
          BY <1>1, <4>1
        <5>2. QED
          BY <1>6, <1>9, <4>1, <5>1
      <4>4. add[n + 1] \in Int
        BY <1>1, <4>1
      <4>3. QED
        BY <2>2, <4>1, <4>2, <4>4
    <3>2. QED
      BY <3>1
  <2>3. \A n \in Nat : n \in U
    <3> HIDE DEF U
    <3>1. QED
      BY <2>1, <2>2, NatInSet
  <2>4. QED
    BY <1>1, <2>3
<1>11. QED
  BY <1>1, <1>9, <1>10 DEF total, N

(* The messages whose grids the total is of.                               *)
Inside == {m \in DOMAIN FirstGrids : LiesInside(FirstGrids[m], usr)}

(* What has been added so far is what lies inside the window among the     *)
(* messages that were read, unless the loop ended in an error.  Past the   *)
(* end of the window nothing more lies inside it, if the file is sorted.   *)
AddedInv == /\ usr \in Windows
            /\ pc = "loop" => error = 0
            /\ \A i \in DOMAIN kept : kept[i] = <<1, kept[i][2], 0>> /\ kept[i][2] \in Inside
            /\ \A i, j \in DOMAIN kept : i < j => kept[i][2] < kept[j][2]
            /\ error = 0 => \A m \in Inside : m <= msgPos => \E i \in DOMAIN kept : kept[i][2] = m
            /\ pc # "loop" /\ error = 0 /\ Sorted => \A m \in Inside : m <= msgPos

(* grib_total is the sum of what has been added, if no value is missing,   *)
(* and firstTime and timeRange are those of the first and the last.        *)
TotalInv == /\ kept = <<>> <=> grib_total = None
            /\ error = 0 /\ (\A m \in Inside : m <= msgPos => FirstGrids[m].val # missPri)
                  => TotalTo(FirstGrids, usr)[msgPos] = IF kept = <<>> THEN 0 ELSE grib_total
            /\ kept # <<>> => /\ firstTime = StartOf(FirstGrids[kept[1][2]])
                              /\ timeRange = EndOf(FirstGrids[kept[Len(kept)][2]]) - firstTime
            /\ pc = "done" /\ error = 0
                  => converted = [total |-> grib_total, validTime |-> firstTime + timeRange,
                                  lenTime |-> timeRange]

WindowInv == TypeInv /\ KeptInv /\ AddedInv /\ TotalInv

(* The grids of the file and their types.                                  *)
LEMMA FirstGridsType ==
    ASSUME TypeInv, OneGridFiles
    PROVE  /\ Len(FirstGrids) \in Nat /\ Len(FirstGrids) = Len(files[1])
           /\ DOMAIN FirstGrids = 1..Len(FirstGrids)
           /\ msgPos \in 0..Len(FirstGrids)
           /\ \A m \in DOMAIN FirstGrids :
                 /\ FirstGrids[m] \in Field /\ FirstGrids[m] = FieldOf(files, <<1, m, 0>>)
                 /\ FirstGrids[m].end \in Nat /\ FirstGrids[m].len \in Int
                 /\ FirstGrids[m].val \in Int
<1>1. files \in FileLists /\ inName = 1 /\ msgPos \in Nat /\ msgPos <= Len(files[1])
  BY DEF TypeInv, IterateInv, ReaderTypeOK
<1>2. 1 \in 1..Len(files) /\ Len(files[1]) \in Nat
  <2>1. Len(files) \in Nat /\ Len(files) > 0
    BY <1>1, FilesType, StormAssumption
  <2>2. 1 \in 1..Len(files)
    BY <2>1
  <2>3. QED
    BY <1>1, <2>2, FilesType
<1>3. ASSUME NEW m \in 1..Len(files[1])
      PROVE  files[1][m].grids[1] \in Field /\ files[1][m].grids[1] = FieldOf(files, <<1, m, 0>>)
  <2>1. 0 \in 0..(NumGrids(files, 1, m) - 1)
    BY <1>1, <1>2 DEF OneGridFiles, NumGrids
  <2>2. FieldOf(files, <<1, m, 0>>) \in Field
    BY <1>1, <1>2, <2>1, GridData
  <2>3. QED
    BY <2>2 DEF FieldOf
<1>4. FirstGrids \in [1..Len(files[1]) -> Field]
  BY <1>3 DEF FirstGrids
<1>5. FirstGrids \in Seq(Field) /\ Len(FirstGrids) = Len(files[1])
  BY <1>2, <1>4
<1>6. QED
  BY <1>1, <1>2, <1>3, <1>4, <1>5, StormAssumption DEF FirstGrids

(* An iteration reads the grid of the next message of the file.            *)
LEMMA IterateReads ==
    ASSUME OneGridFiles, TypeInv, KeptInv, NEW d \in Field, Iterate(d)
    PROVE  /\ msgPos + 1 \in DOMAIN FirstGrids
           /\ d = FirstGrids[msgPos + 1]
           /\ GridRead = <<1, msgPos + 1, 0>>
           /\ msgPos' = msgPos + 1
           /\ FirstGrids' = FirstGrids /\ usr' = usr /\ files' = files
<1>1. /\ ReaderTypeOK /\ inName = 1 /\ ReadGrib2Record /\ ReadSucceeds
      /\ d = FieldOf(files, GridRead) /\ usr' = usr
  BY DEF TypeInv, TypeOK, IterateInv, Iterate, ReadGrib2Record
<1>2. Source = <<1, msgPos + 1>> /\ Wanted = 0
  BY <1>1 DEF KeptInv, Source, Wanted
<1>3. GridRead = <<1, msgPos + 1, 0>>
  BY <1>2 DEF GridRead
<1>4. Source[2] \in 1..Len(files[Source[1]])
  BY <1>1, SourceIsMessage
<1>5. msgPos + 1 \in DOMAIN FirstGrids
  BY <1>2, <1>4 DEF FirstGrids
<1>6. msgPos' = msgPos + 1
  BY IterateNext
<1>7. files' = files
  BY <1>1 DEF ReadGrib2Record
<1>8. FirstGrids' = FirstGrids
  BY <1>7 DEF FirstGrids
<1>9. d = FirstGrids[msgPos + 1]
  BY <1>1, <1>3, <1>5, FirstGridsType
<1>10. QED
  BY <1>1, <1>3, <1>5, <1>6, <1>7, <1>8, <1>9

LEMMA InsideUnchanged ==
    ASSUME FirstGrids' = FirstGrids, usr' = usr
    PROVE  Inside' = Inside /\ Sorted' = Sorted
           /\ TotalTo(FirstGrids, usr)' = TotalTo(FirstGrids, usr)
  BY DEF Inside, Sorted

(* The total up to the next message.                                       *)
LEMMA TotalToNext ==
    ASSUME TypeInv, OneGridFiles, msgPos + 1 \in DOMAIN FirstGrids
    PROVE  LET d == FirstGrids[msgPos + 1]
           IN  /\ TotalTo(FirstGrids, usr)[msgPos] \in Int
               /\ TotalTo(FirstGrids, usr)[msgPos + 1] =
                     TotalTo(FirstGrids, usr)[msgPos]
                        + IF LiesInside(d, usr) THEN d.val ELSE 0
<1>1. msgPos \in Nat /\ Len(FirstGrids) \in Nat /\ msgPos + 1 \in 1..Len(FirstGrids)
  BY FirstGridsType
<1>2. msgPos \in 0..Len(FirstGrids) /\ (msgPos + 1) - 1 = msgPos
  BY <1>1
<1>3. \A m \in 1..Len(FirstGrids) : FirstGrids[m].val \in Int
  BY FirstGridsType
<1>4. QED
  BY <1>1, <1>2, <1>3, TotalToSums

(* A step that reads a grid and adds nothing, because it is not inside the *)
(* window or because the loop ends in an error.                            *)
LEMMA ReadAndSkip ==
    ASSUME OneGridFiles, WindowInv, NEW d \in Field, Iterate(d),
           UNCHANGED <<kept, grib_total, firstTime, timeRange>>, pc' # "done",
           pc' = "loop" => error' = 0,
           error' = 0 => error = 0 /\ ~LiesInside(d, usr),
           error' = 0 /\ pc' # "loop" => d.end > usr.endTime
    PROVE  AddedInv' /\ TotalInv'
<1>1. /\ msgPos + 1 \in DOMAIN FirstGrids /\ d = FirstGrids[msgPos + 1]
      /\ msgPos' = msgPos + 1 /\ FirstGrids' = FirstGrids /\ usr' = usr
  BY IterateReads DEF WindowInv
<1>2. /\ Inside' = Inside /\ Sorted' = Sorted
      /\ TotalTo(FirstGrids, usr)' = TotalTo(FirstGrids, usr)
  BY <1>1, InsideUnchanged
<1>3. /\ \A m \in DOMAIN FirstGrids : m \in Nat /\ FirstGrids[m].end \in Nat
      /\ msgPos \in Nat
  <2>1. DOMAIN FirstGrids = 1..Len(FirstGrids) /\ Len(FirstGrids) \in Nat
        /\ msgPos \in 0..Len(FirstGrids)
        /\ \A m \in DOMAIN FirstGrids : FirstGrids[m].end \in Nat
    BY FirstGridsType DEF WindowInv
  <2>2. QED
    BY <2>1
<1>4. Inside \subseteq DOMAIN FirstGrids
  BY DEF Inside
<1>5. ASSUME error' = 0 PROVE \A m \in Inside : m <= msgPos' => m <= msgPos
  <2>1. msgPos + 1 \notin Inside
    BY <1>1, <1>5 DEF Inside
  <2>2. QED
    BY <1>1, <1>3, <1>4, <2>1
<1>6. ASSUME error' = 0, pc' # "loop", Sorted PROVE \A m \in Inside : m <= msgPos'
  <2>1. SUFFICES ASSUME NEW m \in Inside, m > msgPos + 1 PROVE FALSE
    BY <1>1, <1>3, <1>4
  <2>2. FirstGrids[msgPos + 1].end <= FirstGrids[m].end
    BY <1>1, <1>4, <1>6, <2>1 DEF Sorted
  <2>3. d.end > usr.endTime /\ FirstGrids[m].end <= usr.endTime
    BY <1>6 DEF Inside, LiesInside
  <2>4. d.end <= FirstGrids[m].end
    BY <1>1, <2>2
  <2>5. d.end \in Nat /\ FirstGrids[m].end \in Nat
    BY <1>1, <1>3, <1>4
  <2>6. usr.endTime \in Int
    BY WindowsAssumption DEF WindowInv, AddedInv
  <2>7. QED
    BY <2>3, <2>4, <2>5, <2>6
<1>7. AddedInv'
  <2>1. AddedInv
    BY DEF WindowInv
  <2>2. error' = 0 => \A m \in Inside : m <= msgPos' => \E i \in DOMAIN kept : kept[i][2] = m
    BY <1>5, <2>1 DEF AddedInv
  <2>3. usr' \in Windows /\ kept' = kept
    BY <1>1, <2>1 DEF AddedInv
  <2>4. QED
    BY <1>2, <1>6, <2>1, <2>2, <2>3 DEF AddedInv
<1>8. error' = 0 => TotalTo(FirstGrids, usr)[msgPos'] = TotalTo(FirstGrids, usr)[msgPos]
  <2>1. CASE error' = 0
    BY <1>1, <2>1, TotalToNext DEF WindowInv
  <2>2. QED
    BY <2>1
<1>9. TotalInv'
  BY <1>1, <1>2, <1>3, <1>4, <1>8 DEF TotalInv, WindowInv, StartOf, EndOf
<1>10. QED
  BY <1>7, <1>9

(* A step that adds a grid.                                                *)
LEMMA ReadAndAdd ==
    ASSUME OneGridFiles, WindowInv, NEW d \in Field, Accumulate(d)
    PROVE  AddedInv' /\ TotalInv'
<1>1. /\ Iterate(d) /\ InWindow(d)
      /\ kept' = Append(kept, GridRead) /\ UNCHANGED <<pc, error>>
      /\ grib_total' = IF d.val = missPri THEN missPri
                       ELSE (IF grib_total = None THEN 0 ELSE grib_total) + d.val
      /\ firstTime' = IF grib_total = None THEN StartOf(d) ELSE firstTime
      /\ timeRange' = EndOf(d) - firstTime'
  BY Zenon DEF Accumulate
<1>2. /\ msgPos + 1 \in DOMAIN FirstGrids /\ d = FirstGrids[msgPos + 1]
      /\ GridRead = <<1, msgPos + 1, 0>>
      /\ msgPos' = msgPos + 1 /\ FirstGrids' = FirstGrids /\ usr' = usr
  BY <1>1, IterateReads DEF WindowInv
<1>3. /\ Inside' = Inside /\ Sorted' = Sorted
      /\ TotalTo(FirstGrids, usr)' = TotalTo(FirstGrids, usr)
  BY <1>2, InsideUnchanged
<1>4. /\ \A m \in DOMAIN FirstGrids : m \in Nat
      /\ msgPos \in Nat /\ kept \in Seq(Grid) /\ pc = "loop" /\ error = 0
      /\ d.val \in Int /\ missPri \in Int /\ None \notin Int /\ usr \in Windows
      /\ grib_total \in Int \cup {None}
  <2>1. DOMAIN FirstGrids = 1..Len(FirstGrids) /\ Len(FirstGrids) \in Nat
        /\ msgPos \in 0..Len(FirstGrids)
    BY FirstGridsType DEF WindowInv
  <2>2. pc = "loop" /\ error = 0 /\ usr \in Windows
    BY <1>1 DEF Iterate, WindowInv, AddedInv
  <2>3. kept \in Seq(Grid) /\ grib_total \in Int \cup {None}
    BY DEF WindowInv, TypeInv, TypeOK
  <2>4. QED
    BY <2>1, <2>2, <2>3, StormAssumption
<1>5. LiesInside(d, usr) /\ msgPos + 1 \in Inside /\ Inside \subseteq DOMAIN FirstGrids
  BY <1>1, <1>2 DEF Inside, LiesInside, InWindow, StartOf, EndOf
<1>6. PICK n \in Nat : n = Len(kept)
  BY <1>4
<1>7. /\ DOMAIN kept' = DOMAIN kept \cup {n + 1}
      /\ \A i \in DOMAIN kept : kept'[i] = kept[i] /\ i \in 1..n
      /\ kept'[n + 1] = <<1, msgPos + 1, 0>>
      /\ n + 1 \notin DOMAIN kept
      /\ Len(kept') = n + 1 /\ kept' # <<>>
      /\ kept = <<>> <=> n = 0
  <2>1. GridRead \in Grid
    BY <1>1, IterateTypes DEF WindowInv, TypeInv
  <2>2. QED
    BY <1>1, <1>2, <1>4, <1>6, <2>1
<1>8. \A i \in DOMAIN kept : kept[i] = <<1, kept[i][2], 0>> /\ kept[i][2] \in Inside
                             /\ kept[i][2] < msgPos + 1
  BY <1>4, <1>5 DEF WindowInv, AddedInv, KeptInv
<1>9. AddedInv'
  <2>1. ASSUME NEW i \in DOMAIN kept'
        PROVE  kept'[i] = <<1, kept'[i][2], 0>> /\ kept'[i][2] \in Inside
    BY <1>5, <1>7, <1>8
  <2>2. ASSUME NEW i \in DOMAIN kept', NEW j \in DOMAIN kept', i < j
        PROVE  kept'[i][2] < kept'[j][2]
    <3>1. i \in DOMAIN kept
      BY <1>6, <1>7, <2>2
    <3>2. CASE j \in DOMAIN kept
      BY <1>7, <2>2, <3>1, <3>2 DEF WindowInv, AddedInv
    <3>3. CASE j = n + 1
      BY <1>7, <1>8, <3>1, <3>3
    <3>4. QED
      BY <1>7, <3>2, <3>3
  <2>3. ASSUME NEW m \in Inside, m <= msgPos + 1
        PROVE  \E i \in DOMAIN kept' : kept'[i][2] = m
    <3>1. CASE m = msgPos + 1
      BY <1>7, <3>1
    <3>2. CASE m # msgPos + 1
      <4>1. m <= msgPos
        BY <1>4, <1>5, <2>3, <3>2
      <4>2. PICK i \in DOMAIN kept : kept[i][2] = m
        BY <1>4, <4>1 DEF WindowInv, AddedInv
      <4>3. QED
        BY <1>7, <4>2
    <3>3. QED
      BY <3>1, <3>2
  <2>4. pc' = "loop" /\ error' = 0 /\ usr' \in Windows /\ msgPos' = msgPos + 1
    BY <1>1, <1>2, <1>4
  <2>5. QED
    BY <1>3, <2>1, <2>2, <2>3, <2>4 DEF AddedInv
<1>10. grib_total' \in Int
  BY <1>1, <1>4
<1>11. ASSUME \A m \in Inside : m <= msgPos + 1 => FirstGrids[m].val # missPri
       PROVE  TotalTo(FirstGrids, usr)[msgPos + 1] = grib_total'
  <2>1. TotalTo(FirstGrids, usr)[msgPos] = IF kept = <<>> THEN 0 ELSE grib_total
    <3>1. \A m \in Inside : m <= msgPos => FirstGrids[m].val # missPri
      BY <1>4, <1>5, <1>11
    <3>2. QED
      BY <1>4, <3>1 DEF WindowInv, TotalInv
  <2>2. /\ TotalTo(FirstGrids, usr)[msgPos] \in Int
        /\ TotalTo(FirstGrids, usr)[msgPos + 1] = TotalTo(FirstGrids, usr)[msgPos] + d.val
    <3>1. /\ TotalTo(FirstGrids, usr)[msgPos] \in Int
          /\ TotalTo(FirstGrids, usr)[msgPos + 1] =
                TotalTo(FirstGrids, usr)[msgPos] + IF LiesInside(d, usr) THEN d.val ELSE 0
      BY <1>2, TotalToNext, Zenon DEF WindowInv
    <3>2. QED
      BY <1>5, <3>1, Zenon
  <2>3. d.val # missPri
    BY <1>2, <1>4, <1>5, <1>11
  <2>4. kept = <<>> <=> grib_total = None
    BY DEF WindowInv, TotalInv
  <2>5. QED
    BY <1>1, <2>1, <2>2, <2>3, <2>4
<1>12. /\ firstTime' = StartOf(FirstGrids[kept'[1][2]])
       /\ timeRange' = EndOf(FirstGrids[kept'[Len(kept')][2]]) - firstTime'
  <2>1. CASE kept = <<>>
    BY <1>1, <1>2, <1>7, <2>1 DEF WindowInv, TotalInv
  <2>2. CASE kept # <<>>
    <3>1. 1 \in DOMAIN kept /\ grib_total # None
      BY <1>4, <1>6, <1>7, <2>2 DEF WindowInv, TotalInv
    <3>2. QED
      BY <1>1, <1>2, <1>7, <2>2, <3>1 DEF WindowInv, TotalInv
  <2>3. QED
    BY <2>1, <2>2
<1>13. TotalInv'
  <2>1. kept' # <<>> /\ grib_total' # None /\ pc' # "done" /\ msgPos' = msgPos + 1
    BY <1>1, <1>2, <1>4, <1>7, <1>10
  <2>2. StartOf(FirstGrids[kept[1][2]])' = StartOf(FirstGrids[kept'[1][2]])
        /\ EndOf(FirstGrids[kept[Len(kept)][2]])' = EndOf(FirstGrids[kept'[Len(kept')][2]])
    BY <1>2 DEF StartOf, EndOf
  <2>3. QED
    BY <1>2, <1>3, <1>11, <1>12, <2>1, <2>2 DEF TotalInv
<1>14. QED
  BY <1>9, <1>13

LEMMA WindowStep == OneGridFiles /\ WindowInv /\ [Next]_vars => WindowInv'
<1> SUFFICES ASSUME OneGridFiles, WindowInv, [Next]_vars PROVE WindowInv'
  OBVIOUS
<1>1. TypeInv' /\ KeptInv'
  BY TypeStep, KeptStep DEF WindowInv
<1> SUFFICES AddedInv' /\ TotalInv'
  BY <1>1 DEF WindowInv
<1>2. ASSUME UNCHANGED <<files, usr, kept, msgPos, grib_total, firstTime, timeRange>>
      PROVE  /\ FirstGrids' = FirstGrids /\ Inside' = Inside /\ Sorted' = Sorted
             /\ TotalTo(FirstGrids, usr)' = TotalTo(FirstGrids, usr)
             /\ \A i \in DOMAIN kept : /\ StartOf(FirstGrids[kept[i][2]])' = StartOf(FirstGrids[kept[i][2]])
                                       /\ EndOf(FirstGrids[kept[i][2]])' = EndOf(FirstGrids[kept[i][2]])
  <2>1. FirstGrids' = FirstGrids /\ usr' = usr
    BY <1>2 DEF FirstGrids
  <2>2. QED
    BY <1>2, <2>1, InsideUnchanged DEF StartOf, EndOf
<1>3. kept # <<>> => 1 \in DOMAIN kept /\ Len(kept) \in DOMAIN kept
  <2>1. kept \in Seq(Grid)
    BY DEF WindowInv, TypeInv, TypeOK
  <2>2. QED
    BY <2>1
<1>4. CASE UNCHANGED vars
  BY <1>2, <1>3, <1>4 DEF vars, locals, readerVars, WindowInv, AddedInv, TotalInv
<1>5. CASE ReadFails
  <2>1. UNCHANGED <<files, usr, kept, msgPos, grib_total, firstTime, timeRange>>
        /\ pc' = "after" /\ error' = 1
    BY <1>5 DEF ReadFails, LeaveLoop, readerVars, locals
  <2>2. QED
    BY <1>2, <1>3, <2>1 DEF WindowInv, AddedInv, TotalInv
<1>6. CASE EndOfFile
  <2>1. UNCHANGED <<files, usr, kept, msgPos, grib_total, firstTime, timeRange>>
        /\ pc = "loop" /\ pc' = "after" /\ error' = error
    BY <1>6 DEF EndOfFile, LeaveLoop, readerVars, locals
  <2>2. msgPos = Len(files[1])
    BY <1>6 DEF EndOfFile, LoopAgain, AtEOF, WindowInv, TypeInv, IterateInv
  <2>3. \A m \in Inside : m <= msgPos
    <3>1. DOMAIN FirstGrids = 1..Len(FirstGrids) /\ Len(FirstGrids) = Len(files[1])
      BY FirstGridsType DEF WindowInv
    <3>2. QED
      BY <2>2, <3>1 DEF Inside
  <2>4. QED
    BY <1>2, <1>3, <2>1, <2>3 DEF WindowInv, AddedInv, TotalInv
<1>7. CASE Conclude
  <2>1. UNCHANGED <<files, usr, kept, msgPos, grib_total, firstTime, timeRange>>
        /\ pc = "after" /\ pc' = "done"
    BY <1>7 DEF Conclude, readerVars, locals
  <2>2. error' = 0 => /\ error = 0
                      /\ converted' = [total |-> grib_total, validTime |-> firstTime + timeRange,
                                       lenTime |-> timeRange]
    BY <1>7 DEF Conclude, AfterError
  <2>3. QED
    BY <1>2, <1>3, <2>1, <2>2 DEF WindowInv, AddedInv, TotalInv
<1>8. ASSUME NEW d \in Field, NotUsable(d) \/ Mismatch(d) PROVE AddedInv' /\ TotalInv'
  <2>1. /\ Iterate(d) /\ pc' = "after" /\ error' # 0
        /\ UNCHANGED <<kept, grib_total, firstTime, timeRange>>
    BY <1>8 DEF NotUsable, Mismatch, LeaveLoop
  <2>2. QED
    BY <2>1, ReadAndSkip
<1>9. ASSUME NEW d \in Field, PastTheEnd(d) PROVE AddedInv' /\ TotalInv'
  <2>1. /\ Iterate(d) /\ pc' = "after" /\ error' = error /\ d.end > usr.endTime
        /\ UNCHANGED <<kept, grib_total, firstTime, timeRange>>
    BY <1>9 DEF PastTheEnd, LeaveLoop, EndOf
  <2>2. d.end \in Nat /\ usr.endTime \in Nat
    BY StormAssumption, WindowsAssumption DEF WindowInv, AddedInv
  <2>3. ~LiesInside(d, usr)
    BY <2>1, <2>2 DEF LiesInside
  <2>4. QED
    BY <2>1, <2>3, ReadAndSkip
<1>10. ASSUME NEW d \in Field, TooEarly(d) PROVE AddedInv' /\ TotalInv'
  <2>1. /\ Iterate(d) /\ pc' = "loop" /\ error' = 0 /\ error = 0
        /\ d.end - d.len < usr.startTime
        /\ UNCHANGED <<kept, grib_total, firstTime, timeRange>>
    BY <1>10 DEF TooEarly, Iterate, StartOf, WindowInv, AddedInv
  <2>2. d.end \in Nat /\ d.len \in Int /\ usr.startTime \in Nat
    BY StormAssumption, WindowsAssumption DEF WindowInv, AddedInv
  <2>3. ~LiesInside(d, usr)
    BY <2>1, <2>2 DEF LiesInside
  <2>4. QED
    BY <2>1, <2>3, ReadAndSkip
<1>11. QED
  BY <1>4, <1>5, <1>6, <1>7, <1>8, <1>9, <1>10, ReadAndAdd DEF Next, Terminated

LEMMA WindowInit == OneGridFiles /\ Init => WindowInv
<1> SUFFICES ASSUME OneGridFiles, Init PROVE WindowInv
  OBVIOUS
<1>1. TypeInv /\ KeptInv
  BY TypeInit DEF Init, KeptInv
<1>2. /\ usr \in Windows /\ pc = "loop" /\ error = 0 /\ kept = <<>> /\ grib_total = None
      /\ msgPos = 0
  BY DEF Init
<1>3. \A m \in Inside : ~(m <= msgPos)
  <2>1. DOMAIN FirstGrids = 1..Len(FirstGrids) /\ Len(FirstGrids) \in Nat
    BY <1>1, FirstGridsType
  <2>2. QED
    BY <1>2, <2>1 DEF Inside
<1>4. AddedInv
  BY <1>2, <1>3 DEF AddedInv
<1>5. TotalTo(FirstGrids, usr)[0] = 0
  <2>1. Len(FirstGrids) \in Nat /\ \A m \in 1..Len(FirstGrids) : FirstGrids[m].val \in Int
    BY <1>1, FirstGridsType
  <2>2. QED
    BY <2>1, TotalToSums
<1>6. TotalInv
  BY <1>2, <1>5 DEF TotalInv
<1>7. QED
  BY <1>1, <1>4, <1>6 DEF WindowInv

(* Nothing is added behind the last message that was read.                 *)
LEMMA NothingBehind ==
    ASSUME TypeInv, OneGridFiles, \A m \in Inside : m <= msgPos
    PROVE  TotalTo(FirstGrids, usr)[Len(FirstGrids)] = TotalTo(FirstGrids, usr)[msgPos]
<1> DEFINE t == TotalTo(FirstGrids, usr)
<1>1. PICK N \in Nat : N = Len(FirstGrids)
  BY FirstGridsType
<1>2. PICK p \in 0..N : p = msgPos
  BY <1>1, FirstGridsType
<1>3. DOMAIN FirstGrids = 1..N
  BY <1>1, FirstGridsType
<1>4. ASSUME NEW m \in 1..N, m > p PROVE t[m] = t[m - 1]
  <2>1. ~LiesInside(FirstGrids[m], usr)
    BY <1>1, <1>2, <1>3, <1>4 DEF Inside
  <2>2. \A k \in 1..Len(FirstGrids) : FirstGrids[k].val \in Int
    BY <1>1, <1>3, FirstGridsType
  <2>3. /\ t[m - 1] \in Int
        /\ t[m] = t[m - 1] + IF LiesInside(FirstGrids[m], usr) THEN FirstGrids[m].val ELSE 0
    <3>1. m - 1 \in 0..Len(FirstGrids) /\ m \in 1..Len(FirstGrids) /\ Len(FirstGrids) \in Nat
      BY <1>1, <1>2, <1>4
    <3>2. QED
      BY <2>2, <3>1, TotalToSums
  <2>4. QED
    BY <2>1, <2>3
<1> HIDE DEF t
<1> DEFINE S == {n \in Nat : p + n <= N => t[p + n] = t[p]}
<1>5. 0 \in S
  BY <1>2
<1>6. ASSUME NEW n \in Nat, n \in S PROVE n + 1 \in S
  <2>1. CASE p + (n + 1) <= N
    <3>1. p + (n + 1) \in 1..N /\ p + (n + 1) > p /\ (p + (n + 1)) - 1 = p + n /\ p + n <= N
      BY <1>2, <2>1
    <3>2. t[p + (n + 1)] = t[p + n]
      BY <1>4, <3>1
    <3>3. QED
      BY <1>6, <3>1, <3>2
  <2>2. QED
    BY <2>1
<1>7. N - p \in Nat /\ p + (N - p) = N
  BY <1>2
<1>8. N - p \in S
  <2> HIDE DEF S
  <2>1. QED
    BY <1>5, <1>6, <1>7, NatInSet
<1>9. t[N] = t[p]
  BY <1>7, <1>8
<1>10. QED
  BY <1>1, <1>2, <1>9 DEF t

(* Of a sorted file of one-grid messages, of any length and for any        *)
(* window, exactly the messages inside the window are added, in order,     *)
(* the total is their sum, and it is labelled with their time range.       *)
THEOREM TotalsInside ==
    ASSUME OneGridFiles
    PROVE  Spec => []TotalsTheWindow
<1>1. ASSUME WindowInv PROVE TotalsTheWindow
  <2>1. SUFFICES ASSUME Ended, Sorted
                 PROVE  /\ {kept[i] : i \in DOMAIN kept} = {<<1, m, 0>> : m \in Inside}
                        /\ \A i, j \in DOMAIN kept : i < j => kept[i][2] < kept[j][2]
                        /\ Inside # {} /\ (\A m \in Inside : FirstGrids[m].val # missPri)
                              => converted.total = TotalTo(FirstGrids, usr)[Len(FirstGrids)]
                        /\ \A m \in Inside :
                             /\ (\A n \in Inside : n <= m)
                                   => converted.validTime = FirstGrids[m].end
                             /\ (\A n \in Inside : m <= n)
                                   => converted.validTime - converted.lenTime
                                        = FirstGrids[m].end - FirstGrids[m].len
    BY Zenon DEF TotalsTheWindow, Inside
  <2>2. /\ pc = "done" /\ error = 0
        /\ \A m \in Inside : m <= msgPos
        /\ converted = [total |-> grib_total, validTime |-> firstTime + timeRange,
                        lenTime |-> timeRange]
    BY <1>1, <2>1 DEF Ended, WindowInv, AddedInv, TotalInv
  <2>3. \A m \in Inside : \E i \in DOMAIN kept : kept[i][2] = m
    BY <1>1, <2>2 DEF WindowInv, AddedInv
  <2>4. \A i \in DOMAIN kept : kept[i] = <<1, kept[i][2], 0>> /\ kept[i][2] \in Inside
    BY <1>1 DEF WindowInv, AddedInv
  <2>5. \A i, j \in DOMAIN kept : i < j => kept[i][2] < kept[j][2]
    BY <1>1 DEF WindowInv, AddedInv
  <2>6. {kept[i] : i \in DOMAIN kept} = {<<1, m, 0>> : m \in Inside}
    BY <2>3, <2>4
  <2>7. kept \in Seq(Grid) /\ DOMAIN kept = 1..Len(kept) /\ Len(kept) \in Nat
    BY <1>1 DEF WindowInv, TypeInv, TypeOK
  <2>8. ASSUME Inside # {}, \A m \in Inside : FirstGrids[m].val # missPri
        PROVE  converted.total = TotalTo(FirstGrids, usr)[Len(FirstGrids)]
    <3>1. kept # <<>>
      BY <2>3, <2>7, <2>8
    <3>2. TotalTo(FirstGrids, usr)[msgPos] = grib_total
      BY <1>1, <2>2, <2>8, <3>1 DEF WindowInv, TotalInv
    <3>3. QED
      BY <1>1, <2>2, <3>2, NothingBehind DEF WindowInv
  <2>9. ASSUME NEW m \in Inside
        PROVE  /\ (\A n \in Inside : n <= m) => converted.validTime = FirstGrids[m].end
               /\ (\A n \in Inside : m <= n) => converted.validTime - converted.lenTime
                                                  = FirstGrids[m].end - FirstGrids[m].len
    <3>1. \A n \in Inside : n \in Nat /\ n \in DOMAIN FirstGrids
      BY <1>1, FirstGridsType DEF Inside, WindowInv
    <3>2. PICK i \in DOMAIN kept : kept[i][2] = m
      BY <2>3
    <3>3. 1 \in DOMAIN kept /\ Len(kept) \in DOMAIN kept /\ kept # <<>>
      BY <2>7, <3>2
    <3>4. /\ firstTime = FirstGrids[kept[1][2]].end - FirstGrids[kept[1][2]].len
          /\ timeRange = FirstGrids[kept[Len(kept)][2]].end - firstTime
      BY <1>1, <3>3 DEF WindowInv, TotalInv, StartOf, EndOf
    <3>5. kept[1][2] \in Inside /\ kept[Len(kept)][2] \in Inside
      BY <2>4, <3>3
    <3>6. \A n \in Inside : FirstGrids[n].end \in Int /\ FirstGrids[n].len \in Int
      <4>1. \A n \in DOMAIN FirstGrids : FirstGrids[n].end \in Nat /\ FirstGrids[n].len \in Int
        BY <1>1, FirstGridsType DEF WindowInv
      <4>2. QED
        BY <3>1, <4>1
    <3>7. firstTime \in Int /\ timeRange \in Int
          /\ firstTime + timeRange = FirstGrids[kept[Len(kept)][2]].end
          /\ (firstTime + timeRange) - timeRange = firstTime
      <4>1. PICK a \in Inside, b \in Inside : a = kept[1][2] /\ b = kept[Len(kept)][2]
        BY <3>5
      <4>2. /\ FirstGrids[a].end \in Int /\ FirstGrids[a].len \in Int
            /\ FirstGrids[b].end \in Int
        BY <3>6
      <4>3. firstTime = FirstGrids[a].end - FirstGrids[a].len
            /\ timeRange = FirstGrids[b].end - firstTime
        BY <3>4, <4>1
      <4>4. PICK e1 \in Int, l1 \in Int, e2 \in Int :
               e1 = FirstGrids[a].end /\ l1 = FirstGrids[a].len /\ e2 = FirstGrids[b].end
        BY <4>2
      <4>5. firstTime = e1 - l1 /\ timeRange = e2 - (e1 - l1)
        BY <4>3, <4>4
      <4>6. FirstGrids[kept[Len(kept)][2]].end = e2
        BY <4>1, <4>4
      <4>7. QED
        BY <4>5, <4>6
    <3>8. ASSUME \A n \in Inside : n <= m PROVE converted.validTime = FirstGrids[m].end
      <4>1. i = Len(kept)
        <5>1. ~(i < Len(kept))
          BY <2>5, <3>1, <3>2, <3>3, <3>5, <3>8
        <5>2. QED
          BY <2>7, <5>1
      <4>2. QED
        BY <2>2, <3>2, <3>7, <4>1
    <3>9. ASSUME \A n \in Inside : m <= n
          PROVE  converted.validTime - converted.lenTime = FirstGrids[m].end - FirstGrids[m].len
      <4>1. i = 1
        <5>1. ~(1 < i)
          BY <2>5, <3>1, <3>2, <3>3, <3>5, <3>9
        <5>2. QED
          BY <2>7, <5>1
      <4>2. QED
        BY <2>2, <3>2, <3>4, <3>7, <4>1
    <3>10. QED
      BY <3>8, <3>9
  <2>10. QED
    BY <2>5, <2>6, <2>8, <2>9
<1>2. QED
  BY <1>1, WindowInit, WindowStep, PTL DEF Spec
(***************************************************************************)
(* Whether there is anything to convert.                                   *)
(***************************************************************************)

NoneFound == \/ msgEnd = 0
             \/ msgEnd < usr.startTime
             \/ msgEnd > usr.endTime /\ ~f_haveMsg

(* In a file that can be added up the loop never fails: msgEnd is the end  *)
(* of the last message read, which is the last of the file or past the     *)
(* window, and f_haveMsg tells whether a grid was added.                   *)
LoopInv == /\ f_haveMsg <=> kept # <<>>
           /\ msgEnd = IF msgPos = 0 THEN 0 ELSE FirstGrids[msgPos].end
           /\ grib_total # None => prev_element = FirstGrids[1].element
           /\ firstTime \in Int /\ timeRange \in Int
           /\ pc # "done" => error = 0 /\ converted = None
           /\ pc # "loop" => msgEnd > usr.endTime \/ msgPos = Len(FirstGrids)
           /\ pc # "loop" => (Inside = {} <=> kept = <<>>)

EndInv == pc = "done" =>
            IF NoneFound
            THEN error = 2 /\ converted = None
            ELSE /\ error \in {0, 1}
                 /\ converted = [total |-> grib_total, validTime |-> firstTime + timeRange,
                                 lenTime |-> timeRange]

DecisionInv == WindowInv /\ (AllAddable => LoopInv /\ EndInv)

(* The next message of such a file can be read.                            *)
LEMMA LoopReads ==
    ASSUME OneGridFiles, WindowInv, AllAddable, LoopAgain
    PROVE  /\ msgPos + 1 \in DOMAIN FirstGrids
           /\ ReadSucceeds
           /\ SourceMsg.ver = 2
<1>1. /\ inName = 1 /\ f_endMsg = 1 /\ subgNum = 0 /\ files \in FileLists
      /\ msgPos # Len(files[1])
  BY DEF WindowInv, TypeInv, IterateInv, ReaderTypeOK, KeptInv, LoopAgain, AtEOF
<1>2. msgPos + 1 \in DOMAIN FirstGrids /\ msgPos + 1 \in 1..Len(files[1])
  BY <1>1, FirstGridsType DEF WindowInv
<1>3. Source = <<1, msgPos + 1>> /\ SourceMsg = files[1][msgPos + 1]
  BY <1>1 DEF Source, SourceMsg
<1>4. SourceMsg.ver = 2 /\ SourceMsg.sect0 /\ SourceMsg.intact > 0
  BY <1>2, <1>3 DEF AllAddable
<1>5. Len(SourceMsg.grids) = 1
  <2>1. 1 \in 1..Len(files)
    BY <1>1, FilesType, StormAssumption
  <2>2. QED
    BY <1>1, <1>2, <1>3, <2>1 DEF OneGridFiles
<1>6. QED
  BY <1>1, <1>2, <1>4, <1>5 DEF ReadSucceeds, Wanted, AtEOF

(* What an iteration over such a file does: it reads the next message,     *)
(* which is usable and of the same element as the first.                   *)
LEMMA IterateAddable ==
    ASSUME OneGridFiles, WindowInv, AllAddable, LoopInv, NEW d \in Field, Iterate(d)
    PROVE  /\ IsUsable(d) /\ d.element = FirstGrids[1].element
           /\ error = 0 /\ converted' = None
           /\ msgPos \in Nat /\ msgPos' = msgPos + 1
           /\ msgPos + 1 \in DOMAIN FirstGrids /\ d = FirstGrids[msgPos + 1]
           /\ FirstGrids' = FirstGrids /\ usr' = usr /\ Inside' = Inside /\ usr \in Windows
<1>1. /\ msgPos + 1 \in DOMAIN FirstGrids /\ d = FirstGrids[msgPos + 1]
      /\ msgPos' = msgPos + 1 /\ FirstGrids' = FirstGrids /\ usr' = usr
  BY IterateReads DEF WindowInv
<1>2. SourceMsg.ver = 2
  BY LoopReads DEF Iterate
<1>3. d.single /\ d.element = FirstGrids[1].element
  BY <1>1 DEF AllAddable
<1>4. error = 0 /\ converted' = None
  BY DEF Iterate, LoopInv
<1>5. msgPos \in Nat
  BY DEF WindowInv, TypeInv, TypeOK, ReaderTypeOK
<1>6. usr \in Windows
  BY DEF WindowInv, AddedInv
<1>7. QED
  BY <1>1, <1>2, <1>3, <1>4, <1>5, <1>6, InsideUnchanged DEF IsUsable

(* When the loop has ended without an error, what lies inside the window   *)
(* has been added.                                                         *)
AllAdded == WindowInv /\ Sorted /\ pc # "loop" /\ error = 0 => (Inside = {} <=> kept = <<>>)

LEMMA AddedWhenEnded == AllAdded
<1> SUFFICES ASSUME WindowInv, Sorted, pc # "loop", error = 0
             PROVE  Inside = {} <=> kept = <<>>
  BY DEF AllAdded
<1>1. kept \in Seq(Grid)
  BY DEF WindowInv, TypeInv, TypeOK
<1>2. kept # <<>> => kept[1][2] \in Inside
  <2>1. kept # <<>> => 1 \in DOMAIN kept
    BY <1>1
  <2>2. QED
    BY <2>1 DEF WindowInv, AddedInv
<1>3. \A m \in Inside : \E i \in DOMAIN kept : kept[i][2] = m
  BY DEF WindowInv, AddedInv
<1>4. QED
  BY <1>2, <1>3

LEMMA AddedWhenEndedNext == AllAdded'
  BY AddedWhenEnded, PTL

LEMMA DecisionInit == OneGridFiles /\ Init => DecisionInv
<1> SUFFICES ASSUME OneGridFiles, Init PROVE DecisionInv
  OBVIOUS
<1>1. WindowInv
  BY WindowInit
<1>2. LoopInv /\ EndInv
  BY DEF Init, LoopInv, EndInv
<1>3. QED
  BY <1>1, <1>2 DEF DecisionInv

LEMMA DecisionStep == OneGridFiles /\ DecisionInv /\ [Next]_vars => DecisionInv'
<1> SUFFICES ASSUME OneGridFiles, DecisionInv, [Next]_vars PROVE DecisionInv'
  OBVIOUS
<1>1. WindowInv /\ WindowInv'
  BY WindowStep DEF DecisionInv
<1>2. files' = files
  BY DEF Next, vars, readerVars, ReadFails, EndOfFile, Conclude, Terminated, NotUsable, PastTheEnd,
         TooEarly, Mismatch, Accumulate, Iterate, ReadGrib2Record
<1>3. FirstGrids' = FirstGrids /\ AllAddable' = AllAddable /\ Sorted' = Sorted
  BY <1>2 DEF FirstGrids, AllAddable, Sorted
<1>4. SUFFICES ASSUME AllAddable PROVE LoopInv' /\ EndInv'
  BY <1>1, <1>3 DEF DecisionInv
<1>5. LoopInv /\ EndInv /\ Sorted /\ usr \in Windows
  BY <1>4 DEF DecisionInv, AllAddable, WindowInv, AddedInv
<1>6. pc' # "loop" /\ error' = 0 => (Inside' = {} <=> kept' = <<>>)
  BY <1>1, <1>3, <1>5, AddedWhenEndedNext DEF AllAdded
<1>7. CASE UNCHANGED vars
  <2>1. NoneFound' = NoneFound /\ Inside' = Inside
    BY <1>3, <1>7 DEF vars, locals, NoneFound, Inside
  <2>2. QED
    BY <1>3, <1>5, <1>7, <2>1 DEF vars, locals, readerVars, LoopInv, EndInv
<1>8. ~ReadFails
  BY <1>1, <1>4, LoopReads DEF ReadFails
<1>9. CASE EndOfFile
  <2>1. /\ pc = "loop" /\ pc' = "after" /\ error' = error
        /\ UNCHANGED <<msgPos, usr, converted, locals>>
    BY <1>9 DEF EndOfFile, LeaveLoop, readerVars
  <2>2. msgPos = Len(FirstGrids)
    <3>1. msgPos = Len(files[1])
      BY <1>1, <1>9 DEF EndOfFile, LoopAgain, AtEOF, WindowInv, TypeInv, IterateInv
    <3>2. QED
      BY <1>1, <3>1, FirstGridsType DEF WindowInv
  <2>3. QED
    BY <1>3, <1>5, <1>6, <2>1, <2>2 DEF locals, LoopInv, EndInv
<1>10. CASE Conclude
  <2>1. /\ pc = "after" /\ pc' = "done" /\ error = 0 /\ converted = None
        /\ UNCHANGED <<msgPos, usr, locals>>
    BY <1>5, <1>10 DEF Conclude, readerVars, LoopInv
  <2>2. NoneFound' = NoneFound /\ Inside' = Inside
    BY <1>3, <2>1 DEF locals, NoneFound, Inside
  <2>3. AfterError = IF NoneFound THEN 2 ELSE 0
    BY <2>1 DEF AfterError, NoneFound
  <2>4. IF NoneFound THEN error' = 2 /\ converted' = None
        ELSE /\ error' \in {0, 1}
             /\ converted' = [total |-> grib_total, validTime |-> firstTime + timeRange,
                              lenTime |-> timeRange]
    BY <1>10, <2>1, <2>3 DEF Conclude
  <2>5. LoopInv'
    BY <1>3, <1>5, <2>1, <2>2 DEF locals, LoopInv
  <2>6. QED
    BY <2>1, <2>2, <2>4, <2>5 DEF locals, EndInv
<1>11. ASSUME NEW d \in Field PROVE ~NotUsable(d) /\ ~Mismatch(d)
  <2>1. Iterate(d) => IsUsable(d) /\ d.element = FirstGrids[1].element
    BY <1>1, <1>4, <1>5, IterateAddable
  <2>2. QED
    BY <1>5, <2>1 DEF NotUsable, Mismatch, LoopInv
<1>12. ASSUME NEW d \in Field, PastTheEnd(d) PROVE LoopInv' /\ EndInv'
  <2>1. /\ Iterate(d) /\ pc' = "after" /\ error' = error /\ d.end > usr.endTime /\ msgEnd' = d.end
        /\ UNCHANGED <<f_haveMsg, grib_total, prev_element, firstTime, timeRange, kept>>
    BY <1>12 DEF PastTheEnd, LeaveLoop, EndOf
  <2>2. /\ error = 0 /\ converted' = None /\ usr' = usr
        /\ msgPos \in Nat /\ msgPos' = msgPos + 1 /\ d = FirstGrids[msgPos + 1]
    BY <1>1, <1>4, <1>5, <2>1, IterateAddable
  <2>3. QED
    BY <1>3, <1>5, <1>6, <2>1, <2>2 DEF LoopInv, EndInv
<1>13. ASSUME NEW d \in Field, TooEarly(d) PROVE LoopInv' /\ EndInv'
  <2>1. /\ Iterate(d) /\ pc = "loop" /\ pc' = pc /\ error' = error /\ msgEnd' = d.end
        /\ UNCHANGED <<f_haveMsg, grib_total, prev_element, firstTime, timeRange, kept>>
    BY <1>13 DEF TooEarly, EndOf, Iterate
  <2>2. /\ error = 0 /\ converted' = None
        /\ msgPos \in Nat /\ msgPos' = msgPos + 1 /\ d = FirstGrids[msgPos + 1]
    BY <1>1, <1>4, <1>5, <2>1, IterateAddable
  <2>3. QED
    BY <1>3, <1>5, <2>1, <2>2 DEF LoopInv, EndInv
<1>14. ASSUME NEW d \in Field, Accumulate(d) PROVE LoopInv' /\ EndInv'
  <2>1. /\ Iterate(d) /\ pc = "loop" /\ pc' = pc /\ error' = error /\ msgEnd' = d.end
        /\ f_haveMsg' = TRUE
        /\ kept' = Append(kept, GridRead)
        /\ prev_element' = IF grib_total = None THEN d.element ELSE prev_element
        /\ firstTime' = IF grib_total = None THEN StartOf(d) ELSE firstTime
        /\ timeRange' = d.end - firstTime'
    BY <1>14 DEF Accumulate, EndOf, Iterate
  <2>2. /\ error = 0 /\ converted' = None /\ d.element = FirstGrids[1].element
        /\ msgPos \in Nat /\ msgPos' = msgPos + 1 /\ d = FirstGrids[msgPos + 1]
    BY <1>1, <1>4, <1>5, <2>1, IterateAddable
  <2>3. kept' # <<>>
    <3>1. kept \in Seq(Grid)
      BY <1>1 DEF WindowInv, TypeInv, TypeOK
    <3>2. QED
      BY <2>1, <3>1
  <2>4. firstTime' \in Int /\ timeRange' \in Int
    <3>1. d.end \in Int /\ d.len \in Int
      BY StormAssumption
    <3>2. firstTime' \in Int
      BY <1>5, <2>1, <3>1 DEF LoopInv, StartOf
    <3>3. QED
      BY <2>1, <3>1, <3>2
  <2>5. QED
    BY <1>3, <1>5, <2>1, <2>2, <2>3, <2>4 DEF LoopInv, EndInv
<1>15. QED
  BY <1>7, <1>8, <1>9, <1>10, <1>11, <1>12, <1>13, <1>14 DEF Next, Terminated

(* msgEnd, of the last message that was read, decides rightly.             *)
LEMMA DecidesRightly ==
    ASSUME OneGridFiles, WindowInv, AllAddable, LoopInv, pc = "done"
    PROVE  ~NoneFound <=> Inside # {} \/ EndsAcrossTheStart(usr)
<1>1. PICK L \in Nat : L = Len(FirstGrids)
  BY FirstGridsType DEF WindowInv
<1>2. DOMAIN FirstGrids = 1..L /\ msgPos \in 0..L
  BY <1>1, FirstGridsType DEF WindowInv
<1>3. \A m \in 1..L : FirstGrids[m].end \in Nat /\ FirstGrids[m].len \in Int /\ FirstGrids[m].len >= 0
  BY <1>2, FirstGridsType DEF WindowInv, AllAddable
<1>4. \A m, n \in 1..L : m <= n => FirstGrids[m].end <= FirstGrids[n].end
  <2>1. \A m, n \in 1..L : m < n => FirstGrids[m].end <= FirstGrids[n].end
    BY <1>2 DEF AllAddable, Sorted
  <2>2. \A m, n \in 1..L : m <= n => m < n \/ m = n
    BY <1>1
  <2>3. QED
    BY <1>3, <2>1, <2>2
<1>5. PICK a, b \in Nat : a = usr.startTime /\ b = usr.endTime /\ a > 0 /\ b >= a
  BY WindowsAssumption DEF WindowInv, AddedInv
<1>6. /\ msgEnd = IF msgPos = 0 THEN 0 ELSE FirstGrids[msgPos].end
      /\ msgEnd > b \/ msgPos = L
      /\ f_haveMsg <=> Inside # {}
  BY <1>1, <1>5 DEF LoopInv
<1>7. ASSUME EndsAcrossTheStart(usr) PROVE ~NoneFound
  <2>1. /\ FirstGrids # <<>>
        /\ a <= FirstGrids[L].end /\ FirstGrids[L].end <= b
    BY <1>1, <1>5, <1>7 DEF EndsAcrossTheStart
  <2>2. L \in 1..L
    BY <1>1, <1>2, <2>1 DEF FirstGrids
  <2>3. msgPos = L
    BY <1>2, <1>3, <1>4, <1>5, <1>6, <2>1, <2>2
  <2>4. msgEnd = FirstGrids[L].end
    BY <1>6, <2>2, <2>3
  <2>5. QED
    BY <1>3, <1>5, <2>1, <2>2, <2>4 DEF NoneFound
<1>8. ASSUME Inside # {} PROVE ~NoneFound
  <2>1. kept # <<>>
    BY <1>8 DEF LoopInv
  <2>2. 1 \in DOMAIN kept
    BY <2>1 DEF WindowInv, TypeInv, TypeOK
  <2>3. PICK k : k = kept[1][2] /\ k \in Inside /\ k <= msgPos
    BY <2>2 DEF WindowInv, AddedInv, KeptInv
  <2>4. k \in 1..L /\ a <= FirstGrids[k].end - FirstGrids[k].len
    BY <1>2, <1>5, <2>3 DEF Inside, LiesInside
  <2>5. a <= FirstGrids[k].end
    BY <1>3, <1>5, <2>4
  <2>6. msgPos \in 1..L
    BY <1>2, <2>3, <2>4
  <2>7. FirstGrids[k].end <= FirstGrids[msgPos].end
    BY <1>4, <2>3, <2>4, <2>6
  <2>8. msgEnd = FirstGrids[msgPos].end
    BY <1>6, <2>6
  <2>9. msgEnd \in Nat /\ a <= msgEnd
    BY <1>3, <1>5, <2>4, <2>5, <2>6, <2>7, <2>8
  <2>10. QED
    BY <1>5, <1>6, <1>8, <2>9 DEF NoneFound
<1>9. ASSUME ~NoneFound, Inside = {} PROVE EndsAcrossTheStart(usr)
  <2>1. msgEnd # 0 /\ ~(msgEnd < a) /\ ~(msgEnd > b)
    BY <1>5, <1>6, <1>9 DEF NoneFound
  <2>2. msgPos = L /\ L \in 1..L /\ msgEnd = FirstGrids[L].end
    BY <1>2, <1>6, <2>1
  <2>3. ~LiesInside(FirstGrids[L], usr)
    BY <1>2, <1>9, <2>2 DEF Inside
  <2>4. a <= FirstGrids[L].end /\ FirstGrids[L].end <= b
    BY <1>3, <1>5, <2>1, <2>2
  <2>5. FirstGrids[L].end - FirstGrids[L].len < a
    BY <1>3, <1>5, <2>2, <2>3, <2>4 DEF LiesInside
  <2>6. FirstGrids # <<>>
    BY <1>1, <2>2
  <2>7. QED
    BY <1>1, <1>5, <2>4, <2>5, <2>6 DEF EndsAcrossTheStart
<1>10. QED
  BY <1>7, <1>8, <1>9

(* Of a file that can be added up, of any length and for any window,       *)
(* MainConvert is called when a message lies inside the window, or the     *)
(* file ends across its start, and otherwise an empty window is reported.  *)
THEOREM TellsWhenEmpty ==
    ASSUME OneGridFiles
    PROVE  Spec => []TellsAnEmptyWindow
<1>1. ASSUME DecisionInv PROVE TellsAnEmptyWindow
  <2>1. SUFFICES ASSUME pc = "done", AllAddable
                 PROVE  /\ converted # None <=> Inside # {} \/ EndsAcrossTheStart(usr)
                        /\ error = 2 <=> converted = None
                        /\ converted # None => (converted.total = None <=> Inside = {})
    <3>1. (\A m \in DOMAIN FirstGrids : ~LiesInside(FirstGrids[m], usr)) <=> Inside = {}
      BY DEF Inside
    <3>2. QED
      BY <3>1 DEF TellsAnEmptyWindow
  <2>2. WindowInv /\ LoopInv /\ EndInv
    BY <1>1, <2>1 DEF DecisionInv
  <2>3. ~NoneFound <=> Inside # {} \/ EndsAcrossTheStart(usr)
    BY <2>1, <2>2, DecidesRightly
  <2>4. grib_total = None <=> Inside = {}
    BY <2>1, <2>2 DEF WindowInv, TotalInv, LoopInv
  <2>5. CASE NoneFound
    BY <2>1, <2>2, <2>3, <2>5 DEF EndInv
  <2>6. CASE ~NoneFound
    <3>1. /\ error \in {0, 1}
          /\ converted = [total |-> grib_total, validTime |-> firstTime + timeRange,
                          lenTime |-> timeRange]
      BY <2>1, <2>2, <2>6 DEF EndInv
    <3>2. firstTime + timeRange \in Int /\ timeRange \in Int /\ grib_total \in Int \cup {None}
      BY <2>2 DEF LoopInv, WindowInv, TypeInv, TypeOK
    <3>3. converted \in [total : Int \cup {None}, validTime : Int, lenTime : Int]
      BY <3>1, <3>2
    <3>4. converted # None
      BY <3>3, StormAssumption
    <3>5. QED
      BY <2>3, <2>4, <2>6, <3>1, <3>4
  <2>7. QED
    BY <2>5, <2>6
<1>2. QED
  BY <1>1, DecisionInit, DecisionStep, PTL DEF Spec
===============================================================================
