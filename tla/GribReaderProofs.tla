--------------------------- MODULE GribReaderProofs ---------------------------
(***************************************************************************)
(* What every caller of the message reader relies on, for any input files: *)
(* ReadGrib2Record returns a grid that is in the files, and keeps the      *)
(* reader's state in order.                                                *)
(***************************************************************************)
EXTENDS GribReader, TLAPS

(* The files are sequences of sequences of messages.                       *)
LEMMA FilesType ==
    ASSUME NEW fl \in FileLists
    PROVE  /\ fl \in Seq(Seq(Message))
           /\ \A f \in 1..Len(fl) : fl[f] \in Seq(Message)
           /\ \A f \in 1..Len(fl) : \A m \in 1..Len(fl[f]) :
                 /\ fl[f][m] \in Message
                 /\ Len(fl[f][m].grids) \in Nat \ {0}
                 /\ fl[f][m].ver # 2 => Len(fl[f][m].grids) = 1
<1>1. fl \in Seq(Seq(Message))
  BY FileListsAssumption
<1>2. ASSUME NEW f \in 1..Len(fl) PROVE fl[f] \in Seq(Message)
  BY <1>1
<1>3. ASSUME NEW f \in 1..Len(fl), NEW m \in 1..Len(fl[f])
      PROVE  /\ fl[f][m] \in Message
             /\ Len(fl[f][m].grids) \in Nat \ {0}
             /\ fl[f][m].ver # 2 => Len(fl[f][m].grids) = 1
  <2>1. fl[f][m] \in Message
    BY <1>2
  <2>2. fl[f][m].grids \in Seq(Field)
    BY <2>1 DEF Message
  <2>3. Len(fl[f][m].grids) \in Nat
    BY <2>2
  <2>4. Len(fl[f][m].grids) > 0 /\ (fl[f][m].ver # 2 => Len(fl[f][m].grids) = 1)
    BY FileListsAssumption, Zenon
  <2>5. Len(fl[f][m].grids) \in Nat \ {0}
    BY <2>3, <2>4
  <2>6. QED
    BY <2>1, <2>4, <2>5
<1>4. QED
  BY <1>1, <1>2, <1>3

(* A grid that is in the files has its data there.                         *)
LEMMA GridData ==
    ASSUME NEW fl \in FileLists, NEW f \in 1..Len(fl), NEW m \in 1..Len(fl[f]),
           NEW s \in 0..(NumGrids(fl, f, m) - 1)
    PROVE  /\ <<f, m, s>> \in GridsOf(fl)
           /\ <<f, m, s>> \in Grid
           /\ FieldOf(fl, <<f, m, s>>) \in Field
           /\ fl[f][m].ver \in {-1, 1, 2}
<1>1. fl[f][m] \in Message /\ Len(fl[f][m].grids) \in Nat
  BY FilesType
<1>2. fl[f][m].grids \in Seq(Field) /\ fl[f][m].ver \in {-1, 1, 2}
  BY <1>1 DEF Message
<1>3. s + 1 \in 1..Len(fl[f][m].grids)
  BY <1>1 DEF NumGrids
<1>4. FieldOf(fl, <<f, m, s>>) \in Field
  BY <1>2, <1>3 DEF FieldOf
<1>5. <<f, m, s>> \in Grid
  <2>1. Len(fl) \in Nat /\ Len(fl[f]) \in Nat
    BY FilesType
  <2>2. f \in Nat /\ m \in Nat /\ s \in Nat
    BY <2>1, <1>1 DEF NumGrids
  <2>3. QED
    BY <2>2 DEF Grid
<1>6. <<f, m, s>> \in GridsOf(fl)
  BY DEF GridsOf
<1>7. QED
  BY <1>2, <1>4, <1>5, <1>6

(* Conversely, a member of GridsOf is named by a file, a message and a     *)
(* place in it.                                                            *)
LEMMA GridsOfNames ==
    ASSUME NEW fl \in FileLists, NEW g \in GridsOf(fl)
    PROVE  \E f \in 1..Len(fl) : \E m \in 1..Len(fl[f]) :
              \E s \in 0..(NumGrids(fl, f, m) - 1) : g = <<f, m, s>>
  BY DEF GridsOf

(* The message a successful call works on is in the files.                 *)
LEMMA SourceIsMessage ==
    ASSUME ReaderTypeOK, inName > 0, ReadSucceeds
    PROVE  /\ Source[1] \in 1..Len(files)
           /\ Source[2] \in 1..Len(files[Source[1]])
           /\ Wanted \in 0..(NumGrids(files, Source[1], Source[2]) - 1)
<1>1. Len(files) \in Nat /\ inName \in 1..Len(files) /\ Len(files[inName]) \in Nat
  <2>1. Len(files) \in Nat
    BY FilesType DEF ReaderTypeOK
  <2>2. inName \in 1..Len(files)
    BY <2>1 DEF ReaderTypeOK
  <2>3. QED
    BY <2>1, <2>2, FilesType DEF ReaderTypeOK
<1>2. /\ Source[1] \in 1..Len(files)
      /\ Source[2] \in 1..Len(files[Source[1]])
  <2>1. CASE f_endMsg = 1
    <3>1. Source = <<inName, msgPos + 1>>
      BY <2>1 DEF Source
    <3>2. msgPos \in Nat /\ msgPos <= Len(files[inName]) /\ msgPos # Len(files[inName])
      BY <2>1 DEF ReaderTypeOK, ReadSucceeds, AtEOF
    <3>3. msgPos + 1 \in 1..Len(files[inName])
      BY <3>2, <1>1
    <3>4. QED
      BY <3>1, <3>3, <1>1
  <2>2. CASE f_endMsg = 0
    BY <2>2 DEF ReaderTypeOK, Source, IsMessage
  <2>3. QED
    BY <2>1, <2>2 DEF ReaderTypeOK
<1>3. Wanted \in Nat
  BY DEF Wanted, ReaderTypeOK
<1>4. SourceMsg = files[Source[1]][Source[2]]
  BY DEF SourceMsg
<1>5. Len(files[Source[1]][Source[2]].grids) \in Nat
  BY <1>2, FilesType DEF ReaderTypeOK
<1>6. Wanted < Len(files[Source[1]][Source[2]].grids)
  BY <1>4 DEF ReadSucceeds
<1>7. QED
  BY <1>2, <1>3, <1>5, <1>6 DEF NumGrids

(* A step that reads a grid returns one of the files' grids, and leaves    *)
(* the reader in order whatever grid is chosen next.                       *)
LEMMA ReadGrib2RecordTypes ==
    ASSUME ReaderTypeOK, inName > 0, ReadGrib2Record, subgNum' \in Nat
    PROVE  /\ GridRead \in GridsOf(files)
           /\ GridRead \in Grid
           /\ ReaderTypeOK'
<1>1. /\ Source[1] \in 1..Len(files)
      /\ Source[2] \in 1..Len(files[Source[1]])
      /\ Wanted \in 0..(NumGrids(files, Source[1], Source[2]) - 1)
  BY SourceIsMessage DEF ReadGrib2Record
<1>2. files \in FileLists /\ Len(files) \in Nat
  BY FilesType DEF ReaderTypeOK
<1>3. GridRead \in GridsOf(files) /\ GridRead \in Grid
  BY <1>1, <1>2, GridData DEF GridRead
<1>4. Source \in Nat \X Nat
  <2>1. inName \in Nat /\ msgPos + 1 \in Nat
    BY <1>2 DEF ReaderTypeOK
  <2>2. QED
    BY <2>1 DEF Source, ReaderTypeOK
<1>5. msgPos' \in Nat /\ msgPos' <= Len(files[inName])
  <2>1. inName \in 1..Len(files)
    BY <1>2 DEF ReaderTypeOK
  <2>2. Len(files[inName]) \in Nat
    BY <2>1, <1>2, FilesType
  <2>3. CASE f_endMsg = 1
    <3>1. msgPos' = msgPos + 1
      BY <2>3 DEF ReadGrib2Record
    <3>2. msgPos \in Nat /\ msgPos <= Len(files[inName]) /\ msgPos # Len(files[inName])
      BY <2>3 DEF ReaderTypeOK, ReadGrib2Record, ReadSucceeds, AtEOF
    <3>3. QED
      BY <3>1, <3>2, <2>2
  <2>4. CASE f_endMsg # 1
    BY <2>4 DEF ReadGrib2Record, ReaderTypeOK
  <2>5. QED
    BY <2>3, <2>4
<1>6. ipack' \in Nat \X Nat
  BY <1>4 DEF ReadGrib2Record, ReaderTypeOK
<1>7. ASSUME f_endMsg' = 0
      PROVE  /\ IsMessage(ipack'[1], ipack'[2])
             /\ files[ipack'[1]][ipack'[2]].ver = 2
  <2>1. Wanted + 1 # Len(files[Source[1]][Source[2]].grids)
    BY <1>7 DEF ReadGrib2Record, SourceMsg
  <2>2. files[Source[1]][Source[2]].ver = 2
    <3>1. SUFFICES ASSUME files[Source[1]][Source[2]].ver # 2 PROVE FALSE
      OBVIOUS
    <3>2. Len(files[Source[1]][Source[2]].grids) = 1
      BY <3>1, <1>1, <1>2, FilesType
    <3>3. Wanted = 0
      BY <3>1 DEF Wanted, SourceMsg
    <3>4. QED
      BY <2>1, <3>2, <3>3
  <2>3. ipack' = Source
    BY DEF ReadGrib2Record
  <2>4. QED
    BY <2>2, <2>3, <1>1 DEF IsMessage
<1>8. f_endMsg' \in {0, 1} /\ files' = files /\ inName' = inName
  BY DEF ReadGrib2Record
<1>9. ReaderTypeOK'
  BY <1>2, <1>5, <1>6, <1>7, <1>8 DEF ReaderTypeOK, IsMessage
<1>10. QED
  BY <1>3, <1>9

(* FindGRIBMsg leaves the reader somewhere in the file.                    *)
LEMMA FindGRIBMsgTypes ==
    ASSUME NEW file \in Seq(Message), NEW msgNum \in Nat, NEW curMsg \in Int
    PROVE  LET r == FindGRIBMsg(file, msgNum, curMsg)
           IN  /\ r.ret \in {-2, -1, 0}
               /\ r.pos \in Nat /\ r.pos <= Len(file)
               /\ r.curMsg \in Int
               /\ curMsg \in Nat => r.curMsg \in Nat
<1> DEFINE skip == IF msgNum > curMsg + 1 THEN msgNum - (curMsg + 1) ELSE 0
<1>1. skip \in Nat /\ Len(file) \in Nat
  OBVIOUS
<1> HIDE DEF skip
<1>2. QED
  BY <1>1 DEF FindGRIBMsg, skip

(***************************************************************************)
(* The order of the grids.                                                 *)
(***************************************************************************)

(* The grids that lie before a position.                                   *)
GridsBefore(fl, p) == {g \in GridsOf(fl) : Before(g, p)}

(* The position after a grid: the next one of its message, or the first    *)
(* one of the next message.                                                *)
After(fl, f, m, s) == IF s + 1 = NumGrids(fl, f, m) THEN <<f, m + 1, 0>> ELSE <<f, m, s + 1>>

LEMMA GridsBeforeAfter ==
    ASSUME NEW fl \in FileLists, NEW f \in 1..Len(fl), NEW m \in 1..Len(fl[f]),
           NEW s \in 0..(NumGrids(fl, f, m) - 1)
    PROVE  GridsBefore(fl, After(fl, f, m, s)) = GridsBefore(fl, <<f, m, s>>) \cup {<<f, m, s>>}
<1> DEFINE n == After(fl, f, m, s)
<1>1. Len(fl) \in Nat /\ Len(fl[f]) \in Nat /\ NumGrids(fl, f, m) \in Nat
  BY FilesType DEF NumGrids
<1>2. f \in Nat /\ m \in Nat /\ s \in Nat
  BY <1>1
<1>3. <<f, m, s>> \in GridsOf(fl)
  BY GridData
<1>4. ASSUME NEW f1 \in 1..Len(fl), NEW m1 \in 1..Len(fl[f1]),
             NEW s1 \in 0..(NumGrids(fl, f1, m1) - 1)
      PROVE  Before(<<f1, m1, s1>>, n) <=>
                Before(<<f1, m1, s1>>, <<f, m, s>>) \/ <<f1, m1, s1>> = <<f, m, s>>
  <2>1. Len(fl[f1]) \in Nat /\ NumGrids(fl, f1, m1) \in Nat
    BY FilesType DEF NumGrids
  <2>2. f1 \in Nat /\ m1 \in Nat /\ s1 \in Nat
    BY <1>1, <2>1
  <2>3. f1 = f /\ m1 = m => s1 < NumGrids(fl, f, m)
    BY <2>1
  <2>4. QED
    BY <1>1, <1>2, <2>2, <2>3 DEF Before, After
<1>5. \A g \in GridsOf(fl) : Before(g, n) <=> Before(g, <<f, m, s>>) \/ g = <<f, m, s>>
  <2> TAKE g \in GridsOf(fl)
  <2> HIDE DEF n
  <2>1. PICK f1 \in 1..Len(fl) : \E m1 \in 1..Len(fl[f1]) :
                \E s1 \in 0..(NumGrids(fl, f1, m1) - 1) : g = <<f1, m1, s1>>
    BY GridsOfNames
  <2>2. PICK m1 \in 1..Len(fl[f1]) : \E s1 \in 0..(NumGrids(fl, f1, m1) - 1) : g = <<f1, m1, s1>>
    BY <2>1
  <2>3. QED
    BY <1>4, <2>2, Zenon
<1>6. QED
  BY <1>3, <1>5 DEF GridsBefore

(* Nothing lies before the first file, between the first position of a     *)
(* file and its first message, or behind its last message; and everything  *)
(* lies before the end of the last file.                                   *)
LEMMA GridsBeforeEnds ==
    ASSUME NEW fl \in FileLists
    PROVE  /\ GridsBefore(fl, <<1, 0, 0>>) = {}
           /\ GridsBefore(fl, <<Len(fl) + 1, 0, 0>>) = GridsOf(fl)
           /\ \A f \in 1..Len(fl) :
                 /\ GridsBefore(fl, <<f, 0, 0>>) = GridsBefore(fl, <<f, 1, 0>>)
                 /\ GridsBefore(fl, <<f, Len(fl[f]) + 1, 0>>) = GridsBefore(fl, <<f + 1, 0, 0>>)
<1>1. Len(fl) \in Nat /\ \A f \in 1..Len(fl) : Len(fl[f]) \in Nat
  BY FilesType
<1>2. ASSUME NEW g \in GridsOf(fl)
      PROVE  /\ ~Before(g, <<1, 0, 0>>)
             /\ Before(g, <<Len(fl) + 1, 0, 0>>)
             /\ \A f \in 1..Len(fl) :
                   /\ Before(g, <<f, 0, 0>>) <=> Before(g, <<f, 1, 0>>)
                   /\ Before(g, <<f, Len(fl[f]) + 1, 0>>) <=> Before(g, <<f + 1, 0, 0>>)
  <2>1. PICK f1 \in 1..Len(fl) : \E m1 \in 1..Len(fl[f1]) :
                \E s1 \in 0..(NumGrids(fl, f1, m1) - 1) : g = <<f1, m1, s1>>
    BY GridsOfNames
  <2>2. PICK m1 \in 1..Len(fl[f1]) : \E s1 \in 0..(NumGrids(fl, f1, m1) - 1) : g = <<f1, m1, s1>>
    BY <2>1
  <2>3. PICK s1 \in 0..(NumGrids(fl, f1, m1) - 1) : g = <<f1, m1, s1>>
    BY <2>2
  <2>4. NumGrids(fl, f1, m1) \in Nat
    BY FilesType DEF NumGrids
  <2>5. f1 \in Nat /\ m1 \in Nat /\ s1 \in Nat /\ f1 >= 1 /\ m1 >= 1 /\ s1 >= 0
    BY <1>1, <2>4
  <2>6. ~Before(g, <<1, 0, 0>>) /\ Before(g, <<Len(fl) + 1, 0, 0>>)
    BY <1>1, <2>3, <2>5 DEF Before
  <2>7. ASSUME NEW f \in 1..Len(fl)
        PROVE  /\ Before(g, <<f, 0, 0>>) <=> Before(g, <<f, 1, 0>>)
               /\ Before(g, <<f, Len(fl[f]) + 1, 0>>) <=> Before(g, <<f + 1, 0, 0>>)
    <3>1. f1 = f => m1 <= Len(fl[f])
      BY <1>1
    <3>2. f \in Nat /\ Len(fl[f]) \in Nat
      BY <1>1
    <3>3. QED
      BY <2>3, <2>5, <3>1, <3>2 DEF Before
  <2>8. QED
    BY <2>6, <2>7
<1>3. QED
  BY <1>2 DEF GridsBefore
===============================================================================
