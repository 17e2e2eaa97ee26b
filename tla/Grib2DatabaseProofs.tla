------------------------- MODULE Grib2DatabaseProofs -------------------------
(***************************************************************************)
(* For any input files, options, bounds and crashes: the types of          *)
(* Grib2Database, the soundness of an index that is only ever appended to, *)
(* what a run saves, and that it adds its grids in order.  Then the probe  *)
(* beside it, for any index files and interleaving: its types, that it     *)
(* finds each grid once, and that what it reads of a database that is      *)
(* being appended to are the right grids.                                  *)
(***************************************************************************)
EXTENDS DatabaseProbe, GribReaderProofs

(* In the loops a file is open, and the grid that is being written and     *)
(* inserted is one of the files'.                                          *)
CurOK == /\ pc \in {"find", "index", "loop", "write", "fill", "insert"} => inName > 0
         /\ pc \in {"write", "fill", "insert"} => cur \in GridsOf(files)

TypeInv == TypeOK /\ CurOK

(* The data of a grid of the files can be stored and indexed.              *)
LEMMA CurData ==
    ASSUME TypeOK, cur \in GridsOf(files)
    PROVE  /\ Data(cur) \in Block
           /\ Data(cur) # Torn
           /\ KeyOf(Data(cur)) \in {KeyOf(b) : b \in Block}
           /\ GetOutputName(cur) \in Names
           /\ FieldOf(files, cur) \in Field
<1>1. files \in FileLists
  BY DEF TypeOK, ReaderTypeOK
<1>2. PICK f \in 1..Len(files) : \E m \in 1..Len(files[f]) :
              \E s \in 0..(NumGrids(files, f, m) - 1) : cur = <<f, m, s>>
  BY <1>1, GridsOfNames
<1>3. PICK m \in 1..Len(files[f]) : \E s \in 0..(NumGrids(files, f, m) - 1) : cur = <<f, m, s>>
  BY <1>2
<1>4. PICK s \in 0..(NumGrids(files, f, m) - 1) : cur = <<f, m, s>>
  BY <1>3
<1>5. FieldOf(files, cur) \in Field /\ files[f][m].ver \in {-1, 1, 2}
  BY <1>1, <1>4, GridData
<1>6. VerOf(cur) = files[f][m].ver
  BY <1>4 DEF VerOf
<1>7. Data(cur) \in Block
  BY <1>5, <1>6 DEF Data, Block
<1>8. Data(cur) # Torn
  BY <1>7, DatabaseAssumption
<1>9. GetOutputName(cur) \in Names
  BY <1>5, DatabaseAssumption DEF GetOutputName
<1>10. QED
  BY <1>5, <1>7, <1>8, <1>9

(* A step that leaves the reader alone leaves it in order.                 *)
LEMMA ReaderUnchanged ==
    ASSUME ReaderTypeOK, UNCHANGED readerVars
    PROVE  ReaderTypeOK'
  BY DEF ReaderTypeOK, readerVars, IsMessage

LEMMA TypeInit == Init => TypeInv
<1> SUFFICES ASSUME Init PROVE TypeInv
  OBVIOUS
<1>1. ReaderTypeOK
  BY FilesType DEF Init, ReaderInit, ReaderTypeOK
<1>2. dat \in [Names -> Seq(Block \cup {Torn})]
  BY DEF Init
<1>3. curMsg \in Int
  BY DatabaseAssumption DEF Init
<1>4. cur \in Grid
  BY DEF Init, Grid
<1>5. runs \in 1..MaxRuns
  BY DatabaseAssumption DEF Init
<1>6. idx \in [ok : BOOLEAN, store : SUBSET Entries]
  BY DEF Init, Unreadable
<1>7. /\ f_delete \in BOOLEAN
      /\ flx \in SUBSET Entries /\ before \in SUBSET Entries
      /\ added \in Seq(Grid)
  <2>1. f_delete \in BOOLEAN
    BY DEF Init
  <2>2. flx \in SUBSET Entries /\ before \in SUBSET Entries
    BY DEF Init
  <2>3. added \in Seq(Grid)
    BY DEF Init
  <2>4. QED
    BY <2>1, <2>2, <2>3
<1>8. CurOK
  BY DEF Init, CurOK
<1>9. QED
  BY <1>1, <1>2, <1>3, <1>4, <1>5, <1>6, <1>7, <1>8 DEF Init, TypeInv, TypeOK

(* Every action keeps the types.                                           *)
LEMMA TypeStep == TypeInv /\ [Next]_vars => TypeInv'
<1> SUFFICES ASSUME TypeInv, [Next]_vars PROVE TypeInv'
  OBVIOUS
<1> USE DEF disk, run, Return, Leave
<1>1. TypeOK /\ CurOK /\ ReaderTypeOK
  BY DEF TypeInv, TypeOK
<1>2. CASE RunAgain
  <2>1. ReaderTypeOK'
    BY <1>2, FilesType DEF RunAgain, ReaderTypeOK
  <2>2. curMsg' \in Int /\ cur' \in Grid
    BY <1>2, DatabaseAssumption DEF RunAgain, Grid
  <2>3. runs' \in 1..MaxRuns
    BY <1>1, <1>2, DatabaseAssumption DEF RunAgain, TypeOK
  <2>4. before' \in SUBSET Entries
    BY <1>1, <1>2 DEF RunAgain, TypeOK
  <2>5. /\ f_delete' \in BOOLEAN
        /\ flx' \in SUBSET Entries
        /\ added' \in Seq(Grid)
    <3>1. f_delete' \in BOOLEAN
      BY <1>2 DEF RunAgain
    <3>2. flx' \in SUBSET Entries
      BY <1>2 DEF RunAgain
    <3>3. added' \in Seq(Grid)
      BY <1>2 DEF RunAgain
    <3>4. QED
      BY <3>1, <3>2, <3>3
  <2>6. idx' = idx /\ dat' = dat
    BY <1>2 DEF RunAgain
  <2>7. CurOK'
    BY <1>2 DEF RunAgain, CurOK
  <2>8. QED
    BY <1>1, <1>2, <2>1, <2>2, <2>3, <2>4, <2>5, <2>6, <2>7 DEF RunAgain, TypeInv, TypeOK
<1>3. CASE OpenFile
  <2>1. Len(files) \in Nat /\ \A f \in 1..Len(files) : Len(files[f]) \in Nat
    BY <1>1, FilesType DEF ReaderTypeOK
  <2>2. ReaderTypeOK'
    BY <1>1, <1>3, <2>1 DEF OpenFile, ReaderTypeOK, IsMessage
  <2>3. QED
    BY <1>1, <1>3, <2>2 DEF OpenFile, TypeInv, TypeOK, CurOK, ReaderTypeOK
<1>4. CASE OpenFails
  BY <1>1, <1>4, ReaderUnchanged DEF OpenFails, TypeInv, TypeOK, CurOK, readerVars
<1>5. CASE NoMoreFiles
  BY <1>1, <1>5, ReaderUnchanged DEF NoMoreFiles, TypeInv, TypeOK, CurOK, readerVars
<1>6. CASE FindMessage
  <2> DEFINE r == FindGRIBMsg(files[inName], usr.msgNum, curMsg)
  <2>1. inName > 0 => /\ r.ret \in {-2, -1, 0}
                      /\ r.pos \in Nat /\ r.pos <= Len(files[inName])
                      /\ r.curMsg \in Int
    <3>1. inName > 0 => files[inName] \in Seq(Message)
      BY <1>1, FilesType DEF ReaderTypeOK
    <3>2. usr.msgNum \in Nat /\ curMsg \in Int
      BY <1>1, DatabaseAssumption DEF TypeOK
    <3>3. QED
      BY <3>1, <3>2, FindGRIBMsgTypes
  <2>2. QED
    BY <1>1, <1>6, <2>1 DEF FindMessage, TypeInv, TypeOK, CurOK, ReaderTypeOK, IsMessage
<1>7. CASE StartIndex
  BY <1>1, <1>7, ReaderUnchanged DEF StartIndex, TypeInv, TypeOK, CurOK, readerVars
<1>8. CASE ReadGrid
  <2>1. subgNum' \in Nat
    BY <1>1, <1>8 DEF ReadGrid, ReaderTypeOK
  <2>2. inName > 0
    BY <1>1, <1>8 DEF ReadGrid, CurOK
  <2>3. GridRead \in GridsOf(files) /\ GridRead \in Grid /\ ReaderTypeOK' /\ files' = files
    BY <1>1, <1>8, <2>1, <2>2, ReadGrib2RecordTypes DEF ReadGrid, ReadGrib2Record
  <2>4. QED
    BY <1>1, <1>8, <2>3 DEF ReadGrid, ReadGrib2Record, TypeInv, TypeOK, CurOK
<1>9. CASE ReadFails
  BY <1>1, <1>9, ReaderUnchanged DEF ReadFails, TypeInv, TypeOK, CurOK, readerVars
<1>10. CASE EndOfFile
  BY <1>1, <1>10, ReaderUnchanged DEF EndOfFile, TypeInv, TypeOK, CurOK, readerVars
<1>11. CASE OpenGridFile \/ OpenCube
  <2>1. GetOutputName(cur) \in Names /\ cur \in GridsOf(files)
    BY <1>1, <1>11, CurData DEF OpenGridFile, OpenCube, CurOK
  <2>2. Len(dat[GetOutputName(cur)]) \in Nat
    BY <1>1, <2>1 DEF TypeOK
  <2>3. dat' \in [Names -> Seq(Block \cup {Torn})] /\ fltOffset' \in Nat
    <3>1. CASE OpenGridFile
      BY <1>1, <3>1, <2>1 DEF OpenGridFile, TypeOK
    <3>2. CASE OpenCube
      BY <1>1, <3>2, <2>1, <2>2 DEF OpenCube, TypeOK
    <3>3. QED
      BY <1>11, <3>1, <3>2
  <2>4. QED
    BY <1>1, <1>11, <2>1, <2>3, ReaderUnchanged
    DEF OpenGridFile, OpenCube, TypeInv, TypeOK, CurOK, readerVars
<1>12. CASE OutputFails
  BY <1>1, <1>12, ReaderUnchanged DEF OutputFails, TypeInv, TypeOK, CurOK, readerVars
<1>13. CASE FillGridFile \/ GridFileFails \/ FillCube
  <2>1. /\ GetOutputName(cur) \in Names /\ Data(cur) \in Block /\ cur \in GridsOf(files)
        /\ dat' = [dat EXCEPT ![GetOutputName(cur)] = Append(@, Data(cur))]
    BY <1>1, <1>13, CurData DEF FillGridFile, GridFileFails, FillCube, CurOK
  <2>2. dat' \in [Names -> Seq(Block \cup {Torn})]
    BY <1>1, <2>1 DEF TypeOK
  <2>3. QED
    BY <1>1, <1>13, <2>1, <2>2, ReaderUnchanged
    DEF FillGridFile, GridFileFails, FillCube, TypeInv, TypeOK, CurOK, readerVars
<1>14. CASE InsertGrid
  <2>1. /\ GetOutputName(cur) \in Names
        /\ KeyOf(Data(cur)) \in {KeyOf(b) : b \in Block}
    BY <1>1, <1>14, CurData DEF InsertGrid, CurOK
  <2>2. flx' \in SUBSET Entries
    BY <1>1, <1>14, <2>1 DEF InsertGrid, Store!Put, TypeOK, Entries, Place
  <2>3. added' \in Seq(Grid)
    BY <1>1, <1>14 DEF InsertGrid, TypeOK
  <2>4. QED
    BY <1>1, <1>14, <2>2, <2>3, ReaderUnchanged DEF InsertGrid, TypeInv, TypeOK, CurOK, readerVars
<1>15. CASE InsertFails
  BY <1>1, <1>15, ReaderUnchanged DEF InsertFails, TypeInv, TypeOK, CurOK, readerVars
<1>16. CASE OpenIndex
  <2>1. idx' \in [ok : BOOLEAN, store : SUBSET Entries]
    BY <1>16 DEF OpenIndex, Unreadable
  <2>2. QED
    BY <1>1, <1>16, <2>1, ReaderUnchanged DEF OpenIndex, TypeInv, TypeOK, CurOK, readerVars
<1>17. CASE SaveFails
  BY <1>1, <1>17, ReaderUnchanged DEF SaveFails, TypeInv, TypeOK, CurOK, readerVars
<1>18. CASE FlushIndex
  BY <1>1, <1>18, ReaderUnchanged DEF FlushIndex, TypeInv, TypeOK, CurOK, readerVars
<1>19. CASE Crash
  <2>1. dat' \in [Names -> Seq(Block \cup {Torn})]
    <3>1. CASE UNCHANGED dat
      BY <1>1, <3>1 DEF TypeOK
    <3>2. CASE pc = "fill" /\ dat' = [dat EXCEPT ![GetOutputName(cur)] = Append(@, Torn)]
      <4>1. GetOutputName(cur) \in Names
        BY <1>1, <3>2, CurData DEF CurOK
      <4>2. QED
        BY <1>1, <3>2, <4>1 DEF TypeOK
    <3>3. QED
      BY <1>19, <3>1, <3>2 DEF Crash
  <2>2. QED
    BY <1>1, <1>19, <2>1, ReaderUnchanged DEF Crash, TypeInv, TypeOK, CurOK, readerVars
<1>20. CASE UNCHANGED vars
  BY <1>1, <1>20, ReaderUnchanged DEF vars, TypeInv, TypeOK, CurOK, readerVars
<1>21. QED
  BY <1>2, <1>3, <1>4, <1>5, <1>6, <1>7, <1>8, <1>9, <1>10, <1>11, <1>12, <1>13,
     <1>14, <1>15, <1>16, <1>17, <1>18, <1>19, <1>20 DEF Next, Terminated

(* Grib2Database keeps the types of its state, the reader's among them.    *)
THEOREM TypeCorrect == Spec => []TypeOK
<1>1. Spec => []TypeInv
  BY TypeInit, TypeStep, PTL DEF Spec
<1>2. TypeInv => TypeOK
  BY DEF TypeInv
<1>3. QED
  BY <1>1, <1>2, PTL
-------------------------------------------------------------------------------
(* Why an index that is only appended to stays sound.  The entries in      *)
(* memory designate their grids as those of the index file do, because the *)
(* cube only grows once there are entries: it is overwritten (f_delete)    *)
(* only when the index could not be read, and then neither the file nor    *)
(* the memory has an entry.  A grid is inserted when it is already at      *)
(* fltOffset in the cube.                                                  *)
USE DEF HoldsGrid

FileSound == (~idx.ok => idx.store = {}) /\ IndexSound
MemorySound == \A e \in flx : Designates(e)
DeleteIsSafe == f_delete => idx.store = {} /\ flx = {}
GridIsPlaced ==
    /\ pc = "fill" => fltOffset = Len(dat[Cube])
    /\ pc = "insert" => /\ ~f_delete
                        /\ fltOffset < Len(dat[Cube])
                        /\ dat[Cube][fltOffset + 1] = Data(cur)

SoundInv == FileSound /\ MemorySound /\ DeleteIsSafe /\ GridIsPlaced

(* An entry goes on designating its grid when a grid file grows.           *)
LEMMA GrowthKeeps ==
    ASSUME TypeOK, NEW n \in Names, NEW b \in Block \cup {Torn}, NEW e \in Entries,
           dat' = [dat EXCEPT ![n] = Append(@, b)], Designates(e)
    PROVE  Designates(e)'
<1>1. e.place.name \in Names /\ e.place.offset \in Nat
  BY DEF Entries, Place
<1> DEFINE old == dat[e.place.name]
<1>2. old \in Seq(Block \cup {Torn}) /\ e.place.offset + 1 \in 1..Len(old)
  BY <1>1 DEF TypeOK, Designates
<1>3. dat'[e.place.name] = old \/ dat'[e.place.name] = Append(old, b)
  BY <1>1 DEF TypeOK
<1>4. /\ Len(dat'[e.place.name]) >= Len(old)
      /\ dat'[e.place.name][e.place.offset + 1] = old[e.place.offset + 1]
  BY <1>2, <1>3
<1>5. QED
  BY <1>1, <1>2, <1>4 DEF Designates

LEMMA SoundInit == Init => SoundInv
  BY DEF Init, Unreadable, SoundInv, FileSound, IndexSound, MemorySound,
         DeleteIsSafe, GridIsPlaced

(* A step that changes neither file, nor what it knows of them, is safe.   *)
LEMMA SoundUnchanged ==
    ASSUME SoundInv, UNCHANGED <<idx, dat, flx, f_delete>>,
           pc' \notin {"fill", "insert"}
    PROVE  SoundInv'
  BY DEF SoundInv, FileSound, IndexSound, MemorySound, DeleteIsSafe, GridIsPlaced,
         Designates

(* With -Append and -Cube in every request every step keeps it.            *)
LEMMA SoundStep ==
    ASSUME \A r \in Requests : r.f_Append /\ r.f_Cube,
           TypeInv, SoundInv, [Next]_vars
    PROVE  SoundInv'
<1> USE DEF disk, run, Return, Leave
<1>1. TypeOK /\ CurOK /\ usr.f_Append /\ usr.f_Cube
  BY DEF TypeInv, TypeOK
<1>2. FileSound /\ MemorySound /\ DeleteIsSafe /\ GridIsPlaced
  BY DEF SoundInv
<1>3. idx.store \subseteq Entries /\ flx \subseteq Entries
  BY <1>1 DEF TypeOK
<1>4. CASE RunAgain
  BY <1>2, <1>4 DEF RunAgain, SoundInv, FileSound, IndexSound, MemorySound,
                    DeleteIsSafe, GridIsPlaced, Designates
<1>5. CASE \/ OpenFile \/ OpenFails \/ NoMoreFiles \/ ReadGrid \/ ReadFails \/ EndOfFile
           \/ OutputFails \/ InsertFails \/ SaveFails
  BY <1>5, SoundUnchanged DEF OpenFile, OpenFails, NoMoreFiles, ReadGrid, ReadFails,
                              EndOfFile, OutputFails, InsertFails, SaveFails
<1>6. CASE FindMessage
  BY <1>6, SoundUnchanged DEF FindMessage
<1>7. CASE StartIndex
  <2>1. idx.ok => \A e \in idx.store : Designates(e)
    BY <1>2 DEF FileSound, IndexSound
  <2>2. \A e \in flx' : Designates(e)
    BY <1>2, <1>7, <2>1 DEF StartIndex, MemorySound
  <2>3. f_delete' => idx.store = {} /\ flx' = {}
    BY <1>1, <1>2, <1>7 DEF StartIndex, FileSound
  <2>4. pc' = "loop" /\ idx' = idx /\ dat' = dat
    BY <1>7 DEF StartIndex
  <2>5. MemorySound'
    BY <2>2, <2>4 DEF MemorySound, Designates
  <2>6. FileSound'
    BY <1>2, <2>4 DEF FileSound, IndexSound, Designates
  <2>7. QED
    BY <2>3, <2>4, <2>5, <2>6 DEF SoundInv, DeleteIsSafe, GridIsPlaced
<1>8. CASE OpenCube
  <2>1. GetOutputName(cur) = Cube /\ Cube \in Names
    BY <1>1, DatabaseAssumption DEF GetOutputName
  <2>2. pc' = "fill" /\ fltOffset' = Len(dat'[Cube])
    BY <1>1, <1>8, <2>1 DEF OpenCube, TypeOK
  <2>3. CASE f_delete
    BY <1>2, <1>8, <2>2, <2>3
    DEF OpenCube, SoundInv, FileSound, IndexSound, MemorySound, DeleteIsSafe, GridIsPlaced
  <2>4. CASE ~f_delete
    <3>1. UNCHANGED <<idx, dat, flx, f_delete>>
      BY <1>1, <1>8, <2>4 DEF OpenCube
    <3>2. QED
      BY <1>2, <2>2, <2>4, <3>1 DEF SoundInv, FileSound, IndexSound, MemorySound,
                                    DeleteIsSafe, GridIsPlaced, Designates
  <2>5. QED
    BY <2>3, <2>4
<1>9. CASE FillCube
  <2>1. /\ GetOutputName(cur) = Cube /\ Cube \in Names
        /\ Data(cur) \in Block
        /\ dat[Cube] \in Seq(Block \cup {Torn})
    BY <1>1, <1>9, CurData, DatabaseAssumption DEF FillCube, CurOK, GetOutputName, TypeOK
  <2>2. /\ dat' = [dat EXCEPT ![Cube] = Append(@, Data(cur))]
        /\ f_delete' = FALSE /\ pc' = "insert"
        /\ UNCHANGED <<idx, flx, fltOffset, cur, files>>
    BY <1>1, <1>9, <2>1 DEF FillCube, readerVars
  <2>3. \A e \in Entries : Designates(e) => Designates(e)'
    BY <1>1, <2>1, <2>2, GrowthKeeps
  <2>4. FileSound' /\ MemorySound'
    BY <1>2, <1>3, <2>2, <2>3 DEF FileSound, IndexSound, MemorySound
  <2>5. fltOffset = Len(dat[Cube])
    BY <1>2, <1>9 DEF GridIsPlaced, FillCube
  <2>6. dat'[Cube] = Append(dat[Cube], Data(cur))
    BY <1>1, <2>1, <2>2 DEF TypeOK
  <2>7. fltOffset < Len(dat'[Cube]) /\ dat'[Cube][fltOffset + 1] = Data(cur)
    BY <2>1, <2>5, <2>6
  <2>8. Data(cur)' = Data(cur)
    BY <2>2 DEF Data, VerOf, FieldOf
  <2>9. QED
    BY <2>2, <2>4, <2>7, <2>8 DEF SoundInv, DeleteIsSafe, GridIsPlaced
<1>10. CASE InsertGrid
  <2> DEFINE new == [key |-> KeyOf(Data(cur)), place |-> [name |-> Cube, offset |-> fltOffset]]
  <2>1. GetOutputName(cur) = Cube /\ Data(cur) # Torn
    BY <1>1, <1>10, CurData DEF InsertGrid, CurOK, GetOutputName
  <2>2. flx' \subseteq flx \cup {new}
    BY <1>10, <2>1 DEF InsertGrid, Store!Put
  <2>3. Designates(new)
    BY <1>2, <1>10, <2>1 DEF InsertGrid, GridIsPlaced, Designates
  <2>4. /\ UNCHANGED <<idx, dat, f_delete>>
        /\ pc' \notin {"fill", "insert"} /\ ~f_delete
    BY <1>2, <1>10 DEF InsertGrid, GridIsPlaced
  <2>5. \A e \in flx' : Designates(e)
    BY <1>2, <2>2, <2>3 DEF MemorySound
  <2>6. QED
    BY <1>2, <2>4, <2>5 DEF SoundInv, FileSound, IndexSound, MemorySound, DeleteIsSafe,
                            GridIsPlaced, Designates
<1>11. CASE OpenIndex
  BY <1>2, <1>11 DEF OpenIndex, Unreadable, SoundInv, FileSound, IndexSound, MemorySound,
                     DeleteIsSafe, GridIsPlaced, Designates
<1>12. CASE FlushIndex
  BY <1>2, <1>12 DEF FlushIndex, SoundInv, FileSound, IndexSound, MemorySound,
                     DeleteIsSafe, GridIsPlaced, Designates
<1>13. CASE Crash
  <2>1. UNCHANGED <<idx, flx, f_delete>> /\ pc' = "idle"
    BY <1>13 DEF Crash
  <2>2. \A e \in Entries : Designates(e) => Designates(e)'
    <3>1. CASE UNCHANGED dat
      BY <3>1 DEF Designates
    <3>2. CASE pc = "fill" /\ dat' = [dat EXCEPT ![GetOutputName(cur)] = Append(@, Torn)]
      <4>1. GetOutputName(cur) \in Names
        BY <1>1, <3>2, CurData DEF CurOK
      <4>2. QED
        BY <1>1, <3>2, <4>1, GrowthKeeps
    <3>3. QED
      BY <1>13, <3>1, <3>2 DEF Crash
  <2>3. FileSound' /\ MemorySound'
    BY <1>2, <1>3, <2>1, <2>2 DEF FileSound, IndexSound, MemorySound
  <2>4. QED
    BY <1>2, <2>1, <2>3 DEF SoundInv, DeleteIsSafe, GridIsPlaced
<1>14. CASE UNCHANGED vars
  BY <1>2, <1>14 DEF vars, readerVars, SoundInv, FileSound, IndexSound, MemorySound,
       DeleteIsSafe, GridIsPlaced, Designates, Data, VerOf, FieldOf
<1>15. ~OpenGridFile /\ ~FillGridFile /\ ~GridFileFails
  BY <1>1 DEF OpenGridFile, FillGridFile, GridFileFails
<1>16. QED
  BY <1>4, <1>5, <1>6, <1>7, <1>8, <1>9, <1>10, <1>11, <1>12, <1>13, <1>14, <1>15
  DEF Next, Terminated

(* As long as every run has -Append and -Cube, every entry of the index    *)
(* file designates its grid, whatever the files hold, however many runs    *)
(* there are, and at whatever points they fail or are killed.              *)
THEOREM AppendSound ==
    ASSUME \A r \in Requests : r.f_Append /\ r.f_Cube
    PROVE  Spec => []IndexSound
<1>1. Init => TypeInv /\ SoundInv
  BY TypeInit, SoundInit
<1>2. TypeInv /\ SoundInv /\ [Next]_vars => (TypeInv /\ SoundInv)'
  BY TypeStep, SoundStep
<1>3. SoundInv => IndexSound
  BY DEF SoundInv, FileSound
<1>4. QED
  BY <1>1, <1>2, <1>3, PTL DEF Spec
-------------------------------------------------------------------------------
(* What the index that is written owes to the one before it.  In the loop  *)
(* the index in memory already keeps, adds and has no others; until it is  *)
(* read, nothing has been added.  The grids that were added are in the     *)
(* cube, which is emptied only before the first of them is.                *)
HasIndex == /\ pc # "idle"
            /\ pc = "open" => inName > 0
            /\ pc \in {"find", "index"} => inName > 1

Holds(e, b) == /\ e.place.offset < Len(dat[e.place.name])
               /\ dat[e.place.name][e.place.offset + 1] = b

AddsInCube == \A i \in DOMAIN added : IsLast(i) =>
                 \E e \in flx : /\ e.key = KeyOf(Data(added[i]))
                                /\ Holds(e, Data(added[i]))

FileOK == ~idx.ok => idx.store = {}
NotYetRead == pc # "idle" /\ ~HasIndex =>
                 added = <<>> /\ before = IF usr.f_Append THEN idx.store ELSE {}
BooksKept == HasIndex => Keeps(flx) /\ NoOthers(flx) /\ AddsInCube
DeleteIsFirst == HasIndex /\ f_delete => added = <<>>

BooksInv == FileOK /\ NotYetRead /\ BooksKept /\ DeleteIsFirst /\ GridIsPlaced

(* What the books say of a memory and a cube that do not change.           *)
LEMMA BooksUnchanged ==
    ASSUME HasIndex, BooksKept, DeleteIsFirst, HasIndex',
           UNCHANGED <<files, before, added, flx, dat, f_delete>>
    PROVE  BooksKept' /\ DeleteIsFirst'
<1> USE DEF Data, VerOf, FieldOf, KeyOf
<1>1. UNCHANGED KeysAdded /\ \A i \in DOMAIN added : IsLast(i)' <=> IsLast(i)
  BY DEF KeysAdded, IsLast
<1>2. Keeps(flx)' /\ NoOthers(flx)'
  BY <1>1, Zenon DEF BooksKept, Keeps, NoOthers
<1>3. AddsInCube'
  BY <1>1, Zenon DEF BooksKept, AddsInCube, Holds
<1>4. QED
  BY <1>2, <1>3 DEF BooksKept, DeleteIsFirst

(* The books are kept when the cube grows.                                 *)
LEMMA BooksGrow ==
    ASSUME TypeOK, HasIndex, BooksKept, HasIndex', UNCHANGED <<files, before, added, flx>>,
           NEW n \in Names, NEW b \in Block \cup {Torn},
           dat' = [dat EXCEPT ![n] = Append(@, b)]
    PROVE  BooksKept'
<1>1. ASSUME NEW e \in flx, NEW c, Holds(e, c) PROVE Holds(e, c)'
  <2>1. e.place.name \in Names /\ e.place.offset \in Nat
    BY DEF TypeOK, Entries, Place
  <2> DEFINE old == dat[e.place.name]
  <2>2. old \in Seq(Block \cup {Torn}) /\ e.place.offset + 1 \in 1..Len(old)
    BY <1>1, <2>1 DEF TypeOK, Holds
  <2>3. dat'[e.place.name] = old \/ dat'[e.place.name] = Append(old, b)
    BY <2>1 DEF TypeOK
  <2>4. /\ Len(dat'[e.place.name]) >= Len(old)
        /\ dat'[e.place.name][e.place.offset + 1] = old[e.place.offset + 1]
    BY <2>2, <2>3
  <2>5. QED
    BY <1>1, <2>1, <2>2, <2>4 DEF Holds
<1> USE DEF Data, VerOf, FieldOf, KeyOf
<1>2. UNCHANGED KeysAdded /\ \A i \in DOMAIN added : IsLast(i)' <=> IsLast(i)
  BY DEF KeysAdded, IsLast
<1>3. Keeps(flx)' /\ NoOthers(flx)'
  BY <1>2 DEF BooksKept, Keeps, NoOthers
<1>4. \A i \in DOMAIN added : Data(added[i])' = Data(added[i])
  OBVIOUS
<1> HIDE DEF Data, VerOf, FieldOf, KeyOf
<1>5. ASSUME NEW i \in DOMAIN added', IsLast(i)'
      PROVE  \E e \in flx' : /\ e.key = KeyOf(Data(added[i]))'
                             /\ Holds(e, Data(added[i]))'
  <2>1. i \in DOMAIN added /\ IsLast(i)
    BY <1>2, <1>5
  <2>2. PICK e \in flx : e.key = KeyOf(Data(added[i])) /\ Holds(e, Data(added[i]))
    BY <2>1 DEF BooksKept, AddsInCube
  <2>3. Data(added[i])' = Data(added[i]) /\ KeyOf(Data(added[i]))' = KeyOf(Data(added[i]))
    BY <1>4, <2>1 DEF KeyOf
  <2>4. Holds(e, Data(added[i]))'
    BY <1>1, <2>2, <2>3 DEF Holds
  <2>5. QED
    BY <2>2, <2>3, <2>4
<1>6. QED
  BY <1>3, <1>5 DEF BooksKept, AddsInCube

(* The grid that is inserted is the last one of its key.                   *)
LEMMA BooksInsert ==
    ASSUME TypeOK, CurOK, HasIndex, BooksKept, GridIsPlaced, usr.f_Cube, InsertGrid
    PROVE  BooksKept'
<1>1. PICK n \in Nat : n = Len(added)
  BY DEF TypeOK
<1>2. PICK k : k = KeyOf(Data(cur))
  OBVIOUS
<1>3. PICK new : new = [key |-> k, place |-> [name |-> Cube, offset |-> fltOffset]]
  OBVIOUS
<1>4. /\ added' = Append(added, cur) /\ flx' = {e \in flx : e.key # k} \cup {new}
      /\ UNCHANGED <<files, before, dat, cur>>
  BY <1>2, <1>3 DEF InsertGrid, Store!Put, GetOutputName, readerVars, disk, run
<1>5. /\ DOMAIN added = 1..n /\ DOMAIN added' = 1..(n + 1)
      /\ added'[n + 1] = cur /\ \A i \in 1..n : added'[i] = added[i]
  BY <1>1, <1>4 DEF TypeOK
<1>6. /\ Data(added[n + 1])' = Data(cur) /\ Data(cur)' = Data(cur)
      /\ \A i \in 1..n : Data(added[i])' = Data(added[i])
  BY <1>4, <1>5 DEF Data, VerOf, FieldOf
<1>7. /\ KeyOf(Data(added[n + 1]))' = k
      /\ \A i \in 1..n : KeyOf(Data(added[i]))' = KeyOf(Data(added[i]))
  BY <1>2, <1>6 DEF KeyOf
<1>8. KeysAdded' = KeysAdded \cup {k}
  BY <1>5, <1>7 DEF KeysAdded
<1>9. Keeps(flx)'
  BY <1>4, <1>8 DEF BooksKept, Keeps
<1>10. NoOthers(flx)'
  BY <1>3, <1>4, <1>8 DEF BooksKept, NoOthers
<1>11. new \in flx' /\ new.key = k
  <2>1. new.key = k
    BY <1>3
  <2>2. flx' = {e \in flx : e.key # k} \cup {new}
    BY <1>4, Zenon
  <2>2a. new \in flx'
    BY <2>2
  <2>3. QED
    BY <2>1, <2>2a
<1>12. Holds(new, Data(cur))'
  BY <1>4, <1>3 DEF Holds, GridIsPlaced, InsertGrid, Data, VerOf, FieldOf
<1>13. ASSUME NEW i \in 1..(n + 1), IsLast(i)'
       PROVE  \E e \in flx' : e.key = KeyOf(Data(added[i]))' /\ Holds(e, Data(added[i]))'
  <2>1. CASE i = n + 1
    <3>1. Holds(new, Data(added[i]))'
      BY <1>4, <1>6, <1>12, <2>1 DEF Holds
    <3>2. QED
      BY <1>7, <1>11, <2>1, <3>1
  <2>2. CASE i \in 1..n
    <3>1. KeyOf(Data(added[i])) # k /\ IsLast(i)
      BY <1>5, <1>7, <1>13, <2>2 DEF IsLast
    <3>2. PICK e \in flx : e.key = KeyOf(Data(added[i])) /\ Holds(e, Data(added[i]))
      BY <1>5, <2>2, <3>1 DEF BooksKept, AddsInCube
    <3>3. Holds(e, Data(added[i]))'
      BY <1>4, <1>6, <2>2, <3>2 DEF Holds
    <3>4. e \in flx'
      BY <1>4, <3>1, <3>2
    <3>5. QED
      BY <1>7, <2>2, <3>2, <3>3, <3>4
  <2>3. QED
    BY <1>5, <1>13, <2>1, <2>2
<1>14. QED
  BY <1>5, <1>9, <1>10, <1>13 DEF BooksKept, AddsInCube

LEMMA BooksInit == Init => BooksInv
  BY DEF Init, ReaderInit, Unreadable, BooksInv, FileOK, NotYetRead, HasIndex, BooksKept,
         DeleteIsFirst, GridIsPlaced

(* With -Cube in every request every step keeps the books.                 *)
LEMMA BooksStep ==
    ASSUME \A r \in Requests : r.f_Cube, TypeInv, BooksInv, [Next]_vars
    PROVE  BooksInv'
<1> USE DEF disk, run, Return, Leave
<1>1. /\ TypeOK /\ CurOK /\ usr.f_Cube /\ TypeOK'
      /\ FileOK /\ NotYetRead /\ BooksKept /\ DeleteIsFirst /\ GridIsPlaced
  BY TypeStep DEF TypeInv, TypeOK, BooksInv
<1>2. inName \in Nat
  BY <1>1, FilesType DEF TypeOK, ReaderTypeOK
<1>3. ASSUME UNCHANGED <<files, before, added, flx, dat, f_delete, idx, usr>>,
             HasIndex <=> HasIndex', pc # "idle", pc' \notin {"fill", "insert"}
      PROVE  BooksInv'
  <2>1. CASE HasIndex
    BY <1>1, <1>3, <2>1, BooksUnchanged DEF BooksInv, FileOK, NotYetRead, GridIsPlaced
  <2>2. CASE ~HasIndex
    BY <1>1, <1>3, <2>2 DEF BooksInv, FileOK, NotYetRead, BooksKept, DeleteIsFirst, GridIsPlaced
  <2>3. QED
    BY <2>1, <2>2
<1>4. ASSUME pc' = "idle", FileOK' PROVE BooksInv'
  BY <1>4 DEF BooksInv, HasIndex, NotYetRead, BooksKept, DeleteIsFirst, GridIsPlaced
<1>5. CASE RunAgain
  BY <1>1, <1>5 DEF RunAgain, BooksInv, FileOK, NotYetRead, HasIndex, BooksKept, DeleteIsFirst,
                    GridIsPlaced
<1>6. CASE OpenFile
  BY <1>2, <1>3, <1>6 DEF OpenFile, HasIndex
<1>7. CASE NoMoreFiles
  <2>1. inName > 0
    BY <1>1, <1>7, FilesType, DatabaseAssumption DEF NoMoreFiles, TypeOK, ReaderTypeOK
  <2>2. QED
    BY <1>3, <1>7, <2>1 DEF NoMoreFiles, HasIndex, readerVars
<1>8. CASE OpenFails \/ SaveFails
  BY <1>1, <1>4, <1>8 DEF OpenFails, SaveFails, FileOK
<1>9. CASE FindMessage
  <2>1. CASE pc' = "idle"
    BY <1>1, <1>4, <1>9, <2>1 DEF FindMessage, FileOK
  <2>2. CASE pc' # "idle"
    BY <1>3, <1>9, <2>2 DEF FindMessage, HasIndex
  <2>3. QED
    BY <2>1, <2>2
<1>10. CASE StartIndex
  <2>1. /\ UNCHANGED <<files, before, added, dat, idx, usr>>
        /\ pc = "index" /\ pc' = "loop"
    BY <1>10 DEF StartIndex, readerVars
  <2>2. CASE inName = 1
    <3>1. /\ added = <<>> /\ before = IF usr.f_Append THEN idx.store ELSE {}
          /\ flx' = IF usr.f_Append /\ idx.ok THEN idx.store ELSE {}
      BY <1>1, <1>10, <2>1, <2>2 DEF NotYetRead, HasIndex, StartIndex
    <3>2. flx' = before /\ added' = <<>>
      BY <1>1, <2>1, <3>1 DEF FileOK
    <3>3. QED
      BY <1>1, <2>1, <3>2 DEF BooksInv, FileOK, HasIndex, NotYetRead, BooksKept, DeleteIsFirst,
                              GridIsPlaced, Keeps, NoOthers, AddsInCube
  <2>3. CASE inName # 1
    <3>0. flx' = flx /\ ~f_delete'
      BY <1>10, <2>3 DEF StartIndex
    <3>1. inName > 1 /\ flx' = flx /\ ~f_delete'
      BY <1>1, <1>2, <2>1, <2>3, <3>0 DEF CurOK
    <3>2. HasIndex /\ HasIndex'
      BY <2>1, <3>1 DEF HasIndex
    <3>3. BooksKept'
      <4>1. UNCHANGED KeysAdded /\ UNCHANGED added /\ \A i \in DOMAIN added : IsLast(i)' <=> IsLast(i)
        BY <2>1 DEF KeysAdded, IsLast, Data, VerOf, FieldOf, KeyOf
      <4>2. \A i \in DOMAIN added : Data(added[i])' = Data(added[i])
        BY <2>1 DEF Data, VerOf, FieldOf
      <4>3. Keeps(flx)' /\ NoOthers(flx)'
        BY <1>1, <2>1, <3>1, <3>2, <4>1 DEF BooksKept, Keeps, NoOthers
      <4>4. AddsInCube'
        BY <1>1, <2>1, <3>1, <3>2, <4>1, <4>2 DEF BooksKept, AddsInCube, Holds, KeyOf
      <4>5. QED
        BY <4>3, <4>4 DEF BooksKept
    <3>4. QED
      BY <1>1, <2>1, <3>1, <3>2, <3>3 DEF BooksInv, FileOK, NotYetRead, DeleteIsFirst, GridIsPlaced
  <2>4. QED
    BY <2>2, <2>3
<1>11. CASE ReadGrid \/ ReadFails \/ EndOfFile \/ OutputFails \/ InsertFails
  BY <1>1, <1>3, <1>11 DEF ReadGrid, ReadGrib2Record, ReadFails, EndOfFile, OutputFails,
                           InsertFails, HasIndex, CurOK, readerVars
<1>12. CASE OpenCube
  <2>1. GetOutputName(cur) = Cube /\ Cube \in Names
    BY <1>1, DatabaseAssumption DEF GetOutputName
  <2>2. pc' = "fill" /\ fltOffset' = Len(dat'[Cube]) /\ HasIndex /\ HasIndex'
    BY <1>1, <1>12, <2>1 DEF OpenCube, TypeOK, HasIndex
  <2>3. UNCHANGED <<files, before, added, flx, idx, usr, f_delete>>
    BY <1>12 DEF OpenCube, readerVars
  <2>4. BooksKept' /\ DeleteIsFirst'
    <3>1. CASE f_delete
      <4>1. added = <<>> /\ KeysAdded = {} /\ KeysAdded' = {}
        BY <1>1, <2>2, <2>3, <3>1 DEF DeleteIsFirst, KeysAdded
      <4>2. QED
        BY <1>1, <2>2, <2>3, <4>1 DEF BooksKept, DeleteIsFirst, Keeps, NoOthers, AddsInCube
    <3>2. CASE ~f_delete
      <4>1. dat' = dat
        BY <1>12, <3>2 DEF OpenCube
      <4>2. QED
        BY <1>1, <2>2, <2>3, <4>1, BooksUnchanged
    <3>3. QED
      BY <3>1, <3>2
  <2>5. QED
    BY <1>1, <2>2, <2>3, <2>4 DEF BooksInv, FileOK, NotYetRead, GridIsPlaced
<1>13. CASE FillCube
  <2>1. /\ GetOutputName(cur) = Cube /\ Cube \in Names
        /\ Data(cur) \in Block /\ dat[Cube] \in Seq(Block \cup {Torn})
    BY <1>1, <1>13, CurData, DatabaseAssumption DEF FillCube, CurOK, GetOutputName, TypeOK
  <2>2. /\ dat' = [dat EXCEPT ![Cube] = Append(@, Data(cur))]
        /\ pc = "fill" /\ pc' = "insert" /\ ~f_delete'
        /\ UNCHANGED <<idx, usr, flx, fltOffset, cur, files, before, added>>
    BY <1>13, <2>1 DEF FillCube, readerVars
  <2>3. HasIndex /\ HasIndex'
    BY <2>2 DEF HasIndex
  <2>4. BooksKept'
    BY <1>1, <2>1, <2>2, <2>3, BooksGrow
  <2>5. fltOffset = Len(dat[Cube]) /\ dat'[Cube] = Append(dat[Cube], Data(cur))
    BY <1>1, <2>1, <2>2 DEF GridIsPlaced, TypeOK
  <2>6. fltOffset < Len(dat'[Cube]) /\ dat'[Cube][fltOffset + 1] = Data(cur)
    BY <2>1, <2>5
  <2>7. Data(cur)' = Data(cur)
    BY <2>2 DEF Data, VerOf, FieldOf
  <2>8. GridIsPlaced'
    BY <2>2, <2>6, <2>7 DEF GridIsPlaced
  <2>9. QED
    BY <1>1, <2>2, <2>3, <2>4, <2>8 DEF BooksInv, FileOK, NotYetRead, DeleteIsFirst
<1>14. CASE InsertGrid
  <2>1. /\ pc = "insert" /\ ~f_delete /\ pc' \in {"open", "loop"} /\ inName > 0
        /\ UNCHANGED <<idx, f_delete, inName>>
    BY <1>1, <1>14 DEF InsertGrid, GridIsPlaced, CurOK, readerVars
  <2>2. HasIndex /\ HasIndex'
    BY <2>1 DEF HasIndex
  <2>3. BooksKept'
    BY <1>1, <1>14, <2>2, BooksInsert
  <2>4. QED
    BY <1>1, <2>1, <2>2, <2>3 DEF BooksInv, FileOK, NotYetRead, DeleteIsFirst, GridIsPlaced
<1>15. CASE OpenIndex
  <2>1. /\ UNCHANGED <<files, before, added, flx, dat, f_delete>>
        /\ HasIndex /\ HasIndex' /\ idx'.store = {} /\ pc' = "flush"
    BY <1>15 DEF OpenIndex, HasIndex, Unreadable, readerVars
  <2>2. QED
    BY <1>1, <2>1, BooksUnchanged DEF BooksInv, FileOK, NotYetRead, GridIsPlaced
<1>16. CASE FlushIndex
  BY <1>4, <1>16 DEF FlushIndex, FileOK
<1>17. CASE Crash
  BY <1>1, <1>4, <1>17 DEF Crash, FileOK
<1>18. CASE UNCHANGED vars
  <2>1. UNCHANGED <<files, inName, before, added, flx, dat, f_delete, idx, usr, pc, cur, fltOffset>>
    BY <1>18 DEF vars, readerVars
  <2>2. (HasIndex <=> HasIndex') /\ Data(cur)' = Data(cur)
    BY <2>1 DEF HasIndex, Data, VerOf, FieldOf
  <2>3. FileOK' /\ NotYetRead' /\ GridIsPlaced'
    BY <1>1, <2>1, <2>2 DEF FileOK, NotYetRead, GridIsPlaced
  <2>4. CASE HasIndex
    BY <1>1, <2>1, <2>2, <2>3, <2>4, BooksUnchanged DEF BooksInv
  <2>5. CASE ~HasIndex
    BY <2>2, <2>3, <2>5 DEF BooksInv, BooksKept, DeleteIsFirst
  <2>6. QED
    BY <2>4, <2>5
<1>19. ~OpenGridFile /\ ~FillGridFile /\ ~GridFileFails
  BY <1>1 DEF OpenGridFile, FillGridFile, GridFileFails
<1>20. QED
  BY <1>5, <1>6, <1>7, <1>8, <1>9, <1>10, <1>11, <1>12, <1>13, <1>14, <1>15, <1>16, <1>17,
     <1>18, <1>19 DEF Next, Terminated

(* When every run has -Cube, with or without -Append, the index that a run *)
(* writes keeps the entries it found whose keys it did not add again, has  *)
(* the last grid of every key it added, and has nothing else, whatever the *)
(* files hold and wherever runs fail or are killed.                        *)
THEOREM SavesWhatItAdded ==
    ASSUME \A r \in Requests : r.f_Cube
    PROVE  Spec => SaveKeepsAndAdds
<1>1. Init => TypeInv /\ BooksInv
  BY TypeInit, BooksInit
<1>2. TypeInv /\ BooksInv /\ [Next]_vars => (TypeInv /\ BooksInv)'
  BY TypeStep, BooksStep
<1>3. ASSUME BooksInv, FlushIndex
      PROVE  Keeps(idx'.store) /\ Adds(idx'.store) /\ NoOthers(idx'.store)
  <2>1. idx'.store = flx /\ HasIndex
    BY <1>3 DEF FlushIndex, HasIndex
  <2>2. Keeps(flx) /\ NoOthers(flx) /\ AddsInCube
    BY <1>3, <2>1 DEF BooksInv, BooksKept
  <2>3. Adds(flx)
    BY <2>2 DEF AddsInCube, Adds, Holds
  <2>4. QED
    BY <2>1, <2>2, <2>3
<1>4. QED
  BY <1>1, <1>2, <1>3, PTL DEF Spec, SaveKeepsAndAdds
-------------------------------------------------------------------------------
(* An index with entries of both kinds, in the cube and in files of their  *)
(* own (-nCube).  gribWriteFloat empties a grid's file before it writes    *)
(* it, so that for a moment the old entry designates nothing; it is right  *)
(* again, and in time, because only a grid of the same key has that name.  *)
KeyIn(fl, g) == KeyOf([ver |-> fl[g[1]][g[2]].ver, field |-> FieldOf(fl, g)])

(* GetOutputName gives grids of different keys different names.            *)
NamesTellKeys ==
    \A fl1, fl2 \in FileLists : \A g \in GridsOf(fl1), h \in GridsOf(fl2) :
       FieldOf(fl1, g).name = FieldOf(fl2, h).name => KeyIn(fl1, g) = KeyIn(fl2, h)

IsApart(e) ==
    e.place.name # Cube =>
       /\ e.place.offset = 0
       /\ \A fl \in FileLists : \A g \in GridsOf(fl) :
             FieldOf(fl, g).name = e.place.name => KeyIn(fl, g) = e.key

BeingRewritten(e) == pc = "fill" /\ ~usr.f_Cube /\ e.place.name = GetOutputName(cur)

EntriesInv == \A e \in idx.store \cup flx : IsApart(e) /\ (Designates(e) \/ BeingRewritten(e))
CubeIsSafe == f_delete /\ usr.f_Cube => idx.store = {} /\ flx = {}
FileIsPlaced ==
    LET name == GetOutputName(cur)
    IN  /\ pc = "fill" => fltOffset = Len(dat[name])
        /\ pc = "insert" => /\ ~(f_delete /\ usr.f_Cube)
                            /\ fltOffset < Len(dat[name])
                            /\ dat[name][fltOffset + 1] = Data(cur)
        /\ pc \in {"fill", "insert"} /\ ~usr.f_Cube => fltOffset = 0

BothInv == FileOK /\ EntriesInv /\ CubeIsSafe /\ FileIsPlaced

LEMMA BothInit == Init => BothInv
  BY DEF Init, Unreadable, BothInv, FileOK, EntriesInv, CubeIsSafe, FileIsPlaced

(* A step that writes to no grid file, and is not in the middle of one.    *)
LEMMA BothUnchanged ==
    ASSUME BothInv, UNCHANGED <<idx, dat, flx, f_delete, usr>>,
           pc # "fill", pc' \notin {"fill", "insert"}
    PROVE  BothInv'
  BY DEF BothInv, FileOK, EntriesInv, CubeIsSafe, FileIsPlaced, Designates, BeingRewritten,
         IsApart

(* The data of the current grid arrive in its own file.                    *)
LEMMA GridArrives ==
    ASSUME TypeInv, BothInv, pc = "fill", ~usr.f_Cube,
           dat' = [dat EXCEPT ![GetOutputName(cur)] = Append(@, Data(cur))],
           NEW e \in idx.store \cup flx
    PROVE  Designates(e)'
<1> DEFINE name == GetOutputName(cur)
<1>1. TypeOK /\ cur \in GridsOf(files) /\ files \in FileLists
  BY DEF TypeInv, CurOK, TypeOK, ReaderTypeOK
<1>2. /\ name \in Names /\ Data(cur) \in Block /\ Data(cur) # Torn
      /\ dat[name] \in Seq(Block \cup {Torn})
      /\ name = FieldOf(files, cur).name /\ name # Cube
  <2>1. /\ name \in Names /\ Data(cur) \in Block /\ Data(cur) # Torn
        /\ FieldOf(files, cur) \in Field
    BY <1>1, CurData
  <2>2. QED
    BY <1>1, <2>1, DatabaseAssumption DEF GetOutputName, TypeOK
<1>3. e \in Entries /\ IsApart(e) /\ (Designates(e) \/ BeingRewritten(e))
  BY <1>1 DEF TypeOK, BothInv, EntriesInv
<1>4. CASE e.place.name = name
  <2>1. e.place.offset = 0 /\ e.key = KeyOf(Data(cur))
    BY <1>1, <1>2, <1>3, <1>4 DEF IsApart, KeyIn, Data, VerOf
  <2>2. Len(dat[name]) = 0
    BY <1>1, <1>2 DEF BothInv, FileIsPlaced, IsApart
  <2>3. dat'[name] = Append(dat[name], Data(cur))
    BY <1>1, <1>2 DEF TypeOK
  <2>4. Len(dat'[name]) = 1 /\ dat'[name][1] = Data(cur)
    BY <1>2, <2>2, <2>3
  <2>5. QED
    BY <1>2, <1>4, <2>1, <2>4 DEF Designates
<1>5. CASE e.place.name # name
  BY <1>1, <1>2, <1>3, <1>5, GrowthKeeps DEF BeingRewritten
<1>6. QED
  BY <1>4, <1>5

LEMMA BothStep ==
    ASSUME \A r \in Requests : r.f_Append, \A r \in CanCrash : r.f_Cube, NamesTellKeys,
           TypeInv, BothInv, [Next]_vars
    PROVE  BothInv'
<1> USE DEF disk, run, Return, Leave
<1>1. /\ TypeOK /\ CurOK /\ usr.f_Append /\ files \in FileLists
      /\ FileOK /\ EntriesInv /\ CubeIsSafe /\ FileIsPlaced
  BY DEF TypeInv, TypeOK, ReaderTypeOK, BothInv
<1>2. idx.store \subseteq Entries /\ flx \subseteq Entries
  BY <1>1 DEF TypeOK
<1>3. pc \in {"write", "fill", "insert"} =>
         /\ cur \in GridsOf(files) /\ Data(cur) \in Block /\ Data(cur) # Torn
         /\ GetOutputName(cur) \in Names
         /\ usr.f_Cube => GetOutputName(cur) = Cube
         /\ ~usr.f_Cube => /\ GetOutputName(cur) = FieldOf(files, cur).name
                           /\ GetOutputName(cur) # Cube
  <2>1. ASSUME pc \in {"write", "fill", "insert"}
        PROVE  /\ cur \in GridsOf(files) /\ Data(cur) \in Block /\ Data(cur) # Torn
               /\ GetOutputName(cur) \in Names /\ FieldOf(files, cur) \in Field
    BY <1>1, <2>1, CurData DEF CurOK
  <2>2. QED
    BY <2>1, DatabaseAssumption DEF GetOutputName
<1>4. CASE RunAgain
  BY <1>1, <1>4 DEF RunAgain, BothInv, FileOK, EntriesInv, CubeIsSafe, FileIsPlaced,
                    Designates, BeingRewritten, IsApart
<1>5. CASE \/ OpenFile \/ OpenFails \/ NoMoreFiles \/ ReadGrid \/ ReadFails \/ EndOfFile
           \/ OutputFails \/ InsertFails \/ SaveFails
  BY <1>5, BothUnchanged DEF OpenFile, OpenFails, NoMoreFiles, ReadGrid, ReadFails,
                             EndOfFile, OutputFails, InsertFails, SaveFails
<1>6. CASE FindMessage
  BY <1>6, BothUnchanged DEF FindMessage
<1>7. CASE StartIndex
  <2>1. pc = "index" /\ pc' = "loop" /\ UNCHANGED <<idx, dat, usr>>
    BY <1>7 DEF StartIndex
  <2>2. flx' \subseteq idx.store \cup flx
    BY <1>7 DEF StartIndex
  <2>3. f_delete' => idx.store = {} /\ flx' = {}
    BY <1>1, <1>7 DEF StartIndex, FileOK
  <2>4. QED
    BY <1>1, <2>1, <2>2, <2>3 DEF BothInv, FileOK, EntriesInv, CubeIsSafe, FileIsPlaced,
                                  Designates, BeingRewritten, IsApart
<1>8. CASE OpenGridFile
  <2> DEFINE name == GetOutputName(cur)
  <2>1. /\ pc = "write" /\ pc' = "fill" /\ ~usr.f_Cube /\ fltOffset' = 0
        /\ dat' = [dat EXCEPT ![name] = <<>>]
        /\ UNCHANGED <<idx, flx, f_delete, usr, cur, files>>
    BY <1>8 DEF OpenGridFile, readerVars
  <2>2. name' = name /\ name \in Names
    BY <1>3, <2>1 DEF GetOutputName, FieldOf
  <2>3. dat'[name] = <<>> /\ \A n \in Names \ {name} : dat'[n] = dat[n]
    BY <1>1, <2>1, <2>2 DEF TypeOK
  <2>4. FileIsPlaced'
    BY <2>1, <2>2, <2>3 DEF FileIsPlaced
  <2>5. ASSUME NEW e \in idx.store \cup flx
        PROVE  Designates(e)' \/ BeingRewritten(e)'
    <3>1. CASE e.place.name = name
      BY <2>1, <2>2, <3>1 DEF BeingRewritten
    <3>2. CASE e.place.name # name
      <4>1. e.place.name \in Names
        BY <1>2 DEF Entries, Place
      <4>2. Designates(e)
        BY <1>1, <2>1 DEF EntriesInv, BeingRewritten
      <4>3. QED
        BY <2>3, <3>2, <4>1, <4>2 DEF Designates
    <3>3. QED
      BY <3>1, <3>2
  <2>6. EntriesInv'
    BY <1>1, <2>1, <2>5 DEF EntriesInv, IsApart
  <2>7. QED
    BY <1>1, <2>1, <2>4, <2>6 DEF BothInv, FileOK, CubeIsSafe
<1>9. CASE OpenCube
  <2>1. /\ pc = "write" /\ pc' = "fill" /\ usr.f_Cube
        /\ dat' = (IF f_delete THEN [dat EXCEPT ![Cube] = <<>>] ELSE dat)
        /\ fltOffset' = (IF f_delete THEN 0 ELSE Len(dat[Cube]))
        /\ UNCHANGED <<idx, flx, f_delete, usr, cur, files>>
    BY <1>3, <1>9 DEF OpenCube, readerVars
  <2>2. GetOutputName(cur)' = Cube
    BY <2>1 DEF GetOutputName
  <2>3. fltOffset' = Len(dat'[Cube])
    BY <1>1, <2>1, DatabaseAssumption DEF TypeOK
  <2>4. FileIsPlaced'
    BY <2>1, <2>2, <2>3 DEF FileIsPlaced
  <2>5. EntriesInv'
    <3>1. CASE f_delete
      BY <1>1, <2>1, <3>1 DEF CubeIsSafe, EntriesInv
    <3>2. CASE ~f_delete
      BY <1>1, <2>1, <3>2 DEF EntriesInv, Designates, BeingRewritten, IsApart
    <3>3. QED
      BY <3>1, <3>2
  <2>6. QED
    BY <1>1, <2>1, <2>4, <2>5 DEF BothInv, FileOK, CubeIsSafe
<1>10. CASE FillGridFile \/ GridFileFails \/ FillCube
  <2> DEFINE name == GetOutputName(cur)
  <2>1. /\ pc = "fill" /\ pc' \in {"insert", "save"}
        /\ dat' = [dat EXCEPT ![name] = Append(@, Data(cur))]
        /\ UNCHANGED <<idx, flx, usr, fltOffset, cur, files>>
        /\ f_delete' => f_delete /\ ~usr.f_Cube
    BY <1>10, SMTT(20) DEF FillGridFile, GridFileFails, FillCube, readerVars
  <2>2. name' = name /\ Data(cur)' = Data(cur)
    BY <2>1, Zenon DEF GetOutputName, Data, VerOf, FieldOf
  <2>3. dat[name] \in Seq(Block \cup {Torn}) /\ dat'[name] = Append(dat[name], Data(cur))
    BY <1>1, <1>3, <2>1 DEF TypeOK
  <2>4. fltOffset = Len(dat[name]) /\ (~usr.f_Cube => fltOffset = 0)
    BY <1>1, <2>1 DEF FileIsPlaced
  <2>5. fltOffset < Len(dat'[name]) /\ dat'[name][fltOffset + 1] = Data(cur)
    BY <1>3, <2>1, <2>3, <2>4
  <2>6. FileIsPlaced'
    BY <2>1, <2>2, <2>4, <2>5 DEF FileIsPlaced
  <2>7. ASSUME NEW e \in idx.store \cup flx PROVE Designates(e)'
    <3>1. CASE usr.f_Cube
      <4>1. Designates(e) /\ e \in Entries
        BY <1>1, <1>2, <3>1 DEF EntriesInv, BeingRewritten
      <4>2. QED
        BY <1>1, <1>3, <2>1, <4>1, GrowthKeeps
    <3>2. CASE ~usr.f_Cube
      BY <2>1, <3>2, GridArrives
    <3>3. QED
      BY <3>1, <3>2
  <2>8. EntriesInv'
    BY <1>1, <2>1, <2>7 DEF EntriesInv, IsApart
  <2>9. QED
    BY <1>1, <2>1, <2>6, <2>8 DEF BothInv, FileOK, CubeIsSafe
<1>11. CASE InsertGrid
  <2>1. PICK new : new = [key |-> KeyOf(Data(cur)),
                          place |-> [name |-> GetOutputName(cur), offset |-> fltOffset]]
    OBVIOUS
  <2>2. /\ pc = "insert" /\ pc' \in {"open", "loop"} /\ flx' \subseteq flx \cup {new}
        /\ UNCHANGED <<idx, dat, usr, f_delete>>
    BY <1>11, <2>1 DEF InsertGrid, Store!Put
  <2>3. Designates(new)
    BY <1>1, <1>3, <2>1, <2>2 DEF FileIsPlaced, Designates
  <2>4. IsApart(new)
    <3>1. CASE usr.f_Cube
      BY <1>3, <2>1, <2>2, <3>1 DEF IsApart
    <3>2. CASE ~usr.f_Cube
      <4>1. new.place.offset = 0 /\ new.place.name = FieldOf(files, cur).name
        BY <1>1, <1>3, <2>1, <2>2, <3>2 DEF FileIsPlaced
      <4>2. new.key = KeyIn(files, cur)
        BY <2>1 DEF KeyIn, Data, VerOf
      <4>3. QED
        BY <1>1, <1>3, <2>2, <4>1, <4>2 DEF IsApart, NamesTellKeys
    <3>3. QED
      BY <3>1, <3>2
  <2>5. \A e \in idx.store \cup flx' : IsApart(e) /\ Designates(e)
    BY <1>1, <2>2, <2>3, <2>4 DEF EntriesInv, BeingRewritten
  <2>6. CubeIsSafe'
    BY <1>1, <2>2 DEF FileIsPlaced, CubeIsSafe
  <2>7. QED
    BY <1>1, <2>2, <2>5, <2>6 DEF BothInv, FileOK, EntriesInv, FileIsPlaced, Designates,
                                  IsApart
<1>12. CASE OpenIndex
  BY <1>1, <1>12 DEF OpenIndex, Unreadable, BothInv, FileOK, EntriesInv, CubeIsSafe, FileIsPlaced,
                     Designates, BeingRewritten, IsApart
<1>13. CASE FlushIndex
  BY <1>1, <1>13 DEF FlushIndex, BothInv, FileOK, EntriesInv, CubeIsSafe, FileIsPlaced,
                     Designates, BeingRewritten, IsApart
<1>14. CASE Crash
  <2>1. usr.f_Cube /\ pc' = "idle" /\ UNCHANGED <<idx, flx, f_delete, usr>>
    BY <1>14 DEF Crash
  <2>2. ASSUME NEW e \in idx.store \cup flx PROVE Designates(e)'
    <3>1. Designates(e) /\ e \in Entries
      BY <1>1, <1>2, <2>1 DEF EntriesInv, BeingRewritten
    <3>2. CASE UNCHANGED dat
      BY <3>1, <3>2 DEF Designates
    <3>3. CASE pc = "fill" /\ dat' = [dat EXCEPT ![GetOutputName(cur)] = Append(@, Torn)]
      BY <1>1, <1>3, <3>1, <3>3, GrowthKeeps, Zenon
    <3>4. QED
      BY <1>14, <3>2, <3>3 DEF Crash
  <2>3. EntriesInv'
    BY <1>1, <2>1, <2>2 DEF EntriesInv, IsApart
  <2>4. QED
    BY <1>1, <2>1, <2>3 DEF BothInv, FileOK, CubeIsSafe, FileIsPlaced
<1>15. CASE UNCHANGED vars
  BY <1>1, <1>15, Zenon DEF vars, readerVars, BothInv, FileOK, EntriesInv, CubeIsSafe, FileIsPlaced,
     Designates, BeingRewritten, IsApart, GetOutputName, Data, VerOf, FieldOf
<1>16. QED
  BY <1>4, <1>5, <1>6, <1>7, <1>8, <1>9, <1>10, <1>11, <1>12, <1>13, <1>14, <1>15
  DEF Next, Terminated

(* In a database of cubes and of grid files, every entry of the index      *)
(* designates its grid whenever the command is not running: after any      *)
(* number of runs with -Append, whatever they fail at, if only grids of    *)
(* one key have the same name and no run with grid files is killed.        *)
THEOREM ReturnsSound ==
    ASSUME \A r \in Requests : r.f_Append, \A r \in CanCrash : r.f_Cube, NamesTellKeys
    PROVE  Spec => []ReturnedIndexIsSound
<1>1. Init => TypeInv /\ BothInv
  BY TypeInit, BothInit
<1>2. TypeInv /\ BothInv /\ [Next]_vars => (TypeInv /\ BothInv)'
  BY TypeStep, BothStep
<1>3. BothInv => ReturnedIndexIsSound
  BY DEF BothInv, EntriesInv, BeingRewritten, ReturnedIndexIsSound, IndexSound
<1>4. QED
  BY <1>1, <1>2, <1>3, PTL DEF Spec
-------------------------------------------------------------------------------
(* Why -Append forgets no key.  As soon as a run has an index in memory,   *)
(* the keys of the index file are in it, and when it truncates the file,   *)
(* it goes on to write them; only a kill in between (cutOff) loses them.   *)
HasKey(store, k) == \E e \in store : e.key = k

CarryInv ==
    /\ FileOK
    /\ pc = "flush" => ~idx.ok
    /\ HasIndex => \A e \in idx.store : HasKey(flx, e.key)

Remembers(k) == \/ cutOff
                \/ idx.ok /\ IsIndexed(k)
                \/ pc = "flush" /\ HasKey(flx, k)

LEMMA CarryInit == Init => CarryInv
  BY DEF Init, ReaderInit, Unreadable, CarryInv, FileOK, HasIndex

LEMMA CarryStep ==
    ASSUME \A r \in Requests : r.f_Append, TypeInv, CarryInv, [Next]_vars
    PROVE  CarryInv'
<1> USE DEF disk, run, Return, Leave
<1>1. TypeOK /\ CurOK /\ usr.f_Append /\ FileOK
  BY DEF TypeInv, TypeOK, CarryInv
<1>2. inName \in Nat
  BY <1>1, FilesType DEF TypeOK, ReaderTypeOK
<1>3. ASSUME UNCHANGED <<idx, flx>>, HasIndex' => HasIndex, pc' # "flush"
      PROVE  CarryInv'
  BY <1>1, <1>3 DEF CarryInv, FileOK, HasKey
<1>4. CASE RunAgain
  BY <1>1, <1>4 DEF RunAgain, CarryInv, FileOK, HasIndex
<1>5. CASE OpenFile \/ OpenFails \/ FindMessage \/ SaveFails \/ Crash
  BY <1>2, <1>3, <1>5 DEF OpenFile, OpenFails, FindMessage, SaveFails, Crash, HasIndex
<1>6. CASE NoMoreFiles
  <2>1. inName > 0
    BY <1>1, <1>6, FilesType, DatabaseAssumption DEF NoMoreFiles, TypeOK, ReaderTypeOK
  <2>2. QED
    BY <1>3, <1>6, <2>1 DEF NoMoreFiles, HasIndex
<1>7. CASE StartIndex
  <2>1. pc = "index" /\ pc' = "loop" /\ UNCHANGED <<idx, usr>>
    BY <1>7 DEF StartIndex
  <2>2. CASE inName = 1
    <3>1. flx' = IF idx.ok THEN idx.store ELSE {}
      BY <1>1, <1>7, <2>2 DEF StartIndex
    <3>2. QED
      BY <1>1, <2>1, <3>1 DEF CarryInv, FileOK, HasKey
  <2>3. CASE inName # 1
    <3>1. flx' = flx /\ HasIndex
      BY <1>1, <1>2, <1>7, <2>1, <2>3 DEF StartIndex, CurOK, HasIndex
    <3>2. QED
      BY <1>3, <2>1, <3>1
  <2>4. QED
    BY <2>2, <2>3
<1>8. CASE \/ ReadGrid \/ ReadFails \/ EndOfFile \/ OpenGridFile \/ OpenCube \/ OutputFails
           \/ FillGridFile \/ GridFileFails \/ FillCube \/ InsertFails
  BY <1>1, <1>3, <1>8
  DEF ReadGrid, ReadGrib2Record, ReadFails, EndOfFile, OpenGridFile, OpenCube, OutputFails,
      FillGridFile, GridFileFails, FillCube, InsertFails, HasIndex, CurOK, readerVars
<1>9. CASE InsertGrid
  <2>1. ASSUME NEW k, HasKey(flx, k) PROVE HasKey(flx', k)
    <3>1. PICK new : /\ new.key = KeyOf(Data(cur))
                     /\ flx' = {e \in flx : e.key # KeyOf(Data(cur))} \cup {new}
      BY <1>9 DEF InsertGrid, Store!Put
    <3>2. PICK e \in flx : e.key = k
      BY <2>1 DEF HasKey
    <3>3. QED
      BY <3>1, <3>2 DEF HasKey
  <2>2. HasIndex /\ idx' = idx /\ pc' # "flush"
    BY <1>9 DEF InsertGrid, HasIndex
  <2>3. QED
    BY <1>1, <2>1, <2>2 DEF CarryInv, FileOK, HasKey
<1>10. CASE OpenIndex
  BY <1>10 DEF OpenIndex, Unreadable, CarryInv, FileOK
<1>11. CASE FlushIndex
  BY <1>11 DEF FlushIndex, CarryInv, FileOK, HasIndex
<1>12. CASE UNCHANGED vars
  BY <1>12 DEF vars, readerVars, CarryInv, FileOK, HasIndex, HasKey
<1>13. QED
  BY <1>4, <1>5, <1>6, <1>7, <1>8, <1>9, <1>10, <1>11, <1>12 DEF Next, Terminated

LEMMA RemembersStep ==
    ASSUME NEW k, CarryInv, Remembers(k), [Next]_vars
    PROVE  Remembers(k)'
<1> USE DEF disk, run, Return, Leave
<1>1. CASE OpenIndex
  <2>1. HasIndex
    BY <1>1 DEF OpenIndex, HasIndex
  <2>2. IsIndexed(k) => HasKey(flx, k)
    BY <2>1 DEF CarryInv, IsIndexed, HasKey
  <2>3. QED
    BY <1>1, <2>2 DEF OpenIndex, Remembers, HasKey
<1>2. CASE FlushIndex
  BY <1>2 DEF FlushIndex, CarryInv, Remembers, HasKey, IsIndexed
<1>3. CASE Crash
  BY <1>3 DEF Crash, Remembers, HasKey, IsIndexed
<1>4. CASE \/ RunAgain \/ OpenFile \/ OpenFails \/ NoMoreFiles \/ FindMessage \/ StartIndex
           \/ ReadGrid \/ ReadFails \/ EndOfFile \/ OpenGridFile \/ OpenCube \/ OutputFails
           \/ FillGridFile \/ GridFileFails \/ FillCube \/ InsertGrid \/ InsertFails
           \/ SaveFails
  <2>1. UNCHANGED <<idx, cutOff>> /\ pc # "flush"
    BY <1>4 DEF RunAgain, OpenFile, OpenFails, NoMoreFiles, FindMessage, StartIndex, ReadGrid,
                ReadFails, EndOfFile, OpenGridFile, OpenCube, OutputFails, FillGridFile,
                GridFileFails, FillCube, InsertGrid, InsertFails, SaveFails
  <2>2. QED
    BY <2>1 DEF Remembers, IsIndexed
<1>5. CASE UNCHANGED vars
  BY <1>5 DEF vars, Remembers, HasKey, IsIndexed
<1>6. QED
  BY <1>1, <1>2, <1>3, <1>4, <1>5 DEF Next, Terminated

(* When every run has -Append, a key that has once been in the index file  *)
(* is in every later one that can be read, with cubes and with grid files, *)
(* whatever the runs fail at, and if one is killed, unless it was between  *)
(* the truncation of the index and its write.                              *)
THEOREM AppendRemembers ==
    ASSUME \A r \in Requests : r.f_Append
    PROVE  Spec => AppendForgetsNothing
<1>1. Init => TypeInv /\ CarryInv
  BY TypeInit, CarryInit
<1>2. TypeInv /\ CarryInv /\ [Next]_vars => (TypeInv /\ CarryInv)'
  BY TypeStep, CarryStep
<1>3. ASSUME NEW k \in {KeyOf(b) : b \in Block}
      PROVE  Spec => [](IsIndexed(k) => [](idx.ok /\ ~cutOff => IsIndexed(k)))
  <2>1. CarryInv /\ IsIndexed(k) => Remembers(k)
    BY DEF CarryInv, FileOK, IsIndexed, Remembers
  <2>2. CarryInv /\ Remembers(k) /\ [Next]_vars => Remembers(k)'
    BY RemembersStep
  <2>3. CarryInv /\ Remembers(k) => (idx.ok /\ ~cutOff => IsIndexed(k))
    BY DEF CarryInv, Remembers
  <2>4. QED
    BY <1>1, <1>2, <2>1, <2>2, <2>3, PTL DEF Spec
<1>4. QED
  BY <1>3 DEF AppendForgetsNothing
-------------------------------------------------------------------------------
(***************************************************************************)
(* In order: with -msg 0 a run adds the grids one after the other.  The    *)
(* grids that are left in IS->ipack at the end of a file are read during   *)
(* the next one that has a message; until then the position in the files   *)
(* (FilePos) and the grid that is read next (Pos) are apart, but no grid   *)
(* lies between the end of the message in IS->ipack and FilePos.           *)
(***************************************************************************)
FilePos == IF pc = "open" THEN <<inName + 1, 0, 0>> ELSE <<inName, msgPos + 1, 0>>
Pos == IF f_endMsg = 1 THEN FilePos ELSE <<ipack[1], ipack[2], subgNum>>

Behind == <<ipack[1], ipack[2] + 1, 0>>

ReaderInv == IF f_endMsg = 1 THEN subgNum = 0
             ELSE subgNum > 0 /\ GridsBefore(files, Behind) = GridsBefore(files, FilePos)

OrderInv ==
    usr.msgNum = 0 =>
       /\ pc # "find" /\ (pc = "index" => msgPos = 0)
       /\ pc \notin {"save", "flush", "idle"} => ret = 0 /\ ReaderInv
       /\ pc \in {"open", "index", "loop"} =>
             Delivery!Delivered = GridsBefore(files, Pos)
       /\ pc \in {"write", "fill", "insert"} =>
             /\ cur \in Asked
             /\ Delivery!Delivered = GridsBefore(files, cur)
             /\ GridsBefore(files, Pos) = GridsBefore(files, cur) \cup {cur}
       /\ pc \in {"save", "flush"} /\ ret = 0 => Asked \subseteq Delivery!Delivered

LEMMA GridParts ==
    ASSUME NEW fl \in FileLists, NEW g \in GridsOf(fl)
    PROVE  /\ g \in Grid /\ g = <<g[1], g[2], g[3]>>
           /\ g[1] \in 1..Len(fl) /\ g[2] \in 1..Len(fl[g[1]])
           /\ g[3] \in 0..(NumGrids(fl, g[1], g[2]) - 1)
           /\ g[1] \in Nat /\ g[2] \in Nat /\ g[3] \in Nat
<1>1. PICK f \in 1..Len(fl) : \E m \in 1..Len(fl[f]) :
              \E s \in 0..(NumGrids(fl, f, m) - 1) : g = <<f, m, s>>
  BY GridsOfNames
<1>2. PICK m \in 1..Len(fl[f]) : \E s \in 0..(NumGrids(fl, f, m) - 1) : g = <<f, m, s>>
  BY <1>1
<1>3. PICK s \in 0..(NumGrids(fl, f, m) - 1) : g = <<f, m, s>>
  BY <1>2
<1>4. g \in Grid
  BY <1>3, GridData
<1>5. QED
  BY <1>3, <1>4 DEF Grid

LEMMA OutAppend ==
    ASSUME TypeOK, usr.msgNum = 0, usr' = usr, NEW g \in Grid, added' = Append(added, g)
    PROVE  /\ Out' = Append(Out, g)
           /\ Delivery!Delivered' = Delivery!Delivered \cup {g}
<1>1. Out = added /\ Out' = Append(Out, g) /\ Out \in Seq(Grid)
  BY DEF Out, TypeOK
<1>2. Len(Out') = Len(Out) + 1 /\ Len(Out) \in Nat
  BY <1>1
<1>3. \A i \in 1..Len(Out) : Out'[i] = Out[i]
  BY <1>1
<1>4. Out'[Len(Out) + 1] = g
  BY <1>1
<1>5. 1..Len(Out') = 1..Len(Out) \cup {Len(Out) + 1}
  BY <1>2
<1>6. QED
  BY <1>1, <1>3, <1>4, <1>5 DEF Delivery!Delivered

(* ReadGrid reads the grid at Pos, moves Pos behind it, and never comes to *)
(* the tail of the last message.                                           *)
LEMMA ReadGridMoves ==
    ASSUME TypeInv, ReaderInv, ReadGrid
    PROVE  /\ GridRead = Pos
           /\ Pos \in GridsOf(files) \ LastTail
           /\ ReaderInv'
           /\ GridsBefore(files, Pos') = GridsBefore(files, Pos) \cup {Pos}
<1> DEFINE f == Source[1]
           m == Source[2]
           s == Wanted
           h == <<inName, msgPos + 1, 0>>
<1>1. /\ ReaderTypeOK /\ inName > 0 /\ pc = "loop" /\ pc' = "write" /\ ~AtEOF
      /\ files \in FileLists /\ files' = files /\ inName' = inName
      /\ ReadGrib2Record /\ ReadSucceeds
  BY DEF TypeInv, TypeOK, CurOK, ReadGrid, ReadGrib2Record, ReaderTypeOK
<1>2. /\ f \in 1..Len(files) /\ m \in 1..Len(files[f])
      /\ s \in 0..(NumGrids(files, f, m) - 1)
      /\ f \in Nat /\ m \in Nat /\ s \in Nat
  <2>1. /\ f \in 1..Len(files) /\ m \in 1..Len(files[f])
        /\ s \in 0..(NumGrids(files, f, m) - 1)
    BY <1>1, SourceIsMessage
  <2>2. <<f, m, s>> \in Grid
    BY <1>1, <2>1, GridData
  <2>3. QED
    BY <2>1, <2>2 DEF Grid
<1>3. /\ f_endMsg = 1 => f = inName /\ m = msgPos + 1
      /\ f_endMsg # 1 => f = ipack[1] /\ m = ipack[2]
      /\ Source = <<f, m>>
  BY <1>1 DEF Source, ReaderTypeOK
<1>4. s = subgNum
  <2>1. CASE f_endMsg = 1
    BY <2>1 DEF ReaderInv, Wanted
  <2>2. CASE f_endMsg # 1
    <3>1. SourceMsg.ver = 2
      BY <1>1, <2>2 DEF ReaderTypeOK, SourceMsg, Source
    <3>2. QED
      BY <3>1 DEF Wanted
  <2>3. QED
    BY <2>1, <2>2
<1>5. Pos = <<f, m, s>> /\ GridRead = Pos /\ FilePos = h
  BY <1>1, <1>3, <1>4 DEF Pos, FilePos, GridRead, ReaderInv
<1>6. Pos \in GridsOf(files)
  BY <1>1, <1>2, <1>5, GridData
<1>7. h \in GridsOf(files) /\ msgPos \in Nat /\ inName \in Nat
  <2>1. msgPos + 1 \in 1..Len(files[inName]) /\ inName \in 1..Len(files) /\ msgPos \in Nat
    BY <1>1, FilesType DEF ReaderTypeOK, AtEOF
  <2>2. NumGrids(files, inName, msgPos + 1) \in Nat \ {0}
    BY <1>1, <2>1, FilesType DEF NumGrids
  <2>3. 0 \in 0..(NumGrids(files, inName, msgPos + 1) - 1)
    BY <2>2
  <2>4. h \in GridsOf(files)
    BY <1>1, <2>1, <2>3, GridData
  <2>5. Len(files) \in Nat
    BY <1>1, FilesType
  <2>6. QED
    BY <2>1, <2>4, <2>5
<1>8. f_endMsg # 1 => \/ f < inName
                      \/ f = inName /\ m < msgPos + 1
  <2>1. SUFFICES ASSUME f_endMsg # 1 PROVE f < inName \/ (f = inName /\ m < msgPos + 1)
    OBVIOUS
  <2>2. GridsBefore(files, <<f, m + 1, 0>>) = GridsBefore(files, h)
    BY <1>3, <1>5, <2>1 DEF ReaderInv, Behind
  <2>3. ~Before(h, h)
    BY <1>7 DEF Before
  <2>4. ~Before(h, <<f, m + 1, 0>>)
    BY <1>7, <2>2, <2>3 DEF GridsBefore
  <2>5. QED
    BY <1>2, <1>7, <2>4 DEF Before
<1>9. Pos \notin LastTail
  <2>1. CASE f_endMsg = 1
    <3>1. s = 0
      BY <1>4, <2>1 DEF ReaderInv
    <3>2. QED
      BY <1>5, <3>1 DEF LastTail
  <2>2. CASE f_endMsg # 1
    <3>1. Before(Pos, h) /\ ~(h[1] = Pos[1] /\ h[2] = Pos[2])
      BY <1>2, <1>5, <1>7, <1>8, <2>2 DEF Before
    <3>2. QED
      BY <1>7, <3>1 DEF LastTail
  <2>3. QED
    BY <2>1, <2>2
<1>10. /\ msgPos' = IF f_endMsg = 1 THEN msgPos + 1 ELSE msgPos
       /\ ipack' = <<f, m>>
       /\ f_endMsg' = IF s + 1 = NumGrids(files, f, m) THEN 1 ELSE 0
       /\ subgNum' = IF f_endMsg' # 1 THEN s + 1 ELSE 0
  BY <1>1, <1>3, <1>4 DEF ReadGrib2Record, ReadGrid, SourceMsg, NumGrids
<1>11. /\ FilePos' = <<inName, msgPos' + 1, 0>>
       /\ Pos' = IF f_endMsg' = 1 THEN FilePos' ELSE <<f, m, s + 1>>
       /\ Behind' = <<f, m + 1, 0>>
  <2> HIDE DEF f, m, s
  <2>1. QED
    BY <1>1, <1>10 DEF FilePos, Pos, Behind
<1>12. GridsBefore(files, <<f, m + 1, 0>>) = GridsBefore(files, FilePos')
  <2>1. CASE f_endMsg = 1
    BY <1>3, <1>10, <1>11, <2>1
  <2>2. CASE f_endMsg # 1
    BY <1>3, <1>5, <1>10, <1>11, <2>2 DEF ReaderInv, Behind
  <2>3. QED
    BY <2>1, <2>2
<1> HIDE DEF f, m, s
<1>13. ReaderInv'
  <2>1. GridsBefore(files, Behind)' = GridsBefore(files, FilePos)'
    BY <1>1, <1>11, <1>12 DEF GridsBefore
  <2>2. CASE f_endMsg' = 1
    BY <1>10, <2>2 DEF ReaderInv
  <2>3. CASE f_endMsg' # 1
    BY <1>2, <1>10, <2>1, <2>3 DEF ReaderInv
  <2>4. QED
    BY <2>2, <2>3
<1>14. GridsBefore(files, Pos') = GridsBefore(files, After(files, f, m, s))
  BY <1>10, <1>11, <1>12 DEF After
<1>15. GridsBefore(files, Pos') = GridsBefore(files, Pos) \cup {Pos}
  BY <1>1, <1>2, <1>5, <1>14, GridsBeforeAfter
<1>16. QED
  BY <1>5, <1>6, <1>9, <1>13, <1>15

LEMMA OrderInit == Init => OrderInv
<1> SUFFICES ASSUME Init, usr.msgNum = 0 PROVE OrderInv
  BY DEF OrderInv
<1>1. /\ pc = "open" /\ inName = 0 /\ f_endMsg = 1 /\ subgNum = 0 /\ ret = 0 /\ added = <<>>
      /\ files \in FileLists
  BY DEF Init, ReaderInit
<1>2. Delivery!Delivered = {}
  BY <1>1 DEF Out, Delivery!Delivered
<1>3. Pos = <<1, 0, 0>>
  BY <1>1 DEF Pos, FilePos
<1>4. QED
  BY <1>1, <1>2, <1>3, GridsBeforeEnds DEF OrderInv, ReaderInv

(* Steps within a run that add nothing, and read nothing.                  *)
LEMMA OrderMoves ==
    ASSUME OrderInv, UNCHANGED <<files, usr, added, ipack, f_endMsg, subgNum, ret>>,
           pc \in {"open", "index", "loop"}, pc' \in {"open", "index", "loop"},
           pc' = "index" => msgPos' = 0,
           GridsBefore(files, FilePos') = GridsBefore(files, FilePos)
    PROVE  OrderInv'
<1> SUFFICES ASSUME usr.msgNum = 0 PROVE OrderInv'
  BY DEF OrderInv
<1>1. Delivery!Delivered' = Delivery!Delivered
  BY DEF Delivery!Delivered, Out
<1>2. Behind' = Behind /\ GridsBefore(files, Behind)' = GridsBefore(files, Behind)
  BY DEF Behind, GridsBefore
<1>3. GridsBefore(files, Pos)' = GridsBefore(files, Pos)
  BY DEF Pos, GridsBefore
<1>4. GridsBefore(files, FilePos)' = GridsBefore(files, FilePos)
  BY DEF GridsBefore
<1>5. ReaderInv'
  BY <1>2, <1>4 DEF OrderInv, ReaderInv
<1>6. QED
  BY <1>1, <1>3, <1>5 DEF OrderInv

(* Steps within a run, between the reading of a grid and its insertion.    *)
LEMMA OrderWrites ==
    ASSUME TypeInv, OrderInv, UNCHANGED <<readerVars, usr, added, ret, cur>>,
           pc \in {"write", "fill", "insert"}, pc' \in {"write", "fill", "insert"}
    PROVE  OrderInv'
<1> SUFFICES ASSUME usr.msgNum = 0 PROVE OrderInv'
  BY DEF OrderInv
<1>1. Delivery!Delivered' = Delivery!Delivered /\ Asked' = Asked
  BY DEF Delivery!Delivered, Out, Asked, LastTail, readerVars
<1>2. UNCHANGED <<Pos, FilePos, Behind>>
  BY DEF Pos, FilePos, Behind, readerVars
<1>3. ReaderInv'
  BY <1>2 DEF OrderInv, ReaderInv, GridsBefore, readerVars
<1>4. QED
  BY <1>1, <1>2, <1>3 DEF OrderInv, GridsBefore, readerVars

(* With every grid before the end of the last file either delivered or in  *)
(* the tail of the last message, all that was asked for is delivered.      *)
LEMMA AllBeforeTheEnd ==
    ASSUME TypeInv, OrderInv, NoMoreFiles, usr.msgNum = 0
    PROVE  Asked \subseteq Delivery!Delivered
<1>1. /\ files \in FileLists /\ pc = "open" /\ inName = Len(files)
      /\ Delivery!Delivered = GridsBefore(files, Pos) /\ ReaderInv
  BY DEF TypeInv, TypeOK, ReaderTypeOK, NoMoreFiles, OrderInv
<1>2. FilePos = <<Len(files) + 1, 0, 0>> /\ GridsBefore(files, FilePos) = GridsOf(files)
  BY <1>1, GridsBeforeEnds DEF FilePos
<1>3. CASE f_endMsg = 1
  BY <1>1, <1>2, <1>3 DEF Pos, Asked
<1>4. CASE f_endMsg # 1
  <2>1. /\ GridsBefore(files, Behind) = GridsOf(files) /\ Pos = <<ipack[1], ipack[2], subgNum>>
        /\ subgNum > 0 /\ subgNum \in Nat /\ ipack[1] \in Nat /\ ipack[2] \in Nat
    BY <1>1, <1>2, <1>4 DEF ReaderInv, Pos, TypeInv, TypeOK, ReaderTypeOK
  <2>2. ASSUME NEW g \in GridsOf(files), ~Before(g, Pos)
        PROVE  g \in LastTail
    <3>1. \A h \in GridsOf(files) : Before(h, Behind) /\ h[1] \in Nat /\ h[2] \in Nat /\ h[3] \in Nat
      BY <1>1, <2>1, GridParts DEF GridsBefore
    <3>2. g[1] = ipack[1] /\ g[2] = ipack[2] /\ g[3] > 0
      BY <2>1, <2>2, <3>1 DEF Before, Behind
    <3>3. ASSUME NEW h \in GridsOf(files), Before(g, h) PROVE h[1] = g[1] /\ h[2] = g[2]
      BY <2>1, <3>1, <3>2, <3>3 DEF Before, Behind
    <3>4. QED
      BY <3>2, <3>3 DEF LastTail
  <2>3. QED
    BY <1>1, <2>2 DEF Asked, GridsBefore
<1>5. QED
  BY <1>3, <1>4

LEMMA OrderStep == TypeInv /\ OrderInv /\ [Next]_vars => OrderInv'
<1> SUFFICES ASSUME TypeInv, OrderInv, [Next]_vars PROVE OrderInv'
  OBVIOUS
<1> USE DEF disk, run, Return, Leave
<1>1. /\ TypeOK /\ CurOK /\ files \in FileLists /\ Len(files) \in Nat
      /\ inName \in Nat /\ (inName > 0 => inName \in 1..Len(files))
  BY FilesType DEF TypeInv, TypeOK, ReaderTypeOK
<1>2. ASSUME pc' \in {"save", "flush", "idle"}, ret' # 0 \/ pc' = "idle" PROVE OrderInv'
  BY <1>2 DEF OrderInv
<1>3. CASE RunAgain
  <2> SUFFICES ASSUME usr'.msgNum = 0 PROVE OrderInv'
    BY DEF OrderInv
  <2>1. Delivery!Delivered' = {}
    BY <1>3 DEF RunAgain, Out, Delivery!Delivered
  <2>2. Pos' = <<1, 0, 0>> /\ files' \in FileLists
    BY <1>3 DEF RunAgain, Pos, FilePos
  <2>3. GridsBefore(files, Pos)' = {}
    BY <2>2, GridsBeforeEnds DEF GridsBefore
  <2>4. QED
    BY <1>3, <2>1, <2>3 DEF RunAgain, OrderInv, ReaderInv
<1>4. CASE OpenFile
  <2>1. CASE usr.msgNum = 0
    <3>1. FilePos = <<inName + 1, 0, 0>> /\ FilePos' = <<inName + 1, 1, 0>> /\ pc' = "index"
      BY <1>4, <2>1 DEF OpenFile, FilePos
    <3>2. inName + 1 \in 1..Len(files)
      BY <1>1, <1>4 DEF OpenFile
    <3>3. GridsBefore(files, FilePos') = GridsBefore(files, FilePos)
      BY <1>1, <3>1, <3>2, GridsBeforeEnds
    <3>4. QED
      BY <1>4, <3>1, <3>3, OrderMoves DEF OpenFile
  <2>2. CASE usr.msgNum # 0
    BY <1>4, <2>2 DEF OpenFile, OrderInv
  <2>3. QED
    BY <2>1, <2>2
<1>5. CASE \/ OpenFails \/ ReadFails \/ OutputFails \/ GridFileFails \/ InsertFails
           \/ SaveFails \/ FlushIndex \/ Crash
  BY <1>2, <1>5 DEF OpenFails, ReadFails, OutputFails, GridFileFails, InsertFails, SaveFails,
                    FlushIndex, Crash
<1>6. CASE NoMoreFiles
  <2>1. CASE usr.msgNum = 0
    <3>1. Asked \subseteq Delivery!Delivered
      BY <1>6, <2>1, AllBeforeTheEnd
    <3>2. UNCHANGED <<Asked, Delivery!Delivered>> /\ pc' = "save"
      BY <1>6 DEF NoMoreFiles, Asked, LastTail, Delivery!Delivered, Out, readerVars
    <3>3. QED
      BY <3>1, <3>2 DEF OrderInv
  <2>2. CASE usr.msgNum # 0
    BY <1>6, <2>2 DEF NoMoreFiles, OrderInv
  <2>3. QED
    BY <2>1, <2>2
<1>7. CASE FindMessage
  BY <1>7 DEF FindMessage, OrderInv
<1>8. CASE StartIndex
  <2>1. CASE usr.msgNum = 0
    <3>1. FilePos' = FilePos
      BY <1>8 DEF StartIndex, FilePos, readerVars
    <3>2. QED
      BY <1>8, <3>1, OrderMoves DEF StartIndex, readerVars
  <2>2. CASE usr.msgNum # 0
    BY <1>8, <2>2 DEF StartIndex, OrderInv
  <2>3. QED
    BY <2>1, <2>2
<1>9. CASE ReadGrid
  <2> SUFFICES ASSUME usr.msgNum = 0 PROVE OrderInv'
    BY <1>9 DEF ReadGrid, OrderInv
  <2>1. pc = "loop" /\ pc' = "write" /\ ReaderInv /\ ret' = 0 /\ cur' = GridRead
        /\ Delivery!Delivered = GridsBefore(files, Pos)
        /\ UNCHANGED <<files, added, usr>>
    BY <1>9 DEF ReadGrid, ReadGrib2Record, OrderInv
  <2>2. /\ cur' = Pos /\ Pos \in GridsOf(files) \ LastTail /\ ReaderInv'
        /\ GridsBefore(files, Pos') = GridsBefore(files, Pos) \cup {Pos}
    BY <1>9, <2>1, ReadGridMoves
  <2>3. cur' \in Asked' /\ Delivery!Delivered' = Delivery!Delivered
    BY <2>1, <2>2 DEF Asked, LastTail, Delivery!Delivered, Out
  <2>4. GridsBefore(files, Pos)' = GridsBefore(files, cur)' \cup {cur'}
    BY <2>1, <2>2 DEF GridsBefore
  <2>5. QED
    BY <2>1, <2>2, <2>3, <2>4 DEF OrderInv, GridsBefore
<1>10. CASE EndOfFile
  <2>1. CASE usr.msgNum = 0
    <3>1. inName \in 1..Len(files) /\ msgPos = Len(files[inName])
      BY <1>1, <1>10 DEF EndOfFile, CurOK, AtEOF
    <3>2. FilePos = <<inName, Len(files[inName]) + 1, 0>> /\ FilePos' = <<inName + 1, 0, 0>>
      BY <1>10, <3>1 DEF EndOfFile, FilePos, readerVars
    <3>3. GridsBefore(files, FilePos') = GridsBefore(files, FilePos)
      BY <1>1, <3>1, <3>2, GridsBeforeEnds
    <3>4. QED
      BY <1>10, <3>3, OrderMoves DEF EndOfFile, readerVars
  <2>2. CASE usr.msgNum # 0
    BY <1>10, <2>2 DEF EndOfFile, OrderInv
  <2>3. QED
    BY <2>1, <2>2
<1>11. CASE OpenGridFile \/ OpenCube \/ FillGridFile \/ FillCube
  BY <1>11, OrderWrites DEF OpenGridFile, OpenCube, FillGridFile, FillCube
<1>12. CASE InsertGrid
  <2> SUFFICES ASSUME usr.msgNum = 0 PROVE OrderInv'
    BY <1>12 DEF InsertGrid, OrderInv
  <2>1. /\ pc = "insert" /\ pc' = "loop" /\ added' = Append(added, cur)
        /\ UNCHANGED <<readerVars, usr, ret>>
    BY <1>12 DEF InsertGrid
  <2>2. /\ Delivery!Delivered = GridsBefore(files, cur) /\ ReaderInv /\ ret = 0
        /\ GridsBefore(files, Pos) = GridsBefore(files, cur) \cup {cur}
    BY <2>1 DEF OrderInv
  <2>3. Delivery!Delivered' = Delivery!Delivered \cup {cur}
    BY <1>1, <2>1, OutAppend DEF TypeOK
  <2>4. UNCHANGED <<Pos, FilePos, Behind>>
    BY <2>1 DEF Pos, FilePos, Behind, readerVars
  <2>5. ReaderInv' /\ GridsBefore(files, Pos)' = GridsBefore(files, Pos)
    BY <2>1, <2>2, <2>4 DEF ReaderInv, GridsBefore, readerVars
  <2>6. QED
    BY <2>1, <2>2, <2>3, <2>5 DEF OrderInv
<1>13. CASE OpenIndex
  <2>1. /\ pc = "save" /\ pc' = "flush"
        /\ UNCHANGED <<ret, usr, Asked, Delivery!Delivered>>
    BY <1>13 DEF OpenIndex, Asked, LastTail, Delivery!Delivered, Out, readerVars
  <2>2. QED
    BY <2>1 DEF OrderInv
<1>14. CASE UNCHANGED vars
  <2>1. UNCHANGED <<files, usr, pc, msgPos, ret, cur, f_endMsg, subgNum, Asked, Delivery!Delivered,
                    Pos, FilePos, Behind>>
    BY <1>14 DEF vars, readerVars, Asked, LastTail, Delivery!Delivered, Out, Pos, FilePos, Behind
  <2>2. QED
    BY <2>1 DEF OrderInv, ReaderInv, GridsBefore
<1>15. QED
  BY <1>3, <1>4, <1>5, <1>6, <1>7, <1>8, <1>9, <1>10, <1>11, <1>12, <1>13, <1>14
  DEF Next, Terminated

LEMMA DeliveryInit == Init => Delivery!Init
<1> SUFFICES ASSUME Init PROVE Delivery!Init
  OBVIOUS
<1>1. files \in FileLists /\ added = <<>> /\ pc = "open"
  BY DEF Init, ReaderInit
<1>2. Asked \in SUBSET Grid
  BY <1>1, GridParts DEF Asked
<1>3. QED
  BY <1>1, <1>2 DEF Out, Status, Delivery!Init, Delivery!Grid, Grid

(* Every step of a run is a step of GridDelivery or nothing it sees.       *)
LEMMA DeliveryStep ==
    TypeInv /\ OrderInv /\ [Next]_vars => [RunAgain \/ Delivery!Next]_(Delivery!vars)
<1> SUFFICES ASSUME TypeInv, OrderInv, [Next]_vars
             PROVE  [RunAgain \/ Delivery!Next]_(Delivery!vars)
  OBVIOUS
<1> USE DEF disk, run, Return, Leave
<1>1. ASSUME UNCHANGED <<files, usr>> PROVE UNCHANGED Asked
  BY <1>1 DEF Asked, LastTail
<1>2. ASSUME UNCHANGED <<files, usr, added>>, pc # "idle", pc' # "idle"
      PROVE  UNCHANGED Delivery!vars
  BY <1>1, <1>2 DEF Out, Status, Delivery!vars
<1>3. CASE \/ OpenFile \/ NoMoreFiles \/ StartIndex \/ ReadGrid \/ ReadFails \/ EndOfFile
           \/ OpenGridFile \/ OpenCube \/ OutputFails \/ FillGridFile \/ GridFileFails
           \/ FillCube \/ InsertFails \/ OpenIndex
  BY <1>2, <1>3 DEF OpenFile, NoMoreFiles, StartIndex, ReadGrid, ReadGrib2Record, ReadFails,
                    EndOfFile, OpenGridFile, OpenCube, OutputFails, FillGridFile, GridFileFails,
                    FillCube, InsertFails, OpenIndex, readerVars
<1>4. CASE InsertGrid
  <2>1. /\ pc = "insert" /\ pc' \in {"open", "loop"} /\ added' = Append(added, cur)
        /\ UNCHANGED <<files, usr>>
    BY <1>4 DEF InsertGrid, readerVars
  <2>2. CASE usr.msgNum = 0
    <3>1. /\ cur \in Asked /\ cur \in GridsOf(files) /\ files \in FileLists
          /\ Delivery!Delivered = GridsBefore(files, cur)
      BY <2>1, <2>2 DEF OrderInv, Asked, TypeInv, TypeOK, ReaderTypeOK
    <3>2. Out' = Append(Out, cur)
      BY <2>1, <2>2 DEF Out
    <3>3. ~Before(cur, cur)
      BY <3>1, GridParts DEF Before
    <3>4. Asked \subseteq GridsOf(files)
      BY DEF Asked
    <3>5. Delivery!IsNext(cur)
      BY <3>1, <3>3, <3>4 DEF Delivery!IsNext, Delivery!Before, Before, GridsBefore
    <3>6. Delivery!Deliver
      BY <1>1, <2>1, <3>1, <3>2, <3>5 DEF Status, Delivery!Deliver
    <3>7. QED
      BY <3>6 DEF Delivery!Next
  <2>3. CASE usr.msgNum # 0
    BY <1>1, <2>1, <2>3 DEF Out, Status, Delivery!vars
  <2>4. QED
    BY <2>2, <2>3
<1>5. CASE SaveFails \/ FlushIndex
  <2>1. /\ pc \in {"save", "flush"} /\ pc' = "idle" /\ UNCHANGED <<files, usr, added, ret>>
    BY <1>5 DEF SaveFails, FlushIndex, readerVars
  <2>2. UNCHANGED <<Asked, Out>> /\ Status = "running"
    BY <1>1, <2>1 DEF Out, Status
  <2>3. CASE ret = 0
    <3>1. Asked \subseteq Delivery!Delivered
      BY <2>1, <2>3 DEF OrderInv, Asked
    <3>2. QED
      BY <2>1, <2>2, <2>3, <3>1 DEF Status, Delivery!Finish, Delivery!Next
  <2>4. CASE ret # 0
    BY <2>1, <2>2, <2>4 DEF Status, Delivery!GiveUp, Delivery!Next
  <2>5. QED
    BY <2>3, <2>4
<1>6. CASE OpenFails \/ Crash
  <2>1. pc # "idle" /\ pc' = "idle" /\ ret' # 0 /\ UNCHANGED <<files, usr, added>>
    BY <1>6 DEF OpenFails, Crash, readerVars
  <2>2. QED
    BY <1>1, <2>1 DEF Out, Status, Delivery!GiveUp, Delivery!Next
<1>7. CASE FindMessage
  <2>1. CASE pc' = "idle"
    <3>1. pc # "idle" /\ ret' # 0 /\ UNCHANGED <<files, usr, added>>
      BY <1>7, <2>1 DEF FindMessage
    <3>2. QED
      BY <1>1, <2>1, <3>1 DEF Out, Status, Delivery!GiveUp, Delivery!Next
  <2>2. CASE pc' # "idle"
    BY <1>2, <1>7, <2>2 DEF FindMessage
  <2>3. QED
    BY <2>1, <2>2
<1>8. CASE UNCHANGED vars
  BY <1>1, <1>8 DEF vars, readerVars, Out, Status, Delivery!vars
<1>9. QED
  BY <1>3, <1>4, <1>5, <1>6, <1>7, <1>8 DEF Next, Terminated

(* In every run with -msg 0, on any files and options, the grids of all    *)
(* the files are added in order, each once, over file ends too, and the    *)
(* run ends well only when all but those after the first one of the last   *)
(* message have been added (the safety part of AddsAllButATail).           *)
THEOREM AddsInOrder ==
    Spec => Delivery!Init /\ [][RunAgain \/ Delivery!Next]_(Delivery!vars)
<1>1. Init => TypeInv /\ OrderInv
  BY TypeInit, OrderInit
<1>2. TypeInv /\ OrderInv /\ [Next]_vars => (TypeInv /\ OrderInv)'
  BY TypeStep, OrderStep
<1>3. QED
  BY <1>1, <1>2, DeliveryInit, DeliveryStep, PTL DEF Spec

------------------------------------------------------------------------------
(* The probe beside the writer.                                            *)

(* The entry whose value is about to be read is in the file that is open.  *)
ChosenOK == \A e \in chosen : /\ ppc = "value"
                              /\ curFile = e.place.name
                              /\ e.key \in Filter

ProbeInv == TypeInv /\ ProbeTypeOK /\ ChosenOK

LEMMA EntryTypes ==
    ASSUME NEW e \in Entries
    PROVE  /\ e.place.name \in Names /\ e.place.offset \in Nat
           /\ e.key \in {KeyOf(b) : b \in Block}
  BY DEF Entries, Place

LEMMA ProbeInitTypes == ProbedInit => ProbeInv
<1> SUFFICES ASSUME ProbedInit PROVE ProbeInv
  OBVIOUS
<1>1. Init /\ ProbeInit
  BY DEF ProbedInit
<1>2. TypeInv
  BY <1>1, TypeInit
<1>3. outNames \in Seq(Sources)
  BY <1>1, ProbeAssumption DEF ProbeInit
<1>4. at \in 1..(Len(outNames) + 1)
  BY <1>1, <1>3 DEF ProbeInit
<1>5. ProbeTypeOK /\ ChosenOK
  BY <1>1, <1>4 DEF ProbeInit, ProbeTypeOK, ChosenOK
<1>6. QED
  BY <1>2, <1>5 DEF ProbeInv

LEMMA ProbeTypeStep == ProbeInv /\ [ProbedNext]_allVars => ProbeInv'
<1> SUFFICES ASSUME ProbeInv, [ProbedNext]_allVars PROVE ProbeInv'
  OBVIOUS
<1>1. TypeInv /\ TypeOK /\ ProbeTypeOK /\ ChosenOK
  BY DEF ProbeInv, TypeInv
<1>2. outNames \in Seq(Sources) /\ Len(outNames) \in Nat /\ at \in Nat
  BY <1>1, ProbeAssumption DEF ProbeTypeOK
<1>3. CASE DegribStep
  <2>1. TypeInv'
    BY <1>1, <1>3, TypeStep DEF DegribStep
  <2>2. UNCHANGED probeVars
    BY <1>3 DEF DegribStep
  <2>3. ProbeTypeOK' /\ ChosenOK'
    BY <1>1, <2>2 DEF probeVars, ProbeTypeOK, ChosenOK
  <2>4. QED
    BY <2>1, <2>3 DEF ProbeInv
<1>4. CASE UNCHANGED allVars
  <2>1. TypeInv'
    BY <1>1, <1>4, TypeStep DEF allVars
  <2>2. ProbeTypeOK' /\ ChosenOK'
    BY <1>1, <1>4 DEF allVars, probeVars, ProbeTypeOK, ChosenOK
  <2>3. QED
    BY <2>1, <2>2 DEF ProbeInv
<1>5. CASE ProbeStep
  <2>1. UNCHANGED vars
    BY <1>5 DEF ProbeStep
  <2>2. TypeInv'
    BY <1>1, <2>1, TypeStep
  <2>3. CASE ReadFLX
    <3>1. flxArray' \subseteq Entries
      <4>1. IndexOf(Probed).store \subseteq Entries
        BY <1>1, ProbeAssumption DEF IndexOf, TypeOK
      <4>2. QED
        BY <2>3, <4>1 DEF ReadFLX
    <3>2. chosen = {}
      BY <1>1, <2>3 DEF ReadFLX, ChosenOK
    <3>3. QED
      BY <1>1, <1>2, <2>1, <2>2, <2>3, <3>1, <3>2
      DEF ReadFLX, ProbeInv, ProbeTypeOK, ChosenOK
  <2>4. CASE ReadFLXFails
    <3>1. chosen = {}
      BY <1>1, <2>4 DEF ReadFLXFails, ChosenOK
    <3>2. QED
      BY <1>1, <1>2, <2>1, <2>2, <2>4, <3>1
      DEF ReadFLXFails, NextIndex, ProbeInv, ProbeTypeOK, ChosenOK
  <2>5. CASE SkipPDS
    BY <1>1, <1>2, <2>1, <2>2, <2>5 DEF SkipPDS, ProbeInv, ProbeTypeOK, ChosenOK
  <2>6. CASE ChoosePDS
    <3>1. PICK e \in left : /\ IsOfInterest(e) /\ left' = left \ {e}
                            /\ chosen' = {e} /\ curFile' = e.place.name
      BY <2>6 DEF ChoosePDS
    <3>2. e \in flxArray /\ e \in Entries
      BY <1>1, <3>1 DEF ProbeTypeOK
    <3>3. e.place.name \in Names /\ e.key \in Filter
      BY <3>1, <3>2, EntryTypes DEF IsOfInterest
    <3>4. ProbeTypeOK'
      BY <1>1, <1>2, <2>1, <2>6, <3>1, <3>2, <3>3 DEF ChoosePDS, ProbeTypeOK
    <3>5. ChosenOK'
      BY <2>6, <3>1, <3>3 DEF ChoosePDS, ChosenOK
    <3>6. QED
      BY <2>2, <3>4, <3>5 DEF ProbeInv
  <2>7. CASE ChooseFails \/ EndOfIndex
    <3>1. chosen = {} /\ at <= Len(outNames)
      BY <1>1, <2>7 DEF ChooseFails, EndOfIndex, ChosenOK, ProbeTypeOK
    <3>2. chosen' = {} /\ NextIndex /\ UNCHANGED <<outNames, curFile, match>>
      BY <2>7, <3>1 DEF ChooseFails, EndOfIndex
    <3>3. shown' \subseteq shown \cup {[from |-> at, key |-> e.key] : e \in flxArray}
      BY <2>7 DEF ChooseFails, EndOfIndex
    <3>4. \A e \in flxArray : e.key \in {KeyOf(b) : b \in Block}
      BY <1>1, EntryTypes DEF ProbeTypeOK
    <3>5. at \in 1..Len(outNames)
      BY <1>1, <1>2, <3>1 DEF ProbeTypeOK
    <3>6. shown' \in SUBSET [from : 1..Len(outNames), key : {KeyOf(b) : b \in Block}]
      BY <1>1, <3>3, <3>4, <3>5 DEF ProbeTypeOK
    <3>7. QED
      BY <1>1, <1>2, <2>1, <2>2, <3>1, <3>2, <3>6
      DEF NextIndex, ProbeInv, ProbeTypeOK, ChosenOK
  <2>8. CASE FillValue
    <3>1. PICK e \in chosen :
             match' = match \cup {[from |-> at, key |-> e.key,
                                   value |-> ValueAt(DataOf(Probed)[curFile], e.place.offset)]}
      BY <2>8 DEF FillValue
    <3>2. e \in Entries /\ e.key \in Filter /\ curFile = e.place.name
      BY <1>1, <3>1 DEF ProbeTypeOK, ChosenOK
    <3>3. curFile \in Names /\ e.place.offset \in Nat
      BY <3>2, EntryTypes
    <3>4. DataOf(Probed)[curFile] \in Seq(Block \cup {Torn})
      <4>1. dat[curFile] \in Seq(Block \cup {Torn})
        BY <1>1, <3>3 DEF TypeOK
      <4>2. Archive.dat[curFile] \in Seq(Block)
        BY <3>3, ProbeAssumption
      <4>3. QED
        BY <4>1, <4>2 DEF DataOf
    <3>5. ValueAt(DataOf(Probed)[curFile], e.place.offset) \in Block \cup {Torn}
      BY <3>3, <3>4 DEF ValueAt
    <3>6. at \in 1..Len(outNames)
      BY <1>1, <1>2, <2>8 DEF ProbeTypeOK, FillValue
    <3>7. match' \in SUBSET [from : 1..Len(outNames), key : Filter, value : Block \cup {Torn}]
      BY <1>1, <3>1, <3>2, <3>5, <3>6 DEF ProbeTypeOK
    <3>8. QED
      BY <1>1, <1>2, <2>1, <2>2, <2>8, <3>6, <3>7
      DEF FillValue, ProbeInv, ProbeTypeOK, ChosenOK
  <2>9. CASE ProbeDone
    BY <1>1, <1>2, <2>1, <2>2, <2>9 DEF ProbeDone, ProbeInv, ProbeTypeOK, ChosenOK
  <2>10. QED
    BY <1>5, <2>3, <2>4, <2>5, <2>6, <2>7, <2>8, <2>9 DEF ProbeStep
<1>6. QED
  BY <1>3, <1>4, <1>5 DEF ProbedNext

(* The probe keeps the types of its state beside a running degrib -Data.   *)
THEOREM ProbeTypeCorrect == ProbedSpec => []ProbeTypeOK
<1>1. ProbeInv => ProbeTypeOK
  BY DEF ProbeInv
<1>2. QED
  BY <1>1, ProbeInitTypes, ProbeTypeStep, PTL DEF ProbedSpec
-------------------------------------------------------------------------------
(* Why each grid is found once.  While an index is walked through, what    *)
(* has been passed is in match, if it was wanted; the entry whose value is *)
(* about to be read is of interest still, for only this probe adds to      *)
(* match.                                                                  *)
Found(k, n) == \E m \in match : SameSight(m.key, k) /\ m.from <= n

FoundInv ==
    /\ \A m \in match : m.from <= at
    /\ \A m, n \in match : SameSight(m.key, n.key) => m = n
    /\ ppc = "value" => chosen # {}
    /\ \A e, f \in chosen : e = f
    /\ \A e \in chosen : \A m \in match : ~SameSight(m.key, e.key)
    /\ \A e \in flxArray \ (left \cup chosen) : e.key \in Filter => Found(e.key, at)
    /\ \A s \in shown : s.key \in Filter => Found(s.key, s.from)

LEMMA SameSightIsSymmetric ==
    ASSUME NEW k, NEW l, SameSight(k, l)
    PROVE  SameSight(l, k)
  BY DEF SameSight

LEMMA FoundStep == ProbeInv /\ FoundInv /\ [ProbedNext]_allVars => FoundInv'
<1> SUFFICES ASSUME ProbeInv, FoundInv, [ProbedNext]_allVars PROVE FoundInv'
  OBVIOUS
<1>1. ProbeTypeOK /\ ChosenOK
  BY DEF ProbeInv
<1>2. at \in Nat /\ \A m \in match : m.from \in Nat
  <2>1. outNames \in Seq(Sources)
    BY <1>1, ProbeAssumption DEF ProbeTypeOK
  <2>2. QED
    BY <1>1, <2>1 DEF ProbeTypeOK
<1>3. CASE DegribStep \/ UNCHANGED allVars
  BY <1>3 DEF DegribStep, allVars, probeVars, FoundInv, Found
<1>4. CASE ReadFLX
  <2>1. /\ flxArray' = left' /\ UNCHANGED <<at, chosen, match, shown>>
        /\ ppc' = "walk" /\ chosen = {}
    BY <1>1, <1>4 DEF ReadFLX, ChosenOK
  <2>2. QED
    BY <2>1 DEF FoundInv, Found
<1>5. CASE ReadFLXFails \/ ChooseFails
  <2>1. /\ at' = at + 1 /\ flxArray' = {} /\ ppc' = "index"
        /\ UNCHANGED <<chosen, match, shown>> /\ chosen = {}
    BY <1>1, <1>5 DEF ReadFLXFails, ChooseFails, NextIndex, ChosenOK
  <2>2. \A m \in match : m.from <= at'
    BY <1>2, <2>1 DEF FoundInv
  <2>3. QED
    BY <2>1, <2>2 DEF FoundInv, Found
<1>6. CASE SkipPDS
  <2>1. PICK e \in left : ~IsOfInterest(e) /\ left' = left \ {e}
    BY <1>6 DEF SkipPDS
  <2>2. UNCHANGED <<at, ppc, flxArray, chosen, match, shown>>
    BY <1>6 DEF SkipPDS
  <2>3. e.key \in Filter => Found(e.key, at)
    BY <2>1 DEF IsOfInterest, FoundInv, Found
  <2>4. \A x \in flxArray \ (left' \cup chosen) : x.key \in Filter => Found(x.key, at)
    BY <2>1, <2>3 DEF FoundInv
  <2>5. QED
    BY <2>2, <2>4 DEF FoundInv, Found
<1>7. CASE ChoosePDS
  <2>1. PICK e \in left : /\ IsOfInterest(e) /\ left' = left \ {e} /\ chosen' = {e}
    BY <1>7 DEF ChoosePDS
  <2>2. UNCHANGED <<at, flxArray, match, shown>> /\ ppc' = "value" /\ chosen = {}
    BY <1>1, <1>7 DEF ChoosePDS, ChosenOK
  <2>3. flxArray \ (left' \cup chosen') \subseteq flxArray \ (left \cup chosen)
    BY <2>1, <2>2
  <2>4. \A m \in match : ~SameSight(m.key, e.key)
    BY <2>1 DEF IsOfInterest
  <2>5. QED
    BY <2>1, <2>2, <2>3, <2>4 DEF FoundInv, Found
<1>8. CASE FillValue
  <2>1. PICK e \in chosen, v \in {ValueAt(DataOf(Probed)[curFile], x.place.offset) : x \in chosen} :
           match' = match \cup {[from |-> at, key |-> e.key, value |-> v]}
    BY <1>8 DEF FillValue
  <2> DEFINE new == [from |-> at, key |-> e.key, value |-> v]
  <2>2. UNCHANGED <<at, flxArray, left, shown>> /\ chosen' = {} /\ ppc' = "walk"
    BY <1>8 DEF FillValue
  <2>3. chosen = {e} /\ \A m \in match : ~SameSight(m.key, e.key)
    BY <2>1 DEF FoundInv
  <2>4. SameSight(new.key, e.key) /\ new.from = at
    BY DEF SameSight
  <2>5. \A m, n \in match' : SameSight(m.key, n.key) => m = n
    BY <2>1, <2>3, SameSightIsSymmetric DEF FoundInv
  <2>6. \A k, n : Found(k, n) => Found(k, n)'
    BY <2>1 DEF Found, SameSight
  <2>7. Found(e.key, at)'
    <3>1. new \in match' /\ at' = at /\ new.from <= at
      BY <1>2, <2>1, <2>2
    <3>2. QED
      BY <2>4, <3>1 DEF Found, SameSight
  <2>8. \A x \in flxArray' \ (left' \cup chosen') : x.key \in Filter => Found(x.key, at)'
    BY <2>2, <2>3, <2>6, <2>7 DEF FoundInv
  <2>9. \A s \in shown' : s.key \in Filter => Found(s.key, s.from)'
    BY <2>2, <2>6 DEF FoundInv
  <2>10. \A m \in match' : m.from <= at'
    BY <1>2, <2>1, <2>2, <2>4 DEF FoundInv
  <2>11. QED
    BY <2>2, <2>5, <2>8, <2>9, <2>10 DEF FoundInv
<1>9. CASE EndOfIndex
  <2>1. /\ left = {} /\ at' = at + 1 /\ flxArray' = {} /\ ppc' = "index" /\ chosen = {}
        /\ UNCHANGED <<chosen, match>>
        /\ shown' = shown \cup {[from |-> at, key |-> e.key] : e \in flxArray}
    BY <1>1, <1>9 DEF EndOfIndex, NextIndex, ChosenOK
  <2>2. \A e \in flxArray : e.key \in Filter => Found(e.key, at)
    BY <2>1 DEF FoundInv
  <2>3. \A s \in shown' : s.key \in Filter => Found(s.key, s.from)
    BY <2>1, <2>2 DEF FoundInv
  <2>4. \A m \in match : m.from <= at'
    BY <1>2, <2>1 DEF FoundInv
  <2>5. QED
    BY <2>1, <2>3, <2>4 DEF FoundInv, Found
<1>10. CASE ProbeDone
  BY <1>10 DEF ProbeDone, FoundInv, Found
<1>11. QED
  BY <1>3, <1>4, <1>5, <1>6, <1>7, <1>8, <1>9, <1>10 DEF ProbedNext, ProbeStep

(* A probe finds every wanted grid of the indexes it walks through, and no *)
(* grid twice, whatever goes wrong with some of them.                      *)
THEOREM ProbeFindsEachOnce == ProbedSpec => []FindsEachOnce
<1>1. ProbedInit => FoundInv
  <2>1. ProbedInit => /\ match = {} /\ ppc = "index" /\ chosen = {}
                      /\ flxArray = {} /\ shown = {}
    BY DEF ProbedInit, ProbeInit
  <2>2. QED
    BY <2>1 DEF FoundInv
<1>2. FoundInv => FindsEachOnce
  BY DEF FoundInv, FindsEachOnce, Found
<1>3. QED
  BY <1>1, <1>2, ProbeInitTypes, ProbeTypeStep, FoundStep, PTL DEF ProbedSpec
-------------------------------------------------------------------------------
(* Why what is read is right.  The cube is overwritten only in a run that  *)
(* found no readable index (f_delete), so not while the probe holds        *)
(* entries of an index that was readable: it has been so ever since, but   *)
(* for the moment between its truncation and its write, unless a run was   *)
(* killed just then (cutOff).  Any other step lets the cube grow or leaves *)
(* it alone, so an entry that designated its grid when the index was read  *)
(* still does.                                                             *)
Pinned == flxArray # {} /\ Probed = "live"

DeleteOnlyAnew == f_delete /\ pc # "idle" => ~idx.ok

PinnedOK == ~cutOff =>
    /\ Pinned => idx.ok \/ pc = "flush"
    /\ \A e \in flxArray : HoldsGrid(DataOf(Probed), e)
    /\ \A m \in match : m.value # Torn /\ KeyOf(m.value) = m.key

(* The run that is killed between the truncation of the index and its      *)
(* write returns -1, which no other step of "flush" does.                  *)
RetOK == /\ pc # "idle" => ret # -1
         /\ pc = "flush" => ~idx.ok

ReadInv == ProbeInv /\ SoundInv /\ DeleteOnlyAnew /\ RetOK /\ PinnedOK

LEMMA DeleteStep ==
    ASSUME \A r \in Requests : r.f_Append /\ r.f_Cube,
           TypeInv, DeleteOnlyAnew, RetOK, [Next]_vars
    PROVE  DeleteOnlyAnew' /\ RetOK'
<1> USE DEF disk, run, Return, Leave
<1>1. usr.f_Append /\ usr.f_Cube
  BY DEF TypeInv, TypeOK
<1>2. CASE UNCHANGED vars
  BY <1>2 DEF vars, DeleteOnlyAnew, RetOK
<1>3. CASE \/ RunAgain \/ OpenFile \/ OpenFails \/ NoMoreFiles \/ FindMessage \/ ReadGrid
           \/ ReadFails \/ EndOfFile \/ OpenCube \/ OutputFails \/ FillCube
           \/ InsertGrid \/ InsertFails
  BY <1>3 DEF RunAgain, OpenFile, OpenFails, NoMoreFiles, FindMessage, ReadGrid, ReadFails,
              EndOfFile, OpenCube, OutputFails, FillCube, InsertGrid, InsertFails,
              DeleteOnlyAnew, RetOK
<1>4. CASE StartIndex
  BY <1>1, <1>4 DEF StartIndex, DeleteOnlyAnew, RetOK
<1>5. CASE OpenIndex
  BY <1>5 DEF OpenIndex, Unreadable, DeleteOnlyAnew, RetOK
<1>6. CASE SaveFails \/ FlushIndex \/ Crash
  BY <1>6 DEF SaveFails, FlushIndex, Crash, DeleteOnlyAnew, RetOK
<1>7. ~OpenGridFile /\ ~FillGridFile /\ ~GridFileFails
  BY <1>1 DEF OpenGridFile, FillGridFile, GridFileFails
<1>8. QED
  BY <1>2, <1>3, <1>4, <1>5, <1>6, <1>7 DEF Next, Terminated

(* Only a run that deletes the cube can take a grid away.                  *)
LEMMA GridsStay ==
    ASSUME \A r \in Requests : r.f_Append /\ r.f_Cube,
           TypeInv, [Next]_vars, ~(OpenCube /\ f_delete),
           NEW e \in Entries, Designates(e)
    PROVE  Designates(e)'
<1> USE DEF disk, run, Return, Leave
<1>1. TypeOK /\ CurOK /\ usr.f_Append /\ usr.f_Cube
  BY DEF TypeInv, TypeOK
<1>2. CASE UNCHANGED dat
  BY <1>2 DEF Designates
<1>3. CASE FillCube
  <2>1. GetOutputName(cur) \in Names /\ Data(cur) \in Block
    BY <1>1, <1>3, CurData DEF FillCube, CurOK
  <2>2. dat' = [dat EXCEPT ![GetOutputName(cur)] = Append(@, Data(cur))]
    BY <1>3 DEF FillCube
  <2>3. QED
    BY <1>1, <2>1, <2>2, GrowthKeeps
<1>4. CASE Crash
  <2>1. CASE pc = "fill" /\ dat' = [dat EXCEPT ![GetOutputName(cur)] = Append(@, Torn)]
    <3>1. GetOutputName(cur) \in Names
      BY <1>1, <2>1, CurData DEF CurOK
    <3>2. QED
      BY <1>1, <2>1, <3>1, GrowthKeeps
  <2>2. QED
    BY <1>2, <1>4, <2>1 DEF Crash
<1>5. CASE OpenCube
  BY <1>2, <1>5 DEF OpenCube
<1>6. ~OpenGridFile /\ ~FillGridFile /\ ~GridFileFails
  BY <1>1 DEF OpenGridFile, FillGridFile, GridFileFails
<1>7. CASE \/ RunAgain \/ OpenFile \/ OpenFails \/ NoMoreFiles \/ FindMessage \/ StartIndex
           \/ ReadGrid \/ ReadFails \/ EndOfFile \/ OutputFails \/ InsertGrid
           \/ InsertFails \/ OpenIndex \/ SaveFails \/ FlushIndex \/ UNCHANGED vars
  <2>1. UNCHANGED dat
    BY <1>7 DEF RunAgain, OpenFile, OpenFails, NoMoreFiles, FindMessage, StartIndex, ReadGrid,
                ReadFails, EndOfFile, OutputFails, InsertGrid, InsertFails, OpenIndex,
                SaveFails, FlushIndex, vars
  <2>2. QED
    BY <1>2, <2>1
<1>8. QED
  BY <1>3, <1>4, <1>5, <1>6, <1>7 DEF Next, Terminated

(* Which steps take a readable index away.                                 *)
LEMMA IndexStays ==
    ASSUME [Next]_vars, ~(pc = "flush" /\ ret' = -1)
    PROVE  (idx.ok \/ pc = "flush") => (idx'.ok \/ pc' = "flush")
<1> USE DEF disk, run, Return, Leave
<1>1. CASE OpenIndex \/ FlushIndex \/ Crash
  BY <1>1 DEF OpenIndex, FlushIndex, Crash
<1>2. CASE UNCHANGED vars
  BY <1>2 DEF vars
<1>3. CASE \/ RunAgain \/ OpenFile \/ OpenFails \/ NoMoreFiles \/ FindMessage \/ StartIndex
           \/ ReadGrid \/ ReadFails \/ EndOfFile \/ OpenGridFile \/ OpenCube \/ OutputFails
           \/ FillGridFile \/ GridFileFails \/ FillCube \/ InsertGrid \/ InsertFails \/ SaveFails
  <2>1. UNCHANGED idx /\ pc # "flush"
    BY <1>3 DEF RunAgain, OpenFile, OpenFails, NoMoreFiles, FindMessage, StartIndex, ReadGrid,
                ReadFails, EndOfFile, OpenGridFile, OpenCube, OutputFails, FillGridFile,
                GridFileFails, FillCube, InsertGrid, InsertFails, SaveFails
  <2>2. QED
    BY <2>1
<1>4. QED
  BY <1>1, <1>2, <1>3 DEF Next, Terminated

(* Only a kill between the truncation of the index and its write sets      *)
(* cutOff.                                                                 *)
LEMMA NotCutOff ==
    ASSUME RetOK, [Next]_vars, ~cutOff'
    PROVE  ~cutOff /\ ~(pc = "flush" /\ ret' = -1)
<1> USE DEF disk, run, Return, Leave
<1>1. CASE Crash
  BY <1>1 DEF Crash
<1>2. CASE FlushIndex
  BY <1>2 DEF FlushIndex, RetOK
<1>3. CASE UNCHANGED vars
  BY <1>3 DEF vars, RetOK
<1>4. CASE \/ RunAgain \/ OpenFile \/ OpenFails \/ NoMoreFiles \/ FindMessage \/ StartIndex
           \/ ReadGrid \/ ReadFails \/ EndOfFile \/ OpenGridFile \/ OpenCube \/ OutputFails
           \/ FillGridFile \/ GridFileFails \/ FillCube \/ InsertGrid \/ InsertFails
           \/ OpenIndex \/ SaveFails
  <2>1. UNCHANGED cutOff /\ pc # "flush"
    BY <1>4 DEF RunAgain, OpenFile, OpenFails, NoMoreFiles, FindMessage, StartIndex, ReadGrid,
                ReadFails, EndOfFile, OpenGridFile, OpenCube, OutputFails, FillGridFile,
                GridFileFails, FillCube, InsertGrid, InsertFails, OpenIndex, SaveFails
  <2>2. QED
    BY <2>1
<1>5. QED
  BY <1>1, <1>2, <1>3, <1>4 DEF Next, Terminated

LEMMA PinnedStep ==
    ASSUME \A r \in Requests : r.f_Append /\ r.f_Cube,
           ReadInv, [ProbedNext]_allVars
    PROVE  PinnedOK'
<1>1. TypeInv /\ TypeOK /\ ProbeTypeOK /\ ChosenOK /\ SoundInv /\ DeleteOnlyAnew /\ RetOK /\ PinnedOK
  BY DEF ReadInv, ProbeInv, TypeInv
<1>2. flxArray \subseteq Entries
  BY <1>1 DEF ProbeTypeOK
<1>3. CASE UNCHANGED allVars
  BY <1>1, <1>3 DEF allVars, probeVars, vars, disk, run, PinnedOK, Pinned, DataOf, Probed
<1>4. CASE DegribStep
  <2> SUFFICES ASSUME ~cutOff' PROVE PinnedOK'
    BY DEF PinnedOK
  <2>1. [Next]_vars /\ ~cutOff /\ ~(pc = "flush" /\ ret' = -1) /\ UNCHANGED probeVars
    BY <1>1, <1>4, NotCutOff DEF DegribStep
  <2>2. Pinned' = Pinned /\ Probed' = Probed
    BY <2>1 DEF probeVars, Pinned, Probed
  <2>3. Pinned => ~(OpenCube /\ f_delete)
    BY <1>1, <2>1 DEF PinnedOK, DeleteOnlyAnew, OpenCube
  <2>4. Pinned' => idx'.ok \/ pc' = "flush"
    BY <1>1, <2>1, <2>2, IndexStays DEF PinnedOK
  <2>5. \A e \in flxArray : HoldsGrid(DataOf(Probed), e)'
    <3> SUFFICES ASSUME NEW e \in flxArray PROVE HoldsGrid(DataOf(Probed), e)'
      OBVIOUS
    <3>1. HoldsGrid(DataOf(Probed), e)
      BY <1>1, <2>1 DEF PinnedOK
    <3>2. CASE Probed = "live"
      <4>1. DataOf(Probed) = dat /\ DataOf(Probed)' = dat'
        BY <2>2, <3>2 DEF DataOf
      <4>2. Designates(e)
        BY <3>1, <4>1 DEF Designates
      <4>3. e \in Entries /\ ~(OpenCube /\ f_delete)
        BY <1>2, <2>3, <3>2 DEF Pinned
      <4>4. Designates(e)'
        BY <1>1, <2>1, <4>2, <4>3, GridsStay
      <4>5. QED
        BY <4>1, <4>4 DEF Designates
    <3>3. CASE Probed # "live"
      BY <2>2, <3>1, <3>3 DEF DataOf
    <3>4. QED
      BY <3>2, <3>3
  <2>6. flxArray' = flxArray /\ match' = match
    BY <2>1 DEF probeVars
  <2>7. QED
    BY <1>1, <2>1, <2>4, <2>5, <2>6 DEF PinnedOK
<1>5. CASE ProbeStep
  <2> SUFFICES ASSUME ~cutOff PROVE PinnedOK'
    BY <1>5 DEF PinnedOK, ProbeStep, vars, run
  <2>1. UNCHANGED <<idx, dat, pc, cutOff>>
    BY <1>5 DEF ProbeStep, vars, disk, run
  <2>2. \A m \in match : m.value # Torn /\ KeyOf(m.value) = m.key
    BY <1>1 DEF PinnedOK
  <2>3. CASE ReadFLX
    <3>1. IndexOf(Probed).ok /\ flxArray' = IndexOf(Probed).store /\ UNCHANGED <<outNames, at, match>>
      BY <2>3 DEF ReadFLX
    <3>2. Probed' = Probed /\ DataOf(Probed)' = DataOf(Probed)
      BY <2>1, <3>1 DEF Probed, DataOf
    <3>3. \A e \in flxArray' : HoldsGrid(DataOf(Probed), e)
      <4>1. CASE Probed = "live"
        BY <1>1, <3>1, <4>1 DEF IndexOf, DataOf, SoundInv, FileSound, IndexSound, Designates
      <4>2. CASE Probed # "live"
        BY <3>1, <4>2, ProbeAssumption DEF IndexOf, DataOf
      <4>3. QED
        BY <4>1, <4>2
    <3>4. Pinned' => idx'.ok
      BY <2>1, <3>1, <3>2 DEF Pinned, IndexOf
    <3>5. QED
      BY <2>2, <3>1, <3>2, <3>3, <3>4 DEF PinnedOK
  <2>4. CASE ReadFLXFails \/ ChooseFails \/ EndOfIndex
    <3>1. flxArray' = {} /\ match' = match
      BY <2>4 DEF ReadFLXFails, ChooseFails, EndOfIndex, NextIndex
    <3>2. QED
      BY <2>2, <3>1 DEF PinnedOK, Pinned
  <2>5. CASE SkipPDS \/ ChoosePDS \/ ProbeDone
    <3>1. UNCHANGED <<outNames, at, flxArray, match>>
      BY <2>5 DEF SkipPDS, ChoosePDS, ProbeDone
    <3>2. QED
      BY <1>1, <2>1, <3>1 DEF PinnedOK, Pinned, Probed, DataOf
  <2>6. CASE FillValue
    <3>1. UNCHANGED <<outNames, at, flxArray>>
      BY <2>6 DEF FillValue
    <3>2. PICK e \in chosen :
             match' = match \cup {[from |-> at, key |-> e.key,
                                   value |-> ValueAt(DataOf(Probed)[curFile], e.place.offset)]}
      BY <2>6 DEF FillValue
    <3>3. e \in flxArray /\ curFile = e.place.name
      BY <1>1, <3>2 DEF ProbeTypeOK, ChosenOK
    <3>4. HoldsGrid(DataOf(Probed), e)
      BY <1>1, <3>3 DEF PinnedOK
    <3>5. \A m \in match' : m.value # Torn /\ KeyOf(m.value) = m.key
      BY <2>2, <3>2, <3>3, <3>4 DEF ValueAt, HoldsGrid
    <3>6. QED
      BY <1>1, <2>1, <3>1, <3>5 DEF PinnedOK, Pinned, Probed, DataOf
  <2>7. QED
    BY <1>5, <2>3, <2>4, <2>5, <2>6 DEF ProbeStep
<1>6. QED
  BY <1>3, <1>4, <1>5 DEF ProbedNext

(* Beside runs of degrib -Data that all have -Append and -Cube, whatever   *)
(* else they do and wherever they fail or are killed, a probe returns for  *)
(* each element and time the grid of that element and time, as long as no  *)
(* run has been killed between the truncation of the index and its write.  *)
THEOREM ProbeReadsWhatIsStored ==
    ASSUME \A r \in Requests : r.f_Append /\ r.f_Cube
    PROVE  ProbedSpec => []ProbedIsStored
<1>1. ProbedInit => ReadInv
  <2> SUFFICES ASSUME ProbedInit PROVE ReadInv
    OBVIOUS
  <2>1. Init /\ ProbeInit /\ ProbeInv /\ SoundInv
    BY ProbeInitTypes, SoundInit DEF ProbedInit
  <2>2. DeleteOnlyAnew /\ RetOK
    BY <2>1 DEF Init, DeleteOnlyAnew, RetOK
  <2>3. PinnedOK
    BY <2>1 DEF ProbeInit, PinnedOK, Pinned
  <2>4. QED
    BY <2>1, <2>2, <2>3 DEF ReadInv
<1>2. ReadInv /\ [ProbedNext]_allVars => ReadInv'
  <2> SUFFICES ASSUME ReadInv, [ProbedNext]_allVars PROVE ReadInv'
    OBVIOUS
  <2>1. ProbeInv /\ TypeInv /\ SoundInv /\ DeleteOnlyAnew /\ RetOK
    BY DEF ReadInv, ProbeInv
  <2>2. [Next]_vars
    BY DEF ProbedNext, DegribStep, ProbeStep, allVars
  <2>3. ProbeInv'
    BY <2>1, ProbeTypeStep
  <2>4. SoundInv' /\ DeleteOnlyAnew' /\ RetOK'
    BY <2>1, <2>2, SoundStep, DeleteStep
  <2>5. PinnedOK'
    BY PinnedStep
  <2>6. QED
    BY <2>3, <2>4, <2>5 DEF ReadInv
<1>3. ReadInv => ProbedIsStored
  BY DEF ReadInv, PinnedOK, ProbedIsStored
<1>4. QED
  BY <1>1, <1>2, <1>3, PTL DEF ProbedSpec

==============================================================================
