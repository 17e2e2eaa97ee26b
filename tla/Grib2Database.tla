---------------------------- MODULE Grib2Database ----------------------------
(***************************************************************************)
(* degrib -Data: Grib2Database (cube.c) adds the grids of the input files  *)
(* to a flat file database, which is an index file (database.c; here the   *)
(* map FlxStore, which the buffer of FlxIndex implements) and either one   *)
(* cube of grids (-Cube, WriteGradsCube) or one .flt file for each grid    *)
(* (-nCube, gribWriteFloat).  The index stays in memory and is written     *)
(* when the command returns, which is after the grids it points to.  The   *)
(* command is run again and again on the same database, and may be killed  *)
(* between any two steps.                                                  *)
(*                                                                         *)
(* A grid is the record of kind (its element, reference time, unit, grid   *)
(* definition and the like), validTime, P1 (in a GRIB1 message the start   *)
(* of the time range, which ends at validTime), name (GetOutputName's name *)
(* for its .flt file) and known (its Section 2, if any, is of a type that  *)
(* the index can hold).                                                    *)
(***************************************************************************)
EXTENDS GribReader

CONSTANTS
    Requests,    \* the -msg, -Append and -Cube options
    Names,       \* of grid files
    Cube,        \* the name of the cube
    Torn,        \* a grid of which not all was written
    Garbage,     \* what an uninitialized int may hold
    CanCrash,    \* the options of the runs that may be killed
    MaxRuns      \* bound on the runs of the command

(* What a grid file holds: the data of a grid, with its edition.           *)
Block == [ver : {-1, 1, 2}, field : Field]

(* The cube ends in .dat, a grid's own file in .flt or .tlf (cube.c:183).  *)
ASSUME DatabaseAssumption ==
    /\ Requests \subseteq [msgNum : Nat, f_Append : BOOLEAN, f_Cube : BOOLEAN]
    /\ Garbage \subseteq Int
    /\ CanCrash \subseteq Requests
    /\ MaxRuns \in Nat \ {0}
    /\ Cube \in Names
    /\ Torn \notin Block
    /\ \A d \in Field : d.name \in Names \ {Cube} /\ d.known \in BOOLEAN
    /\ \A fl \in FileLists : Len(fl) > 0

VARIABLES
    idx,         \* the index file: can it be read, and what does it hold
    dat,         \* the grid files; a missing one is empty
    usr,
    curMsg,
    pc,          \* "idle" when the command is not running
    ret,         \* what it returned, or -1 if it was killed
    f_delete,
    flx,         \* the index in memory
    fltOffset,   \* where the current grid is in its file
    cur,         \* the grid read last
    added,       \* history: the grids added to flx by this run, in order
    before,      \* history: the index when this run began
    cutOff,      \* history: a run was killed between the truncation of the
                 \* index and its write
    runs

disk == <<idx, dat>>
run == <<usr, before, cutOff, runs>>
vars == <<readerVars, disk, run, curMsg, pc, ret, f_delete, flx, fltOffset, cur, added>>

Unreadable == [ok |-> FALSE, store |-> {}]

VerOf(g) == files[g[1]][g[2]].ver
Data(g) == [ver |-> VerOf(g), field |-> FieldOf(files, g)]

(* The key of a grid in the index, and what the grid says of itself.       *)
KeyOf(b) == [kind |-> b.field.kind,
             time |-> IF b.ver = 1 THEN b.field.P1 ELSE b.field.validTime]

GetOutputName(g) == IF usr.f_Cube THEN Cube ELSE FieldOf(files, g).name

Store == INSTANCE FlxStore WITH
            Key <- {}, Place <- {}, store <- flx, key <- KeyOf(Data(cur)),
            place <- [name |-> GetOutputName(cur), offset |-> fltOffset]

Init == /\ ReaderInit
        /\ idx = Unreadable
        /\ dat = [n \in Names |-> <<>>]
        /\ usr \in Requests
        /\ curMsg \in Garbage
        /\ pc = "open"
        /\ ret = 0
        /\ f_delete = FALSE
        /\ flx = {}
        /\ fltOffset = 0
        /\ cur = <<0, 0, 0>>
        /\ added = <<>>
        /\ before = {}
        /\ cutOff = FALSE
        /\ runs = 1

(* The command is run again, on other files and with other options.        *)
RunAgain == /\ pc = "idle"
            /\ runs < MaxRuns
            /\ runs' = runs + 1
            /\ files' \in FileLists
            /\ usr' \in Requests
            /\ curMsg' \in Garbage
            /\ inName' = 0 /\ msgPos' = 0 /\ ipack' = <<0, 0>>
            /\ f_endMsg' = 1 /\ subgNum' = 0
            /\ pc' = "open" /\ ret' = 0
            /\ f_delete' = FALSE /\ flx' = {} /\ fltOffset' = 0
            /\ cur' = <<0, 0, 0>> /\ added' = <<>>
            /\ before' = IF usr'.f_Append THEN idx.store ELSE {}
            /\ UNCHANGED <<disk, cutOff>>

Return(r) == pc' = "idle" /\ ret' = r
Leave(r) == pc' = "save" /\ ret' = r

(* Mutant: the position in the previous file is kept.                      *)
OpenFileNoRewind ==
    /\ pc = "open"
    /\ inName < Len(files)
    /\ inName' = inName + 1
    /\ pc' = IF usr.msgNum > 0 THEN "find" ELSE "index"
    /\ UNCHANGED <<files, msgPos, ipack, f_endMsg, subgNum, disk, run, curMsg, ret,
                   f_delete, flx, fltOffset, cur, added>>

OpenFile == /\ pc = "open"
            /\ inName < Len(files)
            /\ inName' = inName + 1
            /\ msgPos' = 0
            /\ pc' = IF usr.msgNum > 0 THEN "find" ELSE "index"
            /\ UNCHANGED <<files, ipack, f_endMsg, subgNum, disk, run, curMsg, ret,
                           f_delete, flx, fltOffset, cur, added>>

OpenFails == /\ pc = "open"
             /\ inName < Len(files)
             /\ Return(1)
             /\ UNCHANGED <<readerVars, disk, run, curMsg, f_delete, flx, fltOffset,
                            cur, added>>

NoMoreFiles == /\ pc = "open"
               /\ inName = Len(files)
               /\ Leave(0)
               /\ UNCHANGED <<readerVars, disk, run, curMsg, f_delete, flx, fltOffset,
                              cur, added>>

(* Running out of the file (-2) is not an error.                           *)
FindMessage ==
    LET r == FindGRIBMsg(files[inName], usr.msgNum, curMsg)
    IN  /\ pc = "find"
        /\ IF r.ret = -1
           THEN Return(2) /\ UNCHANGED <<msgPos, curMsg>>
           ELSE /\ pc' = "index"
                /\ msgPos' = r.pos
                /\ curMsg' = r.curMsg
                /\ UNCHANGED ret
        /\ UNCHANGED <<files, inName, ipack, f_endMsg, subgNum, disk, run, f_delete,
                       flx, fltOffset, cur, added>>

(* Mutants: -Append keeps the index, but not the cube; the index is read   *)
(* on every file; it is never read.                                        *)
StartIndexDeletes ==
    LET append == usr.f_Append /\ idx.ok
    IN  /\ pc = "index"
        /\ flx' = IF inName # 1 THEN flx ELSE IF append THEN idx.store ELSE {}
        /\ f_delete' = (inName = 1)
        /\ pc' = "loop"
        /\ UNCHANGED <<readerVars, disk, run, curMsg, ret, fltOffset, cur, added>>
StartIndexAgain ==
    LET append == usr.f_Append /\ idx.ok
    IN  /\ pc = "index"
        /\ flx' = IF append THEN idx.store ELSE {}
        /\ f_delete' = (inName = 1 /\ ~append)
        /\ pc' = "loop"
        /\ UNCHANGED <<readerVars, disk, run, curMsg, ret, fltOffset, cur, added>>
StartIndexAnew ==
    /\ pc = "index"
    /\ flx' = IF inName # 1 THEN flx ELSE {}
    /\ f_delete' = (inName = 1)
    /\ pc' = "loop"
    /\ UNCHANGED <<readerVars, disk, run, curMsg, ret, fltOffset, cur, added>>

(* On the first file the index is read, or a new one made; the cube is     *)
(* overwritten only with a new index, and only by its first grid.          *)
StartIndex ==
    LET append == usr.f_Append /\ idx.ok
    IN  /\ pc = "index"
        /\ flx' = IF inName # 1 THEN flx ELSE IF append THEN idx.store ELSE {}
        /\ f_delete' = (inName = 1 /\ ~append)
        /\ pc' = "loop"
        /\ UNCHANGED <<readerVars, disk, run, curMsg, ret, fltOffset, cur, added>>

(* Mutant: the first grid of the next message is not chosen.               *)
ReadGridNoReset == /\ pc = "loop"
                   /\ ~AtEOF
                   /\ ReadGrib2Record
                   /\ subgNum' = IF f_endMsg' # 1 THEN subgNum + 1 ELSE subgNum
                   /\ cur' = GridRead
                   /\ pc' = "write"
                   /\ UNCHANGED <<disk, run, curMsg, ret, f_delete, flx, fltOffset, added>>

ReadGrid == /\ pc = "loop"
            /\ ~AtEOF
            /\ ReadGrib2Record
            /\ subgNum' = IF f_endMsg' # 1 THEN subgNum + 1 ELSE 0
            /\ cur' = GridRead
            /\ pc' = "write"
            /\ UNCHANGED <<disk, run, curMsg, ret, f_delete, flx, fltOffset, added>>

(* The record cannot be read, or a value is out of range.                  *)
ReadFails == /\ pc = "loop"
             /\ ~AtEOF
             /\ Leave(3)
             /\ UNCHANGED <<readerVars, disk, run, curMsg, f_delete, flx, fltOffset,
                            cur, added>>

EndOfFile == /\ pc = "loop"
             /\ AtEOF
             /\ pc' = "open"
             /\ UNCHANGED <<readerVars, disk, run, curMsg, ret, f_delete, flx,
                            fltOffset, cur, added>>

(* gribWriteFloat makes the grid's file anew.                              *)
OpenGridFile ==
    LET name == GetOutputName(cur)
    IN  /\ pc = "write"
        /\ ~usr.f_Cube
        /\ dat' = [dat EXCEPT ![name] = <<>>]
        /\ fltOffset' = 0
        /\ pc' = "fill"
        /\ UNCHANGED <<readerVars, idx, run, curMsg, ret, f_delete, flx, cur, added>>

(* WriteGradsCube empties the cube if f_delete is set, and otherwise       *)
(* writes at its end.                                                      *)
OpenCube ==
    LET name == GetOutputName(cur)
    IN  /\ pc = "write"
        /\ usr.f_Cube
        /\ dat' = IF f_delete THEN [dat EXCEPT ![name] = <<>>] ELSE dat
        /\ fltOffset' = IF f_delete THEN 0 ELSE Len(dat[name])
        /\ pc' = "fill"
        /\ UNCHANGED <<readerVars, idx, run, curMsg, ret, f_delete, flx, cur, added>>

(* No file name, an invalid grid definition, or no file.                   *)
OutputFails == /\ pc = "write"
               /\ Leave(3)
               /\ UNCHANGED <<readerVars, disk, run, curMsg, f_delete, flx, fltOffset,
                              cur, added>>

(* The rows of the grid are written, and its file is closed.               *)
FillGridFile == /\ pc = "fill"
                /\ ~usr.f_Cube
                /\ dat' = [dat EXCEPT ![GetOutputName(cur)] = Append(@, Data(cur))]
                /\ pc' = "insert"
                /\ UNCHANGED <<readerVars, idx, run, curMsg, ret, f_delete, flx, fltOffset,
                               cur, added>>

(* The .ave file beside it cannot be written, or the projection is unknown.*)
GridFileFails ==
    /\ pc = "fill"
    /\ ~usr.f_Cube
    /\ dat' = [dat EXCEPT ![GetOutputName(cur)] = Append(@, Data(cur))]
    /\ Leave(3)
    /\ UNCHANGED <<readerVars, idx, run, curMsg, f_delete, flx, fltOffset, cur, added>>

FillCube == /\ pc = "fill"
            /\ usr.f_Cube
            /\ dat' = [dat EXCEPT ![GetOutputName(cur)] = Append(@, Data(cur))]
            /\ f_delete' = FALSE
            /\ pc' = "insert"
            /\ UNCHANGED <<readerVars, idx, run, curMsg, ret, flx, fltOffset, cur, added>>

(* Mutant: a grid with a file of its own is indexed as one of the cube.    *)
InsertGridAsCube ==
    /\ pc = "insert"
    /\ FieldOf(files, cur).known
    /\ flx' = Store!Put(flx, KeyOf(Data(cur)), [name |-> Cube, offset |-> fltOffset])
    /\ added' = Append(added, cur)
    /\ pc' = IF usr.msgNum # 0 THEN "open" ELSE "loop"
    /\ UNCHANGED <<readerVars, disk, run, curMsg, ret, f_delete, fltOffset, cur>>

(* InsertGDS and InsertPDS; after a single message the loop is left, but   *)
(* not the loop over the files.                                            *)
InsertGrid ==
    /\ pc = "insert"
    /\ FieldOf(files, cur).known
    /\ flx' = Store!Put(flx, KeyOf(Data(cur)),
                        [name |-> GetOutputName(cur), offset |-> fltOffset])
    /\ added' = Append(added, cur)
    /\ pc' = IF usr.msgNum # 0 THEN "open" ELSE "loop"
    /\ UNCHANGED <<readerVars, disk, run, curMsg, ret, f_delete, fltOffset, cur>>

InsertFails == /\ pc = "insert"
               /\ ~FieldOf(files, cur).known
               /\ Leave(3)
               /\ UNCHANGED <<readerVars, disk, run, curMsg, f_delete, flx, fltOffset,
                              cur, added>>

(* WriteFLX opens, which truncates, and writes; that it cannot open the    *)
(* file goes unnoticed.                                                    *)
OpenIndex == /\ pc = "save"
             /\ idx' = Unreadable
             /\ pc' = "flush"
             /\ UNCHANGED <<readerVars, dat, run, curMsg, ret, f_delete, flx, fltOffset,
                            cur, added>>

SaveFails == /\ pc = "save"
             /\ pc' = "idle"
             /\ UNCHANGED <<readerVars, disk, run, curMsg, ret, f_delete, flx, fltOffset,
                            cur, added>>

FlushIndex == /\ pc = "flush"
              /\ idx' = [ok |-> TRUE, store |-> flx]
              /\ pc' = "idle"
              /\ UNCHANGED <<readerVars, dat, run, curMsg, ret, f_delete, flx, fltOffset,
                             cur, added>>

(* The command is killed, perhaps in the middle of a grid.                 *)
Crash == /\ usr \in CanCrash
         /\ pc # "idle"
         /\ Return(-1)
         /\ cutOff' = (cutOff \/ pc = "flush")
         /\ \/ UNCHANGED dat
            \/ pc = "fill" /\ dat' = [dat EXCEPT ![GetOutputName(cur)] = Append(@, Torn)]
         /\ UNCHANGED <<readerVars, idx, usr, before, runs, curMsg, f_delete, flx, fltOffset,
                        cur, added>>

Terminated == pc = "idle" /\ UNCHANGED vars

Next == \/ RunAgain \/ OpenFile \/ OpenFails \/ NoMoreFiles \/ FindMessage
        \/ StartIndex \/ ReadGrid \/ ReadFails \/ EndOfFile
        \/ OpenGridFile \/ OpenCube \/ OutputFails \/ FillGridFile \/ GridFileFails
        \/ FillCube \/ InsertGrid \/ InsertFails \/ OpenIndex \/ SaveFails \/ FlushIndex \/ Crash
        \/ Terminated

(* The program is sequential: while it is running it takes its next step.  *)
Spec == Init /\ [][Next]_vars /\ WF_vars(Next)
-------------------------------------------------------------------------------
Place == [name : Names, offset : Nat]
Entries == [key : {KeyOf(b) : b \in Block}, place : Place]

(* The types of the reader's and of Grib2Database's variables.             *)
TypeOK == /\ ReaderTypeOK
          /\ idx \in [ok : BOOLEAN, store : SUBSET Entries]
          /\ dat \in [Names -> Seq(Block \cup {Torn})]
          /\ usr \in Requests
          /\ curMsg \in Int
          /\ pc \in {"open", "find", "index", "loop", "write", "fill", "insert",
                     "save", "flush", "idle"}
          /\ ret \in {-1, 0, 1, 2, 3}
          /\ f_delete \in BOOLEAN
          /\ flx \in SUBSET Entries
          /\ fltOffset \in Nat
          /\ cur \in Grid
          /\ added \in Seq(Grid)
          /\ before \in SUBSET Entries
          /\ cutOff \in BOOLEAN
          /\ runs \in 1..MaxRuns

(* What a probe finds at the place of an entry is the grid of its key.     *)
HoldsGrid(d, e) ==
    /\ e.place.offset < Len(d[e.place.name])
    /\ d[e.place.name][e.place.offset + 1] # Torn
    /\ KeyOf(d[e.place.name][e.place.offset + 1]) = e.key

Designates(e) == HoldsGrid(dat, e)

(* Every entry of the index file designates its grid: at any moment, so    *)
(* also after the command was killed at any point, a probe that can read   *)
(* the index finds the right grids.  It holds when every run has -Append   *)
(* and -Cube: the cube grows before the index is written (cube.c:186 to    *)
(* 203 before cube.c:369).                                                 *)
IndexSound == \A e \in idx.store : Designates(e)

(* The same when the command has returned by itself.                       *)
ReturnedIndexIsSound == (pc = "idle" /\ ret # -1) => IndexSound

(* The index that is written keeps the entries of the old one whose keys   *)
(* were not added again, holds for each key added the last grid of that    *)
(* key, and nothing else (the loop, InsertPDS and ReadFLX together).       *)
KeysAdded == {KeyOf(Data(added[i])) : i \in DOMAIN added}

IsLast(i) == \A j \in DOMAIN added : KeyOf(Data(added[j])) = KeyOf(Data(added[i])) => j <= i

Keeps(store) == \A e \in before : e.key \notin KeysAdded => e \in store
Adds(store) ==
    \A i \in DOMAIN added : IsLast(i) =>
       \E e \in store : /\ e.key = KeyOf(Data(added[i]))
                        /\ dat[e.place.name][e.place.offset + 1] = Data(added[i])
NoOthers(store) == \A e \in store : e \in before \/ e.key \in KeysAdded

SaveKeepsAndAdds ==
    [][FlushIndex => Keeps(idx'.store) /\ Adds(idx'.store) /\ NoOthers(idx'.store)]_vars

(* A key that has once been in the index file is in every later one that   *)
(* can be read ("Append data to the given Index file", docs/degrib.txt:599)*)
(* as long as all the runs have -Append and none of them is killed when it *)
(* has truncated the index and not yet written it.                         *)
IsIndexed(k) == \E e \in idx.store : e.key = k

AppendForgetsNothing ==
    \A k \in {KeyOf(b) : b \in Block} :
       [](IsIndexed(k) => [](idx.ok /\ ~cutOff => IsIndexed(k)))

(* The grids after the first one of the last message of the files.         *)
LastTail == {g \in GridsOf(files) :
                /\ g[3] > 0
                /\ \A h \in GridsOf(files) : Before(g, h) => h[1] = g[1] /\ h[2] = g[2]}

Status == IF pc # "idle" THEN "running" ELSE IF ret = 0 THEN "ok" ELSE "failed"

(* A run over a single message is asked for nothing here.                  *)
Asked == IF usr.msgNum = 0 THEN GridsOf(files) \ LastTail ELSE {}
Out == IF usr.msgNum = 0 THEN added ELSE <<>>

Delivery == INSTANCE GridDelivery WITH asked <- Asked, out <- Out, status <- Status

(* In every run with -msg 0 the grids of all the files are added in      *)
(* order, each once, although a file may end while grids of its last       *)
(* message are still to be read: they are read during the next file.  Only *)
(* the grids after the first of the very last message are never added.     *)
AddsAllButATail == /\ Delivery!Init
                   /\ [][RunAgain \/ Delivery!Next]_Delivery!vars
                   /\ []<>(Status # "running")

(* All the grids have been added when the command returns 0 ("Convert all  *)
(* the messages in the GRIB file", cube.c:25).                             *)
AddsEveryGrid == (pc \in {"save", "idle"} /\ ret = 0 /\ usr.msgNum = 0) =>
                    GridsOf(files) \subseteq {added[i] : i \in DOMAIN added}
===============================================================================
