---------------------------- MODULE DegribConvert ----------------------------
(***************************************************************************)
(* degrib -C: the CMD_CONVERT case of DegribIt and the loop of             *)
(* Grib2Convert it runs for each input file (commands.c).  With -msg all   *)
(* (msgNum = 0) every grid of every file is handed to MainConvert; with    *)
(* -msg n.k the files are searched for the n-th message and its k-th grid  *)
(* is.                                                                     *)
(***************************************************************************)
EXTENDS GribReader, FiniteSets

CONSTANT Requests    \* the [msgNum, subgNum] pairs of the -msg option

ASSUME RequestsAssumption == Requests \subseteq [msgNum : Nat, subgNum : Nat]

VARIABLES
    usr,         \* the -msg option
    healthy,     \* files open, an output format was chosen, values are in range
                 \* and outputs can be written
    curMsg,      \* DegribIt's count of the messages passed so far
    pc,
    ret,         \* what DegribIt returns
    out          \* the grids handed to MainConvert so far

vars == <<readerVars, usr, healthy, curMsg, pc, ret, out>>

Init == /\ ReaderInit
        /\ usr \in Requests
        /\ healthy \in BOOLEAN
        /\ curMsg = 0
        /\ pc = "open"
        /\ ret = 0
        /\ out = <<>>

Return(r) == pc' = "done" /\ ret' = r

(* Mutant: the position in the previous file is kept.                      *)
OpenFileNoRewind ==
    /\ pc = "open"
    /\ inName < Len(files)
    /\ inName' = inName + 1
    /\ pc' = IF usr.msgNum > 0 THEN "find" ELSE "enter"
    /\ UNCHANGED <<files, msgPos, ipack, f_endMsg, subgNum, usr, healthy, curMsg, ret, out>>

(* The top of the loop over inNames.                                       *)
OpenFile == /\ pc = "open"
            /\ inName < Len(files)
            /\ inName' = inName + 1
            /\ msgPos' = 0
            /\ pc' = IF usr.msgNum > 0 THEN "find" ELSE "enter"
            /\ UNCHANGED <<files, ipack, f_endMsg, subgNum, usr, healthy, curMsg, ret, out>>

OpenFails == /\ pc = "open"
             /\ inName < Len(files)
             /\ ~healthy
             /\ Return(1)
             /\ UNCHANGED <<readerVars, usr, healthy, curMsg, out>>

NoMoreFiles == /\ pc = "open"
               /\ inName = Len(files)
               /\ Return(0)
               /\ UNCHANGED <<readerVars, usr, healthy, curMsg, out>>

(* FindGRIBMsg; a file that ends before the message is found is closed and *)
(* the search goes on, with the count, in the next one.                    *)
FindMessage ==
    LET r == FindGRIBMsg(files[inName], usr.msgNum, curMsg)
    IN  /\ pc = "find"
        /\ IF r.ret = -1
           THEN Return(1) /\ UNCHANGED <<msgPos, curMsg>>
           ELSE /\ pc' = IF r.curMsg = usr.msgNum THEN "enter" ELSE "open"
                /\ msgPos' = r.pos
                /\ curMsg' = r.curMsg
                /\ UNCHANGED ret
        /\ UNCHANGED <<files, inName, ipack, f_endMsg, subgNum, usr, healthy, out>>

(* Grib2Convert is entered: f_endMsg and subgNum are its local variables.  *)
Enter == /\ pc = "enter"
         /\ f_endMsg' = 1
         /\ subgNum' = IF usr.msgNum = 0 THEN 0 ELSE usr.subgNum
         /\ pc' = "loop"
         /\ UNCHANGED <<files, inName, msgPos, ipack, usr, healthy, curMsg, ret, out>>

(* No output format was chosen.                                            *)
EnterFails == /\ pc = "enter"
              /\ ~healthy
              /\ Return(1)
              /\ UNCHANGED <<readerVars, usr, healthy, curMsg, out>>

(* Mutant: the grids still in IS->ipack are forgotten at end of file.      *)
LoopUntilEOF == ~AtEOF

(* The loop goes on at end of file while IS->ipack holds unread grids.     *)
LoopAgain == ~AtEOF \/ f_endMsg # 1

(* One iteration: ReadGrib2Record, then MainConvert, then the choice of    *)
(* the next grid; after a single message the loop is left instead.         *)
ConvertGrid ==
    /\ pc = "loop"
    /\ LoopAgain
    /\ ReadGrib2Record
    /\ out' = Append(out, GridRead)
    /\ IF usr.msgNum # 0
       THEN pc' = "break" /\ UNCHANGED subgNum
       ELSE /\ subgNum' = IF f_endMsg' # 1 THEN subgNum + 1 ELSE 0
            /\ UNCHANGED pc
    /\ UNCHANGED <<usr, healthy, curMsg, ret>>

(* The record cannot be read, a value lies outside -validMin/-validMax, or *)
(* MainConvert fails; DegribIt gives up.                                   *)
ConvertFails == /\ pc = "loop"
                /\ LoopAgain
                /\ ~ReadSucceeds \/ ~healthy
                /\ Return(1)
                /\ UNCHANGED <<readerVars, usr, healthy, curMsg, out>>

EndOfFile == /\ pc = "loop"
             /\ ~LoopAgain
             /\ IF usr.msgNum > 0 THEN Return(0) ELSE pc' = "open" /\ UNCHANGED ret
             /\ UNCHANGED <<readerVars, usr, healthy, curMsg, out>>

Break == /\ pc = "break"
         /\ Return(0)
         /\ UNCHANGED <<readerVars, usr, healthy, curMsg, out>>

Terminated == pc = "done" /\ UNCHANGED vars

Next == \/ OpenFile \/ OpenFails \/ NoMoreFiles \/ FindMessage \/ Enter
        \/ EnterFails \/ ConvertGrid \/ ConvertFails \/ EndOfFile \/ Break
        \/ Terminated

(* The program is sequential: while it is running it takes its next step.  *)
Spec == Init /\ [][Next]_vars /\ WF_vars(Next)
-------------------------------------------------------------------------------
(* The types of the reader's and of DegribIt's variables.                  *)
TypeOK == /\ ReaderTypeOK
          /\ usr \in Requests
          /\ healthy \in BOOLEAN
          /\ curMsg \in Nat
          /\ pc \in {"open", "find", "enter", "loop", "break", "done"}
          /\ ret \in {0, 1}
          /\ out \in Seq(Grid)

(* How many messages lie in the files before file f.                       *)
MessagesBefore(fl, f) == Cardinality(UNION {{e} \X (1..Len(fl[e])) : e \in 1..(f - 1)})

(* The grids the -msg option names: all of them, or the k-th grid of the   *)
(* n-th message counted through all the files (a message that is not GRIB2 *)
(* has just one grid, whatever k is).                                      *)
Asked == IF usr.msgNum = 0
         THEN GridsOf(files)
         ELSE {g \in GridsOf(files) :
                  /\ MessagesBefore(files, g[1]) + g[2] = usr.msgNum
                  /\ files[g[1]][g[2]].ver = 2 => g[3] = usr.subgNum}

Status == IF pc # "done" THEN "running" ELSE IF ret = 0 THEN "ok" ELSE "failed"

Delivery == INSTANCE GridDelivery WITH asked <- Asked, status <- Status

(* Whatever the files hold, degrib -C hands to MainConvert the grids the   *)
(* -msg option names, in order, each once, stops at the first problem, and *)
(* returns 0 only after all of them (Grib2Convert, FindGRIBMsg and the     *)
(* f_endMsg protocol of ReadGrib2Record together).                         *)
DeliversWhatIsAsked == Delivery!Spec

(* The files are sound and so is the -msg option.                          *)
AllIntact == \A f \in 1..Len(files) : \A m \in 1..Len(files[f]) :
                /\ files[f][m].sect0
                /\ files[f][m].intact >= Len(files[f][m].grids)
                /\ files[f][m].ver = 2 => usr.subgNum < Len(files[f][m].grids)

(* When the files are sound, open, and can be converted, the command does  *)
(* not give up: it reaches the end and returns 0.                          *)
HealthyRunSucceeds == (healthy /\ AllIntact) ~> (pc = "done" /\ ret = 0)
===============================================================================
