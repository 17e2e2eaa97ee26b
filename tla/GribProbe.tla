------------------------------ MODULE GribProbe ------------------------------
(***************************************************************************)
(* degrib -P: the loop of GRIB2Probe (probe.c), which reads the grids of   *)
(* the first input file and writes the values at the user's points for     *)
(* each.  GenericProbe (probe.c) and genProbeGrib (genprobe.c) walk        *)
(* through a file in the same way.  A grid is TRUE or FALSE: whether       *)
(* GDSValid accepts its grid definition.                                   *)
(***************************************************************************)
EXTENDS GribReader

(* Without a file name the input is stdin.                                 *)
ASSUME ProbeFilesAssumption ==
    Field \subseteq BOOLEAN /\ \A fl \in FileLists : Len(fl) > 0

VARIABLES
    healthy,     \* the files open and the values are in range
    pc,
    ret,         \* what GRIB2Probe returns
    out          \* the grids probed so far

vars == <<readerVars, healthy, pc, ret, out>>

Init == /\ ReaderInit
        /\ healthy \in BOOLEAN
        /\ pc = "open"
        /\ ret = 0
        /\ out = <<>>

Return(r) == pc' = "done" /\ ret' = r

(* inNames[0] is opened, and then the output files.                        *)
OpenFile == /\ pc = "open"
            /\ inName' = 1
            /\ pc' = "loop"
            /\ UNCHANGED <<files, msgPos, ipack, f_endMsg, subgNum, healthy, ret, out>>

OpenFails == /\ pc = "open"
             /\ ~healthy
             /\ \E r \in {-1, -2} : Return(r)
             /\ UNCHANGED <<readerVars, healthy, out>>

(* The loop goes on until the end of the file, whatever f_endMsg says.     *)
LoopAgain == ~AtEOF

(* Mutant: the first grid of the next message is not chosen.               *)
ProbeGridNoReset ==
    /\ pc = "loop"
    /\ LoopAgain
    /\ ReadGrib2Record
    /\ subgNum' = IF f_endMsg' # 1 THEN subgNum + 1 ELSE subgNum
    /\ IF FieldOf(files, GridRead)
       THEN out' = Append(out, GridRead) /\ UNCHANGED <<pc, ret>>
       ELSE Return(-4) /\ UNCHANGED out
    /\ UNCHANGED healthy

(* One iteration: a grid is read, the next one is chosen, and the values   *)
(* at the points are written.                                              *)
ProbeGrid ==
    /\ pc = "loop"
    /\ LoopAgain
    /\ ReadGrib2Record
    /\ subgNum' = IF f_endMsg' # 1 THEN subgNum + 1 ELSE 0
    /\ IF FieldOf(files, GridRead)
       THEN out' = Append(out, GridRead) /\ UNCHANGED <<pc, ret>>
       ELSE Return(-4) /\ UNCHANGED out
    /\ UNCHANGED healthy

(* The record cannot be read or a value is not in -validMin/-validMax.     *)
ProbeFails == /\ pc = "loop"
              /\ LoopAgain
              /\ ~ReadSucceeds \/ ~healthy
              /\ Return(-3)
              /\ UNCHANGED <<readerVars, healthy, out>>

EndOfFile == /\ pc = "loop"
             /\ ~LoopAgain
             /\ Return(0)
             /\ UNCHANGED <<readerVars, healthy, out>>

Terminated == pc = "done" /\ UNCHANGED vars

Next == OpenFile \/ OpenFails \/ ProbeGrid \/ ProbeFails \/ EndOfFile \/ Terminated

(* The program is sequential: while it is running it takes its next step.  *)
Spec == Init /\ [][Next]_vars /\ WF_vars(Next)
-------------------------------------------------------------------------------
(* The types of the reader's and of GRIB2Probe's variables.                *)
TypeOK == /\ ReaderTypeOK
          /\ inName \in 0..1
          /\ healthy \in BOOLEAN
          /\ pc \in {"open", "loop", "done"}
          /\ ret \in {0, -1, -2, -3, -4}
          /\ out \in Seq(Grid)

FileGrids == {g \in GridsOf(files) : g[1] = 1}

(* The grids after the first one of the last message of the file.          *)
Tail1 == {g \in FileGrids : g[2] = Len(files[1]) /\ g[3] > 0}

Status == IF pc # "done" THEN "running" ELSE IF ret = 0 THEN "ok" ELSE "failed"

Delivery == INSTANCE GridDelivery WITH asked <- FileGrids \ Tail1, status <- Status

(* GRIB2Probe probes the grids of the file in order, each once; of the     *)
(* last message it never reaches more than the first grid, and when it     *)
(* returns 0 it has probed all the others.                                 *)
ProbesAllButATail == Delivery!Spec
===============================================================================
