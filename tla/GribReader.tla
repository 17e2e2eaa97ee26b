------------------------------ MODULE GribReader ------------------------------
(***************************************************************************)
(* The message reader every degrib command is built on (degrib2.c):        *)
(* FindGRIBMsg, which skips to a message, and ReadGrib2Record, which       *)
(* returns the next grid.  A GRIB2 message may hold several grids.  The    *)
(* reader keeps the packed message in IS->ipack and tells its caller,      *)
(* through f_endMsg, whether the grid it returned was the last one of the  *)
(* message; the caller passes back, in subgNum, which grid it wants next.  *)
(* The protocol only works if the caller plays its part, so the callers    *)
(* are modelled in modules that extend this one.                           *)
(***************************************************************************)
EXTENDS GribFiles

VARIABLES
    files,       \* usr->inNames, with the contents of the files
    inName,      \* how many of the files have been opened
    msgPos,      \* how many messages of the open file lie before grib_fp
    ipack,       \* <<file, message>> packed in IS->ipack, or <<0, 0>>
    f_endMsg,    \* 1 if the next grid must come from the next message
    subgNum      \* which grid of the message the caller asks for, from 0

readerVars == <<files, inName, msgPos, ipack, f_endMsg, subgNum>>

ReaderInit == /\ files \in FileLists
              /\ inName = 0
              /\ msgPos = 0
              /\ ipack = <<0, 0>>
              /\ f_endMsg = 1
              /\ subgNum = 0

(* Besides the types: the file is never left behind its end, and while     *)
(* grids of a message are to be read, IS->ipack holds a GRIB2 message.     *)
IsMessage(f, m) == f \in 1..Len(files) /\ m \in 1..Len(files[f])

ReaderTypeOK ==
    /\ files \in FileLists
    /\ inName \in 0..Len(files)
    /\ msgPos \in Nat
    /\ inName > 0 => msgPos <= Len(files[inName])
    /\ ipack \in Nat \X Nat
    /\ f_endMsg \in {0, 1}
    /\ f_endMsg = 0 => /\ IsMessage(ipack[1], ipack[2])
                       /\ files[ipack[1]][ipack[2]].ver = 2
    /\ subgNum \in Nat

(* fgetc (grib_fp) == EOF                                                  *)
AtEOF == msgPos = Len(files[inName])

(***************************************************************************)
(* ReadGrib2Record                                                         *)
(***************************************************************************)

(* The message a call works on: the next one of the file if the last one   *)
(* is finished, otherwise the one still in IS->ipack.                      *)
Source == IF f_endMsg = 1 THEN <<inName, msgPos + 1>> ELSE ipack
SourceMsg == files[Source[1]][Source[2]]

(* A GRIB1 or TDLPack message has one grid and subgNum is not looked at;   *)
(* in a GRIB2 message the grids 0..subgNum are unpacked in turn.           *)
Wanted == IF SourceMsg.ver = 2 THEN subgNum ELSE 0

ReadSucceeds == /\ f_endMsg = 1 => ~AtEOF /\ SourceMsg.sect0
                /\ Wanted < Len(SourceMsg.grids)
                /\ Wanted < SourceMsg.intact

GridRead == <<Source[1], Source[2], Wanted>>

(* Mutant: f_endMsg is set one grid too late.                              *)
ReadGrib2RecordLate ==
    /\ ReadSucceeds
    /\ msgPos' = IF f_endMsg = 1 THEN msgPos + 1 ELSE msgPos
    /\ ipack' = Source
    /\ f_endMsg' = IF Wanted = Len(SourceMsg.grids) THEN 1 ELSE 0
    /\ UNCHANGED <<files, inName>>

(* What a call that returns 0 does to the reader.                          *)
ReadGrib2Record ==
    /\ ReadSucceeds
    /\ msgPos' = IF f_endMsg = 1 THEN msgPos + 1 ELSE msgPos
    /\ ipack' = Source
    /\ f_endMsg' = IF Wanted + 1 = Len(SourceMsg.grids) THEN 1 ELSE 0
    /\ UNCHANGED <<files, inName>>

(***************************************************************************)
(* FindGRIBMsg: skip messages, counting from *curMsg, until msgNum is the  *)
(* next one.  Only the Section 0 of a skipped message is looked at.        *)
(***************************************************************************)
FindGRIBMsg(file, msgNum, curMsg) ==
    LET skip == IF msgNum > curMsg + 1 THEN msgNum - (curMsg + 1) ELSE 0
    IN  IF \E i \in 1..Len(file) : i <= skip /\ ~file[i].sect0
        THEN [ret |-> -1, pos |-> 0, curMsg |-> curMsg]
        ELSE IF skip < Len(file)
             THEN [ret |-> 0, pos |-> skip, curMsg |-> curMsg + skip + 1]
             ELSE [ret |-> -2, pos |-> Len(file), curMsg |-> curMsg + Len(file)]
===============================================================================
