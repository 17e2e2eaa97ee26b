----------------------------- MODULE MessageTools -----------------------------
(***************************************************************************)
(* The commands that walk through GRIB files message by message without    *)
(* unpacking a grid: the inventory (GRIB2Inventory), the oldest reference  *)
(* time (GRIB2RefTime), the splitting into files (GRIB2Split), and the     *)
(* search of -C -msg n (FindGRIBMsg, as DegribIt calls it).  Each finds    *)
(* the next message by itself, from the length the last one gave, so they  *)
(* may disagree on where a message starts and on which is the n-th.        *)
(***************************************************************************)
EXTENDS GribBytes

CONSTANTS MsgNums,     \* the -msg options, 0 for all messages
          Garbage      \* what an uninitialized reference time may hold

ASSUME ToolsAssumption == MsgNums \subseteq Nat /\ Garbage \subseteq Int

Commands == {"inventory", "reftime", "split", "convert"}

VARIABLES
    files,       \* usr->inNames, with the contents of the files
    f_Command,
    msgNum,      \* usr->msgNum
    inName,      \* how many of the files have been opened
    offset,      \* where in the file the next message is looked for
    curMsg,      \* the number of the last message found
    out,         \* the inventory, or the files written
    refTime,
    pc,          \* "open", "loop", "convert" (handed to Grib2Convert) or "done"
    ret

vars == <<files, f_Command, msgNum, inName, offset, curMsg, out, refTime, pc, ret>>
input == <<files, f_Command, msgNum>>

file == files[inName]
NumFiles == IF f_Command = "reftime" THEN 1 ELSE Len(files)

Init == /\ files \in ByteLists
        /\ f_Command \in Commands
        /\ msgNum \in MsgNums
        /\ f_Command = "convert" => msgNum > 0
        /\ inName = 0
        /\ offset = 0
        /\ curMsg = 0
        /\ out = <<>>
        /\ refTime \in Garbage
        /\ pc = "open"
        /\ ret = 0

Fail == pc' = "done" /\ ret' = 1

OpenFile == /\ pc = "open"
            /\ inName < NumFiles
            /\ inName' = inName + 1
            /\ offset' = 0
            /\ pc' = "loop"
            /\ UNCHANGED <<input, curMsg, out, refTime, ret>>

OpenFails == /\ pc = "open"
             /\ inName < NumFiles
             /\ Fail
             /\ UNCHANGED <<input, inName, offset, curMsg, out, refTime>>

NoMoreFiles == /\ pc = "open"
               /\ inName = NumFiles
               /\ pc' = "done"
               /\ UNCHANGED <<input, inName, offset, curMsg, out, refTime, ret>>

(* fgetc (fp) == EOF; a message that was cut off has been jumped over.     *)
EndOfFile == /\ pc = "loop"
             /\ offset >= Size(file)
             /\ pc' = "open"
             /\ UNCHANGED <<input, inName, offset, curMsg, out, refTime, ret>>

(***************************************************************************)
(* The loop that GRIB2Inventory, GRIB2RefTime and GRIB2Split have in       *)
(* common.  The search is limited for the first message only.              *)
(***************************************************************************)
Sect0 == ReadSECT0(file, offset, IF curMsg = 0 THEN GRIB_LIMIT ELSE -1)
tag == Sect0.tag

InLoop == pc = "loop" /\ f_Command # "convert" /\ offset < Size(file)
AtMessage(command) == InLoop /\ f_Command = command /\ Sect0.ret = 0

(* Mutants: the length of a message is not rounded, or its gap left out.   *)
StepOverUnpadded(len) == /\ curMsg' = curMsg + 1
                         /\ offset' = offset + Sect0.buffLen + tag.len
StepOverGapless(len) == /\ curMsg' = curMsg + 1
                        /\ offset' = offset + len

StepOver(len) == /\ curMsg' = curMsg + 1
                 /\ offset' = offset + Sect0.buffLen + len

(* Mutant: a file that holds no message is not given up.                   *)
NotGribGoesOn == InLoop /\ Sect0.ret # 0 /\ curMsg = 0 /\ UNCHANGED vars

NotGrib == /\ InLoop
           /\ Sect0.ret # 0
           /\ curMsg = 0
           /\ Fail
           /\ UNCHANGED <<input, inName, offset, curMsg, out, refTime>>

(* Mutant: the message that is not there is counted.                       *)
TrailingBytesCounted ==
    /\ InLoop
    /\ Sect0.ret # 0
    /\ curMsg > 0
    /\ curMsg' = curMsg + 1
    /\ pc' = "open"
    /\ UNCHANGED <<input, inName, offset, out, refTime, ret>>

(* After the first message, what holds no message is not an error.         *)
TrailingBytes == /\ InLoop
                 /\ Sect0.ret # 0
                 /\ curMsg > 0
                 /\ pc' = "open"
                 /\ UNCHANGED <<input, inName, offset, curMsg, out, refTime, ret>>

Entry(n, s, start) == [msgNum |-> n, subgNum |-> s, start |-> start]

(* One entry for each grid of the message.                                 *)
ListMessage == /\ AtMessage("inventory")
               /\ CanInventory(file, tag)
               /\ out' = out \o [s \in 1..tag.grids |-> Entry(curMsg + 1, s - 1, offset)]
               /\ StepOver(LenOnFile(tag.ver, tag.len))
               /\ UNCHANGED <<input, inName, refTime, pc, ret>>

InventoryFails == /\ AtMessage("inventory")
                  /\ ~CanInventory(file, tag)
                  /\ Fail
                  /\ UNCHANGED <<input, inName, offset, curMsg, out, refTime>>

(* Mutant: the reference time of the last message is kept.                 *)
NoteRefTimeLast == /\ AtMessage("reftime")
                   /\ CanRefTime(file, tag)
                   /\ refTime' = tag.refTime
                   /\ StepOver(tag.len)
                   /\ UNCHANGED <<input, inName, out, pc, ret>>

(* The padding of a TDLPack message is left to the next search.            *)
NoteRefTime == /\ AtMessage("reftime")
               /\ CanRefTime(file, tag)
               /\ refTime' = IF curMsg = 0 \/ tag.refTime < refTime THEN tag.refTime ELSE refTime
               /\ StepOver(tag.len)
               /\ UNCHANGED <<input, inName, out, pc, ret>>

RefTimeFails == /\ AtMessage("reftime")
                /\ ~CanRefTime(file, tag)
                /\ Fail
                /\ UNCHANGED <<input, inName, offset, curMsg, out, refTime>>

IsSplitOff == msgNum = 0 \/ curMsg + 1 = msgNum
SplitLen == LenOnFile(tag.ver, tag.len)

SplitMessage == /\ AtMessage("split")
                /\ IsSplitOff
                /\ tag.at + SplitLen <= Size(file)
                /\ out' = Append(out, [name |-> <<inName, curMsg + 1>>,
                                       from |-> offset + Sect0.buffLen, bytes |-> SplitLen])
                /\ StepOver(SplitLen)
                /\ UNCHANGED <<input, inName, refTime, pc, ret>>

SkipMessage == /\ AtMessage("split")
               /\ ~IsSplitOff
               /\ StepOver(SplitLen)
               /\ UNCHANGED <<input, inName, out, refTime, pc, ret>>

(* The input ends in the middle of the message; what there is of it has    *)
(* been written.                                                           *)
SplitRunsOut == /\ AtMessage("split")
                /\ IsSplitOff
                /\ tag.at + SplitLen > Size(file)
                /\ out' = Append(out, [name |-> <<inName, curMsg + 1>>, from |-> tag.at,
                                       bytes |-> Size(file) - tag.at])
                /\ Fail
                /\ UNCHANGED <<input, inName, offset, curMsg, refTime>>

SplitCannotWrite == /\ AtMessage("split")
                    /\ IsSplitOff
                    /\ Fail
                    /\ UNCHANGED <<input, inName, offset, curMsg, out, refTime>>

(***************************************************************************)
(* FindGRIBMsg.  Every search is limited, and the padding of a TDLPack     *)
(* message is left to the next one.                                        *)
(***************************************************************************)
InFind == pc = "loop" /\ f_Command = "convert" /\ offset < Size(file)
FindSect0 == ReadSECT0(file, offset, GRIB_LIMIT)

FoundMessage == /\ InFind
                /\ curMsg + 1 >= msgNum
                /\ curMsg' = curMsg + 1
                /\ pc' = "convert"
                /\ UNCHANGED <<input, inName, offset, out, refTime, ret>>

(* Mutant: the bytes before the message are left out of the step.          *)
FindNextGapless == /\ InFind
                   /\ curMsg + 1 < msgNum
                   /\ FindSect0.ret = 0
                   /\ offset' = offset + FindSect0.tag.len
                   /\ curMsg' = curMsg + 1
                   /\ UNCHANGED <<input, inName, out, refTime, pc, ret>>

FindNext == /\ InFind
            /\ curMsg + 1 < msgNum
            /\ FindSect0.ret = 0
            /\ offset' = FindSect0.tag.at + FindSect0.tag.len
            /\ curMsg' = curMsg + 1
            /\ UNCHANGED <<input, inName, out, refTime, pc, ret>>

FindFails == /\ InFind
             /\ curMsg + 1 < msgNum
             /\ FindSect0.ret # 0
             /\ Fail
             /\ UNCHANGED <<input, inName, offset, curMsg, out, refTime>>

Terminated == pc \in {"convert", "done"} /\ UNCHANGED vars

Next == \/ OpenFile \/ OpenFails \/ NoMoreFiles \/ EndOfFile
        \/ NotGrib \/ TrailingBytes
        \/ ListMessage \/ InventoryFails \/ NoteRefTime \/ RefTimeFails
        \/ SplitMessage \/ SkipMessage \/ SplitRunsOut \/ SplitCannotWrite
        \/ FoundMessage \/ FindNext \/ FindFails
        \/ Terminated

(* The program is sequential: while it is running it takes its next step.  *)
Spec == Init /\ [][Next]_vars /\ WF_vars(Next)
-------------------------------------------------------------------------------
(* The numbers the messages have for the user: they run on from file to    *)
(* file.                                                                   *)
MsgsBefore(fl) == SumBefore([f \in 1..Len(fl) |-> Len(fl[f].msgs)])
Number(f, i) == MsgsBefore(files)[f] + i

AllMsgs == UNION {{<<f, i>> : i \in 1..Len(files[f].msgs)} : f \in 1..Len(files)}

TypeOK == /\ files \in ByteLists
          /\ f_Command \in Commands
          /\ msgNum \in MsgNums
          /\ inName \in 0..Len(files)
          /\ offset \in Nat
          /\ curMsg \in 0..(MsgsBefore(files)[Len(files) + 1] + 1)
          /\ refTime \in Int
          /\ pc \in {"open", "loop", "convert", "done"}
          /\ ret \in {0, 1}
          /\ IF f_Command = "inventory"
             THEN out \in Seq([msgNum : Nat, subgNum : Nat, start : Nat])
             ELSE out \in Seq([name : Nat \X Nat, from : Nat, bytes : Nat])

EndedWell(command) == f_Command = command /\ pc = "done" /\ ret = 0

(* The inventory lists the grids of all the messages in order, numbers the *)
(* messages on from file to file, and gives each the byte after the last   *)
(* one as its start (inventory.c:1074), whatever lies between and after    *)
(* the messages, or in them.                                               *)
FullInventory ==
    UNION {{Entry(Number(m[1], m[2]), s - 1, Start(files[m[1]])[m[2]]) :
               s \in 1..files[m[1]].msgs[m[2]].grids} : m \in AllMsgs}

ListedBefore(e, d) == e.msgNum < d.msgNum \/ (e.msgNum = d.msgNum /\ e.subgNum < d.subgNum)

InventoryIsFull ==
    EndedWell("inventory") =>
       /\ {out[k] : k \in DOMAIN out} = FullInventory
       /\ \A j, k \in DOMAIN out : j < k => ListedBefore(out[j], out[k])

(* The reference time is the oldest of the messages of the first file,     *)
(* although the walk does not step over the padding of TDLPack messages    *)
(* (inventory.c:1213).                                                     *)
RefTimeIsOldest ==
    EndedWell("reftime") /\ files[1].msgs # <<>> =>
       LET times == {files[1].msgs[i].refTime : i \in 1..Len(files[1].msgs)}
       IN  refTime \in times /\ \A t \in times : refTime <= t

(* Splitting writes each message asked for once, in order, to a file of    *)
(* its number, all of it from its first byte on, and nothing else          *)
(* (split.c:150).                                                          *)
SplitsOff ==
    {[name |-> <<m[1], Number(m[1], m[2])>>, from |-> TagOf(files[m[1]], m[2]),
      bytes |-> LenOnFile(files[m[1]].msgs[m[2]].ver, files[m[1]].msgs[m[2]].len)] :
     m \in {x \in AllMsgs : msgNum \in {0, Number(x[1], x[2])}}}

SplitIsExact ==
    EndedWell("split") =>
       /\ {out[k] : k \in DOMAIN out} = SplitsOff
       /\ \A j, k \in DOMAIN out : j < k => out[j].name[2] < out[k].name[2]

(* -C -msg n is given the file and a place before the n-th message of the  *)
(* inventory: the next message from there on is that message.              *)
HandsOver(f, i) == /\ inName = f
                   /\ ReadSECT0(file, offset, -1).ret = 0
                   /\ ReadSECT0(file, offset, -1).tag.at = TagOf(file, i)

FindsWhatIsListed ==
    pc = "convert" => \E m \in AllMsgs : msgNum = Number(m[1], m[2]) /\ HandsOver(m[1], m[2])

(* It is, as long as all the files up to that one end with a message that  *)
(* takes all of its bytes (degrib2.c:312).                                 *)
EndsInMessage(f) == /\ f.trail = 0
                    /\ f.msgs # <<>> => f.msgs[Len(f.msgs)].ver # -1

FindsInCleanFiles ==
    pc = "convert" /\ (\A f \in 1..inName : EndsInMessage(files[f])) =>
       \E m \in AllMsgs : msgNum = Number(m[1], m[2]) /\ HandsOver(m[1], m[2])

(* Each of the commands ends.                                              *)
ToolsEnd == <>(pc \in {"convert", "done"})
===============================================================================
