----------------------------- MODULE StormTotal -----------------------------
(***************************************************************************)
(* degrib -StormTotal on one file (StormTotal in commands.c): the grids of *)
(* the messages whose time range lies within startTime and endTime are     *)
(* added up point by point, and the total is handed to MainConvert.        *)
(*                                                                         *)
(* A grid is the record of what the loop looks at: its element, the end    *)
(* and the length of its time range in hours (single is FALSE when the     *)
(* message has no single time range), and the value at one point, which    *)
(* is the primary missing value missPri when there is no data there.       *)
(***************************************************************************)
EXTENDS GribReader

CONSTANTS
    Windows,     \* the [startTime, endTime] pairs of the user
    missPri,     \* gridAttrib.missPri, the same in all the messages
    None         \* grib_total is NULL, or MainConvert is not called yet

(* DegribIt refuses other windows before it calls StormTotal.              *)
ASSUME WindowsAssumption ==
    \A w \in Windows : /\ w.startTime \in Nat /\ w.endTime \in Nat
                       /\ w.startTime > 0 /\ w.endTime >= w.startTime

(* Times are whole hours since 1970 here, and there is an input file.      *)
ASSUME StormAssumption ==
    /\ \A d \in Field : d.end \in Nat /\ d.len \in Int /\ d.val \in Int
    /\ missPri \in Int /\ None \notin Int
    /\ None \notin [total : Int \cup {None}, validTime : Int, lenTime : Int]
    /\ \A fl \in FileLists : Len(fl) > 0

VARIABLES
    usr,           \* the window
    healthy,       \* MainConvert can write its output
    pc,
    error,
    msgEnd,        \* end of the time range of the last message, 0 at first
    f_haveMsg, f_haveMsgBeforeEnd,
    grib_total,    \* the total at the point, or None
    prev_element,
    firstTime, timeRange,
    kept,          \* the grids added up so far, by name
    converted      \* what MainConvert is called with, or None

locals == <<msgEnd, f_haveMsg, f_haveMsgBeforeEnd, grib_total, prev_element,
            firstTime, timeRange, kept>>
vars == <<readerVars, usr, healthy, pc, error, locals, converted>>

Init == /\ files \in FileLists
        /\ inName = 1 /\ msgPos = 0 /\ ipack = <<0, 0>>
        /\ f_endMsg = 1 /\ subgNum = 0
        /\ usr \in Windows
        /\ healthy \in BOOLEAN
        /\ pc = "loop"
        /\ error = 0
        /\ msgEnd = 0
        /\ f_haveMsg = FALSE /\ f_haveMsgBeforeEnd = FALSE
        /\ grib_total = None /\ prev_element = None
        /\ firstTime = 0 /\ timeRange = 0
        /\ kept = <<>>
        /\ converted = None

LoopAgain == ~AtEOF \/ f_endMsg # 1
EndOf(d) == d.end
StartOf(d) == d.end - d.len

(* One iteration reads the next grid, d; nothing in the loop assigns       *)
(* subgNum.                                                                *)
Iterate(d) == /\ pc = "loop"
              /\ LoopAgain
              /\ ReadGrib2Record
              /\ d = FieldOf(files, GridRead)
              /\ UNCHANGED <<subgNum, usr, healthy, converted>>

IsUsable(d) == SourceMsg.ver = 2 /\ d.single

LeaveLoop(err) == pc' = "after" /\ error' = err

(* Mutant: after a record that cannot be read the loop goes on.            *)
ReadFailsGoesOn == /\ pc = "loop"
                   /\ LoopAgain
                   /\ ~ReadSucceeds
                   /\ error' = 1
                   /\ UNCHANGED <<readerVars, usr, healthy, pc, locals, converted>>

ReadFails == /\ pc = "loop"
             /\ LoopAgain
             /\ ~ReadSucceeds
             /\ LeaveLoop(1)
             /\ UNCHANGED <<readerVars, usr, healthy, locals, converted>>

NotUsable(d) ==
    /\ Iterate(d)
    /\ ~IsUsable(d)
    /\ LeaveLoop(IF SourceMsg.ver # 2 THEN 1 ELSE 3)
    /\ msgEnd' = IF SourceMsg.ver # 2 THEN msgEnd ELSE EndOf(d)
    /\ UNCHANGED <<f_haveMsg, f_haveMsgBeforeEnd, grib_total, prev_element,
                   firstTime, timeRange, kept>>

(* The messages are taken to be in the order of their valid times.         *)
PastTheEnd(d) ==
    /\ Iterate(d)
    /\ IsUsable(d)
    /\ EndOf(d) > usr.endTime
    /\ LeaveLoop(error)
    /\ msgEnd' = EndOf(d)
    /\ UNCHANGED <<f_haveMsg, f_haveMsgBeforeEnd, grib_total, prev_element,
                   firstTime, timeRange, kept>>

TooEarly(d) ==
    /\ Iterate(d)
    /\ IsUsable(d)
    /\ EndOf(d) <= usr.endTime
    /\ StartOf(d) < usr.startTime
    /\ msgEnd' = EndOf(d)
    /\ f_haveMsgBeforeEnd' = TRUE
    /\ UNCHANGED <<pc, error, f_haveMsg, grib_total, prev_element, firstTime,
                   timeRange, kept>>

InWindow(d) == EndOf(d) <= usr.endTime /\ StartOf(d) >= usr.startTime

Mismatch(d) ==
    /\ Iterate(d)
    /\ IsUsable(d)
    /\ InWindow(d)
    /\ grib_total # None /\ prev_element # d.element
    /\ LeaveLoop(1)
    /\ msgEnd' = EndOf(d)
    /\ f_haveMsg' = TRUE /\ f_haveMsgBeforeEnd' = TRUE
    /\ UNCHANGED <<grib_total, prev_element, firstTime, timeRange, kept>>

(* Mutant: the length of the last time range is taken for that of all.     *)
AccumulateLastRange(d) ==
    LET first == grib_total = None
        total == IF first THEN 0 ELSE grib_total
    IN  /\ Iterate(d)
        /\ IsUsable(d)
        /\ InWindow(d)
        /\ first \/ prev_element = d.element
        /\ msgEnd' = EndOf(d)
        /\ f_haveMsg' = TRUE /\ f_haveMsgBeforeEnd' = TRUE
        /\ prev_element' = IF first THEN d.element ELSE prev_element
        /\ firstTime' = IF first THEN StartOf(d) ELSE firstTime
        /\ grib_total' = IF d.val = missPri THEN missPri ELSE total + d.val
        /\ timeRange' = d.len
        /\ kept' = Append(kept, GridRead)
        /\ UNCHANGED <<pc, error>>

Accumulate(d) ==
    LET first == grib_total = None
        total == IF first THEN 0 ELSE grib_total
    IN  /\ Iterate(d)
        /\ IsUsable(d)
        /\ InWindow(d)
        /\ first \/ prev_element = d.element
        /\ msgEnd' = EndOf(d)
        /\ f_haveMsg' = TRUE /\ f_haveMsgBeforeEnd' = TRUE
        /\ prev_element' = IF first THEN d.element ELSE prev_element
        /\ firstTime' = IF first THEN StartOf(d) ELSE firstTime
        /\ grib_total' = IF d.val = missPri THEN missPri ELSE total + d.val
        /\ timeRange' = EndOf(d) - firstTime'
        /\ kept' = Append(kept, GridRead)
        /\ UNCHANGED <<pc, error>>

EndOfFile == /\ pc = "loop"
             /\ ~LoopAgain
             /\ LeaveLoop(error)
             /\ UNCHANGED <<readerVars, usr, healthy, locals, converted>>

(* Mutant: a file that goes on past the window is one without a message.   *)
AfterErrorPastTheEnd ==
    IF msgEnd = 0 \/ msgEnd < usr.startTime \/ msgEnd > usr.endTime THEN 2 ELSE error

(* After the loop msgEnd tells whether anything can have been totalled.    *)
AfterError == IF msgEnd = 0 \/ msgEnd < usr.startTime \/ (msgEnd > usr.endTime /\ ~f_haveMsg)
              THEN 2 ELSE error

(* If there is no error the total goes to MainConvert with the valid time  *)
(* and the length of the whole range.                                      *)
Conclude == /\ pc = "after"
            /\ pc' = "done"
            /\ IF AfterError # 0
               THEN error' = AfterError /\ UNCHANGED converted
               ELSE /\ error' = IF healthy THEN 0 ELSE 1
                    /\ converted' = [total |-> grib_total,
                                     validTime |-> firstTime + timeRange,
                                     lenTime |-> timeRange]
            /\ UNCHANGED <<readerVars, usr, healthy, locals>>

Terminated == pc = "done" /\ UNCHANGED vars

Next == \/ ReadFails
        \/ \E d \in Field : \/ NotUsable(d) \/ PastTheEnd(d) \/ TooEarly(d)
                            \/ Mismatch(d) \/ Accumulate(d)
        \/ EndOfFile
        \/ Conclude
        \/ Terminated

(* The program is sequential: while it is running it takes its next step.  *)
Spec == Init /\ [][Next]_vars /\ WF_vars(Next)
-------------------------------------------------------------------------------
(* The types of the reader's and of StormTotal's variables.                *)
TypeOK == /\ ReaderTypeOK
          /\ pc \in {"loop", "after", "done"}
          /\ error \in 0..3
          /\ msgEnd \in Nat
          /\ grib_total \in Int \cup {None}
          /\ kept \in Seq(Grid)
          /\ f_haveMsg \in BOOLEAN /\ f_haveMsgBeforeEnd \in BOOLEAN

Ended == pc = "done" /\ error = 0

(* The grids of the file in order, for a file of one-grid messages.        *)
FirstGrids == [m \in 1..Len(files[1]) |-> files[1][m].grids[1]]
Sorted == \A m, n \in DOMAIN FirstGrids : m < n => FirstGrids[m].end <= FirstGrids[n].end

(* Whether a grid lies inside a window, and what the first m grids that do *)
(* add up to.                                                              *)
LiesInside(d, w) == w.startTime <= d.end - d.len /\ d.end <= w.endTime
TotalTo(ds, w) ==
    LET total[m \in 0..Len(ds)] ==
            IF m = 0 THEN 0
            ELSE total[m - 1] + (IF LiesInside(ds[m], w) THEN ds[m].val ELSE 0)
    IN  total

(* In a file of one-grid messages in the order of their valid times (which *)
(* the loop assumes, commands.c:773), every message inside the window is   *)
(* added and no other, in order; a total without missing values is their   *)
(* sum, and it is labelled with the time range from the start of the first *)
(* to the end of the last.                                                 *)
TotalsTheWindow ==
    LET inside == {m \in DOMAIN FirstGrids : LiesInside(FirstGrids[m], usr)}
    IN  Ended /\ Sorted =>
          /\ {kept[i] : i \in DOMAIN kept} = {<<1, m, 0>> : m \in inside}
          /\ \A i, j \in DOMAIN kept : i < j => kept[i][2] < kept[j][2]
          /\ inside # {} /\ (\A m \in inside : FirstGrids[m].val # missPri)
                => converted.total = TotalTo(FirstGrids, usr)[Len(FirstGrids)]
          /\ \A m \in inside :
               /\ (\A n \in inside : n <= m) => converted.validTime = FirstGrids[m].end
               /\ (\A n \in inside : m <= n) =>
                     converted.validTime - converted.lenTime = FirstGrids[m].end - FirstGrids[m].len

(* The messages can all be added up, and are in the order of their times.  *)
AllAddable == /\ Sorted
              /\ \A m \in DOMAIN FirstGrids :
                    /\ files[1][m].ver = 2 /\ files[1][m].sect0 /\ files[1][m].intact > 0
                    /\ FirstGrids[m].single /\ FirstGrids[m].len >= 0
                    /\ FirstGrids[m].element = FirstGrids[1].element

(* The file ends with a message that ends in a window and began before it. *)
EndsAcrossTheStart(w) ==
    /\ FirstGrids # <<>>
    /\ LET d == FirstGrids[Len(FirstGrids)]
       IN  d.end - d.len < w.startTime /\ w.startTime <= d.end /\ d.end <= w.endTime

(* Whether there is anything to convert is decided after the loop from the *)
(* last message read, which need not be one that was added (commands.c:    *)
(* 836).  In files that can be added up the decision is right: MainConvert *)
(* is called when some message lies inside the window, and otherwise the   *)
(* error is that there is none, but for a file that ends across the start  *)
(* of the window: MainConvert is then called without a total.              *)
TellsAnEmptyWindow ==
    LET isEmpty == \A m \in DOMAIN FirstGrids : ~LiesInside(FirstGrids[m], usr)
    IN  pc = "done" /\ AllAddable =>
          /\ converted # None <=> ~isEmpty \/ EndsAcrossTheStart(usr)
          /\ error = 2 <=> converted = None
          /\ converted # None => (converted.total = None <=> isEmpty)

(* The loop over the messages of the file comes to its end.                *)
Terminates == <>(pc = "done")
===============================================================================
