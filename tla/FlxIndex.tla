------------------------------ MODULE FlxIndex ------------------------------
(***************************************************************************)
(* The .flx index while it is in memory (database.c): a flat buffer that   *)
(* InsertGDS and InsertPDS search, and into the middle of which they       *)
(* insert records.                                                         *)
(*                                                                         *)
(* A cell of the buffer is one field of the format; the lengths and the    *)
(* offsets count cells instead of bytes.  From offset 0 the buffer holds   *)
(*   FLX, the file length                                                  *)
(*   numGDS and the GDS records, of GDSLEN cells each                      *)
(*   numSuperPDS and, for each super header,                               *)
(*      its size with that of its PDS array                                *)
(*      supLen, element, refTime, tag length, tag..., gdsNum               *)
(*      numPDS and, for each PDS,                                          *)
(*         pdsLen, validTime, place length, place...                       *)
(* The tag stands for the unit, the comment, the center and subcenter; the *)
(* place for the file name, the offset, endian, scan and the table.        *)
(* Elements are numbers, in the order strcmp gives their names.            *)
(***************************************************************************)
EXTENDS Integers, Sequences, FiniteSets

CONSTANTS
    Grids,       \* the grids inserted; see GridsAssumption
    UShort2      \* how many values a uShort2 has

ASSUME GridsAssumption ==
    \A g \in Grids :
       /\ DOMAIN g = {"gds", "element", "refTime", "tag", "validTime", "place"}
       /\ \A x \in {g.gds, g.element, g.refTime, g.validTime} : x \in Nat
       /\ g.tag \in Seq(Nat) /\ g.place \in Seq(Nat)

ASSUME UShort2Assumption == UShort2 \in Nat \ {0}

VARIABLES
    flxArray,    \* the buffer
    request      \* the last grid inserted

vars == <<flxArray, request>>

FLX == 767688    \* the first cell: the letters "FLX"
HEADLEN == 2
GDSLEN == 2

At(buf, off) == buf[off + 1]
Slice(buf, off, n) == SubSeq(buf, off + 1, off + n)

BufferInsert(buf, off, new) ==
    SubSeq(buf, 1, off) \o new \o SubSeq(buf, off + 1, Len(buf))
BufferRemove(buf, off, n) ==
    SubSeq(buf, 1, off) \o SubSeq(buf, off + n + 1, Len(buf))
PutCell(buf, off, v) == [buf EXCEPT ![off + 1] = v]
IncrCell(buf, off, n) == [buf EXCEPT ![off + 1] = @ + n]
IncrShort(buf, off) == [buf EXCEPT ![off + 1] = (@ + 1) % UShort2]

CreateFLX == <<FLX, HEADLEN + 2, 0, 0>>

(* The GDS array.                                                          *)
NumGDS(buf) == At(buf, HEADLEN)
GDSAt(buf, n) == Slice(buf, HEADLEN + 1 + (n - 1) * GDSLEN, GDSLEN)

WriteGDS(gds) == <<0, gds>>

(* Mutant: the number of a new record is counted from 0.                   *)
InsertGDSFromZero(buf, gds) ==
    LET same == {n \in 1..NumGDS(buf) : GDSAt(buf, n) = WriteGDS(gds)}
        end == HEADLEN + 1 + GDSLEN * NumGDS(buf)
        grown == IncrShort(BufferInsert(buf, end, WriteGDS(gds)), HEADLEN)
    IN  IF same # {}
        THEN [gdsNum |-> CHOOSE n \in same : \A m \in same : n <= m, buf |-> buf]
        ELSE [gdsNum |-> NumGDS(buf) - 1, buf |-> grown]

(* InsertGDS: the number of the record equal to gds, added if need be.     *)
InsertGDS(buf, gds) ==
    LET same == {n \in 1..NumGDS(buf) : GDSAt(buf, n) = WriteGDS(gds)}
        end == HEADLEN + 1 + GDSLEN * NumGDS(buf)
        grown == IncrShort(BufferInsert(buf, end, WriteGDS(gds)), HEADLEN)
    IN  IF same # {}
        THEN [gdsNum |-> CHOOSE n \in same : \A m \in same : n <= m, buf |-> buf]
        ELSE [gdsNum |-> NumGDS(grown), buf |-> grown]

(* The super headers start after the GDS array and their number; each one  *)
(* is reached from the one before by its size.                             *)
SuperCount(buf) == HEADLEN + 1 + GDSLEN * NumGDS(buf)
NumSuper(buf) == At(buf, SuperCount(buf))
SuperAt(buf) ==
    LET at[i \in 1..NumSuper(buf) + 1] ==
            IF i = 1 THEN SuperCount(buf) + 1 ELSE at[i - 1] + At(buf, at[i - 1])
    IN  at

WriteSupPDS(g, gdsNum) ==
    <<5 + Len(g.tag), g.element, g.refTime, Len(g.tag)>> \o g.tag \o <<gdsNum>>

(* Within a super header at sup the PDS array starts after supLen cells,   *)
(* and each PDS is reached from the one before by its length.              *)
SupLen(buf, sup) == At(buf, sup + 1)
PDSCount(buf, sup) == sup + 1 + SupLen(buf, sup)
NumPDS(buf, sup) == At(buf, PDSCount(buf, sup))
PDSAt(buf, sup) ==
    LET at[j \in 1..NumPDS(buf, sup) + 1] ==
            IF j = 1 THEN PDSCount(buf, sup) + 1 ELSE at[j - 1] + At(buf, at[j - 1])
    IN  at
ValidTime(buf, pds) == At(buf, pds + 1)

WritePDS(g) == <<3 + Len(g.place), g.validTime, Len(g.place)>> \o g.place

First(S) == CHOOSE i \in S : \A j \in S : i <= j

(* Mutants: an earlier reference time sorts first; only the element and    *)
(* the reference time of two super headers are compared.                   *)
SortsAfterLater(buf, sup, g) ==
    \/ At(buf, sup + 2) > g.element
    \/ At(buf, sup + 2) = g.element /\ At(buf, sup + 3) > g.refTime
IsSameTime(buf, sup, head) == Slice(buf, sup + 2, 2) = SubSeq(head, 2, 3)

(* The search of InsertPDS among the super headers stops at the one that   *)
(* is to come after the new grid, or that is the new grid's own.           *)
SortsAfter(buf, sup, g) == \/ At(buf, sup + 2) > g.element
                           \/ At(buf, sup + 2) = g.element /\ At(buf, sup + 3) < g.refTime
IsSameSuper(buf, sup, head) == Slice(buf, sup + 1, SupLen(buf, sup)) = head

(* A super header and a PDS array of one are inserted at offset sup.       *)
InsertSuper(buf, sup, head, pds) ==
    LET record == <<Len(head) + Len(pds) + 2>> \o head \o <<1>> \o pds
    IN  IncrShort(BufferInsert(buf, sup, record), SuperCount(buf))

(* Mutant: the length of the PDS that is replaced is not taken off.        *)
InsertIntoGrows(buf, sup, g) ==
    LET at == PDSAt(buf, sup)
        new == WritePDS(g)
        num == NumPDS(buf, sup)
        notEarlier == {j \in 1..num : ValidTime(buf, at[j]) >= g.validTime}
        pos == at[IF notEarlier = {} THEN num + 1 ELSE First(notEarlier)]
        replaces == notEarlier # {} /\ ValidTime(buf, pos) = g.validTime
        oldLen == At(buf, pos)
        grown == IncrShort(BufferInsert(buf, pos, new), PDSCount(buf, sup))
        swapped == BufferInsert(BufferRemove(buf, pos, oldLen), pos, new)
    IN  IF replaces THEN IncrCell(swapped, sup, Len(new))
                    ELSE IncrCell(grown, sup, Len(new))

(* The PDS is inserted into the array of the super header at sup, before   *)
(* the first one that is not earlier, which it replaces if the times are   *)
(* equal; the size and the number are updated.                             *)
InsertInto(buf, sup, g) ==
    LET at == PDSAt(buf, sup)
        new == WritePDS(g)
        num == NumPDS(buf, sup)
        notEarlier == {j \in 1..num : ValidTime(buf, at[j]) >= g.validTime}
        pos == at[IF notEarlier = {} THEN num + 1 ELSE First(notEarlier)]
        replaces == notEarlier # {} /\ ValidTime(buf, pos) = g.validTime
        oldLen == At(buf, pos)
        grown == IncrShort(BufferInsert(buf, pos, new), PDSCount(buf, sup))
        swapped == BufferInsert(BufferRemove(buf, pos, oldLen), pos, new)
    IN  IF replaces THEN IncrCell(swapped, sup, Len(new) - oldLen)
                    ELSE IncrCell(grown, sup, Len(new))

InsertPDS(buf, g, gdsNum) ==
    LET head == WriteSupPDS(g, gdsNum)
        at == SuperAt(buf)
        num == NumSuper(buf)
        stops == {i \in 1..num : \/ SortsAfter(buf, at[i], g)
                                 \/ IsSameSuper(buf, at[i], head)}
        pos == at[IF stops = {} THEN num + 1 ELSE First(stops)]
    IN  IF stops # {} /\ ~SortsAfter(buf, pos, g)
        THEN InsertInto(buf, pos, g)
        ELSE InsertSuper(buf, pos, head, WritePDS(g))

(* What WriteFLX puts on disk, and ReadFLX reads back: Grib2Database sets  *)
(* the file length just before the write, and the read believes it.        *)
WriteFLX(buf) == PutCell(buf, 1, Len(buf))
ReadFLX(file) == SubSeq(file, 1, At(file, 1))

Init == /\ flxArray = CreateFLX
        /\ request \in Grids

(* Grib2Database adds a grid.                                              *)
Insert == /\ request' \in Grids
          /\ LET r == InsertGDS(flxArray, request'.gds)
             IN  flxArray' = InsertPDS(r.buf, request', r.gdsNum)

(* The index is written, and read back by the next -Append run.            *)
Reopen == /\ flxArray' = ReadFLX(WriteFLX(flxArray))
          /\ UNCHANGED request

Next == Insert \/ Reopen

Spec == Init /\ [][Next]_vars
-------------------------------------------------------------------------------
(* A count cannot wrap round: each thing counted is of a grid of its own.  *)
CountsFit == IsFiniteSet(Grids) /\ Cardinality(Grids) < UShort2

(* A cell holds a natural number, and the request is one of the grids.     *)
TypeOK == flxArray \in Seq(Nat) /\ request \in Grids

(* How the probes read the index (genProbeCube, Grib2DataConvert): from a  *)
(* super header to the next by its size, but within one field by field.    *)
ReadSupPDSBuff(buf, sup) ==
    LET tagLen == At(buf, sup + 4)
    IN  [element |-> At(buf, sup + 2), refTime |-> At(buf, sup + 3),
         tag |-> Slice(buf, sup + 5, tagLen), gdsNum |-> At(buf, sup + 5 + tagLen),
         numPDS |-> At(buf, sup + 6 + tagLen), pdsPtr |-> sup + 7 + tagLen]

ReadPDSBuff(buf, pds) ==
    LET placeLen == At(buf, pds + 2)
    IN  [validTime |-> At(buf, pds + 1), place |-> Slice(buf, pds + 3, placeLen),
         nextPds |-> pds + 3 + placeLen]

PDSRead(buf, sup) ==
    LET at[j \in 1..ReadSupPDSBuff(buf, sup).numPDS + 1] ==
            IF j = 1 THEN ReadSupPDSBuff(buf, sup).pdsPtr ELSE ReadPDSBuff(buf, at[j - 1]).nextPds
    IN  at

Supers(buf) == {SuperAt(buf)[i] : i \in 1..NumSuper(buf)}
Headers(buf) == [i \in 1..NumSuper(buf) |-> ReadSupPDSBuff(buf, SuperAt(buf)[i])]
ValidTimes(buf, sup) == [j \in 1..ReadSupPDSBuff(buf, sup).numPDS |->
                            ReadPDSBuff(buf, PDSRead(buf, sup)[j]).validTime]

(* All that a probe finds in the index.                                    *)
EntriesOf(buf, sup) ==
    LET h == ReadSupPDSBuff(buf, sup)
    IN  {LET p == ReadPDSBuff(buf, PDSRead(buf, sup)[j])
         IN  [key |-> [gds |-> GDSAt(buf, h.gdsNum)[2], element |-> h.element,
                       refTime |-> h.refTime, tag |-> h.tag, validTime |-> p.validTime],
              place |-> p.place] : j \in 1..h.numPDS}
Contents == UNION {EntriesOf(flxArray, sup) : sup \in Supers(flxArray)}

KeyOf(g) == [gds |-> g.gds, element |-> g.element, refTime |-> g.refTime,
             tag |-> g.tag, validTime |-> g.validTime]

Store == INSTANCE FlxStore WITH Key <- {KeyOf(g) : g \in Grids},
                                Place <- {g.place : g \in Grids},
                                key <- KeyOf(request), place <- request.place,
                                store <- Contents

(* However the records shift in the buffer, what a probe reads from it is  *)
(* a map in which each grid inserted has replaced the one of its key and   *)
(* disturbed no other; writing the index and reading it back changes       *)
(* nothing.                                                                *)
ImplementsStore == Store!Spec

(* The sizes, lengths and counts InsertPDS keeps up to date agree with the *)
(* fields the probes walk through, down to the last cell of the buffer,    *)
(* and every super header has a GDS; no GDS is there twice.                *)
SizesAgree ==
    /\ SuperAt(flxArray)[NumSuper(flxArray) + 1] = Len(flxArray)
    /\ \A i \in 1..NumSuper(flxArray) :
          LET sup == SuperAt(flxArray)[i]
              h == Headers(flxArray)[i]
          IN  /\ h.numPDS > 0
              /\ h.gdsNum \in 1..NumGDS(flxArray)
              /\ h.pdsPtr = PDSCount(flxArray, sup) + 1
              /\ PDSRead(flxArray, sup)[h.numPDS + 1] = SuperAt(flxArray)[i + 1]
              /\ \A j \in 1..h.numPDS : PDSAt(flxArray, sup)[j] = PDSRead(flxArray, sup)[j]
    /\ \A m, n \in 1..NumGDS(flxArray) :
          m # n => GDSAt(flxArray, m) # GDSAt(flxArray, n)

(* The index is in the order database.c documents (lines 60 to 78): by     *)
(* element, then the latest reference time first, and within one super     *)
(* header by strictly increasing valid time; no super header occurs twice. *)
InOrder ==
    LET hs == Headers(flxArray)
    IN  /\ \A i, j \in DOMAIN hs : i < j =>
              /\ \/ hs[i].element < hs[j].element
                 \/ hs[i].element = hs[j].element /\ hs[i].refTime >= hs[j].refTime
              /\ \/ hs[i].element # hs[j].element \/ hs[i].refTime # hs[j].refTime
                 \/ hs[i].tag # hs[j].tag \/ hs[i].gdsNum # hs[j].gdsNum
        /\ \A sup \in Supers(flxArray) :
              LET t == ValidTimes(flxArray, sup)
              IN  \A i, j \in DOMAIN t : i < j => t[i] < t[j]
===============================================================================
