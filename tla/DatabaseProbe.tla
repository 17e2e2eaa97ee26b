---------------------------- MODULE DatabaseProbe ----------------------------
(***************************************************************************)
(* A probe of flat file databases (genProbe and genProbeCube, genprobe.c)  *)
(* while degrib -Data is at work on one of them: nothing locks the files.  *)
(* A probe walks through a list of index files.  Each is read into memory  *)
(* as a whole; the wanted entries for which there is no match yet are then *)
(* looked up one by one in the grid files, which are opened when the name  *)
(* changes and may have grown, or been overwritten, since.  What goes      *)
(* wrong with one index file does not keep the probe from the next one.    *)
(*                                                                         *)
(* The entries are taken in any order: the index is sorted by element      *)
(* name, but which of two names with the same NDFD element comes first     *)
(* does not matter to the properties.                                      *)
(***************************************************************************)
EXTENDS Grib2Database

CONSTANTS
    Filter,      \* the keys that the element and time filters let pass
    Sight(_),    \* what f_interest compares of a kind: reference time,
                 \* sector and NDFD element
    Archive,     \* the index and grid files of a database nobody writes
    ProbeLists,  \* lists of index files, "live" or "archive"
    NoFile       \* no grid file is open

Sources == {"live", "archive"}

ASSUME ProbeAssumption ==
    /\ ProbeLists \subseteq Seq(Sources)
    /\ NoFile \notin Names
    /\ Archive.dat \in [Names -> Seq(Block)]
    /\ Archive.idx.store \subseteq Entries
    /\ \A e \in Archive.idx.store : HoldsGrid(Archive.dat, e)

VARIABLES
    outNames,    \* the index files to probe
    at,          \* which of them is probed
    ppc,         \* "index", "walk", "value" or "done"
    flxArray,    \* the index in memory
    left,        \* its entries that are still to be looked at
    curFile,     \* the grid file that is open
    chosen,      \* the entry whose value is about to be read
    match,       \* the matches found
    shown        \* history: the entries of the indexes walked to their ends

probeVars == <<outNames, at, ppc, flxArray, left, curFile, chosen, match, shown>>
allVars == <<vars, probeVars>>

IndexOf(s) == IF s = "live" THEN idx ELSE Archive.idx
DataOf(s) == IF s = "live" THEN dat ELSE Archive.dat
Probed == outNames[at]

SameSight(k, l) == Sight(k.kind) = Sight(l.kind) /\ k.time = l.time

(* Mutant: whatever its time, an element is found only once.               *)
IsOfInterestOnce(e) == /\ e.key \in Filter
                       /\ \A m \in match : Sight(m.key.kind) # Sight(e.key.kind)

IsOfInterest(e) == /\ e.key \in Filter
                   /\ \A m \in match : ~SameSight(m.key, e.key)

(* Mutant: the entries not yet looked at are kept for the next index.      *)
NextIndexKeepsLeft == at' = at + 1 /\ ppc' = "index" /\ flxArray' = {} /\ UNCHANGED left

NextIndex == at' = at + 1 /\ ppc' = "index" /\ flxArray' = {} /\ left' = {}

ProbeInit == /\ outNames \in ProbeLists
             /\ at = 1
             /\ ppc = "index"
             /\ flxArray = {}
             /\ left = {}
             /\ curFile = NoFile
             /\ chosen = {}
             /\ match = {}
             /\ shown = {}

ReadFLX == /\ ppc = "index"
           /\ at <= Len(outNames)
           /\ IndexOf(Probed).ok
           /\ flxArray' = IndexOf(Probed).store
           /\ left' = flxArray'
           /\ curFile' = NoFile
           /\ ppc' = "walk"
           /\ UNCHANGED <<outNames, at, chosen, match, shown>>

(* Mutant: an index that cannot be read is tried again.                    *)
ReadFLXFailsStays == /\ ppc = "index"
                     /\ at <= Len(outNames)
                     /\ UNCHANGED probeVars

ReadFLXFails == /\ ppc = "index"
                /\ at <= Len(outNames)
                /\ NextIndex
                /\ UNCHANGED <<outNames, curFile, chosen, match, shown>>

(* Another element or time, or one that has already been found.            *)
SkipPDS == /\ ppc = "walk"
           /\ \E e \in left : ~IsOfInterest(e) /\ left' = left \ {e}
           /\ UNCHANGED <<outNames, at, ppc, flxArray, curFile, chosen, match, shown>>

(* Mutant: once a grid file is open, it is kept.                           *)
ChoosePDSKeepsFile ==
    /\ ppc = "walk"
    /\ \E e \in left : /\ IsOfInterest(e)
                       /\ left' = left \ {e}
                       /\ chosen' = {e}
                       /\ curFile' = IF curFile = NoFile THEN e.place.name ELSE curFile
    /\ ppc' = "value"
    /\ UNCHANGED <<outNames, at, flxArray, match, shown>>

(* The grid file is opened if it is not the one that is open.              *)
ChoosePDS == /\ ppc = "walk"
             /\ \E e \in left : /\ IsOfInterest(e)
                                /\ left' = left \ {e}
                                /\ chosen' = {e}
                                /\ curFile' = e.place.name
             /\ ppc' = "value"
             /\ UNCHANGED <<outNames, at, flxArray, match, shown>>

(* The grid definition of an entry that passes the filters is invalid,     *)
(* which is seen before f_interest is, or its grid file cannot be opened.  *)
ChooseFails == /\ ppc = "walk"
               /\ \E e \in left : e.key \in Filter
               /\ NextIndex
               /\ UNCHANGED <<outNames, curFile, chosen, match, shown>>

(* The values are read where the index said; nothing checks that there is  *)
(* anything.                                                               *)
ValueAt(file, offset) == IF offset < Len(file) THEN file[offset + 1] ELSE Torn

FillValue ==
    /\ ppc = "value"
    /\ \E e \in chosen :
          match' = match \cup {[from |-> at, key |-> e.key,
                                value |-> ValueAt(DataOf(Probed)[curFile], e.place.offset)]}
    /\ chosen' = {}
    /\ ppc' = "walk"
    /\ UNCHANGED <<outNames, at, flxArray, left, curFile, shown>>

EndOfIndex == /\ ppc = "walk"
              /\ left = {}
              /\ shown' = shown \cup {[from |-> at, key |-> e.key] : e \in flxArray}
              /\ NextIndex
              /\ UNCHANGED <<outNames, curFile, chosen, match>>

ProbeDone == /\ ppc = "index"
             /\ at > Len(outNames)
             /\ ppc' = "done"
             /\ UNCHANGED <<outNames, at, flxArray, left, curFile, chosen, match, shown>>
-------------------------------------------------------------------------------
(* A step of degrib -Data, and one of the probe.                           *)
DegribStep == Next /\ UNCHANGED probeVars

ProbeStep == /\ \/ ReadFLX \/ ReadFLXFails \/ SkipPDS \/ ChoosePDS \/ ChooseFails
                \/ FillValue \/ EndOfIndex \/ ProbeDone
             /\ UNCHANGED vars

ProbedInit == Init /\ ProbeInit
ProbedNext == DegribStep \/ ProbeStep

(* Two processes: the scheduler starves neither.                           *)
ProbedSpec == /\ ProbedInit /\ [][ProbedNext]_allVars
              /\ WF_allVars(DegribStep) /\ WF_allVars(ProbeStep)
-------------------------------------------------------------------------------
(* The types of the probe's variables.                                     *)
ProbeTypeOK ==
    /\ outNames \in ProbeLists
    /\ at \in 1..(Len(outNames) + 1)
    /\ ppc \in {"index", "walk", "value", "done"}
    /\ ppc \in {"walk", "value"} => at <= Len(outNames)
    /\ flxArray \in SUBSET Entries
    /\ left \in SUBSET flxArray
    /\ curFile \in Names \cup {NoFile}
    /\ chosen \in SUBSET flxArray
    /\ match \in SUBSET [from : 1..Len(outNames), key : Filter, value : Block \cup {Torn}]
    /\ shown \in SUBSET [from : 1..Len(outNames), key : {KeyOf(b) : b \in Block}]

(* What a probe returns as the grid of an element and time is that grid,   *)
(* entirely written, although the index that led to it may since have been *)
(* replaced and the cube gone on growing (the index is a copy in memory,   *)
(* genprobe.c:2207; the values are read at line 2412).  It holds when      *)
(* every run has -Append and -Cube, fail or be killed as they may, unless  *)
(* one is killed when it has truncated the index and not yet written it:   *)
(* the next run then overwrites the cube.                                  *)
ProbedIsStored ==
    ~cutOff => \A m \in match : m.value # Torn /\ KeyOf(m.value) = m.key

(* Every wanted grid of an index that was walked to its end has been found *)
(* there or in an earlier one, and no reference time, sector, element and  *)
(* valid time is found twice, whatever failed in between.                  *)
FindsEachOnce ==
    /\ \A s \in shown : s.key \in Filter =>
          \E m \in match : SameSight(m.key, s.key) /\ m.from <= s.from
    /\ \A m, n \in match : SameSight(m.key, n.key) => m = n

(* A probe ends, however the database grows while it is at it.             *)
ProbeEnds == <>(ppc = "done")
===============================================================================
