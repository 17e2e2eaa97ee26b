----------------------------- MODULE GribFiles -----------------------------
(***************************************************************************)
(* The input files of degrib, as its message reader sees them.  The packed *)
(* data are abstracted to what the reader's callers can tell apart: a      *)
(* message is a record                                                     *)
(*   ver     the edition: 1, 2, or -1 for TDLPack;                         *)
(*   grids   the sequence of its grids, one unless ver = 2;                *)
(*   sect0   whether ReadSECT0 finds and accepts its Section 0 (bytes      *)
(*           after the last message of a file are a message for which it   *)
(*           does not);                                                    *)
(*   intact  how many of the grids can be unpacked and parsed before one   *)
(*           fails.                                                        *)
(***************************************************************************)
EXTENDS Integers, Sequences

CONSTANTS
    Field,       \* what a grid holds; a caller's module says what it is
    FileLists    \* the lists of input files (usr->inNames) considered

Message == [ver : {-1, 1, 2}, grids : Seq(Field), sect0 : BOOLEAN, intact : Nat]

ASSUME FileListsAssumption ==
    /\ FileLists \subseteq Seq(Seq(Message))
    /\ \A fl \in FileLists : \A f \in 1..Len(fl) : \A m \in 1..Len(fl[f]) :
          /\ Len(fl[f][m].grids) > 0
          /\ fl[f][m].ver # 2 => Len(fl[f][m].grids) = 1

(* A grid is named by its file, its message in the file and its place in   *)
(* the message (from 0, as subgNum counts).                                *)
Grid == Nat \X Nat \X Nat

NumGrids(fl, f, m) == Len(fl[f][m].grids)

GridsOf(fl) ==
    UNION {UNION {{<<f, m, s>> : s \in 0..(NumGrids(fl, f, m) - 1)} :
                     m \in 1..Len(fl[f])} : f \in 1..Len(fl)}

(* The order in which the grids lie in the files.                          *)
Before(g, h) == \/ g[1] < h[1]
                \/ g[1] = h[1] /\ g[2] < h[2]
                \/ g[1] = h[1] /\ g[2] = h[2] /\ g[3] < h[3]

FieldOf(fl, g) == fl[g[1]][g[2]].grids[g[3] + 1]
===============================================================================
