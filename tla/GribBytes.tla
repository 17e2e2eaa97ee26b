------------------------------ MODULE GribBytes ------------------------------
(***************************************************************************)
(* The files of GribFiles one level down, where the messages have to be    *)
(* found among bytes.  A file is a sequence of messages followed by trail  *)
(* bytes that belong to none, with the last missing bytes cut off.  A      *)
(* message is preceded by gap bytes (a WMO header, or the 12 bytes of a    *)
(* FORTRAN record head), says that it is len bytes long, has its reference *)
(* time within its first head bytes, holds grids grids, and at the offsets *)
(* decoys its data look like the start of a message.  The code sees of     *)
(* this only where something looks like the start of a message (Tags), and *)
(* where the file ends (Size).                                             *)
(***************************************************************************)
EXTENDS Integers, Sequences

CONSTANTS ByteLists    \* the lists of input files considered

GRIB_LIMIT == 300

(* A TDLPack message is padded to a multiple of 8 bytes and followed by    *)
(* the 4 bytes of its record's end; len counts neither.                    *)
Padded(len) == ((len + 7) \div 8) * 8 + 4
LenOnFile(ver, len) == IF ver = -1 THEN Padded(len) ELSE len

BytesMessage == [ver : {-1, 1, 2}, gap : Nat, len : Nat, head : Nat, refTime : Int,
                 grids : Nat, decoys : SUBSET Nat]
BytesFile == [msgs : Seq(BytesMessage), trail : Nat, missing : Nat]

(* The least length that ReadSECT0 lets a message say (degrib2.c:223, 233; *)
(* of a GRIB2 message nothing is required, but it has its Section 0).      *)
LeastLen(ver) == CASE ver = -1 -> 59 [] ver = 1 -> 52 [] ver = 2 -> 16

(* There is an input file, which is no .tar archive (in one, no more than  *)
(* 5000 bytes are searched).  Every header is one that ReadSECT0 accepts:  *)
(* of a known version, long enough, and not longer than 2^31 bytes.  What  *)
(* looks like a message in a message lies within its bytes.  Of a message  *)
(* that is cut off there is as much as ReadSECT0 looks at; if not, its     *)
(* bytes are trailing bytes.                                               *)
ASSUME ByteListsAssumption ==
    /\ ByteLists \subseteq Seq(BytesFile)
    /\ \A fl \in ByteLists : Len(fl) > 0
    /\ \A fl \in ByteLists : \A k \in 1..Len(fl) :
          LET msgs == fl[k].msgs
              n == Len(msgs)
          IN  /\ \A i \in 1..n : /\ msgs[i].len >= LeastLen(msgs[i].ver)
                                 /\ \A d \in msgs[i].decoys : 0 < d /\ d < msgs[i].len
              /\ n > 0 => fl[k].missing + (IF msgs[n].ver = 2 THEN 16 ELSE 8)
                             <= LenOnFile(msgs[n].ver, msgs[n].len)

(* What the numbers of a sequence before the i-th add up to.               *)
SumBefore(s) == LET sum[i \in 1..(Len(s) + 1)] == IF i = 1 THEN 0 ELSE sum[i - 1] + s[i - 1]
                IN  sum

(* Where the i-th message of a file begins, its gap included.              *)
Start(f) == SumBefore([i \in 1..Len(f.msgs) |->
                          f.msgs[i].gap + LenOnFile(f.msgs[i].ver, f.msgs[i].len)])

Size(f) == Start(f)[Len(f.msgs) + 1] + f.trail - f.missing
TagOf(f, i) == Start(f)[i] + f.msgs[i].gap

Tags(f) == UNION {{[at |-> TagOf(f, i) + d, ver |-> f.msgs[i].ver, len |-> f.msgs[i].len,
                    head |-> f.msgs[i].head, refTime |-> f.msgs[i].refTime,
                    grids |-> f.msgs[i].grids] : d \in {0} \cup f.msgs[i].decoys} :
                  i \in 1..Len(f.msgs)}

(* ReadSECT0 looks for the first tag from pos on, of which all 8 bytes lie *)
(* within limit bytes (any number if limit is negative).                   *)
ReadSECT0(f, pos, limit) ==
    LET near == {t \in Tags(f) : /\ pos <= t.at /\ t.at + 8 <= Size(f)
                                 /\ limit >= 0 => t.at + 8 - pos <= limit}
        tag == CHOOSE t \in near : \A u \in near : t.at <= u.at
    IN  IF near = {} \/ (tag.ver = 2 /\ tag.at + 16 > Size(f))
        THEN [ret |-> -1]
        ELSE [ret |-> 0, tag |-> tag, buffLen |-> tag.at - pos]

(* The bytes a walker must be able to read of a message: all of a GRIB2    *)
(* message, the product definition of another, for the inventory.          *)
CanInventory(f, tag) == tag.at + (IF tag.ver = 2 THEN tag.len ELSE tag.head) <= Size(f)
CanRefTime(f, tag) == tag.at + tag.head <= Size(f)
===============================================================================
