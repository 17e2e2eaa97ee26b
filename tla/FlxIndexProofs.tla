--------------------------- MODULE FlxIndexProofs ---------------------------
(***************************************************************************)
(* For any grids: however the records shift in the buffer of the index,    *)
(* its sizes agree, its records are in order, and what is read from it is  *)
(* a map that each insertion changes at one key.                           *)
(***************************************************************************)
EXTENDS FlxIndex, TLAPS, FiniteSetTheorems, SequenceTheorems

(***************************************************************************)
(* Induction and minima.                                                   *)
(***************************************************************************)

Less == {p \in Nat \X Nat : p[1] < p[2]}

(* A set of natural numbers has a least member, which First chooses.       *)
LEMMA FirstIs ==
    ASSUME NEW S, S \subseteq Nat, S # {}
    PROVE  First(S) \in S /\ \A j \in S : First(S) <= j
<1>1. OpToRel(<, Nat) = Less
  BY Zenon DEF OpToRel, Less
<1>2. IsWellFoundedOn(Less, Nat)
  BY <1>1, NatLessThanWellFounded, Zenon
<1>3. PICK x \in S : \A y \in S : ~ (<<y, x>> \in Less)
  BY <1>2, WFMin, Zenon
<1>4. \A y \in S : x <= y
  <2>1. TAKE y \in S
  <2>2. x \in Nat /\ y \in Nat /\ ~ (<<y, x>> \in Less)
    BY <1>3
  <2>3. ~(y < x)
    BY <2>2 DEF Less
  <2>4. QED
    BY <2>2, <2>3
<1>5. QED
  BY <1>4, Zenon DEF First

(* Induction, for a set instead of a predicate.                            *)
LEMMA NatInSet ==
    ASSUME NEW S, 0 \in S, \A n \in Nat : n \in S => n + 1 \in S
    PROVE  \A n \in Nat : n \in S
<1> DEFINE T == {n \in Nat : n \notin S}
<1>1. SUFFICES ASSUME T # {} PROVE FALSE
  OBVIOUS
<1>2. PICK x \in T : \A y \in T : x <= y
  <2>1. T \subseteq Nat
    OBVIOUS
  <2> HIDE DEF T
  <2>2. QED
    BY <1>1, <2>1, FirstIs
<1>3. x # 0
  OBVIOUS
<1>4. x - 1 \in Nat /\ ~(x <= x - 1) /\ x = (x - 1) + 1
  BY <1>3
<1>5. x - 1 \in S
  BY <1>2, <1>4
<1>6. QED
  BY <1>4, <1>5

(***************************************************************************)
(* The cells of a buffer that was changed.                                 *)
(***************************************************************************)

Cells == Seq(Nat)

(* A part of a buffer.                                                     *)
LEMMA PartCells ==
    ASSUME NEW b \in Cells, NEW m \in 1 .. Len(b) + 1, NEW n \in m - 1 .. Len(b)
    PROVE  /\ SubSeq(b, m, n) \in Cells
           /\ Len(SubSeq(b, m, n)) = n - m + 1
           /\ \A k \in 1 .. n - m + 1 : SubSeq(b, m, n)[k] = b[m + k - 1]
<1>1. Len(b) \in Nat /\ \A i \in 1 .. Len(b) : b[i] \in Nat
  BY DEF Cells
<1>2. \A i \in m .. n : b[i] \in Nat
  BY <1>1
<1>3. QED
  BY <1>1, <1>2, SubSeqProperties DEF Cells

LEMMA InsertCells ==
    ASSUME NEW b \in Cells, NEW off \in 0 .. Len(b), NEW new \in Cells
    PROVE  /\ BufferInsert(b, off, new) \in Cells
           /\ Len(BufferInsert(b, off, new)) = Len(b) + Len(new)
           /\ \A k \in 1 .. off : BufferInsert(b, off, new)[k] = b[k]
           /\ \A k \in 1 .. Len(new) : BufferInsert(b, off, new)[off + k] = new[k]
           /\ \A k \in off + 1 .. Len(b) : BufferInsert(b, off, new)[k + Len(new)] = b[k]
<1>1. PICK L \in Nat : L = Len(b)
  BY DEF Cells
<1>2. PICK n \in Nat : n = Len(new)
  BY DEF Cells
<1>3. PICK x : x = SubSeq(b, 1, off)
  OBVIOUS
<1>4. x \in Cells /\ Len(x) = off /\ \A k \in 1 .. off : x[k] = b[k]
  BY <1>1, <1>3, PartCells
<1>5. PICK y : y = SubSeq(b, off + 1, Len(b))
  OBVIOUS
<1>6. y \in Cells /\ Len(y) = L - off /\ \A k \in 1 .. L - off : y[k] = b[off + k]
  <2>1. off + 1 \in 1 .. Len(b) + 1 /\ Len(b) \in (off + 1) - 1 .. Len(b)
    BY <1>1
  <2>2. \A k \in 1 .. L - off : (off + 1) + k - 1 = off + k
    BY <1>1
  <2>3. L - (off + 1) + 1 = L - off
    BY <1>1
  <2>4. QED
    BY <1>1, <1>5, <2>1, <2>2, <2>3, PartCells
<1>7. PICK z : z = x \o new
  OBVIOUS
<1>8. /\ z \in Cells /\ Len(z) = off + n
      /\ \A i \in 1 .. off + n : z[i] = IF i <= off THEN x[i] ELSE new[i - off]
  BY <1>2, <1>4, <1>7, ConcatProperties, ZenonT(40) DEF Cells
<1>9. PICK w : w = z \o y
  OBVIOUS
<1>10. /\ w \in Cells /\ Len(w) = L + n
       /\ \A i \in 1 .. L + n : w[i] = IF i <= off + n THEN z[i] ELSE y[i - (off + n)]
  <2>1. /\ w \in Cells /\ Len(w) = (off + n) + (L - off)
        /\ \A i \in 1 .. (off + n) + (L - off) :
              w[i] = IF i <= off + n THEN z[i] ELSE y[i - (off + n)]
    <3>1. /\ w \in Cells /\ Len(w) = Len(z) + Len(y)
          /\ \A i \in 1 .. Len(z) + Len(y) : w[i] = IF i <= Len(z) THEN z[i] ELSE y[i - Len(z)]
      BY <1>6, <1>8, <1>9, ConcatProperties DEF Cells
    <3>2. QED
      BY <1>6, <1>8, <3>1, Zenon
  <2>2. (off + n) + (L - off) = L + n
    BY <1>1, <1>2
  <2>3. QED
    BY <2>1, <2>2
<1>11. w = BufferInsert(b, off, new)
  BY <1>3, <1>5, <1>7, <1>9 DEF BufferInsert
<1>12. \A k \in 1 .. off : w[k] = b[k]
  BY <1>1, <1>2, <1>4, <1>8, <1>10
<1>13. \A k \in 1 .. n : w[off + k] = new[k]
  <2>1. TAKE k \in 1 .. n
  <2>2. off + k \in 1 .. off + n /\ off + k \in 1 .. L + n /\ ~(off + k <= off) /\ (off + k) - off = k
    BY <1>1
  <2>3. QED
    BY <1>8, <1>10, <2>2
<1>14. \A k \in off + 1 .. L : w[k + n] = b[k]
  <2>1. TAKE k \in off + 1 .. L
  <2>2. /\ k + n \in 1 .. L + n /\ ~(k + n <= off + n) /\ (k + n) - (off + n) = k - off
        /\ k - off \in 1 .. L - off /\ off + (k - off) = k
    BY <1>1, <1>2
  <2>3. QED
    BY <1>6, <1>10, <2>2
<1>15. QED
  BY <1>1, <1>2, <1>10, <1>11, <1>12, <1>13, <1>14

LEMMA RemoveCells ==
    ASSUME NEW b \in Cells, NEW off \in Nat, NEW n \in Nat, off + n <= Len(b)
    PROVE  /\ BufferRemove(b, off, n) \in Cells
           /\ Len(BufferRemove(b, off, n)) = Len(b) - n
           /\ \A k \in 1 .. off : BufferRemove(b, off, n)[k] = b[k]
           /\ \A k \in off + n + 1 .. Len(b) : BufferRemove(b, off, n)[k - n] = b[k]
<1>1. PICK L \in Nat : L = Len(b)
  BY DEF Cells
<1>2. PICK x : x = SubSeq(b, 1, off)
  OBVIOUS
<1>3. x \in Cells /\ Len(x) = off /\ \A k \in 1 .. off : x[k] = b[k]
  BY <1>1, <1>2, PartCells
<1>4. PICK y : y = SubSeq(b, off + n + 1, Len(b))
  OBVIOUS
<1>5. y \in Cells /\ Len(y) = L - (off + n) /\ \A k \in 1 .. L - (off + n) : y[k] = b[off + n + k]
  <2>1. off + n + 1 \in 1 .. Len(b) + 1 /\ Len(b) \in (off + n + 1) - 1 .. Len(b)
    BY <1>1
  <2>2. \A k \in 1 .. L - (off + n) : (off + n + 1) + k - 1 = off + n + k
    BY <1>1
  <2>3. L - (off + n + 1) + 1 = L - (off + n)
    BY <1>1
  <2>4. QED
    BY <1>1, <1>4, <2>1, <2>2, <2>3, PartCells
<1>6. PICK w : w = x \o y
  OBVIOUS
<1>7. /\ w \in Cells /\ Len(w) = L - n
      /\ \A i \in 1 .. L - n : w[i] = IF i <= off THEN x[i] ELSE y[i - off]
  <2>1. /\ w \in Cells /\ Len(w) = off + (L - (off + n))
        /\ \A i \in 1 .. off + (L - (off + n)) : w[i] = IF i <= off THEN x[i] ELSE y[i - off]
    <3>1. /\ w \in Cells /\ Len(w) = Len(x) + Len(y)
          /\ \A i \in 1 .. Len(x) + Len(y) : w[i] = IF i <= Len(x) THEN x[i] ELSE y[i - Len(x)]
      BY <1>3, <1>5, <1>6, ConcatProperties, ZenonT(40) DEF Cells
    <3>2. QED
      BY <1>3, <1>5, <3>1, Zenon
  <2>2. off + (L - (off + n)) = L - n
    BY <1>1
  <2>3. QED
    BY <2>1, <2>2
<1>8. w = BufferRemove(b, off, n)
  BY <1>2, <1>4, <1>6 DEF BufferRemove
<1>9. \A k \in 1 .. off : w[k] = b[k]
  BY <1>1, <1>3, <1>7
<1>10. \A k \in off + n + 1 .. L : w[k - n] = b[k]
  <2>1. TAKE k \in off + n + 1 .. L
  <2>2. /\ k - n \in 1 .. L - n /\ ~(k - n <= off) /\ (k - n) - off = k - (off + n)
        /\ k - (off + n) \in 1 .. L - (off + n) /\ off + n + (k - (off + n)) = k
    BY <1>1
  <2>3. QED
    BY <1>5, <1>7, <2>2
<1>11. QED
  BY <1>1, <1>7, <1>8, <1>9, <1>10

Changed(b, c, v) == [b EXCEPT ![c] = v]

LEMMA PutCells ==
    ASSUME NEW b \in Cells, NEW c \in 1 .. Len(b), NEW v \in Nat
    PROVE  /\ Changed(b, c, v) \in Cells /\ Len(Changed(b, c, v)) = Len(b)
           /\ Changed(b, c, v)[c] = v
           /\ \A k \in 1 .. Len(b) : k # c => Changed(b, c, v)[k] = b[k]
<1> DEFINE x == Changed(b, c, v)
<1>1. Len(b) \in Nat /\ b \in [1 .. Len(b) -> Nat] /\ DOMAIN b = 1 .. Len(b)
  BY DEF Cells
<1>2. x \in [1 .. Len(b) -> Nat] /\ x[c] = v /\ \A k \in 1 .. Len(b) : k # c => x[k] = b[k]
  BY <1>1 DEF Changed
<1> HIDE DEF x
<1>3. x \in Cells
  BY <1>1, <1>2 DEF Cells
<1>4. Len(x) = Len(b)
  BY <1>1, <1>2, <1>3 DEF Cells
<1>5. QED
  BY <1>2, <1>3, <1>4 DEF x

(***************************************************************************)
(* What the buffer holds.  A record of the index lies between two offsets, *)
(* o and e, and the records of an array at those of Q.                     *)
(***************************************************************************)

PdsRec == [validTime : Nat, place : Seq(Nat)]
SuperRec == [element : Nat, refTime : Nat, tag : Seq(Nat), gdsNum : Nat, pdss : Seq(PdsRec)]

HoldsPDS(b, o, e, p) ==
    /\ o \in Nat /\ e = o + 3 + Len(p.place) /\ e <= Len(b)
    /\ b[o + 1] = 3 + Len(p.place) /\ b[o + 2] = p.validTime /\ b[o + 3] = Len(p.place)
    /\ \A k \in 1 .. Len(p.place) : b[o + 3 + k] = p.place[k]

Offsets(o, e, n, Q) ==
    /\ Q \in [1 .. n + 1 -> Nat]
    /\ Q[1] = o /\ Q[n + 1] = e
    /\ \A i, j \in 1 .. n + 1 : i <= j => Q[i] <= Q[j]

HoldsArray(b, ps, Q) == \A j \in 1 .. Len(ps) : HoldsPDS(b, Q[j], Q[j + 1], ps[j])

HoldsHead(b, o, s) ==
    /\ b[o + 2] = 5 + Len(s.tag) /\ b[o + 3] = s.element /\ b[o + 4] = s.refTime
    /\ b[o + 5] = Len(s.tag) /\ b[o + 6 + Len(s.tag)] = s.gdsNum
    /\ \A k \in 1 .. Len(s.tag) : b[o + 5 + k] = s.tag[k]

ArrayFrom(o, s) == o + 7 + Len(s.tag)

HoldsSuper(b, o, e, s) ==
    /\ o \in Nat /\ e \in Nat /\ ArrayFrom(o, s) <= e /\ e <= Len(b)
    /\ b[o + 1] = e - o /\ HoldsHead(b, o, s) /\ b[o + 7 + Len(s.tag)] = Len(s.pdss)
    /\ \E Q : Offsets(ArrayFrom(o, s), e, Len(s.pdss), Q) /\ HoldsArray(b, s.pdss, Q)

HoldsSupers(b, ss, P) == \A i \in 1 .. Len(ss) : HoldsSuper(b, P[i], P[i + 1], ss[i])

HoldsGDSs(b, gs) ==
    /\ 2 * Len(gs) + 4 <= Len(b)
    /\ b[3] = Len(gs)
    /\ \A n \in 1 .. Len(gs) : b[2 * n + 2] = 0 /\ b[2 * n + 3] = gs[n]

SupersFrom(gs) == 2 * Len(gs) + 4

Layout(b, gs, ss) ==
    /\ b \in Cells /\ gs \in Seq(Nat) /\ ss \in Seq(SuperRec)
    /\ HoldsGDSs(b, gs) /\ b[2 * Len(gs) + 4] = Len(ss)
    /\ \E P : Offsets(SupersFrom(gs), Len(b), Len(ss), P) /\ HoldsSupers(b, ss, P)

(* The types of the parts of the records.                                  *)
LEMMA RecordTypes ==
    ASSUME NEW s \in SuperRec
    PROVE  /\ s.tag \in Seq(Nat) /\ s.pdss \in Seq(PdsRec)
           /\ Len(s.tag) \in Nat /\ Len(s.pdss) \in Nat
           /\ s.element \in Nat /\ s.refTime \in Nat /\ s.gdsNum \in Nat
           /\ \A k \in 1 .. Len(s.tag) : s.tag[k] \in Nat
           /\ \A j \in 1 .. Len(s.pdss) : s.pdss[j] \in PdsRec
  BY DEF SuperRec

LEMMA PdsTypes ==
    ASSUME NEW p \in PdsRec
    PROVE  /\ p.place \in Seq(Nat) /\ p.validTime \in Nat /\ Len(p.place) \in Nat
           /\ \A k \in 1 .. Len(p.place) : p.place[k] \in Nat
  BY DEF PdsRec

(* Records can be moved.                                                   *)
Moved(b, b2, o, e, d) == \A k \in o + 1 .. e : b2[k + d] = b[k]

LEMMA PDSMoves ==
    ASSUME NEW b, NEW b2, NEW o \in Nat, NEW e \in Nat, NEW p \in PdsRec, NEW d \in Int,
           o + d \in Nat, e + d <= Len(b2), HoldsPDS(b, o, e, p), Moved(b, b2, o, e, d)
    PROVE  HoldsPDS(b2, o + d, e + d, p)
<1>1. PICK n \in Nat : n = Len(p.place)
  BY PdsTypes
<1>2. /\ e = o + 3 + n /\ e <= Len(b)
      /\ b[o + 1] = 3 + n /\ b[o + 2] = p.validTime /\ b[o + 3] = n
      /\ \A k \in 1 .. n : b[o + 3 + k] = p.place[k]
  BY <1>1 DEF HoldsPDS
<1>3. /\ (o + 1) + d = (o + d) + 1 /\ (o + 2) + d = (o + d) + 2 /\ (o + 3) + d = (o + d) + 3
      /\ {o + 1, o + 2, o + 3} \subseteq o + 1 .. e /\ e + d = (o + d) + 3 + n
  BY <1>2
<1>4. b2[(o + d) + 1] = 3 + n /\ b2[(o + d) + 2] = p.validTime /\ b2[(o + d) + 3] = n
  BY <1>2, <1>3, SMTT(20) DEF Moved
<1>5. \A k \in 1 .. n : b2[(o + d) + 3 + k] = p.place[k]
  <2>1. TAKE k \in 1 .. n
  <2>2. o + 3 + k \in o + 1 .. e /\ (o + 3 + k) + d = (o + d) + 3 + k
    BY <1>2
  <2>3. QED
    BY <1>2, <2>2 DEF Moved
<1>6. QED
  BY <1>1, <1>3, <1>4, <1>5 DEF HoldsPDS

(* The offsets of an array are between its first and its last.             *)
LEMMA OffsetsWithin ==
    ASSUME NEW o, NEW e, NEW n \in Nat, NEW Q, Offsets(o, e, n, Q)
    PROVE  /\ o \in Nat /\ e \in Nat /\ o <= e
           /\ \A j \in 1 .. n + 1 : Q[j] \in Nat /\ o <= Q[j] /\ Q[j] <= e
           /\ \A j \in 1 .. n : j \in 1 .. n + 1 /\ j + 1 \in 1 .. n + 1 /\ Q[j] <= Q[j + 1]
<1>1. 1 \in 1 .. n + 1 /\ n + 1 \in 1 .. n + 1
  OBVIOUS
<1>2. \A j \in 1 .. n + 1 : 1 <= j /\ j <= n + 1
  OBVIOUS
<1>3. \A j \in 1 .. n : j \in 1 .. n + 1 /\ j + 1 \in 1 .. n + 1 /\ j <= j + 1
  OBVIOUS
<1>4. QED
  BY <1>1, <1>2, <1>3 DEF Offsets

LEMMA ArrayMoves ==
    ASSUME NEW b, NEW b2, NEW o \in Nat, NEW e \in Nat, NEW ps \in Seq(PdsRec), NEW d \in Int,
           NEW Q, Offsets(o, e, Len(ps), Q), HoldsArray(b, ps, Q),
           o + d \in Nat, e + d <= Len(b2), Moved(b, b2, o, e, d)
    PROVE  \E R : Offsets(o + d, e + d, Len(ps), R) /\ HoldsArray(b2, ps, R)
<1>1. PICK n \in Nat : n = Len(ps)
  OBVIOUS
<1>2. \A j \in 1 .. n : ps[j] \in PdsRec
  BY <1>1
<1>3. /\ \A j \in 1 .. n + 1 : Q[j] \in Nat /\ o <= Q[j] /\ Q[j] <= e
      /\ \A j \in 1 .. n : j \in 1 .. n + 1 /\ j + 1 \in 1 .. n + 1 /\ Q[j] <= Q[j + 1]
  BY <1>1, OffsetsWithin
<1>4. Q[1] = o /\ Q[n + 1] = e /\ \A i, j \in 1 .. n + 1 : i <= j => Q[i] <= Q[j]
  BY <1>1 DEF Offsets
<1> DEFINE R == [j \in 1 .. n + 1 |-> Q[j] + d]
<1>5. \A j \in 1 .. n + 1 : R[j] = Q[j] + d
  OBVIOUS
<1>6. R \in [1 .. n + 1 -> Nat]
  <2>1. \A j \in 1 .. n + 1 : Q[j] + d \in Nat
    BY <1>3
  <2>2. QED
    BY <2>1
<1> HIDE DEF R
<1>7. Offsets(o + d, e + d, n, R)
  <2>1. 1 \in 1 .. n + 1 /\ n + 1 \in 1 .. n + 1
    OBVIOUS
  <2>2. ASSUME NEW i \in 1 .. n + 1, NEW j \in 1 .. n + 1, i <= j
        PROVE  R[i] <= R[j]
    <3>1. PICK x \in Nat, y \in Nat : x = Q[i] /\ y = Q[j] /\ x <= y
      BY <1>3, <1>4, <2>2
    <3>2. QED
      BY <1>5, <3>1, SMTT(20)
  <2>3. QED
    BY <1>4, <1>5, <1>6, <2>1, <2>2 DEF Offsets
<1>8. ASSUME NEW j \in 1 .. n
      PROVE  HoldsPDS(b2, R[j], R[j + 1], ps[j])
  <2>1. PICK x \in Nat, y \in Nat : x = Q[j] /\ y = Q[j + 1] /\ o <= x /\ y <= e
    BY <1>3
  <2>2. HoldsPDS(b, x, y, ps[j])
    BY <1>1, <2>1 DEF HoldsArray
  <2>3. Moved(b, b2, x, y, d)
    BY <2>1, SMTT(20) DEF Moved
  <2>4. x + d \in Nat /\ y + d <= Len(b2)
    <3>1. Len(b2) \in Int \/ Len(b2) \notin Int
      OBVIOUS
    <3>2. QED
      BY <2>1, SMTT(20)
  <2>5. HoldsPDS(b2, x + d, y + d, ps[j])
    BY <1>2, <2>2, <2>3, <2>4, PDSMoves
  <2>6. QED
    BY <1>3, <1>5, <2>1, <2>5
<1>9. QED
  BY <1>1, <1>7, <1>8 DEF HoldsArray

LEMMA SuperMoves ==
    ASSUME NEW b, NEW b2, NEW o \in Nat, NEW e \in Nat, NEW s \in SuperRec, NEW d \in Int,
           o + d \in Nat, e + d <= Len(b2), HoldsSuper(b, o, e, s), Moved(b, b2, o, e, d)
    PROVE  HoldsSuper(b2, o + d, e + d, s)
<1>1. PICK n \in Nat : n = Len(s.tag)
  BY RecordTypes
<1>2. s.pdss \in Seq(PdsRec) /\ \A k \in 1 .. n : s.tag[k] \in Nat
  BY <1>1, RecordTypes
<1>3. /\ o + 7 + n <= e /\ e <= Len(b) /\ b[o + 1] = e - o
      /\ b[o + 2] = 5 + n /\ b[o + 3] = s.element /\ b[o + 4] = s.refTime
      /\ b[o + 5] = n /\ b[o + 6 + n] = s.gdsNum /\ b[o + 7 + n] = Len(s.pdss)
      /\ \A k \in 1 .. n : b[o + 5 + k] = s.tag[k]
  BY <1>1 DEF HoldsSuper, HoldsHead, ArrayFrom
<1>0. o + 7 + n <= e
  BY <1>3, Zenon
<1>4. /\ (e + d) - (o + d) = e - o /\ e + d \in Nat /\ (o + d) + 7 + n <= e + d
      /\ \A k \in 1 .. 7 + n : b2[(o + d) + k] = b[o + k]
  <2>1. (e + d) - (o + d) = e - o /\ e + d \in Nat /\ (o + d) + 7 + n <= e + d
    BY <1>0
  <2>2. ASSUME NEW k \in 1 .. 7 + n PROVE b2[(o + d) + k] = b[o + k]
    <3>1. o + k \in o + 1 .. e /\ (o + k) + d = (o + d) + k
      BY <1>0
    <3>2. QED
      BY <3>1 DEF Moved
  <2>3. QED
    BY <2>1, <2>2
<1>5. /\ b2[(o + d) + 1] = e - o /\ b2[(o + d) + 2] = 5 + n /\ b2[(o + d) + 3] = s.element
      /\ b2[(o + d) + 4] = s.refTime /\ b2[(o + d) + 5] = n
      /\ b2[(o + d) + 6 + n] = s.gdsNum /\ b2[(o + d) + 7 + n] = Len(s.pdss)
  <2>1. /\ 1 \in 1 .. 7 + n /\ 2 \in 1 .. 7 + n /\ 3 \in 1 .. 7 + n /\ 4 \in 1 .. 7 + n
        /\ 5 \in 1 .. 7 + n /\ 6 + n \in 1 .. 7 + n /\ 7 + n \in 1 .. 7 + n
    OBVIOUS
  <2>2. /\ (o + d) + (6 + n) = (o + d) + 6 + n /\ (o + d) + (7 + n) = (o + d) + 7 + n
        /\ o + (6 + n) = o + 6 + n /\ o + (7 + n) = o + 7 + n
    OBVIOUS
  <2>3. /\ b2[(o + d) + 1] = b[o + 1] /\ b2[(o + d) + 2] = b[o + 2] /\ b2[(o + d) + 3] = b[o + 3]
        /\ b2[(o + d) + 4] = b[o + 4] /\ b2[(o + d) + 5] = b[o + 5]
        /\ b2[(o + d) + (6 + n)] = b[o + (6 + n)] /\ b2[(o + d) + (7 + n)] = b[o + (7 + n)]
    BY <1>4, <2>1, Zenon
  <2>4. QED
    BY <1>3, <2>2, <2>3
<1>6. \A k \in 1 .. n : b2[(o + d) + 5 + k] = s.tag[k]
  <2>1. TAKE k \in 1 .. n
  <2>2. 5 + k \in 1 .. 7 + n /\ o + (5 + k) = o + 5 + k /\ (o + d) + (5 + k) = (o + d) + 5 + k
    OBVIOUS
  <2>3. QED
    BY <1>3, <1>4, <2>2
<1>7. \E R : Offsets((o + d) + 7 + n, e + d, Len(s.pdss), R) /\ HoldsArray(b2, s.pdss, R)
  <2>1. PICK Q : Offsets(o + 7 + n, e, Len(s.pdss), Q) /\ HoldsArray(b, s.pdss, Q)
    BY <1>1 DEF HoldsSuper, ArrayFrom
  <2>2. PICK a \in Nat : a = o + 7 + n
    OBVIOUS
  <2>3. Moved(b, b2, a, e, d)
    BY <2>2, SMTT(20) DEF Moved
  <2>4. a + d = (o + d) + 7 + n /\ a + d \in Nat
    BY <2>2
  <2>5. \E R : Offsets(a + d, e + d, Len(s.pdss), R) /\ HoldsArray(b2, s.pdss, R)
    BY <1>2, <2>1, <2>2, <2>3, <2>4, ArrayMoves
  <2>6. QED
    BY <2>4, <2>5, Zenon
<1>8. QED
  BY <1>1, <1>4, <1>5, <1>6, <1>7 DEF HoldsSuper, HoldsHead, ArrayFrom

(***************************************************************************)
(* What is read from it.                                                   *)
(***************************************************************************)

(* A walk that starts like Q and steps like Q is Q.                        *)
LEMMA SameWalk ==
    ASSUME NEW n \in Nat, NEW Q, NEW f, f[1] = Q[1],
           \A j \in 1 .. n : f[j] = Q[j] => f[j + 1] = Q[j + 1]
    PROVE  \A j \in 1 .. n + 1 : f[j] = Q[j]
<1> DEFINE S == {m \in Nat : m <= n => f[m + 1] = Q[m + 1]}
<1>1. 0 \in S
  OBVIOUS
<1>2. ASSUME NEW m \in Nat, m \in S PROVE m + 1 \in S
  <2>1. SUFFICES ASSUME m + 1 <= n PROVE f[(m + 1) + 1] = Q[(m + 1) + 1]
    OBVIOUS
  <2>2. m + 1 \in 1 .. n /\ m <= n
    BY <2>1
  <2>3. QED
    BY <1>2, <2>2
<1>3. \A m \in Nat : m \in S
  <2> HIDE DEF S
  <2>1. QED
    BY <1>1, <1>2, NatInSet
<1>4. TAKE j \in 1 .. n + 1
<1>5. j - 1 \in Nat /\ j - 1 <= n /\ (j - 1) + 1 = j
  OBVIOUS
<1>6. QED
  BY <1>3, <1>5

(* The GDS array and the number of super headers.                          *)
LEMMA ReadsGDSs ==
    ASSUME NEW b, NEW gs, NEW ss, Layout(b, gs, ss)
    PROVE  /\ NumGDS(b) = Len(gs) /\ Len(gs) \in Nat /\ Len(ss) \in Nat
           /\ \A n \in 1 .. Len(gs) : GDSAt(b, n) = <<0, gs[n]>> /\ GDSAt(b, n)[2] = gs[n]
           /\ SuperCount(b) = 2 * Len(gs) + 3
           /\ NumSuper(b) = Len(ss)
           /\ SupersFrom(gs) <= Len(b)
<1>1. b \in Cells /\ gs \in Seq(Nat) /\ ss \in Seq(SuperRec) /\ b[2 * Len(gs) + 4] = Len(ss)
  BY DEF Layout
<1>2. PICK N \in Nat : N = Len(gs)
  BY <1>1
<1>3. /\ 2 * N + 4 <= Len(b) /\ b[3] = N
      /\ \A n \in 1 .. N : b[2 * n + 2] = 0 /\ b[2 * n + 3] = gs[n]
  BY <1>2 DEF Layout, HoldsGDSs
<1>4. NumGDS(b) = N
  BY <1>3 DEF NumGDS, At, HEADLEN
<1>5. ASSUME NEW n \in 1 .. N PROVE GDSAt(b, n) = <<0, gs[n]>>
  <2>1. PICK m : /\ m = 2 * n + 1 /\ m + 1 \in 1 .. Len(b) + 1 /\ m + 2 \in (m + 1) - 1 .. Len(b)
                 /\ HEADLEN + 1 + (n - 1) * GDSLEN = m /\ m \in Nat
    <3>1. Len(b) \in Nat
      BY <1>1 DEF Cells
    <3>2. QED
      BY <1>3, <3>1, SMTT(20) DEF HEADLEN, GDSLEN
  <2>2. PICK x : x = SubSeq(b, m + 1, m + 2)
    OBVIOUS
  <2>3. /\ x \in Cells /\ Len(x) = (m + 2) - (m + 1) + 1
        /\ \A k \in 1 .. (m + 2) - (m + 1) + 1 : x[k] = b[(m + 1) + k - 1]
    BY <1>1, <2>1, <2>2, PartCells
  <2>4. /\ (m + 2) - (m + 1) + 1 = 2 /\ (m + 1) + 1 - 1 = 2 * n + 2 /\ (m + 1) + 2 - 1 = 2 * n + 3
        /\ 1 \in 1 .. 2 /\ 2 \in 1 .. 2
    BY <2>1
  <2>5. Len(x) = 2 /\ x[1] = 0 /\ x[2] = gs[n]
    BY <1>3, <2>3, <2>4, ZenonT(40)
  <2>6. x = <<0, gs[n]>>
    <3>1. <<0, gs[n]>> \in Seq(Nat) /\ Len(<<0, gs[n]>>) = 2
      BY <1>1, <1>2
    <3>2. \A i \in 1 .. 2 : i = 1 \/ i = 2
      OBVIOUS
    <3>3. \A i \in 1 .. 2 : x[i] = <<0, gs[n]>>[i]
      BY <2>5, <3>2
    <3>4. QED
      BY <2>3, <2>5, <3>1, <3>3, SeqEqual DEF Cells
  <2>7. QED
    BY <2>1, <2>2, <2>6 DEF GDSAt, Slice, GDSLEN
<1>6. SuperCount(b) = 2 * N + 3
  BY <1>4 DEF SuperCount, HEADLEN, GDSLEN
<1>7. NumSuper(b) = Len(ss)
  BY <1>1, <1>2, <1>6 DEF NumSuper, At
<1>8. QED
  BY <1>1, <1>2, <1>3, <1>4, <1>5, <1>6, <1>7 DEF SupersFrom

(* The offsets of the super headers.                                       *)
LEMMA ReadsOffsets ==
    ASSUME NEW b, NEW gs, NEW ss, Layout(b, gs, ss)
    PROVE  \E P : /\ Offsets(SupersFrom(gs), Len(b), Len(ss), P) /\ HoldsSupers(b, ss, P)
                  /\ \A i \in 1 .. Len(ss) + 1 : SuperAt(b)[i] = P[i]
<1>1. PICK P : Offsets(SupersFrom(gs), Len(b), Len(ss), P) /\ HoldsSupers(b, ss, P)
  BY DEF Layout
<1>2. PICK n \in Nat : n = Len(ss) /\ n = NumSuper(b) /\ SuperCount(b) + 1 = SupersFrom(gs)
  BY ReadsGDSs DEF SupersFrom
<1>3. /\ P \in [1 .. n + 1 -> Nat] /\ P[1] = SuperCount(b) + 1
      /\ \A i \in 1 .. n : i + 1 \in 1 .. n + 1 /\ i \in 1 .. n + 1
  BY <1>1, <1>2 DEF Offsets
<1>4. \A i \in 1 .. n : P[i + 1] = P[i] + At(b, P[i])
  <2>1. TAKE i \in 1 .. n
  <2>2. PICK o \in Nat, e \in Nat : o = P[i] /\ e = P[i + 1]
    BY <1>3
  <2>3. b[o + 1] = e - o
    BY <1>1, <1>2, <2>2 DEF HoldsSupers, HoldsSuper
  <2>4. QED
    BY <2>2, <2>3 DEF At
<1> DEFINE Walks(f) == f = [i \in 1 .. NumSuper(b) + 1 |->
                               IF i = 1 THEN SuperCount(b) + 1 ELSE f[i - 1] + At(b, f[i - 1])]
<1>5. Walks(P)
  <2>1. ASSUME NEW i \in 1 .. n + 1
        PROVE  P[i] = IF i = 1 THEN SuperCount(b) + 1 ELSE P[i - 1] + At(b, P[i - 1])
    <3>1. CASE i # 1
      <4>1. i - 1 \in 1 .. n /\ (i - 1) + 1 = i
        BY <3>1
      <4>2. QED
        BY <1>4, <3>1, <4>1
    <3>2. QED
      BY <1>3, <3>1
  <2>2. P = [i \in 1 .. n + 1 |->
                IF i = 1 THEN SuperCount(b) + 1 ELSE P[i - 1] + At(b, P[i - 1])]
    BY <1>3, <2>1
  <2>3. QED
    BY <1>2, <2>2
<1> DEFINE f == SuperAt(b)
<1>6. Walks(f)
  BY <1>5, Zenon DEF SuperAt
<1> HIDE DEF f
<1>7. /\ f[1] = P[1]
      /\ \A i \in 1 .. n : f[i] = P[i] => f[i + 1] = P[i + 1]
  <2>1. \A i \in 1 .. n + 1 : f[i] = IF i = 1 THEN SuperCount(b) + 1 ELSE f[i - 1] + At(b, f[i - 1])
    BY <1>2, <1>6
  <2>2. 1 \in 1 .. n + 1
    OBVIOUS
  <2>3. \A i \in 1 .. n : i + 1 # 1 /\ (i + 1) - 1 = i
    OBVIOUS
  <2>4. QED
    BY <1>3, <1>4, <2>1, <2>2, <2>3
<1>8. \A i \in 1 .. n + 1 : f[i] = P[i]
  BY <1>7, SameWalk, SMTT(20)
<1>9. QED
  BY <1>1, <1>2, <1>8 DEF f

(* A piece of the buffer that is the sequence t.                           *)
LEMMA SliceIs ==
    ASSUME NEW b \in Cells, NEW o \in Nat, NEW t \in Seq(Nat), o + Len(t) <= Len(b),
           \A k \in 1 .. Len(t) : b[o + k] = t[k]
    PROVE  Slice(b, o, Len(t)) = t
<1>1. PICK n \in Nat : n = Len(t)
  OBVIOUS
<1>2. PICK x : x = SubSeq(b, o + 1, o + n)
  OBVIOUS
<1>3. Len(b) \in Nat
  BY DEF Cells
<1>4. o + 1 \in 1 .. Len(b) + 1 /\ o + n \in (o + 1) - 1 .. Len(b)
  BY <1>1, <1>3
<1>5. /\ x \in Cells /\ Len(x) = (o + n) - (o + 1) + 1
      /\ \A k \in 1 .. (o + n) - (o + 1) + 1 : x[k] = b[(o + 1) + k - 1]
  BY <1>2, <1>4, PartCells
<1>6. (o + n) - (o + 1) + 1 = n /\ \A k \in 1 .. n : (o + 1) + k - 1 = o + k
  OBVIOUS
<1>7. Len(x) = n /\ \A k \in 1 .. n : x[k] = t[k]
  BY <1>1, <1>5, <1>6
<1>8. x = t
  BY <1>1, <1>5, <1>7, SeqEqual DEF Cells
<1>9. QED
  BY <1>1, <1>2, <1>8 DEF Slice

LEMMA ReadsPDS ==
    ASSUME NEW b \in Cells, NEW o \in Nat, NEW e \in Nat, NEW p \in PdsRec, HoldsPDS(b, o, e, p)
    PROVE  /\ ReadPDSBuff(b, o) = [validTime |-> p.validTime, place |-> p.place, nextPds |-> e]
           /\ At(b, o) = Len(p.place) + 3 /\ o + At(b, o) = e
           /\ ValidTime(b, o) = p.validTime
<1>1. PICK n \in Nat : n = Len(p.place) /\ p.place \in Seq(Nat)
  BY PdsTypes
<1>2. /\ o \in Nat /\ e = o + 3 + n /\ e <= Len(b)
      /\ b[o + 1] = 3 + n /\ b[o + 2] = p.validTime /\ b[o + 3] = n
      /\ \A k \in 1 .. n : b[o + 3 + k] = p.place[k]
  BY <1>1 DEF HoldsPDS
<1>3. (o + 1) + 1 = o + 2 /\ (o + 2) + 1 = o + 3
  BY <1>2
<1>4. At(b, o) = 3 + n /\ At(b, o + 1) = p.validTime /\ At(b, o + 2) = n
  BY <1>2, <1>3 DEF At
<1>5. Slice(b, o + 3, n) = p.place
  <2>1. PICK a \in Nat : a = o + 3
    BY <1>2
  <2>2. a + Len(p.place) <= Len(b) /\ \A k \in 1 .. Len(p.place) : b[a + k] = p.place[k]
    BY <1>1, <1>2, <2>1
  <2>3. QED
    BY <1>1, <2>1, <2>2, SliceIs
<1>6. ReadPDSBuff(b, o) = [validTime |-> p.validTime, place |-> p.place, nextPds |-> e]
  BY <1>2, <1>4, <1>5 DEF ReadPDSBuff
<1>7. ValidTime(b, o) = p.validTime
  BY <1>4 DEF ValidTime
<1>8. At(b, o) = Len(p.place) + 3 /\ o + At(b, o) = e
  <2>1. PICK c : c = At(b, o) /\ c = 3 + n
    BY <1>4
  <2>2. e = o + 3 + n
    BY <1>2
  <2>3. c = n + 3 /\ o + c = e
    BY <2>1, <2>2
  <2>4. QED
    BY <1>1, <2>1, <2>3, Zenon
<1>9. QED
  BY <1>6, <1>7, <1>8

LEMMA ReadsSuper ==
    ASSUME NEW b \in Cells, NEW o \in Nat, NEW e \in Nat, NEW s \in SuperRec,
           HoldsSuper(b, o, e, s)
    PROVE  /\ ReadSupPDSBuff(b, o) = [element |-> s.element, refTime |-> s.refTime,
                                      tag |-> s.tag, gdsNum |-> s.gdsNum,
                                      numPDS |-> Len(s.pdss), pdsPtr |-> ArrayFrom(o, s)]
           /\ At(b, o + 2) = s.element /\ At(b, o + 3) = s.refTime
           /\ SupLen(b, o) = 5 + Len(s.tag)
           /\ PDSCount(b, o) + 1 = ArrayFrom(o, s) /\ PDSCount(b, o) = o + 6 + Len(s.tag)
           /\ NumPDS(b, o) = Len(s.pdss)
<1>1. PICK n \in Nat : n = Len(s.tag) /\ s.tag \in Seq(Nat)
  BY RecordTypes
<1>2. /\ o \in Nat /\ e \in Nat /\ o + 7 + n <= e /\ e <= Len(b)
      /\ b[o + 2] = 5 + n /\ b[o + 3] = s.element /\ b[o + 4] = s.refTime
      /\ b[o + 5] = n /\ b[o + 6 + n] = s.gdsNum /\ b[o + 7 + n] = Len(s.pdss)
      /\ \A k \in 1 .. n : b[o + 5 + k] = s.tag[k]
  BY <1>1 DEF HoldsSuper, HoldsHead, ArrayFrom
<1> DEFINE L == Len(b)
<1>0. L \in Nat /\ o + 7 + n <= e /\ e <= L /\ o + 7 + n <= L
  <2>1. L \in Nat
    BY DEF Cells
  <2>2. o + 7 + n <= e /\ e <= L
    BY <1>2
  <2> HIDE DEF L
  <2>3. QED
    BY <2>1, <2>2
<1> HIDE DEF L
<1>3. /\ (o + 1) + 1 = o + 2 /\ (o + 2) + 1 = o + 3 /\ (o + 3) + 1 = o + 4
      /\ (o + 4) + 1 = o + 5 /\ (o + 5 + n) + 1 = o + 6 + n /\ (o + 6 + n) + 1 = o + 7 + n
      /\ o + 1 + (5 + n) = o + 6 + n /\ o + 7 + n \in Nat
  OBVIOUS
<1>4. /\ At(b, o + 1) = 5 + n /\ At(b, o + 2) = s.element /\ At(b, o + 3) = s.refTime
      /\ At(b, o + 4) = n /\ At(b, o + 5 + n) = s.gdsNum /\ At(b, o + 6 + n) = Len(s.pdss)
  BY <1>2, <1>3 DEF At
<1>5. Slice(b, o + 5, n) = s.tag
  <2>1. PICK a \in Nat : a = o + 5
    OBVIOUS
  <2>2. a + n <= L
    BY <1>0, <2>1
  <2>3. \A k \in 1 .. n : b[a + k] = s.tag[k]
    BY <1>2, <2>1
  <2>4. a + Len(s.tag) <= Len(b) /\ \A k \in 1 .. Len(s.tag) : b[a + k] = s.tag[k]
    BY <1>1, <2>2, <2>3, Zenon DEF L
  <2>5. QED
    BY <1>1, <2>1, <2>4, SliceIs
<1>6. ReadSupPDSBuff(b, o) = [element |-> s.element, refTime |-> s.refTime,
                              tag |-> s.tag, gdsNum |-> s.gdsNum,
                              numPDS |-> Len(s.pdss), pdsPtr |-> ArrayFrom(o, s)]
  BY <1>1, <1>4, <1>5 DEF ReadSupPDSBuff, ArrayFrom
<1>7. SupLen(b, o) = 5 + n /\ PDSCount(b, o) = o + 6 + n
  BY <1>2, <1>3, <1>4 DEF SupLen, PDSCount
<1>8. NumPDS(b, o) = Len(s.pdss)
  BY <1>4, <1>7 DEF NumPDS
<1>9. PDSCount(b, o) + 1 = ArrayFrom(o, s)
  BY <1>1, <1>2, <1>3, <1>7 DEF ArrayFrom
<1>10. QED
  BY <1>1, <1>4, <1>6, <1>7, <1>8, <1>9

(* The cells that InsertPDS compares with a super header.                  *)
LEMMA ReadsHead ==
    ASSUME NEW b \in Cells, NEW o \in Nat, NEW e \in Nat, NEW s \in SuperRec,
           HoldsSuper(b, o, e, s), NEW x, x = Slice(b, o + 1, SupLen(b, o))
    PROVE  /\ x \in Seq(Nat) /\ Len(x) = 5 + Len(s.tag)
           /\ \A k \in 1 .. 5 + Len(s.tag) : x[k] = b[o + 1 + k]
<1>0. PICK n \in Nat : n = Len(s.tag)
  BY RecordTypes
<1> DEFINE L == Len(b)
<1>1. L \in Nat
  BY DEF Cells
<1>2. o + 7 + n <= e /\ e <= L
  BY <1>0 DEF HoldsSuper, ArrayFrom
<1> HIDE DEF L
<1>3. SupLen(b, o) = 5 + n
  BY <1>0, ReadsSuper
<1>4. PICK a \in Nat, c \in Nat : a = o + 2 /\ c = o + 6 + n
  OBVIOUS
<1>5. a \in 1 .. L + 1 /\ c \in a - 1 .. L /\ c - a + 1 = 5 + n
  BY <1>1, <1>2, <1>4
<1>6. a \in 1 .. Len(b) + 1 /\ c \in a - 1 .. Len(b)
  BY <1>5, Zenon DEF L
<1>7. /\ SubSeq(b, a, c) \in Cells /\ Len(SubSeq(b, a, c)) = c - a + 1
      /\ \A k \in 1 .. c - a + 1 : SubSeq(b, a, c)[k] = b[a + k - 1]
  BY <1>6, PartCells
<1>8. \A k \in 1 .. 5 + n : a + k - 1 = o + 1 + k
  BY <1>4
<1>9. (o + 1) + 1 = a /\ (o + 1) + (5 + n) = c
  BY <1>4
<1>10. x = SubSeq(b, a, c)
  BY <1>3, <1>9 DEF Slice
<1>11. x \in Seq(Nat) /\ Len(x) = 5 + n /\ \A k \in 1 .. 5 + n : x[k] = b[o + 1 + k]
  BY <1>5, <1>7, <1>8, <1>10 DEF Cells
<1>12. QED
  BY <1>0, <1>11

(* The offsets of the PDSs, as InsertPDS and as the probes find them.      *)
LEMMA ReadsArray ==
    ASSUME NEW b \in Cells, NEW o \in Nat, NEW e \in Nat, NEW s \in SuperRec,
           HoldsSuper(b, o, e, s)
    PROVE  \E Q : /\ Offsets(ArrayFrom(o, s), e, Len(s.pdss), Q) /\ HoldsArray(b, s.pdss, Q)
                  /\ \A j \in 1 .. Len(s.pdss) + 1 : PDSAt(b, o)[j] = Q[j] /\ PDSRead(b, o)[j] = Q[j]
<1>1. PICK Q : Offsets(ArrayFrom(o, s), e, Len(s.pdss), Q) /\ HoldsArray(b, s.pdss, Q)
  BY DEF HoldsSuper
<1>2. PICK n \in Nat : n = Len(s.pdss) /\ \A j \in 1 .. n : s.pdss[j] \in PdsRec
  BY RecordTypes
<1>3. PICK a : /\ a = ArrayFrom(o, s) /\ a = PDSCount(b, o) + 1 /\ NumPDS(b, o) = n
               /\ ReadSupPDSBuff(b, o).numPDS = n /\ ReadSupPDSBuff(b, o).pdsPtr = a
  <2>1. /\ ReadSupPDSBuff(b, o) = [element |-> s.element, refTime |-> s.refTime,
                                   tag |-> s.tag, gdsNum |-> s.gdsNum,
                                   numPDS |-> Len(s.pdss), pdsPtr |-> ArrayFrom(o, s)]
        /\ PDSCount(b, o) + 1 = ArrayFrom(o, s) /\ NumPDS(b, o) = Len(s.pdss)
    BY ReadsSuper, ZenonT(40)
  <2>2. /\ ReadSupPDSBuff(b, o).numPDS = Len(s.pdss)
        /\ ReadSupPDSBuff(b, o).pdsPtr = ArrayFrom(o, s)
    BY <2>1
  <2>3. QED
    BY <1>2, <2>1, <2>2, Zenon
<1>4. /\ Q \in [1 .. n + 1 -> Nat] /\ Q[1] = a
      /\ \A j \in 1 .. n : j + 1 \in 1 .. n + 1 /\ j \in 1 .. n + 1
  BY <1>1, <1>2, <1>3 DEF Offsets
<1>5. \A j \in 1 .. n : Q[j + 1] = Q[j] + At(b, Q[j]) /\ Q[j + 1] = ReadPDSBuff(b, Q[j]).nextPds
  <2>1. TAKE j \in 1 .. n
  <2>2. PICK x \in Nat, y \in Nat : x = Q[j] /\ y = Q[j + 1]
    BY <1>4
  <2>3. HoldsPDS(b, x, y, s.pdss[j])
    BY <1>1, <1>2, <2>2 DEF HoldsArray
  <2>4. y = x + At(b, x) /\ y = ReadPDSBuff(b, x).nextPds
    <3>1. /\ ReadPDSBuff(b, x) = [validTime |-> s.pdss[j].validTime, place |-> s.pdss[j].place,
                                  nextPds |-> y]
          /\ x + At(b, x) = y
      BY <1>2, <2>3, ReadsPDS, ZenonT(40)
    <3>2. QED
      BY <3>1
  <2>5. QED
    BY <2>2, <2>4, Zenon
<1>6. /\ 1 \in 1 .. n + 1
      /\ \A j \in 1 .. n : j + 1 # 1 /\ (j + 1) - 1 = j
      /\ \A j \in 1 .. n + 1 : j # 1 => j - 1 \in 1 .. n /\ (j - 1) + 1 = j
  OBVIOUS
<1> DEFINE Walks(g) == g = [j \in 1 .. NumPDS(b, o) + 1 |->
                               IF j = 1 THEN PDSCount(b, o) + 1 ELSE g[j - 1] + At(b, g[j - 1])]
           Reads(g) == g = [j \in 1 .. ReadSupPDSBuff(b, o).numPDS + 1 |->
                               IF j = 1 THEN ReadSupPDSBuff(b, o).pdsPtr
                               ELSE ReadPDSBuff(b, g[j - 1]).nextPds]
           f == PDSAt(b, o)
           h == PDSRead(b, o)
<1>7. \A j \in 1 .. n + 1 : f[j] = Q[j]
  <2>1. Walks(Q)
    <3>1. \A j \in 1 .. n + 1 : Q[j] = IF j = 1 THEN a ELSE Q[j - 1] + At(b, Q[j - 1])
      BY <1>4, <1>5, <1>6
    <3>2. Q = [j \in 1 .. n + 1 |-> IF j = 1 THEN a ELSE Q[j - 1] + At(b, Q[j - 1])]
      BY <1>4, <3>1
    <3>3. QED
      BY <1>3, <3>2
  <2>2. Walks(f)
    BY <2>1, Zenon DEF PDSAt
  <2> HIDE DEF f
  <2>3. \A j \in 1 .. n + 1 : f[j] = IF j = 1 THEN a ELSE f[j - 1] + At(b, f[j - 1])
    BY <1>3, <2>2
  <2>4. f[1] = Q[1] /\ \A j \in 1 .. n : f[j] = Q[j] => f[j + 1] = Q[j + 1]
    BY <1>4, <1>5, <1>6, <2>3
  <2>5. QED
    BY <2>4, SameWalk
<1>8. \A j \in 1 .. n + 1 : h[j] = Q[j]
  <2>1. Reads(Q)
    <3>1. \A j \in 1 .. n + 1 : Q[j] = IF j = 1 THEN a ELSE ReadPDSBuff(b, Q[j - 1]).nextPds
      BY <1>4, <1>5, <1>6
    <3>2. Q = [j \in 1 .. n + 1 |-> IF j = 1 THEN a ELSE ReadPDSBuff(b, Q[j - 1]).nextPds]
      BY <1>4, <3>1
    <3>3. QED
      BY <1>3, <3>2
  <2>2. Reads(h)
    BY <2>1, Zenon DEF PDSRead
  <2> HIDE DEF h
  <2>3. \A j \in 1 .. n + 1 : h[j] = IF j = 1 THEN a ELSE ReadPDSBuff(b, h[j - 1]).nextPds
    BY <1>3, <2>2
  <2>4. h[1] = Q[1] /\ \A j \in 1 .. n : h[j] = Q[j] => h[j + 1] = Q[j + 1]
    <3>1. h[1] = Q[1]
      BY <1>4, <1>6, <2>3, Zenon
    <3>2. ASSUME NEW j \in 1 .. n, h[j] = Q[j] PROVE h[j + 1] = Q[j + 1]
      <4>1. h[j + 1] = ReadPDSBuff(b, h[j]).nextPds
        BY <1>4, <1>6, <2>3, Zenon
      <4>2. QED
        BY <1>5, <3>2, <4>1, Zenon
    <3>3. QED
      BY <3>1, <3>2
  <2>5. QED
    BY <2>4, SameWalk
<1>9. QED
  BY <1>1, <1>2, <1>7, <1>8 DEF f, h

(* The cells of what is written.                                           *)
LEMMA PDSCells ==
    ASSUME NEW p, p.place \in Seq(Nat), p.validTime \in Nat
    PROVE  /\ WritePDS(p) \in Cells /\ Len(WritePDS(p)) = 3 + Len(p.place)
           /\ WritePDS(p)[1] = 3 + Len(p.place) /\ WritePDS(p)[2] = p.validTime
           /\ WritePDS(p)[3] = Len(p.place)
           /\ \A k \in 1 .. Len(p.place) : WritePDS(p)[3 + k] = p.place[k]
<1>1. PICK n \in Nat : n = Len(p.place)
  OBVIOUS
<1>2. PICK h : h = <<3 + n, p.validTime, n>>
  OBVIOUS
<1>3. h \in Seq(Nat) /\ Len(h) = 3 /\ h[1] = 3 + n /\ h[2] = p.validTime /\ h[3] = n
  BY <1>2
<1>4. PICK x : x = h \o p.place
  OBVIOUS
<1>5. /\ x \in Seq(Nat) /\ Len(x) = Len(h) + Len(p.place)
      /\ \A i \in 1 .. Len(h) + Len(p.place) :
            x[i] = IF i <= Len(h) THEN h[i] ELSE p.place[i - Len(h)]
  BY <1>3, <1>4, ConcatProperties
<1>6. /\ x \in Seq(Nat) /\ Len(x) = 3 + n
      /\ \A i \in 1 .. 3 + n : x[i] = IF i <= 3 THEN h[i] ELSE p.place[i - 3]
  BY <1>1, <1>3, <1>5, Zenon
<1>7. x[1] = h[1] /\ x[2] = h[2] /\ x[3] = h[3]
  <2>1. 1 \in 1 .. 3 + n /\ 2 \in 1 .. 3 + n /\ 3 \in 1 .. 3 + n /\ 1 <= 3 /\ 2 <= 3 /\ 3 <= 3
    OBVIOUS
  <2>2. QED
    BY <1>6, <2>1, Zenon
<1>8. \A k \in 1 .. n : x[3 + k] = p.place[k]
  <2>1. TAKE k \in 1 .. n
  <2>2. 3 + k \in 1 .. 3 + n /\ ~(3 + k <= 3) /\ (3 + k) - 3 = k
    OBVIOUS
  <2>3. QED
    BY <1>6, <2>2
<1>9. x = WritePDS(p)
  BY <1>1, <1>2, <1>4, Zenon DEF WritePDS
<1>10. QED
  BY <1>1, <1>3, <1>6, <1>7, <1>8, <1>9, Zenon DEF Cells

LEMMA HeadCells ==
    ASSUME NEW g, g.tag \in Seq(Nat), g.element \in Nat, g.refTime \in Nat, NEW num \in Nat
    PROVE  LET head == WriteSupPDS(g, num)
           IN  /\ head \in Cells /\ Len(head) = 5 + Len(g.tag)
               /\ head[1] = 5 + Len(g.tag) /\ head[2] = g.element /\ head[3] = g.refTime
               /\ head[4] = Len(g.tag) /\ head[5 + Len(g.tag)] = num
               /\ \A k \in 1 .. Len(g.tag) : head[4 + k] = g.tag[k]
<1>1. PICK n \in Nat : n = Len(g.tag)
  OBVIOUS
<1>2. PICK h : h = <<5 + n, g.element, g.refTime, n>>
  OBVIOUS
<1>3. /\ h \in Seq(Nat) /\ Len(h) = 4
      /\ h[1] = 5 + n /\ h[2] = g.element /\ h[3] = g.refTime /\ h[4] = n
  BY <1>2
<1>4. PICK x : x = h \o g.tag
  OBVIOUS
<1>5. /\ x \in Seq(Nat) /\ Len(x) = Len(h) + Len(g.tag)
      /\ \A i \in 1 .. Len(h) + Len(g.tag) :
            x[i] = IF i <= Len(h) THEN h[i] ELSE g.tag[i - Len(h)]
  BY <1>3, <1>4, ConcatProperties
<1>6. /\ x \in Seq(Nat) /\ Len(x) = 4 + n
      /\ \A i \in 1 .. 4 + n : x[i] = IF i <= 4 THEN h[i] ELSE g.tag[i - 4]
  BY <1>1, <1>3, <1>5, Zenon
<1>7. PICK y : y = <<num>>
  OBVIOUS
<1>8. y \in Seq(Nat) /\ Len(y) = 1 /\ y[1] = num
  BY <1>7
<1>9. PICK z : z = x \o y
  OBVIOUS
<1>10. /\ z \in Seq(Nat) /\ Len(z) = Len(x) + Len(y)
       /\ \A i \in 1 .. Len(x) + Len(y) : z[i] = IF i <= Len(x) THEN x[i] ELSE y[i - Len(x)]
  BY <1>6, <1>8, <1>9, ConcatProperties
<1>11. /\ z \in Seq(Nat) /\ Len(z) = (4 + n) + 1
       /\ \A i \in 1 .. (4 + n) + 1 : z[i] = IF i <= 4 + n THEN x[i] ELSE y[i - (4 + n)]
  BY <1>6, <1>8, <1>10, Zenon
<1>12. \A i \in 1 .. 4 : i \in 1 .. (4 + n) + 1 /\ i \in 1 .. 4 + n /\ i <= 4 + n /\ i <= 4
  OBVIOUS
<1>13. \A i \in 1 .. 4 : z[i] = h[i]
  <2>1. TAKE i \in 1 .. 4
  <2>2. z[i] = x[i]
    BY <1>11, <1>12
  <2>3. x[i] = h[i]
    BY <1>6, <1>12
  <2>4. QED
    BY <2>2, <2>3
<1>14. z[1] = 5 + n /\ z[2] = g.element /\ z[3] = g.refTime /\ z[4] = n
  <2>1. 1 \in 1 .. 4 /\ 2 \in 1 .. 4 /\ 3 \in 1 .. 4 /\ 4 \in 1 .. 4
    OBVIOUS
  <2>2. QED
    BY <1>3, <1>13, <2>1, Zenon
<1>15. \A k \in 1 .. n : z[4 + k] = g.tag[k]
  <2>1. TAKE k \in 1 .. n
  <2>2. /\ 4 + k \in 1 .. 4 + n /\ 4 + k \in 1 .. (4 + n) + 1 /\ 4 + k <= 4 + n /\ ~(4 + k <= 4)
        /\ (4 + k) - 4 = k
    OBVIOUS
  <2>3. QED
    BY <1>6, <1>11, <2>2
<1>16. z[5 + n] = num
  <2>1. /\ 5 + n \in 1 .. (4 + n) + 1 /\ ~(5 + n <= 4 + n) /\ (5 + n) - (4 + n) = 1
        /\ (4 + n) + 1 = 5 + n
    OBVIOUS
  <2>2. QED
    BY <1>8, <1>11, <2>1
<1>17. Len(z) = 5 + n
  BY <1>11
<1>18. z = WriteSupPDS(g, num)
  BY <1>1, <1>2, <1>4, <1>7, <1>9, Zenon DEF WriteSupPDS
<1>19. QED
  BY <1>1, <1>11, <1>14, <1>15, <1>16, <1>17, <1>18, Zenon DEF Cells

(* The search of InsertPDS compares the records.                           *)
Follows(s, g) == s.element > g.element \/ (s.element = g.element /\ s.refTime < g.refTime)
IsOwn(s, g, num) == /\ s.element = g.element /\ s.refTime = g.refTime
                    /\ s.tag = g.tag /\ s.gdsNum = num

LEMMA ComparesRecords ==
    ASSUME NEW b \in Cells, NEW o \in Nat, NEW e \in Nat, NEW s \in SuperRec,
           HoldsSuper(b, o, e, s), NEW num \in Nat,
           NEW g, g.tag \in Seq(Nat), g.element \in Nat, g.refTime \in Nat
    PROVE  /\ SortsAfter(b, o, g) <=> Follows(s, g)
           /\ IsSameSuper(b, o, WriteSupPDS(g, num)) <=> IsOwn(s, g, num)
<1>1. At(b, o + 2) = s.element /\ At(b, o + 3) = s.refTime
  BY ReadsSuper
<1>2. SortsAfter(b, o, g) <=> Follows(s, g)
  BY <1>1, Zenon DEF SortsAfter, Follows
<1>3. PICK n \in Nat, m \in Nat : n = Len(s.tag) /\ m = Len(g.tag)
  BY RecordTypes
<1>4. PICK x, y : x = Slice(b, o + 1, SupLen(b, o)) /\ y = WriteSupPDS(g, num)
  OBVIOUS
<1>5. /\ x \in Seq(Nat) /\ Len(x) = 5 + n
      /\ \A k \in 1 .. 5 + n : x[k] = b[o + 1 + k]
  BY <1>3, <1>4, ReadsHead, SMTT(20)
<1>6. /\ y \in Seq(Nat) /\ Len(y) = 5 + m /\ y[1] = 5 + m /\ y[2] = g.element
      /\ y[3] = g.refTime /\ y[4] = m /\ y[5 + m] = num
      /\ \A k \in 1 .. m : y[4 + k] = g.tag[k]
  BY <1>3, <1>4, HeadCells, ZenonT(40) DEF Cells
<1>7. /\ b[o + 2] = 5 + n /\ b[o + 3] = s.element /\ b[o + 4] = s.refTime
      /\ b[o + 5] = n /\ b[o + 6 + n] = s.gdsNum
      /\ \A k \in 1 .. n : b[o + 5 + k] = s.tag[k]
  BY <1>3 DEF HoldsSuper, HoldsHead
<1>8. /\ o + 1 + 1 = o + 2 /\ o + 1 + 2 = o + 3 /\ o + 1 + 3 = o + 4 /\ o + 1 + 4 = o + 5
      /\ o + 1 + (5 + n) = o + 6 + n
      /\ \A k \in 1 .. n : o + 1 + (4 + k) = o + 5 + k /\ 4 + k \in 1 .. 5 + n
      /\ 1 \in 1 .. 5 + n /\ 2 \in 1 .. 5 + n /\ 3 \in 1 .. 5 + n /\ 4 \in 1 .. 5 + n
      /\ 5 + n \in 1 .. 5 + n
  OBVIOUS
<1>9. /\ x[1] = 5 + n /\ x[2] = s.element /\ x[3] = s.refTime /\ x[4] = n /\ x[5 + n] = s.gdsNum
      /\ \A k \in 1 .. n : x[4 + k] = s.tag[k]
  <2>1. x[1] = b[o + 1 + 1] /\ x[2] = b[o + 1 + 2] /\ x[3] = b[o + 1 + 3] /\ x[4] = b[o + 1 + 4]
    BY <1>5, <1>8, Zenon
  <2>2. x[5 + n] = b[o + 1 + (5 + n)] /\ \A k \in 1 .. n : x[4 + k] = b[o + 1 + (4 + k)]
    BY <1>5, <1>8, Zenon
  <2>3. \A k \in 1 .. n : x[4 + k] = s.tag[k]
    BY <1>7, <1>8, <2>2, ZenonT(40)
  <2>4. QED
    BY <1>7, <1>8, <2>1, <2>2, <2>3
<1>10. ASSUME x = y PROVE IsOwn(s, g, num)
  <2>1. n = m
    BY <1>6, <1>9, <1>10
  <2>2. \A k \in 1 .. n : s.tag[k] = g.tag[k]
    BY <1>6, <1>9, <1>10, <2>1
  <2>3. s.tag = g.tag
    BY <1>3, <2>1, <2>2, RecordTypes, SeqEqual
  <2>4. QED
    BY <1>6, <1>9, <1>10, <2>1, <2>3 DEF IsOwn
<1>11. ASSUME IsOwn(s, g, num) PROVE x = y
  <2>1. n = m /\ s.tag = g.tag /\ s.element = g.element /\ s.refTime = g.refTime /\ s.gdsNum = num
    BY <1>3, <1>11 DEF IsOwn
  <2>2. ASSUME NEW k \in 1 .. 5 + n PROVE x[k] = y[k]
    <3>1. k = 1 \/ k = 2 \/ k = 3 \/ k = 4 \/ k = 5 + n \/ (k - 4 \in 1 .. n /\ 4 + (k - 4) = k)
      OBVIOUS
    <3>2. CASE k - 4 \in 1 .. n /\ 4 + (k - 4) = k
      BY <1>6, <1>9, <2>1, <3>2
    <3>3. QED
      BY <1>6, <1>9, <2>1, <3>1, <3>2
  <2>3. QED
    BY <1>5, <1>6, <2>1, <2>2, SeqEqual
<1>12. IsSameSuper(b, o, y) <=> x = y
  BY <1>4, Zenon DEF IsSameSuper
<1>13. QED
  BY <1>2, <1>4, <1>10, <1>11, <1>12, Zenon

(***************************************************************************)
(* A good index: the grid definitions are distinct; super headers are in   *)
(* order and distinct, each with a grid definition and at least one PDS;   *)
(* the PDSs of one are in the order of their times; and each key is that   *)
(* of a grid.                                                              *)
(***************************************************************************)

KeyAt(gs, s, p) == [gds |-> gs[s.gdsNum], element |-> s.element, refTime |-> s.refTime,
                    tag |-> s.tag, validTime |-> p.validTime]

Distinct(gs) == /\ \A m, n \in 1 .. Len(gs) : gs[m] = gs[n] => m = n
                /\ \A n \in 1 .. Len(gs) : \E g \in Grids : g.gds = gs[n]

Comes(s, t) ==
    /\ s.element < t.element \/ (s.element = t.element /\ s.refTime >= t.refTime)
    /\ \/ s.element # t.element \/ s.refTime # t.refTime
       \/ s.tag # t.tag \/ s.gdsNum # t.gdsNum

Sorted(ss) == \A i, j \in 1 .. Len(ss) : i < j => Comes(ss[i], ss[j])
TimesSorted(s) == \A i, j \in 1 .. Len(s.pdss) :
                     i < j => s.pdss[i].validTime < s.pdss[j].validTime

GoodSuper(gs, s) ==
    /\ s.gdsNum \in 1 .. Len(gs) /\ Len(s.pdss) > 0
    /\ TimesSorted(s)
    /\ \A j \in 1 .. Len(s.pdss) : \E g \in Grids : KeyOf(g) = KeyAt(gs, s, s.pdss[j])

Good(gs, ss) == /\ Distinct(gs) /\ Sorted(ss)
                /\ \A i \in 1 .. Len(ss) : GoodSuper(gs, ss[i])

LEMMA CountBound ==
    ASSUME NEW n \in Nat, NEW T, IsFiniteSet(T), NEW f \in [1 .. n -> T],
           \A i, j \in 1 .. n : f[i] = f[j] => i = j
    PROVE  n <= Cardinality(T)
<1>1. f \in Injection(1 .. n, T)
  BY DEF Injection, IsInjective
<1>2. Cardinality(1 .. n) <= Cardinality(T)
  BY <1>1, FS_Injection
<1>3. Cardinality(1 .. n) = n
  BY FS_Interval
<1>4. QED
  BY <1>2, <1>3

LEMMA GDSsCounted ==
    ASSUME CountsFit, NEW gs \in Seq(Nat), Distinct(gs)
    PROVE  Len(gs) < UShort2
<1>1. PICK n \in Nat : n = Len(gs)
  OBVIOUS
<1> DEFINE f == [k \in 1 .. n |-> CHOOSE g \in Grids : g.gds = gs[k]]
<1>2. \A k \in 1 .. n : f[k] \in Grids /\ f[k].gds = gs[k]
  BY <1>1 DEF Distinct
<1>3. f \in [1 .. n -> Grids]
  BY <1>2
<1> HIDE DEF f
<1>4. \A i, j \in 1 .. n : f[i] = f[j] => i = j
  BY <1>1, <1>2 DEF Distinct
<1>5. n <= Cardinality(Grids)
  BY <1>3, <1>4, CountBound DEF CountsFit
<1>6. Cardinality(Grids) \in Nat /\ Cardinality(Grids) < UShort2
  BY FS_CardinalityType DEF CountsFit
<1>7. QED
  BY <1>1, <1>5, <1>6, UShort2Assumption

LEMMA SupersCounted ==
    ASSUME CountsFit, NEW gs, NEW ss \in Seq(SuperRec), Good(gs, ss)
    PROVE  Len(ss) < UShort2
<1>1. PICK n \in Nat : n = Len(ss)
  OBVIOUS
<1> DEFINE Is(g, i) == KeyOf(g) = KeyAt(gs, ss[i], ss[i].pdss[1])
           f == [i \in 1 .. n |-> CHOOSE g \in Grids : Is(g, i)]
<1>2. \A i \in 1 .. n : \E g \in Grids : Is(g, i)
  <2>1. TAKE i \in 1 .. n
  <2>2. GoodSuper(gs, ss[i]) /\ ss[i] \in SuperRec
    BY <1>1 DEF Good
  <2>3. 1 \in 1 .. Len(ss[i].pdss)
    BY <2>2, RecordTypes DEF GoodSuper
  <2>4. QED
    BY <2>2, <2>3 DEF GoodSuper
<1>3. \A i \in 1 .. n : f[i] \in Grids /\ Is(f[i], i)
  <2> HIDE DEF Is
  <2>1. QED
    BY <1>2
<1>4. f \in [1 .. n -> Grids]
  BY <1>3
<1> HIDE DEF f
<1>5. ASSUME NEW i \in 1 .. n, NEW j \in 1 .. n, i < j PROVE f[i] # f[j]
  <2>1. SUFFICES ASSUME f[i] = f[j] PROVE FALSE
    OBVIOUS
  <2>2. KeyAt(gs, ss[i], ss[i].pdss[1]) = KeyAt(gs, ss[j], ss[j].pdss[1])
    BY <1>3, <2>1
  <2>3. /\ gs[ss[i].gdsNum] = gs[ss[j].gdsNum] /\ ss[i].element = ss[j].element
        /\ ss[i].refTime = ss[j].refTime /\ ss[i].tag = ss[j].tag
    BY <2>2 DEF KeyAt
  <2>4. Comes(ss[i], ss[j]) /\ GoodSuper(gs, ss[i]) /\ GoodSuper(gs, ss[j])
    BY <1>1, <1>5 DEF Good, Sorted
  <2>5. ss[i].gdsNum = ss[j].gdsNum
    BY <2>3, <2>4, Zenon DEF Good, Distinct, GoodSuper
  <2>6. QED
    BY <2>3, <2>4, <2>5, Zenon DEF Comes
<1>6. \A i, j \in 1 .. n : f[i] = f[j] => i = j
  BY <1>5
<1>7. n <= Cardinality(Grids)
  BY <1>4, <1>6, CountBound DEF CountsFit
<1>8. Cardinality(Grids) \in Nat /\ Cardinality(Grids) < UShort2
  BY FS_CardinalityType DEF CountsFit
<1>9. QED
  BY <1>1, <1>7, <1>8, UShort2Assumption

LEMMA PDSsCounted ==
    ASSUME CountsFit, NEW gs, NEW s \in SuperRec, GoodSuper(gs, s)
    PROVE  Len(s.pdss) < UShort2
<1>1. PICK n \in Nat : n = Len(s.pdss) /\ \A j \in 1 .. n : s.pdss[j] \in PdsRec
  BY RecordTypes
<1> DEFINE Is(g, j) == KeyOf(g) = KeyAt(gs, s, s.pdss[j])
           f == [j \in 1 .. n |-> CHOOSE g \in Grids : Is(g, j)]
<1>2. \A j \in 1 .. n : \E g \in Grids : Is(g, j)
  BY <1>1 DEF GoodSuper
<1>3. \A j \in 1 .. n : f[j] \in Grids /\ Is(f[j], j)
  <2> HIDE DEF Is
  <2>1. QED
    BY <1>2
<1>4. f \in [1 .. n -> Grids]
  BY <1>3
<1> HIDE DEF f
<1>5. ASSUME NEW i \in 1 .. n, NEW j \in 1 .. n, i < j PROVE f[i] # f[j]
  <2>1. SUFFICES ASSUME f[i] = f[j] PROVE FALSE
    OBVIOUS
  <2>2. KeyAt(gs, s, s.pdss[i]) = KeyAt(gs, s, s.pdss[j])
    BY <1>3, <2>1
  <2>3. s.pdss[i].validTime = s.pdss[j].validTime
    BY <2>2 DEF KeyAt
  <2>4. s.pdss[i].validTime < s.pdss[j].validTime /\ s.pdss[i].validTime \in Nat
    BY <1>1, <1>5, PdsTypes DEF GoodSuper, TimesSorted
  <2>5. QED
    BY <2>3, <2>4
<1>6. \A i, j \in 1 .. n : f[i] = f[j] => i = j
  BY <1>5
<1>7. n <= Cardinality(Grids)
  BY <1>4, <1>6, CountBound DEF CountsFit
<1>8. Cardinality(Grids) \in Nat /\ Cardinality(Grids) < UShort2
  BY FS_CardinalityType DEF CountsFit
<1>9. QED
  BY <1>1, <1>7, <1>8, UShort2Assumption

(***************************************************************************)
(* The GDS array.                                                          *)
(***************************************************************************)

(* Below UShort2 a count goes up by one.                                   *)
LEMMA NoWrap ==
    ASSUME NEW n \in Nat, n < UShort2
    PROVE  n % UShort2 = n
<1>1. UShort2 \in Nat /\ UShort2 > 0
  BY UShort2Assumption
<1>2. QED
  BY <1>1

LEMMA SupersMove ==
    ASSUME NEW b, NEW b2, NEW o \in Nat, NEW e \in Nat, NEW ss \in Seq(SuperRec), NEW d \in Int,
           NEW Q, Offsets(o, e, Len(ss), Q), HoldsSupers(b, ss, Q),
           o + d \in Nat, e + d <= Len(b2), Moved(b, b2, o, e, d)
    PROVE  \E R : Offsets(o + d, e + d, Len(ss), R) /\ HoldsSupers(b2, ss, R)
<1>1. PICK n \in Nat : n = Len(ss)
  OBVIOUS
<1>2. \A j \in 1 .. n : ss[j] \in SuperRec
  BY <1>1
<1>3. /\ \A j \in 1 .. n + 1 : Q[j] \in Nat /\ o <= Q[j] /\ Q[j] <= e
      /\ \A j \in 1 .. n : j \in 1 .. n + 1 /\ j + 1 \in 1 .. n + 1 /\ Q[j] <= Q[j + 1]
  BY <1>1, OffsetsWithin
<1>4. Q[1] = o /\ Q[n + 1] = e /\ \A i, j \in 1 .. n + 1 : i <= j => Q[i] <= Q[j]
  BY <1>1 DEF Offsets
<1> DEFINE R == [j \in 1 .. n + 1 |-> Q[j] + d]
<1>5. \A j \in 1 .. n + 1 : R[j] = Q[j] + d
  OBVIOUS
<1>6. R \in [1 .. n + 1 -> Nat]
  <2>1. \A j \in 1 .. n + 1 : Q[j] + d \in Nat
    BY <1>3
  <2>2. QED
    BY <2>1
<1> HIDE DEF R
<1>7. Offsets(o + d, e + d, n, R)
  <2>1. 1 \in 1 .. n + 1 /\ n + 1 \in 1 .. n + 1
    OBVIOUS
  <2>2. ASSUME NEW i \in 1 .. n + 1, NEW j \in 1 .. n + 1, i <= j
        PROVE  R[i] <= R[j]
    <3>1. PICK x \in Nat, y \in Nat : x = Q[i] /\ y = Q[j] /\ x <= y
      BY <1>3, <1>4, <2>2
    <3>2. QED
      BY <1>5, <3>1
  <2>3. QED
    BY <1>4, <1>5, <1>6, <2>1, <2>2 DEF Offsets
<1>8. ASSUME NEW j \in 1 .. n
      PROVE  HoldsSuper(b2, R[j], R[j + 1], ss[j])
  <2>1. PICK x \in Nat, y \in Nat : x = Q[j] /\ y = Q[j + 1] /\ o <= x /\ y <= e
    BY <1>3
  <2>2. HoldsSuper(b, x, y, ss[j])
    BY <1>1, <2>1 DEF HoldsSupers
  <2>3. Moved(b, b2, x, y, d)
    BY <2>1 DEF Moved
  <2>4. x + d \in Nat /\ y + d <= Len(b2)
    <3>1. Len(b2) \in Int \/ Len(b2) \notin Int
      OBVIOUS
    <3>2. QED
      BY <2>1
  <2>5. HoldsSuper(b2, x + d, y + d, ss[j])
    BY <1>2, <2>2, <2>3, <2>4, SuperMoves
  <2>6. QED
    BY <1>3, <1>5, <2>1, <2>5
<1>9. QED
  BY <1>1, <1>7, <1>8 DEF HoldsSupers

LEMMA AddsGDS ==
    ASSUME NEW b, NEW gs, NEW ss, Layout(b, gs, ss), Good(gs, ss), CountsFit,
           NEW g \in Grids, \A n \in 1 .. Len(gs) : gs[n] # g.gds,
           g.gds \in Nat
    PROVE  /\ Layout(IncrShort(BufferInsert(b, 2 * Len(gs) + 3, <<0, g.gds>>), HEADLEN),
                     Append(gs, g.gds), ss)
           /\ Good(Append(gs, g.gds), ss)
<1>a. PICK hs, b2 : /\ hs = Append(gs, g.gds)
                    /\ b2 = IncrShort(BufferInsert(b, 2 * Len(gs) + 3, <<0, g.gds>>), HEADLEN)
  OBVIOUS
<1>0. gs \in Seq(Nat)
  BY DEF Layout
<1>0a. PICK G \in Nat : G = g.gds
  OBVIOUS
<1>0b. Len(gs) \in Nat /\ \A n \in 1 .. Len(gs) : gs[n] \in Nat
  BY <1>0
<1>1. PICK N \in Nat : N = Len(gs) /\ G = g.gds /\ gs \in Seq(Nat) /\ \A n \in 1 .. N : gs[n] \in Nat
  BY <1>0, <1>0a, <1>0b, Zenon
<1>2. /\ hs \in Seq(Nat) /\ Len(hs) = N + 1 /\ hs[N + 1] = G
      /\ \A n \in 1 .. N : hs[n] = gs[n]
  BY <1>a, <1>1, AppendProperties
<1>3. /\ \A n \in 1 .. N + 1 : n \in 1 .. N \/ n = N + 1
      /\ \A n \in 1 .. N : n \in 1 .. N + 1 /\ n # N + 1
  OBVIOUS
<1>4. Distinct(hs)
  <2>1. \A m, n \in 1 .. N : gs[m] = gs[n] => m = n
    BY <1>1 DEF Good, Distinct
  <2>2. \A n \in 1 .. N : \E f \in Grids : f.gds = gs[n]
    BY <1>1 DEF Good, Distinct
  <2>3. \A n \in 1 .. N : gs[n] # G
    BY <1>1
  <2>4. \A m, n \in 1 .. N + 1 : hs[m] = hs[n] => m = n
    BY <1>2, <1>3, <2>1, <2>3
  <2>5. \A n \in 1 .. N + 1 : \E f \in Grids : f.gds = hs[n]
    BY <1>1, <1>2, <1>3, <2>2
  <2>6. QED
    BY <1>2, <2>4, <2>5 DEF Distinct
<1>5. Good(hs, ss)
  <2>1. ASSUME NEW i \in 1 .. Len(ss) PROVE GoodSuper(hs, ss[i])
    <3>1. GoodSuper(gs, ss[i])
      BY DEF Good
    <3>2. ss[i].gdsNum \in 1 .. N /\ hs[ss[i].gdsNum] = gs[ss[i].gdsNum] /\ ss[i].gdsNum \in 1 .. N + 1
      BY <1>1, <1>2, <1>3, <3>1 DEF GoodSuper
    <3>3. \A p : KeyAt(hs, ss[i], p) = KeyAt(gs, ss[i], p)
      BY <3>2 DEF KeyAt
    <3>4. QED
      BY <1>2, <3>1, <3>2, <3>3 DEF GoodSuper
  <2>2. QED
    BY <1>4, <2>1 DEF Good
<1>6. N + 1 < UShort2
  BY <1>2, <1>4, GDSsCounted
<1> DEFINE L == Len(b)
           new == <<0, G>>
           b1 == BufferInsert(b, 2 * N + 3, new)
<1>7. /\ b \in Cells /\ ss \in Seq(SuperRec) /\ L \in Nat /\ 2 * N + 4 <= L
      /\ b[3] = N /\ \A n \in 1 .. N : b[2 * n + 2] = 0 /\ b[2 * n + 3] = gs[n]
  BY <1>1 DEF Layout, HoldsGDSs, Cells
<1>8. new \in Cells /\ Len(new) = 2 /\ new[1] = 0 /\ new[2] = G
  BY DEF Cells
<1>9. b2 = [b1 EXCEPT ![2 + 1] = (b1[2 + 1] + 1) % UShort2]
  BY <1>a, <1>1 DEF IncrShort, HEADLEN
<1> HIDE DEF L, new
<1>10. /\ b1 \in Cells /\ Len(b1) = L + 2
       /\ \A k \in 1 .. 2 * N + 3 : b1[k] = b[k]
       /\ \A k \in 1 .. 2 : b1[2 * N + 3 + k] = new[k]
       /\ \A k \in 2 * N + 4 .. L : b1[k + 2] = b[k]
  <2>1. 2 * N + 3 \in 0 .. Len(b) /\ (2 * N + 3) + 1 = 2 * N + 4
    BY <1>7 DEF L
  <2>2. /\ b1 \in Cells /\ Len(b1) = Len(b) + Len(new)
        /\ \A k \in 1 .. 2 * N + 3 : b1[k] = b[k]
        /\ \A k \in 1 .. Len(new) : b1[(2 * N + 3) + k] = new[k]
        /\ \A k \in (2 * N + 3) + 1 .. Len(b) : b1[k + Len(new)] = b[k]
    BY <1>7, <1>8, <2>1, InsertCells, ZenonT(40)
  <2>3. QED
    BY <1>8, <2>1, <2>2, Zenon DEF L
<1> HIDE DEF b1
<1>11. b1[3] = N /\ (b1[2 + 1] + 1) % UShort2 = N + 1
  <2>1. 3 \in 1 .. 2 * N + 3 /\ 2 + 1 = 3
    OBVIOUS
  <2>2. b1[3] = N
    BY <1>7, <1>10, <2>1
  <2>3. (N + 1) % UShort2 = N + 1
    BY <1>6, NoWrap
  <2>4. QED
    BY <2>1, <2>2, <2>3, Zenon
<1>12. /\ b2 \in Cells /\ Len(b2) = L + 2 /\ b2[3] = N + 1
       /\ \A k \in 1 .. L + 2 : k # 3 => b2[k] = b1[k]
  <2>1. 3 \in 1 .. Len(b1) /\ N + 1 \in Nat /\ 2 + 1 = 3
    BY <1>7, <1>10
  <2>2. b2 = Changed(b1, 3, N + 1)
    BY <1>9, <1>11, <2>1, Zenon DEF Changed
  <2>3. /\ b2 \in Cells /\ Len(b2) = Len(b1) /\ b2[3] = N + 1
        /\ \A k \in 1 .. Len(b1) : k # 3 => b2[k] = b1[k]
    <3>1. b1 \in Cells
      BY <1>10
    <3>2. /\ Changed(b1, 3, N + 1) \in Cells /\ Len(Changed(b1, 3, N + 1)) = Len(b1)
          /\ Changed(b1, 3, N + 1)[3] = N + 1
          /\ \A k \in 1 .. Len(b1) : k # 3 => Changed(b1, 3, N + 1)[k] = b1[k]
      BY <2>1, <3>1, PutCells
    <3>3. QED
      BY <2>2, <3>2, Zenon
  <2>4. QED
    BY <1>10, <2>1, <2>3
<1>13. /\ \A k \in 1 .. 2 * N + 3 : k # 3 => b2[k] = b[k]
       /\ b2[2 * N + 4] = 0 /\ b2[2 * N + 5] = G
       /\ \A k \in 2 * N + 4 .. L : b2[k + 2] = b[k]
  <2>1. ASSUME NEW k \in 1 .. 2 * N + 3, k # 3 PROVE b2[k] = b[k]
    <3>1. k \in 1 .. L + 2
      BY <1>7
    <3>2. QED
      BY <1>10, <1>12, <2>1, <3>1
  <2>2. b2[2 * N + 4] = 0 /\ b2[2 * N + 5] = G
    <3>1. /\ 2 * N + 4 \in 1 .. L + 2 /\ 2 * N + 5 \in 1 .. L + 2 /\ 1 \in 1 .. 2 /\ 2 \in 1 .. 2
          /\ 2 * N + 3 + 1 = 2 * N + 4 /\ 2 * N + 3 + 2 = 2 * N + 5
          /\ 2 * N + 4 # 3 /\ 2 * N + 5 # 3
      BY <1>7
    <3>2. b1[2 * N + 4] = new[1] /\ b1[2 * N + 5] = new[2]
      BY <1>10, <3>1
    <3>3. QED
      BY <1>8, <1>12, <3>1, <3>2
  <2>3. ASSUME NEW k \in 2 * N + 4 .. L PROVE b2[k + 2] = b[k]
    <3>1. k + 2 \in 1 .. L + 2 /\ k + 2 # 3
      BY <1>7
    <3>2. QED
      BY <1>10, <1>12, <3>1
  <2>4. QED
    BY <2>1, <2>2, <2>3
<1>14. HoldsGDSs(b2, hs)
  <2>1. \A n \in 1 .. N + 1 : b2[2 * n + 2] = 0 /\ b2[2 * n + 3] = hs[n]
    <3>1. TAKE n \in 1 .. N + 1
    <3>2. CASE n \in 1 .. N
      <4>1. 2 * n + 2 \in 1 .. 2 * N + 3 /\ 2 * n + 3 \in 1 .. 2 * N + 3 /\ 2 * n + 2 # 3 /\ 2 * n + 3 # 3
        BY <3>2
      <4>2. QED
        BY <1>2, <1>7, <1>13, <3>2, <4>1
    <3>3. CASE n = N + 1
      <4>1. 2 * n + 2 = 2 * N + 4 /\ 2 * n + 3 = 2 * N + 5
        BY <3>3
      <4>2. QED
        BY <1>2, <1>13, <3>3, <4>1
    <3>4. QED
      BY <1>3, <3>2, <3>3
  <2>2. 2 * (N + 1) + 4 <= L + 2
    BY <1>7
  <2>3. QED
    BY <1>2, <1>12, <2>1, <2>2 DEF HoldsGDSs
<1>15. b2[2 * (N + 1) + 4] = Len(ss)
  <2>1. b[2 * N + 4] = Len(ss)
    BY <1>1 DEF Layout
  <2>2. 2 * N + 4 \in 2 * N + 4 .. L /\ 2 * N + 4 + 2 = 2 * (N + 1) + 4
    BY <1>7
  <2>3. QED
    BY <1>13, <2>1, <2>2
<1>16. \E R : Offsets(SupersFrom(hs), Len(b2), Len(ss), R) /\ HoldsSupers(b2, ss, R)
  <2>1. PICK P : Offsets(2 * N + 4, L, Len(ss), P) /\ HoldsSupers(b, ss, P)
    BY <1>1 DEF Layout, SupersFrom, L
  <2>2. PICK a \in Nat : a = 2 * N + 4
    OBVIOUS
  <2>3. a + 2 = SupersFrom(hs) /\ L + 2 = Len(b2) /\ L + 2 <= Len(b2)
    <3>1. a + 2 = 2 * (N + 1) + 4
      BY <2>2
    <3>2. QED
      BY <1>2, <1>7, <1>12, <3>1 DEF SupersFrom
  <2>4. Moved(b, b2, a, L, 2)
    <3>1. \A k \in a + 1 .. L : k \in 2 * N + 4 .. L
      BY <1>7, <2>2
    <3>2. QED
      BY <1>13, <3>1 DEF Moved
  <2>5. \E R : Offsets(a + 2, L + 2, Len(ss), R) /\ HoldsSupers(b2, ss, R)
    BY <1>7, <2>1, <2>2, <2>3, <2>4, SupersMove
  <2>6. QED
    BY <2>3, <2>5, Zenon
<1>17. Layout(b2, hs, ss)
  BY <1>2, <1>5, <1>7, <1>12, <1>14, <1>15, <1>16 DEF Layout
<1>18. QED
  BY <1>a, <1>5, <1>17, Zenon

LEMMA GridTypes ==
    ASSUME NEW g \in Grids
    PROVE  /\ g.gds \in Nat /\ g.element \in Nat /\ g.refTime \in Nat /\ g.validTime \in Nat
           /\ g.tag \in Seq(Nat) /\ g.place \in Seq(Nat)
  BY GridsAssumption

LEMMA InsertsGDS ==
    ASSUME NEW b, NEW gs, NEW ss, Layout(b, gs, ss), Good(gs, ss), CountsFit, NEW g \in Grids
    PROVE  \E hs : /\ Layout(InsertGDS(b, g.gds).buf, hs, ss) /\ Good(hs, ss)
                   /\ InsertGDS(b, g.gds).gdsNum \in 1 .. Len(hs)
                   /\ hs[InsertGDS(b, g.gds).gdsNum] = g.gds
                   /\ \A n \in 1 .. Len(gs) : hs[n] = gs[n] /\ n \in 1 .. Len(hs)
<1> DEFINE same == {n \in 1 .. NumGDS(b) : GDSAt(b, n) = WriteGDS(g.gds)}
           end == HEADLEN + 1 + GDSLEN * NumGDS(b)
           grown == IncrShort(BufferInsert(b, end, WriteGDS(g.gds)), HEADLEN)
           r == InsertGDS(b, g.gds)
<1>1. /\ NumGDS(b) = Len(gs) /\ Len(gs) \in Nat
      /\ \A n \in 1 .. Len(gs) : GDSAt(b, n) = <<0, gs[n]>>
  BY ReadsGDSs
<1>2. \A n : n \in same <=> n \in 1 .. Len(gs) /\ gs[n] = g.gds
  BY <1>1 DEF WriteGDS
<1>3. r = IF same # {}
          THEN [gdsNum |-> First(same), buf |-> b]
          ELSE [gdsNum |-> NumGDS(grown), buf |-> grown]
  BY Zenon DEF InsertGDS, First
<1>4. end = 2 * Len(gs) + 3 /\ WriteGDS(g.gds) = <<0, g.gds>>
  BY <1>1 DEF HEADLEN, GDSLEN, WriteGDS
<1>5. CASE same # {}
  <2>1. same \subseteq Nat
    BY <1>2
  <2> HIDE DEF same, r
  <2>2. First(same) \in same
    BY <1>5, <2>1, FirstIs
  <2>3. r.gdsNum = First(same) /\ r.buf = b
    BY <1>3, <1>5
  <2>4. r.gdsNum \in 1 .. Len(gs) /\ gs[r.gdsNum] = g.gds
    BY <1>2, <2>2, <2>3, Zenon
  <2>5. Layout(r.buf, gs, ss)
    BY <2>3, Zenon
  <2>6. QED
    BY <2>4, <2>5, Zenon DEF r
<1>6. CASE same = {}
  <2>1. \A n \in 1 .. Len(gs) : gs[n] # g.gds
    BY <1>2, <1>6
  <2>2. grown = IncrShort(BufferInsert(b, 2 * Len(gs) + 3, <<0, g.gds>>), HEADLEN)
    BY <1>4, Zenon
  <2> HIDE DEF same, r, grown
  <2>3. PICK hs : hs = Append(gs, g.gds)
    OBVIOUS
  <2>4. g.gds \in Nat
    BY GridTypes
  <2>5. Layout(grown, hs, ss) /\ Good(hs, ss)
    <3>1. \A n \in 1 .. Len(gs) : gs[n] # g.gds
      BY <2>1
    <3>2. /\ Layout(IncrShort(BufferInsert(b, 2 * Len(gs) + 3, <<0, g.gds>>), HEADLEN),
                    Append(gs, g.gds), ss)
          /\ Good(Append(gs, g.gds), ss)
      BY <2>4, <3>1, AddsGDS
    <3>3. QED
      BY <2>2, <2>3, <3>2, Zenon
  <2>6. NumGDS(grown) = Len(hs)
    BY <2>5, ReadsGDSs, Zenon
  <2>7. r.gdsNum = Len(hs) /\ r.buf = grown
    BY <1>3, <1>6, <2>6
  <2>8. gs \in Seq(Nat)
    BY DEF Layout
  <2>9. /\ Len(hs) = Len(gs) + 1 /\ hs[Len(gs) + 1] = g.gds
        /\ \A n \in 1 .. Len(gs) : hs[n] = gs[n]
    BY <2>3, <2>4, <2>8, AppendProperties
  <2>10. Len(hs) \in 1 .. Len(hs) /\ \A n \in 1 .. Len(gs) : n \in 1 .. Len(hs)
    BY <1>1, <2>9
  <2>11. QED
    BY <2>5, <2>7, <2>9, <2>10, Zenon DEF r
<1>7. QED
  BY <1>5, <1>6

(***************************************************************************)
(* Sequences and offsets that were changed.                                *)
(***************************************************************************)

Inserted(q, i, x) ==
    [k \in 1 .. Len(q) + 1 |-> IF k < i THEN q[k] ELSE IF k = i THEN x ELSE q[k - 1]]

(* What the new sequence q2, or the new offsets R, have to do with the old. *)
ExtendsAt(q2, q, n, i, x) ==
    /\ Len(q2) = n + 1 /\ q2[i] = x
    /\ \A k \in 1 .. i - 1 : q2[k] = q[k]
    /\ \A k \in i + 1 .. n + 1 : q2[k] = q[k - 1]
ReplacesAt(q2, q, n, i, x) ==
    /\ Len(q2) = n /\ q2[i] = x
    /\ \A k \in 1 .. n : k # i => q2[k] = q[k]
WidensAt(R, Q, n, i, w) ==
    /\ \A k \in 1 .. i : R[k] = Q[k]
    /\ \A k \in i + 1 .. n + 2 : R[k] = Q[k - 1] + w
ResizesAt(R, Q, n, i, d) ==
    /\ \A k \in 1 .. i : R[k] = Q[k]
    /\ \A k \in i + 1 .. n + 1 : R[k] = Q[k] + d

LEMMA InsertedSeq ==
    ASSUME NEW S, NEW q \in Seq(S), NEW i \in 1 .. Len(q) + 1, NEW x \in S
    PROVE  Inserted(q, i, x) \in Seq(S) /\ ExtendsAt(Inserted(q, i, x), q, Len(q), i, x)
<1>1. PICK n \in Nat : n = Len(q) /\ \A k \in 1 .. n : q[k] \in S
  OBVIOUS
<1>2. PICK f : f = [k \in 1 .. n + 1 |-> IF k < i THEN q[k] ELSE IF k = i THEN x ELSE q[k - 1]]
  OBVIOUS
<1>3. \A k \in 1 .. n + 1 : (IF k < i THEN q[k] ELSE IF k = i THEN x ELSE q[k - 1]) \in S
  BY <1>1
<1>4. f \in [1 .. n + 1 -> S]
  BY <1>2, <1>3
<1>5. f \in Seq(S) /\ Len(f) = n + 1
  BY <1>4
<1>6. /\ \A k \in 1 .. i - 1 : f[k] = q[k]
      /\ f[i] = x
      /\ \A k \in i + 1 .. n + 1 : f[k] = q[k - 1]
  BY <1>1, <1>2
<1>7. f = Inserted(q, i, x)
  BY <1>1, <1>2, Zenon DEF Inserted
<1>8. QED
  BY <1>1, <1>5, <1>6, <1>7, Zenon DEF ExtendsAt

LEMMA ChangedSeq ==
    ASSUME NEW S, NEW q \in Seq(S), NEW i \in 1 .. Len(q), NEW x \in S
    PROVE  Changed(q, i, x) \in Seq(S) /\ ReplacesAt(Changed(q, i, x), q, Len(q), i, x)
<1>1. Len(q) \in Nat /\ q \in [1 .. Len(q) -> S] /\ DOMAIN q = 1 .. Len(q)
  OBVIOUS
<1> DEFINE f == Changed(q, i, x)
<1>2. f \in [1 .. Len(q) -> S] /\ f[i] = x /\ \A k \in 1 .. Len(q) : k # i => f[k] = q[k]
  BY <1>1 DEF Changed
<1> HIDE DEF f
<1>3. f \in Seq(S) /\ Len(f) = Len(q)
  BY <1>1, <1>2
<1>4. QED
  BY <1>2, <1>3, Zenon DEF f, ReplacesAt

LEMMA OffsetsInserted ==
    ASSUME NEW o \in Nat, NEW e \in Nat, NEW n \in Nat, NEW Q, Offsets(o, e, n, Q),
           NEW i \in 1 .. n + 1, NEW w \in Nat
    PROVE  \E R : Offsets(o, e + w, n + 1, R) /\ WidensAt(R, Q, n, i, w)
<1>1. /\ \A j \in 1 .. n + 1 : Q[j] \in Nat /\ o <= Q[j] /\ Q[j] <= e
      /\ Q[1] = o /\ Q[n + 1] = e /\ \A k, j \in 1 .. n + 1 : k <= j => Q[k] <= Q[j]
  BY OffsetsWithin DEF Offsets
<1> DEFINE R == [k \in 1 .. n + 2 |-> IF k <= i THEN Q[k] ELSE Q[k - 1] + w]
<1>2. /\ \A k \in 1 .. i : R[k] = Q[k]
      /\ \A k \in i + 1 .. n + 2 : R[k] = Q[k - 1] + w
  OBVIOUS
<1>3. R \in [1 .. n + 2 -> Nat]
  <2>1. \A k \in 1 .. n + 2 : (IF k <= i THEN Q[k] ELSE Q[k - 1] + w) \in Nat
    <3>1. TAKE k \in 1 .. n + 2
    <3>2. CASE k <= i
      BY <1>1, <3>2
    <3>3. CASE ~(k <= i)
      <4>1. k - 1 \in 1 .. n + 1
        BY <3>3
      <4>2. QED
        BY <1>1, <3>3, <4>1
    <3>4. QED
      BY <3>2, <3>3
  <2>2. QED
    BY <2>1
<1> HIDE DEF R
<1>4. R[1] = o /\ R[n + 2] = e + w
  <2>1. 1 \in 1 .. i /\ n + 2 \in i + 1 .. n + 2 /\ (n + 2) - 1 = n + 1
    OBVIOUS
  <2>2. QED
    BY <1>1, <1>2, <2>1
<1>5. ASSUME NEW k \in 1 .. n + 2, NEW j \in 1 .. n + 2, k <= j PROVE R[k] <= R[j]
  <2>1. CASE j <= i
    BY <1>1, <1>2, <1>5, <2>1
  <2>2. CASE ~(j <= i) /\ k <= i
    <3>1. j - 1 \in 1 .. n + 1 /\ k \in 1 .. n + 1 /\ k <= j - 1 /\ j \in i + 1 .. n + 2 /\ k \in 1 .. i
      BY <2>2
    <3>2. PICK x \in Nat, y \in Nat : x = Q[k] /\ y = Q[j - 1] /\ x <= y
      BY <1>1, <3>1
    <3>3. R[k] = x /\ R[j] = y + w
      BY <1>2, <3>1, <3>2
    <3>4. QED
      BY <3>2, <3>3
  <2>3. CASE ~(j <= i) /\ ~(k <= i)
    <3>1. /\ j - 1 \in 1 .. n + 1 /\ k - 1 \in 1 .. n + 1 /\ k - 1 <= j - 1
          /\ j \in i + 1 .. n + 2 /\ k \in i + 1 .. n + 2
      BY <1>5, <2>3
    <3>2. PICK x \in Nat, y \in Nat : x = Q[k - 1] /\ y = Q[j - 1] /\ x <= y
      BY <1>1, <3>1
    <3>3. R[k] = x + w /\ R[j] = y + w
      BY <1>2, <3>1, <3>2
    <3>4. QED
      BY <3>2, <3>3
  <2>4. QED
    BY <2>1, <2>2, <2>3
<1>6. Offsets(o, e + w, n + 1, R)
  <2>1. (n + 1) + 1 = n + 2
    OBVIOUS
  <2>2. QED
    BY <1>3, <1>4, <1>5, <2>1 DEF Offsets
<1>7. QED
  BY <1>2, <1>6, Zenon DEF WidensAt

LEMMA OffsetsChanged ==
    ASSUME NEW o \in Nat, NEW e \in Nat, NEW n \in Nat, NEW Q, Offsets(o, e, n, Q),
           NEW i \in 1 .. n, NEW d \in Int, Q[i] <= Q[i + 1] + d
    PROVE  \E R : Offsets(o, e + d, n, R) /\ ResizesAt(R, Q, n, i, d)
<1>1. /\ \A j \in 1 .. n + 1 : Q[j] \in Nat /\ o <= Q[j] /\ Q[j] <= e
      /\ Q[1] = o /\ Q[n + 1] = e /\ \A k, j \in 1 .. n + 1 : k <= j => Q[k] <= Q[j]
  BY OffsetsWithin DEF Offsets
<1> DEFINE R == [k \in 1 .. n + 1 |-> IF k <= i THEN Q[k] ELSE Q[k] + d]
<1>2. /\ \A k \in 1 .. i : R[k] = Q[k]
      /\ \A k \in i + 1 .. n + 1 : R[k] = Q[k] + d
  OBVIOUS
<1>3. PICK u \in Nat, v \in Nat : u = Q[i] /\ v = Q[i + 1] /\ u <= v + d
  BY <1>1
<1>4. \A k \in i + 1 .. n + 1 : Q[k] \in Nat /\ v <= Q[k]
  BY <1>1, <1>3
<1>5. R \in [1 .. n + 1 -> Nat]
  <2>1. \A k \in 1 .. n + 1 : (IF k <= i THEN Q[k] ELSE Q[k] + d) \in Nat
    <3>1. TAKE k \in 1 .. n + 1
    <3>2. CASE k <= i
      BY <1>1, <3>2
    <3>3. CASE ~(k <= i)
      <4>1. PICK x \in Nat : x = Q[k] /\ v <= x
        BY <1>4, <3>3
      <4>2. x + d \in Nat
        BY <1>3, <4>1
      <4>3. QED
        BY <3>3, <4>1, <4>2
    <3>4. QED
      BY <3>2, <3>3
  <2>2. QED
    BY <2>1
<1> HIDE DEF R
<1>6. R[1] = o /\ R[n + 1] = e + d
  <2>1. 1 \in 1 .. i /\ n + 1 \in i + 1 .. n + 1
    OBVIOUS
  <2>2. QED
    BY <1>1, <1>2, <2>1
<1>7. ASSUME NEW k \in 1 .. n + 1, NEW j \in 1 .. n + 1, k <= j PROVE R[k] <= R[j]
  <2>0. PICK x \in Nat, y \in Nat : x = Q[k] /\ y = Q[j] /\ x <= y
    BY <1>1, <1>7
  <2>1. CASE j <= i
    BY <1>2, <1>7, <2>0, <2>1
  <2>2. CASE ~(j <= i) /\ k <= i
    <3>1. x <= u
      BY <1>1, <1>3, <2>0, <2>2
    <3>2. v <= y
      BY <1>4, <2>0, <2>2
    <3>3. R[k] = x /\ R[j] = y + d
      BY <1>2, <2>0, <2>2
    <3>4. QED
      BY <1>3, <3>1, <3>2, <3>3
  <2>3. CASE ~(j <= i) /\ ~(k <= i)
    <3>1. R[k] = x + d /\ R[j] = y + d
      BY <1>2, <2>0, <2>3
    <3>2. QED
      BY <2>0, <3>1
  <2>4. QED
    BY <2>1, <2>2, <2>3
<1>8. Offsets(o, e + d, n, R)
  BY <1>5, <1>6, <1>7 DEF Offsets
<1>9. QED
  BY <1>2, <1>8, Zenon DEF ResizesAt

(* A PDS comes into an array, or takes the place of one.                   *)
Same(b, b2, o, e) == \A k \in o + 1 .. e : b2[k] = b[k]

LEMMA MovedPart ==
    ASSUME NEW b, NEW b2, NEW o \in Nat, NEW e \in Nat, NEW d \in Int, Moved(b, b2, o, e, d),
           NEW y \in Nat, NEW z \in Nat, o <= y, z <= e
    PROVE  Moved(b, b2, y, z, d)
  BY DEF Moved

LEMMA SamePart ==
    ASSUME NEW b, NEW b2, NEW o \in Nat, NEW e \in Nat, Same(b, b2, o, e),
           NEW y \in Nat, NEW z \in Nat, o <= y, z <= e
    PROVE  Same(b, b2, y, z)
  BY DEF Same

LEMMA PDSStays ==
    ASSUME NEW b, NEW b2, NEW o \in Nat, NEW e \in Nat, NEW p \in PdsRec,
           e <= Len(b2), HoldsPDS(b, o, e, p), Same(b, b2, o, e)
    PROVE  HoldsPDS(b2, o, e, p)
<1>1. PICK d \in Int : d = 0
  OBVIOUS
<1>2. o + d = o /\ e + d = e /\ Moved(b, b2, o, e, d)
  BY <1>1 DEF Same, Moved
<1>3. o + d \in Nat /\ e + d <= Len(b2)
  BY <1>2
<1>4. HoldsPDS(b2, o + d, e + d, p)
  BY <1>2, <1>3, PDSMoves
<1>5. QED
  BY <1>2, <1>4, Zenon

LEMMA SuperStays ==
    ASSUME NEW b, NEW b2, NEW o \in Nat, NEW e \in Nat, NEW s \in SuperRec,
           e <= Len(b2), HoldsSuper(b, o, e, s), Same(b, b2, o, e)
    PROVE  HoldsSuper(b2, o, e, s)
<1>1. PICK d \in Int : d = 0
  OBVIOUS
<1>2. o + d = o /\ e + d = e /\ Moved(b, b2, o, e, d)
  BY <1>1 DEF Same, Moved
<1>3. o + d \in Nat /\ e + d <= Len(b2)
  BY <1>2
<1>4. HoldsSuper(b2, o + d, e + d, s)
  BY <1>2, <1>3, SuperMoves
<1>5. QED
  BY <1>2, <1>4, Zenon

IsAt(q, n, Q, i, x) == Len(q) = n /\ Q[i] = x

Shifts(b, b2, o, x, y, e, d) ==
    /\ Same(b, b2, o, x) /\ Moved(b, b2, y, e, d)
    /\ Len(b2) \in Nat /\ e + d <= Len(b2)

LEMMA ArrayInserted ==
    ASSUME NEW b, NEW b2, NEW o \in Nat, NEW e \in Nat, NEW n \in Nat, NEW i \in 1 .. n + 1,
           NEW w \in Nat, NEW x \in Nat, NEW ps \in Seq(PdsRec), NEW p \in PdsRec, NEW Q,
           Offsets(o, e, n, Q), HoldsArray(b, ps, Q), IsAt(ps, n, Q, i, x),
           HoldsPDS(b2, x, x + w, p), Shifts(b, b2, o, x, x, e, w)
    PROVE  \E R : Offsets(o, e + w, n + 1, R) /\ HoldsArray(b2, Inserted(ps, i, p), R)
<1>0. Q[i] = x
  BY DEF IsAt
<1>1. n = Len(ps) /\ \A k \in 1 .. n : ps[k] \in PdsRec
  BY DEF IsAt
<1>1a. /\ Len(b2) \in Nat /\ e + w <= Len(b2)
       /\ Same(b, b2, o, x) /\ Moved(b, b2, x, e, w)
  BY Zenon DEF Shifts
<1>2. PICK R : Offsets(o, e + w, n + 1, R) /\ WidensAt(R, Q, n, i, w)
  BY OffsetsInserted
<1>2a. /\ \A k \in 1 .. i : R[k] = Q[k]
       /\ \A k \in i + 1 .. n + 2 : R[k] = Q[k - 1] + w
  BY <1>2, Zenon DEF WidensAt
<1>3. PICK q : q = Inserted(ps, i, p) /\ q \in Seq(PdsRec) /\ ExtendsAt(q, ps, n, i, p)
  BY <1>1, InsertedSeq
<1>3a. /\ Len(q) = n + 1 /\ q[i] = p
       /\ \A k \in 1 .. i - 1 : q[k] = ps[k]
       /\ \A k \in i + 1 .. n + 1 : q[k] = ps[k - 1]
  BY <1>3, Zenon DEF ExtendsAt
<1>4. /\ \A k \in 1 .. n + 1 : Q[k] \in Nat /\ o <= Q[k] /\ Q[k] <= e
      /\ \A k, j \in 1 .. n + 1 : k <= j => Q[k] <= Q[j]
  BY OffsetsWithin DEF Offsets
<1>5. \A k \in 1 .. n : HoldsPDS(b, Q[k], Q[k + 1], ps[k])
  BY <1>1 DEF HoldsArray
<1>6. ASSUME NEW k \in 1 .. n + 1 PROVE HoldsPDS(b2, R[k], R[k + 1], q[k])
  <2>1. CASE k < i
    <3>1. k \in 1 .. n /\ k \in 1 .. i /\ k + 1 \in 1 .. i /\ k \in 1 .. i - 1 /\ k + 1 \in 1 .. n + 1 /\ k + 1 <= i /\ k \in 1 .. n + 1
      BY <1>1, <2>1
    <3>2. PICK y \in Nat, z \in Nat : y = Q[k] /\ z = Q[k + 1] /\ o <= y /\ z <= x
      BY <1>0, <1>1, <1>4, <3>1
    <3>3. z <= Len(b2)
      <4>1. PICK l \in Nat : l = Len(b2) /\ e + w <= l
        BY <1>1a
      <4>2. x <= e
        BY <1>0, <1>4
      <4>3. QED
        BY <3>2, <4>1, <4>2
    <3>4. Same(b, b2, y, z)
      BY <1>1a, <3>2, SamePart
    <3>5. ps[k] \in PdsRec /\ HoldsPDS(b, y, z, ps[k])
      BY <1>1, <1>5, <3>1, <3>2
    <3>6. HoldsPDS(b2, y, z, ps[k])
      BY <3>3, <3>4, <3>5, PDSStays
    <3>7. R[k] = y /\ R[k + 1] = z /\ q[k] = ps[k]
      BY <1>2a, <1>3a, <3>1, <3>2
    <3>8. QED
      BY <3>5, <3>6, <3>7
  <2>2. CASE k = i
    <3>1. R[i] = x /\ R[i + 1] = x + w
      <4>1. i \in 1 .. i /\ i + 1 \in i + 1 .. n + 2 /\ (i + 1) - 1 = i
        BY <1>1
      <4>2. QED
        BY <1>0, <1>2a, <4>1
    <3>2. QED
      BY <1>3a, <2>2, <3>1
  <2>3. CASE k > i
    <3>1. /\ k - 1 \in 1 .. n /\ (k - 1) + 1 = k /\ k \in i + 1 .. n + 2 /\ k + 1 \in i + 1 .. n + 2
          /\ (k + 1) - 1 = k /\ i <= k - 1 /\ k - 1 \in 1 .. n + 1 /\ k \in i + 1 .. n + 1
      BY <1>1, <2>3
    <3>2. PICK y \in Nat, z \in Nat : y = Q[k - 1] /\ z = Q[k] /\ x <= y /\ z <= e
      BY <1>0, <1>1, <1>4, <3>1
    <3>3. z + w <= Len(b2)
      <4>1. PICK l \in Nat : l = Len(b2) /\ e + w <= l
        BY <1>1a
      <4>2. QED
        BY <3>2, <4>1
    <3>4. Moved(b, b2, y, z, w)
      BY <1>1a, <3>2, MovedPart
    <3>5. ps[k - 1] \in PdsRec /\ HoldsPDS(b, y, z, ps[k - 1]) /\ y + w \in Nat
      <4>1. y + w \in Nat
        OBVIOUS
      <4>2. QED
        BY <1>1, <1>5, <3>1, <3>2, <4>1, Zenon
    <3>6. HoldsPDS(b2, y + w, z + w, ps[k - 1])
      <4>1. PICK r \in PdsRec, d \in Int : r = ps[k - 1] /\ d = w
        BY <3>5
      <4>2. HoldsPDS(b, y, z, r) /\ Moved(b, b2, y, z, d) /\ y + d \in Nat /\ z + d <= Len(b2)
        BY <3>3, <3>4, <3>5, <4>1, Zenon
      <4>3. HoldsPDS(b2, y + d, z + d, r)
        BY <4>2, PDSMoves
      <4>4. QED
        BY <4>1, <4>3, Zenon
    <3>7. R[k] = y + w /\ R[k + 1] = z + w /\ q[k] = ps[k - 1]
      BY <1>2a, <1>3a, <3>1, <3>2
    <3>8. QED
      BY <3>6, <3>7
  <2>4. QED
    BY <2>1, <2>2, <2>3
<1>7. HoldsArray(b2, q, R)
  BY <1>3a, <1>6 DEF HoldsArray
<1>8. QED
  BY <1>1, <1>2, <1>3, <1>7, Zenon

LEMMA ArrayChanged ==
    ASSUME NEW b, NEW b2, NEW o \in Nat, NEW e \in Nat, NEW n \in Nat, NEW i \in 1 .. n,
           NEW d \in Int, NEW x \in Nat, NEW y \in Nat, NEW ps \in Seq(PdsRec),
           NEW p \in PdsRec, NEW Q, Offsets(o, e, n, Q), HoldsArray(b, ps, Q),
           IsAt(ps, n, Q, i, x), IsAt(ps, n, Q, i + 1, y),
           HoldsPDS(b2, x, y + d, p), Shifts(b, b2, o, x, y, e, d)
    PROVE  \E R : Offsets(o, e + d, n, R) /\ HoldsArray(b2, Changed(ps, i, p), R)
<1>a. Q[i] = x /\ Q[i + 1] = y
  BY DEF IsAt
<1>1. n = Len(ps) /\ \A k \in 1 .. n : ps[k] \in PdsRec
  BY DEF IsAt
<1>1a. /\ Len(b2) \in Nat /\ e + d <= Len(b2)
       /\ Same(b, b2, o, x) /\ Moved(b, b2, y, e, d)
  BY Zenon DEF Shifts
<1>0. x <= y + d
  <2>1. PICK l \in Nat : l = Len(p.place)
    BY PdsTypes
  <2>2. y + d = x + 3 + l
    BY <2>1 DEF HoldsPDS
  <2>3. QED
    BY <2>2
<1>2. PICK R : Offsets(o, e + d, n, R) /\ ResizesAt(R, Q, n, i, d)
  BY <1>0, <1>a, OffsetsChanged
<1>2a. /\ \A k \in 1 .. i : R[k] = Q[k]
       /\ \A k \in i + 1 .. n + 1 : R[k] = Q[k] + d
  BY <1>2, Zenon DEF ResizesAt
<1>3. PICK q : q = Changed(ps, i, p) /\ q \in Seq(PdsRec) /\ ReplacesAt(q, ps, n, i, p)
  BY <1>1, ChangedSeq
<1>3a. /\ Len(q) = n /\ q[i] = p
       /\ \A k \in 1 .. n : k # i => q[k] = ps[k]
  BY <1>3, Zenon DEF ReplacesAt
<1>4. /\ \A k \in 1 .. n + 1 : Q[k] \in Nat /\ o <= Q[k] /\ Q[k] <= e
      /\ \A k, j \in 1 .. n + 1 : k <= j => Q[k] <= Q[j]
  BY OffsetsWithin, SMTT(20) DEF Offsets
<1>5. \A k \in 1 .. n : HoldsPDS(b, Q[k], Q[k + 1], ps[k])
  BY <1>1 DEF HoldsArray
<1>6. ASSUME NEW k \in 1 .. n PROVE HoldsPDS(b2, R[k], R[k + 1], q[k])
  <2>1. CASE k < i
    <3>1. k \in 1 .. i /\ k + 1 \in 1 .. i /\ k \in 1 .. n + 1 /\ k + 1 \in 1 .. n + 1 /\ i \in 1 .. n + 1 /\ k + 1 <= i
      BY <1>1, <2>1
    <3>2. PICK u \in Nat, z \in Nat : u = Q[k] /\ z = Q[k + 1] /\ o <= u /\ z <= x
      BY <1>a, <1>1, <1>4, <3>1
    <3>3. z <= Len(b2)
      <4>1. PICK l \in Nat : l = Len(b2) /\ e + d <= l
        BY <1>1a
      <4>2. y <= e
        BY <1>a, <1>4
      <4>3. QED
        BY <1>0, <3>2, <4>1, <4>2
    <3>4. Same(b, b2, u, z)
      BY <1>1a, <3>2, SamePart
    <3>5. ps[k] \in PdsRec /\ HoldsPDS(b, u, z, ps[k])
      BY <1>1, <1>5, <3>1, <3>2
    <3>6. HoldsPDS(b2, u, z, ps[k])
      BY <3>3, <3>4, <3>5, PDSStays
    <3>7. R[k] = u /\ R[k + 1] = z /\ q[k] = ps[k]
      BY <1>2a, <1>3a, <2>1, <3>1, <3>2
    <3>8. QED
      BY <3>5, <3>6, <3>7
  <2>2. CASE k = i
    <3>1. R[i] = x /\ R[i + 1] = y + d
      <4>1. i \in 1 .. i /\ i + 1 \in i + 1 .. n + 1
        BY <1>1
      <4>2. QED
        BY <1>a, <1>2a, <4>1
    <3>2. QED
      BY <1>3a, <2>2, <3>1
  <2>3. CASE k > i
    <3>1. /\ k \in i + 1 .. n + 1 /\ k + 1 \in i + 1 .. n + 1 /\ i + 1 \in 1 .. n + 1 /\ i + 1 <= k
          /\ k \in 1 .. n + 1 /\ k + 1 \in 1 .. n + 1
      BY <1>1, <2>3
    <3>2. PICK u \in Nat, z \in Nat : u = Q[k] /\ z = Q[k + 1] /\ y <= u /\ z <= e
      BY <1>a, <1>1, <1>4, <3>1
    <3>3. z + d <= Len(b2)
      <4>1. PICK l \in Nat : l = Len(b2) /\ e + d <= l
        BY <1>1a
      <4>2. QED
        BY <3>2, <4>1, SMTT(20)
    <3>4. Moved(b, b2, u, z, d)
      BY <1>1a, <3>2, MovedPart
    <3>5. ps[k] \in PdsRec /\ HoldsPDS(b, u, z, ps[k]) /\ u + d \in Nat
      <4>1. ps[k] \in PdsRec
        BY <1>1, <3>1, Zenon
      <4>2. HoldsPDS(b, u, z, ps[k])
        BY <1>5, <3>1, <3>2, Zenon
      <4>3. y <= u
        BY <3>2, Zenon
      <4>4. u + d \in Nat
        BY <1>0, <4>3
      <4>5. QED
        BY <4>1, <4>2, <4>4
    <3>6. HoldsPDS(b2, u + d, z + d, ps[k])
      BY <3>3, <3>4, <3>5, PDSMoves
    <3>7. R[k] = u + d /\ R[k + 1] = z + d /\ q[k] = ps[k]
      BY <1>2a, <1>3a, <2>3, <3>1, <3>2
    <3>8. QED
      BY <3>6, <3>7
  <2>4. QED
    BY <2>1, <2>2, <2>3
<1>7. HoldsArray(b2, q, R)
  BY <1>3a, <1>6 DEF HoldsArray
<1>8. QED
  BY <1>1, <1>2, <1>3, <1>7, Zenon

(* So it is with a super header.                                           *)
LEMMA SupersInserted ==
    ASSUME NEW b, NEW b2, NEW o \in Nat, NEW e \in Nat, NEW n \in Nat, NEW i \in 1 .. n + 1,
           NEW w \in Nat, NEW x \in Nat, NEW ss \in Seq(SuperRec), NEW s \in SuperRec, NEW Q,
           Offsets(o, e, n, Q), HoldsSupers(b, ss, Q), IsAt(ss, n, Q, i, x),
           HoldsSuper(b2, x, x + w, s), Shifts(b, b2, o, x, x, e, w)
    PROVE  \E R : Offsets(o, e + w, n + 1, R) /\ HoldsSupers(b2, Inserted(ss, i, s), R)
<1>0. Q[i] = x
  BY DEF IsAt
<1>1. n = Len(ss) /\ \A k \in 1 .. n : ss[k] \in SuperRec
  BY DEF IsAt
<1>1a. /\ Len(b2) \in Nat /\ e + w <= Len(b2)
       /\ Same(b, b2, o, x) /\ Moved(b, b2, x, e, w)
  BY Zenon DEF Shifts
<1>2. PICK R : Offsets(o, e + w, n + 1, R) /\ WidensAt(R, Q, n, i, w)
  BY OffsetsInserted
<1>2a. /\ \A k \in 1 .. i : R[k] = Q[k]
       /\ \A k \in i + 1 .. n + 2 : R[k] = Q[k - 1] + w
  BY <1>2, Zenon DEF WidensAt
<1>3. PICK q : q = Inserted(ss, i, s) /\ q \in Seq(SuperRec) /\ ExtendsAt(q, ss, n, i, s)
  BY <1>1, InsertedSeq
<1>3a. /\ Len(q) = n + 1 /\ q[i] = s
       /\ \A k \in 1 .. i - 1 : q[k] = ss[k]
       /\ \A k \in i + 1 .. n + 1 : q[k] = ss[k - 1]
  BY <1>3, Zenon DEF ExtendsAt
<1>4. /\ \A k \in 1 .. n + 1 : Q[k] \in Nat /\ o <= Q[k] /\ Q[k] <= e
      /\ \A k, j \in 1 .. n + 1 : k <= j => Q[k] <= Q[j]
  BY OffsetsWithin DEF Offsets
<1>5. \A k \in 1 .. n : HoldsSuper(b, Q[k], Q[k + 1], ss[k])
  BY <1>1 DEF HoldsSupers
<1>6. ASSUME NEW k \in 1 .. n + 1 PROVE HoldsSuper(b2, R[k], R[k + 1], q[k])
  <2>1. CASE k < i
    <3>1. k \in 1 .. n /\ k \in 1 .. i /\ k + 1 \in 1 .. i /\ k \in 1 .. i - 1 /\ k + 1 \in 1 .. n + 1 /\ k + 1 <= i /\ k \in 1 .. n + 1
      BY <1>1, <2>1
    <3>2. PICK y \in Nat, z \in Nat : y = Q[k] /\ z = Q[k + 1] /\ o <= y /\ z <= x
      BY <1>0, <1>1, <1>4, <3>1
    <3>3. z <= Len(b2)
      <4>1. PICK l \in Nat : l = Len(b2) /\ e + w <= l
        BY <1>1a
      <4>2. x <= e
        BY <1>0, <1>4
      <4>3. QED
        BY <3>2, <4>1, <4>2
    <3>4. Same(b, b2, y, z)
      BY <1>1a, <3>2, SamePart
    <3>5. ss[k] \in SuperRec /\ HoldsSuper(b, y, z, ss[k])
      BY <1>1, <1>5, <3>1, <3>2
    <3>6. HoldsSuper(b2, y, z, ss[k])
      BY <3>3, <3>4, <3>5, SuperStays
    <3>7. R[k] = y /\ R[k + 1] = z /\ q[k] = ss[k]
      BY <1>2a, <1>3a, <3>1, <3>2
    <3>8. QED
      BY <3>5, <3>6, <3>7
  <2>2. CASE k = i
    <3>1. R[i] = x /\ R[i + 1] = x + w
      <4>1. i \in 1 .. i /\ i + 1 \in i + 1 .. n + 2 /\ (i + 1) - 1 = i
        BY <1>1
      <4>2. QED
        BY <1>0, <1>2a, <4>1
    <3>2. QED
      BY <1>3a, <2>2, <3>1
  <2>3. CASE k > i
    <3>1. /\ k - 1 \in 1 .. n /\ (k - 1) + 1 = k /\ k \in i + 1 .. n + 2 /\ k + 1 \in i + 1 .. n + 2
          /\ (k + 1) - 1 = k /\ i <= k - 1 /\ k - 1 \in 1 .. n + 1 /\ k \in i + 1 .. n + 1
      BY <1>1, <2>3
    <3>2. PICK y \in Nat, z \in Nat : y = Q[k - 1] /\ z = Q[k] /\ x <= y /\ z <= e
      BY <1>0, <1>1, <1>4, <3>1
    <3>3. z + w <= Len(b2)
      <4>1. PICK l \in Nat : l = Len(b2) /\ e + w <= l
        BY <1>1a
      <4>2. QED
        BY <3>2, <4>1
    <3>4. Moved(b, b2, y, z, w)
      BY <1>1a, <3>2, MovedPart
    <3>5. ss[k - 1] \in SuperRec /\ HoldsSuper(b, y, z, ss[k - 1]) /\ y + w \in Nat
      <4>1. HoldsSuper(b, Q[k - 1], Q[(k - 1) + 1], ss[k - 1])
        BY <1>5, <3>1
      <4>2. ss[k - 1] \in SuperRec /\ y + w \in Nat
        BY <1>1, <3>1
      <4>3. QED
        BY <3>1, <3>2, <4>1, <4>2, Zenon
    <3>6. HoldsSuper(b2, y + w, z + w, ss[k - 1])
      <4>1. PICK r \in SuperRec, d \in Int : r = ss[k - 1] /\ d = w
        BY <3>5
      <4>2. HoldsSuper(b, y, z, r) /\ Moved(b, b2, y, z, d) /\ y + d \in Nat /\ z + d <= Len(b2)
        BY <3>3, <3>4, <3>5, <4>1, Zenon
      <4>3. HoldsSuper(b2, y + d, z + d, r)
        BY <4>2, SuperMoves
      <4>4. QED
        BY <4>1, <4>3, Zenon
    <3>7. R[k] = y + w /\ R[k + 1] = z + w /\ q[k] = ss[k - 1]
      BY <1>2a, <1>3a, <3>1, <3>2
    <3>8. QED
      BY <3>6, <3>7
  <2>4. QED
    BY <2>1, <2>2, <2>3
<1>7. HoldsSupers(b2, q, R)
  BY <1>3a, <1>6 DEF HoldsSupers
<1>8. QED
  BY <1>1, <1>2, <1>3, <1>7, Zenon

LEMMA SupersChanged ==
    ASSUME NEW b, NEW b2, NEW o \in Nat, NEW e \in Nat, NEW n \in Nat, NEW i \in 1 .. n,
           NEW d \in Int, NEW x \in Nat, NEW y \in Nat, NEW ss \in Seq(SuperRec),
           NEW s \in SuperRec, NEW Q, Offsets(o, e, n, Q), HoldsSupers(b, ss, Q),
           IsAt(ss, n, Q, i, x), IsAt(ss, n, Q, i + 1, y),
           HoldsSuper(b2, x, y + d, s), Shifts(b, b2, o, x, y, e, d)
    PROVE  \E R : Offsets(o, e + d, n, R) /\ HoldsSupers(b2, Changed(ss, i, s), R)
<1>a. Q[i] = x /\ Q[i + 1] = y
  BY DEF IsAt
<1>1. n = Len(ss) /\ \A k \in 1 .. n : ss[k] \in SuperRec
  BY DEF IsAt
<1>1a. /\ Len(b2) \in Nat /\ e + d <= Len(b2)
       /\ Same(b, b2, o, x) /\ Moved(b, b2, y, e, d)
  BY Zenon DEF Shifts
<1>0. x <= y + d
  <2>1. PICK l \in Nat : l = Len(s.tag)
    BY RecordTypes
  <2>2. x + 7 + l <= y + d
    BY <2>1 DEF HoldsSuper, ArrayFrom
  <2>3. QED
    BY <2>2
<1>2. PICK R : Offsets(o, e + d, n, R) /\ ResizesAt(R, Q, n, i, d)
  BY <1>0, <1>a, OffsetsChanged
<1>2a. /\ \A k \in 1 .. i : R[k] = Q[k]
       /\ \A k \in i + 1 .. n + 1 : R[k] = Q[k] + d
  BY <1>2, Zenon DEF ResizesAt
<1>3. PICK q : q = Changed(ss, i, s) /\ q \in Seq(SuperRec) /\ ReplacesAt(q, ss, n, i, s)
  BY <1>1, ChangedSeq
<1>3a. /\ Len(q) = n /\ q[i] = s
       /\ \A k \in 1 .. n : k # i => q[k] = ss[k]
  BY <1>3, Zenon DEF ReplacesAt
<1>4. /\ \A k \in 1 .. n + 1 : Q[k] \in Nat /\ o <= Q[k] /\ Q[k] <= e
      /\ \A k, j \in 1 .. n + 1 : k <= j => Q[k] <= Q[j]
  BY OffsetsWithin DEF Offsets
<1>5. \A k \in 1 .. n : HoldsSuper(b, Q[k], Q[k + 1], ss[k])
  BY <1>1 DEF HoldsSupers
<1>6. ASSUME NEW k \in 1 .. n PROVE HoldsSuper(b2, R[k], R[k + 1], q[k])
  <2>1. CASE k < i
    <3>1. k \in 1 .. i /\ k + 1 \in 1 .. i /\ k \in 1 .. n + 1 /\ k + 1 \in 1 .. n + 1 /\ i \in 1 .. n + 1 /\ k + 1 <= i
      BY <1>1, <2>1
    <3>2. PICK u \in Nat, z \in Nat : u = Q[k] /\ z = Q[k + 1] /\ o <= u /\ z <= x
      BY <1>a, <1>1, <1>4, <3>1
    <3>3. z <= Len(b2)
      <4>1. PICK l \in Nat : l = Len(b2) /\ e + d <= l
        BY <1>1a
      <4>2. y <= e
        BY <1>a, <1>4
      <4>3. QED
        BY <1>0, <3>2, <4>1, <4>2
    <3>4. Same(b, b2, u, z)
      BY <1>1a, <3>2, SamePart
    <3>5. ss[k] \in SuperRec /\ HoldsSuper(b, u, z, ss[k])
      BY <1>1, <1>5, <3>1, <3>2
    <3>6. HoldsSuper(b2, u, z, ss[k])
      BY <3>3, <3>4, <3>5, SuperStays
    <3>7. R[k] = u /\ R[k + 1] = z /\ q[k] = ss[k]
      BY <1>2a, <1>3a, <2>1, <3>1, <3>2
    <3>8. QED
      BY <3>5, <3>6, <3>7
  <2>2. CASE k = i
    <3>1. R[i] = x /\ R[i + 1] = y + d
      <4>1. i \in 1 .. i /\ i + 1 \in i + 1 .. n + 1
        BY <1>1
      <4>2. QED
        BY <1>a, <1>2a, <4>1
    <3>2. QED
      BY <1>3a, <2>2, <3>1
  <2>3. CASE k > i
    <3>1. /\ k \in i + 1 .. n + 1 /\ k + 1 \in i + 1 .. n + 1 /\ i + 1 \in 1 .. n + 1 /\ i + 1 <= k
          /\ k \in 1 .. n + 1 /\ k + 1 \in 1 .. n + 1
      BY <1>1, <2>3
    <3>2. PICK u \in Nat, z \in Nat : u = Q[k] /\ z = Q[k + 1] /\ y <= u /\ z <= e
      BY <1>a, <1>1, <1>4, <3>1
    <3>3. z + d <= Len(b2)
      <4>1. PICK l \in Nat : l = Len(b2) /\ e + d <= l
        BY <1>1a
      <4>2. QED
        BY <3>2, <4>1, SMTT(20)
    <3>4. Moved(b, b2, u, z, d)
      BY <1>1a, <3>2, MovedPart
    <3>5. ss[k] \in SuperRec /\ HoldsSuper(b, u, z, ss[k]) /\ u + d \in Nat
      <4>1. ss[k] \in SuperRec
        BY <1>1, <3>1, Zenon
      <4>2. HoldsSuper(b, u, z, ss[k])
        BY <1>5, <3>1, <3>2, Zenon
      <4>3. y <= u
        BY <3>2, Zenon
      <4>4. u + d \in Nat
        BY <1>0, <4>3
      <4>5. QED
        BY <4>1, <4>2, <4>4
    <3>6. HoldsSuper(b2, u + d, z + d, ss[k])
      BY <3>3, <3>4, <3>5, SuperMoves
    <3>7. R[k] = u + d /\ R[k + 1] = z + d /\ q[k] = ss[k]
      BY <1>2a, <1>3a, <2>3, <3>1, <3>2
    <3>8. QED
      BY <3>6, <3>7
  <2>4. QED
    BY <2>1, <2>2, <2>3
<1>7. HoldsSupers(b2, q, R)
  BY <1>3a, <1>6 DEF HoldsSupers
<1>8. QED
  BY <1>1, <1>2, <1>3, <1>7, Zenon

(* The layout of the index when a super header came in, or was changed.    *)
LEMMA HeadStays ==
    ASSUME NEW b, NEW b2, NEW gs, HoldsGDSs(b, gs), NEW m \in Nat, Len(gs) = m,
           Same(b, b2, 0, 2 * m + 3), Len(b2) \in Nat, 2 * m + 4 <= Len(b2)
    PROVE  HoldsGDSs(b2, gs)
<1>1. b[3] = m /\ \A n \in 1 .. m : b[2 * n + 2] = 0 /\ b[2 * n + 3] = gs[n]
  BY DEF HoldsGDSs
<1>2. \A k \in 1 .. 2 * m + 3 : b2[k] = b[k]
  BY DEF Same
<1>3. b2[3] = m
  <2>1. 3 \in 1 .. 2 * m + 3
    OBVIOUS
  <2>2. QED
    BY <1>1, <1>2, <2>1
<1>4. ASSUME NEW n \in 1 .. m PROVE b2[2 * n + 2] = 0 /\ b2[2 * n + 3] = gs[n]
  <2>1. 2 * n + 2 \in 1 .. 2 * m + 3 /\ 2 * n + 3 \in 1 .. 2 * m + 3
    OBVIOUS
  <2>2. QED
    BY <1>1, <1>2, <2>1
<1>5. QED
  BY <1>3, <1>4, Zenon DEF HoldsGDSs

LEMMA LayoutInserted ==
    ASSUME NEW b, NEW b2 \in Cells, NEW gs, NEW ss, Layout(b, gs, ss), NEW f \in Nat, NEW e \in Nat,
           NEW n \in Nat, NEW i \in 1 .. n + 1, NEW w \in Nat, NEW x \in Nat, NEW P,
           NEW s \in SuperRec, Offsets(f, e, n, P), HoldsSupers(b, ss, P), IsAt(ss, n, P, i, x),
           IsAt(b, e, P, 1, SupersFrom(gs)), IsAt(b2, e + w, b2, f, n + 1),
           HoldsSuper(b2, x, x + w, s), Same(b, b2, 0, f - 1), Same(b, b2, f, x),
           Moved(b, b2, x, e, w)
    PROVE  Layout(b2, gs, Inserted(ss, i, s))
<1>1. gs \in Seq(Nat) /\ ss \in Seq(SuperRec) /\ HoldsGDSs(b, gs) /\ b \in Cells
  BY Zenon DEF Layout
<1>2. PICK m \in Nat : m = Len(gs)
  BY <1>1
<1>3. f = 2 * m + 4 /\ f = SupersFrom(gs)
  <2>1. P[1] = f
    BY Zenon DEF Offsets
  <2>2. P[1] = SupersFrom(gs)
    BY Zenon DEF IsAt
  <2>3. SupersFrom(gs) = 2 * m + 4
    BY <1>2, Zenon DEF SupersFrom
  <2>4. QED
    BY <2>1, <2>2, <2>3
<1>4. Len(b2) = e + w /\ b2[f] = n + 1 /\ f <= e /\ Len(ss) = n
  <2>1. f <= e
    BY OffsetsWithin
  <2>2. QED
    BY <2>1 DEF IsAt
<1>5. HoldsGDSs(b2, gs)
  <2>1. f - 1 = 2 * m + 3 /\ Len(b2) \in Nat /\ 2 * m + 4 <= Len(b2)
    BY <1>3, <1>4
  <2>2. Same(b, b2, 0, 2 * m + 3)
    BY <2>1, Zenon
  <2>3. QED
    BY <1>1, <1>2, <2>1, <2>2, HeadStays
<1>6. Shifts(b, b2, f, x, x, e, w)
  BY <1>4 DEF Shifts
<1>7. PICK R : Offsets(f, e + w, n + 1, R) /\ HoldsSupers(b2, Inserted(ss, i, s), R)
  BY <1>1, <1>6, SupersInserted
<1>8. Inserted(ss, i, s) \in Seq(SuperRec) /\ Len(Inserted(ss, i, s)) = n + 1
  <2>1. Inserted(ss, i, s) \in Seq(SuperRec) /\ ExtendsAt(Inserted(ss, i, s), ss, n, i, s)
    BY <1>1, <1>4, InsertedSeq
  <2>2. QED
    BY <2>1, Zenon DEF ExtendsAt
<1>9. b2[2 * Len(gs) + 4] = n + 1
  BY <1>2, <1>3, <1>4
<1>10. Offsets(SupersFrom(gs), Len(b2), Len(Inserted(ss, i, s)), R)
  BY <1>3, <1>4, <1>7, <1>8, Zenon
<1>11. QED
  BY <1>1, <1>5, <1>7, <1>8, <1>9, <1>10, Zenon DEF Layout

LEMMA LayoutChanged ==
    ASSUME NEW b, NEW b2 \in Cells, NEW gs, NEW ss, Layout(b, gs, ss), NEW f \in Nat, NEW e \in Nat,
           NEW n \in Nat, NEW i \in 1 .. n, NEW d \in Int, NEW x \in Nat, NEW y \in Nat, NEW P,
           NEW s \in SuperRec, Offsets(f, e, n, P), HoldsSupers(b, ss, P), IsAt(ss, n, P, i, x),
           IsAt(ss, n, P, i + 1, y), IsAt(b, e, P, 1, SupersFrom(gs)), Len(b2) = e + d,
           HoldsSuper(b2, x, y + d, s), Same(b, b2, 0, x), Moved(b, b2, y, e, d)
    PROVE  Layout(b2, gs, Changed(ss, i, s))
<1>1. /\ gs \in Seq(Nat) /\ ss \in Seq(SuperRec) /\ HoldsGDSs(b, gs) /\ b \in Cells
      /\ b[2 * Len(gs) + 4] = Len(ss)
  BY Zenon DEF Layout
<1>2. PICK m \in Nat : m = Len(gs)
  BY <1>1
<1>3. f = 2 * m + 4 /\ f = SupersFrom(gs)
  <2>1. P[1] = f
    BY Zenon DEF Offsets
  <2>2. P[1] = SupersFrom(gs)
    BY Zenon DEF IsAt
  <2>3. SupersFrom(gs) = 2 * m + 4
    BY <1>2, Zenon DEF SupersFrom
  <2>4. QED
    BY <2>1, <2>2, <2>3
<1>4. f <= x /\ x <= y /\ y <= e /\ Len(ss) = n /\ Len(b2) \in Nat
  <2>1. /\ \A j \in 1 .. n + 1 : P[j] \in Nat /\ f <= P[j] /\ P[j] <= e
        /\ \A j \in 1 .. n : P[j] <= P[j + 1]
    BY OffsetsWithin
  <2>2. P[i] = x /\ P[i + 1] = y /\ Len(ss) = n
    BY DEF IsAt
  <2>3. i \in 1 .. n + 1 /\ i + 1 \in 1 .. n + 1
    OBVIOUS
  <2>4. f <= x /\ x <= y /\ y <= e
    BY <2>1, <2>2, <2>3
  <2>5. Len(b2) \in Nat
    BY DEF Cells
  <2>6. QED
    BY <2>2, <2>4, <2>5
<1>4a. x <= y + d
  <2>1. PICK l \in Nat : l = Len(s.tag)
    BY RecordTypes
  <2>2. x + 7 + l <= y + d
    BY <2>1 DEF HoldsSuper, ArrayFrom
  <2>3. QED
    BY <2>2
<1>5. HoldsGDSs(b2, gs)
  <2>1. 0 <= 0 /\ 2 * m + 3 <= x /\ 2 * m + 3 \in Nat /\ 2 * m + 4 <= e + d
    BY <1>3, <1>4, <1>4a
  <2>2. Same(b, b2, 0, 2 * m + 3)
    BY <2>1, SamePart
  <2>3. QED
    BY <1>1, <1>2, <1>4, <2>1, <2>2, HeadStays
<1>6. Shifts(b, b2, f, x, y, e, d)
  <2>1. 0 <= f /\ x <= x
    OBVIOUS
  <2>2. Same(b, b2, f, x)
    BY <2>1, SamePart
  <2>3. QED
    BY <1>4, <2>2 DEF Shifts
<1>7. PICK R : Offsets(f, e + d, n, R) /\ HoldsSupers(b2, Changed(ss, i, s), R)
  BY <1>1, <1>6, SupersChanged
<1>8. Changed(ss, i, s) \in Seq(SuperRec) /\ Len(Changed(ss, i, s)) = n
  <2>1. Changed(ss, i, s) \in Seq(SuperRec) /\ ReplacesAt(Changed(ss, i, s), ss, n, i, s)
    BY <1>1, <1>4, ChangedSeq
  <2>2. QED
    BY <2>1, Zenon DEF ReplacesAt
<1>9. b2[2 * Len(gs) + 4] = n
  <2>1. f \in 0 + 1 .. x
    BY <1>3, <1>4
  <2>2. b2[f] = b[f]
    BY <2>1, Zenon DEF Same
  <2>3. QED
    BY <1>1, <1>2, <1>3, <1>4, <2>2, Zenon
<1>10. Offsets(SupersFrom(gs), Len(b2), Len(Changed(ss, i, s)), R)
  BY <1>3, <1>7, <1>8, Zenon
<1>11. QED
  BY <1>1, <1>5, <1>7, <1>8, <1>9, <1>10, Zenon DEF Layout

(***************************************************************************)
(* A new super header.                                                     *)
(***************************************************************************)

PdsOf(g) == [validTime |-> g.validTime, place |-> g.place]
SuperOf(g, num) == [element |-> g.element, refTime |-> g.refTime, tag |-> g.tag,
                    gdsNum |-> num, pdss |-> <<PdsOf(g)>>]
Record(head, pds) == <<Len(head) + Len(pds) + 2>> \o head \o <<1>> \o pds

Written(b, o, cells) == \A k \in 1 .. Len(cells) : b[o + k] = cells[k]

LEMMA NewPDS ==
    ASSUME NEW g \in Grids, NEW b, NEW o \in Nat, Written(b, o, WritePDS(g)),
           NEW e \in Nat, e = o + 3 + Len(g.place), e <= Len(b)
    PROVE  PdsOf(g) \in PdsRec /\ HoldsPDS(b, o, e, PdsOf(g))
<1>1. g.place \in Seq(Nat) /\ g.validTime \in Nat
  BY GridTypes
<1>2. PICK n \in Nat : n = Len(g.place)
  BY <1>1
<1>3. /\ Len(WritePDS(g)) = 3 + n /\ WritePDS(g)[1] = 3 + n /\ WritePDS(g)[2] = g.validTime
      /\ WritePDS(g)[3] = n /\ \A k \in 1 .. n : WritePDS(g)[3 + k] = g.place[k]
  BY <1>1, <1>2, PDSCells
<1>4. \A k \in 1 .. 3 + n : b[o + k] = WritePDS(g)[k]
  BY <1>3, Zenon DEF Written
<1>5. b[o + 1] = 3 + n /\ b[o + 2] = g.validTime /\ b[o + 3] = n
  <2>1. 1 \in 1 .. 3 + n /\ 2 \in 1 .. 3 + n /\ 3 \in 1 .. 3 + n
    OBVIOUS
  <2>2. QED
    BY <1>3, <1>4, <2>1, Zenon
<1>6. \A k \in 1 .. n : b[o + 3 + k] = g.place[k]
  <2>1. TAKE k \in 1 .. n
  <2>2. 3 + k \in 1 .. 3 + n /\ o + (3 + k) = o + 3 + k
    OBVIOUS
  <2>3. QED
    BY <1>3, <1>4, <2>2
<1>7. PdsOf(g).place = g.place /\ PdsOf(g).validTime = g.validTime
  BY DEF PdsOf
<1>8. PdsOf(g) \in PdsRec
  BY <1>1 DEF PdsOf, PdsRec
<1>9. HoldsPDS(b, o, e, PdsOf(g))
  BY <1>2, <1>5, <1>6, <1>7, Zenon DEF HoldsPDS
<1>10. QED
  BY <1>8, <1>9

LEMMA SuperOfTypes ==
    ASSUME NEW g \in Grids, NEW num \in Nat
    PROVE  /\ SuperOf(g, num) \in SuperRec
           /\ SuperOf(g, num).element = g.element /\ SuperOf(g, num).refTime = g.refTime
           /\ SuperOf(g, num).tag = g.tag /\ SuperOf(g, num).gdsNum = num
           /\ Len(SuperOf(g, num).pdss) = 1 /\ SuperOf(g, num).pdss[1] = PdsOf(g)
<1>1. PdsOf(g) \in PdsRec
  BY GridTypes DEF PdsOf, PdsRec
<1>2. PICK p : p = PdsOf(g) /\ p \in PdsRec
  BY <1>1
<1>3. <<p>> \in Seq(PdsRec) /\ Len(<<p>>) = 1 /\ <<p>>[1] = p
  BY <1>2
<1>4. SuperOf(g, num) = [element |-> g.element, refTime |-> g.refTime, tag |-> g.tag,
                         gdsNum |-> num, pdss |-> <<p>>]
  BY <1>2, Zenon DEF SuperOf
<1>5. QED
  BY <1>2, <1>3, <1>4, GridTypes DEF SuperRec

LEMMA ConcatCells ==
    ASSUME NEW x \in Cells, NEW y \in Cells
    PROVE  /\ x \o y \in Cells /\ Len(x \o y) = Len(x) + Len(y)
           /\ \A i \in 1 .. Len(x) + Len(y) : (x \o y)[i] = IF i <= Len(x) THEN x[i] ELSE y[i - Len(x)]
  BY ConcatProperties DEF Cells

LEMMA RecordCells ==
    ASSUME NEW h \in Cells, NEW q \in Cells
    PROVE  /\ Record(h, q) \in Cells /\ Len(Record(h, q)) = Len(h) + Len(q) + 2
           /\ Record(h, q)[1] = Len(h) + Len(q) + 2
           /\ Written(Record(h, q), 1, h)
           /\ Record(h, q)[Len(h) + 2] = 1
           /\ Written(Record(h, q), Len(h) + 2, q)
<1>1. PICK t \in Nat : t = Len(h)
  BY DEF Cells
<1>2. PICK p \in Nat : p = Len(q)
  BY DEF Cells
<1>3. PICK x : x = <<t + p + 2>>
  OBVIOUS
<1>3a. x \in Cells /\ Len(x) = 1 /\ x[1] = t + p + 2
  BY <1>3 DEF Cells
<1>4. PICK y : y = x \o h
  OBVIOUS
<1>5. /\ y \in Cells /\ Len(y) = Len(x) + Len(h)
      /\ \A i \in 1 .. Len(x) + Len(h) : y[i] = IF i <= Len(x) THEN x[i] ELSE h[i - Len(x)]
  BY <1>3a, <1>4, ConcatProperties DEF Cells
<1>6. /\ Len(y) = 1 + t
      /\ \A i \in 1 .. 1 + t : y[i] = IF i <= 1 THEN x[i] ELSE h[i - 1]
  BY <1>1, <1>3a, <1>5, Zenon
<1>7. PICK o : o = <<1>>
  OBVIOUS
<1>7a. o \in Cells /\ Len(o) = 1 /\ o[1] = 1
  BY <1>7 DEF Cells
<1>8. PICK z : z = y \o o
  OBVIOUS
<1>9. /\ z \in Cells /\ Len(z) = Len(y) + Len(o)
      /\ \A i \in 1 .. Len(y) + Len(o) : z[i] = IF i <= Len(y) THEN y[i] ELSE o[i - Len(y)]
  <2>1. y \in Cells /\ o \in Cells
    BY <1>5, <1>7a
  <2>2. QED
    BY <1>8, <2>1, ConcatCells, Zenon
<1>10. /\ Len(z) = (1 + t) + 1
       /\ \A i \in 1 .. (1 + t) + 1 : z[i] = IF i <= 1 + t THEN y[i] ELSE o[i - (1 + t)]
  BY <1>6, <1>7a, <1>9, Zenon
<1>11. PICK r : r = z \o q
  OBVIOUS
<1>12. /\ r \in Cells /\ Len(r) = Len(z) + Len(q)
       /\ \A i \in 1 .. Len(z) + Len(q) : r[i] = IF i <= Len(z) THEN z[i] ELSE q[i - Len(z)]
  <2>1. z \in Cells
    BY <1>9
  <2>2. QED
    BY <1>11, <2>1, ConcatCells, Zenon
<1>13. /\ Len(r) = ((1 + t) + 1) + p
       /\ \A i \in 1 .. ((1 + t) + 1) + p :
             r[i] = IF i <= (1 + t) + 1 THEN z[i] ELSE q[i - ((1 + t) + 1)]
  BY <1>2, <1>10, <1>12, Zenon
<1>14. \A i \in 1 .. 1 + t : r[i] = y[i]
  <2>1. TAKE i \in 1 .. 1 + t
  <2>2. /\ i \in 1 .. ((1 + t) + 1) + p /\ i <= (1 + t) + 1 /\ i \in 1 .. (1 + t) + 1
        /\ i <= 1 + t
    OBVIOUS
  <2>3. r[i] = z[i]
    BY <1>13, <2>2
  <2>4. z[i] = y[i]
    BY <1>10, <2>2
  <2>5. QED
    BY <2>3, <2>4
<1>15. r[1] = t + p + 2
  <2>1. 1 \in 1 .. 1 + t /\ 1 <= 1
    OBVIOUS
  <2>2. QED
    BY <1>3a, <1>6, <1>14, <2>1
<1>16. \A k \in 1 .. t : r[1 + k] = h[k]
  <2>1. TAKE k \in 1 .. t
  <2>2. 1 + k \in 1 .. 1 + t /\ ~(1 + k <= 1) /\ (1 + k) - 1 = k
    OBVIOUS
  <2>3. QED
    BY <1>6, <1>14, <2>2
<1>17. r[t + 2] = 1
  <2>1. /\ t + 2 \in 1 .. ((1 + t) + 1) + p /\ t + 2 <= (1 + t) + 1
        /\ t + 2 \in 1 .. (1 + t) + 1 /\ ~(t + 2 <= 1 + t) /\ (t + 2) - (1 + t) = 1
    OBVIOUS
  <2>2. r[t + 2] = z[t + 2]
    BY <1>13, <2>1
  <2>3. z[t + 2] = o[1]
    BY <1>10, <2>1
  <2>4. QED
    BY <1>7a, <2>2, <2>3
<1>18. \A k \in 1 .. p : r[t + 2 + k] = q[k]
  <2>1. TAKE k \in 1 .. p
  <2>2. /\ t + 2 + k \in 1 .. ((1 + t) + 1) + p /\ ~(t + 2 + k <= (1 + t) + 1)
        /\ (t + 2 + k) - ((1 + t) + 1) = k
    OBVIOUS
  <2>3. QED
    BY <1>13, <2>2
<1>19. r = Record(h, q)
  BY <1>1, <1>2, <1>3, <1>4, <1>7, <1>8, <1>11, Zenon DEF Record
<1>20. Len(r) = t + p + 2
  <2>1. ((1 + t) + 1) + p = t + p + 2
    OBVIOUS
  <2>2. QED
    BY <1>13, <2>1
<1>21. QED
  BY <1>1, <1>2, <1>12, <1>15, <1>16, <1>17, <1>18, <1>19, <1>20, Zenon DEF Written

NewRecord(g, num) == Record(WriteSupPDS(g, num), WritePDS(g))

LEMMA NewSuper ==
    ASSUME NEW g \in Grids, NEW num \in Nat, NEW b, NEW o \in Nat, NEW e \in Nat,
           Written(b, o, NewRecord(g, num)), e = o + Len(NewRecord(g, num)), e <= Len(b)
    PROVE  HoldsSuper(b, o, e, SuperOf(g, num))
<1>1. PICK h \in Cells : h = WriteSupPDS(g, num)
  BY HeadCells, GridTypes
<1>2. PICK q \in Cells : q = WritePDS(g)
  BY PDSCells, GridTypes
<1>3. PICK t \in Nat : t = Len(g.tag)
  BY GridTypes
<1>4. PICK p \in Nat : p = Len(g.place)
  BY GridTypes
<1>5. /\ Len(h) = 5 + t /\ h[1] = 5 + t /\ h[2] = g.element /\ h[3] = g.refTime
      /\ h[4] = t /\ h[5 + t] = num /\ \A k \in 1 .. t : h[4 + k] = g.tag[k]
  BY <1>1, <1>3, HeadCells, GridTypes, ZenonT(40)
<1>6. Len(q) = 3 + p
  BY <1>2, <1>4, PDSCells, GridTypes
<1>7. PICK r \in Cells : r = NewRecord(g, num) /\ r = Record(h, q)
  <2>1. Record(h, q) \in Cells
    BY RecordCells
  <2>2. QED
    BY <1>1, <1>2, <2>1, Zenon DEF NewRecord
<1>8. /\ Len(r) = Len(h) + Len(q) + 2 /\ r[1] = Len(h) + Len(q) + 2
      /\ \A k \in 1 .. Len(h) : r[1 + k] = h[k]
      /\ r[Len(h) + 2] = 1
      /\ \A k \in 1 .. Len(q) : r[Len(h) + 2 + k] = q[k]
  <2>1. /\ Len(r) = Len(h) + Len(q) + 2 /\ r[1] = Len(h) + Len(q) + 2
        /\ Written(r, 1, h) /\ r[Len(h) + 2] = 1 /\ Written(r, Len(h) + 2, q)
    <3>1. /\ Len(Record(h, q)) = Len(h) + Len(q) + 2 /\ Record(h, q)[1] = Len(h) + Len(q) + 2
          /\ Written(Record(h, q), 1, h) /\ Record(h, q)[Len(h) + 2] = 1
          /\ Written(Record(h, q), Len(h) + 2, q)
      BY RecordCells
    <3>2. QED
      BY <1>7, <3>1, Zenon
  <2>2. QED
    BY <2>1, Zenon DEF Written
<1>9. /\ Len(r) = (5 + t) + (3 + p) + 2 /\ r[1] = (5 + t) + (3 + p) + 2
      /\ \A k \in 1 .. 5 + t : r[1 + k] = h[k]
      /\ r[(5 + t) + 2] = 1
      /\ \A k \in 1 .. 3 + p : r[(5 + t) + 2 + k] = q[k]
  BY <1>5, <1>6, <1>8, Zenon
<1>10. PICK w \in Nat : w = 10 + t + p
  OBVIOUS
<1>11. (5 + t) + (3 + p) + 2 = w
  BY <1>10
<1>12. e = o + w
  BY <1>7, <1>9, <1>11, Zenon
<1>13. \A k \in 1 .. w : b[o + k] = r[k]
  BY <1>7, <1>9, <1>11, Zenon DEF Written
<1>14. b[o + 1] = w
  <2>1. 1 \in 1 .. w
    BY <1>10
  <2>2. QED
    BY <1>9, <1>11, <1>13, <2>1, Zenon
<1>15. \A k \in 1 .. 5 + t : b[o + 1 + k] = h[k]
  <2>1. TAKE k \in 1 .. 5 + t
  <2>2. 1 + k \in 1 .. w /\ o + (1 + k) = o + 1 + k
    BY <1>10
  <2>3. QED
    BY <1>9, <1>13, <2>2
<1>16. b[o + 7 + t] = 1
  <2>1. (5 + t) + 2 \in 1 .. w /\ o + ((5 + t) + 2) = o + 7 + t
    BY <1>10
  <2>2. QED
    BY <1>9, <1>13, <2>1
<1>17. PICK a \in Nat : a = o + 7 + t
  OBVIOUS
<1>18. Written(b, a, q)
  <2>1. ASSUME NEW k \in 1 .. 3 + p PROVE b[a + k] = q[k]
    <3>1. (5 + t) + 2 + k \in 1 .. w /\ o + ((5 + t) + 2 + k) = a + k
      BY <1>10, <1>17
    <3>2. QED
      BY <1>9, <1>13, <3>1
  <2>2. QED
    BY <1>6, <2>1, Zenon DEF Written
<1>19. PdsOf(g) \in PdsRec /\ HoldsPDS(b, a, e, PdsOf(g))
  <2>1. e = a + 3 + p
    BY <1>10, <1>12, <1>17
  <2>2. e = a + 3 + Len(g.place)
    BY <1>4, <2>1, Zenon
  <2>3. Written(b, a, WritePDS(g))
    BY <1>2, <1>18, Zenon
  <2>4. QED
    BY <2>2, <2>3, NewPDS
<1>20. PICK s : s = SuperOf(g, num)
  OBVIOUS
<1>21. /\ s.element = g.element /\ s.refTime = g.refTime /\ s.tag = g.tag /\ s.gdsNum = num
       /\ Len(s.pdss) = 1 /\ s.pdss[1] = PdsOf(g) /\ Len(s.tag) = t
  BY <1>3, <1>20, SuperOfTypes, Zenon
<1>22. HoldsHead(b, o, s)
  <2>1. /\ o + 1 + 1 = o + 2 /\ o + 1 + 2 = o + 3 /\ o + 1 + 3 = o + 4 /\ o + 1 + 4 = o + 5
        /\ o + 1 + (5 + t) = o + 6 + t
        /\ 1 \in 1 .. 5 + t /\ 2 \in 1 .. 5 + t /\ 3 \in 1 .. 5 + t /\ 4 \in 1 .. 5 + t
        /\ 5 + t \in 1 .. 5 + t
    OBVIOUS
  <2>2. /\ b[o + 1 + 1] = h[1] /\ b[o + 1 + 2] = h[2] /\ b[o + 1 + 3] = h[3]
        /\ b[o + 1 + 4] = h[4] /\ b[o + 1 + (5 + t)] = h[5 + t]
    BY <1>15, <2>1, Zenon
  <2>3. /\ b[o + 2] = 5 + t /\ b[o + 3] = g.element /\ b[o + 4] = g.refTime
        /\ b[o + 5] = t /\ b[o + 6 + t] = num
    BY <1>5, <2>1, <2>2
  <2>4. \A k \in 1 .. t : b[o + 5 + k] = g.tag[k]
    <3>1. TAKE k \in 1 .. t
    <3>2. 4 + k \in 1 .. 5 + t /\ o + 1 + (4 + k) = o + 5 + k
      OBVIOUS
    <3>3. QED
      BY <1>5, <1>15, <3>2
  <2>5. QED
    BY <1>21, <2>3, <2>4, Zenon DEF HoldsHead
<1>23. ArrayFrom(o, s) = a
  BY <1>17, <1>21, Zenon DEF ArrayFrom
<1>24. a <= e /\ e - o = w
  BY <1>10, <1>12, <1>17
<1> DEFINE Q == [j \in 1 .. 2 |-> IF j = 1 THEN a ELSE e]
<1>25. Offsets(a, e, 1, Q) /\ Q[1] = a /\ Q[2] = e
  <2>1. Q \in [1 .. 2 -> Nat] /\ Q[1] = a /\ Q[2] = e
    OBVIOUS
  <2> HIDE DEF Q
  <2>2. \A i, j \in 1 .. 2 : i <= j => Q[i] <= Q[j]
    <3>1. \A i \in 1 .. 2 : i = 1 \/ i = 2
      OBVIOUS
    <3>2. Q[1] <= Q[1] /\ Q[1] <= Q[2] /\ Q[2] <= Q[2] /\ ~(2 <= 1)
      BY <1>24, <2>1
    <3>3. QED
      BY <3>1, <3>2, Zenon
  <2>3. 1 + 1 = 2
    OBVIOUS
  <2>4. QED
    BY <2>1, <2>2, <2>3, Zenon DEF Offsets
<1> HIDE DEF Q
<1>26. HoldsArray(b, s.pdss, Q)
  <2>1. \A j \in 1 .. 1 : j = 1 /\ j + 1 = 2
    OBVIOUS
  <2>2. QED
    BY <1>19, <1>21, <1>25, <2>1, Zenon DEF HoldsArray
<1>27. b[o + 7 + Len(s.tag)] = Len(s.pdss) /\ b[o + 1] = e - o
  BY <1>14, <1>16, <1>21, <1>24, Zenon
<1>28. HoldsSuper(b, o, e, s)
  BY <1>21, <1>22, <1>23, <1>24, <1>25, <1>26, <1>27, Zenon DEF HoldsSuper
<1>29. QED
  BY <1>20, <1>28, Zenon

(* InsertSuper puts the new super header before the one at i.              *)
LEMMA InsertsSuper ==
    ASSUME CountsFit, NEW b, NEW gs, NEW ss, Layout(b, gs, ss), NEW P, NEW n \in Nat,
           NEW i \in 1 .. n + 1, Offsets(SupersFrom(gs), Len(b), n, P), HoldsSupers(b, ss, P),
           NEW x \in Nat, IsAt(ss, n, P, i, x), NEW g \in Grids, NEW num \in Nat,
           Good(gs, Inserted(ss, i, SuperOf(g, num)))
    PROVE  Layout(InsertSuper(b, x, WriteSupPDS(g, num), WritePDS(g)), gs,
                  Inserted(ss, i, SuperOf(g, num)))
<1>1. PICK s \in SuperRec : s = SuperOf(g, num)
  BY SuperOfTypes
<1>2. PICK r \in Cells : r = NewRecord(g, num)
  <2>1. WriteSupPDS(g, num) \in Cells /\ WritePDS(g) \in Cells
    BY HeadCells, PDSCells, GridTypes
  <2>2. QED
    BY <2>1, RecordCells DEF NewRecord
<1>3. PICK w \in Nat : w = Len(r)
  BY DEF Cells
<1>4. b \in Cells /\ ss \in Seq(SuperRec) /\ gs \in Seq(Nat) /\ Len(ss) = n /\ P[i] = x
  BY Zenon DEF Layout, IsAt
<1>5. PICK e \in Nat : e = Len(b)
  BY <1>4 DEF Cells
<1>6. PICK m \in Nat : m = Len(gs)
  BY <1>4
<1>7. PICK f \in Nat : f = 2 * m + 4
  OBVIOUS
<1>7a. f = SupersFrom(gs)
  BY <1>6, <1>7, Zenon DEF SupersFrom
<1>8. Offsets(f, e, n, P)
  BY <1>5, <1>7a, Zenon
<1>9. f <= x /\ x <= e /\ f >= 4
  <2>1. \A j \in 1 .. n + 1 : f <= P[j] /\ P[j] <= e
    BY <1>8, OffsetsWithin
  <2>2. f <= x /\ x <= e
    BY <1>4, <2>1, Zenon
  <2>3. QED
    BY <1>7, <2>2
<1>10. b[f] = n /\ SuperCount(b) + 1 = f
  <2>1. b[2 * Len(gs) + 4] = Len(ss)
    BY Zenon DEF Layout
  <2>2. SuperCount(b) = 2 * Len(gs) + 3
    BY ReadsGDSs, Zenon
  <2>3. SuperCount(b) = 2 * m + 3
    BY <1>6, <2>2, Zenon
  <2>4. SuperCount(b) + 1 = f
    BY <1>7, <2>3
  <2>5. QED
    BY <1>4, <1>6, <1>7, <2>1, <2>4, Zenon
<1>11. (n + 1) % UShort2 = n + 1
  <2>1. Inserted(ss, i, s) \in Seq(SuperRec) /\ Len(Inserted(ss, i, s)) = n + 1
    <3>1. Inserted(ss, i, s) \in Seq(SuperRec) /\ ExtendsAt(Inserted(ss, i, s), ss, n, i, s)
      BY <1>4, InsertedSeq
    <3>2. QED
      BY <3>1, Zenon DEF ExtendsAt
  <2>2. Good(gs, Inserted(ss, i, s))
    BY <1>1, Zenon
  <2>3. Len(Inserted(ss, i, s)) < UShort2
    BY <2>1, <2>2, SupersCounted
  <2>4. n + 1 < UShort2
    BY <2>1, <2>3, Zenon
  <2>5. QED
    BY <2>4, NoWrap
<1>12. PICK b1 : b1 = BufferInsert(b, x, r)
  OBVIOUS
<1>13. /\ b1 \in Cells /\ Len(b1) = e + w
       /\ \A k \in 1 .. x : b1[k] = b[k]
       /\ \A k \in 1 .. w : b1[x + k] = r[k]
       /\ \A k \in x + 1 .. e : b1[k + w] = b[k]
  <2>1. x \in 0 .. Len(b)
    BY <1>5, <1>9
  <2>2. /\ b1 \in Cells /\ Len(b1) = Len(b) + Len(r)
        /\ \A k \in 1 .. x : b1[k] = b[k]
        /\ \A k \in 1 .. Len(r) : b1[x + k] = r[k]
        /\ \A k \in x + 1 .. Len(b) : b1[k + Len(r)] = b[k]
    BY <1>4, <1>12, <2>1, InsertCells
  <2>3. QED
    BY <1>3, <1>5, <2>2, Zenon
<1>14. b1[f] = n
  <2>1. f \in 1 .. x
    BY <1>9
  <2>2. QED
    BY <1>10, <1>13, <2>1
<1>15. PICK b2 : b2 = Changed(b1, f, n + 1)
  OBVIOUS
<1>16. InsertSuper(b, x, WriteSupPDS(g, num), WritePDS(g)) = b2
  <2>1. r = <<Len(WriteSupPDS(g, num)) + Len(WritePDS(g)) + 2>> \o WriteSupPDS(g, num) \o <<1>>
               \o WritePDS(g)
    BY <1>2, Zenon DEF NewRecord, Record
  <2>2. InsertSuper(b, x, WriteSupPDS(g, num), WritePDS(g)) = IncrShort(b1, SuperCount(b))
    BY <1>12, <2>1, Zenon DEF InsertSuper
  <2>3. IncrShort(b1, SuperCount(b)) = [b1 EXCEPT ![f] = (b1[f] + 1) % UShort2]
    BY <1>10 DEF IncrShort
  <2>4. QED
    BY <1>11, <1>14, <1>15, <2>2, <2>3, Zenon DEF Changed
<1>17. /\ b2 \in Cells /\ Len(b2) = e + w /\ b2[f] = n + 1
       /\ \A k \in 1 .. e + w : k # f => b2[k] = b1[k]
  <2>1. f \in 1 .. Len(b1) /\ n + 1 \in Nat
    BY <1>9, <1>13
  <2>2. b1 \in Cells
    BY <1>13
  <2>3. /\ b2 \in Cells /\ Len(b2) = Len(b1) /\ b2[f] = n + 1
        /\ \A k \in 1 .. Len(b1) : k # f => b2[k] = b1[k]
    BY <1>15, <2>1, <2>2, PutCells
  <2>4. QED
    BY <1>13, <2>3, Zenon
<1>18. Same(b, b2, 0, f - 1)
  <2>1. ASSUME NEW k \in 0 + 1 .. f - 1 PROVE b2[k] = b[k]
    <3>1. k \in 1 .. e + w /\ k # f /\ k \in 1 .. x
      BY <1>9
    <3>2. QED
      BY <1>13, <1>17, <3>1
  <2>2. QED
    BY <2>1, Zenon DEF Same
<1>19. Same(b, b2, f, x)
  <2>1. ASSUME NEW k \in f + 1 .. x PROVE b2[k] = b[k]
    <3>1. k \in 1 .. e + w /\ k # f /\ k \in 1 .. x
      BY <1>9
    <3>2. QED
      BY <1>13, <1>17, <3>1
  <2>2. QED
    BY <2>1, Zenon DEF Same
<1>20. Moved(b, b2, x, e, w)
  <2>1. ASSUME NEW k \in x + 1 .. e PROVE b2[k + w] = b[k]
    <3>1. k + w \in 1 .. e + w /\ k + w # f
      BY <1>9
    <3>2. QED
      BY <1>13, <1>17, <3>1
  <2>2. QED
    BY <2>1, Zenon DEF Moved
<1>21. HoldsSuper(b2, x, x + w, s)
  <2>1. ASSUME NEW k \in 1 .. w PROVE b2[x + k] = r[k]
    <3>1. x + k \in 1 .. e + w /\ x + k # f
      BY <1>9
    <3>2. QED
      BY <1>13, <1>17, <3>1
  <2>2. Written(b2, x, NewRecord(g, num))
    BY <1>2, <1>3, <2>1, Zenon DEF Written
  <2>3. PICK z \in Nat : z = x + w
    OBVIOUS
  <2>4. z = x + Len(NewRecord(g, num))
    BY <1>2, <1>3, <2>3, Zenon
  <2>5. z <= Len(b2)
    BY <1>9, <1>17, <2>3
  <2>6. HoldsSuper(b2, x, z, SuperOf(g, num))
    BY <2>2, <2>4, <2>5, NewSuper
  <2>7. QED
    BY <1>1, <2>3, <2>6, Zenon
<1>22. IsAt(b, e, P, 1, SupersFrom(gs)) /\ IsAt(b2, e + w, b2, f, n + 1)
  <2>1. P[1] = f
    BY <1>8, Zenon DEF Offsets
  <2>2. QED
    BY <1>5, <1>7a, <1>17, <2>1, Zenon DEF IsAt
<1>23. Layout(b2, gs, Inserted(ss, i, s))
  <2>1. b2 \in Cells
    BY <1>17
  <2>2. QED
    BY <1>8, <1>18, <1>19, <1>20, <1>21, <1>22, <2>1, LayoutInserted
<1>24. QED
  BY <1>1, <1>16, <1>23, Zenon

(***************************************************************************)
(* A PDS for a super header that is there.                                 *)
(***************************************************************************)

Grown(b, o, x, g) ==
    IncrCell(IncrShort(BufferInsert(b, x, WritePDS(g)), PDSCount(b, o)), o, Len(WritePDS(g)))
Swapped(b, o, x, g) ==
    IncrCell(BufferInsert(BufferRemove(b, x, At(b, x)), x, WritePDS(g)), o,
             Len(WritePDS(g)) - At(b, x))

(* The first j - 1 of the PDSs are earlier; the one at j is later, or of   *)
(* the same time.                                                          *)
GoesBefore(ps, j, time) ==
    /\ j \in 1 .. Len(ps) + 1
    /\ \A l \in 1 .. j - 1 : ps[l].validTime < time
    /\ j <= Len(ps) => ps[j].validTime > time
TakesOver(ps, j, time) ==
    /\ j \in 1 .. Len(ps)
    /\ \A l \in 1 .. j - 1 : ps[l].validTime < time
    /\ ps[j].validTime = time

LEMMA SearchesArray ==
    ASSUME NEW b \in Cells, NEW o \in Nat, NEW e \in Nat, NEW s \in SuperRec,
           HoldsSuper(b, o, e, s), NEW g \in Grids
    PROVE  \E Q, j : /\ Offsets(ArrayFrom(o, s), e, Len(s.pdss), Q) /\ HoldsArray(b, s.pdss, Q)
                     /\ \/ /\ GoesBefore(s.pdss, j, g.validTime)
                           /\ InsertInto(b, o, g) = Grown(b, o, Q[j], g)
                        \/ /\ TakesOver(s.pdss, j, g.validTime)
                           /\ InsertInto(b, o, g) = Swapped(b, o, Q[j], g)
<1>1. PICK Q : /\ Offsets(ArrayFrom(o, s), e, Len(s.pdss), Q) /\ HoldsArray(b, s.pdss, Q)
               /\ \A j \in 1 .. Len(s.pdss) + 1 : PDSAt(b, o)[j] = Q[j] /\ PDSRead(b, o)[j] = Q[j]
  BY ReadsArray
<1>2. PICK n \in Nat : n = Len(s.pdss)
  BY RecordTypes
<1>3. PICK T \in Nat : T = g.validTime
  BY GridTypes
<1>4. \A j \in 1 .. n : s.pdss[j] \in PdsRec /\ s.pdss[j].validTime \in Nat
  BY <1>2, RecordTypes, PdsTypes
<1>5. \A j \in 1 .. n : Q[j] \in Nat /\ Q[j + 1] \in Nat
  BY <1>1, <1>2, OffsetsWithin
<1>6. \A j \in 1 .. n : ValidTime(b, Q[j]) = s.pdss[j].validTime
  <2>1. TAKE j \in 1 .. n
  <2>2. PICK x \in Nat, y \in Nat, p \in PdsRec : x = Q[j] /\ y = Q[j + 1] /\ p = s.pdss[j]
    BY <1>4, <1>5
  <2>3. HoldsPDS(b, x, y, p)
    BY <1>1, <1>2, <2>2, Zenon DEF HoldsArray
  <2>4. ValidTime(b, x) = p.validTime
    BY <2>3, ReadsPDS
  <2>5. QED
    BY <2>2, <2>4, Zenon
<1>7. NumPDS(b, o) = n
  BY <1>2, ReadsSuper
<1> DEFINE at == PDSAt(b, o)
           new == WritePDS(g)
           notEarlier == {j \in 1 .. n : ValidTime(b, at[j]) >= g.validTime}
           j0 == IF notEarlier = {} THEN n + 1 ELSE First(notEarlier)
           pos == at[j0]
           replaces == notEarlier # {} /\ ValidTime(b, pos) = g.validTime
<1>8. \A j \in 1 .. n + 1 : at[j] = Q[j]
  BY <1>1, <1>2, Zenon
<1>9. InsertInto(b, o, g) = IF replaces THEN Swapped(b, o, pos, g) ELSE Grown(b, o, pos, g)
  BY <1>7, Zenon DEF InsertInto, Swapped, Grown
<1> HIDE DEF at
<1>10. \A j \in 1 .. n : j \in 1 .. n + 1
  OBVIOUS
<1>11. \A j : j \in notEarlier <=> j \in 1 .. n /\ s.pdss[j].validTime >= T
  <2>1. \A j \in 1 .. n : ValidTime(b, at[j]) = s.pdss[j].validTime
    BY <1>6, <1>8, <1>10, Zenon
  <2>2. QED
    BY <1>3, <2>1
<1> HIDE DEF notEarlier
<1>12. CASE notEarlier = {}
  <2>1. j0 = n + 1 /\ ~replaces /\ n + 1 \in 1 .. n + 1
    BY <1>12
  <2>2. \A l \in 1 .. n : s.pdss[l].validTime < T
    BY <1>4, <1>11, <1>12
  <2>3. GoesBefore(s.pdss, n + 1, T)
    <3>1. (n + 1) - 1 = n /\ ~(n + 1 <= n)
      OBVIOUS
    <3>2. QED
      BY <1>2, <2>1, <2>2, <3>1 DEF GoesBefore
  <2>4. InsertInto(b, o, g) = Grown(b, o, Q[n + 1], g)
    BY <1>8, <1>9, <2>1, Zenon
  <2>5. QED
    BY <1>1, <1>3, <2>3, <2>4, Zenon
<1>13. CASE notEarlier # {}
  <2>1. notEarlier \subseteq Nat
    BY <1>11
  <2>2. PICK j : j = First(notEarlier) /\ j \in notEarlier /\ \A l \in notEarlier : j <= l
    BY <1>13, <2>1, FirstIs
  <2>3. j0 = j
    BY <1>13, <2>2
  <2>4. j \in 1 .. n /\ s.pdss[j].validTime >= T
    BY <1>11, <2>2, Zenon
  <2>5. \A l \in 1 .. j - 1 : s.pdss[l].validTime < T
    <3>1. TAKE l \in 1 .. j - 1
    <3>2. l \in 1 .. n /\ ~(j <= l)
      BY <2>4
    <3>3. l \notin notEarlier
      BY <2>2, <3>2, Zenon
    <3>4. QED
      BY <1>4, <1>11, <3>2, <3>3
  <2>6. pos = Q[j] /\ ValidTime(b, Q[j]) = s.pdss[j].validTime
    BY <1>6, <1>8, <1>10, <2>3, <2>4, Zenon
  <2>7. CASE s.pdss[j].validTime = T
    <3>1. InsertInto(b, o, g) = Swapped(b, o, Q[j], g)
      BY <1>3, <1>9, <1>13, <2>6, <2>7, Zenon
    <3>2. TakesOver(s.pdss, j, g.validTime)
      BY <1>2, <1>3, <2>4, <2>5, <2>7, Zenon DEF TakesOver
    <3>3. QED
      BY <1>1, <3>1, <3>2, Zenon
  <2>8. CASE s.pdss[j].validTime # T
    <3>1. InsertInto(b, o, g) = Grown(b, o, Q[j], g)
      BY <1>3, <1>9, <1>13, <2>6, <2>8, Zenon
    <3>2. j \in 1 .. n + 1 /\ s.pdss[j].validTime > T
      BY <1>4, <2>4, <2>8
    <3>3. GoesBefore(s.pdss, j, g.validTime)
      BY <1>2, <1>3, <2>5, <3>2, Zenon DEF GoesBefore
    <3>4. QED
      BY <1>1, <3>1, <3>3, Zenon
  <2>9. QED
    BY <2>7, <2>8
<1>14. QED
  BY <1>12, <1>13

WithPDSs(s, ps) == [element |-> s.element, refTime |-> s.refTime, tag |-> s.tag,
                    gdsNum |-> s.gdsNum, pdss |-> ps]

LEMMA WithPDSsTypes ==
    ASSUME NEW s \in SuperRec, NEW ps \in Seq(PdsRec)
    PROVE  /\ WithPDSs(s, ps) \in SuperRec
           /\ WithPDSs(s, ps).element = s.element /\ WithPDSs(s, ps).refTime = s.refTime
           /\ WithPDSs(s, ps).tag = s.tag /\ WithPDSs(s, ps).gdsNum = s.gdsNum
           /\ WithPDSs(s, ps).pdss = ps
  BY RecordTypes DEF WithPDSs, SuperRec

LEMMA SuperRebuilt ==
    ASSUME NEW b, NEW b2, NEW o \in Nat, NEW y \in Nat, NEW y2 \in Nat, NEW a \in Nat,
           NEW s \in SuperRec, NEW ps \in Seq(PdsRec), NEW n \in Nat, NEW R,
           HoldsSuper(b, o, y, s), a = ArrayFrom(o, s), Same(b, b2, o + 1, a - 1),
           IsAt(ps, n, b2, a, n), b2[o + 1] = y2 - o, y2 <= Len(b2), a <= y2,
           Offsets(a, y2, n, R), HoldsArray(b2, ps, R)
    PROVE  HoldsSuper(b2, o, y2, WithPDSs(s, ps))
<1>1. PICK t \in Nat : t = Len(s.tag)
  BY RecordTypes
<1>2. a = o + 7 + t
  BY <1>1, Zenon DEF ArrayFrom
<1>3. /\ b[o + 2] = 5 + t /\ b[o + 3] = s.element /\ b[o + 4] = s.refTime
      /\ b[o + 5] = t /\ b[o + 6 + t] = s.gdsNum
      /\ \A k \in 1 .. t : b[o + 5 + k] = s.tag[k]
  BY <1>1, Zenon DEF HoldsSuper, HoldsHead
<1>4. \A k \in o + 2 .. o + 6 + t : b2[k] = b[k]
  <2>1. o + 1 + 1 = o + 2 /\ a - 1 = o + 6 + t
    BY <1>2
  <2>2. QED
    BY <2>1, Zenon DEF Same
<1>5. /\ b2[o + 2] = 5 + t /\ b2[o + 3] = s.element /\ b2[o + 4] = s.refTime
      /\ b2[o + 5] = t /\ b2[o + 6 + t] = s.gdsNum
  <2>1. /\ o + 2 \in o + 2 .. o + 6 + t /\ o + 3 \in o + 2 .. o + 6 + t
        /\ o + 4 \in o + 2 .. o + 6 + t /\ o + 5 \in o + 2 .. o + 6 + t
        /\ o + 6 + t \in o + 2 .. o + 6 + t
    OBVIOUS
  <2>2. QED
    BY <1>3, <1>4, <2>1, Zenon
<1>6. \A k \in 1 .. t : b2[o + 5 + k] = s.tag[k]
  <2>1. TAKE k \in 1 .. t
  <2>2. o + 5 + k \in o + 2 .. o + 6 + t
    OBVIOUS
  <2>3. QED
    BY <1>3, <1>4, <2>2, Zenon
<1>7. PICK u : u = WithPDSs(s, ps)
  OBVIOUS
<1>8. /\ u.element = s.element /\ u.refTime = s.refTime /\ u.tag = s.tag
      /\ u.gdsNum = s.gdsNum /\ u.pdss = ps
  BY <1>7, WithPDSsTypes, Zenon
<1>9. HoldsHead(b2, o, u)
  BY <1>1, <1>5, <1>6, <1>8, Zenon DEF HoldsHead
<1>10. Len(ps) = n /\ b2[a] = n
  BY Zenon DEF IsAt
<1>11. ArrayFrom(o, u) = a /\ b2[o + 7 + Len(u.tag)] = Len(u.pdss)
  BY <1>1, <1>2, <1>8, <1>10, Zenon DEF ArrayFrom
<1>12. HoldsSuper(b2, o, y2, u)
  BY <1>8, <1>9, <1>10, <1>11, Zenon DEF HoldsSuper
<1>13. QED
  BY <1>7, <1>12, Zenon

(* What is around the super header s at i, and its PDS at j.               *)
Around(b, gs, ss, n, P, i, s, o, y, e) ==
    /\ Layout(b, gs, ss) /\ Offsets(SupersFrom(gs), e, n, P) /\ HoldsSupers(b, ss, P)
    /\ Len(ss) = n /\ ss[i] = s /\ P[i] = o /\ P[i + 1] = y /\ Len(b) = e
Within(b, s, k, Q, j, x, a, y) ==
    Offsets(a, y, k, Q) /\ HoldsArray(b, s.pdss, Q) /\ IsAt(s.pdss, k, Q, j, x)

CountsAt(b, o, y, s, a) ==
    b[o + 1] = y - o /\ b[a] = Len(s.pdss) /\ PDSCount(b, o) + 1 = a

LEMMA AroundIs ==
    ASSUME NEW b, NEW gs, NEW ss, NEW n \in Nat, NEW P, NEW i \in 1 .. n, NEW s,
           NEW o \in Nat, NEW y \in Nat, NEW e \in Nat, Around(b, gs, ss, n, P, i, s, o, y, e)
    PROVE  /\ b \in Cells /\ ss \in Seq(SuperRec) /\ s \in SuperRec
           /\ HoldsSuper(b, o, y, s) /\ SupersFrom(gs) \in Nat
           /\ ArrayFrom(o, s) \in Nat /\ o + 7 <= ArrayFrom(o, s) /\ ArrayFrom(o, s) <= y /\ y <= e
           /\ CountsAt(b, o, y, s, ArrayFrom(o, s))
<1>1. /\ Layout(b, gs, ss) /\ Offsets(SupersFrom(gs), e, n, P) /\ HoldsSupers(b, ss, P)
      /\ Len(ss) = n /\ ss[i] = s /\ P[i] = o /\ P[i + 1] = y /\ Len(b) = e
  BY Zenon DEF Around
<1>2. b \in Cells /\ ss \in Seq(SuperRec) /\ gs \in Seq(Nat)
  BY <1>1, Zenon DEF Layout
<1>3. s \in SuperRec
  BY <1>1, <1>2
<1>4. HoldsSuper(b, o, y, s)
  BY <1>1, Zenon DEF HoldsSupers
<1>5. PICK t \in Nat : t = Len(s.tag)
  BY <1>3, RecordTypes
<1>6. o + 7 + t <= y /\ b[o + 1] = y - o /\ b[o + 7 + t] = Len(s.pdss) /\ y <= e
  BY <1>1, <1>4, <1>5, Zenon DEF HoldsSuper, ArrayFrom
<1>7. ArrayFrom(o, s) = o + 7 + t
  BY <1>5, Zenon DEF ArrayFrom
<1>8. SupersFrom(gs) \in Nat
  BY <1>2 DEF SupersFrom
<1>9. PDSCount(b, o) + 1 = ArrayFrom(o, s)
  BY <1>2, <1>3, <1>4, ReadsSuper, ZenonT(40)
<1>10. PICK a \in Nat : a = o + 7 + t /\ o + 7 <= a
  OBVIOUS
<1>11. CountsAt(b, o, y, s, a)
  BY <1>6, <1>7, <1>9, <1>10, Zenon DEF CountsAt
<1>12. QED
  BY <1>1, <1>2, <1>3, <1>4, <1>6, <1>7, <1>8, <1>10, <1>11, Zenon

LEMMA GrowsSuper ==
    ASSUME CountsFit, NEW b, NEW gs, NEW ss, NEW n \in Nat, NEW P, NEW i \in 1 .. n, NEW s,
           NEW o \in Nat, NEW y \in Nat, NEW e \in Nat, Around(b, gs, ss, n, P, i, s, o, y, e),
           NEW k \in Nat, NEW Q, NEW j \in 1 .. k + 1, NEW x \in Nat,
           Within(b, s, k, Q, j, x, ArrayFrom(o, s), y), NEW g \in Grids, NEW s2,
           s2 = WithPDSs(s, Inserted(s.pdss, j, PdsOf(g))), GoodSuper(gs, s2)
    PROVE  Layout(Grown(b, o, x, g), gs, Changed(ss, i, s2))
<1>1. /\ b \in Cells /\ ss \in Seq(SuperRec) /\ s \in SuperRec
      /\ HoldsSuper(b, o, y, s) /\ SupersFrom(gs) \in Nat
  BY AroundIs, Zenon
<1>2. PICK a \in Nat : a = ArrayFrom(o, s)
  BY AroundIs, Zenon
<1>3. /\ o + 7 <= a /\ a <= y /\ y <= e /\ b[o + 1] = y - o /\ b[a] = Len(s.pdss)
      /\ PDSCount(b, o) + 1 = a
  <2>1. o + 7 <= ArrayFrom(o, s) /\ ArrayFrom(o, s) <= y /\ y <= e
    BY AroundIs, Zenon
  <2>2. CountsAt(b, o, y, s, a)
    BY <1>2, AroundIs, Zenon
  <2>3. QED
    BY <1>2, <2>1, <2>2, Zenon DEF CountsAt
<1>4. Offsets(a, y, k, Q) /\ HoldsArray(b, s.pdss, Q) /\ IsAt(s.pdss, k, Q, j, x)
  BY <1>2, Zenon DEF Within
<1>5. /\ s.pdss \in Seq(PdsRec) /\ Len(s.pdss) = k /\ Q[j] = x
  BY <1>1, <1>4, RecordTypes, Zenon DEF IsAt
<1>6. a <= x /\ x <= y
  <2>1. \A l \in 1 .. k + 1 : a <= Q[l] /\ Q[l] <= y
    BY <1>4, OffsetsWithin
  <2>2. QED
    BY <1>5, <2>1, Zenon
<1>7. PICK new \in Cells : new = WritePDS(g)
  BY PDSCells, GridTypes
<1>8. PICK w \in Nat : w = Len(new)
  BY DEF Cells
<1>9. PICK q : q = Inserted(s.pdss, j, PdsOf(g)) /\ q \in Seq(PdsRec) /\ Len(q) = k + 1
  <2>1. PICK p : p = PdsOf(g) /\ p \in PdsRec
    BY GridTypes DEF PdsOf, PdsRec
  <2>2. Inserted(s.pdss, j, p) \in Seq(PdsRec) /\ ExtendsAt(Inserted(s.pdss, j, p), s.pdss, k, j, p)
    BY <1>5, <2>1, InsertedSeq
  <2>3. QED
    BY <2>1, <2>2, Zenon DEF ExtendsAt
<1>10. s2 = WithPDSs(s, q) /\ s2 \in SuperRec /\ s2.pdss = q
  BY <1>1, <1>9, WithPDSsTypes, Zenon
<1>11. (k + 1) % UShort2 = k + 1
  <2>1. Len(s2.pdss) < UShort2
    BY <1>10, PDSsCounted
  <2>2. k + 1 < UShort2
    BY <1>9, <1>10, <2>1, Zenon
  <2>3. QED
    BY <2>2, NoWrap
<1>12. Len(b) = e
  BY Zenon DEF Around
<1>13. PICK b1 : b1 = BufferInsert(b, x, new)
  OBVIOUS
<1>14. /\ b1 \in Cells /\ Len(b1) = e + w
       /\ \A l \in 1 .. x : b1[l] = b[l]
       /\ \A l \in 1 .. w : b1[x + l] = new[l]
       /\ \A l \in x + 1 .. e : b1[l + w] = b[l]
  <2>1. x \in 0 .. Len(b)
    BY <1>3, <1>6, <1>12
  <2>2. /\ b1 \in Cells /\ Len(b1) = Len(b) + Len(new)
        /\ \A l \in 1 .. x : b1[l] = b[l]
        /\ \A l \in 1 .. Len(new) : b1[x + l] = new[l]
        /\ \A l \in x + 1 .. Len(b) : b1[l + Len(new)] = b[l]
    BY <1>1, <1>13, <2>1, InsertCells
  <2>3. QED
    BY <1>8, <1>12, <2>2, Zenon
<1>15. b1[a] = k /\ b1[o + 1] = y - o
  <2>1. a \in 1 .. x /\ o + 1 \in 1 .. x
    BY <1>3, <1>6
  <2>2. QED
    BY <1>3, <1>5, <1>14, <2>1
<1>16. PICK b2 : b2 = Changed(b1, a, k + 1)
  OBVIOUS
<1>17. /\ b2 \in Cells /\ Len(b2) = e + w /\ b2[a] = k + 1
       /\ \A l \in 1 .. e + w : l # a => b2[l] = b1[l]
  <2>1. a \in 1 .. Len(b1) /\ k + 1 \in Nat
    BY <1>3, <1>14
  <2>2. b1 \in Cells
    BY <1>14
  <2>3. /\ b2 \in Cells /\ Len(b2) = Len(b1) /\ b2[a] = k + 1
        /\ \A l \in 1 .. Len(b1) : l # a => b2[l] = b1[l]
    BY <1>16, <2>1, <2>2, PutCells
  <2>4. QED
    BY <1>14, <2>3, Zenon
<1>18. PICK c \in Nat, v \in Nat : c = o + 1 /\ v = (y - o) + w
  <2>1. o + 1 \in Nat /\ (y - o) + w \in Nat
    BY <1>3
  <2>2. QED
    BY <2>1, Zenon
<1>19. b2[c] = y - o
  <2>1. c \in 1 .. e + w /\ c # a
    BY <1>3, <1>18
  <2>2. QED
    BY <1>15, <1>17, <1>18, <2>1
<1>20. PICK b3 : b3 = Changed(b2, c, v)
  OBVIOUS
<1>21. /\ b3 \in Cells /\ Len(b3) = e + w /\ b3[c] = v
       /\ \A l \in 1 .. e + w : l # c => b3[l] = b2[l]
  <2>1. c \in 1 .. Len(b2)
    BY <1>3, <1>17, <1>18
  <2>2. b2 \in Cells
    BY <1>17
  <2>3. /\ b3 \in Cells /\ Len(b3) = Len(b2) /\ b3[c] = v
        /\ \A l \in 1 .. Len(b2) : l # c => b3[l] = b2[l]
    BY <1>20, <2>1, <2>2, PutCells
  <2>4. QED
    BY <1>17, <2>3, Zenon
<1>22. Grown(b, o, x, g) = b3
  <2>1. Grown(b, o, x, g) = IncrCell(IncrShort(b1, PDSCount(b, o)), o, w)
    BY <1>7, <1>8, <1>13, Zenon DEF Grown
  <2>2. IncrShort(b1, PDSCount(b, o)) = [b1 EXCEPT ![a] = (b1[a] + 1) % UShort2]
    BY <1>3 DEF IncrShort
  <2>3. IncrShort(b1, PDSCount(b, o)) = b2
    BY <1>11, <1>15, <1>16, <2>2, Zenon DEF Changed
  <2>4. IncrCell(b2, o, w) = [b2 EXCEPT ![c] = b2[c] + w]
    BY <1>18 DEF IncrCell
  <2>5. b2[c] + w = v
    BY <1>18, <1>19
  <2>6. QED
    BY <1>20, <2>1, <2>3, <2>4, <2>5, Zenon DEF Changed
<1>23. \A l \in 1 .. x : l # a /\ l # c => b3[l] = b[l]
  <2>1. \A l \in 1 .. x : l \in 1 .. e + w
    BY <1>3, <1>6
  <2>2. QED
    BY <1>14, <1>17, <1>21, <2>1, Zenon
<1>24. Same(b, b3, 0, o) /\ Same(b, b3, o + 1, a - 1) /\ Same(b, b3, a, x)
  <2>1. \A l \in 0 + 1 .. o : l \in 1 .. x /\ l # a /\ l # c
    BY <1>3, <1>6, <1>18
  <2>2. \A l \in o + 1 + 1 .. a - 1 : l \in 1 .. x /\ l # a /\ l # c
    BY <1>3, <1>6, <1>18
  <2>3. \A l \in a + 1 .. x : l \in 1 .. x /\ l # a /\ l # c
    BY <1>3, <1>6, <1>18
  <2>4. QED
    BY <1>23, <2>1, <2>2, <2>3, Zenon DEF Same
<1>25. b3[a] = k + 1
  <2>1. a \in 1 .. e + w /\ a # c
    BY <1>3, <1>18
  <2>2. QED
    BY <1>17, <1>21, <2>1
<1>26. Moved(b, b3, x, e, w)
  <2>1. ASSUME NEW l \in x + 1 .. e PROVE b3[l + w] = b[l]
    <3>1. l + w \in 1 .. e + w /\ l + w # a /\ l + w # c
      BY <1>3, <1>6, <1>18
    <3>2. QED
      BY <1>14, <1>17, <1>21, <3>1
  <2>2. QED
    BY <2>1, Zenon DEF Moved
<1>27. Written(b3, x, new)
  <2>1. ASSUME NEW l \in 1 .. w PROVE b3[x + l] = new[l]
    <3>1. x + l \in 1 .. e + w /\ x + l # a /\ x + l # c
      BY <1>3, <1>6, <1>18
    <3>2. QED
      BY <1>14, <1>17, <1>21, <3>1
  <2>2. QED
    BY <1>8, <2>1, Zenon DEF Written
<1>28. PdsOf(g) \in PdsRec /\ HoldsPDS(b3, x, x + w, PdsOf(g))
  <2>1. Len(new) = 3 + Len(g.place) /\ Len(g.place) \in Nat
    BY <1>7, PDSCells, GridTypes
  <2>2. PICK u \in Nat : u = Len(g.place)
    BY <2>1, Zenon
  <2>2a. PICK z \in Nat : z = x + w
    OBVIOUS
  <2>2b. w = 3 + u
    BY <1>8, <2>1, <2>2, Zenon
  <2>3. z = x + 3 + u /\ z <= e + w
    BY <1>3, <1>6, <2>2a, <2>2b
  <2>4. z = x + 3 + Len(g.place) /\ z <= Len(b3)
    BY <1>21, <2>2, <2>3, Zenon
  <2>5. Written(b3, x, WritePDS(g))
    BY <1>7, <1>27, Zenon
  <2>6. PdsOf(g) \in PdsRec /\ HoldsPDS(b3, x, z, PdsOf(g))
    BY <2>4, <2>5, NewPDS
  <2>7. QED
    BY <2>2a, <2>6, Zenon
<1>29. PICK y2 \in Nat : y2 = y + w /\ y2 <= e + w /\ a <= y2 /\ v = y2 - o
  <2>1. y + w \in Nat /\ y + w <= e + w /\ a <= y + w /\ v = (y + w) - o
    BY <1>3, <1>18
  <2>2. QED
    BY <2>1, Zenon
<1>30. PICK R : Offsets(a, y2, k + 1, R) /\ HoldsArray(b3, q, R)
  <2>1. Moved(b, b3, x, y, w)
    <3>1. x <= x /\ y <= e
      BY <1>3
    <3>2. QED
      BY <1>26, <3>1 DEF Moved
  <2>2. Len(b3) \in Nat /\ y + w <= Len(b3)
    BY <1>21, <1>29
  <2>3. Shifts(b, b3, a, x, x, y, w)
    BY <1>24, <2>1, <2>2, Zenon DEF Shifts
  <2>4. PICK p \in PdsRec : p = PdsOf(g)
    BY <1>28
  <2>5. HoldsPDS(b3, x, x + w, p)
    BY <1>28, <2>4, Zenon
  <2>6. \E R : Offsets(a, y + w, k + 1, R) /\ HoldsArray(b3, Inserted(s.pdss, j, p), R)
    BY <1>4, <1>5, <2>3, <2>5, ArrayInserted
  <2>7. QED
    BY <1>9, <1>29, <2>4, <2>6, Zenon
<1>31. HoldsSuper(b3, o, y2, s2)
  <2>1. IsAt(q, k + 1, b3, a, k + 1)
    BY <1>9, <1>25, Zenon DEF IsAt
  <2>2. b3[o + 1] = y2 - o /\ y2 <= Len(b3)
    BY <1>18, <1>21, <1>29, Zenon
  <2>3. k + 1 \in Nat
    OBVIOUS
  <2>4. HoldsSuper(b3, o, y2, WithPDSs(s, q))
    BY <1>1, <1>2, <1>9, <1>24, <1>29, <1>30, <2>1, <2>2, <2>3, SuperRebuilt
  <2>5. QED
    BY <1>10, <2>4, Zenon
<1>32. Layout(b3, gs, Changed(ss, i, s2))
  <2>1. PICK f \in Nat : f = SupersFrom(gs)
    BY <1>1
  <2>2. /\ Layout(b, gs, ss) /\ Offsets(f, e, n, P) /\ HoldsSupers(b, ss, P)
        /\ IsAt(ss, n, P, i, o) /\ IsAt(ss, n, P, i + 1, y)
    BY <2>1, Zenon DEF Around, IsAt
  <2>3. P[1] = f
    BY <2>2, Zenon DEF Offsets
  <2>4. IsAt(b, e, P, 1, SupersFrom(gs))
    BY <1>12, <2>1, <2>3, Zenon DEF IsAt
  <2>5. Moved(b, b3, y, e, w)
    BY <1>6, <1>26 DEF Moved
  <2>6. PICK d \in Int : d = w
    OBVIOUS
  <2>7. /\ Len(b3) = e + d /\ HoldsSuper(b3, o, y + d, s2) /\ Moved(b, b3, y, e, d)
        /\ b3 \in Cells /\ s2 \in SuperRec /\ Same(b, b3, 0, o)
    BY <1>10, <1>21, <1>24, <1>29, <1>31, <2>5, <2>6, Zenon
  <2>8. QED
    BY <2>2, <2>4, <2>7, LayoutChanged
<1>33. QED
  BY <1>22, <1>32, Zenon

LEMMA SwapsSuper ==
    ASSUME NEW b, NEW gs, NEW ss, NEW n \in Nat, NEW P, NEW i \in 1 .. n, NEW s,
           NEW o \in Nat, NEW y \in Nat, NEW e \in Nat, Around(b, gs, ss, n, P, i, s, o, y, e),
           NEW k \in Nat, NEW Q, NEW j \in 1 .. k, NEW x \in Nat,
           Within(b, s, k, Q, j, x, ArrayFrom(o, s), y), NEW g \in Grids, NEW s2,
           s2 = WithPDSs(s, Changed(s.pdss, j, PdsOf(g)))
    PROVE  Layout(Swapped(b, o, x, g), gs, Changed(ss, i, s2))
<1>1. /\ b \in Cells /\ ss \in Seq(SuperRec) /\ s \in SuperRec
      /\ HoldsSuper(b, o, y, s) /\ SupersFrom(gs) \in Nat
  BY AroundIs, Zenon
<1>2. PICK a \in Nat : a = ArrayFrom(o, s)
  BY AroundIs, Zenon
<1>3. /\ o + 7 <= a /\ a <= y /\ y <= e /\ b[o + 1] = y - o /\ b[a] = Len(s.pdss)
  <2>1. o + 7 <= ArrayFrom(o, s) /\ ArrayFrom(o, s) <= y /\ y <= e
    BY AroundIs, Zenon
  <2>2. CountsAt(b, o, y, s, a)
    BY <1>2, AroundIs, Zenon
  <2>3. QED
    BY <1>2, <2>1, <2>2, Zenon DEF CountsAt
<1>4. Offsets(a, y, k, Q) /\ HoldsArray(b, s.pdss, Q) /\ IsAt(s.pdss, k, Q, j, x)
  BY <1>2, Zenon DEF Within
<1>5. s.pdss \in Seq(PdsRec) /\ Len(s.pdss) = k /\ Q[j] = x
  BY <1>1, <1>4, RecordTypes, Zenon DEF IsAt
<1>6. /\ \A l \in 1 .. k + 1 : Q[l] \in Nat /\ a <= Q[l] /\ Q[l] <= y
      /\ \A l \in 1 .. k : Q[l] <= Q[l + 1] /\ l + 1 \in 1 .. k + 1 /\ l \in 1 .. k + 1
  BY <1>4, OffsetsWithin
<1>7. PICK z \in Nat : z = Q[j + 1] /\ a <= x /\ x <= z /\ z <= y
  <2>1. j \in 1 .. k + 1 /\ j + 1 \in 1 .. k + 1
    OBVIOUS
  <2>2. Q[j + 1] \in Nat /\ a <= Q[j] /\ Q[j] <= Q[j + 1] /\ Q[j + 1] <= y
    BY <1>6, <2>1
  <2>3. QED
    BY <1>5, <2>2, Zenon
<1>8. PICK old \in Nat : old = At(b, x) /\ x + old = z
  <2>1. PICK p \in PdsRec : p = s.pdss[j]
    BY <1>5
  <2>2. HoldsPDS(b, x, z, p)
    BY <1>4, <1>5, <1>7, <2>1, Zenon DEF HoldsArray
  <2>3. x + At(b, x) = z /\ At(b, x) = Len(p.place) + 3 /\ Len(p.place) \in Nat
    BY <1>1, <2>2, ReadsPDS, PdsTypes
  <2>4. At(b, x) \in Nat
    BY <2>3
  <2>5. QED
    BY <2>3, <2>4, Zenon
<1>8a. x + old = z
  BY <1>8, Zenon
<1>8b. o + 7 <= a /\ a <= x /\ x <= z /\ z <= y /\ y <= e
  BY <1>3, <1>7, Zenon
<1>9. PICK new \in Cells : new = WritePDS(g)
  BY PDSCells, GridTypes
<1>10. PICK w \in Nat : w = Len(new)
  BY DEF Cells
<1>11. PICK q : q = Changed(s.pdss, j, PdsOf(g)) /\ q \in Seq(PdsRec) /\ Len(q) = k
  <2>1. PICK p : p = PdsOf(g) /\ p \in PdsRec
    BY GridTypes DEF PdsOf, PdsRec
  <2>2. Changed(s.pdss, j, p) \in Seq(PdsRec) /\ ReplacesAt(Changed(s.pdss, j, p), s.pdss, k, j, p)
    BY <1>5, <2>1, ChangedSeq
  <2>3. QED
    BY <2>1, <2>2, Zenon DEF ReplacesAt
<1>12. s2 = WithPDSs(s, q) /\ s2 \in SuperRec /\ s2.pdss = q
  BY <1>1, <1>11, WithPDSsTypes, Zenon
<1>13. Len(b) = e
  BY Zenon DEF Around
<1>14. PICK d \in Int : d = w - old
  OBVIOUS
<1>15. PICK b1 : b1 = BufferRemove(b, x, old)
  OBVIOUS
<1>16. /\ b1 \in Cells /\ Len(b1) = e - old
       /\ \A l \in 1 .. x : b1[l] = b[l]
       /\ \A l \in z + 1 .. e : b1[l - old] = b[l]
  <2>1. x + old <= Len(b)
    <3>1. x + old <= e
      BY <1>8a, <1>8b
    <3>2. QED
      BY <1>13, <3>1, Zenon
  <2>2. /\ b1 \in Cells /\ Len(b1) = Len(b) - old
        /\ \A l \in 1 .. x : b1[l] = b[l]
        /\ \A l \in x + old + 1 .. Len(b) : b1[l - old] = b[l]
    <3>1. /\ BufferRemove(b, x, old) \in Cells /\ Len(BufferRemove(b, x, old)) = Len(b) - old
          /\ \A l \in 1 .. x : BufferRemove(b, x, old)[l] = b[l]
          /\ \A l \in x + old + 1 .. Len(b) : BufferRemove(b, x, old)[l - old] = b[l]
      BY <1>1, <2>1, RemoveCells
    <3>2. QED
      BY <1>15, <3>1, Zenon
  <2>3. QED
    BY <1>8, <1>13, <2>2, Zenon
<1>17. PICK b2 : b2 = BufferInsert(b1, x, new)
  OBVIOUS
<1>18. PICK e1 \in Nat : e1 = e - old /\ x <= e1 /\ Len(b1) = e1
  <2>1. e - old \in Nat /\ x <= e - old
    BY <1>8a, <1>8b
  <2>2. QED
    BY <1>16, <2>1, Zenon
<1>19. /\ b2 \in Cells /\ Len(b2) = e1 + w
       /\ \A l \in 1 .. x : b2[l] = b1[l]
       /\ \A l \in 1 .. w : b2[x + l] = new[l]
       /\ \A l \in x + 1 .. e1 : b2[l + w] = b1[l]
  <2>1. x \in 0 .. Len(b1) /\ b1 \in Cells
    BY <1>16, <1>18
  <2>2. /\ b2 \in Cells /\ Len(b2) = Len(b1) + Len(new)
        /\ \A l \in 1 .. x : b2[l] = b1[l]
        /\ \A l \in 1 .. Len(new) : b2[x + l] = new[l]
        /\ \A l \in x + 1 .. Len(b1) : b2[l + Len(new)] = b1[l]
    BY <1>17, <2>1, InsertCells
  <2>3. QED
    BY <1>10, <1>18, <2>2, Zenon
<1>20. PICK c \in Nat, v \in Nat : c = o + 1 /\ v = (y - o) + d
  <2>1. o + 1 \in Nat /\ (y - o) + d \in Nat
    BY <1>8a, <1>8b, <1>14
  <2>2. QED
    BY <2>1, Zenon
<1>21. b2[c] = y - o
  <2>1. c \in 1 .. x
    BY <1>3, <1>7, <1>20
  <2>2. QED
    BY <1>3, <1>16, <1>19, <1>20, <2>1, Zenon
<1>22. PICK b3 : b3 = Changed(b2, c, v)
  OBVIOUS
<1>23. /\ b3 \in Cells /\ Len(b3) = e1 + w /\ b3[c] = v
       /\ \A l \in 1 .. e1 + w : l # c => b3[l] = b2[l]
  <2>1. c \in 1 .. Len(b2)
    BY <1>3, <1>7, <1>18, <1>19, <1>20
  <2>2. b2 \in Cells
    BY <1>19
  <2>3. /\ b3 \in Cells /\ Len(b3) = Len(b2) /\ b3[c] = v
        /\ \A l \in 1 .. Len(b2) : l # c => b3[l] = b2[l]
    BY <1>22, <2>1, <2>2, PutCells
  <2>4. QED
    BY <1>19, <2>3, Zenon
<1>24. e1 + w = e + d
  BY <1>14, <1>18
<1>25. Swapped(b, o, x, g) = b3
  <2>1. Swapped(b, o, x, g) = IncrCell(b2, o, w - old)
    BY <1>8, <1>9, <1>10, <1>15, <1>17, Zenon DEF Swapped
  <2>2. IncrCell(b2, o, d) = [b2 EXCEPT ![c] = b2[c] + d]
    BY <1>20 DEF IncrCell
  <2>3. b2[c] + d = v
    BY <1>20, <1>21
  <2>4. QED
    BY <1>14, <1>22, <2>1, <2>2, <2>3, Zenon DEF Changed
<1>26. \A l \in 1 .. x : l # c => b3[l] = b[l]
  <2>1. \A l \in 1 .. x : l \in 1 .. e1 + w
    BY <1>18
  <2>2. QED
    BY <1>16, <1>19, <1>23, <2>1, Zenon
<1>27. Same(b, b3, 0, o) /\ Same(b, b3, o + 1, a - 1) /\ Same(b, b3, a, x) /\ b3[a] = k
  <2>1. \A l \in 0 + 1 .. o : l \in 1 .. x /\ l # c
    BY <1>3, <1>7, <1>20
  <2>2. \A l \in o + 1 + 1 .. a - 1 : l \in 1 .. x /\ l # c
    BY <1>3, <1>7, <1>20
  <2>3. \A l \in a + 1 .. x : l \in 1 .. x /\ l # c
    BY <1>3, <1>7, <1>20
  <2>4. a \in 1 .. x /\ a # c
    BY <1>3, <1>7, <1>20
  <2>5. QED
    BY <1>3, <1>5, <1>26, <2>1, <2>2, <2>3, <2>4, Zenon DEF Same
<1>28. Moved(b, b3, z, e, d)
  <2>1. ASSUME NEW l \in z + 1 .. e PROVE b3[l + d] = b[l]
    <3>1. PICK m \in Int : m = l - old
      OBVIOUS
    <3>2. m \in x + 1 .. e1 /\ m + w = l + d
      <4>1. e1 = e - old
        BY <1>18, Zenon
      <4>2. QED
        BY <1>8a, <1>8b, <1>14, <3>1, <4>1
    <3>3. m + w \in 1 .. e1 + w /\ m + w # c
      BY <1>3, <1>7, <1>20, <3>2
    <3>4. b3[m + w] = b2[m + w] /\ b2[m + w] = b1[m] /\ b1[m] = b[l]
      BY <1>16, <1>19, <1>23, <3>1, <3>2, <3>3, Zenon
    <3>5. QED
      BY <3>2, <3>4, Zenon
  <2>2. QED
    BY <2>1, Zenon DEF Moved
<1>29. Written(b3, x, new)
  <2>1. ASSUME NEW l \in 1 .. w PROVE b3[x + l] = new[l]
    <3>1. x + l \in 1 .. e1 + w /\ x + l # c
      BY <1>3, <1>7, <1>18, <1>20
    <3>2. QED
      BY <1>19, <1>23, <3>1
  <2>2. QED
    BY <1>10, <2>1, Zenon DEF Written
<1>30. PICK u \in Nat : u = Len(g.place) /\ w = 3 + u
  <2>1. Len(new) = 3 + Len(g.place) /\ Len(g.place) \in Nat
    BY <1>9, PDSCells, GridTypes
  <2>2. QED
    BY <1>10, <2>1, Zenon
<1>31. PICK x2 \in Nat : x2 = x + w /\ x2 = z + d /\ x2 = x + 3 + u /\ x2 <= e + d
  <2>1. x + w \in Nat /\ x + w = z + d /\ x + w = x + 3 + u /\ x + w <= e + d
    <3>1. w = 3 + u
      BY <1>30, Zenon
    <3>2. QED
      BY <1>8a, <1>8b, <1>14, <3>1
  <2>2. QED
    BY <2>1, Zenon
<1>32. PdsOf(g) \in PdsRec /\ HoldsPDS(b3, x, x2, PdsOf(g))
  <2>1. x2 = x + 3 + Len(g.place) /\ x2 <= Len(b3)
    BY <1>23, <1>24, <1>30, <1>31, Zenon
  <2>2. Written(b3, x, WritePDS(g))
    BY <1>9, <1>29, Zenon
  <2>3. QED
    BY <2>1, <2>2, NewPDS
<1>33. PICK y2 \in Nat : y2 = y + d /\ y2 <= e + d /\ a <= y2 /\ v = y2 - o
  <2>1. y + d \in Nat /\ y + d <= e + d /\ a <= y + d /\ v = (y + d) - o
    <3>1. v = (y - o) + d /\ x + w = z + d
      BY <1>20, <1>31, Zenon
    <3>2. QED
      BY <1>8b, <3>1
  <2>2. QED
    BY <2>1, Zenon
<1>34. PICK R : Offsets(a, y2, k, R) /\ HoldsArray(b3, q, R)
  <2>1. Moved(b, b3, z, y, d)
    BY <1>3, <1>28 DEF Moved
  <2>2. Len(b3) \in Nat /\ y + d <= Len(b3)
    BY <1>23, <1>24, <1>33
  <2>3. Shifts(b, b3, a, x, z, y, d)
    BY <1>27, <2>1, <2>2, Zenon DEF Shifts
  <2>4. PICK p \in PdsRec : p = PdsOf(g)
    BY <1>32
  <2>5. HoldsPDS(b3, x, z + d, p)
    BY <1>31, <1>32, <2>4, Zenon
  <2>6. IsAt(s.pdss, k, Q, j + 1, z)
    BY <1>5, <1>7, Zenon DEF IsAt
  <2>7. \E R : Offsets(a, y + d, k, R) /\ HoldsArray(b3, Changed(s.pdss, j, p), R)
    BY <1>4, <1>5, <2>3, <2>5, <2>6, ArrayChanged
  <2>8. QED
    BY <1>11, <1>33, <2>4, <2>7, Zenon
<1>35. HoldsSuper(b3, o, y2, s2)
  <2>1. IsAt(q, k, b3, a, k)
    BY <1>11, <1>27, Zenon DEF IsAt
  <2>2. b3[o + 1] = y2 - o /\ y2 <= Len(b3)
    BY <1>20, <1>23, <1>24, <1>33, Zenon
  <2>3. HoldsSuper(b3, o, y2, WithPDSs(s, q))
    BY <1>1, <1>2, <1>11, <1>27, <1>33, <1>34, <2>1, <2>2, SuperRebuilt
  <2>4. QED
    BY <1>12, <2>3, Zenon
<1>36. Layout(b3, gs, Changed(ss, i, s2))
  <2>1. PICK f \in Nat : f = SupersFrom(gs)
    BY <1>1
  <2>2. /\ Layout(b, gs, ss) /\ Offsets(f, e, n, P) /\ HoldsSupers(b, ss, P)
        /\ IsAt(ss, n, P, i, o) /\ IsAt(ss, n, P, i + 1, y)
    BY <2>1, Zenon DEF Around, IsAt
  <2>3. P[1] = f
    BY <2>2, Zenon DEF Offsets
  <2>4. IsAt(b, e, P, 1, SupersFrom(gs))
    BY <1>13, <2>1, <2>3, Zenon DEF IsAt
  <2>5. Moved(b, b3, y, e, d)
    BY <1>7, <1>28 DEF Moved
  <2>6. /\ Len(b3) = e + d /\ HoldsSuper(b3, o, y + d, s2)
        /\ b3 \in Cells /\ s2 \in SuperRec /\ Same(b, b3, 0, o)
    BY <1>12, <1>23, <1>24, <1>27, <1>33, <1>35, Zenon
  <2>7. QED
    BY <2>2, <2>4, <2>5, <2>6, LayoutChanged
<1>37. QED
  BY <1>25, <1>36, Zenon

(***************************************************************************)
(* The search of InsertPDS among the super headers.                        *)
(***************************************************************************)

ComesBefore(ss, i, g, num) ==
    /\ i \in 1 .. Len(ss) + 1
    /\ \A l \in 1 .. i - 1 : ~Follows(ss[l], g) /\ ~IsOwn(ss[l], g, num)
    /\ i <= Len(ss) => Follows(ss[i], g)
IsThere(ss, i, g, num) == i \in 1 .. Len(ss) /\ IsOwn(ss[i], g, num)

LEMMA SearchesSupers ==
    ASSUME NEW b, NEW gs, NEW ss, Layout(b, gs, ss), NEW g \in Grids, NEW num \in Nat
    PROVE  \E P, i : /\ Offsets(SupersFrom(gs), Len(b), Len(ss), P) /\ HoldsSupers(b, ss, P)
                     /\ \/ /\ ComesBefore(ss, i, g, num)
                           /\ InsertPDS(b, g, num) =
                                 InsertSuper(b, P[i], WriteSupPDS(g, num), WritePDS(g))
                        \/ /\ IsThere(ss, i, g, num)
                           /\ InsertPDS(b, g, num) = InsertInto(b, P[i], g)
<1>1. PICK P : /\ Offsets(SupersFrom(gs), Len(b), Len(ss), P) /\ HoldsSupers(b, ss, P)
               /\ \A i \in 1 .. Len(ss) + 1 : SuperAt(b)[i] = P[i]
  BY ReadsOffsets
<1>2. b \in Cells /\ gs \in Seq(Nat) /\ ss \in Seq(SuperRec)
  BY DEF Layout
<1>3. PICK n \in Nat : n = Len(ss)
  BY <1>2
<1>4. \A i \in 1 .. n : ss[i] \in SuperRec
  BY <1>2, <1>3
<1>5. \A i \in 1 .. n : P[i] \in Nat /\ P[i + 1] \in Nat
  BY <1>1, <1>3, OffsetsWithin
<1>6. NumSuper(b) = n
  BY <1>3, ReadsGDSs
<1> DEFINE at == SuperAt(b)
           head == WriteSupPDS(g, num)
           stops == {i \in 1 .. n : SortsAfter(b, at[i], g) \/ IsSameSuper(b, at[i], head)}
           i0 == IF stops = {} THEN n + 1 ELSE First(stops)
           pos == at[i0]
<1>7. \A i \in 1 .. n : /\ SortsAfter(b, P[i], g) <=> Follows(ss[i], g)
                        /\ IsSameSuper(b, P[i], head) <=> IsOwn(ss[i], g, num)
  <2>1. TAKE i \in 1 .. n
  <2>2. PICK x \in Nat, y \in Nat, s \in SuperRec : x = P[i] /\ y = P[i + 1] /\ s = ss[i]
    BY <1>4, <1>5
  <2>3. HoldsSuper(b, x, y, s)
    BY <1>1, <1>3, <2>2, Zenon DEF HoldsSupers
  <2>4. g.tag \in Seq(Nat) /\ g.element \in Nat /\ g.refTime \in Nat
    BY GridTypes
  <2>5. /\ SortsAfter(b, x, g) <=> Follows(s, g)
        /\ IsSameSuper(b, x, WriteSupPDS(g, num)) <=> IsOwn(s, g, num)
    BY <1>2, <2>3, <2>4, ComparesRecords
  <2>6. QED
    BY <2>2, <2>5, Zenon
<1>8. \A i \in 1 .. n + 1 : at[i] = P[i]
  BY <1>1, <1>3, Zenon
<1>9. InsertPDS(b, g, num) = IF stops # {} /\ ~SortsAfter(b, pos, g)
                             THEN InsertInto(b, pos, g)
                             ELSE InsertSuper(b, pos, head, WritePDS(g))
  BY <1>6, Zenon DEF InsertPDS
<1> HIDE DEF at, head
<1>10. \A i \in 1 .. n : i \in 1 .. n + 1
  OBVIOUS
<1>11. \A i : i \in stops <=> i \in 1 .. n /\ (Follows(ss[i], g) \/ IsOwn(ss[i], g, num))
  BY <1>7, <1>8, <1>10, Zenon
<1> HIDE DEF stops
<1>12. CASE stops = {}
  <2>1. i0 = n + 1 /\ n + 1 \in 1 .. n + 1
    BY <1>12
  <2>2. \A l \in 1 .. n : ~Follows(ss[l], g) /\ ~IsOwn(ss[l], g, num)
    BY <1>11, <1>12, Zenon
  <2>3. ComesBefore(ss, n + 1, g, num)
    <3>1. (n + 1) - 1 = n /\ ~(n + 1 <= n)
      OBVIOUS
    <3>2. QED
      BY <1>3, <2>1, <2>2, <3>1, Zenon DEF ComesBefore
  <2>4. InsertPDS(b, g, num) = InsertSuper(b, P[n + 1], head, WritePDS(g))
    BY <1>8, <1>9, <1>12, <2>1, Zenon
  <2>5. QED
    BY <1>1, <2>3, <2>4, Zenon DEF head
<1>13. CASE stops # {}
  <2>1. stops \subseteq Nat
    BY <1>11
  <2>2. PICK i : i = First(stops) /\ i \in stops /\ \A l \in stops : i <= l
    BY <1>13, <2>1, FirstIs
  <2>3. i0 = i
    BY <1>13, <2>2
  <2>4. i \in 1 .. n /\ (Follows(ss[i], g) \/ IsOwn(ss[i], g, num))
    BY <1>11, <2>2, Zenon
  <2>5. \A l \in 1 .. i - 1 : ~Follows(ss[l], g) /\ ~IsOwn(ss[l], g, num)
    <3>1. TAKE l \in 1 .. i - 1
    <3>2. l \in 1 .. n /\ ~(i <= l)
      BY <2>4
    <3>3. l \notin stops
      BY <2>2, <3>2, Zenon
    <3>4. QED
      BY <1>11, <3>2, <3>3, Zenon
  <2>6. pos = P[i] /\ (SortsAfter(b, P[i], g) <=> Follows(ss[i], g))
    BY <1>7, <1>8, <1>10, <2>3, <2>4, Zenon
  <2>7. CASE Follows(ss[i], g)
    <3>1. InsertPDS(b, g, num) = InsertSuper(b, P[i], head, WritePDS(g))
      BY <1>9, <2>6, <2>7, Zenon
    <3>2. i \in 1 .. n + 1
      BY <1>10, <2>4, Zenon
    <3>3. ComesBefore(ss, i, g, num)
      BY <1>3, <2>5, <2>7, <3>2, Zenon DEF ComesBefore
    <3>4. QED
      BY <1>1, <3>1, <3>3, Zenon DEF head
  <2>8. CASE ~Follows(ss[i], g)
    <3>1. InsertPDS(b, g, num) = InsertInto(b, P[i], g)
      BY <1>9, <1>13, <2>6, <2>8, Zenon
    <3>2. IsThere(ss, i, g, num)
      BY <1>3, <2>4, <2>8, Zenon DEF IsThere
    <3>3. QED
      BY <1>1, <3>1, <3>2, Zenon
  <2>9. QED
    BY <2>7, <2>8
<1>14. QED
  BY <1>12, <1>13

(***************************************************************************)
(* The index stays good.                                                   *)
(***************************************************************************)

(* The new super header is between those it has to be between.             *)
LEMMA NewComes ==
    ASSUME NEW ss \in Seq(SuperRec), Sorted(ss), NEW g \in Grids, NEW num \in Nat, NEW i,
           ComesBefore(ss, i, g, num)
    PROVE  /\ \A l \in 1 .. i - 1 : Comes(ss[l], SuperOf(g, num))
           /\ \A l \in i .. Len(ss) : Comes(SuperOf(g, num), ss[l])
           /\ \A l \in 1 .. Len(ss) : ~IsOwn(ss[l], g, num)
<1>1. PICK n \in Nat : n = Len(ss) /\ \A l \in 1 .. n : ss[l] \in SuperRec
  OBVIOUS
<1>2. /\ i \in 1 .. n + 1
      /\ \A l \in 1 .. i - 1 : ~Follows(ss[l], g) /\ ~IsOwn(ss[l], g, num)
      /\ i <= n => Follows(ss[i], g)
  BY <1>1, Zenon DEF ComesBefore
<1>3. PICK s : s = SuperOf(g, num)
  OBVIOUS
<1>4. s.element = g.element /\ s.refTime = g.refTime /\ s.tag = g.tag /\ s.gdsNum = num
  BY <1>3, SuperOfTypes, Zenon
<1>5. PICK E \in Nat, T \in Nat : E = g.element /\ T = g.refTime
  BY GridTypes
<1>6. ASSUME NEW l \in 1 .. i - 1 PROVE Comes(ss[l], s)
  <2>1. l \in 1 .. n
    BY <1>2
  <2>2. PICK El \in Nat, Tl \in Nat : El = ss[l].element /\ Tl = ss[l].refTime
    BY <1>1, <2>1, RecordTypes
  <2>3. ~(El > E \/ (El = E /\ Tl < T))
    BY <1>2, <1>5, <1>6, <2>2, Zenon DEF Follows
  <2>4. El < E \/ (El = E /\ Tl >= T)
    BY <2>3
  <2>5. ~(El = E /\ Tl = T /\ ss[l].tag = g.tag /\ ss[l].gdsNum = num)
    BY <1>2, <1>5, <1>6, <2>2, Zenon DEF IsOwn
  <2>6. QED
    BY <1>4, <1>5, <2>2, <2>4, <2>5, Zenon DEF Comes
<1>7. ASSUME NEW l \in i .. n PROVE Comes(s, ss[l]) /\ ~IsOwn(ss[l], g, num)
  <2>1. i \in 1 .. n /\ l \in 1 .. n /\ i <= n /\ (i = l \/ i < l)
    BY <1>2
  <2>2. PICK El \in Nat, Tl \in Nat : El = ss[l].element /\ Tl = ss[l].refTime
    BY <1>1, <2>1, RecordTypes
  <2>3. PICK Ei \in Nat, Ti \in Nat : Ei = ss[i].element /\ Ti = ss[i].refTime
    BY <1>1, <2>1, RecordTypes
  <2>4. Ei > E \/ (Ei = E /\ Ti < T)
    BY <1>2, <1>5, <2>1, <2>3, Zenon DEF Follows
  <2>5. (Ei = El /\ Ti = Tl) \/ Ei < El \/ (Ei = El /\ Ti >= Tl)
    <3>1. CASE i = l
      BY <2>2, <2>3, <3>1
    <3>2. CASE i < l
      <4>1. Comes(ss[i], ss[l])
        BY <1>1, <2>1, <3>2, Zenon DEF Sorted
      <4>2. QED
        BY <2>2, <2>3, <4>1, Zenon DEF Comes
    <3>3. QED
      BY <2>1, <3>1, <3>2
  <2>6. (E < El \/ (E = El /\ T >= Tl)) /\ (E # El \/ T # Tl)
    BY <2>4, <2>5
  <2>7. QED
    BY <1>4, <1>5, <2>2, <2>6, Zenon DEF Comes, IsOwn
<1>8. \A l \in 1 .. n : ~IsOwn(ss[l], g, num)
  <2>1. \A l \in 1 .. n : l \in 1 .. i - 1 \/ l \in i .. n
    BY <1>2
  <2>2. QED
    BY <1>2, <1>7, <2>1, Zenon
<1>9. QED
  BY <1>1, <1>3, <1>6, <1>7, <1>8, Zenon

(* A new super header is good.                                             *)
LEMMA NewSuperIsGood ==
    ASSUME NEW gs \in Seq(Nat), NEW g \in Grids, NEW num \in 1 .. Len(gs), gs[num] = g.gds
    PROVE  GoodSuper(gs, SuperOf(g, num))
<1>1. num \in Nat
  OBVIOUS
<1>2. PICK s \in SuperRec : s = SuperOf(g, num)
  BY <1>1, SuperOfTypes
<1>3. /\ s.element = g.element /\ s.refTime = g.refTime /\ s.tag = g.tag /\ s.gdsNum = num
      /\ Len(s.pdss) = 1 /\ s.pdss[1] = PdsOf(g)
  BY <1>1, <1>2, SuperOfTypes, Zenon
<1>4. TimesSorted(s)
  BY <1>3 DEF TimesSorted
<1>5. PdsOf(g).validTime = g.validTime
  BY DEF PdsOf
<1>6. KeyOf(g) = KeyAt(gs, s, s.pdss[1])
  BY <1>3, <1>5, Zenon DEF KeyOf, KeyAt
<1>7. \A j \in 1 .. Len(s.pdss) : \E h \in Grids : KeyOf(h) = KeyAt(gs, s, s.pdss[j])
  <2>1. TAKE j \in 1 .. Len(s.pdss)
  <2>2. j = 1
    BY <1>3
  <2>3. QED
    BY <1>6, <2>2, Zenon
<1>8. Len(s.pdss) > 0 /\ s.gdsNum \in 1 .. Len(gs)
  BY <1>3
<1>9. QED
  BY <1>2, <1>4, <1>7, <1>8, Zenon DEF GoodSuper

LEMMA NewIsGood ==
    ASSUME NEW gs \in Seq(Nat), NEW ss \in Seq(SuperRec), Good(gs, ss), NEW g \in Grids,
           NEW num \in 1 .. Len(gs), gs[num] = g.gds, NEW i, ComesBefore(ss, i, g, num)
    PROVE  Good(gs, Inserted(ss, i, SuperOf(g, num)))
<1>1. PICK n \in Nat : n = Len(ss)
  OBVIOUS
<1>2. num \in Nat
  OBVIOUS
<1>3. PICK s \in SuperRec : s = SuperOf(g, num)
  BY <1>2, SuperOfTypes
<1>4. i \in 1 .. n + 1
  BY <1>1 DEF ComesBefore
<1>5. PICK q : q = Inserted(ss, i, s)
  OBVIOUS
<1>6. ExtendsAt(q, ss, n, i, s)
  BY <1>1, <1>4, <1>5, InsertedSeq, Zenon
<1>7. /\ Len(q) = n + 1 /\ q[i] = s
      /\ \A k \in 1 .. i - 1 : q[k] = ss[k]
      /\ \A k \in i + 1 .. n + 1 : q[k] = ss[k - 1]
  BY <1>6, Zenon DEF ExtendsAt
<1>8. /\ \A l \in 1 .. i - 1 : Comes(ss[l], s)
      /\ \A l \in i .. n : Comes(s, ss[l])
  BY <1>1, <1>2, <1>3, NewComes DEF Good
<1>9. \A k, l \in 1 .. n : k < l => Comes(ss[k], ss[l])
  BY <1>1 DEF Good, Sorted
<1>10. ASSUME NEW k \in 1 .. n + 1, NEW l \in 1 .. n + 1, k < l
       PROVE  Comes(q[k], q[l])
  <2>1. CASE l < i
    <3>1. k \in Nat /\ l \in Nat /\ i \in Nat /\ 1 <= k /\ k < i /\ 1 <= l /\ i <= n + 1
      BY <1>4, <1>10, <2>1
    <3>2. k \in 1 .. i - 1 /\ l \in 1 .. i - 1
      BY <2>1, <3>1
    <3>3. k \in 1 .. n /\ l \in 1 .. n
      BY <2>1, <3>1
    <3>4. QED
      BY <1>7, <1>9, <1>10, <3>2, <3>3, Zenon
  <2>2. CASE l = i
    <3>1. k \in 1 .. i - 1
      BY <1>4, <1>10, <2>2
    <3>2. QED
      BY <1>7, <1>8, <2>2, <3>1, Zenon
  <2>3. CASE l > i
    <3>0. l \in Nat /\ i \in Nat /\ 1 <= i /\ l <= n + 1
      BY <1>4
    <3>1. l \in i + 1 .. n + 1 /\ l - 1 \in 1 .. n /\ l - 1 \in i .. n
      BY <2>3, <3>0
    <3>2. CASE k < i
      <4>1. k \in 1 .. i - 1 /\ k \in 1 .. n /\ k < l - 1
        BY <1>4, <2>3, <3>2
      <4>2. QED
        BY <1>7, <1>9, <3>1, <4>1, Zenon
    <3>3. CASE k = i
      BY <1>7, <1>8, <3>1, <3>3, Zenon
    <3>4. CASE k > i
      <4>1. k \in i + 1 .. n + 1 /\ k - 1 \in 1 .. n /\ k - 1 < l - 1
        BY <1>4, <1>10, <3>4
      <4>2. QED
        BY <1>7, <1>9, <3>1, <4>1, Zenon
    <3>5. QED
      BY <1>4, <3>2, <3>3, <3>4
  <2>4. QED
    BY <1>4, <2>1, <2>2, <2>3
<1>11. Sorted(q)
  BY <1>7, <1>10, Zenon DEF Sorted
<1>12. GoodSuper(gs, s)
  BY <1>3, NewSuperIsGood, Zenon
<1>13. \A l \in 1 .. n : GoodSuper(gs, ss[l])
  BY <1>1 DEF Good
<1>14. ASSUME NEW k \in 1 .. n + 1 PROVE GoodSuper(gs, q[k])
  <2>1. CASE k < i
    <3>1. k \in 1 .. i - 1 /\ k \in 1 .. n
      BY <1>4, <2>1
    <3>2. QED
      BY <1>7, <1>13, <3>1, Zenon
  <2>2. CASE k = i
    BY <1>7, <1>12, <2>2, Zenon
  <2>3. CASE k > i
    <3>1. k \in i + 1 .. n + 1 /\ k - 1 \in 1 .. n
      BY <1>4, <2>3
    <3>2. QED
      BY <1>7, <1>13, <3>1, Zenon
  <2>4. QED
    BY <1>4, <2>1, <2>2, <2>3
<1>15. Good(gs, q)
  BY <1>7, <1>11, <1>14, Zenon DEF Good
<1>16. QED
  BY <1>3, <1>5, <1>15, Zenon

(* A super header that took in a PDS has the fields it had.                *)
SameHead(s, s2) == /\ s2.element = s.element /\ s2.refTime = s.refTime
                   /\ s2.tag = s.tag /\ s2.gdsNum = s.gdsNum

LEMMA ChangedIsGood ==
    ASSUME NEW gs, NEW ss \in Seq(SuperRec), Good(gs, ss), NEW i \in 1 .. Len(ss),
           NEW s2 \in SuperRec, SameHead(ss[i], s2), GoodSuper(gs, s2)
    PROVE  Good(gs, Changed(ss, i, s2))
<1>1. PICK n \in Nat : n = Len(ss)
  OBVIOUS
<1>2. PICK q : q = Changed(ss, i, s2)
  OBVIOUS
<1>3. ReplacesAt(q, ss, n, i, s2)
  BY <1>1, <1>2, ChangedSeq, Zenon
<1>4. Len(q) = n /\ q[i] = s2 /\ \A k \in 1 .. n : k # i => q[k] = ss[k]
  BY <1>3, Zenon DEF ReplacesAt
<1>5. \A k, l \in 1 .. n : k < l => Comes(ss[k], ss[l])
  BY <1>1 DEF Good, Sorted
<1>6. ASSUME NEW k \in 1 .. n PROVE SameHead(ss[k], q[k])
  <2>1. CASE k = i
    BY <1>4, <2>1, Zenon
  <2>2. CASE k # i
    BY <1>4, <2>2, Zenon DEF SameHead
  <2>3. QED
    BY <2>1, <2>2
<1>7. ASSUME NEW k \in 1 .. n, NEW l \in 1 .. n, k < l PROVE Comes(q[k], q[l])
  <2>1. Comes(ss[k], ss[l])
    BY <1>5, <1>7, Zenon
  <2>2. SameHead(ss[k], q[k]) /\ SameHead(ss[l], q[l])
    BY <1>6, Zenon
  <2>3. QED
    BY <2>1, <2>2, Zenon DEF Comes, SameHead
<1>8. Sorted(q)
  BY <1>4, <1>7, Zenon DEF Sorted
<1>9. \A k \in 1 .. n : GoodSuper(gs, q[k])
  BY <1>1, <1>4, Zenon DEF Good
<1>10. Good(gs, q)
  BY <1>4, <1>8, <1>9, Zenon DEF Good
<1>11. QED
  BY <1>2, <1>10, Zenon

LEMMA SameKeys ==
    ASSUME NEW gs, NEW s, NEW s2, SameHead(s, s2), NEW p
    PROVE  KeyAt(gs, s2, p) = KeyAt(gs, s, p)
  BY Zenon DEF SameHead, KeyAt

(* The PDS of a grid in its own super header has the key of the grid.      *)
LEMMA OwnKey ==
    ASSUME NEW gs, NEW s, NEW g, NEW num, IsOwn(s, g, num), gs[num] = g.gds
    PROVE  KeyAt(gs, s, PdsOf(g)) = KeyOf(g)
<1>1. PdsOf(g).validTime = g.validTime
  BY DEF PdsOf
<1>2. QED
  BY <1>1, Zenon DEF IsOwn, KeyAt, KeyOf

LEMMA GrownIsGood ==
    ASSUME NEW gs, NEW s \in SuperRec, GoodSuper(gs, s), NEW g \in Grids, NEW num,
           IsOwn(s, g, num), gs[num] = g.gds, NEW j, GoesBefore(s.pdss, j, g.validTime),
           NEW s2, s2 = WithPDSs(s, Inserted(s.pdss, j, PdsOf(g)))
    PROVE  /\ s2 \in SuperRec /\ SameHead(s, s2) /\ GoodSuper(gs, s2)
           /\ ExtendsAt(s2.pdss, s.pdss, Len(s.pdss), j, PdsOf(g))
<1>1. PICK ps \in Seq(PdsRec) : ps = s.pdss
  BY RecordTypes
<1>2. PICK n \in Nat : n = Len(ps)
  OBVIOUS
<1>3. PICK p \in PdsRec : p = PdsOf(g) /\ p.validTime = g.validTime
  BY GridTypes DEF PdsOf, PdsRec
<1>4. PICK T \in Nat : T = g.validTime
  BY GridTypes
<1>5. /\ j \in 1 .. n + 1
      /\ \A l \in 1 .. j - 1 : ps[l].validTime < T
      /\ j <= n => ps[j].validTime > T
  BY <1>1, <1>2, <1>4, Zenon DEF GoesBefore
<1>6. PICK q : q = Inserted(ps, j, p)
  OBVIOUS
<1>7. q \in Seq(PdsRec) /\ ExtendsAt(q, ps, n, j, p)
  BY <1>2, <1>5, <1>6, InsertedSeq, Zenon
<1>8. /\ Len(q) = n + 1 /\ q[j] = p
      /\ \A k \in 1 .. j - 1 : q[k] = ps[k]
      /\ \A k \in j + 1 .. n + 1 : q[k] = ps[k - 1]
  BY <1>7, Zenon DEF ExtendsAt
<1>9. s2 = WithPDSs(s, q)
  BY <1>1, <1>3, <1>6, Zenon
<1>10. s2 \in SuperRec /\ SameHead(s, s2) /\ s2.pdss = q
  <2>1. q \in Seq(PdsRec)
    BY <1>7
  <2>2. /\ WithPDSs(s, q) \in SuperRec /\ WithPDSs(s, q).pdss = q
        /\ WithPDSs(s, q).element = s.element /\ WithPDSs(s, q).refTime = s.refTime
        /\ WithPDSs(s, q).tag = s.tag /\ WithPDSs(s, q).gdsNum = s.gdsNum
    BY <2>1, WithPDSsTypes
  <2>3. QED
    BY <1>9, <2>2, Zenon DEF SameHead
<1>11. \A l \in 1 .. n : ps[l].validTime \in Nat
  BY <1>1, <1>2, RecordTypes, PdsTypes
<1>12. \A k, l \in 1 .. n : k < l => ps[k].validTime < ps[l].validTime
  BY <1>1, <1>2, Zenon DEF GoodSuper, TimesSorted
<1>13. \A l \in j .. n : T < ps[l].validTime
  <2>1. TAKE l \in j .. n
  <2>2. j \in 1 .. n /\ l \in 1 .. n /\ j <= n /\ (j = l \/ j < l)
    BY <1>5
  <2>3. T < ps[j].validTime
    BY <1>5, <1>11, <2>2
  <2>4. CASE j = l
    BY <2>3, <2>4, Zenon
  <2>5. CASE j < l
    <3>1. ps[j].validTime < ps[l].validTime
      BY <1>12, <2>2, <2>5, Zenon
    <3>2. PICK x \in Nat, y \in Nat : x = ps[j].validTime /\ y = ps[l].validTime
      BY <1>11, <2>2
    <3>3. T < x /\ x < y
      BY <2>3, <3>1, <3>2, Zenon
    <3>4. T < y
      BY <3>3
    <3>5. QED
      BY <3>2, <3>4, Zenon
  <2>6. QED
    BY <2>2, <2>4, <2>5
<1>14. ASSUME NEW k \in 1 .. n + 1, NEW l \in 1 .. n + 1, k < l
       PROVE  q[k].validTime < q[l].validTime
  <2>0. /\ j \in Nat /\ k \in Nat /\ l \in Nat /\ 1 <= j /\ j <= n + 1
        /\ 1 <= k /\ k < l /\ l <= n + 1
    BY <1>5, <1>14
  <2>1. CASE l < j
    <3>1. k \in 1 .. j - 1 /\ l \in 1 .. j - 1
      BY <2>0, <2>1
    <3>2. k \in 1 .. n /\ l \in 1 .. n
      BY <2>0, <2>1
    <3>3. QED
      BY <1>8, <1>12, <1>14, <3>1, <3>2, Zenon
  <2>2. CASE l = j
    <3>1. k \in 1 .. j - 1
      BY <2>0, <2>2
    <3>2. QED
      BY <1>3, <1>4, <1>5, <1>8, <2>2, <3>1, Zenon
  <2>3. CASE l > j
    <3>1. l \in j + 1 .. n + 1 /\ l - 1 \in 1 .. n /\ l - 1 \in j .. n
      BY <2>0, <2>3
    <3>2. CASE k < j
      <4>1. k \in 1 .. j - 1
        BY <2>0, <3>2
      <4>2. k \in 1 .. n /\ k < l - 1
        BY <2>0, <2>3, <3>2
      <4>3. QED
        BY <1>8, <1>12, <3>1, <4>1, <4>2, Zenon
    <3>3. CASE k = j
      BY <1>3, <1>4, <1>8, <1>13, <3>1, <3>3, Zenon
    <3>4. CASE k > j
      <4>1. k \in j + 1 .. n + 1
        BY <2>0, <3>4
      <4>2. k - 1 \in 1 .. n /\ k - 1 < l - 1
        BY <2>0, <3>4
      <4>3. QED
        BY <1>8, <1>12, <3>1, <4>1, <4>2, Zenon
    <3>5. QED
      BY <2>0, <3>2, <3>3, <3>4
  <2>4. QED
    BY <2>0, <2>1, <2>2, <2>3
<1>15. TimesSorted(s2)
  BY <1>8, <1>10, <1>14, Zenon DEF TimesSorted
<1>16. \A l \in 1 .. n : \E h \in Grids : KeyOf(h) = KeyAt(gs, s, ps[l])
  BY <1>1, <1>2, Zenon DEF GoodSuper
<1>17. ASSUME NEW k \in 1 .. n + 1 PROVE \E h \in Grids : KeyOf(h) = KeyAt(gs, s2, q[k])
  <2>0. j \in Nat /\ k \in Nat /\ 1 <= j /\ j <= n + 1 /\ 1 <= k /\ k <= n + 1
    BY <1>5
  <2>1. KeyAt(gs, s2, q[k]) = KeyAt(gs, s, q[k])
    BY <1>10, SameKeys, Zenon
  <2>2. CASE k < j
    <3>1. k \in 1 .. j - 1 /\ k \in 1 .. n
      BY <2>0, <2>2
    <3>2. QED
      BY <1>8, <1>16, <2>1, <3>1, Zenon
  <2>3. CASE k = j
    <3>1. KeyAt(gs, s, PdsOf(g)) = KeyOf(g)
      BY OwnKey, Zenon
    <3>2. KeyAt(gs, s2, q[k]) = KeyOf(g)
      BY <1>3, <1>8, <2>1, <2>3, <3>1, Zenon
    <3>3. QED
      BY <3>2, Zenon
  <2>4. CASE k > j
    <3>1. k \in j + 1 .. n + 1 /\ k - 1 \in 1 .. n
      BY <2>0, <2>4
    <3>2. QED
      BY <1>8, <1>16, <2>1, <3>1, Zenon
  <2>5. QED
    BY <2>0, <2>2, <2>3, <2>4
<1>18. Len(s2.pdss) = n + 1 /\ n + 1 > 0
  BY <1>8, <1>10
<1>19. s2.gdsNum \in 1 .. Len(gs)
  BY <1>10, Zenon DEF GoodSuper, SameHead
<1>20. GoodSuper(gs, s2)
  BY <1>10, <1>15, <1>17, <1>18, <1>19, Zenon DEF GoodSuper
<1>21. QED
  BY <1>1, <1>2, <1>3, <1>7, <1>10, <1>20, Zenon

LEMMA SwappedIsGood ==
    ASSUME NEW gs, NEW s \in SuperRec, GoodSuper(gs, s), NEW g \in Grids, NEW num,
           IsOwn(s, g, num), gs[num] = g.gds, NEW j, TakesOver(s.pdss, j, g.validTime),
           NEW s2, s2 = WithPDSs(s, Changed(s.pdss, j, PdsOf(g)))
    PROVE  /\ s2 \in SuperRec /\ SameHead(s, s2) /\ GoodSuper(gs, s2)
           /\ ReplacesAt(s2.pdss, s.pdss, Len(s.pdss), j, PdsOf(g))
<1>1. PICK ps \in Seq(PdsRec) : ps = s.pdss
  BY RecordTypes
<1>2. PICK n \in Nat : n = Len(ps)
  OBVIOUS
<1>3. PICK p \in PdsRec : p = PdsOf(g) /\ p.validTime = g.validTime
  BY GridTypes DEF PdsOf, PdsRec
<1>4. j \in 1 .. n /\ ps[j].validTime = p.validTime
  BY <1>1, <1>2, <1>3, Zenon DEF TakesOver
<1>5. PICK q : q = Changed(ps, j, p)
  OBVIOUS
<1>6. q \in Seq(PdsRec) /\ ReplacesAt(q, ps, n, j, p)
  BY <1>2, <1>4, <1>5, ChangedSeq, Zenon
<1>7. Len(q) = n /\ q[j] = p /\ \A k \in 1 .. n : k # j => q[k] = ps[k]
  BY <1>6, Zenon DEF ReplacesAt
<1>8. s2 = WithPDSs(s, q)
  BY <1>1, <1>3, <1>5, Zenon
<1>9. s2 \in SuperRec /\ SameHead(s, s2) /\ s2.pdss = q
  <2>1. q \in Seq(PdsRec)
    BY <1>6
  <2>2. /\ WithPDSs(s, q) \in SuperRec /\ WithPDSs(s, q).pdss = q
        /\ WithPDSs(s, q).element = s.element /\ WithPDSs(s, q).refTime = s.refTime
        /\ WithPDSs(s, q).tag = s.tag /\ WithPDSs(s, q).gdsNum = s.gdsNum
    BY <2>1, WithPDSsTypes
  <2>3. QED
    BY <1>8, <2>2, Zenon DEF SameHead
<1>10. \A k \in 1 .. n : q[k].validTime = ps[k].validTime
  BY <1>4, <1>7, Zenon
<1>11. \A k, l \in 1 .. n : k < l => ps[k].validTime < ps[l].validTime
  BY <1>1, <1>2, Zenon DEF GoodSuper, TimesSorted
<1>12. TimesSorted(s2)
  BY <1>7, <1>9, <1>10, <1>11, ZenonT(40) DEF TimesSorted
<1>13. \A l \in 1 .. n : \E h \in Grids : KeyOf(h) = KeyAt(gs, s, ps[l])
  BY <1>1, <1>2, Zenon DEF GoodSuper
<1>14. ASSUME NEW k \in 1 .. n PROVE \E h \in Grids : KeyOf(h) = KeyAt(gs, s2, q[k])
  <2>1. KeyAt(gs, s2, q[k]) = KeyAt(gs, s, q[k])
    BY <1>9, SameKeys, Zenon
  <2>2. CASE k = j
    <3>1. KeyAt(gs, s, PdsOf(g)) = KeyOf(g)
      BY OwnKey, Zenon
    <3>2. KeyAt(gs, s2, q[k]) = KeyOf(g)
      BY <1>3, <1>7, <2>1, <2>2, <3>1, Zenon
    <3>3. QED
      BY <3>2, Zenon
  <2>3. CASE k # j
    BY <1>7, <1>13, <2>1, <2>3, Zenon
  <2>4. QED
    BY <2>2, <2>3
<1>15. Len(s2.pdss) > 0 /\ s2.gdsNum \in 1 .. Len(gs)
  BY <1>1, <1>2, <1>7, <1>9, Zenon DEF GoodSuper, SameHead
<1>16. GoodSuper(gs, s2)
  BY <1>7, <1>9, <1>12, <1>14, <1>15, Zenon DEF GoodSuper
<1>17. QED
  BY <1>1, <1>2, <1>3, <1>6, <1>9, <1>16, Zenon

(***************************************************************************)
(* What a probe reads.                                                     *)
(***************************************************************************)

Entry(gs, s, p) == [key |-> KeyAt(gs, s, p), place |-> p.place]
SuperEntries(gs, s) == {Entry(gs, s, s.pdss[j]) : j \in 1 .. Len(s.pdss)}
Entries(gs, ss) == UNION {SuperEntries(gs, ss[i]) : i \in 1 .. Len(ss)}

ReadKey(b, h, t) == [gds |-> GDSAt(b, h.gdsNum)[2], element |-> h.element,
                     refTime |-> h.refTime, tag |-> h.tag, validTime |-> t]
ReadEntry(b, h, p) == [key |-> ReadKey(b, h, p.validTime), place |-> p.place]

LEMMA ReadsSuperEntries ==
    ASSUME NEW b, NEW gs, NEW ss, Layout(b, gs, ss), NEW o \in Nat, NEW e \in Nat,
           NEW s \in SuperRec, HoldsSuper(b, o, e, s), s.gdsNum \in 1 .. Len(gs)
    PROVE  EntriesOf(b, o) = SuperEntries(gs, s)
<1>1. b \in Cells
  BY DEF Layout
<1>2. PICK n \in Nat : n = Len(s.pdss)
  BY RecordTypes
<1>3. \A j \in 1 .. n : s.pdss[j] \in PdsRec
  BY <1>2, RecordTypes
<1>4. PICK Q : /\ Offsets(ArrayFrom(o, s), e, Len(s.pdss), Q) /\ HoldsArray(b, s.pdss, Q)
               /\ \A j \in 1 .. Len(s.pdss) + 1 : PDSAt(b, o)[j] = Q[j] /\ PDSRead(b, o)[j] = Q[j]
  BY <1>1, ReadsArray
<1>5. \A j \in 1 .. n : PDSRead(b, o)[j] = Q[j] /\ Q[j] \in Nat /\ Q[j + 1] \in Nat
  <2>0. PICK t \in Nat : t = Len(s.tag)
    BY RecordTypes
  <2>6. o + 7 + t \in Nat
    OBVIOUS
  <2>1. PICK a \in Nat : a = ArrayFrom(o, s)
    BY <2>0, <2>6, Zenon DEF ArrayFrom
  <2>2. Offsets(a, e, n, Q)
    BY <1>2, <1>4, <2>1, Zenon
  <2>3. \A j \in 1 .. n : Q[j] \in Nat /\ Q[j + 1] \in Nat
    BY <2>2, OffsetsWithin
  <2>4. \A j \in 1 .. n : j \in 1 .. n + 1
    OBVIOUS
  <2>5. QED
    BY <1>2, <1>4, <2>3, <2>4, Zenon
<1> DEFINE h == ReadSupPDSBuff(b, o)
           rd(j) == ReadPDSBuff(b, PDSRead(b, o)[j])
<1>6. /\ h.element = s.element /\ h.refTime = s.refTime /\ h.tag = s.tag
      /\ h.gdsNum = s.gdsNum /\ h.numPDS = n
  <2>1. PICK a : a = ArrayFrom(o, s)
    OBVIOUS
  <2>2. h = [element |-> s.element, refTime |-> s.refTime, tag |-> s.tag,
             gdsNum |-> s.gdsNum, numPDS |-> n, pdsPtr |-> a]
    <3>1. h = [element |-> s.element, refTime |-> s.refTime, tag |-> s.tag,
               gdsNum |-> s.gdsNum, numPDS |-> Len(s.pdss), pdsPtr |-> ArrayFrom(o, s)]
      BY <1>1, ReadsSuper
    <3> HIDE DEF h
    <3>2. QED
      BY <1>2, <2>1, <3>1, Zenon
  <2> HIDE DEF h
  <2>3. QED
    BY <2>2
<1>7. GDSAt(b, s.gdsNum)[2] = gs[s.gdsNum]
  BY ReadsGDSs
<1>8. ASSUME NEW j \in 1 .. n
      PROVE  rd(j).validTime = s.pdss[j].validTime /\ rd(j).place = s.pdss[j].place
  <2>1. PICK x \in Nat, y \in Nat, p \in PdsRec : x = Q[j] /\ y = Q[j + 1] /\ p = s.pdss[j]
    BY <1>3, <1>5
  <2>2. HoldsPDS(b, x, y, p)
    BY <1>2, <1>4, <2>1, Zenon DEF HoldsArray
  <2>3. ReadPDSBuff(b, x) = [validTime |-> p.validTime, place |-> p.place, nextPds |-> y]
    BY <1>1, <2>2, ReadsPDS
  <2>4. rd(j) = [validTime |-> p.validTime, place |-> p.place, nextPds |-> y]
    BY <1>5, <2>1, <2>3, Zenon
  <2> HIDE DEF rd
  <2>5. rd(j).validTime = p.validTime /\ rd(j).place = p.place
    BY <2>4
  <2>6. QED
    BY <2>1, <2>5, Zenon
<1>9. EntriesOf(b, o) = {ReadEntry(b, h, rd(j)) : j \in 1 .. h.numPDS}
  BY Zenon DEF EntriesOf, ReadEntry, ReadKey
<1> HIDE DEF h, rd
<1>10. \A j \in 1 .. n : ReadEntry(b, h, rd(j)) = Entry(gs, s, s.pdss[j])
  <2>1. TAKE j \in 1 .. n
  <2>2. ReadKey(b, h, rd(j).validTime) = KeyAt(gs, s, s.pdss[j])
    BY <1>6, <1>7, <1>8, Zenon DEF ReadKey, KeyAt
  <2>3. QED
    BY <1>8, <2>2, Zenon DEF ReadEntry, Entry
<1>11. EntriesOf(b, o) = {ReadEntry(b, h, rd(j)) : j \in 1 .. n}
  BY <1>6, <1>9, Zenon
<1>12. SuperEntries(gs, s) = {Entry(gs, s, s.pdss[j]) : j \in 1 .. n}
  BY <1>2, Zenon DEF SuperEntries
<1>13. QED
  BY <1>10, <1>11, <1>12, Zenon

ContentsOf(b) == UNION {EntriesOf(b, sup) : sup \in Supers(b)}

LEMMA ReadsContents ==
    ASSUME NEW b, NEW gs, NEW ss, Layout(b, gs, ss), Good(gs, ss)
    PROVE  ContentsOf(b) = Entries(gs, ss)
<1>1. PICK P : /\ Offsets(SupersFrom(gs), Len(b), Len(ss), P) /\ HoldsSupers(b, ss, P)
               /\ \A i \in 1 .. Len(ss) + 1 : SuperAt(b)[i] = P[i]
  BY ReadsOffsets
<1>2. b \in Cells /\ gs \in Seq(Nat) /\ ss \in Seq(SuperRec)
  BY DEF Layout
<1>3. PICK n \in Nat : n = Len(ss)
  BY <1>2
<1>4. \A i \in 1 .. n : ss[i] \in SuperRec
  BY <1>2, <1>3
<1>5. \A i \in 1 .. n : P[i] \in Nat /\ P[i + 1] \in Nat
  BY <1>1, <1>3, OffsetsWithin
<1>6. \A i \in 1 .. n : EntriesOf(b, SuperAt(b)[i]) = SuperEntries(gs, ss[i])
  <2>1. TAKE i \in 1 .. n
  <2>2. PICK x \in Nat, y \in Nat, s \in SuperRec : x = P[i] /\ y = P[i + 1] /\ s = ss[i]
    BY <1>4, <1>5
  <2>3. HoldsSuper(b, x, y, s)
    BY <1>1, <1>3, <2>2, Zenon DEF HoldsSupers
  <2>4. s.gdsNum \in 1 .. Len(gs)
    BY <1>3, <2>2, Zenon DEF Good, GoodSuper
  <2>5. EntriesOf(b, x) = SuperEntries(gs, s)
    BY <2>3, <2>4, ReadsSuperEntries
  <2>6. i \in 1 .. n + 1
    OBVIOUS
  <2>7. SuperAt(b)[i] = x
    BY <1>1, <1>3, <2>2, <2>6, Zenon
  <2>8. QED
    BY <2>2, <2>5, <2>7, Zenon
<1>7. NumSuper(b) = n
  BY <1>3, ReadsGDSs
<1>8. \A x : x \in ContentsOf(b) <=> \E i \in 1 .. n : x \in EntriesOf(b, SuperAt(b)[i])
  <2>1. Supers(b) = {SuperAt(b)[i] : i \in 1 .. n}
    BY <1>7, Zenon DEF Supers
  <2>2. QED
    BY <2>1, Zenon DEF ContentsOf
<1>9. \A x : x \in Entries(gs, ss) <=> \E i \in 1 .. n : x \in SuperEntries(gs, ss[i])
  BY <1>3, Zenon DEF Entries
<1>10. \A x : x \in ContentsOf(b) <=> x \in Entries(gs, ss)
  BY <1>6, <1>8, <1>9, Zenon
<1>11. QED
  BY <1>10

(* The entries after the insertion of a grid: FlxStore's Put.              *)
PutGrid(es, g) == {e \in es : e.key # KeyOf(g)} \cup {[key |-> KeyOf(g), place |-> g.place]}

(* But for the one at i, q2 has the members of q.                          *)
Keeps(q2, q, n, i) == /\ \A k \in 1 .. n + 1 : k # i => \E l \in 1 .. n : q2[k] = q[l]
                      /\ \A l \in 1 .. n : \E k \in 1 .. n + 1 : k # i /\ q2[k] = q[l]

LEMMA ExtendsMembers ==
    ASSUME NEW q2, NEW q, NEW n \in Nat, NEW i \in 1 .. n + 1, NEW x, ExtendsAt(q2, q, n, i, x)
    PROVE  Keeps(q2, q, n, i)
<1>1. /\ \A k \in 1 .. i - 1 : q2[k] = q[k]
      /\ \A k \in i + 1 .. n + 1 : q2[k] = q[k - 1]
  BY Zenon DEF ExtendsAt
<1>2. ASSUME NEW k \in 1 .. n + 1, k # i PROVE \E l \in 1 .. n : q2[k] = q[l]
  <2>1. CASE k < i
    <3>1. k \in 1 .. i - 1 /\ k \in 1 .. n
      BY <2>1
    <3>2. QED
      BY <1>1, <3>1, Zenon
  <2>2. CASE k > i
    <3>1. k \in i + 1 .. n + 1 /\ k - 1 \in 1 .. n
      BY <2>2
    <3>2. QED
      BY <1>1, <3>1, Zenon
  <2>3. QED
    BY <1>2, <2>1, <2>2
<1>3. ASSUME NEW l \in 1 .. n PROVE \E k \in 1 .. n + 1 : k # i /\ q2[k] = q[l]
  <2>1. CASE l < i
    <3>1. l \in 1 .. i - 1 /\ l \in 1 .. n + 1 /\ l # i
      BY <2>1
    <3>2. QED
      BY <1>1, <3>1, Zenon
  <2>2. CASE l >= i
    <3>1. PICK k \in Nat : k = l + 1
      OBVIOUS
    <3>2. k \in i + 1 .. n + 1 /\ k \in 1 .. n + 1 /\ k # i /\ k - 1 = l
      BY <2>2, <3>1
    <3>3. QED
      BY <1>1, <3>2, Zenon
  <2>3. QED
    BY <2>1, <2>2
<1>4. QED
  BY <1>2, <1>3, Zenon DEF Keeps

(* A PDS with the key of a grid is in the grid's own super header.         *)
LEMMA KeyIsOwn ==
    ASSUME NEW gs, Distinct(gs), NEW s, GoodSuper(gs, s), NEW g, NEW num \in 1 .. Len(gs),
           gs[num] = g.gds, NEW p, KeyAt(gs, s, p) = KeyOf(g)
    PROVE  IsOwn(s, g, num) /\ p.validTime = g.validTime
<1>1. /\ gs[s.gdsNum] = g.gds /\ s.element = g.element /\ s.refTime = g.refTime
      /\ s.tag = g.tag /\ p.validTime = g.validTime
  BY DEF KeyAt, KeyOf
<1>2. s.gdsNum \in 1 .. Len(gs)
  BY Zenon DEF GoodSuper
<1>3. s.gdsNum = num
  BY <1>1, <1>2, Zenon DEF Distinct
<1>4. QED
  BY <1>1, <1>3, Zenon DEF IsOwn

LEMMA EntryFields ==
    ASSUME NEW gs, NEW s, NEW p
    PROVE  Entry(gs, s, p).key = KeyAt(gs, s, p) /\ KeyAt(gs, s, p).validTime = p.validTime
  BY DEF Entry, KeyAt

LEMMA NewEntry ==
    ASSUME NEW gs, NEW s, NEW g, NEW num, IsOwn(s, g, num), gs[num] = g.gds
    PROVE  Entry(gs, s, PdsOf(g)) = [key |-> KeyOf(g), place |-> g.place]
<1>1. KeyAt(gs, s, PdsOf(g)) = KeyOf(g)
  BY OwnKey, Zenon
<1>2. PdsOf(g).place = g.place
  BY DEF PdsOf
<1>3. QED
  BY <1>1, <1>2, Zenon DEF Entry

(* Of an array, q, the PDS of the grid's time is gone from q2; the others  *)
(* stayed.                                                                 *)
Renews(q2, q, j, g) ==
    /\ j \in 1 .. Len(q2) /\ q2[j] = PdsOf(g)
    /\ \A k \in 1 .. Len(q2) : k # j => \E l \in 1 .. Len(q) : q2[k] = q[l]
    /\ \A l \in 1 .. Len(q) : \/ q[l].validTime = g.validTime
                              \/ \E k \in 1 .. Len(q2) : k # j /\ q2[k] = q[l]

LEMMA SuperPuts ==
    ASSUME NEW gs, NEW s, NEW s2 \in SuperRec, SameHead(s, s2), GoodSuper(gs, s2), NEW g \in Grids,
           NEW num, IsOwn(s, g, num), gs[num] = g.gds, NEW j, Renews(s2.pdss, s.pdss, j, g)
    PROVE  SuperEntries(gs, s2) = PutGrid(SuperEntries(gs, s), g)
<1>1. PICK new : new = [key |-> KeyOf(g), place |-> g.place]
  OBVIOUS
<1>2. PICK n2 \in Nat : n2 = Len(s2.pdss)
  BY RecordTypes
<1>3. PICK n : n = Len(s.pdss)
  OBVIOUS
<1>4. PICK q, q2 : q = s.pdss /\ q2 = s2.pdss
  OBVIOUS
<1>5. /\ j \in 1 .. n2 /\ q2[j] = PdsOf(g)
      /\ \A k \in 1 .. n2 : k # j => \E l \in 1 .. n : q2[k] = q[l]
      /\ \A l \in 1 .. n : \/ q[l].validTime = g.validTime
                           \/ \E k \in 1 .. n2 : k # j /\ q2[k] = q[l]
  BY <1>2, <1>3, <1>4, Zenon DEF Renews
<1>6. \A k \in 1 .. n2 : q2[k].validTime \in Nat
  BY <1>2, <1>4, RecordTypes, PdsTypes
<1>7. \A k \in 1 .. n2 : k # j => q2[k].validTime # g.validTime
  <2>1. PdsOf(g).validTime = g.validTime
    BY DEF PdsOf
  <2>2. \A k, l \in 1 .. n2 : k < l => q2[k].validTime < q2[l].validTime
    BY <1>2, <1>4, Zenon DEF GoodSuper, TimesSorted
  <2>3. TAKE k \in 1 .. n2
  <2>4. HAVE k # j
  <2>5. PICK x \in Nat, y \in Nat : x = q2[k].validTime /\ y = q2[j].validTime
    BY <1>5, <1>6
  <2>6. k < j \/ j < k
    BY <1>5, <2>4
  <2>7. x < y \/ y < x
    BY <1>5, <2>2, <2>5, <2>6, Zenon
  <2>8. x # y
    BY <2>7
  <2>9. QED
    BY <1>5, <2>1, <2>5, <2>8, Zenon
<1>8. \A p : Entry(gs, s2, p) = Entry(gs, s, p)
  BY SameKeys, Zenon DEF Entry
<1>9. Entry(gs, s, PdsOf(g)) = new
  BY <1>1, NewEntry, Zenon
<1>10. \A p : Entry(gs, s, p).key = KeyOf(g) => p.validTime = g.validTime
  <2>1. TAKE p
  <2>2. HAVE Entry(gs, s, p).key = KeyOf(g)
  <2>3. KeyAt(gs, s, p) = KeyOf(g)
    BY <2>2, EntryFields, Zenon
  <2>4. QED
    BY <2>3 DEF KeyAt, KeyOf
<1>11. \A p : p.validTime = g.validTime => Entry(gs, s, p).key = KeyOf(g)
  <2>1. TAKE p
  <2>2. HAVE p.validTime = g.validTime
  <2>3. KeyAt(gs, s, p) = KeyOf(g)
    BY <2>2, Zenon DEF IsOwn, KeyAt, KeyOf
  <2>4. QED
    BY <2>3, EntryFields, Zenon
<1>12. /\ \A x : x \in SuperEntries(gs, s2) <=> \E k \in 1 .. n2 : x = Entry(gs, s, q2[k])
       /\ \A x : x \in SuperEntries(gs, s) <=> \E l \in 1 .. n : x = Entry(gs, s, q[l])
  BY <1>2, <1>3, <1>4, <1>8, Zenon DEF SuperEntries
<1>13. \A x : x \in PutGrid(SuperEntries(gs, s), g) <=>
                 (x \in SuperEntries(gs, s) /\ x.key # KeyOf(g)) \/ x = new
  BY <1>1, Zenon DEF PutGrid
<1>14. ASSUME NEW k \in 1 .. n2
       PROVE  Entry(gs, s, q2[k]) \in PutGrid(SuperEntries(gs, s), g)
  <2>1. CASE k = j
    BY <1>5, <1>9, <1>13, <2>1, Zenon
  <2>2. CASE k # j
    <3>1. PICK l \in 1 .. n : q2[k] = q[l]
      BY <1>5, <2>2, Zenon
    <3>2. Entry(gs, s, q2[k]).key # KeyOf(g)
      BY <1>7, <1>10, <2>2, Zenon
    <3>3. QED
      BY <1>12, <1>13, <3>1, <3>2, Zenon
  <2>3. QED
    BY <2>1, <2>2
<1>15. ASSUME NEW l \in 1 .. n, Entry(gs, s, q[l]).key # KeyOf(g)
       PROVE  Entry(gs, s, q[l]) \in SuperEntries(gs, s2)
  <2>1. PICK k \in 1 .. n2 : q2[k] = q[l]
    BY <1>5, <1>11, <1>15, Zenon
  <2>2. QED
    BY <1>12, <2>1, Zenon
<1>16. new \in SuperEntries(gs, s2)
  BY <1>5, <1>9, <1>12, Zenon
<1>17. \A x : x \in SuperEntries(gs, s2) <=> x \in PutGrid(SuperEntries(gs, s), g)
  <2>1. ASSUME NEW x, x \in SuperEntries(gs, s2) PROVE x \in PutGrid(SuperEntries(gs, s), g)
    <3>1. PICK k \in 1 .. n2 : x = Entry(gs, s, q2[k])
      BY <1>12, <2>1, Zenon
    <3>2. Entry(gs, s, q2[k]) \in PutGrid(SuperEntries(gs, s), g)
      BY <1>14, Zenon
    <3>3. QED
      BY <3>1, <3>2, Zenon
  <2>2. ASSUME NEW x, x \in PutGrid(SuperEntries(gs, s), g) PROVE x \in SuperEntries(gs, s2)
    <3>1. CASE x = new
      BY <1>16, <3>1, Zenon
    <3>2. CASE x \in SuperEntries(gs, s) /\ x.key # KeyOf(g)
      <4>1. PICK l \in 1 .. n : x = Entry(gs, s, q[l])
        BY <1>12, <3>2, Zenon
      <4>2. QED
        BY <1>15, <3>2, <4>1, Zenon
    <3>3. QED
      BY <1>13, <2>2, <3>1, <3>2, Zenon
  <2>3. QED
    BY <2>1, <2>2, Zenon
<1>18. QED
  BY <1>17

LEMMA GrownPuts ==
    ASSUME NEW gs, NEW s \in SuperRec, GoodSuper(gs, s), NEW g \in Grids, NEW num,
           IsOwn(s, g, num), gs[num] = g.gds, NEW j, GoesBefore(s.pdss, j, g.validTime),
           NEW s2, s2 = WithPDSs(s, Inserted(s.pdss, j, PdsOf(g)))
    PROVE  SuperEntries(gs, s2) = PutGrid(SuperEntries(gs, s), g)
<1>1. /\ s2 \in SuperRec /\ SameHead(s, s2) /\ GoodSuper(gs, s2)
      /\ ExtendsAt(s2.pdss, s.pdss, Len(s.pdss), j, PdsOf(g))
  BY GrownIsGood
<1>2. PICK n \in Nat : n = Len(s.pdss)
  BY RecordTypes
<1>3. j \in 1 .. n + 1
  BY <1>2, Zenon DEF GoesBefore
<1>4. ExtendsAt(s2.pdss, s.pdss, n, j, PdsOf(g))
  BY <1>1, <1>2, Zenon
<1>5. Len(s2.pdss) = n + 1 /\ s2.pdss[j] = PdsOf(g)
  BY <1>4, Zenon DEF ExtendsAt
<1>6. /\ \A k \in 1 .. n + 1 : k # j => \E l \in 1 .. n : s2.pdss[k] = s.pdss[l]
      /\ \A l \in 1 .. n : \E k \in 1 .. n + 1 : k # j /\ s2.pdss[k] = s.pdss[l]
  <2>1. Keeps(s2.pdss, s.pdss, n, j)
    BY <1>3, <1>4, ExtendsMembers
  <2>2. QED
    BY <2>1, Zenon DEF Keeps
<1>7. Renews(s2.pdss, s.pdss, j, g)
  BY <1>2, <1>3, <1>5, <1>6, ZenonT(40) DEF Renews
<1>8. QED
  BY <1>1, <1>7, SuperPuts

LEMMA SwappedPuts ==
    ASSUME NEW gs, NEW s \in SuperRec, GoodSuper(gs, s), NEW g \in Grids, NEW num,
           IsOwn(s, g, num), gs[num] = g.gds, NEW j, TakesOver(s.pdss, j, g.validTime),
           NEW s2, s2 = WithPDSs(s, Changed(s.pdss, j, PdsOf(g)))
    PROVE  SuperEntries(gs, s2) = PutGrid(SuperEntries(gs, s), g)
<1>1. /\ s2 \in SuperRec /\ SameHead(s, s2) /\ GoodSuper(gs, s2)
      /\ ReplacesAt(s2.pdss, s.pdss, Len(s.pdss), j, PdsOf(g))
  BY SwappedIsGood
<1>2. PICK n \in Nat : n = Len(s.pdss)
  BY RecordTypes
<1>3. j \in 1 .. n /\ s.pdss[j].validTime = g.validTime
  BY <1>2, Zenon DEF TakesOver
<1>4. /\ Len(s2.pdss) = n /\ s2.pdss[j] = PdsOf(g)
      /\ \A k \in 1 .. n : k # j => s2.pdss[k] = s.pdss[k]
  BY <1>1, <1>2, Zenon DEF ReplacesAt
<1>5. Renews(s2.pdss, s.pdss, j, g)
  BY <1>2, <1>3, <1>4, Zenon DEF Renews
<1>6. QED
  BY <1>1, <1>5, SuperPuts

LEMMA EntriesAre ==
    ASSUME NEW gs, NEW ss, NEW x
    PROVE  x \in Entries(gs, ss) <=> \E i \in 1 .. Len(ss) : x \in SuperEntries(gs, ss[i])
  BY Zenon DEF Entries

(* No other super header has an entry of the grid's key.                   *)
LEMMA NotOwn ==
    ASSUME NEW gs, Distinct(gs), NEW s, GoodSuper(gs, s), NEW g, NEW num \in 1 .. Len(gs),
           gs[num] = g.gds, ~IsOwn(s, g, num), NEW x \in SuperEntries(gs, s)
    PROVE  x.key # KeyOf(g)
<1>1. PICK j \in 1 .. Len(s.pdss) : x = Entry(gs, s, s.pdss[j])
  BY Zenon DEF SuperEntries
<1>2. x.key = KeyAt(gs, s, s.pdss[j])
  <2>1. Entry(gs, s, s.pdss[j]).key = KeyAt(gs, s, s.pdss[j])
    BY EntryFields
  <2>2. QED
    BY <1>1, <2>1, Zenon
<1>3. KeyAt(gs, s, s.pdss[j]) # KeyOf(g)
  BY KeyIsOwn
<1>4. QED
  BY <1>2, <1>3, Zenon

LEMMA ChangedPuts ==
    ASSUME NEW gs, NEW ss \in Seq(SuperRec), Good(gs, ss), NEW g \in Grids,
           NEW num \in 1 .. Len(gs), gs[num] = g.gds, NEW i, IsThere(ss, i, g, num),
           NEW s2 \in SuperRec, SuperEntries(gs, s2) = PutGrid(SuperEntries(gs, ss[i]), g)
    PROVE  Entries(gs, Changed(ss, i, s2)) = PutGrid(Entries(gs, ss), g)
<1>1. PICK n \in Nat : n = Len(ss) /\ \A l \in 1 .. n : ss[l] \in SuperRec
  OBVIOUS
<1>2. i \in 1 .. n /\ IsOwn(ss[i], g, num)
  BY <1>1, Zenon DEF IsThere
<1>3. PICK q : q = Changed(ss, i, s2)
  OBVIOUS
<1>4. ReplacesAt(q, ss, n, i, s2)
  BY <1>1, <1>2, <1>3, ChangedSeq, Zenon
<1>5. Len(q) = n /\ q[i] = s2 /\ \A k \in 1 .. n : k # i => q[k] = ss[k]
  BY <1>4, Zenon DEF ReplacesAt
<1>6. ASSUME NEW l \in 1 .. n, l # i PROVE ~IsOwn(ss[l], g, num)
  <2>1. l < i \/ i < l
    BY <1>2, <1>6
  <2>2. Comes(ss[l], ss[i]) \/ Comes(ss[i], ss[l])
    BY <1>1, <1>2, <2>1, Zenon DEF Good, Sorted
  <2>3. QED
    BY <1>2, <2>2, Zenon DEF Comes, IsOwn
<1>7. ASSUME NEW l \in 1 .. n, l # i, NEW x \in SuperEntries(gs, ss[l]) PROVE x.key # KeyOf(g)
  <2>1. Distinct(gs) /\ GoodSuper(gs, ss[l]) /\ ~IsOwn(ss[l], g, num)
    BY <1>1, <1>6, <1>7, Zenon DEF Good
  <2>2. QED
    BY <1>7, <2>1, NotOwn
<1>8. PICK new : new = [key |-> KeyOf(g), place |-> g.place]
  OBVIOUS
<1>9. /\ \A x : x \in PutGrid(Entries(gs, ss), g) <=>
                  (x \in Entries(gs, ss) /\ x.key # KeyOf(g)) \/ x = new
      /\ \A x : x \in SuperEntries(gs, s2) <=>
                  (x \in SuperEntries(gs, ss[i]) /\ x.key # KeyOf(g)) \/ x = new
  BY <1>8, Zenon DEF PutGrid
<1>10. /\ \A x : x \in Entries(gs, q) <=> \E k \in 1 .. n : x \in SuperEntries(gs, q[k])
       /\ \A x : x \in Entries(gs, ss) <=> \E k \in 1 .. n : x \in SuperEntries(gs, ss[k])
  BY <1>1, <1>5, EntriesAre, Zenon
<1>11. ASSUME NEW x, x \in Entries(gs, q) PROVE x \in PutGrid(Entries(gs, ss), g)
  <2>1. PICK k \in 1 .. n : x \in SuperEntries(gs, q[k])
    BY <1>10, <1>11, Zenon
  <2>2. CASE k = i
    BY <1>2, <1>5, <1>9, <1>10, <2>1, <2>2, Zenon
  <2>3. CASE k # i
    BY <1>5, <1>7, <1>9, <1>10, <2>1, <2>3, Zenon
  <2>4. QED
    BY <2>2, <2>3
<1>12. ASSUME NEW x, x \in PutGrid(Entries(gs, ss), g) PROVE x \in Entries(gs, q)
  <2>1. CASE x = new
    BY <1>2, <1>5, <1>9, <1>10, <2>1, Zenon
  <2>2. CASE x \in Entries(gs, ss) /\ x.key # KeyOf(g)
    <3>1. PICK k \in 1 .. n : x \in SuperEntries(gs, ss[k])
      BY <1>10, <2>2, Zenon
    <3>2. CASE k = i
      BY <1>2, <1>5, <1>9, <1>10, <2>2, <3>1, <3>2, Zenon
    <3>3. CASE k # i
      BY <1>5, <1>10, <3>1, <3>3, Zenon
    <3>4. QED
      BY <3>2, <3>3
  <2>3. QED
    BY <1>9, <1>12, <2>1, <2>2, Zenon
<1>13. \A x : x \in Entries(gs, q) <=> x \in PutGrid(Entries(gs, ss), g)
  BY <1>11, <1>12, Zenon
<1>14. Entries(gs, q) = PutGrid(Entries(gs, ss), g)
  BY <1>13
<1>15. QED
  BY <1>3, <1>14, Zenon

LEMMA NewPuts ==
    ASSUME NEW gs \in Seq(Nat), NEW ss \in Seq(SuperRec), Good(gs, ss), NEW g \in Grids,
           NEW num \in 1 .. Len(gs), gs[num] = g.gds, NEW i, ComesBefore(ss, i, g, num)
    PROVE  Entries(gs, Inserted(ss, i, SuperOf(g, num))) = PutGrid(Entries(gs, ss), g)
<1>1. PICK n \in Nat : n = Len(ss)
  OBVIOUS
<1>2. num \in Nat
  OBVIOUS
<1>3. PICK s \in SuperRec : s = SuperOf(g, num)
  BY <1>2, SuperOfTypes
<1>4. i \in 1 .. n + 1
  BY <1>1, Zenon DEF ComesBefore
<1>5. PICK q : q = Inserted(ss, i, s)
  OBVIOUS
<1>6. ExtendsAt(q, ss, n, i, s)
  BY <1>1, <1>4, <1>5, InsertedSeq, Zenon
<1>7. /\ \A k \in 1 .. n + 1 : k # i => \E l \in 1 .. n : q[k] = ss[l]
      /\ \A l \in 1 .. n : \E k \in 1 .. n + 1 : k # i /\ q[k] = ss[l]
  <2>1. Keeps(q, ss, n, i)
    BY <1>4, <1>6, ExtendsMembers
  <2>2. QED
    BY <2>1, Zenon DEF Keeps
<1>8. Len(q) = n + 1 /\ q[i] = s
  BY <1>6, Zenon DEF ExtendsAt
<1>9. PICK new : new = [key |-> KeyOf(g), place |-> g.place]
  OBVIOUS
<1>10. \A x : x \in SuperEntries(gs, s) <=> x = new
  <2>1. Len(s.pdss) = 1 /\ s.pdss[1] = PdsOf(g) /\ IsOwn(s, g, num)
    BY <1>2, <1>3, SuperOfTypes, Zenon DEF IsOwn
  <2>2. Entry(gs, s, PdsOf(g)) = new
    BY <1>9, <2>1, NewEntry, Zenon
  <2>3. \A j : j \in 1 .. 1 <=> j = 1
    OBVIOUS
  <2>4. SuperEntries(gs, s) = {Entry(gs, s, s.pdss[j]) : j \in 1 .. 1}
    BY <2>1, Zenon DEF SuperEntries
  <2>5. QED
    BY <2>1, <2>2, <2>3, <2>4, Zenon
<1>11. ASSUME NEW x, x \in Entries(gs, ss) PROVE x.key # KeyOf(g)
  <2>1. PICK l \in 1 .. n : x \in SuperEntries(gs, ss[l])
    BY <1>1, <1>11, EntriesAre, Zenon
  <2>2. \A k \in 1 .. Len(ss) : ~IsOwn(ss[k], g, num)
    BY <1>2, NewComes DEF Good
  <2>3. Distinct(gs) /\ GoodSuper(gs, ss[l]) /\ ~IsOwn(ss[l], g, num)
    BY <1>1, <2>2, Zenon DEF Good
  <2>4. QED
    BY <2>1, <2>3, NotOwn
<1>12. /\ \A x : x \in Entries(gs, q) <=> \E k \in 1 .. n + 1 : x \in SuperEntries(gs, q[k])
       /\ \A x : x \in Entries(gs, ss) <=> \E k \in 1 .. n : x \in SuperEntries(gs, ss[k])
  BY <1>1, <1>8, EntriesAre, Zenon
<1>13. \A x : x \in PutGrid(Entries(gs, ss), g) <=>
                 (x \in Entries(gs, ss) /\ x.key # KeyOf(g)) \/ x = new
  BY <1>9, Zenon DEF PutGrid
<1>14. ASSUME NEW x PROVE x \in Entries(gs, q) <=> x \in Entries(gs, ss) \/ x = new
  <2>1. ASSUME x \in Entries(gs, q) PROVE x \in Entries(gs, ss) \/ x = new
    <3>1. PICK k \in 1 .. n + 1 : x \in SuperEntries(gs, q[k])
      BY <1>12, <2>1, Zenon
    <3>2. CASE k = i
      BY <1>8, <1>10, <3>1, <3>2, Zenon
    <3>3. CASE k # i
      BY <1>7, <1>12, <3>1, <3>3, Zenon
    <3>4. QED
      BY <3>2, <3>3
  <2>2. ASSUME x \in Entries(gs, ss) PROVE x \in Entries(gs, q)
    BY <1>7, <1>12, <2>2, Zenon
  <2>3. ASSUME x = new PROVE x \in Entries(gs, q)
    BY <1>4, <1>8, <1>10, <1>12, <2>3, Zenon
  <2>4. QED
    BY <2>1, <2>2, <2>3, Zenon
<1>15. \A x : x \in Entries(gs, q) <=> x \in PutGrid(Entries(gs, ss), g)
  BY <1>11, <1>13, <1>14, Zenon
<1>16. Entries(gs, q) = PutGrid(Entries(gs, ss), g)
  BY <1>15
<1>17. QED
  BY <1>3, <1>5, <1>16, Zenon

(* The entries do not change when grid definitions are added.              *)
LEMMA SameEntries ==
    ASSUME NEW gs, NEW hs, NEW ss, Good(gs, ss), \A n \in 1 .. Len(gs) : hs[n] = gs[n]
    PROVE  Entries(hs, ss) = Entries(gs, ss)
<1>1. ASSUME NEW i \in 1 .. Len(ss) PROVE SuperEntries(hs, ss[i]) = SuperEntries(gs, ss[i])
  <2>1. ss[i].gdsNum \in 1 .. Len(gs)
    BY Zenon DEF Good, GoodSuper
  <2>2. hs[ss[i].gdsNum] = gs[ss[i].gdsNum]
    BY <2>1, Zenon
  <2>3. \A p : Entry(hs, ss[i], p) = Entry(gs, ss[i], p)
    BY <2>2, Zenon DEF Entry, KeyAt
  <2>4. QED
    BY <2>3, Zenon DEF SuperEntries
<1>2. \A x : x \in Entries(hs, ss) <=> x \in Entries(gs, ss)
  BY <1>1, Zenon DEF Entries
<1>3. QED
  BY <1>2

(***************************************************************************)
(* The insertion of a grid.                                                *)
(***************************************************************************)

(* The buffer b2 holds the index gs, ss2, which is gs, ss with g put in.   *)
HoldsPut(b2, gs, ss, ss2, g) ==
    Layout(b2, gs, ss2) /\ Good(gs, ss2) /\ Entries(gs, ss2) = PutGrid(Entries(gs, ss), g)

LEMMA InsertsIntoSuper ==
    ASSUME CountsFit, NEW b, NEW gs, NEW ss, NEW n \in Nat, NEW P, NEW i \in 1 .. n, NEW s,
           NEW o \in Nat, NEW y \in Nat, NEW e \in Nat, Around(b, gs, ss, n, P, i, s, o, y, e),
           Good(gs, ss), NEW g \in Grids, NEW num \in 1 .. Len(gs), gs[num] = g.gds,
           IsOwn(s, g, num)
    PROVE  \E ss2 : HoldsPut(InsertInto(b, o, g), gs, ss, ss2, g)
<1>1. /\ b \in Cells /\ ss \in Seq(SuperRec) /\ s \in SuperRec
      /\ HoldsSuper(b, o, y, s) /\ Len(ss) = n /\ ss[i] = s
  BY AroundIs, Zenon DEF Around
<1>2. IsThere(ss, i, g, num)
  BY <1>1, Zenon DEF IsThere
<1>3. GoodSuper(gs, s)
  BY <1>1, Zenon DEF Good
<1>4. PICK Q, j : /\ Offsets(ArrayFrom(o, s), y, Len(s.pdss), Q) /\ HoldsArray(b, s.pdss, Q)
                  /\ \/ /\ GoesBefore(s.pdss, j, g.validTime)
                        /\ InsertInto(b, o, g) = Grown(b, o, Q[j], g)
                     \/ /\ TakesOver(s.pdss, j, g.validTime)
                        /\ InsertInto(b, o, g) = Swapped(b, o, Q[j], g)
  BY <1>1, SearchesArray
<1>5. PICK k \in Nat : k = Len(s.pdss)
  BY <1>1, RecordTypes
<1>6. PICK a \in Nat : a = ArrayFrom(o, s)
  BY AroundIs, Zenon
<1>7. \A l \in 1 .. k + 1 : Q[l] \in Nat
  <2>1. Offsets(a, y, k, Q)
    BY <1>4, <1>5, <1>6, Zenon
  <2>2. QED
    BY <2>1, OffsetsWithin
<1>8. ASSUME NEW l \in 1 .. k + 1, NEW x \in Nat, x = Q[l]
      PROVE  Within(b, s, k, Q, l, x, ArrayFrom(o, s), y)
  BY <1>4, <1>5, <1>8, Zenon DEF Within, IsAt
<1>9. CASE GoesBefore(s.pdss, j, g.validTime) /\ InsertInto(b, o, g) = Grown(b, o, Q[j], g)
  <2>1. PICK s2 : s2 = WithPDSs(s, Inserted(s.pdss, j, PdsOf(g)))
    OBVIOUS
  <2>2. j \in 1 .. k + 1
    BY <1>5, <1>9, Zenon DEF GoesBefore
  <2>3. PICK x \in Nat : x = Q[j]
    BY <1>7, <2>2
  <2>4. s2 \in SuperRec /\ SameHead(s, s2) /\ GoodSuper(gs, s2)
    BY <1>1, <1>3, <1>9, <2>1, GrownIsGood
  <2>5. SuperEntries(gs, s2) = PutGrid(SuperEntries(gs, s), g)
    BY <1>1, <1>3, <1>9, <2>1, GrownPuts
  <2>6. Within(b, s, k, Q, j, x, ArrayFrom(o, s), y)
    BY <1>8, <2>2, <2>3, Zenon
  <2>7. Layout(Grown(b, o, x, g), gs, Changed(ss, i, s2))
    BY <2>1, <2>2, <2>4, <2>6, GrowsSuper
  <2>8. i \in 1 .. Len(ss) /\ SameHead(ss[i], s2)
    BY <1>1, <2>4, Zenon
  <2>9. Good(gs, Changed(ss, i, s2))
    BY <1>1, <2>4, <2>8, ChangedIsGood
  <2>10. SuperEntries(gs, s2) = PutGrid(SuperEntries(gs, ss[i]), g)
    BY <1>1, <2>5, Zenon
  <2>11. Entries(gs, Changed(ss, i, s2)) = PutGrid(Entries(gs, ss), g)
    BY <1>1, <1>2, <2>4, <2>10, ChangedPuts
  <2>12. HoldsPut(InsertInto(b, o, g), gs, ss, Changed(ss, i, s2), g)
    BY <1>9, <2>3, <2>7, <2>9, <2>11, Zenon DEF HoldsPut
  <2>13. QED
    BY <2>12, Zenon
<1>10. CASE TakesOver(s.pdss, j, g.validTime) /\ InsertInto(b, o, g) = Swapped(b, o, Q[j], g)
  <2>1. PICK s2 : s2 = WithPDSs(s, Changed(s.pdss, j, PdsOf(g)))
    OBVIOUS
  <2>2. j \in 1 .. k /\ j \in 1 .. k + 1
    <3>1. j \in 1 .. k
      BY <1>5, <1>10, Zenon DEF TakesOver
    <3>2. QED
      BY <3>1
  <2>3. PICK x \in Nat : x = Q[j]
    BY <1>7, <2>2
  <2>4. s2 \in SuperRec /\ SameHead(s, s2) /\ GoodSuper(gs, s2)
    BY <1>1, <1>3, <1>10, <2>1, SwappedIsGood
  <2>5. SuperEntries(gs, s2) = PutGrid(SuperEntries(gs, s), g)
    BY <1>1, <1>3, <1>10, <2>1, SwappedPuts
  <2>6. Within(b, s, k, Q, j, x, ArrayFrom(o, s), y)
    BY <1>8, <2>2, <2>3, Zenon
  <2>7. Layout(Swapped(b, o, x, g), gs, Changed(ss, i, s2))
    BY <2>1, <2>2, <2>6, SwapsSuper
  <2>8. i \in 1 .. Len(ss) /\ SameHead(ss[i], s2)
    BY <1>1, <2>4, Zenon
  <2>9. Good(gs, Changed(ss, i, s2))
    BY <1>1, <2>4, <2>8, ChangedIsGood
  <2>10. SuperEntries(gs, s2) = PutGrid(SuperEntries(gs, ss[i]), g)
    BY <1>1, <2>5, Zenon
  <2>11. Entries(gs, Changed(ss, i, s2)) = PutGrid(Entries(gs, ss), g)
    BY <1>1, <1>2, <2>4, <2>10, ChangedPuts
  <2>12. HoldsPut(InsertInto(b, o, g), gs, ss, Changed(ss, i, s2), g)
    BY <1>10, <2>3, <2>7, <2>9, <2>11, Zenon DEF HoldsPut
  <2>13. QED
    BY <2>12, Zenon
<1>11. QED
  BY <1>4, <1>9, <1>10, Zenon

LEMMA InsertsPDS ==
    ASSUME CountsFit, NEW b, NEW gs, NEW ss, Layout(b, gs, ss), Good(gs, ss),
           NEW g \in Grids, NEW num \in 1 .. Len(gs), gs[num] = g.gds
    PROVE  \E ss2 : HoldsPut(InsertPDS(b, g, num), gs, ss, ss2, g)
<1>1. b \in Cells /\ gs \in Seq(Nat) /\ ss \in Seq(SuperRec) /\ num \in Nat
  BY DEF Layout
<1>2. PICK P, i : /\ Offsets(SupersFrom(gs), Len(b), Len(ss), P) /\ HoldsSupers(b, ss, P)
                  /\ \/ /\ ComesBefore(ss, i, g, num)
                        /\ InsertPDS(b, g, num) =
                              InsertSuper(b, P[i], WriteSupPDS(g, num), WritePDS(g))
                     \/ /\ IsThere(ss, i, g, num)
                        /\ InsertPDS(b, g, num) = InsertInto(b, P[i], g)
  BY <1>1, SearchesSupers
<1>3. PICK n \in Nat : n = Len(ss)
  BY <1>1
<1>4. PICK e \in Nat : e = Len(b)
  BY <1>1 DEF Cells
<1>5. \A l \in 1 .. n + 1 : P[l] \in Nat
  <2>1. Offsets(SupersFrom(gs), e, n, P)
    BY <1>2, <1>3, <1>4, Zenon
  <2>2. QED
    BY <2>1, OffsetsWithin
<1>6. CASE /\ ComesBefore(ss, i, g, num)
           /\ InsertPDS(b, g, num) = InsertSuper(b, P[i], WriteSupPDS(g, num), WritePDS(g))
  <2>1. i \in 1 .. n + 1
    BY <1>3, <1>6, Zenon DEF ComesBefore
  <2>2. PICK x \in Nat : x = P[i]
    BY <1>5, <2>1
  <2>3. IsAt(ss, n, P, i, x) /\ Offsets(SupersFrom(gs), Len(b), n, P)
    BY <1>2, <1>3, <2>2, Zenon DEF IsAt
  <2>4. Good(gs, Inserted(ss, i, SuperOf(g, num)))
    BY <1>1, <1>6, NewIsGood
  <2>5. Layout(InsertSuper(b, x, WriteSupPDS(g, num), WritePDS(g)), gs,
               Inserted(ss, i, SuperOf(g, num)))
    BY <1>1, <1>2, <2>1, <2>3, <2>4, InsertsSuper
  <2>6. Entries(gs, Inserted(ss, i, SuperOf(g, num))) = PutGrid(Entries(gs, ss), g)
    BY <1>1, <1>6, NewPuts
  <2>7. HoldsPut(InsertPDS(b, g, num), gs, ss, Inserted(ss, i, SuperOf(g, num)), g)
    BY <1>6, <2>2, <2>4, <2>5, <2>6, Zenon DEF HoldsPut
  <2>8. QED
    BY <2>7, Zenon
<1>7. CASE IsThere(ss, i, g, num) /\ InsertPDS(b, g, num) = InsertInto(b, P[i], g)
  <2>1. i \in 1 .. n /\ IsOwn(ss[i], g, num)
    BY <1>3, <1>7, Zenon DEF IsThere
  <2>2. i \in 1 .. n + 1 /\ i + 1 \in 1 .. n + 1
    BY <2>1
  <2>3. PICK o \in Nat, y \in Nat, s \in {ss[i]} : o = P[i] /\ y = P[i + 1] /\ s = ss[i]
    BY <1>5, <2>2
  <2>4. Around(b, gs, ss, n, P, i, s, o, y, e)
    BY <1>2, <1>3, <1>4, <2>3, Zenon DEF Around
  <2>5. IsOwn(s, g, num)
    BY <2>1, <2>3, Zenon
  <2>6. \E ss2 : HoldsPut(InsertInto(b, o, g), gs, ss, ss2, g)
    BY <2>1, <2>4, <2>5, InsertsIntoSuper
  <2>7. QED
    BY <1>7, <2>3, <2>6, Zenon
<1>8. QED
  BY <1>2, <1>6, <1>7, Zenon

(***************************************************************************)
(* The index as it is created, and as it is read back.                     *)
(***************************************************************************)

LEMMA CreatesIndex ==
    Layout(CreateFLX, <<>>, <<>>) /\ Good(<<>>, <<>>) /\ Entries(<<>>, <<>>) = {}
<1>1. PICK b : b = CreateFLX
  OBVIOUS
<1>2. b \in Cells /\ Len(b) = 4 /\ b[3] = 0 /\ b[4] = 0
  BY <1>1 DEF CreateFLX, FLX, HEADLEN, Cells
<1>3. PICK q : q = <<>>
  OBVIOUS
<1>4. Len(q) = 0 /\ q \in Seq(Nat) /\ q \in Seq(SuperRec) /\ \A i : i \notin 1 .. 0
  BY <1>3
<1>5. HoldsGDSs(b, q) /\ b[2 * Len(q) + 4] = Len(q) /\ SupersFrom(q) = 4
  BY <1>2, <1>4 DEF HoldsGDSs, SupersFrom
<1>6. \E P : Offsets(4, 4, 0, P)
  <2>1. PICK P : P = [i \in 1 .. 0 + 1 |-> 4]
    OBVIOUS
  <2>2. Offsets(4, 4, 0, P)
    BY <2>1 DEF Offsets
  <2>3. QED
    BY <2>2, Zenon
<1>7. \A P : HoldsSupers(b, q, P)
  BY <1>4, Zenon DEF HoldsSupers
<1>8. Layout(b, q, q)
  BY <1>2, <1>4, <1>5, <1>6, <1>7, Zenon DEF Layout
<1>9. Good(q, q)
  BY <1>4, Zenon DEF Good, Distinct, Sorted
<1>10. Entries(q, q) = {}
  BY <1>4 DEF Entries
<1>11. QED
  BY <1>1, <1>3, <1>8, <1>9, <1>10, Zenon

(* The two cells before the GDS array do not count.                        *)
LEMMA LayoutStays ==
    ASSUME NEW b, NEW b2 \in Cells, NEW gs, NEW ss, Layout(b, gs, ss),
           Len(b2) = Len(b), Same(b, b2, 2, Len(b))
    PROVE  Layout(b2, gs, ss)
<1>1. b \in Cells /\ gs \in Seq(Nat) /\ ss \in Seq(SuperRec)
  BY DEF Layout
<1>2. PICK e \in Nat, m \in Nat, n \in Nat : e = Len(b) /\ m = Len(gs) /\ n = Len(ss)
  BY <1>1 DEF Cells
<1>3. /\ 2 * m + 4 <= e /\ b[3] = m /\ b[2 * m + 4] = n
      /\ \A k \in 1 .. m : b[2 * k + 2] = 0 /\ b[2 * k + 3] = gs[k]
  BY <1>2, Zenon DEF Layout, HoldsGDSs
<1>4. \A k \in 3 .. e : b2[k] = b[k]
  BY <1>2 DEF Same
<1>5. b2[3] = m /\ b2[2 * m + 4] = n
  <2>1. 3 \in 3 .. e /\ 2 * m + 4 \in 3 .. e
    BY <1>3
  <2>2. QED
    BY <1>3, <1>4, <2>1, Zenon
<1>6. ASSUME NEW k \in 1 .. m PROVE b2[2 * k + 2] = 0 /\ b2[2 * k + 3] = gs[k]
  <2>1. 2 * k + 2 \in 3 .. e /\ 2 * k + 3 \in 3 .. e
    BY <1>3
  <2>2. QED
    BY <1>3, <1>4, <2>1, Zenon
<1>7. HoldsGDSs(b2, gs) /\ b2[2 * Len(gs) + 4] = Len(ss)
  BY <1>2, <1>3, <1>5, <1>6, Zenon DEF HoldsGDSs
<1>8. PICK P : Offsets(SupersFrom(gs), e, n, P) /\ HoldsSupers(b, ss, P)
  BY <1>2, Zenon DEF Layout
<1>9. PICK f \in Nat : f = SupersFrom(gs) /\ 2 <= f
  BY <1>2 DEF SupersFrom
<1>10. /\ \A i \in 1 .. n + 1 : P[i] \in Nat /\ f <= P[i] /\ P[i] <= e
       /\ \A i \in 1 .. n : i \in 1 .. n + 1 /\ i + 1 \in 1 .. n + 1 /\ P[i] <= P[i + 1]
  <2>1. Offsets(f, e, n, P)
    BY <1>8, <1>9, Zenon
  <2>2. QED
    BY <2>1, OffsetsWithin
<1>11. ASSUME NEW i \in 1 .. n PROVE HoldsSuper(b2, P[i], P[i + 1], ss[i])
  <2>0. ss[i] \in SuperRec
    BY <1>1, <1>2
  <2>1. PICK x \in Nat, y \in Nat, s \in SuperRec : x = P[i] /\ y = P[i + 1] /\ s = ss[i]
    BY <1>10, <2>0
  <2>2. HoldsSuper(b, x, y, s)
    BY <1>2, <1>8, <2>1, Zenon DEF HoldsSupers
  <2>3. f <= x /\ y <= e
    BY <1>10, <2>1, Zenon
  <2>4. 2 <= x
    BY <1>9, <2>3
  <2>5. Same(b, b2, x, y)
    <3>1. Same(b, b2, 2, e)
      BY <1>2, Zenon
    <3>2. QED
      BY <2>3, <2>4, <3>1, SamePart
  <2>6. y <= Len(b2)
    BY <1>2, <2>3
  <2>7. HoldsSuper(b2, x, y, s)
    BY <2>2, <2>5, <2>6, SuperStays
  <2>8. QED
    BY <2>1, <2>7, Zenon
<1>12. HoldsSupers(b2, ss, P)
  BY <1>2, <1>11, Zenon DEF HoldsSupers
<1>13. QED
  BY <1>1, <1>2, <1>7, <1>8, <1>12, Zenon DEF Layout

LEMMA ReopensIndex ==
    ASSUME NEW b, NEW gs, NEW ss, Layout(b, gs, ss)
    PROVE  Layout(ReadFLX(WriteFLX(b)), gs, ss)
<1>1. b \in Cells /\ 4 <= Len(b) /\ Len(b) \in Nat
  <2>1. b \in Cells /\ SupersFrom(gs) <= Len(b) /\ gs \in Seq(Nat)
    BY ReadsGDSs DEF Layout
  <2>2. QED
    BY <2>1 DEF SupersFrom, Cells
<1>2. PICK c : c = Changed(b, 2, Len(b))
  OBVIOUS
<1>3. 2 \in 1 .. Len(b)
  BY <1>1
<1>4. /\ c \in Cells /\ Len(c) = Len(b) /\ c[2] = Len(b)
      /\ \A k \in 1 .. Len(b) : k # 2 => c[k] = b[k]
  BY <1>1, <1>2, <1>3, PutCells
<1>5. 1 + 1 = 2
  OBVIOUS
<1>6. WriteFLX(b) = c
  BY <1>2, <1>5, Zenon DEF WriteFLX, PutCell, Changed
<1>7. ReadFLX(c) = SubSeq(c, 1, Len(c))
  BY <1>4, <1>5 DEF ReadFLX, At
<1>8. SubSeq(c, 1, Len(c)) = c
  BY <1>4, SubSeqFull DEF Cells
<1>9. Same(b, c, 2, Len(b))
  BY <1>1, <1>4 DEF Same
<1>10. Layout(c, gs, ss)
  BY <1>4, <1>9, LayoutStays
<1>11. QED
  BY <1>6, <1>7, <1>8, <1>10, Zenon

(***************************************************************************)
(* What the invariants say of a buffer.                                    *)
(***************************************************************************)

(* The probes read the super header s at o, which ends at y.               *)
ReadsWell(b, o, y, h, s) ==
    /\ h.element = s.element /\ h.refTime = s.refTime /\ h.tag = s.tag /\ h.gdsNum = s.gdsNum
    /\ h.numPDS = Len(s.pdss) /\ h.pdsPtr = PDSCount(b, o) + 1
    /\ PDSRead(b, o)[Len(s.pdss) + 1] = y
    /\ \A j \in 1 .. Len(s.pdss) :
          /\ PDSAt(b, o)[j] = PDSRead(b, o)[j]
          /\ ReadPDSBuff(b, PDSRead(b, o)[j]).validTime = s.pdss[j].validTime

LEMMA ReadsFields ==
    ASSUME NEW b \in Cells, NEW o \in Nat, NEW y \in Nat, NEW s \in SuperRec,
           HoldsSuper(b, o, y, s)
    PROVE  ReadsWell(b, o, y, ReadSupPDSBuff(b, o), s)
<1>1. PICK n \in Nat : n = Len(s.pdss)
  BY RecordTypes
<1>2. \A j \in 1 .. n : s.pdss[j] \in PdsRec
  BY <1>1, RecordTypes
<1>3. PICK Q : /\ Offsets(ArrayFrom(o, s), y, Len(s.pdss), Q) /\ HoldsArray(b, s.pdss, Q)
               /\ \A j \in 1 .. Len(s.pdss) + 1 : PDSAt(b, o)[j] = Q[j] /\ PDSRead(b, o)[j] = Q[j]
  BY ReadsArray
<1>4. PICK t \in Nat : t = Len(s.tag)
  BY RecordTypes
<1>5. o + 7 + t \in Nat /\ n + 1 \in 1 .. n + 1
  OBVIOUS
<1>6. PICK a \in Nat : a = ArrayFrom(o, s)
  BY <1>4, <1>5, Zenon DEF ArrayFrom
<1>7. Offsets(a, y, n, Q)
  BY <1>1, <1>3, <1>6, Zenon
<1>8. Q[n + 1] = y /\ \A j \in 1 .. n : Q[j] \in Nat /\ Q[j + 1] \in Nat /\ j \in 1 .. n + 1
  <2>1. Q[n + 1] = y
    BY <1>7, Zenon DEF Offsets
  <2>2. QED
    BY <1>7, <2>1, OffsetsWithin
<1>9. \A j \in 1 .. n + 1 : PDSAt(b, o)[j] = Q[j] /\ PDSRead(b, o)[j] = Q[j]
  BY <1>1, <1>3, Zenon
<1>10. ASSUME NEW j \in 1 .. n
       PROVE  ReadPDSBuff(b, PDSRead(b, o)[j]).validTime = s.pdss[j].validTime
  <2>1. PICK x \in Nat, z \in Nat, p \in PdsRec : x = Q[j] /\ z = Q[j + 1] /\ p = s.pdss[j]
    BY <1>2, <1>8
  <2>2. HoldsPDS(b, x, z, p)
    BY <1>1, <1>3, <2>1, Zenon DEF HoldsArray
  <2>3. ReadPDSBuff(b, x) = [validTime |-> p.validTime, place |-> p.place, nextPds |-> z]
    BY <2>2, ReadsPDS
  <2>4. ReadPDSBuff(b, x).validTime = p.validTime
    BY <2>3
  <2>5. PDSRead(b, o)[j] = x
    BY <1>8, <1>9, <2>1, Zenon
  <2>6. QED
    BY <2>1, <2>4, <2>5, Zenon
<1>11. PICK h : h = ReadSupPDSBuff(b, o)
  OBVIOUS
<1>12. /\ h = [element |-> s.element, refTime |-> s.refTime, tag |-> s.tag,
               gdsNum |-> s.gdsNum, numPDS |-> n, pdsPtr |-> a]
       /\ PDSCount(b, o) + 1 = a
  <2>1. ReadSupPDSBuff(b, o) = [element |-> s.element, refTime |-> s.refTime,
                                tag |-> s.tag, gdsNum |-> s.gdsNum,
                                numPDS |-> Len(s.pdss), pdsPtr |-> ArrayFrom(o, s)]
    BY ReadsSuper, ZenonT(30)
  <2>2. PDSCount(b, o) + 1 = ArrayFrom(o, s)
    BY ReadsSuper, ZenonT(30)
  <2>3. QED
    BY <1>1, <1>6, <1>11, <2>1, <2>2, Zenon
<1>13. /\ h.element = s.element /\ h.refTime = s.refTime /\ h.tag = s.tag
       /\ h.gdsNum = s.gdsNum /\ h.numPDS = n /\ h.pdsPtr = a
  BY <1>12
<1>14. ReadsWell(b, o, y, h, s)
  BY <1>1, <1>5, <1>8, <1>9, <1>10, <1>12, <1>13, Zenon DEF ReadsWell
<1>15. QED
  BY <1>11, <1>14, Zenon

(* The headers are those of ss.                                            *)
LEMMA ReadsHeaders ==
    ASSUME NEW b, NEW gs, NEW ss, Layout(b, gs, ss), NEW i \in 1 .. Len(ss)
    PROVE  /\ ReadsWell(b, SuperAt(b)[i], SuperAt(b)[i + 1], Headers(b)[i], ss[i])
           /\ ss[i] \in SuperRec
<1>1. PICK P : /\ Offsets(SupersFrom(gs), Len(b), Len(ss), P) /\ HoldsSupers(b, ss, P)
               /\ \A l \in 1 .. Len(ss) + 1 : SuperAt(b)[l] = P[l]
  BY ReadsOffsets
<1>2. b \in Cells /\ ss \in Seq(SuperRec)
  BY DEF Layout
<1>3. PICK n \in Nat : n = Len(ss)
  BY <1>2
<1>4. ss[i] \in SuperRec
  BY <1>2
<1>5. i \in 1 .. n /\ i \in 1 .. n + 1 /\ i + 1 \in 1 .. n + 1
  <2>1. i \in 1 .. n
    BY <1>3
  <2>2. QED
    BY <2>1
<1>6. \A l \in 1 .. n + 1 : P[l] \in Nat
  <2>1. PICK f \in Nat, e \in Nat : f = SupersFrom(gs) /\ e = Len(b)
    BY <1>2 DEF Layout, SupersFrom, Cells
  <2>2. Offsets(f, e, n, P)
    BY <1>1, <1>3, <2>1, Zenon
  <2>3. QED
    BY <2>2, OffsetsWithin
<1>7. PICK x \in Nat, y \in Nat, s \in SuperRec : x = P[i] /\ y = P[i + 1] /\ s = ss[i]
  BY <1>4, <1>5, <1>6
<1>8. HoldsSuper(b, x, y, s)
  BY <1>1, <1>3, <1>5, <1>7, Zenon DEF HoldsSupers
<1>9. ReadsWell(b, x, y, ReadSupPDSBuff(b, x), s)
  BY <1>2, <1>8, ReadsFields
<1>10. SuperAt(b)[i] = x /\ SuperAt(b)[i + 1] = y
  BY <1>1, <1>3, <1>5, <1>7, Zenon
<1>11. NumSuper(b) = n
  BY <1>3, ReadsGDSs
<1>12. Headers(b) = [l \in 1 .. n |-> ReadSupPDSBuff(b, SuperAt(b)[l])]
  BY <1>11, Zenon DEF Headers
<1>13. Headers(b)[i] = ReadSupPDSBuff(b, SuperAt(b)[i])
  BY <1>5, <1>12, Zenon
<1>14. QED
  BY <1>4, <1>7, <1>9, <1>10, <1>13, Zenon

LEMMA SizesAreRight ==
    ASSUME NEW gs, NEW ss, Layout(flxArray, gs, ss), Good(gs, ss)
    PROVE  SizesAgree
<1>1. PICK b : b = flxArray
  OBVIOUS
<1>2. Layout(b, gs, ss)
  BY <1>1, Zenon
<1>3. PICK n \in Nat : n = Len(ss) /\ n = NumSuper(b)
  BY <1>2, ReadsGDSs
<1>4. SuperAt(b)[n + 1] = Len(b)
  <2>1. PICK P : /\ Offsets(SupersFrom(gs), Len(b), Len(ss), P) /\ HoldsSupers(b, ss, P)
                 /\ \A i \in 1 .. Len(ss) + 1 : SuperAt(b)[i] = P[i]
    BY <1>2, ReadsOffsets
  <2>2. n + 1 \in 1 .. n + 1
    OBVIOUS
  <2>3. P[n + 1] = Len(b)
    BY <1>3, <2>1, Zenon DEF Offsets
  <2>4. QED
    BY <1>3, <2>1, <2>2, <2>3, Zenon
<1>5. /\ NumGDS(b) = Len(gs)
      /\ \A m \in 1 .. Len(gs) : GDSAt(b, m)[2] = gs[m]
  BY <1>2, ReadsGDSs
<1>6. ASSUME NEW i \in 1 .. n
      PROVE  /\ Headers(b)[i].numPDS > 0
             /\ Headers(b)[i].gdsNum \in 1 .. NumGDS(b)
             /\ Headers(b)[i].pdsPtr = PDSCount(b, SuperAt(b)[i]) + 1
             /\ PDSRead(b, SuperAt(b)[i])[Headers(b)[i].numPDS + 1] = SuperAt(b)[i + 1]
             /\ \A j \in 1 .. Headers(b)[i].numPDS :
                   PDSAt(b, SuperAt(b)[i])[j] = PDSRead(b, SuperAt(b)[i])[j]
  <2>1. i \in 1 .. Len(ss)
    BY <1>3
  <2>2. ReadsWell(b, SuperAt(b)[i], SuperAt(b)[i + 1], Headers(b)[i], ss[i])
    BY <1>2, <2>1, ReadsHeaders
  <2>3. Len(ss[i].pdss) > 0 /\ ss[i].gdsNum \in 1 .. Len(gs)
    BY <2>1, Zenon DEF Good, GoodSuper
  <2>4. QED
    BY <1>5, <2>2, <2>3, Zenon DEF ReadsWell
<1>7. \A m, k \in 1 .. NumGDS(b) : m # k => GDSAt(b, m) # GDSAt(b, k)
  <2>1. TAKE m, k \in 1 .. NumGDS(b)
  <2>2. HAVE m # k
  <2>3. gs[m] # gs[k]
    BY <1>5, <2>2, Zenon DEF Good, Distinct
  <2>4. GDSAt(b, m)[2] # GDSAt(b, k)[2]
    BY <1>5, <2>3, Zenon
  <2>5. QED
    BY <2>4, Zenon
<1>8. QED
  BY <1>1, <1>3, <1>4, <1>6, <1>7, ZenonT(40) DEF SizesAgree

LEMMA OrderIsKept ==
    ASSUME NEW gs, NEW ss, Layout(flxArray, gs, ss), Good(gs, ss)
    PROVE  InOrder
<1>1. PICK b : b = flxArray
  OBVIOUS
<1>2. Layout(b, gs, ss)
  BY <1>1, Zenon
<1>3. PICK n \in Nat : n = Len(ss) /\ n = NumSuper(b)
  BY <1>2, ReadsGDSs
<1>4. PICK hs : hs = Headers(b)
  OBVIOUS
<1>5. DOMAIN hs = 1 .. n /\ \A i \in 1 .. n : hs[i] = ReadSupPDSBuff(b, SuperAt(b)[i])
  BY <1>3, <1>4 DEF Headers
<1>6. \A i \in 1 .. n : ReadsWell(b, SuperAt(b)[i], SuperAt(b)[i + 1], hs[i], ss[i])
  <2>1. TAKE i \in 1 .. n
  <2>2. i \in 1 .. Len(ss)
    BY <1>3
  <2>3. ReadsWell(b, SuperAt(b)[i], SuperAt(b)[i + 1], Headers(b)[i], ss[i])
    BY <1>2, <2>2, ReadsHeaders
  <2>4. QED
    BY <1>4, <2>3, Zenon
<1>7. ASSUME NEW i \in 1 .. n, NEW j \in 1 .. n, i < j
      PROVE  /\ \/ hs[i].element < hs[j].element
                \/ hs[i].element = hs[j].element /\ hs[i].refTime >= hs[j].refTime
             /\ \/ hs[i].element # hs[j].element \/ hs[i].refTime # hs[j].refTime
                \/ hs[i].tag # hs[j].tag \/ hs[i].gdsNum # hs[j].gdsNum
  <2>1. Comes(ss[i], ss[j])
    BY <1>3, <1>7, Zenon DEF Good, Sorted
  <2>2. /\ hs[i].element = ss[i].element /\ hs[i].refTime = ss[i].refTime
        /\ hs[i].tag = ss[i].tag /\ hs[i].gdsNum = ss[i].gdsNum
        /\ hs[j].element = ss[j].element /\ hs[j].refTime = ss[j].refTime
        /\ hs[j].tag = ss[j].tag /\ hs[j].gdsNum = ss[j].gdsNum
    BY <1>6, Zenon DEF ReadsWell
  <2>3. QED
    BY <2>1, <2>2, Zenon DEF Comes
<1>8. ASSUME NEW sup \in Supers(b), NEW t, t = ValidTimes(b, sup)
      PROVE  \A i, j \in DOMAIN t : i < j => t[i] < t[j]
  <2>1. PICK i \in 1 .. n : sup = SuperAt(b)[i]
    BY <1>3, Zenon DEF Supers
  <2>2. PICK k : k = Len(ss[i].pdss)
    OBVIOUS
  <2>3. /\ ReadSupPDSBuff(b, sup).numPDS = k
        /\ \A j \in 1 .. k :
              ReadPDSBuff(b, PDSRead(b, sup)[j]).validTime = ss[i].pdss[j].validTime
    BY <1>5, <1>6, <2>1, <2>2, Zenon DEF ReadsWell
  <2>4. t = [j \in 1 .. k |-> ReadPDSBuff(b, PDSRead(b, sup)[j]).validTime]
    BY <1>8, <2>3, Zenon DEF ValidTimes
  <2>5. DOMAIN t = 1 .. k /\ \A j \in 1 .. k : t[j] = ss[i].pdss[j].validTime
    BY <2>3, <2>4, Zenon
  <2>6. \A j, l \in 1 .. k : j < l => ss[i].pdss[j].validTime < ss[i].pdss[l].validTime
    BY <1>3, <2>2, Zenon DEF Good, GoodSuper, TimesSorted
  <2>7. QED
    BY <2>5, <2>6, Zenon
<1>9. \A i, j \in DOMAIN hs : i < j =>
         /\ \/ hs[i].element < hs[j].element
            \/ hs[i].element = hs[j].element /\ hs[i].refTime >= hs[j].refTime
         /\ \/ hs[i].element # hs[j].element \/ hs[i].refTime # hs[j].refTime
            \/ hs[i].tag # hs[j].tag \/ hs[i].gdsNum # hs[j].gdsNum
  BY <1>5, <1>7, Zenon
<1>10. \A sup \in Supers(b) :
          \A i, j \in DOMAIN ValidTimes(b, sup) :
             i < j => ValidTimes(b, sup)[i] < ValidTimes(b, sup)[j]
  BY <1>8, Zenon
<1>11. hs = Headers(flxArray)
  BY <1>1, <1>4, Zenon
<1>12. \A sup \in Supers(flxArray) :
          \A i, j \in DOMAIN ValidTimes(flxArray, sup) :
             i < j => ValidTimes(flxArray, sup)[i] < ValidTimes(flxArray, sup)[j]
  BY <1>1, <1>10, Zenon
<1>13. QED
  BY <1>9, <1>11, <1>12 DEF InOrder

(***************************************************************************)
(* The theorems.  The buffer holds a good index.                           *)
(***************************************************************************)

HoldsIndex(b) == \E gs, ss : Layout(b, gs, ss) /\ Good(gs, ss)
IndexInv == request \in Grids /\ HoldsIndex(flxArray)

(* An insertion is Put on what is read, and a good index stays good.       *)
LEMMA InsertsGrid ==
    ASSUME CountsFit, NEW b, HoldsIndex(b), NEW g \in Grids, NEW b2,
           b2 = InsertPDS(InsertGDS(b, g.gds).buf, g, InsertGDS(b, g.gds).gdsNum)
    PROVE  HoldsIndex(b2) /\ ContentsOf(b2) = PutGrid(ContentsOf(b), g)
<1>1. PICK gs, ss : Layout(b, gs, ss) /\ Good(gs, ss)
  BY Zenon DEF HoldsIndex
<1>2. PICK r : r = InsertGDS(b, g.gds)
  OBVIOUS
<1>3. PICK hs : /\ Layout(r.buf, hs, ss) /\ Good(hs, ss)
                /\ r.gdsNum \in 1 .. Len(hs) /\ hs[r.gdsNum] = g.gds
                /\ \A n \in 1 .. Len(gs) : hs[n] = gs[n] /\ n \in 1 .. Len(hs)
  <2>1. \E hs : /\ Layout(InsertGDS(b, g.gds).buf, hs, ss) /\ Good(hs, ss)
                /\ InsertGDS(b, g.gds).gdsNum \in 1 .. Len(hs)
                /\ hs[InsertGDS(b, g.gds).gdsNum] = g.gds
                /\ \A n \in 1 .. Len(gs) : hs[n] = gs[n] /\ n \in 1 .. Len(hs)
    BY <1>1, InsertsGDS
  <2>2. QED
    BY <1>2, <2>1, Zenon
<1>4. PICK ss2 : HoldsPut(InsertPDS(r.buf, g, r.gdsNum), hs, ss, ss2, g)
  BY <1>3, InsertsPDS
<1>5. Layout(b2, hs, ss2) /\ Good(hs, ss2) /\ Entries(hs, ss2) = PutGrid(Entries(hs, ss), g)
  BY <1>2, <1>4, Zenon DEF HoldsPut
<1>6. Entries(hs, ss) = Entries(gs, ss)
  BY <1>1, <1>3, SameEntries
<1>7. ContentsOf(b) = Entries(gs, ss)
  BY <1>1, ReadsContents
<1>8. ContentsOf(b2) = Entries(hs, ss2)
  BY <1>5, ReadsContents
<1>9. HoldsIndex(b2)
  BY <1>5, Zenon DEF HoldsIndex
<1>10. QED
  BY <1>5, <1>6, <1>7, <1>8, <1>9, Zenon

LEMMA ReopensGrids ==
    ASSUME NEW b, HoldsIndex(b)
    PROVE  /\ HoldsIndex(ReadFLX(WriteFLX(b)))
           /\ ContentsOf(ReadFLX(WriteFLX(b))) = ContentsOf(b)
<1>1. PICK gs, ss : Layout(b, gs, ss) /\ Good(gs, ss)
  BY Zenon DEF HoldsIndex
<1>2. Layout(ReadFLX(WriteFLX(b)), gs, ss)
  BY <1>1, ReopensIndex
<1>3. ContentsOf(ReadFLX(WriteFLX(b))) = Entries(gs, ss) /\ ContentsOf(b) = Entries(gs, ss)
  BY <1>1, <1>2, ReadsContents
<1>4. QED
  BY <1>1, <1>2, <1>3, Zenon DEF HoldsIndex

LEMMA IndexHolds ==
    ASSUME CountsFit
    PROVE  Spec => []IndexInv
<1>1. Init => IndexInv
  BY CreatesIndex, Zenon DEF Init, IndexInv, HoldsIndex
<1>2. IndexInv /\ [Next]_vars => IndexInv'
  <2>1. SUFFICES ASSUME IndexInv, [Next]_vars PROVE IndexInv'
    OBVIOUS
  <2>2. HoldsIndex(flxArray) /\ request \in Grids
    BY <2>1 DEF IndexInv
  <2>3. CASE Insert
    <3>1. /\ request' \in Grids
          /\ flxArray' = InsertPDS(InsertGDS(flxArray, request'.gds).buf, request',
                                   InsertGDS(flxArray, request'.gds).gdsNum)
      BY <2>3, Zenon DEF Insert
    <3>2. HoldsIndex(flxArray')
      BY <2>2, <3>1, InsertsGrid
    <3>3. QED
      BY <3>1, <3>2, Zenon DEF IndexInv, HoldsIndex
  <2>4. CASE Reopen
    <3>1. flxArray' = ReadFLX(WriteFLX(flxArray)) /\ request' = request
      BY <2>4, Zenon DEF Reopen
    <3>2. HoldsIndex(flxArray')
      BY <2>2, <3>1, ReopensGrids, Zenon
    <3>3. QED
      BY <2>2, <3>1, <3>2, Zenon DEF IndexInv, HoldsIndex
  <2>5. CASE UNCHANGED vars
    BY <2>2, <2>5 DEF vars, IndexInv, HoldsIndex
  <2>6. QED
    BY <2>1, <2>3, <2>4, <2>5, Zenon DEF Next
<1>3. QED
  BY <1>1, <1>2, PTL DEF Spec

(* However many grids are inserted, each cell of the index is a natural    *)
(* number (InsertGDS, InsertPDS, WriteFLX, ReadFLX).                       *)
THEOREM TypeCorrect ==
    ASSUME CountsFit
    PROVE  Spec => []TypeOK
<1>1. IndexInv => TypeOK
  BY Zenon DEF IndexInv, HoldsIndex, Layout, Cells, TypeOK
<1>2. QED
  BY <1>1, IndexHolds, PTL

(* The sizes, lengths and counts that InsertPDS keeps up to date always    *)
(* agree with the fields that the probes walk through.                     *)
THEOREM SizesRight ==
    ASSUME CountsFit
    PROVE  Spec => []SizesAgree
<1>1. IndexInv => SizesAgree
  BY SizesAreRight, Zenon DEF IndexInv, HoldsIndex
<1>2. QED
  BY <1>1, IndexHolds, PTL

(* The index is always in the order that database.c documents, whatever    *)
(* the order in which InsertPDS was given the grids.                       *)
THEOREM KeepsOrder ==
    ASSUME CountsFit
    PROVE  Spec => []InOrder
<1>1. IndexInv => InOrder
  BY OrderIsKept, Zenon DEF IndexInv, HoldsIndex
<1>2. QED
  BY <1>1, IndexHolds, PTL

(* What the probes read of the buffer is a map from keys to places: an     *)
(* insertion (InsertGDS, then InsertPDS) puts the grid at its key and      *)
(* disturbs no other, and WriteFLX and ReadFLX change nothing.             *)
THEOREM RefinesStore ==
    ASSUME CountsFit
    PROVE  Spec => ImplementsStore
<1>0. Contents = ContentsOf(flxArray)
  BY Zenon DEF Contents, ContentsOf
<1>1. Init => Store!Init
  <2>1. SUFFICES ASSUME Init PROVE Store!Init
    OBVIOUS
  <2>2. ContentsOf(CreateFLX) = {}
    BY CreatesIndex, ReadsContents
  <2>3. Contents = {} /\ request \in Grids
    BY <1>0, <2>1, <2>2, Zenon DEF Init
  <2>4. QED
    BY <2>3, Zenon DEF Store!Init
<1>2. IndexInv /\ [Next]_vars => [Store!Insert]_(Store!vars)
  <2>1. SUFFICES ASSUME IndexInv, [Next]_vars PROVE [Store!Insert]_(Store!vars)
    OBVIOUS
  <2>2. HoldsIndex(flxArray)
    BY <2>1 DEF IndexInv
  <2>3. Contents' = ContentsOf(flxArray')
    BY Zenon DEF Contents, ContentsOf
  <2>4. CASE Insert
    <3>1. /\ request' \in Grids
          /\ flxArray' = InsertPDS(InsertGDS(flxArray, request'.gds).buf, request',
                                   InsertGDS(flxArray, request'.gds).gdsNum)
      BY <2>4, Zenon DEF Insert
    <3>2. ContentsOf(flxArray') = PutGrid(ContentsOf(flxArray), request')
      BY <2>2, <3>1, InsertsGrid
    <3>3. Contents' = PutGrid(Contents, request')
      BY <1>0, <2>3, <3>2, Zenon
    <3>4. Store!Insert
      BY <3>1, <3>3, Zenon DEF Store!Insert, Store!Put, PutGrid, KeyOf
    <3>5. QED
      BY <3>4
  <2>5. CASE Reopen
    <3>1. flxArray' = ReadFLX(WriteFLX(flxArray)) /\ request' = request
      BY <2>5, Zenon DEF Reopen
    <3>2. Contents' = Contents
      BY <1>0, <2>2, <2>3, <3>1, ReopensGrids, Zenon
    <3>3. QED
      BY <3>1, <3>2, Zenon DEF Store!vars, KeyOf
  <2>6. CASE UNCHANGED vars
    <3>1. flxArray' = flxArray /\ request' = request
      BY <2>6 DEF vars
    <3>2. Contents' = Contents
      BY <1>0, <2>3, <3>1, Zenon
    <3>3. QED
      BY <3>1, <3>2, Zenon DEF Store!vars, KeyOf
  <2>7. QED
    BY <2>1, <2>4, <2>5, <2>6, Zenon DEF Next
<1>3. QED
  BY <1>1, <1>2, IndexHolds, PTL DEF Spec, ImplementsStore, Store!Spec
=============================================================================
