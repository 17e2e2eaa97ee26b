-------------------------- MODULE MessageToolsProofs --------------------------
(***************************************************************************)
(* For files of any bytes: the inventory, the reference time and the       *)
(* splitting find every message, whatever lies between, behind or within   *)
(* the messages, and -msg n finds the n-th message of clean files.         *)
(***************************************************************************)
EXTENDS MessageTools, TLAPS, WellFoundedInduction

(***************************************************************************)
(* Sums.                                                                   *)
(***************************************************************************)

Less == {p \in Nat \X Nat : p[1] < p[2]}

LEMMA LessWellFounded == IsWellFoundedOn(Less, Nat)
<1>1. OpToRel(<, Nat) = Less
  BY Zenon DEF OpToRel, Less
<1>2. QED
  BY <1>1, NatLessThanWellFounded, Zenon

(* Induction, for a set instead of a predicate.                            *)
LEMMA NatInSet ==
    ASSUME NEW S, 0 \in S, \A n \in Nat : n \in S => n + 1 \in S
    PROVE  \A n \in Nat : n \in S
<1> DEFINE T == {n \in Nat : n \notin S}
<1>1. SUFFICES ASSUME T # {} PROVE FALSE
  OBVIOUS
<1>2. \E x \in T : \A y \in T : ~ (<<y, x>> \in Less)
  <2> HIDE DEF T
  <2>1. T \subseteq Nat
    BY DEF T
  <2>2. QED
    BY <1>1, <2>1, LessWellFounded, WFMin, Zenon
<1>3. PICK x \in T : \A y \in T : ~ (<<y, x>> \in Less)
  BY <1>2
<1>4. \A y \in T : ~(y < x)
  BY <1>3 DEF Less
<1>5. x # 0
  OBVIOUS
<1>6. x - 1 \in Nat /\ x - 1 < x /\ x = (x - 1) + 1
  BY <1>5
<1>7. x - 1 \in S
  BY <1>4, <1>6
<1>8. QED
  BY <1>6, <1>7

(* SumBefore is well defined, and grows by each of the numbers.            *)
LEMMA SumBeforeIs ==
    ASSUME NEW N \in Nat, NEW s \in [1..N -> Nat]
    PROVE  /\ SumBefore(s)[1] = 0
           /\ \A i \in 1..N + 1 : SumBefore(s)[i] \in Nat
           /\ \A i \in 1..N : SumBefore(s)[i + 1] = SumBefore(s)[i] + s[i]
<1> DEFINE Sums(n, f) == f[1] = 0 /\ \A i \in 1..n : f[i + 1] = f[i] + s[i]
           S == {n \in Nat : n <= N => \E f \in [1..n + 1 -> Nat] : Sums(n, f)}
<1>1. 0 \in S
  <2>1. [i \in 1..0 + 1 |-> 0] \in [1..0 + 1 -> Nat] /\ Sums(0, [i \in 1..0 + 1 |-> 0])
    OBVIOUS
  <2>2. QED
    BY <2>1
<1>2. ASSUME NEW n \in Nat, n \in S PROVE n + 1 \in S
  <2>1. SUFFICES ASSUME n + 1 <= N PROVE \E f \in [1..(n + 1) + 1 -> Nat] : Sums(n + 1, f)
    <3>1. n + 1 \in Nat
      OBVIOUS
    <3> HIDE DEF Sums
    <3>2. QED
      BY <3>1, Zenon
  <2>2. PICK f \in [1..n + 1 -> Nat] : Sums(n, f)
    <3>1. n <= N
      BY <2>1
    <3>2. QED
      BY <1>2, <3>1
  <2>3. f[n + 1] + s[n + 1] \in Nat
    BY <2>1
  <2> DEFINE g == [i \in 1..(n + 1) + 1 |-> IF i = (n + 1) + 1 THEN f[n + 1] + s[n + 1] ELSE f[i]]
  <2>4. g \in [1..(n + 1) + 1 -> Nat]
    BY <2>3
  <2>5. g[1] = 0 /\ g[n + 1] = f[n + 1] /\ g[(n + 1) + 1] = f[n + 1] + s[n + 1]
    BY <2>2
  <2>6. ASSUME NEW i \in 1..n PROVE g[i + 1] = g[i] + s[i]
    BY <2>2
  <2>7. Sums(n + 1, g)
    <3> HIDE DEF g
    <3>1. \A i \in 1..n + 1 : i \in 1..n \/ i = n + 1
      OBVIOUS
    <3>2. QED
      BY <2>5, <2>6, <3>1
  <2>8. QED
    BY <2>4, <2>7
<1>3. N \in S
  <2> HIDE DEF S
  <2>1. QED
    BY <1>1, <1>2, NatInSet
<1>4. PICK f \in [1..N + 1 -> Nat] : Sums(N, f)
  <2>1. N <= N
    OBVIOUS
  <2>2. QED
    BY <1>3, <2>1
<1>5. Len(s) = N
  <2>1. s \in Seq(Nat)
    OBVIOUS
  <2>2. QED
    OBVIOUS
<1> DEFINE IsSum(h) == h = [i \in 1..(Len(s) + 1) |-> IF i = 1 THEN 0 ELSE h[i - 1] + s[i - 1]]
<1>6. IsSum(f)
  <2>1. ASSUME NEW i \in 1..N + 1 PROVE f[i] = IF i = 1 THEN 0 ELSE f[i - 1] + s[i - 1]
    <3>1. CASE i = 1
      BY <1>4, <3>1
    <3>2. CASE i # 1
      <4>1. i - 1 \in 1..N /\ (i - 1) + 1 = i
        BY <3>2
      <4>2. QED
        BY <1>4, <3>2, <4>1
    <3>3. QED
      BY <3>1, <3>2
  <2>2. QED
    BY <1>5, <2>1
<1> DEFINE sum == SumBefore(s)
<1>7. IsSum(sum)
  BY <1>6, Zenon DEF SumBefore
<1> HIDE DEF sum
<1>8. \A i \in 1..N + 1 : sum[i] = IF i = 1 THEN 0 ELSE sum[i - 1] + s[i - 1]
  BY <1>5, <1>7
<1>9. \A i \in 1..N : sum[i + 1] = sum[i] + s[i]
  <2>1. TAKE i \in 1..N
  <2>2. i + 1 \in 1..N + 1 /\ i + 1 # 1 /\ (i + 1) - 1 = i
    OBVIOUS
  <2>3. QED
    BY <1>8, <2>2
<1>10. \A i \in 1..N + 1 : sum[i] \in Nat
  <2> DEFINE U == {n \in Nat : n <= N => sum[n + 1] \in Nat}
  <2>1. 0 \in U
    BY <1>8
  <2>2. ASSUME NEW n \in Nat, n \in U PROVE n + 1 \in U
    <3>1. CASE n + 1 <= N
      <4>1. n + 1 \in 1..N /\ n <= N
        BY <3>1
      <4>2. sum[(n + 1) + 1] = sum[n + 1] + s[n + 1] /\ s[n + 1] \in Nat
        BY <1>9, <4>1
      <4>3. QED
        BY <2>2, <4>1, <4>2
    <3>2. QED
      BY <3>1
  <2>3. \A n \in Nat : n \in U
    <3> HIDE DEF U
    <3>1. QED
      BY <2>1, <2>2, NatInSet
  <2>4. ASSUME NEW i \in 1..N + 1 PROVE sum[i] \in Nat
    <3>1. i - 1 \in Nat /\ i - 1 <= N /\ (i - 1) + 1 = i
      OBVIOUS
    <3>2. i - 1 \in U
      BY <2>3, <3>1
    <3>3. QED
      BY <3>1, <3>2
  <2>5. QED
    BY <2>4
<1>11. QED
  BY <1>8, <1>9, <1>10 DEF sum

LEMMA SumBeforeGrows ==
    ASSUME NEW N \in Nat, NEW s \in [1..N -> Nat], NEW i \in 1..N + 1, NEW j \in 1..N + 1, i <= j
    PROVE  SumBefore(s)[i] <= SumBefore(s)[j]
<1> DEFINE sum == SumBefore(s)
           S == {n \in Nat : i + n <= N + 1 => sum[i] <= sum[i + n]}
<1>1. /\ \A k \in 1..N + 1 : sum[k] \in Nat
      /\ \A k \in 1..N : sum[k + 1] = sum[k] + s[k]
  BY SumBeforeIs
<1> HIDE DEF sum
<1>2. 0 \in S
  BY <1>1
<1>3. ASSUME NEW n \in Nat, n \in S PROVE n + 1 \in S
  <2>1. CASE i + (n + 1) <= N + 1
    <3>1. i + n \in 1..N /\ i + n <= N + 1 /\ i + (n + 1) = (i + n) + 1
      BY <2>1
    <3>2. /\ sum[i + (n + 1)] = sum[i + n] + s[i + n] /\ s[i + n] \in Nat
          /\ sum[i] \in Nat /\ sum[i + n] \in Nat
      BY <1>1, <3>1
    <3>3. QED
      BY <1>3, <3>1, <3>2
  <2>2. QED
    BY <2>1
<1>4. j - i \in Nat /\ i + (j - i) = j
  OBVIOUS
<1>5. j - i \in S
  <2> HIDE DEF S
  <2>1. QED
    BY <1>2, <1>3, <1>4, NatInSet
<1>6. QED
  BY <1>4, <1>5 DEF sum

(***************************************************************************)
(* Files.                                                                  *)
(***************************************************************************)

Sect0Bytes(ver) == IF ver = 2 THEN 16 ELSE 8

IsFile(f) ==
    LET n == Len(f.msgs)
    IN  /\ f \in BytesFile
        /\ \A i \in 1..n : /\ f.msgs[i].len >= 16
                           /\ \A d \in f.msgs[i].decoys : 0 < d /\ d < f.msgs[i].len
        /\ n > 0 => f.missing + Sect0Bytes(f.msgs[n].ver) <= LenOnFile(f.msgs[n].ver, f.msgs[n].len)

LEMMA FilesType ==
    ASSUME NEW fl \in ByteLists
    PROVE  /\ Len(fl) \in Nat /\ Len(fl) > 0
           /\ \A k \in 1..Len(fl) : IsFile(fl[k])
<1>1. fl \in Seq(BytesFile) /\ Len(fl) > 0
  BY ByteListsAssumption
<1>2. Len(fl) \in Nat /\ \A k \in 1..Len(fl) : fl[k] \in BytesFile
  BY <1>1
<1>3. ASSUME NEW k \in 1..Len(fl), NEW i \in 1..Len(fl[k].msgs) PROVE fl[k].msgs[i].len >= 16
  <2>1. fl[k].msgs[i] \in BytesMessage
    BY <1>2 DEF BytesFile
  <2>2. PICK v \in {-1, 1, 2}, l \in Nat : v = fl[k].msgs[i].ver /\ l = fl[k].msgs[i].len
    BY <2>1 DEF BytesMessage
  <2>3. l >= LeastLen(v)
    BY <2>2, ByteListsAssumption, Zenon
  <2>4. QED
    BY <2>2, <2>3 DEF LeastLen
<1>4. ASSUME NEW k \in 1..Len(fl) PROVE IsFile(fl[k])
  BY <1>2, <1>3, ByteListsAssumption, Zenon DEF IsFile, Sect0Bytes
<1>5. QED
  BY <1>1, <1>2, <1>4

LEMMA LenOnFileIs ==
    ASSUME NEW ver, NEW len \in Nat
    PROVE  LenOnFile(ver, len) \in Nat /\ len <= LenOnFile(ver, len)
<1>1. Padded(len) \in Nat /\ len <= Padded(len)
  BY DEF Padded
<1>2. QED
  BY <1>1 DEF LenOnFile

(* The messages lie one after the other, and Section 0 of each is in the   *)
(* file.                                                                   *)
LEMMA FileFacts ==
    ASSUME NEW f, IsFile(f)
    PROVE  LET n == Len(f.msgs)
           IN  /\ n \in Nat /\ f.trail \in Nat /\ f.missing \in Nat
               /\ Start(f)[1] = 0
               /\ \A i \in 1..n + 1 : Start(f)[i] \in Nat
               /\ \A i \in 1..n : /\ f.msgs[i] \in BytesMessage
                                  /\ TagOf(f, i) \in Nat /\ Start(f)[i] <= TagOf(f, i)
                                  /\ Start(f)[i + 1] = TagOf(f, i) + LenOnFile(f.msgs[i].ver, f.msgs[i].len)
                                  /\ TagOf(f, i) + f.msgs[i].len <= Start(f)[i + 1]
               /\ \A i, j \in 1..n + 1 : i <= j => Start(f)[i] <= Start(f)[j]
               /\ Size(f) \in Int /\ Size(f) = Start(f)[n + 1] + f.trail - f.missing
               /\ \A i \in 1..n : TagOf(f, i) + Sect0Bytes(f.msgs[i].ver) <= Size(f)
<1> DEFINE n == Len(f.msgs)
<1> DEFINE s == [i \in 1..n |-> f.msgs[i].gap + LenOnFile(f.msgs[i].ver, f.msgs[i].len)]
<1>1. f.msgs \in Seq(BytesMessage) /\ f.trail \in Nat /\ f.missing \in Nat
  BY DEF IsFile, BytesFile
<1>2. n \in Nat /\ \A i \in 1..n : f.msgs[i] \in BytesMessage
  BY <1>1
<1>3. \A i \in 1..n : /\ f.msgs[i].gap \in Nat /\ f.msgs[i].len \in Nat /\ f.msgs[i].len >= 16
                      /\ LenOnFile(f.msgs[i].ver, f.msgs[i].len) \in Nat
                      /\ f.msgs[i].len <= LenOnFile(f.msgs[i].ver, f.msgs[i].len)
  <2>1. \A i \in 1..n : f.msgs[i].gap \in Nat /\ f.msgs[i].len \in Nat
    BY <1>2 DEF BytesMessage
  <2>2. \A i \in 1..n : f.msgs[i].len >= 16
    BY DEF IsFile
  <2>3. QED
    BY <2>1, <2>2, LenOnFileIs
<1>4. n > 0 => f.missing + Sect0Bytes(f.msgs[n].ver) <= LenOnFile(f.msgs[n].ver, f.msgs[n].len)
  BY DEF IsFile
<1>5. Start(f) = SumBefore(s)
  BY Zenon DEF Start
<1>6. Size(f) = Start(f)[n + 1] + f.trail - f.missing
  BY DEF Size
<1> HIDE DEF n
<1>7. s \in [1..n -> Nat]
  BY <1>3
<1>8. /\ Start(f)[1] = 0
      /\ \A i \in 1..n + 1 : Start(f)[i] \in Nat
      /\ \A i \in 1..n : Start(f)[i + 1] = Start(f)[i] + s[i]
  <2> HIDE DEF s
  <2>1. QED
    BY <1>2, <1>7, <1>5, SumBeforeIs
<1>9. \A i, j \in 1..n + 1 : i <= j => Start(f)[i] <= Start(f)[j]
  BY <1>2, <1>7, <1>5, SumBeforeGrows
<1>10. ASSUME NEW i \in 1..n
      PROVE  /\ TagOf(f, i) \in Nat /\ Start(f)[i] <= TagOf(f, i)
             /\ Start(f)[i + 1] = TagOf(f, i) + LenOnFile(f.msgs[i].ver, f.msgs[i].len)
             /\ TagOf(f, i) + f.msgs[i].len <= Start(f)[i + 1]
  <2>1. i \in 1..n + 1
    BY <1>2
  <2>2. PICK a \in Nat, g \in Nat, l \in Nat, e \in Nat :
           /\ a = Start(f)[i] /\ g = f.msgs[i].gap /\ l = LenOnFile(f.msgs[i].ver, f.msgs[i].len)
           /\ e = f.msgs[i].len
    BY <1>3, <1>8, <2>1
  <2>3. TagOf(f, i) = a + g
    BY <2>2 DEF TagOf
  <2>4. Start(f)[i + 1] = a + (g + l)
    BY <1>8, <2>2
  <2>5. e <= l
    BY <1>3, <2>2
  <2> HIDE DEF s
  <2>6. QED
    BY <1>2, <2>2, <2>3, <2>4, <2>5
<1>11. Size(f) \in Int
  <2>1. n + 1 \in 1..n + 1
    BY <1>2
  <2>2. Start(f)[n + 1] \in Nat
    BY <1>8, <2>1
  <2>3. QED
    BY <1>1, <1>6, <2>2
<1>12. ASSUME NEW i \in 1..n PROVE TagOf(f, i) + Sect0Bytes(f.msgs[i].ver) <= Size(f)
  <2>1. n > 0 /\ n \in 1..n /\ n + 1 \in 1..n + 1 /\ i + 1 \in 1..n + 1
    BY <1>2
  <2>2. PICK b \in Nat : b = Sect0Bytes(f.msgs[i].ver) /\ b <= 16
    BY DEF Sect0Bytes
  <2>3. PICK z \in Nat, t \in Nat, m \in Nat : z = Start(f)[n + 1] /\ t = f.trail /\ m = f.missing
    BY <1>1, <1>8, <2>1
  <2>4. Size(f) = z + t - m
    BY <1>6, <2>3
  <2>5. CASE i = n
    <3>1. m + b <= LenOnFile(f.msgs[n].ver, f.msgs[n].len)
      BY <1>4, <2>1, <2>2, <2>3, <2>5
    <3>2. PICK l \in Nat, a \in Nat : l = LenOnFile(f.msgs[n].ver, f.msgs[n].len) /\ a = TagOf(f, n)
      BY <1>3, <1>10, <2>1
    <3>3. z = a + l
      BY <1>10, <2>1, <2>3, <3>2
    <3>4. QED
      BY <1>2, <2>2, <2>3, <2>4, <2>5, <3>1, <3>2, <3>3
  <2>6. CASE i # n
    <3>1. PICK a \in Nat, l \in Nat : a = TagOf(f, i) /\ l = f.msgs[i].len /\ l >= 16
      BY <1>3, <1>10
    <3>2. PICK u \in Nat, v \in Nat, w \in Nat : u = Start(f)[i + 1] /\ v = TagOf(f, n) /\ w = Start(f)[n]
      <4>1. n \in 1..n + 1
        BY <2>1
      <4>2. QED
        BY <1>8, <1>10, <2>1, <4>1
    <3>3. a + l <= u
      BY <1>10, <3>1, <3>2
    <3>4. u <= w
      <4>1. i + 1 <= n /\ n \in 1..n + 1
        BY <1>2, <2>1, <2>6
      <4>2. QED
        BY <1>9, <2>1, <3>2, <4>1
    <3>5. w <= v
      BY <1>10, <2>1, <3>2
    <3>6. PICK k \in Nat, c \in Nat : /\ k = LenOnFile(f.msgs[n].ver, f.msgs[n].len)
                                      /\ c = Sect0Bytes(f.msgs[n].ver)
      BY <1>3, <2>1 DEF Sect0Bytes
    <3>7. m + c <= k
      BY <1>4, <2>1, <2>3, <3>6
    <3>8. z = v + k
      BY <1>10, <2>1, <2>3, <3>2, <3>6
    <3>9. a + b <= z + t - m
      BY <1>2, <2>2, <2>3, <3>1, <3>2, <3>3, <3>4, <3>5, <3>6, <3>7, <3>8
    <3>10. QED
      BY <2>2, <2>4, <3>1, <3>9
  <2>7. QED
    BY <2>5, <2>6
<1>13. QED
  BY <1>1, <1>2, <1>8, <1>9, <1>10, <1>6, <1>11, <1>12 DEF n

(* A place from which the i-th message of a file is the next: between the  *)
(* bytes of the message before it and its own.                             *)
IsNext(f, i, pos) ==
    /\ i \in 1..(Len(f.msgs) + 1) /\ pos \in Nat
    /\ pos <= Start(f)[i]
    /\ i = 1 => pos = 0
    /\ i > 1 => TagOf(f, i - 1) + f.msgs[i - 1].len <= pos

OwnTag(f, i) == [at |-> TagOf(f, i), ver |-> f.msgs[i].ver, len |-> f.msgs[i].len,
                 head |-> f.msgs[i].head, refTime |-> f.msgs[i].refTime,
                 grids |-> f.msgs[i].grids]

(* Of the tags at or behind such a place that of the i-th message is the   *)
(* first, and the tags before it are of the messages before it.            *)
LEMMA TagsInOrder ==
    ASSUME NEW f, IsFile(f), NEW i, NEW pos, IsNext(f, i, pos)
    PROVE  /\ i <= Len(f.msgs) => OwnTag(f, i) \in Tags(f)
           /\ \A t \in Tags(f) : /\ t.at \in Nat
                                 /\ pos <= t.at => i <= Len(f.msgs) /\ TagOf(f, i) <= t.at
                                                   /\ (t.at = TagOf(f, i) => t = OwnTag(f, i))
<1> DEFINE n == Len(f.msgs)
<1>1. /\ n \in Nat /\ i \in 1..n + 1 /\ pos \in Nat /\ pos <= Start(f)[i]
      /\ i > 1 => TagOf(f, i - 1) + f.msgs[i - 1].len <= pos
  BY FileFacts DEF IsNext
<1>2. ASSUME i <= n PROVE OwnTag(f, i) \in Tags(f)
  <2>1. i \in 1..n
    BY <1>1, <1>2
  <2>2. TagOf(f, i) + 0 = TagOf(f, i)
    BY <2>1, FileFacts
  <2>3. OwnTag(f, i) \in {[at |-> TagOf(f, i) + d, ver |-> f.msgs[i].ver, len |-> f.msgs[i].len,
                           head |-> f.msgs[i].head, refTime |-> f.msgs[i].refTime,
                           grids |-> f.msgs[i].grids] : d \in {0} \cup f.msgs[i].decoys}
    BY <2>2, Zenon DEF OwnTag
  <2>4. QED
    BY <2>1, <2>3, Zenon DEF Tags
<1>3. ASSUME NEW t \in Tags(f)
      PROVE  /\ t.at \in Nat
             /\ pos <= t.at => i <= n /\ TagOf(f, i) <= t.at
                               /\ (t.at = TagOf(f, i) => t = OwnTag(f, i))
  <2>1. PICK j \in 1..n : \E d \in {0} \cup f.msgs[j].decoys :
           t = [at |-> TagOf(f, j) + d, ver |-> f.msgs[j].ver, len |-> f.msgs[j].len,
                head |-> f.msgs[j].head, refTime |-> f.msgs[j].refTime,
                grids |-> f.msgs[j].grids]
    BY Zenon DEF Tags
  <2>2. PICK d \in {0} \cup f.msgs[j].decoys :
           t = [at |-> TagOf(f, j) + d, ver |-> f.msgs[j].ver, len |-> f.msgs[j].len,
                head |-> f.msgs[j].head, refTime |-> f.msgs[j].refTime,
                grids |-> f.msgs[j].grids]
    BY <2>1
  <2>3. /\ f.msgs[j] \in BytesMessage /\ TagOf(f, j) \in Nat /\ Start(f)[j] <= TagOf(f, j)
        /\ TagOf(f, j) + f.msgs[j].len <= Start(f)[j + 1]
        /\ \A k, l \in 1..n + 1 : k <= l => Start(f)[k] <= Start(f)[l]
        /\ \A k \in 1..n + 1 : Start(f)[k] \in Nat
        /\ \A k \in 1..n : TagOf(f, k) \in Nat /\ Start(f)[k] <= TagOf(f, k)
    BY FileFacts
  <2>4. d \in Nat /\ d < f.msgs[j].len /\ f.msgs[j].len \in Nat
    <3>1. f.msgs[j].decoys \subseteq Nat /\ f.msgs[j].len \in Nat
      BY <2>3 DEF BytesMessage
    <3>2. f.msgs[j].len >= 16 /\ \A e \in f.msgs[j].decoys : 0 < e /\ e < f.msgs[j].len
      BY DEF IsFile
    <3>3. QED
      BY <2>2, <3>1, <3>2
  <2>5. t.at = TagOf(f, j) + d
    BY <2>2
  <2> HIDE DEF n
  <2>6. CASE j < i
    <3>1. j + 1 <= i /\ i > 1 /\ i - 1 \in 1..n /\ i \in Nat
      BY <1>1, <2>6
    <3>2. TagOf(f, j) + f.msgs[j].len <= pos
      <4>1. CASE j = i - 1
        BY <1>1, <3>1, <4>1
      <4>2. CASE j # i - 1
        <5>1. j + 1 <= i - 1 /\ j + 1 \in 1..n + 1 /\ i - 1 \in 1..n + 1
          BY <1>1, <3>1, <4>2
        <5>2. Start(f)[j + 1] <= Start(f)[i - 1] /\ Start(f)[i - 1] <= TagOf(f, i - 1)
          BY <2>3, <3>1, <5>1
        <5>3. TagOf(f, i - 1) + f.msgs[i - 1].len <= pos
          BY <1>1, <3>1
        <5>4. f.msgs[i - 1].len \in Nat
          BY <3>1, FileFacts DEF BytesMessage, n
        <5>5. Start(f)[j + 1] \in Nat /\ Start(f)[i - 1] \in Nat /\ TagOf(f, i - 1) \in Nat
          BY <2>3, <3>1, <5>1
        <5>6. QED
          BY <1>1, <2>3, <2>4, <5>2, <5>3, <5>4, <5>5
      <4>3. QED
        BY <4>1, <4>2
    <3>3. t.at < pos
      BY <1>1, <2>3, <2>4, <2>5, <3>2
    <3>4. QED
      BY <1>1, <2>3, <2>4, <2>5, <3>3
  <2>7. CASE j = i
    <3>1. i <= n /\ t.at >= TagOf(f, i) /\ (t.at = TagOf(f, i) => d = 0)
      BY <1>1, <2>3, <2>4, <2>5, <2>7
    <3>2. d = 0 => t = OwnTag(f, i)
      <4>1. TagOf(f, j) + 0 = TagOf(f, j)
        BY <2>3
      <4>2. QED
        BY <2>2, <2>7, <4>1, Zenon DEF OwnTag
    <3>3. QED
      BY <2>3, <2>4, <2>5, <3>1, <3>2
  <2>8. CASE j > i
    <3>1. i \in 1..n /\ i + 1 <= j /\ i + 1 \in 1..n + 1 /\ j \in 1..n + 1
      BY <1>1, <2>8
    <3>2. Start(f)[i + 1] <= Start(f)[j] /\ Start(f)[j] \in Nat /\ Start(f)[i + 1] \in Nat
      BY <2>3, <3>1
    <3>3. TagOf(f, i) + f.msgs[i].len <= Start(f)[i + 1] /\ f.msgs[i].len \in Nat
          /\ f.msgs[i].len >= 16
      BY <3>1, FileFacts DEF BytesMessage, n, IsFile
    <3>4. TagOf(f, i) < t.at /\ t.at \in Nat
      BY <2>3, <2>4, <2>5, <3>1, <3>2, <3>3
    <3>5. QED
      BY <2>3, <3>1, <3>4
  <2>9. QED
    BY <1>1, <2>6, <2>7, <2>8
<1>4. QED
  BY <1>2, <1>3

(* ReadSECT0 finds the next message, and no other.                         *)
LEMMA FindsNext ==
    ASSUME NEW f, IsFile(f), NEW i, NEW pos, IsNext(f, i, pos), NEW limit \in Int
    PROVE  LET s == ReadSECT0(f, pos, limit)
           IN  /\ i = Len(f.msgs) + 1 => s.ret # 0
               /\ i <= Len(f.msgs) /\ limit < 0 => s.ret = 0
               /\ s.ret = 0 => /\ i <= Len(f.msgs)
                               /\ s.tag = OwnTag(f, i)
                               /\ s.buffLen = TagOf(f, i) - pos
<1> DEFINE n == Len(f.msgs)
           near == {t \in Tags(f) : /\ pos <= t.at /\ t.at + 8 <= Size(f)
                                    /\ limit >= 0 => t.at + 8 - pos <= limit}
           first == CHOOSE t \in near : \A u \in near : t.at <= u.at
           s == ReadSECT0(f, pos, limit)
<1>1. n \in Nat /\ i \in 1..n + 1 /\ pos \in Nat /\ Size(f) \in Int
  BY FileFacts DEF IsNext
<1>2. \A t \in near : /\ t.at \in Nat /\ i <= n /\ TagOf(f, i) <= t.at
                      /\ (t.at = TagOf(f, i) => t = OwnTag(f, i))
  BY TagsInOrder
<1>3. s = IF near = {} \/ (first.ver = 2 /\ first.at + 16 > Size(f))
          THEN [ret |-> -1]
          ELSE [ret |-> 0, tag |-> first, buffLen |-> first.at - pos]
  BY Zenon DEF ReadSECT0
<1>4. ASSUME near # {}
      PROVE  i <= n /\ OwnTag(f, i) \in near /\ first = OwnTag(f, i)
  <2>1. i <= n /\ i \in 1..n
    BY <1>1, <1>2, <1>4
  <2>2. OwnTag(f, i) \in Tags(f) /\ OwnTag(f, i).at = TagOf(f, i)
    BY <2>1, TagsInOrder DEF OwnTag
  <2>3. TagOf(f, i) \in Nat /\ pos <= TagOf(f, i)
    <3>1. TagOf(f, i) \in Nat /\ Start(f)[i] \in Nat /\ Start(f)[i] <= TagOf(f, i)
      BY <1>1, <2>1, FileFacts
    <3>2. pos <= Start(f)[i]
      BY DEF IsNext
    <3>3. QED
      BY <1>1, <3>1, <3>2
  <2>4. PICK t \in near : TRUE
    BY <1>4
  <2>5. TagOf(f, i) <= t.at /\ t.at \in Nat /\ t.at + 8 <= Size(f)
        /\ (limit >= 0 => t.at + 8 - pos <= limit)
    BY <1>2
  <2>6. TagOf(f, i) + 8 <= Size(f) /\ (limit >= 0 => TagOf(f, i) + 8 - pos <= limit)
    BY <1>1, <2>3, <2>5
  <2>7. OwnTag(f, i) \in near
    BY <2>2, <2>3, <2>6
  <2>8. \A u \in near : OwnTag(f, i).at <= u.at
    BY <1>2, <2>2
  <2> HIDE DEF near
  <2>9. first \in near /\ \A u \in near : first.at <= u.at
    BY <2>7, <2>8
  <2>10. first.at <= TagOf(f, i) /\ TagOf(f, i) <= first.at /\ first.at \in Nat
    BY <1>2, <2>2, <2>7, <2>9
  <2>11. first.at = TagOf(f, i)
    BY <2>3, <2>10
  <2>12. QED
    BY <1>2, <2>1, <2>7, <2>9, <2>11
<1> HIDE DEF near, first, s
<1>5. i = n + 1 => s.ret # 0
  BY <1>1, <1>3, <1>4
<1>6. ASSUME i <= n, limit < 0 PROVE s.ret = 0
  <2>1. i \in 1..n
    BY <1>1, <1>6
  <2>2. OwnTag(f, i) \in Tags(f) /\ OwnTag(f, i).at = TagOf(f, i) /\ OwnTag(f, i).ver = f.msgs[i].ver
    BY <2>1, TagsInOrder DEF OwnTag
  <2>3. TagOf(f, i) \in Nat /\ pos <= TagOf(f, i)
    <3>1. TagOf(f, i) \in Nat /\ Start(f)[i] \in Nat /\ Start(f)[i] <= TagOf(f, i)
      BY <1>1, <2>1, FileFacts
    <3>2. pos <= Start(f)[i]
      BY DEF IsNext
    <3>3. QED
      BY <1>1, <3>1, <3>2
  <2>4. TagOf(f, i) + Sect0Bytes(f.msgs[i].ver) <= Size(f)
    BY <2>1, FileFacts
  <2>5. TagOf(f, i) + 8 <= Size(f) /\ (f.msgs[i].ver = 2 => TagOf(f, i) + 16 <= Size(f))
    BY <1>1, <2>3, <2>4 DEF Sect0Bytes
  <2>6. OwnTag(f, i) \in near
    BY <1>6, <2>2, <2>3, <2>5 DEF near
  <2>7. near # {} /\ first.ver = f.msgs[i].ver /\ first.at = TagOf(f, i)
    BY <1>4, <2>2, <2>6
  <2>8. ~(first.ver = 2 /\ first.at + 16 > Size(f))
    BY <1>1, <2>3, <2>5, <2>7
  <2>9. QED
    BY <1>3, <2>7, <2>8
<1>7. ASSUME s.ret = 0
      PROVE  i <= n /\ s.tag = OwnTag(f, i) /\ s.buffLen = TagOf(f, i) - pos
  <2>1. near # {} /\ s.tag = first /\ s.buffLen = first.at - pos
    BY <1>3, <1>7
  <2>2. QED
    BY <1>4, <2>1 DEF OwnTag
<1>8. QED
  BY <1>5, <1>6, <1>7 DEF s

(***************************************************************************)
(* The walk through the files.                                             *)
(***************************************************************************)

LEMMA MsgCounts ==
    ASSUME NEW fl \in ByteLists
    PROVE  LET L == Len(fl)
               before == MsgsBefore(fl)
           IN  /\ L \in Nat \ {0}
               /\ before[1] = 0
               /\ \A k \in 1..L + 1 : before[k] \in Nat
               /\ \A k \in 1..L : /\ Len(fl[k].msgs) \in Nat
                                  /\ before[k + 1] = before[k] + Len(fl[k].msgs)
               /\ \A j, k \in 1..L + 1 : j <= k => before[j] <= before[k]
<1> DEFINE L == Len(fl)
           s == [k \in 1..L |-> Len(fl[k].msgs)]
<1>1. L \in Nat \ {0} /\ \A k \in 1..L : IsFile(fl[k])
  BY FilesType
<1>2. \A k \in 1..L : Len(fl[k].msgs) \in Nat
  BY <1>1, FileFacts
<1>3. MsgsBefore(fl) = SumBefore(s)
  BY Zenon DEF MsgsBefore
<1> HIDE DEF L
<1>4. s \in [1..L -> Nat] /\ \A k \in 1..L : s[k] = Len(fl[k].msgs)
  BY <1>2
<1> HIDE DEF s
<1>5. /\ SumBefore(s)[1] = 0
      /\ \A k \in 1..L + 1 : SumBefore(s)[k] \in Nat
      /\ \A k \in 1..L : SumBefore(s)[k + 1] = SumBefore(s)[k] + s[k]
  BY <1>1, <1>4, SumBeforeIs
<1>6. \A j, k \in 1..L + 1 : j <= k => SumBefore(s)[j] <= SumBefore(s)[k]
  BY <1>1, <1>4, SumBeforeGrows
<1>7. QED
  BY <1>1, <1>2, <1>3, <1>4, <1>5, <1>6 DEF L

(* The walk is at the i-th message of the file: it is the next one, and    *)
(* has the next number.                                                    *)
At(i) == /\ IsNext(file, i, offset)
         /\ curMsg + 1 = Number(inName, i)
         /\ f_Command \in {"inventory", "split"} => offset = Start(file)[i]

Total == MsgsBefore(files)[Len(files) + 1]

WalkInv == /\ files \in ByteLists
           /\ f_Command \in Commands
           /\ msgNum \in MsgNums
           /\ inName \in 0..NumFiles
           /\ offset \in Nat
           /\ curMsg \in Nat
           /\ pc \in {"open", "loop", "convert", "done"}
           /\ ret \in {0, 1}
           /\ pc \in {"loop", "convert"} => inName > 0
           /\ pc = "loop" => \E i \in Nat : At(i)
           /\ pc = "open" \/ (pc = "done" /\ ret = 0) => curMsg = MsgsBefore(files)[inName + 1]
           /\ pc = "done" /\ ret = 0 => inName = NumFiles
           /\ curMsg <= Total + (IF pc = "convert" THEN 1 ELSE 0)
           /\ f_Command = "convert" => msgNum > 0 /\ (pc = "convert" \/ curMsg < msgNum)
           /\ pc = "convert" => /\ f_Command = "convert" /\ msgNum = curMsg
                                /\ offset < Size(file)
                                /\ \E i \in Nat : /\ IsNext(file, i, offset)
                                                  /\ curMsg = Number(inName, i)

(* The file that is open.                                                  *)
LEMMA OpenedFile ==
    ASSUME WalkInv, inName > 0
    PROVE  /\ inName \in 1..Len(files) /\ Len(files) \in Nat
           /\ IsFile(file) /\ Len(file.msgs) \in Nat
           /\ MsgsBefore(files)[inName] \in Nat
           /\ MsgsBefore(files)[inName + 1] = MsgsBefore(files)[inName] + Len(file.msgs)
           /\ MsgsBefore(files)[inName + 1] <= Total /\ Total \in Nat
<1>1. files \in ByteLists /\ Len(files) \in Nat \ {0}
  BY MsgCounts DEF WalkInv
<1>2. inName \in 1..Len(files)
  BY <1>1 DEF WalkInv, NumFiles
<1>3. inName \in 1..Len(files) + 1 /\ inName + 1 \in 1..Len(files) + 1
      /\ Len(files) + 1 \in 1..Len(files) + 1 /\ inName + 1 <= Len(files) + 1
  BY <1>1, <1>2
<1>4. QED
  BY <1>1, <1>2, <1>3, FilesType, MsgCounts DEF file, Total

(* What the search of the next message finds.                              *)
LEMMA AtNext ==
    ASSUME WalkInv, inName > 0, NEW i \in Nat, At(i)
    PROVE  /\ i \in 1..Len(file.msgs) + 1
           /\ Sect0.ret = 0 => /\ i \in 1..Len(file.msgs)
                               /\ tag = OwnTag(file, i)
                               /\ Sect0.buffLen = TagOf(file, i) - offset
           /\ Sect0.ret # 0 /\ curMsg > 0 => i = Len(file.msgs) + 1
           /\ FindSect0.ret = 0 => /\ i \in 1..Len(file.msgs)
                                   /\ FindSect0.tag = OwnTag(file, i)
           /\ offset >= Size(file) => i = Len(file.msgs) + 1
<1>1. IsFile(file) /\ IsNext(file, i, offset) /\ curMsg \in Nat
  BY OpenedFile DEF At, WalkInv
<1>2. PICK n \in Nat : n = Len(file.msgs)
  BY OpenedFile
<1>3. i \in 1..n + 1
  BY <1>1, <1>2 DEF IsNext
<1>4. (IF curMsg = 0 THEN GRIB_LIMIT ELSE -1) \in Int /\ GRIB_LIMIT \in Int
      /\ (curMsg > 0 => (IF curMsg = 0 THEN GRIB_LIMIT ELSE -1) < 0)
  BY <1>1 DEF GRIB_LIMIT
<1>5. /\ Sect0.ret = 0 => /\ i <= n /\ tag = OwnTag(file, i)
                          /\ Sect0.buffLen = TagOf(file, i) - offset
      /\ i <= n /\ curMsg > 0 => Sect0.ret = 0
  BY <1>1, <1>2, <1>4, FindsNext DEF Sect0, tag
<1>6. FindSect0.ret = 0 => i <= n /\ FindSect0.tag = OwnTag(file, i)
  BY <1>1, <1>2, <1>4, FindsNext DEF FindSect0
<1>7. ASSUME i <= n PROVE offset < Size(file)
  <2>1. i \in 1..n /\ i \in 1..n + 1
    BY <1>3, <1>7
  <2>2. /\ Start(file)[i] \in Nat /\ Start(file)[i] <= TagOf(file, i) /\ TagOf(file, i) \in Nat
        /\ TagOf(file, i) + Sect0Bytes(file.msgs[i].ver) <= Size(file) /\ Size(file) \in Int
    BY <1>1, <1>2, <2>1, FileFacts
  <2>3. Sect0Bytes(file.msgs[i].ver) \in {8, 16}
    BY DEF Sect0Bytes
  <2>4. offset \in Nat /\ offset <= Start(file)[i]
    BY <1>1 DEF IsNext
  <2>5. QED
    BY <2>2, <2>3, <2>4
<1>8. offset >= Size(file) => i = n + 1
  <2>1. offset \in Nat /\ Size(file) \in Int
    BY <1>1, FileFacts DEF IsNext
  <2>2. QED
    BY <1>3, <1>7, <2>1
<1>9. QED
  BY <1>2, <1>3, <1>5, <1>6, <1>8

(* From the i-th message, behind which the walk goes on at offset', it     *)
(* comes to the one after it.                                              *)
LEMMA WalksOn ==
    ASSUME WalkInv, pc = "loop", NEW i \in Nat, At(i), i \in 1..Len(file.msgs),
           UNCHANGED <<files, inName, f_Command>>, curMsg' = curMsg + 1,
           \/ offset' = Start(file)[i + 1]
           \/ offset' = TagOf(file, i) + file.msgs[i].len /\ f_Command \in {"reftime", "convert"}
    PROVE  /\ At(i + 1)' /\ offset' \in Nat
           /\ curMsg' \in Nat /\ curMsg' <= Total
<1>1. /\ IsFile(file) /\ file' = file /\ curMsg \in Nat /\ curMsg + 1 = Number(inName, i)
      /\ MsgsBefore(files)[inName] \in Nat
      /\ MsgsBefore(files)[inName + 1] = MsgsBefore(files)[inName] + Len(file.msgs)
      /\ MsgsBefore(files)[inName + 1] <= Total /\ Total \in Nat
      /\ inName > 0
  BY OpenedFile DEF WalkInv, At, file
<1>2. PICK n \in Nat : n = Len(file.msgs)
  BY <1>1, OpenedFile
<1>3. i \in 1..n /\ i + 1 \in 1..n + 1 /\ i \in 1..n + 1 /\ (i + 1) - 1 = i /\ i + 1 > 1 /\ i + 1 # 1
  BY <1>2
<1>4. /\ TagOf(file, i) \in Nat /\ Start(file)[i + 1] \in Nat /\ file.msgs[i].len \in Nat
      /\ TagOf(file, i) + file.msgs[i].len <= Start(file)[i + 1]
  BY <1>1, <1>2, <1>3, FileFacts DEF BytesMessage
<1>5. /\ offset' \in Nat /\ offset' <= Start(file)[i + 1]
      /\ TagOf(file, i) + file.msgs[i].len <= offset'
  BY <1>4
<1>6. IsNext(file, i + 1, offset')
  BY <1>2, <1>3, <1>5 DEF IsNext
<1>7. Number(inName, i)' = Number(inName, i) /\ Number(inName, i + 1)' = Number(inName, i + 1)
  BY DEF Number
<1>8. Number(inName, i) = MsgsBefore(files)[inName] + i
      /\ Number(inName, i + 1) = MsgsBefore(files)[inName] + (i + 1)
  BY DEF Number
<1>9. curMsg' + 1 = Number(inName, i + 1)
  BY <1>1, <1>8
<1>10. curMsg' \in Nat /\ curMsg' <= Total
  BY <1>1, <1>2, <1>3, <1>8
<1>11. f_Command' \in {"inventory", "split"} => offset' = Start(file)[i + 1]
  OBVIOUS
<1>12. At(i + 1)'
  BY <1>1, <1>6, <1>7, <1>9, <1>11 DEF At
<1>13. QED
  BY <1>5, <1>10, <1>12

(* The common steps of the three loops.                                    *)
LEMMA StepsOver ==
    ASSUME WalkInv, InLoop, Sect0.ret = 0, UNCHANGED <<files, inName, f_Command>>,
           NEW len, StepOver(len),
           \/ len = LenOnFile(tag.ver, tag.len)
           \/ len = tag.len /\ f_Command = "reftime"
    PROVE  \E i \in Nat : /\ i \in 1..Len(file.msgs) /\ At(i) /\ At(i + 1)'
                          /\ tag = OwnTag(file, i)
                          /\ Sect0.buffLen = TagOf(file, i) - offset
                          /\ offset' \in Nat /\ curMsg' = curMsg + 1
                          /\ curMsg' \in Nat /\ curMsg' <= Total
<1>1. pc = "loop" /\ inName > 0 /\ offset \in Nat
  BY DEF InLoop, WalkInv
<1>2. PICK i \in Nat : At(i)
  BY <1>1 DEF WalkInv
<1>3. i \in 1..Len(file.msgs) /\ tag = OwnTag(file, i) /\ Sect0.buffLen = TagOf(file, i) - offset
  BY <1>1, <1>2, AtNext
<1>4. tag.ver = file.msgs[i].ver /\ tag.len = file.msgs[i].len
  BY <1>3 DEF OwnTag
<1>5. IsFile(file)
  BY <1>1, OpenedFile
<1>6. /\ TagOf(file, i) \in Nat /\ file.msgs[i].len \in Nat
      /\ Start(file)[i + 1] = TagOf(file, i) + LenOnFile(file.msgs[i].ver, file.msgs[i].len)
  BY <1>3, <1>5, FileFacts DEF BytesMessage
<1>7. LenOnFile(file.msgs[i].ver, file.msgs[i].len) \in Nat
  BY <1>6, LenOnFileIs
<1>8. curMsg' = curMsg + 1 /\ offset' = TagOf(file, i) + len
  <2>1. curMsg' = curMsg + 1 /\ offset' = offset + Sect0.buffLen + len
    BY DEF StepOver
  <2>2. len \in Nat
    BY <1>4, <1>6, <1>7
  <2>3. QED
    BY <1>1, <1>3, <1>6, <2>1, <2>2
<1>9. \/ offset' = Start(file)[i + 1]
      \/ offset' = TagOf(file, i) + file.msgs[i].len /\ f_Command \in {"reftime", "convert"}
  BY <1>4, <1>6, <1>8
<1>10. /\ At(i + 1)' /\ offset' \in Nat /\ curMsg' \in Nat /\ curMsg' <= Total
  BY <1>1, <1>2, <1>3, <1>8, <1>9, WalksOn
<1>11. QED
  BY <1>2, <1>3, <1>8, <1>10

(* The end of a file: all of its messages are behind.                      *)
LEMMA AtTheEnd ==
    ASSUME WalkInv, pc = "loop", offset >= Size(file) \/ (Sect0.ret # 0 /\ curMsg > 0)
    PROVE  curMsg = MsgsBefore(files)[inName + 1]
<1>1. inName > 0
  BY DEF WalkInv
<1>2. PICK i \in Nat : At(i)
  BY DEF WalkInv
<1>3. i = Len(file.msgs) + 1 /\ curMsg + 1 = Number(inName, i) /\ curMsg \in Nat
  BY <1>1, <1>2, AtNext DEF At, WalkInv
<1>4. /\ Len(file.msgs) \in Nat /\ MsgsBefore(files)[inName] \in Nat
      /\ MsgsBefore(files)[inName + 1] = MsgsBefore(files)[inName] + Len(file.msgs)
  BY <1>1, OpenedFile
<1>5. Number(inName, i) = MsgsBefore(files)[inName] + i
  BY DEF Number
<1>6. QED
  BY <1>3, <1>4, <1>5

LEMMA WalkInit == Init => WalkInv
<1> SUFFICES ASSUME Init PROVE WalkInv
  OBVIOUS
<1>1. files \in ByteLists /\ curMsg = 0 /\ inName = 0 /\ pc = "open" /\ ret = 0 /\ offset = 0
      /\ f_Command \in Commands /\ msgNum \in MsgNums /\ (f_Command = "convert" => msgNum > 0)
  BY DEF Init
<1>2. Len(files) \in Nat \ {0} /\ MsgsBefore(files)[1] = 0 /\ Total \in Nat
  <2>1. Len(files) \in Nat \ {0} /\ MsgsBefore(files)[1] = 0
        /\ \A k \in 1..Len(files) + 1 : MsgsBefore(files)[k] \in Nat
    BY <1>1, MsgCounts
  <2>2. QED
    BY <2>1 DEF Total
<1>3. 0 \in 0..NumFiles
  BY <1>2 DEF NumFiles
<1>4. QED
  BY <1>1, <1>2, <1>3 DEF WalkInv

LEMMA WalkStep == WalkInv /\ [Next]_vars => WalkInv'
<1> SUFFICES ASSUME WalkInv, [Next]_vars PROVE WalkInv'
  OBVIOUS
<1>1. \A i \in Nat : UNCHANGED <<files, f_Command, inName, offset, curMsg>> => At(i)' = At(i)
  BY DEF At, file, Number
<1>2. pc = "loop" => Total \in Nat /\ inName > 0
  BY OpenedFile DEF WalkInv
<1>3. UNCHANGED <<files, f_Command>> => NumFiles' = NumFiles
  BY DEF NumFiles
<1>4. UNCHANGED files => Total' = Total /\ MsgsBefore(files)' = MsgsBefore(files)
  BY DEF Total
<1>5. CASE UNCHANGED vars
  <2>1. UNCHANGED <<files, f_Command, msgNum, inName, offset, curMsg, out, refTime, pc, ret>>
    BY <1>5 DEF vars
  <2>2. file' = file /\ \A i \in Nat : Number(inName, i)' = Number(inName, i)
    BY <2>1 DEF file, Number
  <2>3. QED
    BY <1>1, <1>3, <1>4, <2>1, <2>2 DEF WalkInv
<1>6. CASE OpenFile
  <2>1. /\ UNCHANGED <<files, f_Command, msgNum, curMsg, ret>> /\ pc = "open" /\ pc' = "loop"
        /\ inName < NumFiles /\ inName' = inName + 1 /\ offset' = 0
    BY <1>6 DEF OpenFile, input
  <2>2. Len(files) \in Nat \ {0} /\ MsgsBefore(files)[inName + 1] = curMsg /\ inName \in Nat
    BY <2>1, MsgCounts DEF WalkInv
  <2>3. inName' \in 1..Len(files) /\ inName' \in 0..NumFiles
    BY <2>1, <2>2 DEF NumFiles
  <2>4. IsFile(file')
    BY <2>1, <2>3, FilesType DEF file, WalkInv
  <2>5. Len(file'.msgs) \in Nat /\ Start(file')[1] = 0
    BY <2>4, FileFacts
  <2>6. IsNext(file', 1, offset')
    BY <2>1, <2>5 DEF IsNext
  <2>7. Number(inName, 1)' = curMsg + 1
    BY <2>1, <2>2 DEF Number
  <2>8. At(1)'
    BY <2>1, <2>5, <2>6, <2>7 DEF At
  <2>9. QED
    BY <1>3, <1>4, <2>1, <2>2, <2>3, <2>8 DEF WalkInv
<1>7. CASE /\ Fail /\ UNCHANGED <<input, inName, offset, curMsg>>
           /\ pc \in {"open", "loop"}
  <2>1. /\ UNCHANGED <<files, f_Command, msgNum, inName, offset, curMsg>>
        /\ pc' = "done" /\ ret' = 1 /\ pc # "convert" /\ pc # "done"
    BY <1>7 DEF Fail, input
  <2>2. QED
    BY <1>3, <1>4, <2>1 DEF WalkInv
<1>8. CASE NoMoreFiles
  <2>1. /\ UNCHANGED <<files, f_Command, msgNum, inName, offset, curMsg, ret>>
        /\ pc' = "done" /\ pc = "open" /\ inName = NumFiles
    BY <1>8 DEF NoMoreFiles, input
  <2>2. QED
    BY <1>3, <1>4, <2>1 DEF WalkInv
<1>9. CASE EndOfFile \/ TrailingBytes
  <2>1. /\ UNCHANGED <<files, f_Command, msgNum, inName, offset, curMsg, ret>>
        /\ pc' = "open" /\ pc = "loop"
        /\ offset >= Size(file) \/ (Sect0.ret # 0 /\ curMsg > 0)
    BY <1>9 DEF EndOfFile, TrailingBytes, InLoop, input
  <2>2. curMsg = MsgsBefore(files)[inName + 1]
    BY <2>1, AtTheEnd
  <2>3. QED
    BY <1>3, <1>4, <2>1, <2>2 DEF WalkInv
<1>10. ASSUME UNCHANGED <<files, f_Command, msgNum, inName, pc, ret>>, pc = "loop",
              f_Command # "convert" \/ curMsg' < msgNum,
              NEW i \in Nat, At(i)', offset' \in Nat, curMsg' \in Nat, curMsg' <= Total
       PROVE  WalkInv'
  BY <1>2, <1>3, <1>4, <1>10 DEF WalkInv
<1>11. CASE ListMessage \/ NoteRefTime \/ SplitMessage \/ SkipMessage
  <2>1. /\ UNCHANGED <<files, f_Command, msgNum, inName, pc, ret>> /\ pc = "loop"
        /\ InLoop /\ f_Command # "convert" /\ Sect0.ret = 0
    BY <1>11 DEF ListMessage, NoteRefTime, SplitMessage, SkipMessage, AtMessage, InLoop, input
  <2>2. \/ StepOver(LenOnFile(tag.ver, tag.len))
        \/ StepOver(tag.len) /\ f_Command = "reftime"
    BY <1>11 DEF ListMessage, NoteRefTime, SplitMessage, SkipMessage, AtMessage, SplitLen
  <2>3. PICK i \in Nat : At(i + 1)' /\ offset' \in Nat /\ curMsg' \in Nat /\ curMsg' <= Total
    BY <2>1, <2>2, StepsOver
  <2>4. i + 1 \in Nat
    OBVIOUS
  <2>5. QED
    BY <1>10, <2>1, <2>3, <2>4
<1>12. CASE FindNext
  <2>1. /\ UNCHANGED <<files, f_Command, msgNum, inName, pc, ret>> /\ pc = "loop"
        /\ f_Command = "convert" /\ FindSect0.ret = 0 /\ curMsg + 1 < msgNum
        /\ offset' = FindSect0.tag.at + FindSect0.tag.len /\ curMsg' = curMsg + 1
    BY <1>12 DEF FindNext, InFind, input
  <2>2. inName > 0
    BY <2>1 DEF WalkInv
  <2>3. PICK i \in Nat : At(i)
    BY <2>1 DEF WalkInv
  <2>4. i \in 1..Len(file.msgs) /\ FindSect0.tag = OwnTag(file, i)
    BY <2>1, <2>2, <2>3, AtNext
  <2>5. offset' = TagOf(file, i) + file.msgs[i].len
    BY <2>1, <2>4 DEF OwnTag
  <2>6. At(i + 1)' /\ offset' \in Nat /\ curMsg' \in Nat /\ curMsg' <= Total
    BY <2>1, <2>3, <2>4, <2>5, WalksOn
  <2>7. i + 1 \in Nat /\ curMsg' < msgNum
    BY <2>1
  <2>8. QED
    BY <1>10, <2>1, <2>6, <2>7
<1>13. CASE FoundMessage
  <2>1. /\ UNCHANGED <<files, f_Command, msgNum, inName, offset, ret>> /\ pc = "loop"
        /\ f_Command = "convert" /\ curMsg + 1 >= msgNum
        /\ pc' = "convert" /\ curMsg' = curMsg + 1 /\ offset < Size(file)
    BY <1>13 DEF FoundMessage, InFind, input
  <2>2. curMsg \in Nat /\ curMsg < msgNum /\ msgNum \in Nat /\ curMsg <= Total
    BY <1>2, <2>1, ToolsAssumption DEF WalkInv
  <2>3. curMsg' = msgNum /\ curMsg' \in Nat
    BY <2>1, <2>2
  <2>4. PICK i \in Nat : At(i)
    BY <2>1 DEF WalkInv
  <2>5. IsNext(file, i, offset)' /\ curMsg' = Number(inName, i)'
    BY <2>1, <2>4 DEF At, file, Number
  <2>6. Total \in Nat /\ inName > 0
    BY <1>2, <2>1
  <2>7. curMsg' <= Total + 1 /\ file' = file
    BY <2>1, <2>2, <2>6 DEF file
  <2>8. QED
    BY <1>3, <1>4, <2>1, <2>3, <2>5, <2>6, <2>7 DEF WalkInv
<1>14. QED
  <2>1. OpenFails \/ NotGrib \/ InventoryFails \/ RefTimeFails \/ SplitRunsOut \/ SplitCannotWrite
           \/ FindFails => /\ Fail /\ UNCHANGED <<input, inName, offset, curMsg>>
                           /\ pc \in {"open", "loop"}
    BY DEF OpenFails, NotGrib, InventoryFails, RefTimeFails, SplitRunsOut, SplitCannotWrite,
           FindFails, AtMessage, InLoop, InFind
  <2>2. QED
    BY <1>5, <1>6, <1>7, <1>8, <1>9, <1>11, <1>12, <1>13, <2>1 DEF Next, Terminated

LEMMA Walks == Spec => []WalkInv
  BY WalkInit, WalkStep, PTL DEF Spec

(* What is known of a message that the search found.                       *)
LEMMA FoundTag ==
    ASSUME WalkInv, InLoop, Sect0.ret = 0
    PROVE  /\ tag.at \in Nat /\ tag.len \in Nat /\ tag.grids \in Nat /\ tag.refTime \in Int
           /\ SplitLen \in Nat /\ Size(file) - tag.at \in Nat
           /\ offset + Sect0.buffLen = tag.at
           /\ inName \in Nat /\ curMsg \in Nat /\ offset \in Nat
<1>1. pc = "loop" /\ inName > 0 /\ inName \in Nat /\ curMsg \in Nat /\ offset \in Nat
  BY OpenedFile DEF InLoop, WalkInv
<1>2. PICK i \in Nat : At(i)
  BY <1>1 DEF WalkInv
<1>3. i \in 1..Len(file.msgs) /\ tag = OwnTag(file, i) /\ Sect0.buffLen = TagOf(file, i) - offset
  BY <1>1, <1>2, AtNext
<1>4. IsFile(file)
  BY <1>1, OpenedFile
<1>5. /\ file.msgs[i] \in BytesMessage /\ TagOf(file, i) \in Nat /\ Size(file) \in Int
      /\ TagOf(file, i) + Sect0Bytes(file.msgs[i].ver) <= Size(file)
  BY <1>3, <1>4, FileFacts
<1>6. Sect0Bytes(file.msgs[i].ver) \in {8, 16}
  BY DEF Sect0Bytes
<1>7. tag.at = TagOf(file, i) /\ tag.len \in Nat /\ tag.grids \in Nat /\ tag.refTime \in Int
  BY <1>3, <1>5 DEF OwnTag, BytesMessage
<1>8. SplitLen \in Nat
  BY <1>7, LenOnFileIs DEF SplitLen
<1>9. QED
  BY <1>1, <1>3, <1>5, <1>6, <1>7, <1>8

(* The entries of the output, and the reference time, are in their types.  *)
OutInv == /\ refTime \in Int
          /\ IF f_Command = "inventory"
             THEN out \in Seq([msgNum : Nat, subgNum : Nat, start : Nat])
             ELSE out \in Seq([name : Nat \X Nat, from : Nat, bytes : Nat])

LEMMA OutStep == WalkInv /\ OutInv /\ [Next]_vars => OutInv'
<1> SUFFICES ASSUME WalkInv, OutInv, [Next]_vars PROVE OutInv'
  OBVIOUS
<1>1. CASE UNCHANGED <<f_Command, out, refTime>>
  BY <1>1 DEF OutInv
<1>2. CASE ListMessage
  <2>1. /\ InLoop /\ Sect0.ret = 0 /\ f_Command = "inventory" /\ f_Command' = f_Command
        /\ refTime' = refTime
        /\ out' = out \o [s \in 1..tag.grids |-> Entry(curMsg + 1, s - 1, offset)]
    BY <1>2 DEF ListMessage, AtMessage, input
  <2> DEFINE E == [msgNum : Nat, subgNum : Nat, start : Nat]
             new == [s \in 1..tag.grids |-> Entry(curMsg + 1, s - 1, offset)]
  <2>2. \A s \in 1..tag.grids : Entry(curMsg + 1, s - 1, offset) \in E
    BY <2>1, FoundTag DEF Entry
  <2>3. tag.grids \in Nat
    BY <2>1, FoundTag
  <2> HIDE DEF E
  <2>4. new \in Seq(E)
    BY <2>2, <2>3
  <2>5. out \in Seq(E)
    BY <2>1 DEF OutInv, E
  <2> HIDE DEF new
  <2>6. out \o new \in Seq(E)
    BY <2>4, <2>5
  <2>7. QED
    BY <2>1, <2>6 DEF OutInv, E, new
<1>3. CASE NoteRefTime
  <2>1. /\ InLoop /\ Sect0.ret = 0 /\ UNCHANGED <<f_Command, out>>
        /\ refTime' = IF curMsg = 0 \/ tag.refTime < refTime THEN tag.refTime ELSE refTime
    BY <1>3 DEF NoteRefTime, AtMessage, input
  <2>2. tag.refTime \in Int
    BY <2>1, FoundTag
  <2>3. QED
    BY <2>1, <2>2 DEF OutInv
<1>4. CASE SplitMessage \/ SplitRunsOut
  <2>1. /\ InLoop /\ Sect0.ret = 0 /\ f_Command = "split" /\ UNCHANGED <<f_Command, refTime>>
    BY <1>4 DEF SplitMessage, SplitRunsOut, AtMessage, input
  <2>2. \/ out' = Append(out, [name |-> <<inName, curMsg + 1>>,
                               from |-> offset + Sect0.buffLen, bytes |-> SplitLen])
        \/ out' = Append(out, [name |-> <<inName, curMsg + 1>>, from |-> tag.at,
                               bytes |-> Size(file) - tag.at])
    BY <1>4 DEF SplitMessage, SplitRunsOut
  <2>3. /\ <<inName, curMsg + 1>> \in Nat \X Nat /\ offset + Sect0.buffLen \in Nat
        /\ SplitLen \in Nat /\ tag.at \in Nat /\ Size(file) - tag.at \in Nat
    BY <2>1, FoundTag
  <2> DEFINE R == [name : Nat \X Nat, from : Nat, bytes : Nat]
  <2>4. PICK e \in R : out' = Append(out, e)
    BY <2>2, <2>3
  <2>5. out \in Seq(R)
    BY <2>1 DEF OutInv
  <2> HIDE DEF R
  <2>6. out' \in Seq(R)
    BY <2>4, <2>5
  <2>7. QED
    BY <2>1, <2>6 DEF OutInv, R
<1>5. QED
  <2>1. \/ UNCHANGED vars \/ OpenFile \/ OpenFails \/ NoMoreFiles \/ EndOfFile \/ NotGrib
        \/ TrailingBytes \/ InventoryFails \/ RefTimeFails \/ SkipMessage \/ SplitCannotWrite
        \/ FoundMessage \/ FindNext \/ FindFails
        => UNCHANGED <<f_Command, out, refTime>>
    BY DEF vars, OpenFile, OpenFails, NoMoreFiles, EndOfFile, NotGrib, TrailingBytes,
           InventoryFails, RefTimeFails, SkipMessage, SplitCannotWrite, FoundMessage, FindNext,
           FindFails, input
  <2>2. QED
    BY <1>1, <1>2, <1>3, <1>4, <2>1 DEF Next, Terminated

(* The four commands keep the types of their state; above all they never   *)
(* number more messages than the files hold, for files of any bytes.       *)
THEOREM TypeCorrect == Spec => []TypeOK
<1>1. Init => OutInv
  BY ToolsAssumption DEF Init, OutInv
<1>2. WalkInv /\ OutInv => TypeOK
  <2>1. SUFFICES ASSUME WalkInv, OutInv PROVE TypeOK
    OBVIOUS
  <2>2. Len(files) \in Nat \ {0} /\ Total \in Nat
    <3>1. Len(files) \in Nat \ {0} /\ \A k \in 1..Len(files) + 1 : MsgsBefore(files)[k] \in Nat
      BY <2>1, MsgCounts DEF WalkInv
    <3>2. QED
      BY <3>1 DEF Total
  <2>3. inName \in 0..Len(files)
    BY <2>1, <2>2 DEF WalkInv, NumFiles
  <2>4. curMsg \in 0..(Total + 1)
    BY <2>1, <2>2 DEF WalkInv
  <2>5. QED
    BY <2>1, <2>3, <2>4 DEF WalkInv, OutInv, TypeOK, Total
<1>3. QED
  BY <1>1, <1>2, WalkInit, WalkStep, OutStep, PTL DEF Spec

(***************************************************************************)
(* -C -msg n.                                                              *)
(***************************************************************************)

(* In files that end with a message that takes all of its bytes, -msg n    *)
(* hands over the n-th message of the inventory, whatever headers, padding *)
(* and look-alikes lie before it.                                          *)
THEOREM FindsMessage == Spec => []FindsInCleanFiles
<1>1. ASSUME WalkInv PROVE FindsInCleanFiles
  <2>1. SUFFICES ASSUME pc = "convert", \A f \in 1..inName : EndsInMessage(files[f])
                 PROVE  \E m \in AllMsgs : msgNum = Number(m[1], m[2]) /\ HandsOver(m[1], m[2])
    BY DEF FindsInCleanFiles
  <2>2. inName > 0 /\ msgNum = curMsg /\ offset < Size(file)
    BY <1>1, <2>1 DEF WalkInv
  <2>3. PICK i \in Nat : IsNext(file, i, offset) /\ curMsg = Number(inName, i)
    BY <1>1, <2>1 DEF WalkInv
  <2>4. IsFile(file) /\ inName \in 1..Len(files) /\ inName \in 1..inName
    BY <1>1, <2>2, OpenedFile
  <2>5. PICK n \in Nat : n = Len(file.msgs)
    BY <1>1, <2>2, OpenedFile
  <2>6. i \in 1..n + 1 /\ offset \in Nat
    BY <2>3, <2>5 DEF IsNext
  <2>7. file.trail = 0 /\ (file.msgs # <<>> => file.msgs[n].ver # -1)
    BY <2>1, <2>4, <2>5 DEF EndsInMessage, file
  <2>8. ~(Size(file) <= offset)
    BY <2>2, <2>4, <2>6, FileFacts
  <2>9. i # n + 1
    <3>1. SUFFICES ASSUME i = n + 1 PROVE FALSE
      OBVIOUS
    <3>2. Size(file) = Start(file)[n + 1] - file.missing /\ file.missing \in Nat
          /\ Start(file)[n + 1] \in Nat
      <4>1. /\ file.missing \in Nat /\ Size(file) = Start(file)[n + 1] + file.trail - file.missing
            /\ Start(file)[n + 1] \in Nat
        BY <2>4, <2>5, <3>1, <2>6, FileFacts
      <4>2. QED
        BY <2>7, <4>1
    <3>3. Start(file)[n + 1] <= offset
      <4>1. CASE n = 0
        <5>1. Start(file)[1] = 0
          BY <2>4, FileFacts
        <5>2. QED
          BY <2>6, <4>1, <5>1
      <4>2. CASE n > 0
        <5>1. file.msgs # <<>> /\ n \in 1..n /\ (n + 1) - 1 = n /\ n + 1 > 1
          BY <2>5, <4>2
        <5>2. LenOnFile(file.msgs[n].ver, file.msgs[n].len) = file.msgs[n].len
          BY <2>7, <5>1 DEF LenOnFile
        <5>3. Start(file)[n + 1] = TagOf(file, n) + file.msgs[n].len
          BY <2>4, <2>5, <5>1, <5>2, FileFacts
        <5>4. TagOf(file, n) + file.msgs[n].len <= offset
          BY <2>3, <3>1, <5>1 DEF IsNext
        <5>5. QED
          BY <5>3, <5>4
      <4>3. QED
        BY <2>5, <4>1, <4>2
    <3>4. QED
      BY <2>6, <2>8, <3>2, <3>3
  <2>10. i \in 1..n
    BY <2>6, <2>9
  <2>11. HandsOver(inName, i)
    <3>1. -1 \in Int /\ -1 < 0 /\ i <= n
      BY <2>10
    <3>2. /\ ReadSECT0(file, offset, -1).ret = 0
          /\ ReadSECT0(file, offset, -1).tag = OwnTag(file, i)
      BY <2>3, <2>4, <2>5, <3>1, FindsNext
    <3>3. QED
      BY <3>2 DEF HandsOver, OwnTag, file
  <2>12. <<inName, i>> \in AllMsgs
    BY <2>4, <2>5, <2>10 DEF AllMsgs, file
  <2>13. QED
    BY <2>2, <2>3, <2>11, <2>12
<1>2. QED
  BY <1>1, Walks, PTL

(***************************************************************************)
(* The reference time.                                                     *)
(***************************************************************************)

(* refTime is the oldest of the messages found so far, which are all in    *)
(* the first file.                                                         *)
OldestInv ==
    f_Command = "reftime" /\ curMsg > 0 =>
       /\ \E i \in 1..curMsg : refTime = files[1].msgs[i].refTime
       /\ \A i \in 1..curMsg : refTime <= files[1].msgs[i].refTime

LEMMA OldestStep == WalkInv /\ OutInv /\ OldestInv /\ [Next]_vars => OldestInv'
<1> SUFFICES ASSUME WalkInv, OutInv, OldestInv, [Next]_vars PROVE OldestInv'
  OBVIOUS
<1>1. CASE UNCHANGED <<files, f_Command, curMsg, refTime>> \/ f_Command' # "reftime"
  BY <1>1 DEF OldestInv
<1>2. CASE NoteRefTime
  <2>1. /\ InLoop /\ Sect0.ret = 0 /\ f_Command = "reftime"
        /\ UNCHANGED <<files, inName, f_Command>>
        /\ refTime' = IF curMsg = 0 \/ tag.refTime < refTime THEN tag.refTime ELSE refTime
        /\ StepOver(tag.len)
    BY <1>2 DEF NoteRefTime, AtMessage, input
  <2>2. PICK i \in Nat : /\ i \in 1..Len(file.msgs) /\ At(i) /\ tag = OwnTag(file, i)
                         /\ curMsg' = curMsg + 1
    BY <2>1, StepsOver
  <2>3. inName = 1 /\ files \in ByteLists /\ curMsg \in Nat
    BY <2>1 DEF WalkInv, InLoop, NumFiles
  <2>4. MsgsBefore(files)[1] = 0
    BY <2>3, MsgCounts
  <2>5. i = curMsg + 1
    BY <2>2, <2>3, <2>4 DEF At, Number
  <2>6. tag.refTime = files[1].msgs[curMsg + 1].refTime
    BY <2>2, <2>3, <2>5 DEF OwnTag, file
  <2>7. tag.refTime \in Int /\ refTime \in Int
    BY <2>1, FoundTag DEF OutInv
  <2>8. PICK t \in Int, r \in Int : t = tag.refTime /\ r = refTime
    BY <2>7
  <2>9. \A j \in 1..curMsg : files[1].msgs[j].refTime \in Int
    <3>1. TAKE j \in 1..curMsg
    <3>2. j \in 1..Len(file.msgs)
      BY <2>2, <2>3, <2>5
    <3>3. IsFile(file)
      BY <2>3, OpenedFile
    <3>4. file.msgs[j] \in BytesMessage
      BY <3>2, <3>3, FileFacts
    <3>5. QED
      BY <2>3, <3>4 DEF BytesMessage, file
  <2>10. CASE curMsg = 0
    <3>1. refTime' = files[1].msgs[1].refTime /\ curMsg' = 1 /\ refTime' \in Int
      BY <2>1, <2>2, <2>6, <2>7, <2>10
    <3>2. QED
      BY <2>1, <3>1 DEF OldestInv
  <2>11. CASE curMsg # 0
    <3>1. /\ \E j \in 1..curMsg : r = files[1].msgs[j].refTime
          /\ \A j \in 1..curMsg : r <= files[1].msgs[j].refTime
      BY <2>1, <2>3, <2>8, <2>11 DEF OldestInv
    <3>2. refTime' = IF t < r THEN t ELSE r
      BY <2>1, <2>8, <2>11
    <3>3. files[1].msgs[curMsg + 1].refTime = t
      BY <2>6, <2>8
    <3>4. \A j \in 1..curMsg + 1 : j \in 1..curMsg \/ j = curMsg + 1
      BY <2>3
    <3>5. \A j \in 1..curMsg + 1 : refTime' <= files[1].msgs[j].refTime
      BY <2>9, <3>1, <3>2, <3>3, <3>4
    <3>6. \E j \in 1..curMsg + 1 : refTime' = files[1].msgs[j].refTime
      BY <2>3, <3>1, <3>2, <3>3
    <3>7. QED
      BY <2>1, <2>2, <3>5, <3>6 DEF OldestInv
  <2>12. QED
    BY <2>10, <2>11
<1>3. QED
  <2>1. \/ UNCHANGED vars \/ OpenFile \/ OpenFails \/ NoMoreFiles \/ EndOfFile \/ NotGrib
        \/ TrailingBytes \/ InventoryFails \/ RefTimeFails \/ SplitCannotWrite \/ SplitRunsOut
        \/ FindFails
        => UNCHANGED <<files, f_Command, curMsg, refTime>>
    BY DEF vars, OpenFile, OpenFails, NoMoreFiles, EndOfFile, NotGrib, TrailingBytes,
           InventoryFails, RefTimeFails, SplitCannotWrite, SplitRunsOut, FindFails, input
  <2>2. ListMessage \/ SplitMessage \/ SkipMessage \/ FoundMessage \/ FindNext
        => f_Command' # "reftime"
    BY DEF ListMessage, SplitMessage, SkipMessage, FoundMessage, FindNext, AtMessage, InFind,
           input
  <2>3. QED
    BY <1>1, <1>2, <2>1, <2>2 DEF Next, Terminated

(* GRIB2RefTime returns the oldest reference time of the first file,       *)
(* although it does not step over the padding of TDLPack messages.         *)
THEOREM FindsOldest == Spec => []RefTimeIsOldest
<1>1. Init => OutInv /\ OldestInv
  BY ToolsAssumption DEF Init, OutInv, OldestInv
<1>2. ASSUME WalkInv, OldestInv PROVE RefTimeIsOldest
  <2>1. SUFFICES ASSUME EndedWell("reftime"), files[1].msgs # <<>>
                 PROVE  LET times == {files[1].msgs[i].refTime : i \in 1..Len(files[1].msgs)}
                        IN  refTime \in times /\ \A t \in times : refTime <= t
    BY DEF RefTimeIsOldest
  <2>2. files \in ByteLists /\ inName = 1 /\ curMsg = MsgsBefore(files)[1 + 1]
        /\ f_Command = "reftime"
    BY <1>2, <2>1 DEF WalkInv, EndedWell, NumFiles
  <2>3. Len(files[1].msgs) \in Nat /\ curMsg = Len(files[1].msgs)
    <3>1. 1 \in 1..Len(files)
      BY <2>2, MsgCounts
    <3>2. MsgsBefore(files)[1] = 0 /\ Len(files[1].msgs) \in Nat
          /\ MsgsBefore(files)[1 + 1] = MsgsBefore(files)[1] + Len(files[1].msgs)
      BY <2>2, <3>1, MsgCounts
    <3>3. QED
      BY <2>2, <3>2
  <2>4. curMsg > 0
    <3>1. 1 \in 1..Len(files)
      BY <2>2, MsgCounts
    <3>2. IsFile(files[1])
      BY <2>2, <3>1, FilesType
    <3>3. files[1].msgs \in Seq(BytesMessage)
      BY <3>2 DEF IsFile, BytesFile
    <3>4. QED
      BY <2>1, <2>3, <3>3
  <2>5. QED
    BY <1>2, <2>2, <2>3, <2>4 DEF OldestInv
<1>3. QED
  BY <1>1, <1>2, WalkInit, WalkStep, OutStep, OldestStep, PTL DEF Spec

(***************************************************************************)
(* Numbers.                                                                *)
(***************************************************************************)

(* The messages found so far.                                              *)
Found(n) == {m \in AllMsgs : Number(m[1], m[2]) <= n}

(* Each message has a number of its own, and all have one up to Total.     *)
LEMMA OwnNumbers ==
    ASSUME files \in ByteLists
    PROVE  /\ \A m \in AllMsgs : m = <<m[1], m[2]>> /\ Number(m[1], m[2]) \in 1..Total
           /\ \A m, l \in AllMsgs : Number(m[1], m[2]) = Number(l[1], l[2]) => m = l
<1> DEFINE L == Len(files)
           B == MsgsBefore(files)
<1>1. /\ L \in Nat /\ \A k \in 1..L + 1 : B[k] \in Nat
      /\ \A k \in 1..L : Len(files[k].msgs) \in Nat /\ B[k + 1] = B[k] + Len(files[k].msgs)
      /\ \A j, k \in 1..L + 1 : j <= k => B[j] <= B[k]
  BY MsgCounts
<1>2. ASSUME NEW m \in AllMsgs
      PROVE  /\ m = <<m[1], m[2]>> /\ m[1] \in 1..L /\ m[2] \in 1..Len(files[m[1]].msgs)
  BY DEF AllMsgs
<1>3. \A f, i : Number(f, i) = B[f] + i
  BY DEF Number
<1> HIDE DEF L, B
<1>4. ASSUME NEW m \in AllMsgs
      PROVE  Number(m[1], m[2]) \in 1..B[L + 1]
  <2>1. m[1] \in 1..L /\ m[1] \in 1..L + 1 /\ m[1] + 1 \in 1..L + 1 /\ L + 1 \in 1..L + 1
        /\ m[1] + 1 <= L + 1
    BY <1>1, <1>2
  <2>2. PICK a \in Nat, b \in Nat, c \in Nat, n \in Nat :
           a = B[m[1]] /\ b = B[m[1] + 1] /\ c = B[L + 1] /\ n = Len(files[m[1]].msgs)
    BY <1>1, <2>1
  <2>3. b = a + n /\ b <= c
    BY <1>1, <2>1, <2>2
  <2>4. PICK i \in 1..n : i = m[2]
    BY <1>2, <2>2
  <2>5. Number(m[1], m[2]) = a + i
    BY <1>3, <2>2, <2>4
  <2>6. a + i \in 1..c
    BY <2>3
  <2>7. QED
    BY <2>2, <2>5, <2>6
<1>5. ASSUME NEW m \in AllMsgs, NEW l \in AllMsgs, m[1] < l[1]
      PROVE  Number(m[1], m[2]) < Number(l[1], l[2])
  <2>1. m[1] \in 1..L /\ l[1] \in 1..L
    BY <1>2
  <2>2. m[1] \in 1..L + 1 /\ m[1] + 1 \in 1..L + 1 /\ l[1] \in 1..L + 1 /\ m[1] + 1 <= l[1]
    BY <1>1, <1>5, <2>1
  <2>3. PICK a \in Nat, b \in Nat, c \in Nat, n \in Nat :
           a = B[m[1]] /\ b = B[m[1] + 1] /\ c = B[l[1]] /\ n = Len(files[m[1]].msgs)
    BY <1>1, <2>1, <2>2
  <2>4. b = a + n /\ b <= c
    BY <1>1, <2>1, <2>2, <2>3
  <2>5. PICK i \in 1..n : i = m[2]
    BY <1>2, <2>3
  <2>6. PICK j \in Nat \ {0} : j = l[2]
    BY <1>1, <1>2, <2>1
  <2>7. Number(m[1], m[2]) = a + i /\ Number(l[1], l[2]) = c + j
    BY <1>3, <2>3, <2>5, <2>6
  <2>8. a + i < c + j
    BY <2>4
  <2>9. QED
    BY <2>7, <2>8
<1>6. ASSUME NEW m \in AllMsgs, NEW l \in AllMsgs, Number(m[1], m[2]) = Number(l[1], l[2])
      PROVE  m = l
  <2>1. Number(m[1], m[2]) \in Int /\ Number(l[1], l[2]) \in Int
    BY <1>1, <1>4
  <2>2. m[1] \in Int /\ l[1] \in Int
    BY <1>1, <1>2
  <2>3. m[1] = l[1]
    BY <1>5, <1>6, <2>1, <2>2
  <2>4. m[1] \in 1..L + 1 /\ B[m[1]] \in Nat /\ m[2] \in Int /\ l[2] \in Int
    BY <1>1, <1>2
  <2>5. B[m[1]] + m[2] = B[m[1]] + l[2]
    BY <1>3, <1>6, <2>3
  <2>6. m[2] = l[2]
    BY <2>4, <2>5
  <2>7. QED
    BY <1>2, <2>3, <2>6
<1>7. QED
  BY <1>2, <1>4, <1>6 DEF Total, L, B

(* A step of the loop finds one message more.                              *)
LEMMA FindsOneMore ==
    ASSUME WalkInv, pc = "loop", NEW i \in Nat, At(i), i \in 1..Len(file.msgs)
    PROVE  /\ <<inName, i>> \in AllMsgs /\ Number(inName, i) = curMsg + 1
           /\ Found(curMsg + 1) = Found(curMsg) \cup {<<inName, i>>}
<1>1. inName > 0 /\ files \in ByteLists /\ curMsg \in Nat
  BY DEF WalkInv
<1>2. inName \in 1..Len(files)
  BY <1>1, OpenedFile
<1>3. <<inName, i>> \in AllMsgs
  BY <1>2 DEF AllMsgs, file
<1>4. Number(inName, i) = curMsg + 1
  BY DEF At
<1>5. \A m \in AllMsgs : Number(m[1], m[2]) \in Nat
  BY <1>1, OwnNumbers
<1>6. \A m \in AllMsgs : Number(m[1], m[2]) = curMsg + 1 => m = <<inName, i>>
  <2>1. TAKE m \in AllMsgs
  <2>2. <<inName, i>>[1] = inName /\ <<inName, i>>[2] = i
    OBVIOUS
  <2>3. QED
    BY <1>1, <1>3, <1>4, <2>2, OwnNumbers
<1>7. \A m \in AllMsgs : Number(m[1], m[2]) <= curMsg + 1
                            <=> Number(m[1], m[2]) <= curMsg \/ m = <<inName, i>>
  BY <1>1, <1>4, <1>5, <1>6
<1>8. QED
  BY <1>3, <1>4, <1>7 DEF Found

(* What a sequence holds.                                                  *)
Contents(s) == {s[k] : k \in DOMAIN s}

LEMMA Joined ==
    ASSUME NEW R, NEW s \in Seq(R), NEW t \in Seq(R)
    PROVE  LET u == s \o t
           IN  /\ Contents(u) = Contents(s) \cup Contents(t)
               /\ \A j, k \in DOMAIN u : j < k =>
                     \/ j \in DOMAIN s /\ k \in DOMAIN s /\ u[j] = s[j] /\ u[k] = s[k]
                     \/ u[j] \in Contents(s) /\ u[k] \in Contents(t)
                     \/ \E a, b \in DOMAIN t : a < b /\ u[j] = t[a] /\ u[k] = t[b]
<1> DEFINE u == s \o t
<1>1. PICK m \in Nat, n \in Nat : m = Len(s) /\ n = Len(t)
  OBVIOUS
<1>2. DOMAIN s = 1..m /\ DOMAIN t = 1..n /\ DOMAIN u = 1..m + n
  BY <1>1
<1>3. /\ \A k \in 1..m : u[k] = s[k]
      /\ \A k \in 1..m + n : k > m => k - m \in 1..n /\ u[k] = t[k - m]
      /\ \A k \in 1..n : k + m \in 1..m + n /\ u[k + m] = t[k]
  BY <1>1
<1> HIDE DEF u
<1>4. Contents(u) = Contents(s) \cup Contents(t)
  <2>1. \A k \in 1..m + n : k \in 1..m \/ k > m
    OBVIOUS
  <2>2. \A k \in 1..m : k \in 1..m + n
    OBVIOUS
  <2>3. \A x \in Contents(u) : x \in Contents(s) \cup Contents(t)
    BY <1>2, <1>3, <2>1 DEF Contents
  <2>4. \A x \in Contents(s) : x \in Contents(u)
    BY <1>2, <1>3, <2>2 DEF Contents
  <2>5. \A x \in Contents(t) : x \in Contents(u)
    BY <1>2, <1>3 DEF Contents
  <2>6. QED
    BY <2>3, <2>4, <2>5
<1>5. ASSUME NEW j \in DOMAIN u, NEW k \in DOMAIN u, j < k
      PROVE  \/ j \in DOMAIN s /\ k \in DOMAIN s /\ u[j] = s[j] /\ u[k] = s[k]
             \/ u[j] \in Contents(s) /\ u[k] \in Contents(t)
             \/ \E a, b \in DOMAIN t : a < b /\ u[j] = t[a] /\ u[k] = t[b]
  <2>1. CASE k <= m
    BY <1>2, <1>3, <1>5, <2>1
  <2>2. CASE j <= m /\ k > m
    <3>1. j \in DOMAIN s /\ k - m \in DOMAIN t /\ u[j] = s[j] /\ u[k] = t[k - m]
      BY <1>2, <1>3, <1>5, <2>2
    <3>2. QED
      BY <3>1 DEF Contents
  <2>3. CASE j > m
    <3>1. j - m \in 1..n /\ k - m \in 1..n /\ j - m < k - m
      BY <1>2, <1>5, <2>3
    <3>2. u[j] = t[j - m] /\ u[k] = t[k - m]
      BY <1>2, <1>3, <1>5, <2>3
    <3>3. QED
      BY <1>2, <3>1, <3>2
  <2>4. QED
    BY <1>2, <2>1, <2>2, <2>3
<1>6. QED
  BY <1>4, <1>5 DEF u

(* At the end all the messages have been found.                            *)
LEMMA FoundAll ==
    ASSUME WalkInv, pc = "done", ret = 0, f_Command # "reftime"
    PROVE  Found(curMsg) = AllMsgs
<1>1. files \in ByteLists /\ curMsg = Total
  BY DEF WalkInv, NumFiles, Total
<1>2. \A m \in AllMsgs : Number(m[1], m[2]) \in 1..Total
  BY <1>1, OwnNumbers
<1>3. Total \in Nat
  BY <1>1, MsgCounts DEF Total
<1>4. QED
  BY <1>1, <1>2, <1>3 DEF Found

(* Before the first message nothing has been found.                        *)
LEMMA FoundNone ==
    ASSUME files \in ByteLists
    PROVE  Found(0) = {}
<1>1. \A m \in AllMsgs : Number(m[1], m[2]) \in 1..Total
  BY OwnNumbers
<1>2. QED
  BY <1>1 DEF Found

(***************************************************************************)
(* The splitting.                                                          *)
(***************************************************************************)

Asked(m) == msgNum \in {0, Number(m[1], m[2])}

Part(m) == [name |-> <<m[1], Number(m[1], m[2])>>, from |-> TagOf(files[m[1]], m[2]),
            bytes |-> LenOnFile(files[m[1]].msgs[m[2]].ver, files[m[1]].msgs[m[2]].len)]

(* Exactly the messages found so far that are asked for have been written. *)
SplitInv ==
    f_Command = "split" /\ ret = 0 =>
       /\ Contents(out) = {Part(m) : m \in {x \in Found(curMsg) : Asked(x)}}
       /\ \A e \in Contents(out) : e.name[2] <= curMsg
       /\ \A j, k \in DOMAIN out : j < k => out[j].name[2] < out[k].name[2]

(* Found, Asked and Part speak of what does not change.                    *)
LEMMA SameParts ==
    ASSUME UNCHANGED <<files, msgNum>>
    PROVE  /\ AllMsgs' = AllMsgs
           /\ \A n : Found(n)' = Found(n)
           /\ \A m : Asked(m)' = Asked(m) /\ Part(m)' = Part(m)
           /\ \A f, i : Number(f, i)' = Number(f, i)
<1>1. AllMsgs' = AllMsgs /\ \A f, i : Number(f, i)' = Number(f, i)
  BY DEF AllMsgs, Number
<1>2. QED
  BY <1>1 DEF Found, Asked, Part

LEMMA SplitStep == WalkInv /\ OutInv /\ SplitInv /\ [Next]_vars => SplitInv'
<1> SUFFICES ASSUME WalkInv, OutInv, SplitInv, [Next]_vars PROVE SplitInv'
  OBVIOUS
<1>1. CASE UNCHANGED <<files, f_Command, msgNum, curMsg, out, ret>>
  BY <1>1, SameParts DEF SplitInv, Contents
<1>2. CASE f_Command' # "split" \/ ret' = 1
  BY <1>2 DEF SplitInv
<1>3. CASE SplitMessage \/ SkipMessage
  <2>1. SUFFICES ASSUME ret = 0 PROVE SplitInv'
    BY <1>3 DEF SplitInv, SplitMessage, SkipMessage
  <2>2. /\ InLoop /\ Sect0.ret = 0 /\ f_Command = "split" /\ StepOver(SplitLen) /\ pc = "loop"
        /\ UNCHANGED <<files, f_Command, msgNum, inName, ret>>
    BY <1>3 DEF SplitMessage, SkipMessage, AtMessage, InLoop, input
  <2>3. PICK i \in Nat : /\ i \in 1..Len(file.msgs) /\ At(i) /\ tag = OwnTag(file, i)
                         /\ Sect0.buffLen = TagOf(file, i) - offset
                         /\ curMsg' = curMsg + 1
    BY <2>2, StepsOver DEF SplitLen
  <2>4. curMsg \in Nat
    BY DEF WalkInv
  <2> DEFINE m == <<inName, i>>
             Wanted(n) == {Part(x) : x \in {y \in Found(n) : Asked(y)}}
  <2>5. m[1] = inName /\ m[2] = i
    OBVIOUS
  <2>6. Number(m[1], m[2]) = curMsg + 1 /\ Found(curMsg + 1) = Found(curMsg) \cup {m}
    BY <2>2, <2>3, <2>5, FindsOneMore
  <2>7. Part(m) = [name |-> <<inName, curMsg + 1>>, from |-> TagOf(file, i), bytes |-> SplitLen]
    BY <2>3, <2>5, <2>6 DEF Part, SplitLen, OwnTag, file
  <2>8. Asked(m) <=> IsSplitOff
    <3>1. msgNum \in Nat
      BY ToolsAssumption DEF WalkInv
    <3>2. QED
      BY <2>6, <3>1 DEF Asked, IsSplitOff
  <2>9. /\ Contents(out) = Wanted(curMsg)
        /\ \A e \in Contents(out) : e.name[2] <= curMsg
        /\ \A j, k \in DOMAIN out : j < k => out[j].name[2] < out[k].name[2]
    BY <2>1, <2>2 DEF SplitInv
  <2> HIDE DEF m
  <2>10. Wanted(curMsg + 1) = Wanted(curMsg) \cup (IF Asked(m) THEN {Part(m)} ELSE {})
    BY <2>6
  <2>11. \A e \in Contents(out) : e.name[2] \in Nat
    <3> DEFINE R == [name : Nat \X Nat, from : Nat, bytes : Nat]
    <3>1. out \in Seq(R)
      BY <2>2 DEF OutInv
    <3>2. \A e \in R : e.name[2] \in Nat
      OBVIOUS
    <3> HIDE DEF R
    <3>3. \A k \in DOMAIN out : out[k] \in R
      BY <3>1
    <3>4. QED
      BY <3>2, <3>3 DEF Contents
  <2>12. SUFFICES /\ Contents(out') = Wanted(curMsg + 1)
                  /\ \A e \in Contents(out') : e.name[2] <= curMsg + 1
                  /\ \A j, k \in DOMAIN out' : j < k => out'[j].name[2] < out'[k].name[2]
    <3>1. Contents(out)' = Contents(out')
      BY DEF Contents
    <3>2. Wanted(curMsg)' = Wanted(curMsg + 1)
      BY <2>2, <2>3, SameParts
    <3>3. QED
      BY <2>3, <2>12, <3>1, <3>2 DEF SplitInv
  <2> HIDE DEF Wanted
  <2>13. CASE SkipMessage
    <3>1. out' = out /\ ~Asked(m)
      BY <2>8, <2>13 DEF SkipMessage
    <3>2. \A e \in Contents(out) : e.name[2] <= curMsg + 1
      BY <2>4, <2>9, <2>11
    <3>3. QED
      BY <2>9, <2>10, <3>1, <3>2
  <2>14. CASE SplitMessage
    <3>1. Asked(m) /\ out' = Append(out, [name |-> <<inName, curMsg + 1>>,
                              from |-> offset + Sect0.buffLen, bytes |-> SplitLen])
      BY <2>8, <2>14 DEF SplitMessage
    <3>2. offset + Sect0.buffLen = TagOf(file, i)
      BY <2>2, <2>3, FoundTag DEF OwnTag
    <3>3. out' = Append(out, Part(m))
      BY <2>7, <3>1, <3>2
    <3>4. Part(m).name[2] = curMsg + 1
      BY <2>7
    <3>5. PICK S : out \in Seq(S) /\ Part(m) \in S
      <4> DEFINE R == [name : Nat \X Nat, from : Nat, bytes : Nat]
      <4>1. out \in Seq(R)
        BY <2>2 DEF OutInv
      <4> HIDE DEF R
      <4>2. out \in Seq(R \cup {Part(m)}) /\ Part(m) \in R \cup {Part(m)}
        BY <4>1
      <4>3. QED
        BY <4>2
    <3> DEFINE new == <<Part(m)>>
    <3>6. new \in Seq(S) /\ out' = out \o new
      BY <3>3, <3>5
    <3>7. Contents(new) = {Part(m)} /\ DOMAIN new = {1}
      BY DEF Contents
    <3> HIDE DEF new
    <3>8. /\ Contents(out') = Contents(out) \cup {Part(m)}
          /\ \A j, k \in DOMAIN out' : j < k =>
                \/ j \in DOMAIN out /\ k \in DOMAIN out /\ out'[j] = out[j] /\ out'[k] = out[k]
                \/ out'[j] \in Contents(out) /\ out'[k] \in {Part(m)}
                \/ \E a, b \in {1} : a < b
      BY <3>5, <3>6, <3>7, Joined
    <3>9. \A e \in Contents(out) : e.name[2] < curMsg + 1
      BY <2>4, <2>9, <2>11
    <3>10. \A j, k \in DOMAIN out' : j < k => out'[j].name[2] < out'[k].name[2]
      BY <2>9, <3>4, <3>8, <3>9
    <3>11. \A e \in Contents(out') : e.name[2] <= curMsg + 1
      BY <2>4, <2>11, <3>4, <3>8, <3>9
    <3>12. QED
      BY <2>9, <2>10, <3>1, <3>8, <3>10, <3>11
  <2>15. QED
    BY <1>3, <2>13, <2>14
<1>4. QED
  <2>1. \/ UNCHANGED vars \/ OpenFile \/ NoMoreFiles \/ EndOfFile \/ TrailingBytes
        => UNCHANGED <<files, f_Command, msgNum, curMsg, out, ret>>
    BY DEF vars, OpenFile, NoMoreFiles, EndOfFile, TrailingBytes, input
  <2>2. \/ ListMessage \/ NoteRefTime \/ FoundMessage \/ FindNext
        \/ OpenFails \/ NotGrib \/ InventoryFails \/ RefTimeFails \/ SplitCannotWrite
        \/ SplitRunsOut \/ FindFails
        => f_Command' # "split" \/ ret' = 1
    BY DEF ListMessage, NoteRefTime, FoundMessage, FindNext, AtMessage, InFind, input, OpenFails,
           NotGrib, InventoryFails, RefTimeFails, SplitCannotWrite, SplitRunsOut, FindFails, Fail
  <2>3. QED
    BY <1>1, <1>2, <1>3, <2>1, <2>2 DEF Next, Terminated

(* Splitting files of any bytes that ends well has written each message    *)
(* asked for once and in order, from its first byte on, and nothing else.  *)
THEOREM SplitsExactly == Spec => []SplitIsExact
<1>1. Init => OutInv /\ SplitInv
  <2>1. SUFFICES ASSUME Init PROVE OutInv /\ SplitInv
    OBVIOUS
  <2>2. files \in ByteLists /\ curMsg = 0 /\ out = <<>> /\ refTime \in Int
    BY <2>1, ToolsAssumption DEF Init
  <2>3. Contents(out) = {} /\ DOMAIN out = {}
    BY <2>2 DEF Contents
  <2>4. Found(curMsg) = {}
    BY <2>2, FoundNone
  <2>5. QED
    BY <2>2, <2>3, <2>4 DEF OutInv, SplitInv
<1>2. ASSUME WalkInv, SplitInv PROVE SplitIsExact
  <2>1. SUFFICES ASSUME EndedWell("split")
                 PROVE  /\ {out[k] : k \in DOMAIN out} = SplitsOff
                        /\ \A j, k \in DOMAIN out : j < k => out[j].name[2] < out[k].name[2]
    BY DEF SplitIsExact
  <2>2. f_Command = "split" /\ pc = "done" /\ ret = 0
    BY <2>1 DEF EndedWell
  <2>3. Found(curMsg) = AllMsgs
    BY <1>2, <2>2, FoundAll
  <2>4. SplitsOff = {Part(m) : m \in {x \in AllMsgs : Asked(x)}}
    BY Zenon DEF SplitsOff, Part, Asked
  <2>5. QED
    BY <1>2, <2>2, <2>3, <2>4 DEF SplitInv, Contents
<1>3. QED
  BY <1>1, <1>2, WalkInit, WalkStep, OutStep, SplitStep, PTL DEF Spec

(***************************************************************************)
(* The inventory.                                                          *)
(***************************************************************************)

Entries(m) == {Entry(Number(m[1], m[2]), s - 1, Start(files[m[1]])[m[2]]) :
                  s \in 1..files[m[1]].msgs[m[2]].grids}

(* Exactly the grids of the messages found so far have been listed.        *)
ListInv ==
    f_Command = "inventory" /\ ret = 0 =>
       /\ Contents(out) = UNION {Entries(m) : m \in Found(curMsg)}
       /\ \A e \in Contents(out) : e.msgNum <= curMsg
       /\ \A j, k \in DOMAIN out : j < k => ListedBefore(out[j], out[k])

LEMMA ListStep == WalkInv /\ OutInv /\ ListInv /\ [Next]_vars => ListInv'
<1> SUFFICES ASSUME WalkInv, OutInv, ListInv, [Next]_vars PROVE ListInv'
  OBVIOUS
<1>1. UNCHANGED <<files, msgNum>> => \A m : Entries(m)' = Entries(m)
  BY SameParts DEF Entries
<1>2. CASE UNCHANGED <<files, f_Command, msgNum, curMsg, out, ret>>
  BY <1>1, <1>2, SameParts DEF ListInv, Contents, ListedBefore
<1>3. CASE f_Command' # "inventory" \/ ret' = 1
  BY <1>3 DEF ListInv
<1>4. CASE ListMessage
  <2>1. SUFFICES ASSUME ret = 0 PROVE ListInv'
    BY <1>4 DEF ListInv, ListMessage
  <2>2. /\ InLoop /\ Sect0.ret = 0 /\ f_Command = "inventory" /\ pc = "loop"
        /\ StepOver(LenOnFile(tag.ver, tag.len))
        /\ UNCHANGED <<files, f_Command, msgNum, inName, ret>>
        /\ out' = out \o [s \in 1..tag.grids |-> Entry(curMsg + 1, s - 1, offset)]
    BY <1>4 DEF ListMessage, AtMessage, InLoop, input
  <2>3. PICK i \in Nat : /\ i \in 1..Len(file.msgs) /\ At(i) /\ tag = OwnTag(file, i)
                         /\ curMsg' = curMsg + 1
    BY <2>2, StepsOver
  <2>4. PICK g \in Nat, n \in Nat : g = tag.grids /\ n = curMsg
    BY <2>2, FoundTag
  <2>5. offset \in Nat
    BY <2>2, FoundTag
  <2> DEFINE m == <<inName, i>>
             Listed(c) == UNION {Entries(x) : x \in Found(c)}
             new == [s \in 1..g |-> Entry(n + 1, s - 1, offset)]
             E == [msgNum : Nat, subgNum : Nat, start : Nat]
  <2>6. m[1] = inName /\ m[2] = i
    OBVIOUS
  <2>7. Number(m[1], m[2]) = n + 1 /\ Found(n + 1) = Found(n) \cup {m}
    BY <2>2, <2>3, <2>4, <2>6, FindsOneMore
  <2>8. Entries(m) = {Entry(n + 1, s - 1, offset) : s \in 1..g}
    <3>1. files[m[1]].msgs[m[2]].grids = g
      BY <2>3, <2>4, <2>6 DEF OwnTag, file
    <3>2. Start(files[m[1]])[m[2]] = offset
      BY <2>2, <2>3, <2>6 DEF At, file
    <3>3. QED
      BY <2>7, <3>1, <3>2, Zenon DEF Entries
  <2> HIDE DEF m
  <2>9. /\ Contents(out) = Listed(n)
        /\ \A e \in Contents(out) : e.msgNum <= n
        /\ \A j, k \in DOMAIN out : j < k => ListedBefore(out[j], out[k])
    BY <2>1, <2>2, <2>4 DEF ListInv
  <2>10. Listed(n + 1) = Listed(n) \cup Entries(m)
    BY <2>7
  <2> HIDE DEF Listed
  <2>11. Contents(new) = Entries(m) /\ DOMAIN new = 1..g
    BY <2>8 DEF Contents
  <2>12. \A s \in 1..g : new[s] = Entry(n + 1, s - 1, offset)
    OBVIOUS
  <2>13. new \in Seq(E)
    <3>1. \A s \in 1..g : Entry(n + 1, s - 1, offset) \in E
      BY <2>5 DEF Entry
    <3> HIDE DEF E
    <3>2. QED
      BY <3>1
  <2>14. out \in Seq(E)
    BY <2>2 DEF OutInv
  <2>15. \A e \in Contents(out) : e.msgNum \in Nat
    <3>1. \A e \in E : e.msgNum \in Nat
      OBVIOUS
    <3> HIDE DEF E
    <3>2. \A k \in DOMAIN out : out[k] \in E
      BY <2>14
    <3>3. QED
      BY <3>1, <3>2 DEF Contents
  <2>16. \A e \in Contents(new) : e.msgNum = n + 1
    BY <2>8, <2>11 DEF Entry
  <2>17. \A a, b \in 1..g : a < b => ListedBefore(new[a], new[b])
    BY <2>12 DEF Entry, ListedBefore
  <2>18. out' = out \o new
    BY <2>2, <2>4
  <2> HIDE DEF new, E
  <2>19. /\ Contents(out') = Contents(out) \cup Contents(new)
         /\ \A j, k \in DOMAIN out' : j < k =>
               \/ j \in DOMAIN out /\ k \in DOMAIN out /\ out'[j] = out[j] /\ out'[k] = out[k]
               \/ out'[j] \in Contents(out) /\ out'[k] \in Contents(new)
               \/ \E a, b \in DOMAIN new : a < b /\ out'[j] = new[a] /\ out'[k] = new[b]
    BY <2>13, <2>14, <2>18, Joined
  <2>20. \A e \in Contents(out), d \in Contents(new) : ListedBefore(e, d)
    <3>1. \A e \in Contents(out), d \in Contents(new) : e.msgNum < d.msgNum
      BY <2>9, <2>15, <2>16
    <3>2. QED
      BY <3>1 DEF ListedBefore
  <2>21. \A j, k \in DOMAIN out' : j < k => ListedBefore(out'[j], out'[k])
    BY <2>9, <2>11, <2>17, <2>19, <2>20
  <2>22. \A e \in Contents(out') : e.msgNum <= n + 1
    BY <2>9, <2>15, <2>16, <2>19
  <2>23. Contents(out') = Listed(n + 1)
    BY <2>9, <2>10, <2>11, <2>19
  <2>24. Contents(out)' = Contents(out')
    BY DEF Contents
  <2>25. Contents(out)' = UNION {Entries(x)' : x \in Found(curMsg)'}
    <3>1. Found(curMsg)' = Found(n + 1)
      BY <2>2, <2>3, <2>4, SameParts
    <3>2. \A x : Entries(x)' = Entries(x)
      BY <1>1, <2>2
    <3>3. QED
      BY <2>23, <2>24, <3>1, <3>2 DEF Listed
  <2>26. \A j, k \in DOMAIN out' : j < k => ListedBefore(out[j], out[k])'
    BY <2>21 DEF ListedBefore
  <2>27. curMsg' = n + 1
    BY <2>3, <2>4
  <2>28. QED
    BY <2>22, <2>24, <2>25, <2>26, <2>27 DEF ListInv
<1>5. QED
  <2>1. \/ UNCHANGED vars \/ OpenFile \/ NoMoreFiles \/ EndOfFile \/ TrailingBytes
        => UNCHANGED <<files, f_Command, msgNum, curMsg, out, ret>>
    BY DEF vars, OpenFile, NoMoreFiles, EndOfFile, TrailingBytes, input
  <2>2. \/ NoteRefTime \/ SplitMessage \/ SkipMessage \/ FoundMessage \/ FindNext
        \/ OpenFails \/ NotGrib \/ InventoryFails \/ RefTimeFails \/ SplitCannotWrite
        \/ SplitRunsOut \/ FindFails
        => f_Command' # "inventory" \/ ret' = 1
    BY DEF NoteRefTime, SplitMessage, SkipMessage, FoundMessage, FindNext, AtMessage, InFind,
           input, OpenFails, NotGrib, InventoryFails, RefTimeFails, SplitCannotWrite,
           SplitRunsOut, FindFails, Fail
  <2>3. QED
    BY <1>2, <1>3, <1>4, <2>1, <2>2 DEF Next, Terminated

(* An inventory of files of any bytes that ends well lists every grid of   *)
(* every message once and in order, with the number and the first byte of  *)
(* its message.                                                            *)
THEOREM ListsEverything == Spec => []InventoryIsFull
<1>1. Init => OutInv /\ ListInv
  <2>1. SUFFICES ASSUME Init PROVE OutInv /\ ListInv
    OBVIOUS
  <2>2. files \in ByteLists /\ curMsg = 0 /\ out = <<>> /\ refTime \in Int
    BY <2>1, ToolsAssumption DEF Init
  <2>3. Contents(out) = {} /\ DOMAIN out = {}
    BY <2>2 DEF Contents
  <2>4. Found(curMsg) = {}
    BY <2>2, FoundNone
  <2>5. QED
    BY <2>2, <2>3, <2>4 DEF OutInv, ListInv
<1>2. ASSUME WalkInv, ListInv PROVE InventoryIsFull
  <2>1. SUFFICES ASSUME EndedWell("inventory")
                 PROVE  /\ {out[k] : k \in DOMAIN out} = FullInventory
                        /\ \A j, k \in DOMAIN out : j < k => ListedBefore(out[j], out[k])
    BY DEF InventoryIsFull
  <2>2. f_Command = "inventory" /\ pc = "done" /\ ret = 0
    BY <2>1 DEF EndedWell
  <2>3. Found(curMsg) = AllMsgs
    BY <1>2, <2>2, FoundAll
  <2>4. FullInventory = UNION {Entries(m) : m \in AllMsgs}
    BY Zenon DEF FullInventory, Entries
  <2>5. QED
    BY <1>2, <2>2, <2>3, <2>4 DEF ListInv, Contents
<1>3. QED
  BY <1>1, <1>2, WalkInit, WalkStep, OutStep, ListStep, PTL DEF Spec
===============================================================================
