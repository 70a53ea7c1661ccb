----------------------- MODULE TextBufferConvergence -----------------------
(***************************************************************************)
(* Proofs that the replicas of a text buffer converge, for any number of   *)
(* replicas, operations, ranges and characters.                            *)
(*                                                                         *)
(* The invariant Agree says that there are an order L of all characters    *)
(* any replica ever made and a set G of all deletions, pairs of an edit    *)
(* and a character it took, with which every replica agrees: its fragments *)
(* are in the order L, and each is marked as deleted by the edits the      *)
(* replica knows as G says.  L only grows: a new edit joins it right       *)
(* behind the text that was before its range, past what later operations   *)
(* put there (Joins).  What makes the place a remote replica finds by its  *)
(* scan over timestamps the same one is Anchor, the text between a         *)
(* range and what the edit put there is of later operations, and Bridge,   *)
(* text an edit did not know is held off from it by an earlier character   *)
(* that it did know.                                                       *)
(***************************************************************************)
EXTENDS TextBufferReplicas

-----------------------------------------------------------------------------
(* The characters of a version *)

\* The characters of the operations that a version names.
Text(os, v) == Known(Seen(os, v))

\* Timestamps are totally ordered.
LEMMA LaterOrders ==
  /\ \A t \in Stamps : t[1] \in Nat /\ t[2] \in Nat /\ t[2] \in Replicas /\ t = <<t[1], t[2]>>
  /\ \A t \in Stamps : ~Later(t, t)
  /\ \A t, u, w \in Stamps : Later(t, u) /\ Later(u, w) => Later(t, w)
  /\ \A t, u \in Stamps : t = u \/ Later(t, u) \/ Later(u, t)
<1>1. ASSUME NEW t \in Stamps
      PROVE  t[1] \in Nat /\ t[2] \in Nat /\ t[2] \in Replicas /\ t = <<t[1], t[2]>>
  <2>1. PICK n \in Nat, r \in Replicas : t = <<n, r>>
    BY DEF Stamps
  <2>2. r \in Nat
    BY ReplicasAssumption
  <2> QED
    BY <2>1, <2>2
<1>2. \A t \in Stamps : ~Later(t, t)
  BY <1>1 DEF Later
<1>3. \A t, u, w \in Stamps : Later(t, u) /\ Later(u, w) => Later(t, w)
  BY <1>1 DEF Later
<1>4. ASSUME NEW t \in Stamps, NEW u \in Stamps, ~Later(t, u), ~Later(u, t) PROVE t = u
  <2>1. t[1] = u[1] /\ t[2] = u[2]
    BY <1>1, <1>4 DEF Later
  <2> QED
    BY <1>1, <2>1
<1> QED
  BY <1>1, <1>2, <1>3, <1>4

\* A character is of the text at the start or of an edit.
LEMMA CharOrigin ==
  ASSUME NEW os, OpsOK(os), NEW c \in Known(os)
  PROVE  /\ c[1] \in Stamps
         /\ \/ c \in BaseText /\ c[1] = <<1, 0>> /\ BaseLength > 0
            \/ \E o \in os : o.kind = "Edit" /\ c \in Chars(o) /\ c[1] = o.timestamp
<1>1. CASE c \in BaseText
  <2>1. c[1] = <<1, 0>> /\ BaseLength > 0
    BY <1>1, BoundsAssumption DEF BaseText
  <2>2. <<1, 0>> \in Stamps
    BY ReplicasAssumption DEF Stamps
  <2> QED
    BY <1>1, <2>1, <2>2
<1>2. CASE \E o \in os : o.kind = "Edit" /\ c \in Chars(o)
  <2>1. PICK o \in os : o.kind = "Edit" /\ c \in Chars(o)
    BY <1>2
  <2>2. c[1] = o.timestamp /\ o.timestamp \in Stamps
    BY <2>1 DEF Chars, OpsOK, OpType
  <2> QED
    BY <2>1, <2>2
<1> QED
  BY <1>1, <1>2 DEF Known

\* The characters of a version are those whose timestamps it has observed.
LEMMA InText ==
  ASSUME NEW os, OpsOK(os), NEW v, Cut(os, v)
  PROVE  /\ Text(os, v) \subseteq Known(os)
         /\ \A c \in Known(os) : c \in Text(os, v) <=> observed(v, c[1])
<1>1. Text(os, v) \subseteq Known(os)
  BY DEF Text, Known, Seen
<1>2. ASSUME NEW c \in Known(os), observed(v, c[1]) PROVE c \in Text(os, v)
  <2>1. CASE c \in BaseText
    BY <2>1 DEF Text, Known
  <2>2. CASE \E o \in os : o.kind = "Edit" /\ c \in Chars(o) /\ c[1] = o.timestamp
    <3>1. PICK o \in os : o.kind = "Edit" /\ c \in Chars(o) /\ c[1] = o.timestamp
      BY <2>2
    <3>2. o \in Seen(os, v)
      BY <1>2, <3>1 DEF Seen
    <3> QED
      BY <3>1, <3>2 DEF Text, Known
  <2> QED
    BY <2>1, <2>2, CharOrigin
<1>3. ASSUME NEW c \in Text(os, v) PROVE observed(v, c[1])
  <2>1. CASE c \in BaseText
    <3>1. c[1] = <<1, 0>> /\ BaseLength > 0
      BY <2>1, BoundsAssumption DEF BaseText
    <3>2. 0 \in Replicas /\ BaseVersion[0] = 1 /\ v[0] >= 1
      BY <3>1, ReplicasAssumption DEF BaseVersion, Cut
    <3>3. c[1][1] = 1 /\ c[1][2] = 0
      BY <3>1
    <3> QED
      BY <3>2, <3>3 DEF observed
  <2>2. CASE \E o \in Seen(os, v) : o.kind = "Edit" /\ c \in Chars(o)
    <3>1. PICK o \in Seen(os, v) : c \in Chars(o)
      BY <2>2
    <3>2. c[1] = o.timestamp
      BY <3>1 DEF Chars
    <3> QED
      BY <3>1, <3>2 DEF Seen
  <2> QED
    BY <2>1, <2>2 DEF Text, Known
<1> QED
  BY <1>1, <1>2, <1>3

\* A version that observes more has more text.
LEMMA TextMore ==
  ASSUME NEW os, OpsOK(os), NEW v, Cut(os, v), NEW w, Cut(os, w), observed_all(w, v)
  PROVE  Text(os, v) \subseteq Text(os, w) /\ Seen(os, v) \subseteq Seen(os, w)
<1>1. ASSUME NEW o \in os, observed(v, o.timestamp) PROVE observed(w, o.timestamp)
  <2>1. o.timestamp \in Stamps /\ v \in Versions /\ w \in Versions
    BY DEF OpsOK, OpType, Cut
  <2> QED
    BY <1>1, <2>1, ObserveMore
<1>2. Seen(os, v) \subseteq Seen(os, w)
  BY <1>1 DEF Seen
<1> QED
  BY <1>2 DEF Text, Known

\* The text an edit of a version knows or inserts is that of every version that has the
\* edit.
LEMMA TextOfSeen ==
  ASSUME NEW os, OpsOK(os), NEW v, Cut(os, v), NEW o \in Seen(os, v), o.kind = "Edit"
  PROVE  Text(os, o.version) \subseteq Text(os, v) /\ Chars(o) \subseteq Text(os, v)
<1>1. o \in os /\ observed_all(v, o.version) /\ Cut(os, o.version)
  BY DEF Seen, Cut, OpsOK
<1>2. Chars(o) \subseteq Text(os, v)
  BY DEF Text, Known
<1> QED
  BY <1>1, <1>2, TextMore

\* The character that an edit o inserts as x of its new text.
CharOf(o, x) == <<o.timestamp, insertion_offset(o.ranges, x[1], x[2])>>

\* Those are the characters of an edit, and their offsets are in the order of its text.
LEMMA CharsOf ==
  ASSUME NEW o, o.ranges \in Seq(RangeType)
  PROVE  /\ Chars(o) = {CharOf(o, x) : x \in NewText(o.ranges)}
         /\ \A x, y \in NewText(o.ranges) : CharOf(o, x) = CharOf(o, y) => x = y
         /\ \A x \in NewText(o.ranges) : CharOf(o, x)[1] = o.timestamp /\ CharOf(o, x)[2] \in Nat
         /\ \A x, y \in NewText(o.ranges) :
              CharOf(o, x)[2] < CharOf(o, y)[2] <=> x[1] < y[1] \/ (x[1] = y[1] /\ x[2] < y[2])
<1> DEFINE off(x) == insertion_offset(o.ranges, x[1], x[2])
<1>1. /\ \A x \in NewText(o.ranges) : off(x) \in Nat
      /\ \A x, y \in NewText(o.ranges) :
              x[1] < y[1] \/ (x[1] = y[1] /\ x[2] < y[2]) <=> off(x) < off(y)
      /\ \A x, y \in NewText(o.ranges) : off(x) = off(y) => x = y
  BY OffsetsDiffer
<1>2. \A x : CharOf(o, x) = <<o.timestamp, off(x)>>
  BY DEF CharOf
<1> HIDE DEF off
<1>3. \A x : CharOf(o, x)[1] = o.timestamp /\ CharOf(o, x)[2] = off(x)
  BY <1>2
<1>4. Chars(o) = {CharOf(o, x) : x \in NewText(o.ranges)}
  BY DEF Chars, CharOf
<1> QED
  BY <1>1, <1>3, <1>4

-----------------------------------------------------------------------------
(* One order of all characters *)

\* New members N, in the order M, join the order L of K: the new x comes right behind
\* the members of K in A[x].
Inserted(K, L, N, M, A) ==
  {p \in (K \cup N) \X (K \cup N) :
     \/ p[1] \in K /\ p[2] \in K /\ p \in L
     \/ p[1] \in N /\ p[2] \in N /\ p \in M
     \/ p[1] \in K /\ p[2] \in N /\ p[1] \in A[p[2]]
     \/ p[1] \in N /\ p[2] \in K /\ p[2] \notin A[p[1]]}

\* The result is an order when the places of the new members are in the order M too.
LEMMA InsertedOrders ==
  ASSUME NEW K, NEW L, Orders(L, K), NEW N, K \cap N = {}, NEW M, Orders(M, N),
         NEW A, \A x \in N : A[x] \subseteq K,
         \A x \in N : \A c \in A[x], w \in K : <<w, c>> \in L => w \in A[x],
         \A x, y \in N : <<x, y>> \in M => A[x] \subseteq A[y]
  PROVE  /\ Orders(Inserted(K, L, N, M, A), K \cup N)
         /\ \A c, w \in K : <<c, w>> \in Inserted(K, L, N, M, A) <=> <<c, w>> \in L
         /\ \A x, y \in N : <<x, y>> \in Inserted(K, L, N, M, A) <=> <<x, y>> \in M
         /\ \A c \in K, x \in N : /\ <<c, x>> \in Inserted(K, L, N, M, A) <=> c \in A[x]
                                  /\ <<x, c>> \in Inserted(K, L, N, M, A) <=> c \notin A[x]
<1> DEFINE I == Inserted(K, L, N, M, A)
<1>1. \A x \in K : x \notin N
  OBVIOUS
<1>2. \A x, y \in K \cup N : <<x, y>> \in I <=>
        \/ x \in K /\ y \in K /\ <<x, y>> \in L
        \/ x \in N /\ y \in N /\ <<x, y>> \in M
        \/ x \in K /\ y \in N /\ x \in A[y]
        \/ x \in N /\ y \in K /\ y \notin A[x]
  BY DEF Inserted
<1> HIDE DEF I
<1>3. /\ \A c, w \in K : <<c, w>> \in I <=> <<c, w>> \in L
      /\ \A x, y \in N : <<x, y>> \in I <=> <<x, y>> \in M
      /\ \A c \in K, x \in N : /\ <<c, x>> \in I <=> c \in A[x]
                               /\ <<x, c>> \in I <=> c \notin A[x]
  BY <1>1, <1>2
<1>4. \A x \in K \cup N : <<x, x>> \notin I
  BY <1>3 DEF Orders
<1>5. \A x, y \in K \cup N : x = y \/ <<x, y>> \in I \/ <<y, x>> \in I
  BY <1>3 DEF Orders
<1>6. ASSUME NEW x \in K \cup N, NEW y \in K \cup N, NEW z \in K \cup N,
             <<x, y>> \in I, <<y, z>> \in I
      PROVE  <<x, z>> \in I
  <2>1. CASE x \in K /\ y \in K /\ z \in K
    <3>1. <<x, y>> \in L /\ <<y, z>> \in L
      BY <1>3, <1>6, <2>1
    <3>2. <<x, z>> \in L
      BY <2>1, <3>1 DEF Orders
    <3> QED
      BY <1>3, <2>1, <3>2
  <2>2. CASE x \in K /\ y \in K /\ z \in N
    BY <1>3, <1>6, <2>2
  <2>3. CASE x \in K /\ y \in N /\ z \in K
    <3>1. x \in A[y] /\ z \notin A[y]
      BY <1>3, <1>6, <2>3
    <3>2. x # z /\ <<z, x>> \notin L
      BY <2>3, <3>1
    <3>3. <<x, z>> \in L
      BY <2>3, <3>2 DEF Orders
    <3> QED
      BY <1>3, <2>3, <3>3
  <2>4. CASE x \in K /\ y \in N /\ z \in N
    BY <1>3, <1>6, <2>4
  <2>5. CASE x \in N /\ y \in K /\ z \in K
    <3>1. y \notin A[x] /\ <<y, z>> \in L
      BY <1>3, <1>6, <2>5
    <3>2. z \notin A[x]
      BY <2>5, <3>1
    <3> QED
      BY <1>3, <2>5, <3>2
  <2>6. CASE x \in N /\ y \in K /\ z \in N
    <3>1. y \notin A[x] /\ y \in A[z]
      BY <1>3, <1>6, <2>6
    <3>2. x # z /\ <<z, x>> \notin M
      BY <2>6, <3>1
    <3>3. <<x, z>> \in M
      BY <2>6, <3>2 DEF Orders
    <3> QED
      BY <1>3, <2>6, <3>3
  <2>7. CASE x \in N /\ y \in N /\ z \in K
    BY <1>3, <1>6, <2>7
  <2>8. CASE x \in N /\ y \in N /\ z \in N
    <3>1. <<x, y>> \in M /\ <<y, z>> \in M
      BY <1>3, <1>6, <2>8
    <3>2. <<x, z>> \in M
      BY <2>8, <3>1 DEF Orders
    <3> QED
      BY <1>3, <2>8, <3>2
  <2> QED
    BY <2>1, <2>2, <2>3, <2>4, <2>5, <2>6, <2>7, <2>8
<1>7. Orders(I, K \cup N)
  BY <1>4, <1>5, <1>6, Zenon DEF Orders
<1> QED
  BY <1>3, <1>7 DEF I

\* The place of the character x of the edit o: it comes behind the characters D that were
\* before the range in the version of the edit, and between D and x there is only text of
\* later operations and of o itself.
Anchor(os, L, o, x, D) ==
  /\ D \subseteq Text(os, o.version)
  /\ IsFiniteSet(D) /\ Cardinality(D) = o.ranges[x[1]].start
  /\ \A d \in D, c \in Text(os, o.version) : <<c, d>> \in L => c \in D
  /\ \A d \in D : <<d, CharOf(o, x)>> \in L
  /\ \A c \in Known(os) : <<c, CharOf(o, x)>> \in L /\ (\A d \in D : <<d, c>> \in L)
                            => c[1] = o.timestamp \/ Later(c[1], o.timestamp)

\* What an edit did not know, and yet is before its text, is held off by a character that
\* the edit knew or inserted.
Bridge(os, L, o, x, y) ==
  \E w \in Text(os, o.version) \cup Chars(o) :
    <<x, w>> \in L /\ (w = y \/ <<w, y>> \in L) /\ Later(x[1], w[1])

\* L is an order of all characters that the edits os settle.
Settled(os, L) ==
  /\ Orders(L, Known(os))
  /\ \A o \in os : o.kind = "Edit" =>
       /\ \A x, y \in Chars(o) : x[2] < y[2] => <<x, y>> \in L
       /\ \A x \in NewText(o.ranges) : \E D : Anchor(os, L, o, x, D)
       /\ \A x \in Known(os) \ (Text(os, o.version) \cup Chars(o)), y \in Chars(o) :
            <<x, y>> \in L => Bridge(os, L, o, x, y)

\* The same for all the text of a version.
HeldOff(os, L, v, x, y) ==
  \E w \in Text(os, v) : <<x, w>> \in L /\ (w = y \/ <<w, y>> \in L) /\ Later(x[1], w[1])

\* Every version is a sum of edits with all they knew.
LEMMA Bridged ==
  ASSUME NEW os, OpsOK(os), NEW L, Settled(os, L), NEW v, Cut(os, v),
         NEW x \in Known(os), x \notin Text(os, v), NEW y \in Text(os, v), <<x, y>> \in L
  PROVE  HeldOff(os, L, v, x, y)
<1>1. CASE y \in BaseText
  <2>1. y[1] = <<1, 0>> /\ y[1][1] = 1
    BY <1>1 DEF BaseText
  <2>2. x \notin BaseText
    BY DEF Text, Known
  <2>3. PICK o \in os : x[1] = o.timestamp
    BY <2>2, CharOrigin
  <2>4. x[1][1] > 1
    BY <2>3 DEF OpsOK, OpType
  <2>5. Later(x[1], y[1])
    BY <2>1, <2>4 DEF Later
  <2> QED
    BY <2>5 DEF HeldOff
<1>2. CASE \E o \in Seen(os, v) : o.kind = "Edit" /\ y \in Chars(o)
  <2>1. PICK o \in Seen(os, v) : o.kind = "Edit" /\ y \in Chars(o)
    BY <1>2
  <2>2. Text(os, o.version) \subseteq Text(os, v) /\ Chars(o) \subseteq Text(os, v) /\ o \in os
    BY <2>1, TextOfSeen DEF Seen
  <2>3. Bridge(os, L, o, x, y)
    BY <2>1, <2>2 DEF Settled
  <2> QED
    BY <2>2, <2>3 DEF Bridge, HeldOff
<1> QED
  BY <1>1, <1>2 DEF Text, Known

\* The fragments are in the order L.
Sorted(L, fs) == \A i, j \in DOMAIN fs : i < j => <<Id(fs[i]), Id(fs[j])>> \in L

\* As many indices as characters.
LEMMA IdsCount ==
  ASSUME NEW S, NEW fs, NEW undos, TextOK(S, fs, undos), NEW J \in SUBSET DOMAIN fs, NEW T,
         \A j \in J : Id(fs[j]) \in T, \A c \in T : \E j \in J : Id(fs[j]) = c
  PROVE  /\ IsFiniteSet(J) /\ IsFiniteSet(T) /\ Cardinality(T) = Cardinality(J)
         /\ Cardinality(J) \in Nat
<1> DEFINE f == [j \in J |-> Id(fs[j])]
<1>1. /\ fs \in Seq(FragmentType) /\ \A i, j \in DOMAIN fs : Id(fs[i]) = Id(fs[j]) => i = j
  BY DEF TextOK
<1>2. DOMAIN fs = 1 .. Len(fs) /\ Len(fs) \in Nat
  BY <1>1
<1>3. IsFiniteSet(J)
  <2>1. IsFiniteSet(1 .. Len(fs))
    BY <1>2, FS_Interval
  <2> QED
    BY <1>2, <2>1, FS_Subset
<1>4. f \in [J -> T] /\ \A c \in T : \E j \in J : f[j] = c
  OBVIOUS
<1>5. \A i, j \in J : f[i] = f[j] => i = j
  BY <1>1
<1> HIDE DEF f
<1>6. f \in Injection(J, T) /\ f \in Surjection(J, T)
  BY <1>4, <1>5, Zenon DEF Injection, IsInjective, Surjection
<1>7. IsFiniteSet(T) /\ Cardinality(T) = Cardinality(J)
  BY <1>3, <1>6, FS_Surjection
<1> QED
  BY <1>3, <1>7, FS_CardinalityType

\* Indices and the order agree.
LEMMA SortedBoth ==
  ASSUME NEW os, NEW L, Orders(L, Known(os)), NEW S, NEW fs, NEW undos, TextOK(S, fs, undos),
         Known(S) \subseteq Known(os), Sorted(L, fs)
  PROVE  /\ DOMAIN fs = 1 .. Len(fs) /\ Len(fs) \in Nat
         /\ \A i \in DOMAIN fs : Id(fs[i]) \in Known(S) /\ Id(fs[i]) \in Known(os)
         /\ \A i, j \in DOMAIN fs : i < j <=> <<Id(fs[i]), Id(fs[j])>> \in L
<1>1. fs \in Seq(FragmentType) /\ \A i \in DOMAIN fs : Id(fs[i]) \in Known(S)
  BY DEF TextOK
<1>2. DOMAIN fs = 1 .. Len(fs) /\ Len(fs) \in Nat
  BY <1>1
<1>3. ASSUME NEW i \in DOMAIN fs, NEW j \in DOMAIN fs, <<Id(fs[i]), Id(fs[j])>> \in L
      PROVE  i < j
  <2>1. Id(fs[i]) \in Known(os) /\ Id(fs[j]) \in Known(os)
    BY <1>1
  <2>2. <<Id(fs[i]), Id(fs[i])>> \notin L
    BY <2>1 DEF Orders
  <2>3. i # j
    BY <1>3, <2>2
  <2>4. ~(j < i)
    <3> SUFFICES ASSUME j < i PROVE FALSE
      OBVIOUS
    <3>1. <<Id(fs[j]), Id(fs[i])>> \in L
      BY DEF Sorted
    <3> QED
      BY <1>3, <2>1, <2>2, <3>1 DEF Orders
  <2> QED
    BY <1>2, <2>3, <2>4
<1> QED
  BY <1>1, <1>2, <1>3 DEF Sorted

\* Where a remote edit puts its text is where the order has it.
LEMMA RemotePlaced ==
  ASSUME NEW os, OpsOK(os), NEW L, Settled(os, L), NEW v, Cut(os, v), NEW fs, NEW undos,
         TextOK(Seen(os, v), fs, undos), Sorted(L, fs), NEW o \in os, o.kind = "Edit",
         observed_all(v, o.version), ~observed(v, o.timestamp), NEW x \in NewText(o.ranges),
         NEW gap, gap = RemoteGap(fs, o.version, o.timestamp, o.ranges[x[1]].start)
  PROVE  \A i \in DOMAIN fs : i <= gap <=> <<Id(fs[i]), CharOf(o, x)>> \in L
<1> DEFINE S == Seen(os, v)
           K == Known(os)
           u == o.version
           start == o.ranges[x[1]].start
           y == CharOf(o, x)
           n == Len(fs)
           id(i) == Id(fs[i])
<1>1. /\ Cut(os, u) /\ o.ranges \in Seq(RangeType) /\ Orders(L, K) /\ o.timestamp \in Stamps
  BY DEF OpsOK, OpType, Settled
<1>2. /\ Text(os, u) \subseteq Text(os, v) /\ Text(os, v) \subseteq K
      /\ \A c \in K : c \in Text(os, u) <=> observed(u, c[1])
      /\ \A c \in K : c \in Text(os, v) <=> observed(v, c[1])
  BY <1>1, TextMore, InText
<1>3. y \in K /\ y \notin Text(os, v) /\ y[1] = o.timestamp /\ y \in Chars(o)
  <2>1. y \in Chars(o) /\ y[1] = o.timestamp
    BY <1>1, CharsOf
  <2>2. y \in K
    BY <2>1 DEF Known
  <2> QED
    BY <1>2, <2>1, <2>2
<1>4. Known(S) = Text(os, v)
  BY DEF Text
<1>5. /\ DOMAIN fs = 1 .. n /\ n \in Nat /\ fs \in Seq(FragmentType)
      /\ \A i \in DOMAIN fs : id(i) \in Text(os, v) /\ id(i) \in K
      /\ \A i, j \in DOMAIN fs : i < j <=> <<id(i), id(j)>> \in L
      /\ \A c \in Text(os, v) : \E i \in DOMAIN fs : id(i) = c
      /\ \A i, j \in DOMAIN fs : id(i) = id(j) => i = j
      /\ \A i \in DOMAIN fs : id(i)[1] = fs[i].timestamp
  <2>1. fs \in Seq(FragmentType)
    BY DEF TextOK
  <2>2. /\ DOMAIN fs = 1 .. n /\ n \in Nat
        /\ \A i \in DOMAIN fs : id(i) \in Known(S) /\ id(i) \in K
        /\ \A i, j \in DOMAIN fs : i < j <=> <<id(i), id(j)>> \in L
    BY <1>1, <1>2, <1>4, SortedBoth
  <2>3. /\ \A c \in Text(os, v) : \E i \in DOMAIN fs : id(i) = c
        /\ \A i, j \in DOMAIN fs : id(i) = id(j) => i = j
    BY <1>4 DEF TextOK
  <2>4. \A i \in DOMAIN fs : id(i)[1] = fs[i].timestamp
    BY DEF Id
  <2> QED
    BY <1>4, <2>1, <2>2, <2>3, <2>4
<1>6. PICK D : Anchor(os, L, o, x, D)
  BY DEF Settled
<1>7. /\ D \subseteq Text(os, u) /\ Cardinality(D) = start
      /\ \A d \in D, c \in Text(os, u) : <<c, d>> \in L => c \in D
      /\ \A d \in D : <<d, y>> \in L
      /\ \A c \in K : <<c, y>> \in L /\ (\A d \in D : <<d, c>> \in L)
                        => c[1] = o.timestamp \/ Later(c[1], o.timestamp)
  BY <1>6 DEF Anchor
<1> HIDE DEF y, K, id, S
<1> DEFINE P == {i \in DOMAIN fs : id(i) \in D}
           p == Max({0} \cup P)
<1>8. /\ p \in 0 .. n /\ (p = 0 \/ p \in P) /\ \A i \in P : i <= p
  <2> DEFINE Q == {0} \cup P
  <2>1. Q \in SUBSET Nat /\ Q # {} /\ \A i \in Q : i <= n
    BY <1>5
  <2> HIDE DEF Q
  <2>2. Max(Q) \in Q /\ \A i \in Q : i <= Max(Q)
    BY <1>5, <2>1, MaxOf
  <2>3. p = Max(Q)
    BY DEF Q
  <2>4. p \in Q /\ \A i \in P : i <= p
    BY <2>2, <2>3 DEF Q
  <2> HIDE DEF p
  <2>5. p \in 0 .. n
    BY <1>5, <2>1, <2>4
  <2> QED
    BY <2>4, <2>5 DEF Q
<1> HIDE DEF p
<1>9. ASSUME NEW i \in DOMAIN fs, i <= p, id(i) \in Text(os, u) PROVE i \in P
  <2>1. p \in P /\ p \in DOMAIN fs
    BY <1>5, <1>8, <1>9
  <2>2. CASE i < p
    <3>1. <<id(i), id(p)>> \in L
      BY <1>5, <2>1, <2>2
    <3> QED
      BY <1>7, <1>9, <2>1, <3>1
  <2> QED
    BY <1>5, <1>9, <2>1, <2>2
<1>10. ASSUME NEW i \in DOMAIN fs, p < i, NEW d \in D PROVE <<d, id(i)>> \in L
  <2>1. PICK j \in DOMAIN fs : id(j) = d
    BY <1>2, <1>5, <1>7
  <2>2. j <= p /\ j < i
    BY <1>5, <1>8, <1>10, <2>1
  <2> QED
    BY <1>5, <2>1, <2>2
<1> DEFINE J(i) == {j \in 1 .. i : observed(u, fs[j].timestamp)}
<1>11. ASSUME NEW i \in 0 .. n, NEW j \in J(i)
       PROVE  j \in DOMAIN fs /\ j <= i /\ id(j) \in Text(os, u)
  <2>1. j \in DOMAIN fs /\ j <= i /\ observed(u, fs[j].timestamp)
    BY <1>5, <1>11
  <2>2. observed(u, id(j)[1])
    BY <1>5, <2>1
  <2> QED
    BY <1>2, <1>5, <2>1, <2>2
<1>12. J(p) = P
  <2>1. ASSUME NEW j \in J(p) PROVE j \in P
    BY <1>8, <1>9, <1>11, <2>1
  <2>2. ASSUME NEW j \in P PROVE j \in J(p)
    <3>1. j <= p /\ j \in 1 .. n
      BY <1>5, <1>8
    <3>2. id(j) \in Text(os, u) /\ id(j) \in K
      BY <1>2, <1>7
    <3>3. observed(u, fs[j].timestamp)
      BY <1>2, <1>5, <3>2
    <3>4. j \in 1 .. p
      BY <1>8, <3>1
    <3> QED
      BY <3>3, <3>4
  <2> HIDE DEF P
  <2> QED
    BY <2>1, <2>2
<1>13. /\ IsFiniteSet(P) /\ Cardinality(P) = start /\ start \in Nat
  <2>1. /\ P \in SUBSET DOMAIN fs /\ \A j \in P : id(j) \in D
        /\ \A c \in D : \E j \in P : id(j) = c
    BY <1>2, <1>5, <1>7
  <2> HIDE DEF P
  <2>2. IsFiniteSet(P) /\ Cardinality(D) = Cardinality(P) /\ Cardinality(P) \in Nat
    BY <2>1, IdsCount DEF id
  <2> QED
    BY <1>7, <2>2
<1>14. FullOffset(fs, u, p) = start
  BY <1>12, <1>13 DEF FullOffset
<1>15. ASSUME NEW i \in 0 .. n, i < p PROVE FullOffset(fs, u, i) # start
  <2>1. J(i) \in SUBSET P
    <3> SUFFICES ASSUME NEW j \in J(i) PROVE j \in P
      OBVIOUS
    <3>1. j \in DOMAIN fs /\ j <= i /\ id(j) \in Text(os, u)
      BY <1>11
    <3>2. j <= p
      BY <1>5, <1>8, <1>15, <3>1
    <3> QED
      BY <1>9, <3>1, <3>2
  <2>2. p \in P /\ p \notin J(i)
    BY <1>5, <1>8, <1>15
  <2> HIDE DEF P, J
  <2>3. Cardinality(P) = Cardinality(J(i)) => P = J(i)
    BY <1>13, <2>1, FS_Subset
  <2>4. Cardinality(J(i)) # start
    BY <1>13, <2>2, <2>3
  <2> QED
    BY <2>4 DEF FullOffset, J
<1>16. /\ gap \in 0 .. n
       /\ \E first \in 0 .. gap :
              /\ FullOffset(fs, u, first) = start \/ first = n
              /\ \A i \in 0 .. n : i < first => FullOffset(fs, u, i) # start
              /\ \A j \in first + 1 .. gap : Later(fs[j].timestamp, o.timestamp)
              /\ gap < n => ~Later(fs[gap + 1].timestamp, o.timestamp)
  BY <1>5, RemoteGapIs
<1>i. n \in Nat /\ gap \in 0 .. n /\ p \in 0 .. n /\ \A i : i \in DOMAIN fs <=> i \in 1 .. n
  BY <1>5, <1>8, <1>16
<1> HIDE DEF n
<1>17. /\ p <= gap
       /\ \A j \in p + 1 .. gap : Later(fs[j].timestamp, o.timestamp)
       /\ gap < n => ~Later(fs[gap + 1].timestamp, o.timestamp)
  <2>1. PICK first \in 0 .. gap :
              /\ FullOffset(fs, u, first) = start \/ first = n
              /\ \A i \in 0 .. n : i < first => FullOffset(fs, u, i) # start
              /\ \A j \in first + 1 .. gap : Later(fs[j].timestamp, o.timestamp)
              /\ gap < n => ~Later(fs[gap + 1].timestamp, o.timestamp)
    BY <1>16
  <2>2. ~(p < first)
    BY <1>8, <1>14, <2>1
  <2>3. ~(first < p)
    <3> SUFFICES ASSUME first < p PROVE FALSE
      OBVIOUS
    <3>1. first \in 0 .. n /\ first # n
      BY <1>i
    <3> QED
      BY <1>15, <2>1, <3>1
  <2>4. first = p
    BY <1>i, <2>2, <2>3
  <2> QED
    BY <1>16, <2>1, <2>4
<1>18. ASSUME NEW i \in DOMAIN fs, <<id(i), y>> \in L PROVE i <= gap
  <2> SUFFICES ASSUME gap < i PROVE FALSE
    BY <1>i
  <2>0. p <= gap
    BY <1>17
  <2>1. gap < n /\ gap + 1 \in DOMAIN fs /\ p < gap + 1 /\ gap + 1 <= i
    BY <1>i, <2>0
  <2>2. <<id(gap + 1), y>> \in L
    <3>1. CASE gap + 1 = i
      BY <1>18, <3>1
    <3>2. CASE gap + 1 < i
      <4>1. <<id(gap + 1), id(i)>> \in L
        BY <1>5, <2>1, <3>2
      <4>2. id(gap + 1) \in K /\ id(i) \in K
        BY <1>5, <2>1
      <4> QED
        BY <1>1, <1>3, <1>18, <4>1, <4>2 DEF Orders
    <3> QED
      BY <1>5, <1>16, <2>1, <3>1, <3>2
  <2>3. \A d \in D : <<d, id(gap + 1)>> \in L
    BY <1>10, <2>1
  <2>4. id(gap + 1) \in K /\ id(gap + 1) \in Text(os, v)
        /\ id(gap + 1)[1] = fs[gap + 1].timestamp
    BY <1>5, <2>1
  <2>5. id(gap + 1)[1] = o.timestamp \/ Later(id(gap + 1)[1], o.timestamp)
    BY <1>7, <2>2, <2>3, <2>4
  <2>6. observed(v, id(gap + 1)[1])
    BY <1>2, <2>4
  <2>7. id(gap + 1)[1] # o.timestamp
    BY <2>6
  <2> QED
    BY <1>17, <2>1, <2>4, <2>5, <2>7
<1>19. ASSUME NEW i \in DOMAIN fs, i <= gap PROVE <<id(i), y>> \in L
  <2>1. CASE i <= p
    <3>1. p \in P /\ p \in DOMAIN fs
      BY <1>5, <1>8, <2>1
    <3>2. <<id(p), y>> \in L /\ id(p) \in K /\ id(i) \in K
      BY <1>5, <1>7, <3>1
    <3>3. i = p \/ <<id(i), id(p)>> \in L
      BY <1>5, <1>8, <2>1, <3>1
    <3> QED
      BY <1>1, <1>3, <3>2, <3>3 DEF Orders
  <2>2. CASE p < i
    <3> SUFFICES ASSUME <<id(i), y>> \notin L PROVE FALSE
      OBVIOUS
    <3>1. id(i) \in K /\ id(i) \in Text(os, v) /\ id(i) # y
      BY <1>3, <1>5
    <3>2. <<y, id(i)>> \in L
      BY <1>1, <1>3, <3>1 DEF Orders
    <3>3. PICK w \in Text(os, v) : /\ <<y, w>> \in L /\ (w = id(i) \/ <<w, id(i)>> \in L)
                                   /\ Later(y[1], w[1])
      <4>1. HeldOff(os, L, v, y, id(i))
        BY <1>3, <3>1, <3>2, Bridged DEF K
      <4> QED
        BY <4>1 DEF HeldOff
    <3>4. PICK j \in DOMAIN fs : id(j) = w
      BY <1>5
    <3>5. j <= i
      BY <1>5, <3>3, <3>4
    <3>6. p < j
      <4> SUFFICES ASSUME j <= p PROVE FALSE
        BY <1>5, <1>8
      <4>1. p \in P /\ p \in DOMAIN fs
        BY <1>5, <1>8
      <4>2. <<id(p), y>> \in L /\ id(p) \in K /\ w \in K
        BY <1>2, <1>5, <1>7, <4>1
      <4>3. j = p \/ <<w, id(p)>> \in L
        BY <1>5, <1>8, <3>4, <4>1
      <4>4. <<w, y>> \in L
        BY <1>1, <1>3, <3>4, <4>2, <4>3 DEF Orders
      <4>5. <<w, w>> \in L
        BY <1>1, <1>3, <3>3, <4>2, <4>4 DEF Orders
      <4> QED
        BY <1>1, <4>2, <4>5 DEF Orders
    <3>7. j \in p + 1 .. gap
      BY <1>i, <1>19, <3>5, <3>6
    <3>8. Later(w[1], o.timestamp)
      BY <1>5, <1>17, <3>4, <3>7
    <3>9. w[1] \in Stamps
      BY <1>2, CharOrigin DEF K
    <3>10. Later(o.timestamp, o.timestamp)
      BY <1>1, <1>3, <3>3, <3>8, <3>9, LaterOrders
    <3> QED
      BY <1>1, <3>10, LaterOrders
  <2> QED
    BY <1>5, <1>8, <2>1, <2>2
<1> QED
  BY <1>18, <1>19 DEF id, y

\* The new text of an edit t is where the order L has it.
NewPlaced(L, fs, t, ranges, gaps) ==
  /\ \A i \in DOMAIN fs, x \in NewText(ranges) :
       i <= gaps[x[1]] <=> <<Id(fs[i]), <<t, insertion_offset(ranges, x[1], x[2])>>>> \in L
  /\ \A x, y \in NewText(ranges) :
       x[1] < y[1] \/ (x[1] = y[1] /\ x[2] < y[2]) =>
         <<<<t, insertion_offset(ranges, x[1], x[2])>>,
           <<t, insertion_offset(ranges, y[1], y[2])>>>> \in L

\* Then the fragments stay in order.
LEMMA SplicedSorted ==
  ASSUME NEW fs \in Seq(FragmentType), NEW t \in Stamps, NEW ranges \in Seq(RangeType),
         NEW gaps \in [DOMAIN ranges -> 0 .. Len(fs)], NEW dels, NEW K, NEW L, Orders(L, K),
         Sorted(L, fs), \A i \in DOMAIN fs : Id(fs[i]) \in K /\ fs[i].timestamp # t,
         \A x \in NewText(ranges) : <<t, insertion_offset(ranges, x[1], x[2])>> \in K,
         NewPlaced(L, fs, t, ranges, gaps)
  PROVE  Sorted(L, Spliced(fs, t, ranges, gaps, dels))
<1> DEFINE res == Spliced(fs, t, ranges, gaps, dels)
           c(x) == <<t, insertion_offset(ranges, x[1], x[2])>>
           id(i) == Id(fs[i])
<1>1. res \in Seq(FragmentType) /\ \E place : IsPlacing(place, res, fs, t, ranges, gaps, dels)
  BY SplicedShape
<1> HIDE DEF res
<1>2. PICK place : IsPlacing(place, res, fs, t, ranges, gaps, dels)
  BY <1>1
<1>3. Items(place, res, fs, t, ranges, gaps, dels)
  BY <1>1, <1>2, SplicedItems
<1>4. \A m, n \in DOMAIN res : m < n <=> PlaceBefore(place[m], place[n])
  BY <1>2 DEF IsPlacing
<1>5. ASSUME NEW n \in DOMAIN res, NEW i \in DOMAIN fs, place[n] = <<i, 0, 0>>
      PROVE  Id(res[n]) = id(i)
  <2>1. res[n] = IF i \in dels THEN delete(fs[i], t) ELSE fs[i]
    BY <1>3, <1>5 DEF Items
  <2>2. fs[i] \in FragmentType
    OBVIOUS
  <2>3. delete(fs[i], t).timestamp = fs[i].timestamp /\ delete(fs[i], t).offset = fs[i].offset
    BY <2>2 DEF delete, FragmentType
  <2> QED
    BY <2>1, <2>3 DEF Id
<1>6. ASSUME NEW n \in DOMAIN res, NEW x \in NewText(ranges),
             place[n] = <<gaps[x[1]], x[1], x[2]>>
      PROVE  Id(res[n]) = c(x)
  <2>1. res[n] = Fragment(t, insertion_offset(ranges, x[1], x[2]))
    BY <1>3, <1>6 DEF Items
  <2> QED
    BY <2>1 DEF Id, Fragment
<1>7. \A x \in NewText(ranges) : x[1] \in Nat \ {0} /\ x[2] \in Nat \ {0} /\ x[1] \in DOMAIN ranges
  BY NewTextFinite
<1>8. \A x \in NewText(ranges) : gaps[x[1]] \in 0 .. Len(fs)
  BY <1>7
<1>9. DOMAIN fs = 1 .. Len(fs) /\ Len(fs) \in Nat
  OBVIOUS
<1>10. /\ \A i \in DOMAIN fs, x \in NewText(ranges) : i <= gaps[x[1]] <=> <<id(i), c(x)>> \in L
       /\ \A x, y \in NewText(ranges) :
            x[1] < y[1] \/ (x[1] = y[1] /\ x[2] < y[2]) => <<c(x), c(y)>> \in L
  BY DEF NewPlaced
<1>11. /\ \A i \in DOMAIN fs : id(i) \in K /\ \A x \in NewText(ranges) : id(i) # c(x)
       /\ \A x \in NewText(ranges) : c(x) \in K
       /\ \A i, j \in DOMAIN fs : i < j => <<id(i), id(j)>> \in L
  BY DEF Id, Sorted
<1> HIDE DEF c, id
<1>12. \A i \in DOMAIN fs, x \in NewText(ranges) : gaps[x[1]] < i => <<c(x), id(i)>> \in L
  <2> SUFFICES ASSUME NEW i \in DOMAIN fs, NEW x \in NewText(ranges), gaps[x[1]] < i
               PROVE  <<c(x), id(i)>> \in L
    OBVIOUS
  <2>1. ~(i <= gaps[x[1]])
    BY <1>8, <1>9
  <2>2. <<id(i), c(x)>> \notin L
    BY <1>10, <2>1
  <2> QED
    BY <1>11, <2>2 DEF Orders
<1>13. SUFFICES ASSUME NEW m \in DOMAIN res, NEW n \in DOMAIN res, m < n
                PROVE  <<Id(res[m]), Id(res[n])>> \in L
  BY DEF Sorted, res
<1>14. PlaceBefore(place[m], place[n])
  BY <1>4, <1>13
<1>15. CASE \E i, j \in DOMAIN fs : place[m] = <<i, 0, 0>> /\ place[n] = <<j, 0, 0>>
  <2>1. PICK i \in DOMAIN fs, j \in DOMAIN fs : place[m] = <<i, 0, 0>> /\ place[n] = <<j, 0, 0>>
    BY <1>15
  <2>2. i < j
    BY <1>14, <2>1 DEF PlaceBefore
  <2>3. Id(res[m]) = id(i) /\ Id(res[n]) = id(j)
    BY <1>5, <2>1
  <2> QED
    BY <1>11, <2>2, <2>3
<1>16. CASE \E i \in DOMAIN fs, y \in NewText(ranges) :
              place[m] = <<i, 0, 0>> /\ place[n] = <<gaps[y[1]], y[1], y[2]>>
  <2>1. PICK i \in DOMAIN fs, y \in NewText(ranges) :
              place[m] = <<i, 0, 0>> /\ place[n] = <<gaps[y[1]], y[1], y[2]>>
    BY <1>16
  <2>2. i <= gaps[y[1]]
    BY <1>7, <1>8, <1>9, <1>14, <2>1 DEF PlaceBefore
  <2>3. Id(res[m]) = id(i) /\ Id(res[n]) = c(y)
    BY <1>5, <1>6, <2>1
  <2> QED
    BY <1>10, <2>2, <2>3
<1>17. CASE \E j \in DOMAIN fs, x \in NewText(ranges) :
              place[m] = <<gaps[x[1]], x[1], x[2]>> /\ place[n] = <<j, 0, 0>>
  <2>1. PICK j \in DOMAIN fs, x \in NewText(ranges) :
              place[m] = <<gaps[x[1]], x[1], x[2]>> /\ place[n] = <<j, 0, 0>>
    BY <1>17
  <2>2. gaps[x[1]] < j
    BY <1>7, <1>8, <1>9, <1>14, <2>1 DEF PlaceBefore
  <2>3. Id(res[m]) = c(x) /\ Id(res[n]) = id(j)
    BY <1>5, <1>6, <2>1
  <2> QED
    BY <1>12, <2>2, <2>3
<1>18. CASE \E x, y \in NewText(ranges) :
              place[m] = <<gaps[x[1]], x[1], x[2]>> /\ place[n] = <<gaps[y[1]], y[1], y[2]>>
  <2>1. PICK x \in NewText(ranges), y \in NewText(ranges) :
              place[m] = <<gaps[x[1]], x[1], x[2]>> /\ place[n] = <<gaps[y[1]], y[1], y[2]>>
    BY <1>18
  <2>3. Id(res[m]) = c(x) /\ Id(res[n]) = c(y)
    BY <1>6, <2>1
  <2>4. CASE gaps[x[1]] < gaps[y[1]]
    <3> DEFINE j == gaps[y[1]]
    <3>1. j \in DOMAIN fs /\ j <= gaps[y[1]]
      BY <1>8, <1>9, <2>4
    <3>2. <<c(x), id(j)>> \in L /\ <<id(j), c(y)>> \in L
      BY <1>10, <1>12, <2>4, <3>1
    <3>3. <<c(x), c(y)>> \in L
      BY <1>11, <3>1, <3>2 DEF Orders
    <3> QED
      BY <2>3, <3>3
  <2>5. CASE ~(gaps[x[1]] < gaps[y[1]])
    <3>1. x[1] < y[1] \/ (x[1] = y[1] /\ x[2] < y[2])
      BY <1>14, <2>1, <2>5 DEF PlaceBefore
    <3> QED
      BY <1>10, <2>3, <3>1
  <2> QED
    BY <2>4, <2>5
<1>19. \A k \in DOMAIN res : \/ \E i \in DOMAIN fs : place[k] = <<i, 0, 0>>
                             \/ \E x \in NewText(ranges) : place[k] = <<gaps[x[1]], x[1], x[2]>>
  BY <1>3 DEF Items
<1>20. \/ \E i \in DOMAIN fs : place[m] = <<i, 0, 0>>
       \/ \E x \in NewText(ranges) : place[m] = <<gaps[x[1]], x[1], x[2]>>
  BY <1>19
<1>21. \/ \E i \in DOMAIN fs : place[n] = <<i, 0, 0>>
       \/ \E x \in NewText(ranges) : place[n] = <<gaps[x[1]], x[1], x[2]>>
  BY <1>19
<1> QED
  BY <1>15, <1>16, <1>17, <1>18, <1>20, <1>21, Zenon

-----------------------------------------------------------------------------
(* A new edit takes its place in the order *)

\* The characters that come before new text of an edit t that was made right behind D:
\* those before a member of D, and a run of characters of later operations.
Left(os, L, D, t) ==
  {c \in Known(os) : \A w \in Known(os) :
     w = c \/ <<w, c>> \in L => (\E d \in D : w = d \/ <<w, d>> \in L) \/ Later(w[1], t)}

\* D is what comes first in the text of a version.
Leads(os, L, v, D) ==
  /\ D \subseteq Text(os, v)
  /\ \A d \in D, c \in Text(os, v) : <<c, d>> \in L => c \in D

\* A new operation is later than all its replica knew.
LEMMA NewIsLater ==
  ASSUME NEW os, OpsOK(os), NEW n, OpType(n), Cut(os, n.version),
         NEW c \in Text(os, n.version)
  PROVE  Later(n.timestamp, c[1]) /\ ~Later(c[1], n.timestamp)
<1>1. c \in Known(os) /\ observed(n.version, c[1])
  BY InText
<1>2. c[1] \in Stamps /\ n.timestamp \in Stamps
  BY <1>1, CharOrigin DEF OpType
<1>3. c[1][1] \in Nat /\ c[1][2] \in Replicas /\ n.timestamp[1] \in Nat
  BY <1>2, LaterOrders
<1>4. n.version[c[1][2]] < n.timestamp[1] /\ n.version[c[1][2]] \in Nat
  BY <1>3 DEF OpType, Versions
<1>5. c[1][1] < n.timestamp[1]
  BY <1>1, <1>3, <1>4 DEF observed
<1> QED
  BY <1>3, <1>5 DEF Later

\* What Left is: it is closed downwards, and of the text its replica knew it has just D.
IsLeft(os, L, n, D, A) ==
  /\ A \subseteq Known(os) /\ D \subseteq A
  /\ \A c \in A, w \in Known(os) : <<w, c>> \in L => w \in A
  /\ \A c \in Text(os, n.version) : c \in A <=> c \in D
  /\ \A c \in A : (\E d \in D : c = d \/ <<c, d>> \in L) \/ Later(c[1], n.timestamp)
  /\ \A c \in Known(os) : c \notin A =>
       \E w \in Known(os) : (w = c \/ <<w, c>> \in L) /\ ~Later(w[1], n.timestamp) /\ w \notin A

\* That holds of Left when D is the first text of what the replica knew.
LEMMA LeftIs ==
  ASSUME NEW os, OpsOK(os), NEW L, Orders(L, Known(os)), NEW n, OpType(n),
         Cut(os, n.version), NEW D, Leads(os, L, n.version, D),
         NEW A, A = Left(os, L, D, n.timestamp)
  PROVE  IsLeft(os, L, n, D, A)
<1> DEFINE K == Known(os)
           t == n.timestamp
           Up(w) == (\E d \in D : w = d \/ <<w, d>> \in L) \/ Later(w[1], t)
<1>1. \A c : c \in A <=> c \in K /\ \A w \in K : w = c \/ <<w, c>> \in L => Up(w)
  BY DEF Left
<1>2. Text(os, n.version) \subseteq K
  BY InText
<1>3. D \subseteq K /\ D \subseteq Text(os, n.version)
      /\ \A d \in D, c \in Text(os, n.version) : <<c, d>> \in L => c \in D
  BY <1>2 DEF Leads
<1>4. /\ \A x, y, z \in K : <<x, y>> \in L /\ <<y, z>> \in L => <<x, z>> \in L
  BY DEF Orders
<1>5. \A w : Up(w) <=> (\E d \in D : w = d \/ <<w, d>> \in L) \/ Later(w[1], t)
  OBVIOUS
<1>6. \A w \in A : Up(w) /\ w \in K
  BY <1>1
<1> HIDE DEF Up, K
<1>7. ASSUME NEW c \in A, NEW w \in K, <<w, c>> \in L PROVE w \in A
  <2> SUFFICES ASSUME NEW z \in K, z = w \/ <<z, w>> \in L PROVE Up(z)
    BY <1>1
  <2>1. <<z, c>> \in L
    BY <1>4, <1>6, <1>7
  <2> QED
    BY <1>1, <2>1
<1>8. ASSUME NEW d \in D PROVE d \in A
  BY <1>1, <1>3, <1>5
<1>9. ASSUME NEW c \in Text(os, n.version), c \in A PROVE c \in D
  <2>1. ~Later(c[1], t)
    BY NewIsLater
  <2>2. \E d \in D : c = d \/ <<c, d>> \in L
    BY <1>5, <1>6, <1>9, <2>1
  <2> QED
    BY <1>3, <2>2
<1>10. ASSUME NEW c \in K, c \notin A
       PROVE  \E w \in K : (w = c \/ <<w, c>> \in L) /\ ~Later(w[1], t) /\ w \notin A
  <2>1. PICK w \in K : (w = c \/ <<w, c>> \in L) /\ ~Up(w)
    BY <1>1, <1>10
  <2> QED
    BY <1>5, <1>6, <2>1
<1>11. A \subseteq K
  BY <1>6
<1>12. \A c \in A : (\E d \in D : c = d \/ <<c, d>> \in L) \/ Later(c[1], n.timestamp)
  BY <1>5, <1>6
<1>13. D \subseteq A /\ \A c \in Text(os, n.version) : c \in A <=> c \in D
  BY <1>8, <1>9
<1>14. \A c \in A, w \in K : <<w, c>> \in L => w \in A
  BY <1>7
<1>15. \A c \in K : c \notin A =>
              \E w \in K : (w = c \/ <<w, c>> \in L) /\ ~Later(w[1], n.timestamp) /\ w \notin A
  BY <1>10
<1> QED
  BY <1>11, <1>12, <1>13, <1>14, <1>15, Zenon DEF K, IsLeft

\* The order with the text of the new edit n: its k-th range is right behind Left of D[k].
Joins(os, L, n, D, M) ==
  /\ Orders(M, Known(os) \cup Chars(n))
  /\ \A c, w \in Known(os) : <<c, w>> \in M <=> <<c, w>> \in L
  /\ \A x, y \in Chars(n) : <<x, y>> \in M <=> x[2] < y[2]
  /\ \A c \in Known(os), x \in NewText(n.ranges) :
       /\ <<c, CharOf(n, x)>> \in M <=> c \in Left(os, L, D[x[1]], n.timestamp)
       /\ <<CharOf(n, x), c>> \in M <=> c \notin Left(os, L, D[x[1]], n.timestamp)

\* A greater set leads to a greater one on the left.
LEMMA LeftGrows ==
  ASSUME NEW os, NEW L, NEW D, NEW E, D \subseteq E, NEW t
  PROVE  Left(os, L, D, t) \subseteq Left(os, L, E, t)
<1> SUFFICES ASSUME NEW c \in Left(os, L, D, t) PROVE c \in Left(os, L, E, t)
  OBVIOUS
<1> QED
  BY DEF Left

\* There is such an order.
LEMMA JoinExists ==
  ASSUME NEW os, OpsOK(os), NEW L, Orders(L, Known(os)), NEW n, NewOp(os, n), n.kind = "Edit",
         NEW D, \A k \in DOMAIN n.ranges : Leads(os, L, n.version, D[k]),
         \A j, k \in DOMAIN n.ranges : j <= k => D[j] \subseteq D[k]
  PROVE  \E M : Joins(os, L, n, D, M)
<1> DEFINE K == Known(os)
           N == Chars(n)
           X == NewText(n.ranges)
           c(x) == CharOf(n, x)
           t == n.timestamp
           a(x) == Left(os, L, D[x[1]], t)
           M == {z \in N \X N : z[1][2] < z[2][2]}
           A == [y \in N |-> a(CHOOSE x \in X : c(x) = y)]
           I == Inserted(K, L, N, M, A)
<1>1. OpType(n) /\ Cut(os, n.version) /\ n.ranges \in Seq(RangeType)
  BY DEF NewOp, OpType
<1>2. /\ N = {c(x) : x \in X}
      /\ \A x, y \in X : c(x) = c(y) => x = y
      /\ \A x \in X : c(x)[1] = t /\ c(x)[2] \in Nat
      /\ \A x, y \in X : c(x)[2] < c(y)[2] <=> x[1] < y[1] \/ (x[1] = y[1] /\ x[2] < y[2])
  BY <1>1, CharsOf
<1>3. \A x \in X : x[1] \in DOMAIN n.ranges /\ x[1] \in Nat /\ x[2] \in Nat
  BY <1>1, NewTextFinite
<1>4. \A y \in N : y = <<t, y[2]>> /\ y[2] \in Nat /\ y[1] = t
  BY <1>2 DEF CharOf
<1>5. K \cap N = {}
  <2> SUFFICES ASSUME NEW y \in K, y \in N PROVE FALSE
    OBVIOUS
  <2>1. y[1] = t
    BY <1>4
  <2>2. CASE y \in BaseText
    <3>1. t[1] = 1
      BY <2>1, <2>2 DEF BaseText
    <3> QED
      BY <1>1, <3>1 DEF OpType
  <2>3. CASE \E o \in os : o.kind = "Edit" /\ y \in Chars(o) /\ y[1] = o.timestamp
    <3>1. t \in EditStamps(os)
      BY <2>1, <2>3 DEF EditStamps
    <3> QED
      BY <3>1, NewIsFresh
  <2> QED
    BY <2>2, <2>3, CharOrigin
<1>6. \A x, y \in N : <<x, y>> \in M <=> x[2] < y[2]
  OBVIOUS
<1> HIDE DEF M
<1>7. Orders(M, N)
  <2>1. \A x \in N : <<x, x>> \notin M
    BY <1>4, <1>6
  <2>2. \A x, y, z \in N : <<x, y>> \in M /\ <<y, z>> \in M => <<x, z>> \in M
    BY <1>4, <1>6
  <2>3. ASSUME NEW x \in N, NEW y \in N, <<x, y>> \notin M, <<y, x>> \notin M PROVE x = y
    <3>1. x[2] = y[2]
      BY <1>4, <1>6, <2>3
    <3> QED
      BY <1>4, <3>1
  <2> QED
    BY <2>1, <2>2, <2>3, Zenon DEF Orders
<1>8. ASSUME NEW x \in X PROVE c(x) \in N /\ A[c(x)] = a(x)
  <2>1. c(x) \in N
    BY <1>2
  <2>2. (CHOOSE z \in X : c(z) = c(x)) = x
    BY <1>2
  <2> QED
    BY <2>1, <2>2
<1>9. ASSUME NEW x \in X
      PROVE  /\ a(x) \subseteq K /\ \A b \in a(x), w \in K : <<w, b>> \in L => w \in a(x)
  <2>1. Leads(os, L, n.version, D[x[1]])
    BY <1>3
  <2> DEFINE B == a(x)
             E == D[x[1]]
  <2>2. B = Left(os, L, E, n.timestamp) /\ Leads(os, L, n.version, E)
    BY <2>1
  <2> HIDE DEF B, E
  <2>3. IsLeft(os, L, n, E, B)
    BY <1>1, <2>2, LeftIs
  <2> QED
    BY <2>3 DEF B, IsLeft
<1> HIDE DEF A
<1>10. ASSUME NEW x \in X, NEW y \in X, <<c(x), c(y)>> \in M PROVE a(x) \subseteq a(y)
  <2>1. c(x)[2] < c(y)[2]
    BY <1>6, <1>8, <1>10
  <2>2. x[1] <= y[1]
    BY <1>2, <1>3, <2>1
  <2>3. D[x[1]] \subseteq D[y[1]]
    BY <1>3, <2>2
  <2> QED
    BY <2>3, LeftGrows
<1> HIDE DEF a, c, X, N, K
<1>11. \A y \in N : \E x \in X : y = c(x) /\ A[y] = a(x)
  BY <1>2, <1>8
<1>12. /\ \A y \in N : A[y] \subseteq K
       /\ \A y \in N : \A b \in A[y], w \in K : <<w, b>> \in L => w \in A[y]
  BY <1>9, <1>11
<1>13. \A y, z \in N : <<y, z>> \in M => A[y] \subseteq A[z]
  BY <1>10, <1>11
<1>14. Orders(L, K)
  BY DEF K
<1>15. /\ Orders(I, K \cup N)
       /\ \A b, w \in K : <<b, w>> \in I <=> <<b, w>> \in L
       /\ \A x, y \in N : <<x, y>> \in I <=> <<x, y>> \in M
       /\ \A b \in K, x \in N :
            (<<b, x>> \in I <=> b \in A[x]) /\ (<<x, b>> \in I <=> b \notin A[x])
  BY <1>5, <1>7, <1>12, <1>13, <1>14, InsertedOrders
<1> HIDE DEF I
<1>16. \A b \in K, x \in X : /\ <<b, c(x)>> \in I <=> b \in a(x)
                             /\ <<c(x), b>> \in I <=> b \notin a(x)
  BY <1>8, <1>15
<1>17. \A x, y \in N : <<x, y>> \in I <=> x[2] < y[2]
  BY <1>6, <1>15
<1>18. Joins(os, L, n, D, I)
  BY <1>15, <1>16, <1>17, Zenon DEF Joins, a, c, X, N, K
<1> QED
  BY <1>18

\* The new edit settles its own place and disturbs that of no other.
LEMMA JoinSettled ==
  ASSUME NEW os, OpsOK(os), NEW L, Settled(os, L), NEW n, NewOp(os, n), n.kind = "Edit",
         NEW D, \A k \in DOMAIN n.ranges : /\ Leads(os, L, n.version, D[k])
                                           /\ IsFiniteSet(D[k])
                                           /\ Cardinality(D[k]) = n.ranges[k].start,
         NEW M, Joins(os, L, n, D, M)
  PROVE  Settled(os \cup {n}, M)
<1> DEFINE K == Known(os)
           N == Chars(n)
           X == NewText(n.ranges)
           c(x) == CharOf(n, x)
           t == n.timestamp
           T == Text(os, n.version)
           a(x) == Left(os, L, D[x[1]], t)
           os2 == os \cup {n}
<1>1. /\ OpType(n) /\ Cut(os, n.version) /\ n.ranges \in Seq(RangeType) /\ Orders(L, K)
      /\ t \in Stamps
  BY DEF NewOp, OpType, Settled
<1>2. /\ N = {c(x) : x \in X}
      /\ \A x \in X : c(x)[1] = t /\ c(x) \in N
  BY <1>1, CharsOf
<1>3. ASSUME NEW x \in X PROVE IsLeft(os, L, n, D[x[1]], a(x)) /\ x[1] \in DOMAIN n.ranges
  <2>1. x[1] \in DOMAIN n.ranges
    BY <1>1, NewTextFinite
  <2> DEFINE B == a(x)
             E == D[x[1]]
  <2>2. B = Left(os, L, E, n.timestamp) /\ Leads(os, L, n.version, E)
    BY <2>1
  <2> HIDE DEF B, E
  <2>3. IsLeft(os, L, n, E, B)
    BY <1>1, <2>2, LeftIs
  <2> QED
    BY <2>1, <2>3 DEF B, E
<1>4. /\ Orders(M, K \cup N)
      /\ \A b, w \in K : <<b, w>> \in M <=> <<b, w>> \in L
      /\ \A x, y \in N : <<x, y>> \in M <=> x[2] < y[2]
      /\ \A b \in K, x \in X : /\ <<b, c(x)>> \in M <=> b \in a(x)
                               /\ <<c(x), b>> \in M <=> b \notin a(x)
  BY DEF Joins
<1>5. /\ Known(os2) = K \cup N
      /\ \A v : Cut(os, v) => Text(os2, v) = Text(os, v)
  <2>1. Known(os2) = K \cup N
    BY OneMore
  <2>2. ASSUME NEW v, Cut(os, v) PROVE Seen(os2, v) = Seen(os, v)
    BY <2>2, NewIsFresh
  <2> QED
    BY <2>1, <2>2 DEF Text
<1>6. \A o \in os : Cut(os, o.version) /\ o.timestamp \in Stamps /\ o.timestamp # t
  <2>1. \A o \in os : Cut(os, o.version) /\ o.timestamp \in Stamps
    BY DEF OpsOK, OpType
  <2>2. ASSUME NEW o \in os, o.timestamp = t PROVE FALSE
    <3>1. o.timestamp[2] = n.timestamp[2] /\ o.timestamp[1] < n.timestamp[1]
      BY <2>2 DEF NewOp
    <3>2. t[1] \in Nat
      BY <1>1, LaterOrders
    <3> QED
      BY <2>2, <3>1, <3>2
  <2> QED
    BY <2>1, <2>2
<1>7. /\ \A b \in K : b[1] \in Stamps /\ b[1] # t
      /\ \A o \in os : o.kind = "Edit" => Chars(o) \subseteq K
      /\ \A o \in os : Text(os, o.version) \subseteq K
      /\ T \subseteq K /\ \A b \in K : b \notin N
  <2>1. ASSUME NEW b \in K PROVE b[1] \in Stamps /\ b[1] # t
    <3>1. CASE b[1] = <<1, 0>>
      <4>1. b[1][1] = 1
        BY <3>1
      <4> QED
        BY <1>1, <4>1, CharOrigin DEF OpType
    <3> QED
      BY <1>6, <3>1, CharOrigin
  <2>2. \A o \in os : o.kind = "Edit" => Chars(o) \subseteq K
    BY DEF Known
  <2>3. \A o \in os : Text(os, o.version) \subseteq K
    BY <1>6, InText
  <2>4. T \subseteq K
    BY <1>1, InText
  <2> QED
    BY <1>2, <2>1, <2>2, <2>3, <2>4
<1> HIDE DEF K, N, X, c, T, a, os2
<1>8. ASSUME NEW o \in os, o.kind = "Edit"
      PROVE  /\ \A x, y \in Chars(o) : x[2] < y[2] => <<x, y>> \in L
             /\ \A x \in NewText(o.ranges) : \E E : Anchor(os, L, o, x, E)
             /\ \A x \in K \ (Text(os, o.version) \cup Chars(o)), y \in Chars(o) :
                  <<x, y>> \in L => Bridge(os, L, o, x, y)
  BY <1>8 DEF Settled, K
\* The old edits.
<1>9. ASSUME NEW o \in os, o.kind = "Edit", NEW x \in NewText(o.ranges)
      PROVE  \E E : Anchor(os2, M, o, x, E)
  <2> DEFINE y == CharOf(o, x)
             u == o.timestamp
  <2>1. PICK E : Anchor(os, L, o, x, E)
    BY <1>8, <1>9
  <2>2. /\ E \subseteq Text(os, o.version)
        /\ IsFiniteSet(E) /\ Cardinality(E) = o.ranges[x[1]].start
        /\ \A d \in E, b \in Text(os, o.version) : <<b, d>> \in L => b \in E
        /\ \A d \in E : <<d, y>> \in L
        /\ \A b \in K : <<b, y>> \in L /\ (\A d \in E : <<d, b>> \in L)
                            => b[1] = u \/ Later(b[1], u)
    BY <2>1 DEF Anchor, K
  <2>3. y \in K /\ y[1] = u /\ E \subseteq K /\ u \in Stamps /\ u # t
    <3>1. o.ranges \in Seq(RangeType)
      BY <1>9 DEF OpsOK, OpType
    <3>2. y \in Chars(o) /\ y[1] = u
      BY <3>1, CharsOf
    <3> QED
      BY <1>6, <1>7, <1>9, <2>2, <3>2
  <2> HIDE DEF y, u
  <2>4. ASSUME NEW z \in X, <<c(z), y>> \in M, \A d \in E : <<d, c(z)>> \in M
        PROVE  Later(t, u)
    <3> SUFFICES ASSUME ~Later(t, u) PROVE FALSE
      OBVIOUS
    <3>1. Later(u, t)
      BY <1>1, <2>3, LaterOrders
    <3>2. y \notin a(z)
      BY <1>4, <2>3, <2>4
    <3>3. PICK w \in K : (w = y \/ <<w, y>> \in L) /\ ~Later(w[1], t) /\ w \notin a(z)
      BY <1>3, <2>3, <3>2 DEF IsLeft, K
    <3>4. w[1] # u /\ w[1] \in Stamps
      BY <1>7, <3>1, <3>3
    <3>5. ~Later(w[1], u)
      BY <1>1, <2>3, <3>1, <3>3, <3>4, LaterOrders
    <3>6. <<w, y>> \in L
      BY <2>3, <3>3, <3>4
    <3>7. PICK d \in E : <<d, w>> \notin L
      BY <2>2, <3>4, <3>5, <3>6
    <3>8. d \in K /\ (w = d \/ <<w, d>> \in L)
      BY <1>1, <2>3, <3>7 DEF Orders
    <3>9. d \in a(z)
      BY <1>4, <2>4, <3>8
    <3>10. w \in a(z)
      BY <1>3, <3>8, <3>9 DEF IsLeft, K
    <3> QED
      BY <3>3, <3>10
  <2>5. ASSUME NEW b \in K \cup N, <<b, y>> \in M, \A d \in E : <<d, b>> \in M
        PROVE  b[1] = u \/ Later(b[1], u)
    <3>1. CASE b \in K
      BY <1>4, <2>2, <2>3, <2>5, <3>1
    <3>2. CASE b \in N
      BY <1>2, <2>4, <2>5, <3>2
    <3> QED
      BY <3>1, <3>2
  <2>6. Text(os2, o.version) = Text(os, o.version) /\ Text(os, o.version) \subseteq K
    BY <1>5, <1>6, <1>7
  <2>7. /\ \A d \in E, b \in Text(os2, o.version) : <<b, d>> \in M => b \in E
        /\ \A d \in E : <<d, y>> \in M
    BY <1>4, <2>2, <2>3, <2>6
  <2>8. Anchor(os2, M, o, x, E)
    BY <1>5, <2>2, <2>5, <2>6, <2>7, Zenon DEF Anchor, y, u
  <2> QED
    BY <2>8
<1>10. ASSUME NEW o \in os, o.kind = "Edit", NEW y \in Chars(o), NEW x \in K \cup N,
              x \notin Text(os, o.version) \cup Chars(o), <<x, y>> \in M
       PROVE  Bridge(os2, M, o, x, y)
  <2>1. /\ y \in K /\ Text(os2, o.version) = Text(os, o.version)
        /\ Text(os, o.version) \subseteq K /\ Chars(o) \subseteq K
    BY <1>5, <1>6, <1>7, <1>10
  <2> SUFFICES \E w \in Text(os, o.version) \cup Chars(o) :
                 <<x, w>> \in M /\ (w = y \/ <<w, y>> \in M) /\ Later(x[1], w[1])
    BY <2>1 DEF Bridge
  <2>2. ASSUME NEW w0 \in K, w0 \notin Text(os, o.version) \cup Chars(o), <<w0, y>> \in L
        PROVE  \E w \in Text(os, o.version) \cup Chars(o) :
                 /\ w \in K /\ <<w0, w>> \in L /\ <<w0, w>> \in M /\ (w = y \/ <<w, y>> \in M)
                 /\ Later(w0[1], w[1])
    <3>1. Bridge(os, L, o, w0, y)
      BY <1>8, <1>10, <2>2
    <3>2. PICK w \in Text(os, o.version) \cup Chars(o) :
            <<w0, w>> \in L /\ (w = y \/ <<w, y>> \in L) /\ Later(w0[1], w[1])
      BY <3>1 DEF Bridge
    <3>3. w \in K
      BY <2>1
    <3>4. <<w0, w>> \in M /\ (w = y \/ <<w, y>> \in M)
      BY <1>4, <2>1, <2>2, <3>2, <3>3
    <3> QED
      BY <3>2, <3>3, <3>4
  <2>3. CASE x \in K
    <3>1. <<x, y>> \in L
      BY <1>4, <1>10, <2>1, <2>3
    <3> QED
      BY <1>10, <2>2, <2>3, <3>1
  <2>4. CASE x \in N
    <3>1. PICK z \in X : x = c(z)
      BY <1>2, <2>4
    <3>2. y \notin a(z) /\ x[1] = t
      BY <1>2, <1>4, <1>10, <2>1, <3>1
    <3>3. PICK w0 \in K : (w0 = y \/ <<w0, y>> \in L) /\ ~Later(w0[1], t) /\ w0 \notin a(z)
      BY <1>3, <2>1, <3>2 DEF IsLeft, K
    <3>4. <<x, w0>> \in M
      BY <1>4, <3>1, <3>3
    <3>5. Later(t, w0[1]) /\ w0[1] \in Stamps
      BY <1>1, <1>7, <3>3, LaterOrders
    <3>6. CASE w0 \in Text(os, o.version) \cup Chars(o)
      <4>1. w0 = y \/ <<w0, y>> \in M
        BY <1>4, <2>1, <3>3
      <4> QED
        BY <3>2, <3>4, <3>5, <3>6, <4>1
    <3>7. CASE w0 \notin Text(os, o.version) \cup Chars(o)
      <4>1. <<w0, y>> \in L
        BY <1>10, <3>3, <3>7
      <4>2. PICK w \in Text(os, o.version) \cup Chars(o) :
                 /\ w \in K /\ <<w0, w>> \in L /\ <<w0, w>> \in M /\ (w = y \/ <<w, y>> \in M)
                 /\ Later(w0[1], w[1])
        BY <2>2, <3>7, <4>1
      <4>3. <<x, w>> \in M
        BY <1>4, <2>4, <3>4, <4>2 DEF Orders
      <4>4. Later(t, w[1])
        BY <1>1, <1>7, <3>5, <4>2, LaterOrders
      <4> QED
        BY <3>2, <4>2, <4>3, <4>4
    <3> QED
      BY <3>6, <3>7
  <2> QED
    BY <1>10, <2>3, <2>4
\* The new edit.
<1>11. ASSUME NEW x \in X PROVE \E E : Anchor(os2, M, n, x, E)
  <2> DEFINE E == D[x[1]]
             y == c(x)
  <2>1. IsLeft(os, L, n, E, a(x)) /\ x[1] \in DOMAIN n.ranges
    BY <1>3
  <2>2. Leads(os, L, n.version, E) /\ IsFiniteSet(E) /\ Cardinality(E) = n.ranges[x[1]].start
    BY <2>1
  <2> HIDE DEF E
  <2>3. /\ E \subseteq T /\ E \subseteq K /\ E \subseteq a(x)
        /\ \A d \in E, b \in T : <<b, d>> \in L => b \in E
    BY <1>7, <2>1, <2>2 DEF Leads, T, IsLeft
  <2>4. /\ \A d \in E, b \in T : <<b, d>> \in M => b \in E
        /\ \A d \in E : <<d, y>> \in M
    BY <1>4, <1>7, <2>3
  <2>5. ASSUME NEW b \in K \cup N, <<b, y>> \in M, \A d \in E : <<d, b>> \in M
        PROVE  b[1] = t \/ Later(b[1], t)
    <3>1. CASE b \in N
      BY <1>2, <3>1
    <3>2. CASE b \in K
      <4>1. b \in a(x)
        BY <1>4, <2>5, <3>2
      <4>2. (\E d \in E : b = d \/ <<b, d>> \in L) \/ Later(b[1], t)
        BY <2>1, <4>1 DEF IsLeft
      <4>3. ASSUME NEW d \in E, b = d \/ <<b, d>> \in L PROVE FALSE
        <5>1. d \in K /\ <<d, b>> \in L
          BY <1>4, <2>3, <2>5, <3>2
        <5> QED
          BY <1>1, <3>2, <4>3, <5>1 DEF Orders
      <4> QED
        BY <4>2, <4>3
    <3> QED
      BY <3>1, <3>2
  <2>6. Text(os2, n.version) = T
    BY <1>1, <1>5 DEF T
  <2>7. Anchor(os2, M, n, x, E)
    BY <1>5, <2>2, <2>3, <2>4, <2>5, <2>6, Zenon DEF Anchor, c
  <2> QED
    BY <2>7
<1>12. ASSUME NEW x \in K, x \notin T, NEW y \in N, <<x, y>> \in M
       PROVE  Bridge(os2, M, n, x, y)
  <2>1. Text(os2, n.version) = T
    BY <1>1, <1>5 DEF T
  <2> SUFFICES \E w \in T \cup N : <<x, w>> \in M /\ (w = y \/ <<w, y>> \in M) /\ Later(x[1], w[1])
    BY <2>1 DEF Bridge, N
  <2>2. PICK z \in X : y = c(z)
    BY <1>2
  <2>3. x \in a(z) /\ y[1] = t
    BY <1>2, <1>4, <1>12, <2>2
  <2>4. IsLeft(os, L, n, D[z[1]], a(z)) /\ Leads(os, L, n.version, D[z[1]])
    BY <1>3
  <2>5. (\E d \in D[z[1]] : x = d \/ <<x, d>> \in L) \/ Later(x[1], t)
    BY <2>3, <2>4 DEF IsLeft
  <2>6. CASE Later(x[1], t)
    BY <1>12, <2>3, <2>6
  <2>7. CASE \E d \in D[z[1]] : x = d \/ <<x, d>> \in L
    <3>1. PICK d \in D[z[1]] : x = d \/ <<x, d>> \in L
      BY <2>7
    <3>2. d \in T /\ d \in K /\ d \in a(z)
      BY <1>7, <2>4 DEF Leads, T, IsLeft
    <3>3. <<x, d>> \in L
      BY <1>12, <3>1, <3>2
    <3>4. PICK w \in T : <<x, w>> \in L /\ (w = d \/ <<w, d>> \in L) /\ Later(x[1], w[1])
      <4> DEFINE v == n.version
      <4>1. Cut(os, v) /\ x \in Known(os) /\ x \notin Text(os, v) /\ d \in Text(os, v)
        BY <1>1, <1>12, <3>2 DEF T, K
      <4> HIDE DEF v
      <4>2. HeldOff(os, L, v, x, d)
        BY <3>3, <4>1, Bridged
      <4> QED
        BY <4>2 DEF T, v, HeldOff
    <3>5. w \in K /\ w \in a(z)
      BY <1>7, <2>4, <3>2, <3>4 DEF IsLeft, K
    <3>6. <<x, w>> \in M /\ <<w, y>> \in M
      BY <1>4, <1>12, <2>2, <3>4, <3>5
    <3> QED
      BY <3>4, <3>6
  <2> QED
    BY <2>5, <2>6, <2>7
<1>13. ASSUME NEW o \in os2, o.kind = "Edit"
       PROVE  /\ \A x, y \in Chars(o) : x[2] < y[2] => <<x, y>> \in M
              /\ \A x \in NewText(o.ranges) : \E E : Anchor(os2, M, o, x, E)
              /\ \A x \in Known(os2) \ (Text(os2, o.version) \cup Chars(o)), y \in Chars(o) :
                   <<x, y>> \in M => Bridge(os2, M, o, x, y)
  <2>1. CASE o \in os
    <3>1. Text(os2, o.version) = Text(os, o.version)
      BY <1>5, <1>6, <2>1
    <3>2. \A x, y \in Chars(o) : x[2] < y[2] => <<x, y>> \in M
      BY <1>4, <1>7, <1>8, <1>13, <2>1
    <3> QED
      BY <1>5, <1>9, <1>10, <1>13, <2>1, <3>1, <3>2
  <2>2. CASE o = n
    <3>1. Text(os2, o.version) = T
      BY <1>1, <1>5, <2>2 DEF T
    <3>2. Chars(o) = N /\ NewText(o.ranges) = X
      BY <2>2 DEF N, X
    <3>3. \A x \in (K \cup N) \ (T \cup N), y \in N : <<x, y>> \in M => Bridge(os2, M, n, x, y)
      BY <1>12
    <3> QED
      BY <1>4, <1>5, <1>11, <2>2, <3>1, <3>2, <3>3
  <2> QED
    BY <2>1, <2>2 DEF os2
<1>14. Settled(os2, M)
  BY <1>4, <1>5, <1>13 DEF Settled
<1> QED
  BY <1>14 DEF os2

\* An undo has no place.
LEMMA UndoSettled ==
  ASSUME NEW os, OpsOK(os), NEW L, Settled(os, L), NEW n, NewOp(os, n), n.kind = "Undo"
  PROVE  Settled(os \cup {n}, L)
<1> DEFINE os2 == os \cup {n}
<1>1. Known(os2) = Known(os)
  BY OneMore
<1>2. ASSUME NEW v, Cut(os, v) PROVE Text(os2, v) = Text(os, v)
  <2>1. Seen(os2, v) = Seen(os, v)
    BY <1>2, NewIsFresh
  <2> QED
    BY <2>1 DEF Text
<1>3. \A o \in os2 : o.kind = "Edit" => o \in os
  OBVIOUS
<1> HIDE DEF os2
<1>4. ASSUME NEW o \in os2, o.kind = "Edit"
      PROVE  /\ \A x, y \in Chars(o) : x[2] < y[2] => <<x, y>> \in L
             /\ \A x \in NewText(o.ranges) : \E E : Anchor(os2, L, o, x, E)
             /\ \A x \in Known(os2) \ (Text(os2, o.version) \cup Chars(o)), y \in Chars(o) :
                  <<x, y>> \in L => Bridge(os2, L, o, x, y)
  <2>1. o \in os
    BY <1>3, <1>4
  <2>2. Text(os2, o.version) = Text(os, o.version)
    BY <1>2, <2>1 DEF OpsOK
  <2>3. \A x, E : Anchor(os2, L, o, x, E) <=> Anchor(os, L, o, x, E)
    BY <1>1, <2>2 DEF Anchor
  <2>4. \A x, y : Bridge(os2, L, o, x, y) <=> Bridge(os, L, o, x, y)
    BY <2>2 DEF Bridge
  <2>5. /\ \A x, y \in Chars(o) : x[2] < y[2] => <<x, y>> \in L
        /\ \A x \in NewText(o.ranges) : \E E : Anchor(os, L, o, x, E)
        /\ \A x \in Known(os) \ (Text(os, o.version) \cup Chars(o)), y \in Chars(o) :
                  <<x, y>> \in L => Bridge(os, L, o, x, y)
    BY <1>4, <2>1 DEF Settled
  <2> QED
    BY <1>1, <2>2, <2>3, <2>4, <2>5
<1>5. Orders(L, Known(os2))
  BY <1>1 DEF Settled
<1>6. Settled(os2, L)
  BY <1>4, <1>5 DEF Settled
<1> QED
  BY <1>6 DEF os2

\* The order M goes on from L.
Continues(os, L, M) == \A c, w \in Known(os) : <<c, w>> \in M <=> <<c, w>> \in L

\* An edit of a replica whose fragments are in the order joins it where the replica put its
\* text.
LEMMA LocalJoin ==
  ASSUME NEW os, OpsOK(os), NEW L, Settled(os, L), NEW n, NewOp(os, n), n.kind = "Edit",
         NEW fs, NEW undos, TextOK(Seen(os, n.version), fs, undos), Sorted(L, fs),
         NEW gaps \in [DOMAIN n.ranges -> 0 .. Len(fs)],
         \A k \in DOMAIN n.ranges : n.ranges[k].start = gaps[k],
         \A j, k \in DOMAIN n.ranges : j <= k => gaps[j] <= gaps[k]
  PROVE  \E M : /\ Settled(os \cup {n}, M) /\ Continues(os, L, M)
                /\ NewPlaced(M, fs, n.timestamp, n.ranges, gaps)
<1> DEFINE K == Known(os)
           v == n.version
           T == Text(os, v)
           X == NewText(n.ranges)
           D == [k \in DOMAIN n.ranges |-> {Id(fs[i]) : i \in 1 .. gaps[k]}]
           id(i) == Id(fs[i])
<1>1. OpType(n) /\ Cut(os, v) /\ n.ranges \in Seq(RangeType) /\ Orders(L, K)
  BY DEF NewOp, OpType, Settled
<1>2. T \subseteq K /\ T = Known(Seen(os, v))
  BY <1>1, InText DEF Text
<1>3. /\ DOMAIN fs = 1 .. Len(fs) /\ Len(fs) \in Nat
      /\ \A i \in DOMAIN fs : id(i) \in T /\ id(i) \in K
      /\ \A i, j \in DOMAIN fs : i < j <=> <<id(i), id(j)>> \in L
  BY <1>1, <1>2, SortedBoth
<1>4. /\ \A c \in T : \E i \in DOMAIN fs : id(i) = c
      /\ \A i, j \in DOMAIN fs : id(i) = id(j) => i = j
  BY <1>2 DEF TextOK
<1>5. ASSUME NEW k \in DOMAIN n.ranges
      PROVE  /\ gaps[k] \in 0 .. Len(fs) /\ 1 .. gaps[k] \subseteq DOMAIN fs
             /\ \A i \in DOMAIN fs : id(i) \in D[k] <=> i <= gaps[k]
             /\ \A c \in D[k] : \E i \in DOMAIN fs : i <= gaps[k] /\ c = id(i)
  <2>1. gaps[k] \in 0 .. Len(fs)
    OBVIOUS
  <2>2. 1 .. gaps[k] \subseteq DOMAIN fs /\ \A i \in DOMAIN fs : i \in 1 .. gaps[k] <=> i <= gaps[k]
    BY <1>3, <2>1
  <2>3. \A c : c \in D[k] <=> \E i \in 1 .. gaps[k] : c = id(i)
    OBVIOUS
  <2> HIDE DEF D, id
  <2> QED
    BY <1>4, <2>1, <2>2, <2>3
<1> HIDE DEF D, id, v
<1>6. ASSUME NEW k \in DOMAIN n.ranges
      PROVE  Leads(os, L, v, D[k]) /\ IsFiniteSet(D[k]) /\ Cardinality(D[k]) = gaps[k]
  <2> DEFINE g == gaps[k]
             J == 1 .. g
             E == D[k]
  <2>1. /\ g \in 0 .. Len(fs) /\ J \subseteq DOMAIN fs
        /\ \A i \in DOMAIN fs : id(i) \in E <=> i <= g
        /\ \A c \in E : \E i \in DOMAIN fs : i <= g /\ c = id(i)
    BY <1>5
  <2> HIDE DEF g, E
  <2>2. g \in Nat /\ IsFiniteSet(J) /\ Cardinality(J) = g
    <3>1. g \in Nat
      BY <1>3, <2>1
    <3>2. IsFiniteSet(J) /\ Cardinality(J) = IF 1 > g THEN 0 ELSE g - 1 + 1
      BY <3>1, FS_Interval, 1 \in Int, g \in Int
    <3> QED
      BY <3>1, <3>2
  <2>3. \A i \in DOMAIN fs : i \in J <=> i <= g
    BY <1>3, <2>2
  <2> HIDE DEF J
  <2>4. (\A j \in J : Id(fs[j]) \in E) /\ (\A c \in E : \E j \in J : Id(fs[j]) = c)
    BY <2>1, <2>3 DEF id
  <2>5. IsFiniteSet(E) /\ Cardinality(E) = g
    BY <2>1, <2>2, <2>4, IdsCount
  <2>6. E \subseteq T
    BY <1>3, <2>1
  <2>7. ASSUME NEW d \in E, NEW c \in T, <<c, d>> \in L PROVE c \in E
    <3>1. PICK i \in DOMAIN fs, j \in DOMAIN fs : c = id(i) /\ d = id(j) /\ j <= g
      BY <1>4, <2>1
    <3>2. i < j
      BY <1>3, <2>7, <3>1
    <3>3. i <= g
      BY <1>3, <2>2, <3>1, <3>2
    <3> QED
      BY <2>1, <3>1, <3>3
  <2>8. Leads(os, L, v, E)
    BY <2>6, <2>7 DEF Leads
  <2> QED
    BY <2>5, <2>8 DEF E, g
<1>7. ASSUME NEW j \in DOMAIN n.ranges, NEW k \in DOMAIN n.ranges, j <= k PROVE D[j] \subseteq D[k]
  <2> SUFFICES ASSUME NEW c \in D[j] PROVE c \in D[k]
    OBVIOUS
  <2>1. PICK i \in DOMAIN fs : i <= gaps[j] /\ c = id(i)
    BY <1>5
  <2>2. gaps[j] <= gaps[k] /\ gaps[j] \in 0 .. Len(fs) /\ gaps[k] \in 0 .. Len(fs)
    BY <1>7
  <2>3. i <= gaps[k]
    BY <1>3, <2>1, <2>2
  <2> QED
    BY <1>5, <2>1, <2>3
<1>8. PICK M : Joins(os, L, n, D, M)
  <2>1. \A k \in DOMAIN n.ranges : Leads(os, L, n.version, D[k])
    BY <1>6 DEF v
  <2> QED
    BY <1>1, <1>7, <2>1, JoinExists
<1>9. Settled(os \cup {n}, M)
  <2>1. \A k \in DOMAIN n.ranges : /\ Leads(os, L, n.version, D[k])
                                   /\ IsFiniteSet(D[k])
                                   /\ Cardinality(D[k]) = n.ranges[k].start
    BY <1>6 DEF v
  <2> QED
    BY <1>8, <2>1, JoinSettled
<1>10. Continues(os, L, M)
  BY <1>8 DEF Joins, Continues
<1>11. ASSUME NEW i \in DOMAIN fs, NEW x \in X
       PROVE  i <= gaps[x[1]] <=> <<id(i), CharOf(n, x)>> \in M
  <2>1. x[1] \in DOMAIN n.ranges
    BY <1>1, NewTextFinite
  <2> DEFINE E == D[x[1]]
             A == Left(os, L, E, n.timestamp)
  <2>2. Leads(os, L, n.version, E)
    BY <1>6, <2>1 DEF v
  <2>3. <<id(i), CharOf(n, x)>> \in M <=> id(i) \in A
    BY <1>3, <1>8 DEF Joins
  <2>4. id(i) \in E <=> i <= gaps[x[1]]
    BY <1>5, <2>1
  <2>5. A = Left(os, L, E, n.timestamp)
    OBVIOUS
  <2> HIDE DEF E, A
  <2>6. IsLeft(os, L, n, E, A)
    BY <1>1, <2>2, <2>5, LeftIs DEF v
  <2>7. id(i) \in A <=> id(i) \in E
    BY <1>3, <2>6 DEF IsLeft, v
  <2> QED
    BY <2>3, <2>4, <2>7
<1>12. ASSUME NEW x \in X, NEW y \in X, x[1] < y[1] \/ (x[1] = y[1] /\ x[2] < y[2])
       PROVE  <<CharOf(n, x), CharOf(n, y)>> \in M
  <2>1. CharOf(n, x) \in Chars(n) /\ CharOf(n, y) \in Chars(n) /\ CharOf(n, x)[2] < CharOf(n, y)[2]
    BY <1>1, <1>12, CharsOf
  <2> QED
    BY <1>8, <2>1 DEF Joins
<1>13. NewPlaced(M, fs, n.timestamp, n.ranges, gaps)
  BY <1>11, <1>12, Zenon DEF NewPlaced, CharOf, id
<1> QED
  BY <1>9, <1>10, <1>13

-----------------------------------------------------------------------------
(* Where a local edit inserts and what it deletes *)

\* Visible offsets grow by one with every visible fragment.
LEMMA VisibleOffsets ==
  ASSUME NEW fs \in Seq(FragmentType)
  PROVE  /\ \A i \in 0 .. Len(fs) : VisibleBefore(fs, i) \in Nat
         /\ VisibleBefore(fs, 0) = 0
         /\ \A i \in 1 .. Len(fs) : VisibleBefore(fs, i) =
              VisibleBefore(fs, i - 1) + (IF fs[i].visible THEN 1 ELSE 0)
         /\ \A i, j \in 0 .. Len(fs) : i <= j => VisibleBefore(fs, i) <= VisibleBefore(fs, j)
<1> DEFINE V(i) == {j \in 1 .. i : fs[j].visible}
           n == Len(fs)
<1>1. ASSUME NEW i \in 0 .. n
      PROVE  /\ IsFiniteSet(V(i)) /\ Cardinality(V(i)) \in Nat
             /\ VisibleBefore(fs, i) = Cardinality(V(i))
  <2>1. IsFiniteSet(1 .. i)
    BY FS_Interval
  <2>2. IsFiniteSet(V(i))
    BY <2>1, FS_Subset
  <2> QED
    BY <2>2, FS_CardinalityType DEF VisibleBefore
<1>2. V(0) = {}
  OBVIOUS
<1>3. ASSUME NEW i \in 1 .. n
      PROVE  VisibleBefore(fs, i) = VisibleBefore(fs, i - 1) + (IF fs[i].visible THEN 1 ELSE 0)
  <2>1. i - 1 \in 0 .. n /\ i \in 0 .. n /\ 1 .. i = (1 .. i - 1) \cup {i} /\ i \notin 1 .. i - 1
    OBVIOUS
  <2>2. IsFiniteSet(V(i - 1)) /\ i \notin V(i - 1) /\ Cardinality(V(i - 1)) \in Nat
    BY <1>1, <2>1
  <2>3. CASE fs[i].visible
    <3>1. V(i) = V(i - 1) \cup {i}
      BY <2>1, <2>3
    <3>2. Cardinality(V(i)) = Cardinality(V(i - 1)) + 1
      BY <2>2, <3>1, FS_AddElement
    <3> QED
      BY <1>1, <2>1, <2>3, <3>2
  <2>4. CASE ~fs[i].visible
    <3>1. V(i) = V(i - 1)
      BY <2>1, <2>4
    <3> QED
      BY <1>1, <2>1, <2>2, <2>4, <3>1
  <2> QED
    BY <2>3, <2>4
<1>4. ASSUME NEW i \in 0 .. n, NEW j \in 0 .. n, i <= j
      PROVE  VisibleBefore(fs, i) <= VisibleBefore(fs, j)
  <2>1. V(i) \subseteq V(j)
    BY <1>4
  <2>2. Cardinality(V(i)) <= Cardinality(V(j))
    BY <1>1, <2>1, FS_Subset
  <2> QED
    BY <1>1, <2>2
<1>5. VisibleBefore(fs, 0) = 0
  BY <1>1, <1>2, FS_EmptySet
<1>6. \A i \in 0 .. Len(fs) : VisibleBefore(fs, i) \in Nat
  BY <1>1
<1> QED
  BY <1>3, <1>4, <1>5, <1>6

\* Both gaps a local edit may use have the right text before them.
LEMMA LocalGaps ==
  ASSUME NEW fs \in Seq(FragmentType), NEW s \in Nat, s <= VisibleBefore(fs, Len(fs)),
         NEW g \in {RightGap(fs, s), LeftGap(fs, s)}
  PROVE  g \in 0 .. Len(fs) /\ VisibleBefore(fs, g) = s
<1> DEFINE n == Len(fs)
           VB(i) == VisibleBefore(fs, i)
           P == {i \in 0 .. n : VB(i) <= s}
           Q == {i \in 0 .. n : VB(i) = s}
           m == RightGap(fs, s)
<1>1. /\ \A i \in 0 .. n : VB(i) \in Nat
      /\ VB(0) = 0
      /\ \A i \in 1 .. n : VB(i) = VB(i - 1) + (IF fs[i].visible THEN 1 ELSE 0)
      /\ s <= VB(n) /\ n \in Nat
  BY VisibleOffsets
<1>2. m = Max(P)
  BY DEF RightGap
<1> HIDE DEF VB, n, m
<1>3. P \in SUBSET Nat /\ P # {} /\ \A i \in P : i <= n
  <2>1. 0 \in P
    BY <1>1
  <2> QED
    BY <1>1, <2>1
<1>4. m \in P /\ \A i \in P : i <= m
  <2> HIDE DEF P
  <2> QED
    BY <1>1, <1>2, <1>3, MaxOf
<1>5. m \in 0 .. n /\ VB(m) = s
  <2>1. m \in 0 .. n /\ VB(m) <= s
    BY <1>4
  <2>2. CASE m = n
    BY <1>1, <2>1, <2>2
  <2>3. CASE m < n
    <3>1. m + 1 \in 1 .. n /\ m + 1 \in 0 .. n /\ ~(m + 1 <= m) /\ (m + 1) - 1 = m
      BY <1>1, <2>1, <2>3
    <3>2. m + 1 \notin P
      BY <1>4, <3>1
    <3>3. ~(VB(m + 1) <= s)
      BY <3>1, <3>2
    <3>4. VB(m + 1) = VB(m) + (IF fs[m + 1].visible THEN 1 ELSE 0)
      BY <1>1, <3>1
    <3>5. VB(m) \in Nat
      BY <1>1, <2>1
    <3> QED
      BY <2>1, <3>3, <3>4, <3>5
  <2> QED
    BY <1>1, <2>1, <2>2, <2>3
<1>6. CASE g = m
  BY <1>5, <1>6 DEF VB, n
<1>7. CASE g = LeftGap(fs, s)
  <2>1. g = Min(Q)
    BY <1>7 DEF LeftGap, VB, n
  <2>2. Q \in SUBSET Nat /\ Q # {}
    <3>1. m \in Q
      BY <1>5
    <3> QED
      BY <3>1
  <2> HIDE DEF Q
  <2>3. g \in Q
    BY <2>1, <2>2, MinOf
  <2> QED
    BY <2>3 DEF Q, VB, n
<1> QED
  BY <1>6, <1>7 DEF m

\* The gaps of an edit are in the order of its ranges, and it deletes what is visible
\* between a gap and the end it sends.
LEMMA LocalRanges ==
  ASSUME NEW fs \in Seq(FragmentType), NEW e \in Edits(fs),
         NEW gaps \in [DOMAIN e -> 0 .. Len(fs)], NEW ends,
         \A k \in DOMAIN e : gaps[k] \in {RightGap(fs, e[k].start), LeftGap(fs, e[k].start)},
         \A k \in DOMAIN e : ends[k] =
           Max({gaps[k]} \cup {i \in LocalDels(fs, e) : VisibleBefore(fs, i) <= e[k].end})
  PROVE  /\ \A j, k \in DOMAIN e : j <= k => gaps[j] <= gaps[k]
         /\ \A i \in DOMAIN fs : i \in LocalDels(fs, e) <=>
              fs[i].visible /\ \E k \in DOMAIN e : gaps[k] <= i - 1 /\ i <= ends[k]
<1> DEFINE n == Len(fs)
           VB(i) == VisibleBefore(fs, i)
           C == LocalDels(fs, e)
<1>1. /\ \A i \in 0 .. n : VB(i) \in Nat
      /\ \A i \in 1 .. n : VB(i) = VB(i - 1) + (IF fs[i].visible THEN 1 ELSE 0)
      /\ \A i, j \in 0 .. n : i <= j => VB(i) <= VB(j)
      /\ n \in Nat /\ DOMAIN fs = 1 .. n
  BY VisibleOffsets
<1>2. /\ e \in Seq(RangeType)
      /\ \A k \in DOMAIN e : e[k].start \in Nat /\ e[k].end \in Nat /\ e[k].start <= VB(n)
                             /\ e[k].start <= e[k].end
      /\ \A j, k \in DOMAIN e : j < k => e[j].end < e[k].start
  <2>1. e \in Seq(RangeType)
    BY EditsAreRanges
  <2>2. PICK m \in 1 .. MaxRanges : e \in [1 .. m -> EditRange(fs)]
    BY DEF Edits
  <2>3. \A k \in DOMAIN e : e[k] \in EditRange(fs)
    BY <2>2
  <2>4. \A k \in DOMAIN e :
          e[k].start \in 0 .. VB(n) /\ e[k].end \in 0 .. VB(n) /\ e[k].start <= e[k].end
    BY <2>3 DEF EditRange
  <2>5. VB(n) \in Nat
    BY <1>1
  <2>6. \A j, k \in DOMAIN e : j < k => e[j].end < e[k].start
    BY DEF Edits
  <2> HIDE DEF VB, n
  <2> QED
    BY <2>1, <2>4, <2>5, <2>6
<1>3. ASSUME NEW k \in DOMAIN e PROVE gaps[k] \in 0 .. n /\ VB(gaps[k]) = e[k].start
  BY <1>2, LocalGaps
<1>4. \A i \in DOMAIN fs : i \in C <=>
        fs[i].visible /\ \E k \in DOMAIN e : VB(i - 1) \in e[k].start .. e[k].end - 1
  BY DEF LocalDels
<1>5. C \subseteq DOMAIN fs
  BY DEF LocalDels
<1>6. ASSUME NEW k \in DOMAIN e
      PROVE  /\ ends[k] = gaps[k] \/ (ends[k] \in C /\ VB(ends[k]) <= e[k].end)
             /\ ends[k] \in 0 .. n
             /\ \A i \in C : VB(i) <= e[k].end => i <= ends[k]
  <2> DEFINE Q == {gaps[k]} \cup {i \in C : VB(i) <= e[k].end}
  <2>1. ends[k] = Max(Q)
    OBVIOUS
  <2>2. Q \in SUBSET Nat /\ Q # {} /\ \A i \in Q : i <= n
    BY <1>1, <1>3, <1>5
  <2> HIDE DEF Q
  <2>3. ends[k] \in Q /\ \A i \in Q : i <= ends[k]
    BY <1>1, <2>1, <2>2, MaxOf
  <2>i. n \in Nat /\ ends[k] \in Nat /\ ends[k] <= n
    BY <1>1, <2>2, <2>3
  <2> HIDE DEF n
  <2>4. ends[k] \in 0 .. n
    BY <2>i
  <2> QED
    BY <2>3, <2>4 DEF Q
<1> HIDE DEF VB, C, n
<1>7. ASSUME NEW j \in DOMAIN e, NEW k \in DOMAIN e, j <= k PROVE gaps[j] <= gaps[k]
  <2>1. gaps[j] \in 0 .. n /\ gaps[k] \in 0 .. n
    BY <1>3
  <2>2. CASE j = k
    BY <1>1, <2>1, <2>2
  <2>3. CASE j < k
    <3>1. e[j].end < e[k].start /\ e[j].start <= e[j].end /\ e[j].start \in Nat /\ e[j].end \in Nat
          /\ e[k].start \in Nat
      BY <1>2, <2>3
    <3>2. ~(VB(gaps[k]) <= VB(gaps[j]))
      BY <1>3, <3>1
    <3>3. ~(gaps[k] <= gaps[j])
      BY <1>1, <2>1, <3>2
    <3> QED
      BY <1>1, <2>1, <3>3
  <2>4. j \in Nat /\ k \in Nat
    BY <1>2
  <2> QED
    BY <1>7, <2>2, <2>3, <2>4
<1>8. ASSUME NEW i \in DOMAIN fs
      PROVE  /\ i \in 1 .. n /\ i \in 0 .. n /\ i - 1 \in 0 .. n
             /\ VB(i) \in Nat /\ VB(i - 1) \in Nat
             /\ fs[i].visible => VB(i) = VB(i - 1) + 1
  <2>1. i \in 1 .. n /\ n \in Nat
    BY <1>1
  <2>2. i \in 0 .. n /\ i - 1 \in 0 .. n
    BY <2>1
  <2> QED
    BY <1>1, <2>1, <2>2
<1>9. ASSUME NEW i \in C
      PROVE  fs[i].visible /\ \E k \in DOMAIN e : gaps[k] <= i - 1 /\ i <= ends[k]
  <2>1. i \in DOMAIN fs /\ fs[i].visible
    BY <1>4, <1>5
  <2>2. PICK k \in DOMAIN e : VB(i - 1) \in e[k].start .. e[k].end - 1
    BY <1>4, <2>1
  <2>3. e[k].start \in Nat /\ e[k].end \in Nat
    BY <1>2
  <2>4. i \in 0 .. n /\ i - 1 \in 0 .. n /\ VB(i - 1) \in Nat /\ VB(i) = VB(i - 1) + 1
    BY <1>8, <2>1
  <2>5. VB(i) <= e[k].end /\ ~(VB(i) <= e[k].start)
    BY <2>2, <2>3, <2>4
  <2>6. i <= ends[k]
    BY <1>6, <2>5
  <2>7. ~(i <= gaps[k])
    BY <1>1, <1>3, <2>4, <2>5
  <2>8. gaps[k] \in 0 .. n /\ n \in Nat
    BY <1>1, <1>3
  <2>9. gaps[k] <= i - 1
    BY <2>4, <2>7, <2>8
  <2> QED
    BY <2>1, <2>6, <2>9
<1>10. ASSUME NEW i \in DOMAIN fs, fs[i].visible, NEW k \in DOMAIN e, gaps[k] <= i - 1, i <= ends[k]
       PROVE  i \in C
  <2>1. i \in 0 .. n /\ i - 1 \in 0 .. n /\ VB(i - 1) \in Nat /\ VB(i) = VB(i - 1) + 1
    BY <1>8, <1>10
  <2>2. gaps[k] \in 0 .. n /\ n \in Nat /\ ends[k] \in 0 .. n
    BY <1>1, <1>3, <1>6
  <2>3. ends[k] # gaps[k]
    BY <1>10, <2>1, <2>2
  <2>4. VB(ends[k]) <= e[k].end /\ VB(ends[k]) \in Nat
    BY <1>1, <1>6, <2>2, <2>3
  <2>5. VB(i) <= VB(ends[k]) /\ VB(gaps[k]) <= VB(i - 1)
    BY <1>1, <1>10, <2>1, <2>2
  <2>6. e[k].start \in Nat /\ e[k].end \in Nat /\ VB(gaps[k]) = e[k].start
    BY <1>2, <1>3
  <2>7. VB(i - 1) \in e[k].start .. e[k].end - 1
    BY <2>1, <2>4, <2>5, <2>6
  <2> QED
    BY <1>4, <1>10, <2>7
<1>11. \A i \in DOMAIN fs : i \in C <=>
         fs[i].visible /\ \E k \in DOMAIN e : gaps[k] <= i - 1 /\ i <= ends[k]
  BY <1>9, <1>10
<1> QED
  BY <1>7, <1>11 DEF C

-----------------------------------------------------------------------------
(* What the edits delete *)

\* The place of a character in the text of a version.
Rank(os, L, v, c) == Cardinality(Below(Text(os, v), L, c))

\* Whether a character was visible in a version, when G has the deletions: the pairs of an
\* edit and a character that it deleted.
VisibleIn(os, G, v, c) ==
  /\ ~is_undone(UndosOf(Seen(os, v)), c[1])
  /\ \A d \in EditStamps(Seen(os, v)) : <<d, c>> \in G => is_undone(UndosOf(Seen(os, v)), d)

\* The edit o deletes the character c: it is in a range of o, and was visible to o.
Takes(os, L, G, o, c) ==
  /\ c \in Text(os, o.version)
  /\ \E k \in DOMAIN o.ranges : /\ o.ranges[k].start <= Rank(os, L, o.version, c)
                                /\ Rank(os, L, o.version, c) + 1 <= o.ranges[k].end
  /\ VisibleIn(os, G, o.version, c)

Deleted(os, L, G) ==
  /\ \A z \in G : z[1] \in EditStamps(os)
  /\ \A o \in os : o.kind = "Edit" => \A c : <<o.timestamp, c>> \in G <=> Takes(os, L, G, o, c)

\* The fragments of a replica that has applied S are marked as G says.
Marked(S, G, fs) ==
  \A i \in DOMAIN fs, d \in EditStamps(S) : d \in fs[i].deletions <=> <<d, Id(fs[i])>> \in G

\* The full offset of a character in a version is its rank there.
LEMMA RankIs ==
  ASSUME NEW os, OpsOK(os), NEW L, Orders(L, Known(os)), NEW v, Cut(os, v), NEW fs, NEW undos,
         TextOK(Seen(os, v), fs, undos), Sorted(L, fs), NEW u, Cut(os, u), observed_all(v, u),
         NEW i \in DOMAIN fs, Id(fs[i]) \in Text(os, u)
  PROVE  /\ FullOffset(fs, u, i - 1) = Rank(os, L, u, Id(fs[i]))
         /\ FullOffset(fs, u, i) = Rank(os, L, u, Id(fs[i])) + 1
         /\ Rank(os, L, u, Id(fs[i])) \in Nat
<1> DEFINE K == Known(os)
           id(j) == Id(fs[j])
           J(m) == {j \in 1 .. m : observed(u, fs[j].timestamp)}
           B == Below(Text(os, u), L, id(i))
<1>1. /\ Text(os, u) \subseteq Text(os, v) /\ Text(os, v) \subseteq K
      /\ \A c \in K : c \in Text(os, u) <=> observed(u, c[1])
      /\ Text(os, v) = Known(Seen(os, v))
  <2>1. Text(os, u) \subseteq Text(os, v)
    BY TextMore
  <2>2. Text(os, v) \subseteq K
    BY InText
  <2>3. \A c \in K : c \in Text(os, u) <=> observed(u, c[1])
    BY InText
  <2> QED
    BY <2>1, <2>2, <2>3 DEF Text
<1>2. /\ DOMAIN fs = 1 .. Len(fs) /\ Len(fs) \in Nat
      /\ \A j \in DOMAIN fs : id(j) \in Text(os, v) /\ id(j) \in K
      /\ \A j, m \in DOMAIN fs : j < m <=> <<id(j), id(m)>> \in L
  BY <1>1, SortedBoth
<1>3. \A c \in Text(os, v) : \E j \in DOMAIN fs : id(j) = c
  BY <1>1 DEF TextOK
<1>4. \A j \in DOMAIN fs : observed(u, fs[j].timestamp) <=> id(j) \in Text(os, u)
  <2>1. \A j : id(j)[1] = fs[j].timestamp
    BY DEF Id
  <2> QED
    BY <1>1, <1>2, <2>1
<1>5. \A j : j \in J(i - 1) <=> j \in DOMAIN fs /\ j < i /\ id(j) \in Text(os, u)
  <2>1. \A j : j \in 1 .. i - 1 <=> j \in DOMAIN fs /\ j < i
    BY <1>2
  <2> QED
    BY <1>4, <2>1
<1>6. \A c : c \in B <=> c \in Text(os, u) /\ <<c, id(i)>> \in L
  BY DEF Below
<1>7. 1 .. i = (1 .. i - 1) \cup {i} /\ i \notin 1 .. i - 1
  BY <1>2
<1>8. J(i) = J(i - 1) \cup {i} /\ i \notin J(i - 1)
  BY <1>4, <1>7
<1> DEFINE P == J(i - 1)
<1> HIDE DEF J, B, id
<1>9. /\ P \in SUBSET DOMAIN fs /\ \A j \in P : Id(fs[j]) \in B
      /\ \A c \in B : \E j \in P : Id(fs[j]) = c
  <2>1. P \in SUBSET DOMAIN fs
    BY <1>5
  <2>2. ASSUME NEW j \in P PROVE id(j) \in B
    BY <1>2, <1>5, <1>6
  <2>3. ASSUME NEW c \in B PROVE \E j \in P : id(j) = c
    <3>1. PICK j \in DOMAIN fs : id(j) = c
      BY <1>1, <1>3, <1>6
    <3>2. j < i
      BY <1>2, <1>6, <3>1
    <3> QED
      BY <1>5, <1>6, <3>1, <3>2
  <2> QED
    BY <2>1, <2>2, <2>3 DEF id
<1>10. IsFiniteSet(P) /\ Cardinality(B) = Cardinality(P) /\ Cardinality(P) \in Nat
  <2> HIDE DEF P
  <2> QED
    BY <1>9, IdsCount
<1>11. Cardinality(J(i)) = Cardinality(P) + 1
  BY <1>8, <1>10, FS_AddElement
<1> QED
  BY <1>10, <1>11 DEF FullOffset, Rank, J, B, id

\* Undo counts of an earlier version are found among those of a later one.
LEMMA WasUndone ==
  ASSUME NEW os, OpsOK(os), NEW v, Cut(os, v), NEW u, Cut(os, u), observed_all(v, u), NEW e
  PROVE  was_undone(UndosOf(Seen(os, v)), e, u) = is_undone(UndosOf(Seen(os, u)), e)
<1> DEFINE U == UndosOf(Seen(os, v))
           W == UndosOf(Seen(os, u))
           A == {x \in U : x.edit = e /\ observed(u, x.undo)}
           B == {x \in W : x.edit = e}
<1>1. Seen(os, u) \subseteq Seen(os, v)
  BY TextMore
<1>2. ASSUME NEW x \in W PROVE x \in U /\ observed(u, x.undo)
  <2>1. PICK o \in Seen(os, u) : o.kind = "Undo" /\ x \in Entries(o)
    BY DEF UndosOf
  <2>2. x.undo = o.timestamp
    BY <2>1 DEF Entries
  <2> QED
    BY <1>1, <2>1, <2>2 DEF UndosOf, Seen
<1>3. ASSUME NEW x \in U, observed(u, x.undo) PROVE x \in W
  <2>1. PICK o \in Seen(os, v) : o.kind = "Undo" /\ x \in Entries(o)
    BY DEF UndosOf
  <2>2. x.undo = o.timestamp
    BY <2>1 DEF Entries
  <2>3. o \in Seen(os, u)
    BY <1>3, <2>1, <2>2 DEF Seen
  <2> QED
    BY <2>1, <2>3 DEF UndosOf
<1> HIDE DEF U, W
<1>4. A = B
  BY <1>2, <1>3
<1>5. was_undone(U, e, u) = (MaxCount(A) % 2 = 1)
  BY DEF was_undone
<1>6. is_undone(W, e) = (MaxCount(B) % 2 = 1)
  BY DEF is_undone, undo_count
<1> HIDE DEF A, B
<1> QED
  BY <1>4, <1>5, <1>6 DEF U, W

\* The edits of an earlier version.
LEMMA EditStampsOf ==
  ASSUME NEW os, OpsOK(os), NEW v, Cut(os, v), NEW u, Cut(os, u), observed_all(v, u)
  PROVE  \A d : d \in EditStamps(Seen(os, u)) <=> d \in EditStamps(Seen(os, v)) /\ observed(u, d)
<1>1. Seen(os, u) \subseteq Seen(os, v)
  BY TextMore
<1>2. ASSUME NEW d \in EditStamps(Seen(os, u))
      PROVE  d \in EditStamps(Seen(os, v)) /\ observed(u, d)
  <2>1. PICK o \in Seen(os, u) : o.kind = "Edit" /\ d = o.timestamp
    BY DEF EditStamps
  <2> QED
    BY <1>1, <2>1 DEF EditStamps, Seen
<1>3. ASSUME NEW d \in EditStamps(Seen(os, v)), observed(u, d)
      PROVE  d \in EditStamps(Seen(os, u))
  <2>1. PICK o \in Seen(os, v) : o.kind = "Edit" /\ d = o.timestamp
    BY DEF EditStamps
  <2>2. o \in Seen(os, u)
    BY <1>3, <2>1 DEF Seen
  <2> QED
    BY <2>1, <2>2 DEF EditStamps
<1> QED
  BY <1>2, <1>3

\* was_visible asks what the version of an edit saw.
LEMMA WasVisible ==
  ASSUME NEW os, OpsOK(os), NEW v, Cut(os, v), NEW u, Cut(os, u), observed_all(v, u),
         NEW fs, NEW undos, undos = UndosOf(Seen(os, v)), TextOK(Seen(os, v), fs, undos),
         NEW G, Marked(Seen(os, v), G, fs), NEW i \in DOMAIN fs
  PROVE  was_visible(fs[i], u, undos) <=>
           observed(u, fs[i].timestamp) /\ VisibleIn(os, G, u, Id(fs[i]))
<1> DEFINE S == Seen(os, v)
           R == Seen(os, u)
           t == fs[i].timestamp
           c == Id(fs[i])
<1>1. \A e : was_undone(undos, e, u) = is_undone(UndosOf(R), e)
  BY WasUndone
<1>2. \A d : d \in EditStamps(R) <=> d \in EditStamps(S) /\ observed(u, d)
  BY EditStampsOf
<1>3. fs[i].deletions \subseteq EditStamps(S) /\ c[1] = t
  BY DEF TextOK, Id
<1>4. \A d \in EditStamps(S) : d \in fs[i].deletions <=> <<d, c>> \in G
  BY DEF Marked
<1>5. \A d : d \in fs[i].deletions /\ observed(u, d) <=> d \in EditStamps(R) /\ <<d, c>> \in G
  BY <1>2, <1>3, <1>4
<1> HIDE DEF S, R, c
<1>6. was_visible(fs[i], u, undos) <=>
        /\ observed(u, t) /\ ~is_undone(UndosOf(R), t)
        /\ \A d : d \in fs[i].deletions /\ observed(u, d) => is_undone(UndosOf(R), d)
  BY <1>1 DEF was_visible
<1>7. VisibleIn(os, G, u, c) <=>
        /\ ~is_undone(UndosOf(R), t)
        /\ \A d : d \in EditStamps(R) /\ <<d, c>> \in G => is_undone(UndosOf(R), d)
  BY <1>3 DEF VisibleIn, R
<1> QED
  BY <1>5, <1>6, <1>7 DEF c

\* The visibility of a fragment is that of its character in the version of its replica.
LEMMA IsVisible ==
  ASSUME NEW os, NEW v, NEW fs, NEW undos, undos = UndosOf(Seen(os, v)),
         TextOK(Seen(os, v), fs, undos), NEW G, Marked(Seen(os, v), G, fs), NEW i \in DOMAIN fs
  PROVE  fs[i].visible <=> VisibleIn(os, G, v, Id(fs[i]))
<1> DEFINE S == Seen(os, v)
           c == Id(fs[i])
<1>1. fs[i].deletions \subseteq EditStamps(S) /\ c[1] = fs[i].timestamp
      /\ fs[i].visible = is_visible(fs[i], undos)
  BY DEF TextOK, Id
<1>2. \A d \in EditStamps(S) : d \in fs[i].deletions <=> <<d, c>> \in G
  BY DEF Marked
<1> HIDE DEF S, c
<1>3. is_visible(fs[i], undos) <=>
        /\ ~is_undone(undos, c[1])
        /\ \A d : d \in fs[i].deletions => is_undone(undos, d)
  BY <1>1 DEF is_visible
<1>4. VisibleIn(os, G, v, c) <=>
        /\ ~is_undone(undos, c[1])
        /\ \A d : d \in EditStamps(S) /\ <<d, c>> \in G => is_undone(undos, d)
  BY DEF VisibleIn, S
<1>5. fs[i].visible <=> VisibleIn(os, G, v, c)
  BY <1>1, <1>2, <1>3, <1>4
<1> QED
  BY <1>5 DEF c

\* An edit marks what it deletes.
LEMMA SplicedMarked ==
  ASSUME NEW S, NEW fs, NEW undos, TextOK(S, fs, undos), NEW G, Marked(S, G, fs),
         NEW o, o.kind = "Edit", o.timestamp \in Stamps, o.timestamp \notin EditStamps(S),
         NEW ranges \in Seq(RangeType), NEW gaps \in [DOMAIN ranges -> 0 .. Len(fs)], NEW dels,
         \A i \in DOMAIN fs : i \in dels <=> <<o.timestamp, Id(fs[i])>> \in G,
         \A x \in NewText(ranges), d \in EditStamps(S) \cup {o.timestamp} :
           <<d, <<o.timestamp, insertion_offset(ranges, x[1], x[2])>>>> \notin G
  PROVE  Marked(S \cup {o}, G, Spliced(fs, o.timestamp, ranges, gaps, dels))
<1> DEFINE t == o.timestamp
           res == Spliced(fs, t, ranges, gaps, dels)
<1>0. fs \in Seq(FragmentType)
  BY DEF TextOK
<1>1. res \in Seq(FragmentType) /\ \E place : IsPlacing(place, res, fs, t, ranges, gaps, dels)
  BY <1>0, SplicedShape
<1>2. EditStamps(S \cup {o}) = EditStamps(S) \cup {t}
  BY OneMore
<1> HIDE DEF res
<1>3. PICK place : IsPlacing(place, res, fs, t, ranges, gaps, dels)
  BY <1>1
<1>4. Items(place, res, fs, t, ranges, gaps, dels)
  BY <1>0, <1>1, <1>3, SplicedItems
<1>5. ASSUME NEW n \in DOMAIN res, NEW i \in DOMAIN fs, place[n] = <<i, 0, 0>>,
             NEW d \in EditStamps(S) \cup {t}
      PROVE  d \in res[n].deletions <=> <<d, Id(res[n])>> \in G
  <2>1. res[n] = IF i \in dels THEN delete(fs[i], t) ELSE fs[i]
    BY <1>4, <1>5 DEF Items
  <2>2. fs[i] \in FragmentType
    BY <1>0
  <2>3. /\ delete(fs[i], t).timestamp = fs[i].timestamp /\ delete(fs[i], t).offset = fs[i].offset
        /\ delete(fs[i], t).deletions = fs[i].deletions \cup {t}
    BY <2>2 DEF delete, FragmentType
  <2>4. Id(res[n]) = Id(fs[i])
    BY <2>1, <2>3 DEF Id
  <2>5. d \in res[n].deletions <=> d \in fs[i].deletions \/ (d = t /\ i \in dels)
    BY <2>1, <2>3
  <2>6. t \notin fs[i].deletions
    BY DEF TextOK
  <2>7. CASE d = t
    BY <2>4, <2>5, <2>6, <2>7
  <2>8. CASE d # t
    <3>1. d \in EditStamps(S)
      BY <2>8
    <3>2. d \in fs[i].deletions <=> <<d, Id(fs[i])>> \in G
      BY <3>1 DEF Marked
    <3> QED
      BY <2>4, <2>5, <2>8, <3>2
  <2> QED
    BY <2>7, <2>8
<1>6. ASSUME NEW n \in DOMAIN res, NEW x \in NewText(ranges),
             place[n] = <<gaps[x[1]], x[1], x[2]>>, NEW d \in EditStamps(S) \cup {t}
      PROVE  d \in res[n].deletions <=> <<d, Id(res[n])>> \in G
  <2>1. res[n] = Fragment(t, insertion_offset(ranges, x[1], x[2]))
    BY <1>4, <1>6 DEF Items
  <2>2. res[n].deletions = {} /\ Id(res[n]) = <<t, insertion_offset(ranges, x[1], x[2])>>
    BY <2>1 DEF Id, Fragment
  <2> QED
    BY <2>2
<1>7. \A k \in DOMAIN res : \/ \E i \in DOMAIN fs : place[k] = <<i, 0, 0>>
                            \/ \E x \in NewText(ranges) : place[k] = <<gaps[x[1]], x[1], x[2]>>
  BY <1>4 DEF Items
<1>8. \A n \in DOMAIN res, d \in EditStamps(S) \cup {t} :
        d \in res[n].deletions <=> <<d, Id(res[n])>> \in G
  BY <1>5, <1>6, <1>7
<1> QED
  BY <1>2, <1>8 DEF Marked, res

\* The fragments that a remote edit deletes at a replica.
RemoteDels(fs, undos, o) ==
  {i \in DOMAIN fs : \E k \in DOMAIN o.ranges :
     /\ FullOffset(fs, o.version, i - 1) >= o.ranges[k].start
     /\ FullOffset(fs, o.version, i) <= o.ranges[k].end
     /\ observed(o.version, fs[i].timestamp)
     /\ was_visible(fs[i], o.version, undos)}

\* What a remote edit deletes at a replica is what it deletes in the order.
LEMMA RemoteDelsAre ==
  ASSUME NEW os, OpsOK(os), NEW L, Orders(L, Known(os)), NEW G, Deleted(os, L, G),
         NEW v, Cut(os, v), NEW fs, NEW undos, undos = UndosOf(Seen(os, v)),
         TextOK(Seen(os, v), fs, undos), Sorted(L, fs), Marked(Seen(os, v), G, fs),
         NEW o \in os, o.kind = "Edit", observed_all(v, o.version), NEW i \in DOMAIN fs
  PROVE  i \in RemoteDels(fs, undos, o) <=> <<o.timestamp, Id(fs[i])>> \in G
<1> DEFINE u == o.version
           c == Id(fs[i])
           rank == Rank(os, L, u, c)
<1>1. Cut(os, u) /\ o.ranges \in Seq(RangeType)
  BY DEF OpsOK, OpType
<1>2. c \in Text(os, u) <=> observed(u, fs[i].timestamp)
  <2>1. c \in Text(os, v) /\ c[1] = fs[i].timestamp
    BY DEF TextOK, Text, Id
  <2>2. c \in Known(os)
    BY <2>1, InText
  <2> QED
    BY <1>1, <2>1, <2>2, InText
<1>3. c \in Text(os, u) =>
        FullOffset(fs, u, i - 1) = rank /\ FullOffset(fs, u, i) = rank + 1 /\ rank \in Nat
  BY <1>1, RankIs
<1>4. was_visible(fs[i], u, undos) <=> observed(u, fs[i].timestamp) /\ VisibleIn(os, G, u, c)
  BY <1>1, WasVisible
<1>5. <<o.timestamp, c>> \in G <=>
        /\ c \in Text(os, u)
        /\ \E k \in DOMAIN o.ranges : o.ranges[k].start <= rank /\ rank + 1 <= o.ranges[k].end
        /\ VisibleIn(os, G, u, c)
  BY DEF Deleted, Takes
<1>6. i \in RemoteDels(fs, undos, o) <=>
        \E k \in DOMAIN o.ranges :
          /\ FullOffset(fs, u, i - 1) >= o.ranges[k].start
          /\ FullOffset(fs, u, i) <= o.ranges[k].end
          /\ observed(u, fs[i].timestamp)
          /\ was_visible(fs[i], u, undos)
  BY DEF RemoteDels
<1>7. \A k \in DOMAIN o.ranges : o.ranges[k].start \in Nat /\ o.ranges[k].end \in Nat
  <2>1. \A rs \in Seq(RangeType) : \A k \in DOMAIN rs : rs[k] \in RangeType
    OBVIOUS
  <2>2. \A k \in DOMAIN o.ranges : o.ranges[k] \in RangeType
    BY <1>1, <2>1
  <2> QED
    BY <2>2 DEF RangeType
<1> HIDE DEF rank, c, u
<1>8. CASE c \in Text(os, u)
  <2>1. FullOffset(fs, u, i - 1) = rank /\ FullOffset(fs, u, i) = rank + 1 /\ rank \in Nat
    BY <1>3, <1>8
  <2>2. \A k \in DOMAIN o.ranges :
          /\ FullOffset(fs, u, i - 1) >= o.ranges[k].start <=> o.ranges[k].start <= rank
          /\ FullOffset(fs, u, i) <= o.ranges[k].end <=> rank + 1 <= o.ranges[k].end
    BY <1>7, <2>1
  <2> QED
    BY <1>2, <1>4, <1>5, <1>6, <1>8, <2>2 DEF c
<1>9. CASE c \notin Text(os, u)
  BY <1>2, <1>5, <1>6, <1>9 DEF c
<1> QED
  BY <1>8, <1>9

\* No edit of a version deletes text that the version does not know, and none its own.
LEMMA NotTaken ==
  ASSUME NEW os, OpsOK(os), NEW L, NEW G, Deleted(os, L, G), NEW v, Cut(os, v),
         NEW t \in Stamps, ~observed(v, t), NEW c, c[1] = t,
         NEW p \in os, p.kind = "Edit", observed(v, p.timestamp) \/ p.timestamp = t
  PROVE  <<p.timestamp, c>> \notin G
<1> SUFFICES ASSUME <<p.timestamp, c>> \in G PROVE FALSE
  OBVIOUS
<1>1. c \in Text(os, p.version)
  BY DEF Deleted, Takes
<1>2. Cut(os, p.version) /\ OpType(p) /\ p.version \in Versions /\ v \in Versions
  BY DEF OpsOK, Cut
<1>3. observed(p.version, t) /\ Later(p.timestamp, t)
  BY <1>1, <1>2, InText, NewIsLater
<1>4. CASE observed(v, p.timestamp)
  <2>1. observed_all(v, p.version)
    BY <1>4 DEF Cut
  <2> QED
    BY <1>2, <1>3, <2>1, ObserveMore
<1>5. CASE p.timestamp = t
  BY <1>3, <1>5, LaterOrders
<1> QED
  BY <1>4, <1>5

\* An undo moves no fragment and changes none of its deletions.
LEMMA UndoMoves ==
  ASSUME NEW fs \in Seq(FragmentType), NEW undos, NEW o
  PROVE  LET res == apply_undo(fs, undos, o)
         IN  /\ DOMAIN res = DOMAIN fs
             /\ \A i \in DOMAIN fs : Id(res[i]) = Id(fs[i]) /\ res[i].deletions = fs[i].deletions
<1> DEFINE res == apply_undo(fs, undos, o)
           edits == {c.edit : c \in o.counts}
           Hit(f) == f.timestamp \in edits \/ f.deletions \cap edits # {}
<1>1. res = [i \in DOMAIN fs |->
               IF Hit(fs[i]) THEN [fs[i] EXCEPT !.visible = is_visible(fs[i], undos)] ELSE fs[i]]
  BY DEF apply_undo
<1> HIDE DEF res, Hit
<1>2. ASSUME NEW i \in DOMAIN fs
      PROVE  Id(res[i]) = Id(fs[i]) /\ res[i].deletions = fs[i].deletions
  <2>1. fs[i] \in FragmentType
    OBVIOUS
  <2>2. \A vis : LET f == [fs[i] EXCEPT !.visible = vis]
                 IN f.timestamp = fs[i].timestamp /\ f.offset = fs[i].offset
                    /\ f.deletions = fs[i].deletions
    BY <2>1 DEF FragmentType
  <2>3. res[i] = fs[i] \/ res[i] = [fs[i] EXCEPT !.visible = is_visible(fs[i], undos)]
    BY <1>1
  <2> QED
    BY <2>2, <2>3 DEF Id
<1> QED
  BY <1>1, <1>2 DEF res

\* A buffer agrees with the order L and the deletions G.
BufPlaced(os, L, G, b) ==
  /\ Sorted(L, b.fragments)
  /\ Marked(Seen(os, b.version), G, b.fragments)

\* So does the text after an undo.
LEMMA UndoPlaced ==
  ASSUME NEW S, NEW L, NEW G, NEW fs \in Seq(FragmentType), NEW undos, NEW o, o.kind = "Undo",
         Sorted(L, fs), Marked(S, G, fs)
  PROVE  /\ Sorted(L, apply_undo(fs, undos, o))
         /\ Marked(S \cup {o}, G, apply_undo(fs, undos, o))
<1> DEFINE res == apply_undo(fs, undos, o)
<1>1. /\ DOMAIN res = DOMAIN fs
      /\ \A i \in DOMAIN fs : Id(res[i]) = Id(fs[i]) /\ res[i].deletions = fs[i].deletions
  BY UndoMoves
<1>2. EditStamps(S \cup {o}) = EditStamps(S)
  BY OneMore
<1> HIDE DEF res
<1>3. Sorted(L, res)
  BY <1>1 DEF Sorted
<1>4. Marked(S \cup {o}, G, res)
  BY <1>1, <1>2 DEF Marked
<1> QED
  BY <1>3, <1>4 DEF res

\* So does the text after a remote edit.
LEMMA RemotePlacing ==
  ASSUME NEW os, OpsOK(os), NEW L, Settled(os, L), NEW G, Deleted(os, L, G),
         NEW v, Cut(os, v), NEW fs, NEW undos, undos = UndosOf(Seen(os, v)),
         TextOK(Seen(os, v), fs, undos), Sorted(L, fs), Marked(Seen(os, v), G, fs),
         NEW o \in os, o.kind = "Edit", observed_all(v, o.version), ~observed(v, o.timestamp)
  PROVE  /\ Sorted(L, apply_remote_edit(fs, undos, o))
         /\ Marked(Seen(os, v) \cup {o}, G, apply_remote_edit(fs, undos, o))
<1> DEFINE S == Seen(os, v)
           t == o.timestamp
           ranges == o.ranges
           gaps == [k \in DOMAIN ranges |-> RemoteGap(fs, o.version, t, ranges[k].start)]
           dels == RemoteDels(fs, undos, o)
           K == Known(os)
<1>1. /\ ranges \in Seq(RangeType) /\ t \in Stamps /\ t[1] > 1 /\ Orders(L, K)
      /\ fs \in Seq(FragmentType)
  BY DEF OpsOK, OpType, Settled, TextOK
<1>2. apply_remote_edit(fs, undos, o) = Spliced(fs, t, ranges, gaps, dels)
  BY Zenon DEF apply_remote_edit, RemoteDels
<1>3. gaps \in [DOMAIN ranges -> 0 .. Len(fs)]
  BY <1>1, RemoteGapIs
<1>4. \A x \in NewText(ranges) : x[1] \in DOMAIN ranges
  BY DEF NewText
<1>5. \A x : CharOf(o, x) = <<t, insertion_offset(ranges, x[1], x[2])>>
  BY DEF CharOf
<1>6. /\ Chars(o) = {CharOf(o, x) : x \in NewText(ranges)}
      /\ \A x, y \in NewText(ranges) :
              CharOf(o, x)[2] < CharOf(o, y)[2] <=> x[1] < y[1] \/ (x[1] = y[1] /\ x[2] < y[2])
  BY <1>1, CharsOf
<1>7. Chars(o) \subseteq K
  BY DEF Known
<1>8. \A i \in DOMAIN fs, x \in NewText(ranges) :
        i <= gaps[x[1]] <=> <<Id(fs[i]), CharOf(o, x)>> \in L
  <2> SUFFICES ASSUME NEW x \in NewText(ranges)
               PROVE  \A i \in DOMAIN fs : i <= gaps[x[1]] <=> <<Id(fs[i]), CharOf(o, x)>> \in L
    OBVIOUS
  <2>1. gaps[x[1]] = RemoteGap(fs, o.version, o.timestamp, o.ranges[x[1]].start)
    BY <1>4
  <2> HIDE DEF gaps
  <2> QED
    BY <2>1, RemotePlaced
<1>9. \A x, y \in NewText(ranges) :
        x[1] < y[1] \/ (x[1] = y[1] /\ x[2] < y[2]) => <<CharOf(o, x), CharOf(o, y)>> \in L
  <2>1. \A c, d \in Chars(o) : c[2] < d[2] => <<c, d>> \in L
    BY DEF Settled
  <2> QED
    BY <1>6, <2>1, Zenon
<1> HIDE DEF gaps, dels
<1>10. NewPlaced(L, fs, t, ranges, gaps)
  <2>1. \A i \in DOMAIN fs, x \in NewText(ranges) :
          i <= gaps[x[1]] <=> <<Id(fs[i]), <<t, insertion_offset(ranges, x[1], x[2])>>>> \in L
    BY <1>5, <1>8
  <2>2. \A x, y \in NewText(ranges) :
          x[1] < y[1] \/ (x[1] = y[1] /\ x[2] < y[2]) =>
            <<<<t, insertion_offset(ranges, x[1], x[2])>>,
              <<t, insertion_offset(ranges, y[1], y[2])>>>> \in L
    BY <1>5, <1>9
  <2> QED
    BY <2>1, <2>2 DEF NewPlaced
<1>11. \A i \in DOMAIN fs : Id(fs[i]) \in K /\ fs[i].timestamp # t
  <2> SUFFICES ASSUME NEW i \in DOMAIN fs PROVE Id(fs[i]) \in K /\ fs[i].timestamp # t
    OBVIOUS
  <2>1. Id(fs[i]) \in Known(S) /\ Id(fs[i])[1] = fs[i].timestamp
    BY DEF TextOK, Id
  <2>2. Known(S) \subseteq K
    BY InText DEF Text
  <2>3. \A c \in Known(S) : c[1] # t
    BY <1>1, Fresh
  <2> QED
    BY <2>1, <2>2, <2>3
<1>12. \A x \in NewText(ranges) : <<t, insertion_offset(ranges, x[1], x[2])>> \in K
  BY <1>5, <1>6, <1>7
<1>13. Sorted(L, Spliced(fs, t, ranges, gaps, dels))
  <2> HIDE DEF K, t, ranges
  <2> QED
    BY <1>1, <1>3, <1>10, <1>11, <1>12, SplicedSorted
<1>14. \A i \in DOMAIN fs : i \in dels <=> <<t, Id(fs[i])>> \in G
  BY <1>1, RemoteDelsAre DEF dels
<1>15. t \notin EditStamps(S)
  BY DEF EditStamps, Seen
<1>16. \A x \in NewText(ranges), d \in EditStamps(S) \cup {t} :
         <<d, <<t, insertion_offset(ranges, x[1], x[2])>>>> \notin G
  <2> SUFFICES ASSUME NEW x \in NewText(ranges), NEW d \in EditStamps(S) \cup {t}
               PROVE  <<d, <<t, insertion_offset(ranges, x[1], x[2])>>>> \notin G
    OBVIOUS
  <2> DEFINE c == <<t, insertion_offset(ranges, x[1], x[2])>>
  <2>1. c[1] = t
    OBVIOUS
  <2>2. PICK p \in os : p.kind = "Edit" /\ d = p.timestamp
                        /\ (observed(v, p.timestamp) \/ p.timestamp = t)
    BY DEF EditStamps, Seen
  <2> HIDE DEF c
  <2>3. <<p.timestamp, c>> \notin G
    BY <1>1, <2>1, <2>2, NotTaken
  <2> QED
    BY <2>2, <2>3 DEF c
<1>17. Marked(S \cup {o}, G, Spliced(fs, o.timestamp, ranges, gaps, dels))
  <2> HIDE DEF S, ranges
  <2>1. TextOK(S, fs, undos) /\ Marked(S, G, fs)
    BY DEF S
  <2> QED
    BY <1>1, <1>3, <1>14, <1>15, <1>16, <2>1, SplicedMarked
<1> QED
  BY <1>2, <1>13, <1>17

\* Applying an operation.
LEMMA AppliedPlaced ==
  ASSUME NEW os, OpsOK(os), NEW L, Settled(os, L), NEW G, Deleted(os, L, G),
         NEW b, BufOK(os, b), BufPlaced(os, L, G, b), NEW o \in os,
         observed_all(b.version, o.version), ~observed(b.version, o.timestamp)
  PROVE  BufPlaced(os, L, G, Applied(b, o))
<1> DEFINE c == Applied(b, o)
           undos == IF o.kind = "Undo" THEN UndoMapInsert(b.undos, o) ELSE b.undos
           fs == IF o.kind = "Undo" THEN apply_undo(b.fragments, undos, o)
                                    ELSE apply_remote_edit(b.fragments, undos, o)
           edits == IF o.kind = "Edit" THEN b.edits \ {o.timestamp} ELSE b.edits
           v == observe(b.version, o.timestamp)
           k == Max({b.clock, o.timestamp[1]}) + 1
           S == Seen(os, b.version)
<1>1. /\ b \in BufType(os) /\ Cut(os, b.version) /\ b.undos = UndosOf(S)
      /\ TextOK(S, b.fragments, b.undos) /\ OpType(o)
  BY DEF BufOK, OpsOK
<1>2. c = [b EXCEPT !.fragments = fs, !.undos = undos, !.version = v, !.clock = k,
                    !.edits = edits]
  BY Zenon DEF Applied
<1>3. Seen(os, v) = S \cup {o}
  BY <1>1, SeenMore
<1>4. Sorted(L, b.fragments) /\ Marked(S, G, b.fragments) /\ b.fragments \in Seq(FragmentType)
  BY <1>1 DEF BufPlaced, TextOK
<1>5. Sorted(L, fs) /\ Marked(S \cup {o}, G, fs)
  <2>1. CASE o.kind = "Edit"
    <3>1. fs = apply_remote_edit(b.fragments, b.undos, o)
      BY <2>1
    <3> HIDE DEF fs
    <3>2. /\ Sorted(L, apply_remote_edit(b.fragments, b.undos, o))
          /\ Marked(S \cup {o}, G, apply_remote_edit(b.fragments, b.undos, o))
      BY <1>1, <1>4, <2>1, RemotePlacing
    <3> QED
      BY <3>1, <3>2
  <2>2. CASE o.kind = "Undo"
    <3>1. fs = apply_undo(b.fragments, undos, o)
      BY <2>2
    <3> HIDE DEF fs, S, undos
    <3> QED
      BY <1>4, <2>2, <3>1, UndoPlaced
  <2> QED
    BY <1>1, <2>1, <2>2 DEF OpType
<1> HIDE DEF c, fs, undos, edits, k, v
<1>6. c.fragments = fs /\ c.version = v
  BY <1>1, <1>2 DEF BufType
<1> QED
  BY <1>3, <1>5, <1>6 DEF BufPlaced, c

\* An operation that arrives, applied, known already or deferred.
LEMMA StepPlaced ==
  ASSUME NEW os, OpsOK(os), NEW L, Settled(os, L), NEW G, Deleted(os, L, G),
         NEW b, BufOK(os, b), BufPlaced(os, L, G, b), NEW o \in os
  PROVE  BufPlaced(os, L, G, apply_or_defer(b, o))
<1> DEFINE c == apply_or_defer(b, o)
<1>1. b \in BufType(os)
  BY DEF BufOK
<1>2. \A a \in BufType(os) : \A W :
        /\ [a EXCEPT !.versions = W].fragments = a.fragments
        /\ [a EXCEPT !.versions = W].version = a.version
  BY DEF BufType
<1>3. CASE can_apply_op(b, o) /\ ~observed(b.version, o.timestamp)
  <2> DEFINE a == Applied(b, o)
             W == {w \in a.versions : ~observed_all(a.version, w)}
  <2>1. c = [a EXCEPT !.versions = W]
    BY <1>3, Zenon DEF apply_or_defer, apply_op
  <2>2. BufOK(os, a) /\ BufPlaced(os, L, G, a)
    BY <1>3, AppliedOK, AppliedPlaced DEF can_apply_op
  <2> HIDE DEF a
  <2>3. a \in BufType(os)
    BY <2>2 DEF BufOK
  <2> HIDE DEF W, c
  <2>4. c.fragments = a.fragments /\ c.version = a.version
    BY <1>2, <2>1, <2>3
  <2> QED
    BY <2>2, <2>4 DEF BufPlaced, c
<1>4. CASE can_apply_op(b, o) /\ observed(b.version, o.timestamp)
  <2> DEFINE W == {w \in b.versions : ~observed_all(b.version, w)}
  <2>1. c = [b EXCEPT !.versions = W]
    BY <1>4, Zenon DEF apply_or_defer, apply_op
  <2> HIDE DEF W, c
  <2>2. c.fragments = b.fragments /\ c.version = b.version
    BY <1>1, <1>2, <2>1
  <2> QED
    BY <2>2 DEF BufPlaced, c
<1>5. CASE ~can_apply_op(b, o)
  <2> DEFINE A == b.late \cup {o.timestamp[2]}
             D == b.deferred \cup {o}
  <2>1. c = [b EXCEPT !.late = A, !.deferred = D]
    BY <1>5, Zenon DEF apply_or_defer
  <2> HIDE DEF A, D, c
  <2>2. c.fragments = b.fragments /\ c.version = b.version
    BY <1>1, <2>1 DEF BufType
  <2> QED
    BY <2>2 DEF BufPlaced, c
<1> QED
  BY <1>3, <1>4, <1>5

\* Operations that arrive one after the other.
LEMMA RunPlaced ==
  ASSUME NEW os, OpsOK(os), NEW L, Settled(os, L), NEW G, Deleted(os, L, G),
         NEW b, BufOK(os, b), BufPlaced(os, L, G, b), NEW n \in Nat, NEW s \in [1 .. n -> os],
         NEW run, IsRun(run, b, s, n)
  PROVE  BufPlaced(os, L, G, run[n])
<1> DEFINE T == {i \in 0 .. n : BufPlaced(os, L, G, run[i])}
<1>1. 0 \in T
  BY DEF IsRun
<1>2. ASSUME NEW i \in 0 .. n, i \in T, i < n PROVE i + 1 \in T
  <2> DEFINE a == run[i]
             o == s[i + 1]
             c == run[i + 1]
  <2>1. i + 1 \in 1 .. n /\ i + 1 \in 0 .. n /\ (i + 1) - 1 = i
    BY <1>2
  <2>2. c = apply_or_defer(a, o) /\ o \in os
    BY <2>1 DEF IsRun
  <2>3. BufOK(os, a)
    BY RunOK
  <2>4. BufPlaced(os, L, G, a)
    BY <1>2
  <2> HIDE DEF a, o, c
  <2>5. BufPlaced(os, L, G, c)
    BY <2>2, <2>3, <2>4, StepPlaced
  <2> QED
    BY <2>1, <2>5 DEF c
<1> HIDE DEF T
<1>3. \A i \in 0 .. n : i \in T
  BY <1>1, <1>2, UpTo
<1> QED
  BY <1>3 DEF T

\* A batch of operations arrives.
LEMMA ApplyOpsPlaced ==
  ASSUME NEW os, OpsOK(os), NEW L, Settled(os, L), NEW G, Deleted(os, L, G),
         NEW b, BufOK(os, b), BufPlaced(os, L, G, b), NEW n \in Nat, NEW batch \in [1 .. n -> os],
         NEW c, c = apply_ops(b, batch)
  PROVE  BufPlaced(os, L, G, c)
<1> DEFINE a == FoldLeft(apply_or_defer, b, batch)
           start == [a EXCEPT !.late = {}, !.deferred = {}]
           D == a.deferred
           s == OperationQueue(D)
<1>0. DOMAIN batch = 1 .. n /\ n \in 0 .. n
  OBVIOUS
<1>1. c = FoldLeft(apply_or_defer, start, s)
  BY DEF apply_ops, flush_deferred_ops
<1>2. PICK run : IsRun(run, b, batch, n) /\ a = run[n]
  BY <1>0, FoldRuns
<1> HIDE DEF a
<1>3. BufOK(os, a) /\ BufPlaced(os, L, G, a)
  BY <1>0, <1>2, RunOK, RunPlaced
<1>4. a \in BufType(os)
  BY <1>3 DEF BufOK
<1>5. D \in SUBSET os
  BY <1>4 DEF BufType
<1>6. /\ start \in BufType(os)
      /\ start.fragments = a.fragments /\ start.version = a.version /\ start.clock = a.clock
      /\ start.undos = a.undos /\ start.deferred = {} /\ start.late = {}
      /\ start.edits = a.edits
  BY <1>4 DEF BufType
<1>7. {} = {d.timestamp[2] : d \in {}}
  OBVIOUS
<1> HIDE DEF start, s
<1>8. BufOK(os, start) /\ BufPlaced(os, L, G, start)
  <2>1. BufOK(os, start)
    BY <1>3, <1>6, <1>7, Zenon DEF BufOK
  <2>2. BufPlaced(os, L, G, start)
    BY <1>3, <1>6 DEF BufPlaced
  <2> QED
    BY <2>1, <2>2
<1>9. PICK m \in Nat : s \in [1 .. m -> D] /\ DOMAIN s = 1 .. m
  BY <1>5, QueueOrder DEF s
<1>10. PICK back : IsRun(back, start, s, m) /\ c = back[m]
  BY <1>1, <1>9, FoldRuns
<1> HIDE DEF D
<1>11. s \in [1 .. m -> os]
  BY <1>5, <1>9
<1>12. BufPlaced(os, L, G, back[m])
  BY <1>8, <1>10, <1>11, RunPlaced
<1> QED
  BY <1>10, <1>12

-----------------------------------------------------------------------------
(* A new operation *)

\* The deletions H go on from G: they are the same for the edits made before.
Extends(os, G, H) == \A d \in EditStamps(os) : \A c : <<d, c>> \in H <=> <<d, c>> \in G

\* A new operation changes nothing about the versions from before it.
LEMMA OldView ==
  ASSUME NEW os, OpsOK(os), NEW n, NewOp(os, n), NEW L, NEW M, Continues(os, L, M),
         NEW G, NEW H, Extends(os, G, H), NEW v, Cut(os, v)
  PROVE  /\ Text(os \cup {n}, v) = Text(os, v) /\ Seen(os \cup {n}, v) = Seen(os, v)
         /\ \A c \in Text(os, v) : Rank(os \cup {n}, M, v, c) = Rank(os, L, v, c)
         /\ \A c : VisibleIn(os \cup {n}, H, v, c) <=> VisibleIn(os, G, v, c)
<1> DEFINE on == os \cup {n}
<1>1. Seen(on, v) = Seen(os, v)
  BY NewIsFresh
<1>2. Text(on, v) = Text(os, v)
  BY <1>1 DEF Text
<1>3. Text(os, v) \subseteq Known(os) /\ EditStamps(Seen(os, v)) \subseteq EditStamps(os)
  BY InText DEF EditStamps, Seen
<1> HIDE DEF on
<1>4. ASSUME NEW c \in Text(os, v) PROVE Rank(on, M, v, c) = Rank(os, L, v, c)
  <2>1. Below(Text(os, v), M, c) = Below(Text(os, v), L, c)
    BY <1>3 DEF Below, Continues
  <2> QED
    BY <1>2, <2>1 DEF Rank
<1>5. ASSUME NEW c PROVE VisibleIn(on, H, v, c) <=> VisibleIn(os, G, v, c)
  <2>1. \A d \in EditStamps(Seen(os, v)) : <<d, c>> \in H <=> <<d, c>> \in G
    BY <1>3 DEF Extends
  <2> QED
    BY <1>1, <2>1 DEF VisibleIn
<1> QED
  BY <1>1, <1>2, <1>4, <1>5 DEF on

\* The edits from before it delete what they did.
LEMMA OldTakes ==
  ASSUME NEW os, OpsOK(os), NEW n, NewOp(os, n), NEW L, NEW M, Continues(os, L, M),
         NEW G, NEW H, Extends(os, G, H), NEW o \in os, NEW c
  PROVE  Takes(os \cup {n}, M, H, o, c) <=> Takes(os, L, G, o, c)
<1> DEFINE on == os \cup {n}
           v == o.version
<1>1. Cut(os, v)
  BY DEF OpsOK
<1>2. /\ Text(on, v) = Text(os, v)
      /\ \A x \in Text(os, v) : Rank(on, M, v, x) = Rank(os, L, v, x)
      /\ \A x : VisibleIn(on, H, v, x) <=> VisibleIn(os, G, v, x)
  BY <1>1, OldView
<1> HIDE DEF on
<1>3. Takes(on, M, H, o, c) <=> Takes(os, L, G, o, c)
  <2>1. CASE c \in Text(os, v)
    <3>1. /\ Rank(on, M, v, c) = Rank(os, L, v, c)
          /\ VisibleIn(on, H, v, c) <=> VisibleIn(os, G, v, c)
      BY <1>2, <2>1
    <3> QED
      BY <1>2, <2>1, <3>1 DEF Takes
  <2>2. CASE c \notin Text(os, v)
    BY <1>2, <2>2 DEF Takes
  <2> QED
    BY <2>1, <2>2
<1> QED
  BY <1>3 DEF on

\* Nor does it change anything about the buffers that do not have it.
LEMMA BufKept ==
  ASSUME NEW os, OpsOK(os), NEW n, NewOp(os, n), NEW L, NEW M, Continues(os, L, M),
         NEW G, NEW H, Extends(os, G, H), NEW b, BufOK(os, b), BufPlaced(os, L, G, b)
  PROVE  BufPlaced(os \cup {n}, M, H, b)
<1>1. Cut(os, b.version) /\ TextOK(Seen(os, b.version), b.fragments, b.undos)
  BY DEF BufOK
<1>2. \A i \in DOMAIN b.fragments : Id(b.fragments[i]) \in Known(os)
  BY <1>1, InText DEF Text, TextOK
<1>3. Sorted(M, b.fragments)
  BY <1>2 DEF BufPlaced, Sorted, Continues
<1>4. Seen(os \cup {n}, b.version) = Seen(os, b.version)
  BY <1>1, NewIsFresh
<1>5. EditStamps(Seen(os, b.version)) \subseteq EditStamps(os)
  BY DEF EditStamps, Seen
<1>6. Marked(Seen(os, b.version), H, b.fragments)
  BY <1>5 DEF BufPlaced, Marked, Extends
<1> QED
  BY <1>3, <1>4, <1>6 DEF BufPlaced

\* An undo deletes nothing.
LEMMA UndoDeleted ==
  ASSUME NEW os, OpsOK(os), NEW n, NewOp(os, n), n.kind = "Undo", NEW L, NEW G,
         Deleted(os, L, G)
  PROVE  Deleted(os \cup {n}, L, G) /\ Continues(os, L, L) /\ Extends(os, G, G)
<1>1. Continues(os, L, L) /\ Extends(os, G, G)
  BY DEF Continues, Extends
<1>2. \A o \in os : \A c : Takes(os \cup {n}, L, G, o, c) <=> Takes(os, L, G, o, c)
  BY <1>1, OldTakes
<1>3. EditStamps(os \cup {n}) = EditStamps(os)
  BY OneMore
<1>4. \A o \in os \cup {n} : o.kind = "Edit" => o \in os
  OBVIOUS
<1> QED
  BY <1>1, <1>2, <1>3, <1>4 DEF Deleted

\* All the text before a place counts for the version of the replica.
LEMMA OwnOffsets ==
  ASSUME NEW os, OpsOK(os), NEW L, Orders(L, Known(os)), NEW v, Cut(os, v), NEW fs, NEW undos,
         TextOK(Seen(os, v), fs, undos), Sorted(L, fs), NEW i \in DOMAIN fs
  PROVE  Rank(os, L, v, Id(fs[i])) = i - 1
<1>1. /\ fs \in Seq(FragmentType) /\ \A j \in DOMAIN fs : Id(fs[j]) \in Text(os, v)
  BY DEF TextOK, Text
<1>2. /\ i \in 1 .. Len(fs) /\ Len(fs) \in Nat /\ i - 1 \in Nat
      /\ \A j \in 1 .. i - 1 : j \in DOMAIN fs
  BY <1>1
<1>3. observed_all(v, v)
  BY DEF Cut, Versions, observed_all
<1>4. FullOffset(fs, v, i - 1) = Rank(os, L, v, Id(fs[i]))
  BY <1>1, <1>3, RankIs
<1>5. \A j \in DOMAIN fs : observed(v, fs[j].timestamp)
  <2>1. \A j : Id(fs[j])[1] = fs[j].timestamp
    BY DEF Id
  <2>2. \A j \in DOMAIN fs : Id(fs[j]) \in Known(os)
    BY <1>1, InText
  <2> QED
    BY <1>1, <2>1, <2>2, InText
<1>6. {j \in 1 .. i - 1 : observed(v, fs[j].timestamp)} = 1 .. i - 1
  BY <1>2, <1>5
<1>7. Cardinality(1 .. i - 1) = i - 1
  BY <1>2, FS_Interval
<1> QED
  BY <1>4, <1>6, <1>7 DEF FullOffset

\* The deletions after an edit n that takes the fragments dels of its replica.
WithDeletions(G, n, fs, dels) == G \cup {<<n.timestamp, Id(fs[i])>> : i \in dels}

\* What is added is new.
LEMMA DeletionsGrow ==
  ASSUME NEW os, OpsOK(os), NEW n, NewOp(os, n), NEW L, NEW G, Deleted(os, L, G), NEW fs, NEW dels
  PROVE  /\ Extends(os, G, WithDeletions(G, n, fs, dels))
         /\ \A c : <<n.timestamp, c>> \in WithDeletions(G, n, fs, dels) <=>
                     \E i \in dels : c = Id(fs[i])
<1> DEFINE t == n.timestamp
           H == WithDeletions(G, n, fs, dels)
<1>1. t \notin EditStamps(os)
  BY NewIsFresh
<1>2. \A d, c : <<d, c>> \in H <=> <<d, c>> \in G \/ (d = t /\ \E i \in dels : c = Id(fs[i]))
  BY DEF WithDeletions
<1>3. \A d, c : <<d, c>> \in G => d \in EditStamps(os)
  <2>1. \A z \in G : z[1] \in EditStamps(os)
    BY DEF Deleted
  <2> QED
    BY <2>1
<1> HIDE DEF H
<1>4. Extends(os, G, H)
  BY <1>1, <1>2, Zenon DEF Extends
<1>5. \A c : <<t, c>> \in H <=> \E i \in dels : c = Id(fs[i])
  BY <1>1, <1>2, <1>3, Zenon
<1> QED
  BY <1>4, <1>5 DEF H

\* The edit sends the ranges that say what it deletes.
LEMMA LocalTakes ==
  ASSUME NEW os, OpsOK(os), NEW L, Orders(L, Known(os)), NEW G, Deleted(os, L, G),
         NEW n, NewOp(os, n), NEW fs, NEW undos, undos = UndosOf(Seen(os, n.version)),
         TextOK(Seen(os, n.version), fs, undos), Sorted(L, fs),
         Marked(Seen(os, n.version), G, fs), NEW M, Continues(os, L, M), NEW dels,
         dels \subseteq DOMAIN fs,
         \A i \in DOMAIN fs : i \in dels <=> fs[i].visible /\ \E k \in DOMAIN n.ranges :
           n.ranges[k].start <= i - 1 /\ i <= n.ranges[k].end,
         NEW c
  PROVE  <<n.timestamp, c>> \in WithDeletions(G, n, fs, dels) <=>
           Takes(os \cup {n}, M, WithDeletions(G, n, fs, dels), n, c)
<1> DEFINE t == n.timestamp
           v == n.version
           H == WithDeletions(G, n, fs, dels)
           on == os \cup {n}
<1>1. Cut(os, v)
  BY DEF NewOp
<1>2. /\ Extends(os, G, H)
      /\ <<t, c>> \in H <=> \E i \in dels : c = Id(fs[i])
  BY DeletionsGrow
<1> HIDE DEF H
<1>3. /\ Text(on, v) = Text(os, v)
      /\ \A x \in Text(os, v) : Rank(on, M, v, x) = Rank(os, L, v, x)
      /\ \A x : VisibleIn(on, H, v, x) <=> VisibleIn(os, G, v, x)
  <2>1. Extends(os, G, H)
    BY <1>2
  <2>2. Text(on, v) = Text(os, v) /\ \A x : VisibleIn(on, H, v, x) <=> VisibleIn(os, G, v, x)
    BY <1>1, <2>1, OldView, Zenon
  <2>3. \A x \in Text(os, v) : Rank(on, M, v, x) = Rank(os, L, v, x)
    <3> SUFFICES ASSUME NEW x \in Text(os, v) PROVE Rank(on, M, v, x) = Rank(os, L, v, x)
      OBVIOUS
    <3> QED
      BY <1>1, <2>1, OldView
  <2> QED
    BY <2>2, <2>3
<1>4. /\ \A i \in DOMAIN fs : Id(fs[i]) \in Text(os, v)
      /\ \A x \in Text(os, v) : \E i \in DOMAIN fs : Id(fs[i]) = x
      /\ \A i, j \in DOMAIN fs : Id(fs[i]) = Id(fs[j]) => i = j
      /\ fs \in Seq(FragmentType)
  BY DEF TextOK, Text
<1> HIDE DEF on
<1>5. CASE c \notin Text(os, v)
  <2>1. <<t, c>> \notin H
    BY <1>2, <1>4, <1>5
  <2>2. ~Takes(on, M, H, n, c)
    BY <1>3, <1>5 DEF Takes
  <2> QED
    BY <2>1, <2>2 DEF on, H
<1>6. CASE c \in Text(os, v)
  <2>1. PICK i \in DOMAIN fs : Id(fs[i]) = c
    BY <1>4, <1>6
  <2>2. Rank(os, L, v, Id(fs[i])) = i - 1
    BY <1>1, OwnOffsets
  <2>3. fs[i].visible <=> VisibleIn(os, G, v, Id(fs[i]))
    BY IsVisible
  <2>4. <<t, c>> \in H <=> i \in dels
    BY <1>2, <1>4, <2>1
  <2>5. Rank(on, M, v, c) = i - 1 /\ (VisibleIn(on, H, v, c) <=> fs[i].visible)
    BY <1>3, <1>6, <2>1, <2>2, <2>3
  <2>6. (i - 1) + 1 = i
    BY <1>4
  <2>7. Takes(on, M, H, n, c) <=> fs[i].visible /\ \E k \in DOMAIN n.ranges :
           n.ranges[k].start <= i - 1 /\ i <= n.ranges[k].end
    BY <1>3, <1>6, <2>5, <2>6 DEF Takes
  <2> QED
    BY <2>4, <2>7 DEF on, H
<1> QED
  BY <1>5, <1>6

\* An edit of a replica that agrees with the order and the deletions: there are an order and
\* deletions that go on from them with which it agrees afterwards.
LEMMA LocalPlaced ==
  ASSUME NEW os, OpsOK(os), NEW L, Settled(os, L), NEW G, Deleted(os, L, G),
         NEW n, NewOp(os, n), n.kind = "Edit", NEW fs, NEW undos,
         undos = UndosOf(Seen(os, n.version)), TextOK(Seen(os, n.version), fs, undos),
         Sorted(L, fs), Marked(Seen(os, n.version), G, fs),
         NEW e \in Edits(fs), NEW gaps \in [DOMAIN e -> 0 .. Len(fs)],
         NEW ends \in [DOMAIN e -> Nat], n.ranges = Sent(e, gaps, ends),
         \A k \in DOMAIN e : gaps[k] \in {RightGap(fs, e[k].start), LeftGap(fs, e[k].start)},
         \A k \in DOMAIN e : ends[k] =
           Max({gaps[k]} \cup {i \in LocalDels(fs, e) : VisibleBefore(fs, i) <= e[k].end})
  PROVE  \E M, H :
           /\ Settled(os \cup {n}, M) /\ Continues(os, L, M)
           /\ Deleted(os \cup {n}, M, H) /\ Extends(os, G, H)
           /\ Sorted(M, Spliced(fs, n.timestamp, e, gaps, LocalDels(fs, e)))
           /\ Marked(Seen(os, n.version) \cup {n}, H,
                     Spliced(fs, n.timestamp, e, gaps, LocalDels(fs, e)))
<1> DEFINE t == n.timestamp
           v == n.version
           S == Seen(os, v)
           dels == LocalDels(fs, e)
           on == os \cup {n}
           H == WithDeletions(G, n, fs, dels)
           res == Spliced(fs, t, e, gaps, dels)
           off(x) == insertion_offset(e, x[1], x[2])
<1>1. /\ Cut(os, v) /\ OpType(n) /\ t \in Stamps /\ t[1] > 1 /\ Orders(L, Known(os))
      /\ fs \in Seq(FragmentType) /\ n.ranges \in Seq(RangeType)
  BY DEF NewOp, OpType, Settled, TextOK
<1>2. e \in Seq(RangeType)
  BY EditsAreRanges
<1>3. NewText(e) = NewText(n.ranges)
  <2>1. \A j \in DOMAIN e : gaps[j] \in Nat /\ ends[j] \in Nat
    BY <1>1
  <2> QED
    BY <1>2, <2>1, SentRanges
<1>4. /\ DOMAIN n.ranges = DOMAIN e
      /\ \A k \in DOMAIN e : n.ranges[k].start = gaps[k] /\ n.ranges[k].end = ends[k]
  BY DEF Sent
<1>5. /\ \A j, k \in DOMAIN e : j <= k => gaps[j] <= gaps[k]
      /\ \A i \in DOMAIN fs : i \in dels <=>
           fs[i].visible /\ \E k \in DOMAIN e : gaps[k] <= i - 1 /\ i <= ends[k]
  BY <1>1, LocalRanges
<1>6. dels \subseteq DOMAIN fs
  BY DEF LocalDels
<1> HIDE DEF dels, H
<1>7. PICK M : Settled(on, M) /\ Continues(os, L, M) /\ NewPlaced(M, fs, t, n.ranges, gaps)
  <2>1. gaps \in [DOMAIN n.ranges -> 0 .. Len(fs)]
    BY <1>4
  <2>2. \A k \in DOMAIN n.ranges : n.ranges[k].start = gaps[k]
    BY <1>4
  <2>3. \A j, k \in DOMAIN n.ranges : j <= k => gaps[j] <= gaps[k]
    BY <1>4, <1>5
  <2> QED
    BY <1>1, <2>1, <2>2, <2>3, LocalJoin
<1>8. /\ Extends(os, G, H)
      /\ \A c : <<t, c>> \in H <=> \E i \in dels : c = Id(fs[i])
  BY DeletionsGrow DEF H
<1>9. Deleted(on, M, H)
  <2>1. EditStamps(on) = EditStamps(os) \cup {t}
    BY OneMore
  <2>2. \A z \in H : z[1] \in EditStamps(on)
    <3>1. \A z \in G : z[1] \in EditStamps(on)
      BY <2>1 DEF Deleted
    <3>2. \A z \in H : z \in G \/ \E i \in dels : z = <<t, Id(fs[i])>>
      BY DEF H, WithDeletions
    <3>3. \A c : <<t, c>>[1] = t
      OBVIOUS
    <3> HIDE DEF on
    <3> QED
      BY <2>1, <3>1, <3>2, <3>3
  <2>3. ASSUME NEW o \in os, o.kind = "Edit", NEW c
        PROVE  <<o.timestamp, c>> \in H <=> Takes(on, M, H, o, c)
    <3>1. Takes(on, M, H, o, c) <=> Takes(os, L, G, o, c)
      BY <1>7, <1>8, OldTakes
    <3>2. o.timestamp \in EditStamps(os)
      BY <2>3 DEF EditStamps
    <3>3. <<o.timestamp, c>> \in H <=> <<o.timestamp, c>> \in G
      BY <1>8, <3>2 DEF Extends
    <3> QED
      BY <2>3, <3>1, <3>3 DEF Deleted
  <2>4. ASSUME NEW c PROVE <<t, c>> \in H <=> Takes(on, M, H, n, c)
    <3>1. \A i \in DOMAIN fs : i \in dels <=> fs[i].visible /\ \E k \in DOMAIN n.ranges :
             n.ranges[k].start <= i - 1 /\ i <= n.ranges[k].end
      BY <1>4, <1>5
    <3> QED
      BY <1>1, <1>6, <1>7, <3>1, LocalTakes DEF H
  <2> QED
    BY <2>2, <2>3, <2>4 DEF Deleted
<1>10. \A x : off(x) = insertion_offset(n.ranges, x[1], x[2])
  BY <1>3 DEF insertion_offset
<1>11. NewPlaced(M, fs, t, e, gaps)
  BY <1>3, <1>7, <1>10 DEF NewPlaced
<1>12. \A i \in DOMAIN fs : Id(fs[i]) \in Known(S) /\ Id(fs[i]) \in Known(os)
  BY <1>1, InText DEF TextOK, Text
<1>13. Known(on) = Known(os) \cup Chars(n)
  BY OneMore
<1>14. /\ \A c \in Known(S) : c[1] # t
       /\ ~observed(v, t)
  <2>1. ~observed(v, t)
    BY <1>1, NewIsFresh
  <2> QED
    BY <1>1, <2>1, Fresh
<1>15. \A i \in DOMAIN fs : Id(fs[i]) \in Known(on) /\ fs[i].timestamp # t
  <2>1. \A i : Id(fs[i])[1] = fs[i].timestamp
    BY DEF Id
  <2> QED
    BY <1>12, <1>13, <1>14, <2>1
<1>16. \A x \in NewText(e) : <<t, off(x)>> \in Known(on)
  BY <1>3, <1>10, <1>13 DEF Chars
<1>17. Sorted(M, fs)
  BY <1>7, <1>12 DEF Sorted, Continues
<1> HIDE DEF res, on, t
<1>18. Sorted(M, res)
  <2>1. Orders(M, Known(on))
    BY <1>7 DEF Settled
  <2> QED
    BY <1>1, <1>2, <1>11, <1>15, <1>16, <1>17, <2>1, SplicedSorted DEF res
<1>19. Marked(S, H, fs)
  <2>1. EditStamps(S) \subseteq EditStamps(os)
    BY DEF EditStamps, Seen
  <2> QED
    BY <1>8, <2>1 DEF Marked, Extends
<1>20. t \notin EditStamps(S)
  BY <1>14 DEF EditStamps, Seen
<1>21. \A i \in DOMAIN fs : i \in dels <=> <<t, Id(fs[i])>> \in H
  <2>1. \A i, j \in DOMAIN fs : Id(fs[i]) = Id(fs[j]) => i = j
    BY DEF TextOK
  <2> QED
    BY <1>6, <1>8, <2>1
<1>22. \A x \in NewText(e), d \in EditStamps(S) \cup {t} : <<d, <<t, off(x)>>>> \notin H
  <2> SUFFICES ASSUME NEW x \in NewText(e), NEW d \in EditStamps(S) \cup {t}
               PROVE  <<d, <<t, off(x)>>>> \notin H
    OBVIOUS
  <2> DEFINE c == <<t, off(x)>>
  <2>1. c[1] = t
    OBVIOUS
  <2> HIDE DEF c
  <2>2. CASE d = t
    <3>1. \A i \in DOMAIN fs : c # Id(fs[i])
      BY <1>12, <1>14, <2>1
    <3> QED
      BY <1>6, <1>8, <2>2, <3>1 DEF c
  <2>3. CASE d \in EditStamps(S)
    <3>1. PICK p \in os : p.kind = "Edit" /\ d = p.timestamp /\ observed(v, p.timestamp)
      BY <2>3 DEF EditStamps, Seen
    <3>2. <<p.timestamp, c>> \notin G
      BY <1>1, <1>14, <2>1, <3>1, NotTaken
    <3>3. p.timestamp \in EditStamps(os)
      BY <3>1 DEF EditStamps
    <3> QED
      BY <1>8, <3>1, <3>2, <3>3 DEF Extends, c
  <2> QED
    BY <2>2, <2>3
<1>23. Marked(S \cup {n}, H, res)
  <2>1. n.timestamp = t /\ TextOK(S, fs, undos)
    BY DEF t
  <2> HIDE DEF S
  <2> QED
    BY <1>1, <1>2, <1>19, <1>20, <1>21, <1>22, <2>1, SplicedMarked DEF res
<1> QED
  BY <1>7, <1>8, <1>9, <1>18, <1>23 DEF res, t, on, dels

-----------------------------------------------------------------------------
(* The invariant *)

\* There are one order of all characters and one set of deletions that every replica agrees
\* with, whatever it has applied.
Agree ==
  \E L, G : /\ Settled(ops, L) /\ Deleted(ops, L, G)
            /\ \A r \in Replicas : BufPlaced(ops, L, G, Buffer(r))

\* What a replica makes is new.
LEMMA MadeIsNew ==
  ASSUME IInv, IInv', NEW r \in Replicas, NEW n \in ops', NEW value \in Nat,
         n.timestamp = <<value, r>>, value >= lamport_clock[r], n.version = version[r]
  PROVE  NewOp(ops, n)
<1>1. /\ BufOK(ops, Buffer(r)) /\ OpsOK(ops) /\ OpsOK(ops') /\ version[r] \in Versions
      /\ lamport_clock[r] \in Nat
  BY DEF IInv, Shape
<1>2. /\ Buffer(r).version = version[r] /\ Buffer(r).clock = lamport_clock[r]
  BY DEF Buffer
<1>3. Cut(ops, version[r]) /\ version[r][r] < lamport_clock[r] /\ version[r][r] \in Nat
  BY <1>1, <1>2 DEF BufOK, Versions
<1>4. n.timestamp[1] = value /\ n.timestamp[2] = r
  OBVIOUS
<1>5. ASSUME NEW o \in ops, o.timestamp[2] = r
      PROVE  o.timestamp[1] < value /\ observed(version[r], o.timestamp)
  <2>1. observed(version[r], o.timestamp)
    BY <1>5 DEF IInv, Own
  <2>2. version[r][r] >= o.timestamp[1] /\ o.timestamp[1] \in Nat
    BY <1>1, <1>5, <2>1 DEF observed, OpsOK, OpType, Stamps
  <2> QED
    BY <1>1, <1>3, <2>1, <2>2
<1>6. OpType(n)
  BY <1>1 DEF OpsOK
<1> QED
  BY <1>3, <1>4, <1>5, <1>6 DEF NewOp

\* The replica that makes an operation is the only one that changes.
LEMMA MakesAgree ==
  ASSUME IInv, NEW r \in Replicas, NEW n, NewOp(ops, n), ops' = ops \cup {n},
         n.version = version[r], NEW L, NEW G,
         \A q \in Replicas : BufPlaced(ops, L, G, Buffer(q)),
         NEW M, NEW H, Settled(ops \cup {n}, M), Deleted(ops \cup {n}, M, H),
         Continues(ops, L, M), Extends(ops, G, H),
         Sorted(M, fragments'[r]), Marked(Seen(ops, version[r]) \cup {n}, H, fragments'[r]),
         version'[r] = observe(version[r], n.timestamp),
         \A q \in Replicas : q # r => Buffer(q)' = Buffer(q)
  PROVE  Agree'
<1> DEFINE on == ops \cup {n}
<1>1. OpsOK(ops) /\ \A q \in Replicas : BufOK(ops, Buffer(q))
  BY DEF IInv
<1>2. Cut(ops, version[r])
  BY DEF NewOp
<1>3. /\ OpsOK(on) /\ Cut(on, version[r]) /\ ~observed(version[r], n.timestamp)
      /\ Seen(on, version[r]) = Seen(ops, version[r])
  BY <1>1, <1>2, NewIsFresh
<1>4. observed_all(version[r], n.version)
  BY <1>2 DEF Cut, Versions, observed_all
<1>5. Seen(on, version'[r]) = Seen(ops, version[r]) \cup {n}
  <2>1. n \in on
    OBVIOUS
  <2> HIDE DEF on
  <2>2. Seen(on, observe(version[r], n.timestamp)) = Seen(on, version[r]) \cup {n}
    BY <1>3, <1>4, <2>1, SeenMore
  <2> QED
    BY <1>3, <2>2
<1>6. ASSUME NEW q \in Replicas PROVE BufPlaced(on, M, H, Buffer(q)')
  <2>1. CASE q = r
    <3>1. Buffer(r)'.fragments = fragments'[r] /\ Buffer(r)'.version = version'[r]
      BY DEF Buffer
    <3> HIDE DEF on
    <3> QED
      BY <1>5, <2>1, <3>1 DEF BufPlaced
  <2>2. CASE q # r
    <3>1. Buffer(q)' = Buffer(q) /\ BufOK(ops, Buffer(q)) /\ BufPlaced(ops, L, G, Buffer(q))
      BY <1>1, <2>2
    <3> DEFINE b == Buffer(q)
    <3> HIDE DEF b
    <3>2. BufPlaced(on, M, H, b)
      BY <1>1, <3>1, BufKept DEF b
    <3> QED
      BY <3>1, <3>2 DEF b
  <2> QED
    BY <2>1, <2>2
<1> QED
  BY <1>6 DEF Agree

\* An edit.
LEMMA EditAgrees ==
  ASSUME IInv, Agree, IInv', NEW r \in Replicas, edit(r)
  PROVE  Agree'
<1>0. PICK e \in Edits(fragments[r]), k \in 0 .. Len(history[r].undo_stack), value \in Nat :
        \E gaps \in [DOMAIN e -> 0 .. Len(fragments[r])], ends \in [DOMAIN e -> Nat] : \E n :
          EditParts(r, e, k, value, gaps, ends, n)
  BY EditIs
<1>p. PICK gaps \in [DOMAIN e -> 0 .. Len(fragments[r])], ends \in [DOMAIN e -> Nat] :
        \E n : EditParts(r, e, k, value, gaps, ends, n)
  BY <1>0
<1>1. PICK n : EditParts(r, e, k, value, gaps, ends, n)
  BY <1>p
<1> DEFINE t == <<value, r>>
           fs == fragments[r]
           res == Spliced(fs, t, e, gaps, LocalDels(fs, e))
<1>2. /\ n = [kind |-> "Edit", timestamp |-> t, version |-> version[r],
              ranges |-> Sent(e, gaps, ends)]
      /\ fragments' = [fragments EXCEPT ![r] = res]
      /\ ops' = ops \cup {n}
      /\ value >= lamport_clock[r]
      /\ lamport_clock' = [lamport_clock EXCEPT ![r] = value + 1]
      /\ version' = [version EXCEPT ![r] = observe(version[r], t)]
      /\ UNCHANGED <<undo_map, deferred_ops, deferred_replicas, waits, delivered>>
  BY <1>1, Zenon DEF EditParts, EditMade
<1>3. /\ \A j \in DOMAIN e : gaps[j] \in {RightGap(fs, e[j].start), LeftGap(fs, e[j].start)}
      /\ \A j \in DOMAIN e : ends[j] =
           Max({gaps[j]} \cup {i \in LocalDels(fs, e) : VisibleBefore(fs, i) <= e[j].end})
  BY <1>1 DEF EditParts
<1>4. /\ n.kind = "Edit" /\ n.timestamp = t /\ n.version = version[r]
      /\ n.ranges = Sent(e, gaps, ends) /\ n \in ops'
  BY <1>2
<1>5. Shape /\ OpsOK(ops) /\ BufOK(ops, Buffer(r))
  BY DEF IInv
<1> HIDE DEF t
<1>6. NewOp(ops, n)
  BY <1>2, <1>4, MadeIsNew DEF t
<1>7. PICK L, G : /\ Settled(ops, L) /\ Deleted(ops, L, G)
                  /\ \A q \in Replicas : BufPlaced(ops, L, G, Buffer(q))
  BY DEF Agree
<1>8. /\ TextOK(Seen(ops, n.version), fs, undo_map[r])
      /\ undo_map[r] = UndosOf(Seen(ops, n.version))
      /\ Sorted(L, fs) /\ Marked(Seen(ops, n.version), G, fs)
  <2>1. /\ Buffer(r).version = version[r] /\ Buffer(r).fragments = fs
        /\ Buffer(r).undos = undo_map[r]
    BY DEF Buffer
  <2>2. BufPlaced(ops, L, G, Buffer(r))
    BY <1>7
  <2> QED
    BY <1>4, <1>5, <2>1, <2>2 DEF BufOK, BufPlaced
<1> HIDE DEF fs, res
<1>9. /\ e \in Edits(fs) /\ gaps \in [DOMAIN e -> 0 .. Len(fs)]
  BY DEF fs
<1>10. PICK M, H :
         /\ Settled(ops \cup {n}, M) /\ Continues(ops, L, M)
         /\ Deleted(ops \cup {n}, M, H) /\ Extends(ops, G, H)
         /\ Sorted(M, Spliced(fs, n.timestamp, e, gaps, LocalDels(fs, e)))
         /\ Marked(Seen(ops, n.version) \cup {n}, H,
                   Spliced(fs, n.timestamp, e, gaps, LocalDels(fs, e)))
  BY <1>3, <1>4, <1>5, <1>6, <1>7, <1>8, <1>9, LocalPlaced
<1>11. fragments'[r] = res /\ version'[r] = observe(version[r], n.timestamp)
  BY <1>2, <1>4, <1>5 DEF Shape
<1>12. res = Spliced(fs, n.timestamp, e, gaps, LocalDels(fs, e))
  BY <1>4 DEF res
<1>13. \A q \in Replicas : q # r => Buffer(q)' = Buffer(q)
  BY <1>2, <1>5 DEF Buffer, Shape
<1> QED
  BY <1>2, <1>4, <1>6, <1>7, <1>10, <1>11, <1>12, <1>13, MakesAgree

\* An undo or a redo.
LEMMA UndoAgrees ==
  ASSUME IInv, Agree, IInv', NEW r \in Replicas, NEW T, undo_or_redo(r, T)
  PROVE  Agree'
<1> DEFINE t == <<lamport_clock[r], r>>
           n == [kind |-> "Undo", timestamp |-> t, version |-> version[r],
                 counts |-> CountsOf(undo_map[r], T)]
           undos == UndoMapInsert(undo_map[r], n)
           fs == apply_undo(fragments[r], undos, n)
<1>1. /\ lamport_clock' = [lamport_clock EXCEPT ![r] = lamport_clock[r] + 1]
      /\ version' = [version EXCEPT ![r] = observe(version[r], t)]
      /\ undo_map' = [undo_map EXCEPT ![r] = undos]
      /\ fragments' = [fragments EXCEPT ![r] = fs]
      /\ ops' = ops \cup {n}
      /\ UNCHANGED <<deferred_ops, deferred_replicas, waits, delivered>>
  BY DEF undo_or_redo, CountsOf
<1>2. Shape /\ OpsOK(ops) /\ lamport_clock[r] \in Nat /\ fragments[r] \in Seq(FragmentType)
  BY DEF IInv, Shape
<1>3. n.kind = "Undo" /\ n.timestamp = t /\ n.version = version[r] /\ n \in ops'
  BY <1>1
<1> HIDE DEF n, undos
<1>4. NewOp(ops, n)
  <2>1. lamport_clock[r] >= lamport_clock[r]
    BY <1>2
  <2> QED
    BY <1>2, <1>3, <2>1, MadeIsNew
<1>5. PICK L, G : /\ Settled(ops, L) /\ Deleted(ops, L, G)
                  /\ \A q \in Replicas : BufPlaced(ops, L, G, Buffer(q))
  BY DEF Agree
<1>6. Sorted(L, fragments[r]) /\ Marked(Seen(ops, version[r]), G, fragments[r])
  <2>1. Buffer(r).version = version[r] /\ Buffer(r).fragments = fragments[r]
    BY DEF Buffer
  <2>2. BufPlaced(ops, L, G, Buffer(r))
    BY <1>5
  <2> QED
    BY <2>1, <2>2 DEF BufPlaced
<1>7. Sorted(L, fs) /\ Marked(Seen(ops, version[r]) \cup {n}, G, fs)
  BY <1>2, <1>3, <1>6, UndoPlaced
<1>8. /\ Settled(ops \cup {n}, L) /\ Deleted(ops \cup {n}, L, G)
      /\ Continues(ops, L, L) /\ Extends(ops, G, G)
  BY <1>2, <1>3, <1>4, <1>5, UndoSettled, UndoDeleted
<1> HIDE DEF fs
<1>9. fragments'[r] = fs /\ version'[r] = observe(version[r], n.timestamp)
  BY <1>1, <1>2, <1>3 DEF Shape
<1>10. \A q \in Replicas : q # r => Buffer(q)' = Buffer(q)
  BY <1>1, <1>2 DEF Buffer, Shape
<1> QED
  BY <1>1, <1>3, <1>4, <1>5, <1>7, <1>8, <1>9, <1>10, MakesAgree

\* A batch of operations arrives.
LEMMA DeliverAgrees ==
  ASSUME IInv, Agree, NEW r \in Replicas, NEW n \in Nat, NEW batch \in [1 .. n -> ops],
         Deliver(r, batch)
  PROVE  Agree'
<1> DEFINE b == Buffer(r)
           c == apply_ops(b, batch)
<1>1. /\ fragments' = [fragments EXCEPT ![r] = c.fragments]
      /\ version' = [version EXCEPT ![r] = c.version]
      /\ ops' = ops
  BY DEF Deliver
<1>2. Shape /\ OpsOK(ops) /\ BufOK(ops, b)
  BY DEF IInv
<1>3. PICK L, G : /\ Settled(ops, L) /\ Deleted(ops, L, G)
                  /\ \A q \in Replicas : BufPlaced(ops, L, G, Buffer(q))
  BY DEF Agree
<1>4. BufPlaced(ops, L, G, b)
  BY <1>3
<1> HIDE DEF b
<1>5. BufPlaced(ops, L, G, c)
  <2>1. c = apply_ops(b, batch)
    OBVIOUS
  <2> HIDE DEF c
  <2> QED
    BY <1>2, <1>3, <1>4, <2>1, ApplyOpsPlaced
<1> HIDE DEF c
<1>6. ASSUME NEW q \in Replicas PROVE BufPlaced(ops, L, G, Buffer(q)')
  <2>1. /\ Buffer(q)'.fragments = fragments'[q] /\ Buffer(q)'.version = version'[q]
        /\ Buffer(q).fragments = fragments[q] /\ Buffer(q).version = version[q]
    BY DEF Buffer
  <2>2. CASE q = r
    <3>1. fragments'[r] = c.fragments /\ version'[r] = c.version
      BY <1>1, <1>2 DEF Shape
    <3> QED
      BY <1>5, <2>1, <2>2, <3>1 DEF BufPlaced
  <2>3. CASE q # r
    <3>1. fragments'[q] = fragments[q] /\ version'[q] = version[q]
      BY <1>1, <1>2, <2>3 DEF Shape
    <3>2. BufPlaced(ops, L, G, Buffer(q))
      BY <1>3
    <3> QED
      BY <2>1, <3>1, <3>2 DEF BufPlaced
  <2> QED
    BY <2>2, <2>3
<1> QED
  BY <1>1, <1>3, <1>6 DEF Agree

\* A step that leaves the text and the operations alone.
LEMMA AsideAgrees ==
  ASSUME Agree, UNCHANGED <<fragments, version, ops>>
  PROVE  Agree'
<1>1. PICK L, G : /\ Settled(ops, L) /\ Deleted(ops, L, G)
                  /\ \A q \in Replicas : BufPlaced(ops, L, G, Buffer(q))
  BY DEF Agree
<1>2. ASSUME NEW q \in Replicas PROVE BufPlaced(ops, L, G, Buffer(q)')
  <2>1. /\ Buffer(q)'.fragments = Buffer(q).fragments /\ Buffer(q)'.version = Buffer(q).version
    BY DEF Buffer
  <2>2. BufPlaced(ops, L, G, Buffer(q))
    BY <1>1
  <2> QED
    BY <2>1, <2>2 DEF BufPlaced
<1> QED
  BY <1>1, <1>2 DEF Agree

\* At the start the characters are in the order of their offsets and none is deleted.
LEMMA StartAgrees ==
  ASSUME Init
  PROVE  Agree
<1> DEFINE base == [i \in 1 .. BaseLength |-> Fragment(<<1, 0>>, i - 1)]
           L == {z \in BaseText \X BaseText : z[1][2] < z[2][2]}
<1>1. ops = {} /\ \A r \in Replicas : fragments[r] = base
  BY DEF Init
<1>2. Known({}) = BaseText
  BY DEF Known
<1>3. BaseLength \in Nat
  BY BoundsAssumption
<1>4. \A x \in BaseText : x[2] \in Nat /\ x = <<<<1, 0>>, x[2]>>
  BY <1>3 DEF BaseText
<1>5. \A x, y : <<x, y>> \in L <=> x \in BaseText /\ y \in BaseText /\ x[2] < y[2]
  OBVIOUS
<1> HIDE DEF L
<1>6. Orders(L, BaseText)
  <2>1. \A x \in BaseText : <<x, x>> \notin L
    BY <1>4, <1>5
  <2>2. \A x, y, z \in BaseText : <<x, y>> \in L /\ <<y, z>> \in L => <<x, z>> \in L
    <3> SUFFICES ASSUME NEW x \in BaseText, NEW y \in BaseText, NEW z \in BaseText,
                        <<x, y>> \in L, <<y, z>> \in L
                 PROVE  <<x, z>> \in L
      OBVIOUS
    <3>1. x[2] < y[2] /\ y[2] < z[2] /\ x[2] \in Nat /\ y[2] \in Nat /\ z[2] \in Nat
      BY <1>4, <1>5
    <3>2. x[2] < z[2]
      BY <3>1
    <3> QED
      BY <1>5, <3>2
  <2>3. \A x, y \in BaseText : x = y \/ <<x, y>> \in L \/ <<y, x>> \in L
    <3> SUFFICES ASSUME NEW x \in BaseText, NEW y \in BaseText, <<x, y>> \notin L,
                        <<y, x>> \notin L
                 PROVE  x = y
      OBVIOUS
    <3>1. x[2] = y[2]
      BY <1>4, <1>5
    <3> QED
      BY <1>4, <3>1
  <2> QED
    BY <2>1, <2>2, <2>3 DEF Orders
<1>7. Settled({}, L)
  BY <1>2, <1>6 DEF Settled
<1>8. Deleted({}, L, {})
  BY DEF Deleted
<1>9. DOMAIN base = 1 .. BaseLength /\ \A i \in DOMAIN base : Id(base[i]) = <<<<1, 0>>, i - 1>>
  BY DEF Id, Fragment
<1>10. Sorted(L, base)
  <2> SUFFICES ASSUME NEW i \in 1 .. BaseLength, NEW j \in 1 .. BaseLength, i < j
               PROVE  <<Id(base[i]), Id(base[j])>> \in L
    BY <1>9 DEF Sorted
  <2>1. i - 1 \in 0 .. BaseLength - 1 /\ j - 1 \in 0 .. BaseLength - 1 /\ i - 1 < j - 1
    BY <1>3
  <2>2. <<<<1, 0>>, i - 1>> \in BaseText /\ <<<<1, 0>>, j - 1>> \in BaseText
    BY <2>1 DEF BaseText
  <2> HIDE DEF base
  <2> QED
    BY <1>5, <1>9, <2>1, <2>2
<1>11. \A S : EditStamps(Seen({}, S)) = {}
  BY DEF EditStamps, Seen
<1>12. ASSUME NEW r \in Replicas PROVE BufPlaced({}, L, {}, Buffer(r))
  <2>1. Buffer(r).fragments = base
    BY <1>1 DEF Buffer
  <2> HIDE DEF base
  <2> QED
    BY <1>10, <1>11, <2>1 DEF BufPlaced, Marked
<1> QED
  BY <1>1, <1>7, <1>8, <1>12 DEF Agree

\* Every step.
LEMMA StepAgrees ==
  ASSUME IInv, Agree, IInv', [Next]_vars
  PROVE  Agree'
<1>1. CASE UNCHANGED vars
  BY <1>1, AsideAgrees DEF vars
<1>2. CASE Next
  <2>1. PICK r \in Replicas :
          \/ edit(r)
          \/ StartTransaction(r)
          \/ EndTransaction(r)
          \/ undo(r)
          \/ \E i \in DOMAIN history[r].undo_stack :
                i < Len(history[r].undo_stack) /\ undo_transaction(r, i)
          \/ redo(r)
          \/ Receive(r)
          \/ \E o \in ops : o.kind = "Edit" /\ wait_for_edits(r, o.timestamp)
          \/ \E q \in Replicas : wait_for_version(r, version[q])
          \/ give_up_waiting(r)
    BY <1>2 DEF Next
  <2>2. CASE edit(r)
    BY <2>2, EditAgrees
  <2>3. CASE undo(r) \/ redo(r) \/ \E i \in DOMAIN history[r].undo_stack :
                i < Len(history[r].undo_stack) /\ undo_transaction(r, i)
    <3>1. \E T : undo_or_redo(r, T)
      BY <2>3, Zenon DEF undo, redo, undo_transaction
    <3> QED
      BY <3>1, UndoAgrees
  <2>4. CASE Receive(r)
    <3>1. PICK o \in ops, p \in ops : Deliver(r, IF o = p THEN <<o>> ELSE <<o, p>>)
      BY <2>4, Zenon DEF Receive
    <3>2. CASE o = p
      <4>1. Deliver(r, <<o>>)
        BY <3>1, <3>2
      <4>2. <<o>> \in [1 .. 1 -> ops] /\ 1 \in Nat
        OBVIOUS
      <4> QED
        BY <4>1, <4>2, DeliverAgrees
    <3>3. CASE o # p
      <4>1. Deliver(r, <<o, p>>)
        BY <3>1, <3>3
      <4>2. <<o, p>> \in [1 .. 2 -> ops] /\ 2 \in Nat
        OBVIOUS
      <4> QED
        BY <4>1, <4>2, DeliverAgrees
    <3> QED
      BY <3>2, <3>3
  <2>5. CASE StartTransaction(r) \/ EndTransaction(r)
    BY <2>5, AsideAgrees DEF StartTransaction, EndTransaction
  <2>6. CASE \/ \E o \in ops : o.kind = "Edit" /\ wait_for_edits(r, o.timestamp)
             \/ \E q \in Replicas : wait_for_version(r, version[q])
             \/ give_up_waiting(r)
    BY <2>6, AsideAgrees DEF wait_for_edits, wait_for_version, give_up_waiting
  <2> QED
    BY <2>1, <2>2, <2>3, <2>4, <2>5, <2>6
<1> QED
  BY <1>1, <1>2

\* There always are such an order and such deletions.
THEOREM Agreement == Spec => [](IInv /\ Agree)
<1>1. Init => IInv /\ Agree
  BY StartOK, StartAgrees
<1>2. (IInv /\ Agree) /\ [Next]_vars => (IInv /\ Agree)'
  BY StepPreserves, StepAgrees
<1> QED
  BY <1>1, <1>2, PTL DEF Spec

-----------------------------------------------------------------------------
(* The properties *)

\* Whatever two replicas have applied, the characters both know are in the same order (the
\* skip over concurrent insertions in apply_remote_edit).
THEOREM OrderIsShared == Spec => []OrderAgrees
<1>1. ASSUME IInv, Agree PROVE OrderAgrees
  <2>1. PICK L, G : /\ Settled(ops, L) /\ Deleted(ops, L, G)
                    /\ \A q \in Replicas : BufPlaced(ops, L, G, Buffer(q))
    BY <1>1 DEF Agree
  <2>2. ASSUME NEW r \in Replicas, NEW i \in DOMAIN fragments[r], NEW j \in DOMAIN fragments[r]
        PROVE  i < j <=> <<Id(fragments[r][i]), Id(fragments[r][j])>> \in L
    <3>1. OpsOK(ops) /\ BufOK(ops, Buffer(r)) /\ BufPlaced(ops, L, G, Buffer(r))
      BY <1>1, <2>1 DEF IInv
    <3>2. /\ Buffer(r).fragments = fragments[r] /\ Buffer(r).version = version[r]
          /\ Buffer(r).undos = undo_map[r]
      BY DEF Buffer
    <3>3. /\ TextOK(Seen(ops, version[r]), fragments[r], undo_map[r])
          /\ Sorted(L, fragments[r]) /\ Cut(ops, version[r])
      BY <3>1, <3>2 DEF BufOK, BufPlaced
    <3>4. Known(Seen(ops, version[r])) \subseteq Known(ops) /\ Orders(L, Known(ops))
      BY <2>1, <3>1, <3>3, InText DEF Text, Settled
    <3> QED
      BY <3>3, <3>4, SortedBoth
  <2>3. ASSUME NEW r \in Replicas, NEW q \in Replicas,
               NEW i \in DOMAIN fragments[r], NEW j \in DOMAIN fragments[r],
               NEW m \in DOMAIN fragments[q], NEW n \in DOMAIN fragments[q],
               Id(fragments[r][i]) = Id(fragments[q][m]),
               Id(fragments[r][j]) = Id(fragments[q][n])
        PROVE  i < j <=> m < n
    BY <2>2, <2>3
  <2> QED
    BY <2>3 DEF OrderAgrees, Id
<1> QED
  BY <1>1, Agreement, PTL

\* Two replicas with the same version have the same character at every place.
LEMMA SamePlaces ==
  ASSUME NEW os, OpsOK(os), NEW L, Orders(L, Known(os)), NEW v, Cut(os, v), NEW undos,
         NEW fs, TextOK(Seen(os, v), fs, undos), Sorted(L, fs),
         NEW gs, TextOK(Seen(os, v), gs, undos), Sorted(L, gs), NEW i \in DOMAIN fs
  PROVE  i \in DOMAIN gs /\ Id(gs[i]) = Id(fs[i])
<1>1. PICK j \in DOMAIN gs : Id(gs[j]) = Id(fs[i])
  BY DEF TextOK
<1>2. Rank(os, L, v, Id(fs[i])) = i - 1
  BY OwnOffsets
<1>3. Rank(os, L, v, Id(gs[j])) = j - 1
  BY OwnOffsets
<1>4. fs \in Seq(FragmentType) /\ gs \in Seq(FragmentType)
  BY DEF TextOK
<1>5. i \in Nat /\ j \in Nat
  BY <1>4
<1>6. i = j
  BY <1>1, <1>2, <1>3, <1>5
<1> QED
  BY <1>1, <1>6

\* So they have the same text, deleted text included.
LEMMA SameText ==
  ASSUME NEW os, OpsOK(os), NEW L, Orders(L, Known(os)), NEW G, NEW v, Cut(os, v), NEW undos,
         NEW fs, TextOK(Seen(os, v), fs, undos), Sorted(L, fs), Marked(Seen(os, v), G, fs),
         NEW gs, TextOK(Seen(os, v), gs, undos), Sorted(L, gs), Marked(Seen(os, v), G, gs)
  PROVE  fs = gs
<1>1. fs \in Seq(FragmentType) /\ gs \in Seq(FragmentType)
  BY DEF TextOK
<1>2. \A i \in DOMAIN fs : i \in DOMAIN gs /\ Id(gs[i]) = Id(fs[i])
  BY SamePlaces
<1>3. \A i \in DOMAIN gs : i \in DOMAIN fs
  BY SamePlaces
<1>4. ASSUME NEW i \in DOMAIN fs PROVE fs[i] = gs[i]
  <2>1. i \in DOMAIN gs /\ Id(gs[i]) = Id(fs[i])
    BY <1>2
  <2>2. fs[i].timestamp = gs[i].timestamp /\ fs[i].offset = gs[i].offset
    BY <2>1 DEF Id
  <2>3. fs[i].deletions = gs[i].deletions
    <3> DEFINE E == EditStamps(Seen(os, v))
    <3>1. fs[i].deletions \subseteq E /\ gs[i].deletions \subseteq E
      BY <2>1 DEF TextOK
    <3>2. \A d \in E : d \in fs[i].deletions <=> d \in gs[i].deletions
      BY <2>1 DEF Marked
    <3> HIDE DEF E
    <3> QED
      BY <3>1, <3>2
  <2>4. fs[i].visible = gs[i].visible
    <3>1. fs[i].visible = is_visible(fs[i], undos) /\ gs[i].visible = is_visible(gs[i], undos)
      BY <2>1 DEF TextOK
    <3>2. is_visible(fs[i], undos) <=> is_visible(gs[i], undos)
      BY <2>2, <2>3 DEF is_visible
    <3>3. fs[i].visible \in BOOLEAN /\ gs[i].visible \in BOOLEAN
      <4>1. fs[i] \in FragmentType /\ gs[i] \in FragmentType
        BY <1>1, <2>1
      <4> QED
        BY <4>1 DEF FragmentType
    <3>4. fs[i].visible <=> gs[i].visible
      BY <3>1, <3>2
    <3> QED
      BY <3>3, <3>4
  <2>5. fs[i] \in FragmentType /\ gs[i] \in FragmentType
    BY <1>1, <2>1
  <2> QED
    BY <2>2, <2>3, <2>4, <2>5 DEF FragmentType
<1>5. DOMAIN fs = DOMAIN gs
  BY <1>2, <1>3
<1>6. fs = [i \in DOMAIN fs |-> fs[i]] /\ gs = [i \in DOMAIN gs |-> gs[i]]
  BY <1>1
<1> QED
  BY <1>4, <1>5, <1>6

\* Replicas that have applied the same operations have the same text, deleted text and undo
\* counts, in whatever order and batches the operations came (apply_remote_edit, apply_undo).
THEOREM Convergence == Spec => []Converge
<1>1. ASSUME IInv, Agree PROVE Converge
  <2>1. PICK L, G : /\ Settled(ops, L) /\ Deleted(ops, L, G)
                    /\ \A q \in Replicas : BufPlaced(ops, L, G, Buffer(q))
    BY <1>1 DEF Agree
  <2>2. ASSUME NEW r \in Replicas
        PROVE  /\ TextOK(Seen(ops, version[r]), fragments[r], undo_map[r])
               /\ Sorted(L, fragments[r]) /\ Cut(ops, version[r])
               /\ Marked(Seen(ops, version[r]), G, fragments[r])
               /\ undo_map[r] = UndosOf(Seen(ops, version[r]))
    <3>1. BufOK(ops, Buffer(r)) /\ BufPlaced(ops, L, G, Buffer(r))
      BY <1>1, <2>1 DEF IInv
    <3>2. /\ Buffer(r).fragments = fragments[r] /\ Buffer(r).version = version[r]
          /\ Buffer(r).undos = undo_map[r]
      BY DEF Buffer
    <3> QED
      BY <3>1, <3>2 DEF BufOK, BufPlaced
  <2>3. OpsOK(ops) /\ Orders(L, Known(ops))
    BY <1>1, <2>1 DEF IInv, Settled
  <2>4. ASSUME NEW r \in Replicas, NEW q \in Replicas, version[r] = version[q]
        PROVE  fragments[r] = fragments[q] /\ undo_map[r] = undo_map[q]
    <3>1. undo_map[r] = undo_map[q]
      BY <2>2, <2>4
    <3>2. /\ TextOK(Seen(ops, version[r]), fragments[q], undo_map[r])
          /\ Sorted(L, fragments[q]) /\ Marked(Seen(ops, version[r]), G, fragments[q])
      BY <2>2, <2>4, <3>1
    <3>3. fragments[r] = fragments[q]
      BY <2>2, <2>3, <3>2, SameText
    <3> QED
      BY <3>1, <3>3
  <2> QED
    BY <2>4 DEF Converge
<1> QED
  BY <1>1, Agreement, PTL
=============================================================================
