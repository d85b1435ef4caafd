--------------------------- MODULE TransferProofs ---------------------------
(***************************************************************************)
(* An upload's two queues are sound and never overrun the server's window  *)
(* (Transfer).  The argument: the unacknowledged and the unsent segments   *)
(* in a row are one list that covers, byte by byte, what was written and   *)
(* not acknowledged.  tcp_write makes that list longer, tcp_output and a   *)
(* retransmission move the border in it, an acknowledgement cuts it, and a *)
(* fast retransmission turns its first segment to the other side of the    *)
(* border until tcp_output, in the same handler, puts it back.  Beside it, *)
(* what is out is inside a window that the server has announced.           *)
(***************************************************************************)
EXTENDS Transfer, Recursion, SequenceTheorems, FiniteSetTheorems, TLAPS

-----------------------------------------------------------------------------
(* The constants and the segments.                                         *)

\* The assumption on the constants, in parts.
LEMMA Numbers ==
  /\ MSS \in Nat \ {0} /\ TCP_SND_BUF \in Nat \ {0} /\ TCP_SND_QUEUELEN \in Nat \ {0}
  /\ TCP_MAXRTX \in Nat \ {0} /\ Packet \in Nat \ {0}
  /\ Buffer \in Nat /\ Buffer >= 2 /\ CwndMax \in Nat /\ CwndMax >= 2 * MSS
  /\ RtxWidth \in Nat \ {0} /\ StreamMax \in Nat \ {0}
<1>1. /\ {MSS, TCP_SND_BUF, TCP_SND_QUEUELEN, TCP_MAXRTX, Packet} \subseteq Nat \ {0}
      /\ Buffer \in Nat /\ Buffer >= 2 /\ CwndMax \in Nat /\ CwndMax >= 2 * MSS
      /\ RtxWidth \in Nat /\ RtxWidth > TCP_MAXRTX
      /\ {StreamMax, DataMax, AckMax} \subseteq Nat \ {0}
  BY TransferAssumption, Zenon DEF TransferAssumption
<1>2. /\ MSS \in Nat \ {0} /\ TCP_SND_BUF \in Nat \ {0} /\ TCP_SND_QUEUELEN \in Nat \ {0}
      /\ TCP_MAXRTX \in Nat \ {0} /\ Packet \in Nat \ {0} /\ StreamMax \in Nat \ {0}
  BY <1>1, Zenon
<1>3. RtxWidth \in Nat \ {0}
  BY <1>1, <1>2
<1> QED
  BY <1>1, <1>2, <1>3

\* No segment is empty, and none longer than the largest one the peer takes.
LEMMA SegmentSize == Mss_local \in Nat \ {0} /\ Mss_local <= MSS
BY Numbers DEF Mss_local, Least

\* A segment on a list: it holds data, and every pbuf of it some.
Seg == {s \in [seqno : Nat, len : Nat, pbufs : Nat, room : Nat] :
          s.len \in 1 .. Mss_local /\ s.pbufs \in 1 .. s.len}

\* The fields of a segment.
LEMMA SegmentFields ==
  ASSUME NEW s \in Seg
  PROVE  /\ s.seqno \in Nat /\ s.len \in 1 .. Mss_local /\ s.len \in Nat \ {0}
         /\ s.pbufs \in 1 .. s.len /\ s.pbufs \in Nat /\ s.room \in Nat
         /\ End(s) \in Nat /\ s.seqno < End(s) /\ End(s) = s.seqno + s.len
BY SegmentSize DEF Seg, End

-----------------------------------------------------------------------------
(* Lists.                                                                  *)

\* The first k elements of a list and the others.
LEMMA Cut ==
  ASSUME NEW S, NEW q \in Seq(S), NEW k \in 0 .. Len(q)
  PROVE  /\ SubSeq(q, 1, k) \in Seq(S) /\ Len(SubSeq(q, 1, k)) = k
         /\ \A i \in 1 .. k : SubSeq(q, 1, k)[i] = q[i]
         /\ From(q, k + 1) \in Seq(S) /\ Len(From(q, k + 1)) = Len(q) - k
         /\ \A i \in 1 .. Len(q) - k : From(q, k + 1)[i] = q[k + i]
BY DEF From

\* Two lists in a row.
LEMMA Joined ==
  ASSUME NEW S, NEW s \in Seq(S), NEW t \in Seq(S)
  PROVE  /\ s \o t \in Seq(S) /\ Len(s \o t) = Len(s) + Len(t)
         /\ \A i \in 1 .. Len(s) : (s \o t)[i] = s[i]
         /\ \A i \in 1 .. Len(t) : (s \o t)[Len(s) + i] = t[i]
         /\ Len(s) \in Nat /\ Len(t) \in Nat
OBVIOUS

\* Lists with the same elements.
LEMMA SameList ==
  ASSUME NEW S, NEW s \in Seq(S), NEW t \in Seq(S), Len(s) = Len(t),
         \A i \in 1 .. Len(s) : s[i] = t[i]
  PROVE  s = t
BY SeqEqual

\* The two parts in a row are the list.
LEMMA CutJoined ==
  ASSUME NEW S, NEW q \in Seq(S), NEW k \in 0 .. Len(q)
  PROVE  SubSeq(q, 1, k) \o From(q, k + 1) = q
<1> DEFINE s == SubSeq(q, 1, k)
           t == From(q, k + 1)
<1>1. /\ s \in Seq(S) /\ Len(s) = k /\ t \in Seq(S) /\ Len(t) = Len(q) - k
      /\ \A i \in 1 .. k : s[i] = q[i]
      /\ \A i \in 1 .. Len(q) - k : t[i] = q[k + i]
  BY Cut
<1> HIDE DEF s, t
<1>2. /\ s \o t \in Seq(S) /\ Len(s \o t) = k + (Len(q) - k)
      /\ \A i \in 1 .. k : (s \o t)[i] = s[i]
      /\ \A i \in 1 .. Len(t) : (s \o t)[k + i] = t[i]
  BY <1>1, Joined
<1>3. Len(s \o t) = Len(q)
  BY <1>1, <1>2
<1>4. ASSUME NEW i \in 1 .. Len(q)
      PROVE  (s \o t)[i] = q[i]
  <2>1. CASE i <= k
    BY <1>1, <1>2, <2>1
  <2>2. CASE ~(i <= k)
    <3>1. i - k \in 1 .. Len(q) - k /\ k + (i - k) = i
      BY <2>2
    <3>2. (s \o t)[k + (i - k)] = t[i - k] /\ t[i - k] = q[k + (i - k)]
      BY <1>1, <1>2, <3>1, Zenon
    <3> QED
      BY <3>1, <3>2, Zenon
  <2> QED
    BY <2>1, <2>2
<1>5. s \o t = q
  BY <1>2, <1>3, <1>4, SameList
<1> QED
  BY <1>5 DEF s, t

\* How three lists are put in a row does not matter.
LEMMA JoinAssociates ==
  ASSUME NEW S, NEW s \in Seq(S), NEW t \in Seq(S), NEW u \in Seq(S)
  PROVE  (s \o t) \o u = s \o (t \o u)
OBVIOUS

\* So it is for lists of segments.
LEMMA SegmentsAssociate ==
  ASSUME NEW s \in Seq(Seg), NEW t \in Seq(Seg), NEW u \in Seq(Seg)
  PROVE  (s \o t) \o u = s \o (t \o u)
BY JoinAssociates

\* Nor does an empty one.
LEMMA EmptyJoins ==
  ASSUME NEW S, NEW s \in Seq(S)
  PROVE  s \o <<>> = s /\ <<>> \o s = s
OBVIOUS

\* What Leading computes: how far a prefix of 1 .. n is in T.
LEMMA LeadingIs ==
  ASSUME NEW n \in Nat, NEW T, T \subseteq 1 .. n
  PROVE  /\ Leading(n, T) \in 0 .. n
         /\ 1 .. Leading(n, T) \subseteq T /\ Leading(n, T) + 1 \notin T
<1> DEFINE Out == {j \in 0 .. n : j + 1 \notin T}
           Is(k) == k \in 0 .. n /\ 1 .. k \subseteq T /\ k + 1 \notin T
<1>1. n \in Out /\ Out \in SUBSET Nat
  OBVIOUS
<1>2. PICK k \in Out : \A m \in Out : k <= m
  <2> HIDE DEF Out
  <2>1. Out # {}
    BY <1>1
  <2> QED
    BY <1>1, <2>1, LowestExists
<1>3. 1 .. k \subseteq T
  <2> SUFFICES ASSUME NEW i \in 1 .. k PROVE i \in T
    OBVIOUS
  <2>1. i - 1 \in 0 .. n /\ ~(k <= i - 1) /\ (i - 1) + 1 = i
    BY <1>2
  <2> QED
    BY <1>2, <2>1
<1>4. Is(k)
  BY <1>2, <1>3
<1>5. Leading(n, T) = CHOOSE j \in 0 .. n : 1 .. j \subseteq T /\ j + 1 \notin T
  BY Zenon DEF Leading
<1> QED
  BY <1>4, <1>5, Zenon

\* What is not before a place is at it or behind it.
LEMMA LeadingEnds ==
  ASSUME NEW n \in Nat, NEW T, T \subseteq 1 .. n, NEW k \in 0 .. n,
         1 .. k \subseteq T, k + 1 \notin T
  PROVE  Leading(n, T) = k
<1> DEFINE l == Leading(n, T)
<1>1. l \in 0 .. n /\ 1 .. l \subseteq T /\ l + 1 \notin T
  BY LeadingIs
<1> HIDE DEF l
<1>2. ~(k < l)
  <2> SUFFICES ASSUME k < l PROVE FALSE
    OBVIOUS
  <2>1. k + 1 \in 1 .. l
    BY <1>1
  <2> QED
    BY <1>1, <2>1
<1>3. ~(l < k)
  <2> SUFFICES ASSUME l < k PROVE FALSE
    OBVIOUS
  <2>1. l + 1 \in 1 .. k
    BY <1>1
  <2> QED
    BY <1>1, <2>1
<1>4. l = k
  BY <1>1, <1>2, <1>3
<1> QED
  BY <1>4 DEF l

-----------------------------------------------------------------------------
(* The pbufs of a list.                                                    *)

Counts(q, sum) ==
  /\ sum \in [0 .. Len(q) -> Nat] /\ sum[0] = 0
  /\ \A k \in 1 .. Len(q) : sum[k] = sum[k - 1] + q[k].pbufs

\* What Pbufs computes: a sum over the list.
LEMMA PbufsAre ==
  ASSUME NEW q \in Seq(Seg)
  PROVE  \E sum : Counts(q, sum) /\ Pbufs(q) = sum[Len(q)]
<1> DEFINE n == Len(q)
           val == [k \in 1 .. n |-> q[k].pbufs]
           Is(w) == w = [k \in 0 .. n |-> IF k = 0 THEN 0 ELSE w[k - 1] + q[k].pbufs]
           sum == CHOOSE w : Is(w)
<1>1. n \in Nat /\ \A k \in 1 .. n : q[k].pbufs \in Nat
  <2>1. ASSUME NEW k \in 1 .. n PROVE q[k].pbufs \in Nat
    <3>1. q[k] \in Seg
      OBVIOUS
    <3> QED
      BY <3>1, SegmentFields
  <2> QED
    BY <2>1
<1>2. val \in [1 .. n -> Nat]
  BY <1>1
<1>3. PICK w \in [0 .. n -> Nat] :
        w[0] = 0 /\ \A k \in 1 .. n : w[k] = w[k - 1] + val[k]
  <2> HIDE DEF n, val
  <2> QED
    BY <1>1, <1>2, SumsExist
<1>4. Is(w)
  BY <1>1, <1>3
<1>5. Is(sum)
  <2> HIDE DEF Is
  <2> QED
    BY <1>4, Zenon
<1>6. Pbufs(q) = sum[Len(q)]
  BY Zenon DEF Pbufs
<1>7. sum = [k \in 0 .. n |-> IF k = 0 THEN 0 ELSE sum[k - 1] + q[k].pbufs]
  BY <1>5
<1> HIDE DEF sum
<1>8. sum[0] = 0 /\ \A k \in 1 .. n : sum[k] = sum[k - 1] + q[k].pbufs
  BY <1>1, <1>7
<1> DEFINE T == {k \in 0 .. n : sum[k] \in Nat}
<1>9. \A k \in 0 .. n : k \in T
  <2>1. 0 \in T
    BY <1>1, <1>8
  <2>2. ASSUME NEW k \in 1 .. n, k - 1 \in T
        PROVE  k \in T
    <3>1. sum[k - 1] \in Nat /\ q[k].pbufs \in Nat
      BY <1>1, <2>2
    <3>2. sum[k] = sum[k - 1] + q[k].pbufs
      BY <1>8
    <3>3. sum[k] \in Nat /\ k \in 0 .. n
      BY <1>1, <3>1, <3>2
    <3> QED
      BY <3>3
  <2> HIDE DEF T, n
  <2> QED
    BY <1>1, <2>1, <2>2, Reaches
<1>10. sum \in [0 .. n -> Nat]
  BY <1>7, <1>9
<1> QED
  BY <1>6, <1>8, <1>10, Zenon DEF Counts

\* The pbufs of two lists in a row.
LEMMA PbufsJoined ==
  ASSUME NEW s \in Seq(Seg), NEW t \in Seq(Seg)
  PROVE  Pbufs(s \o t) = Pbufs(s) + Pbufs(t) /\ Pbufs(s) \in Nat /\ Pbufs(t) \in Nat
<1> DEFINE q == s \o t
           m == Len(s)
           n == Len(t)
<1>1. /\ q \in Seq(Seg) /\ Len(q) = m + n /\ m \in Nat /\ n \in Nat
      /\ \A i \in 1 .. m : q[i] = s[i]
      /\ \A i \in 1 .. n : q[m + i] = t[i]
  BY Joined
<1> HIDE DEF q
<1>2. PICK a : Counts(s, a) /\ Pbufs(s) = a[m]
  BY PbufsAre
<1>3. PICK b : Counts(t, b) /\ Pbufs(t) = b[n]
  BY PbufsAre
<1>4. PICK c : Counts(q, c) /\ Pbufs(q) = c[Len(q)]
  BY <1>1, PbufsAre
<1>5. /\ a \in [0 .. m -> Nat] /\ a[0] = 0
      /\ \A k \in 1 .. m : a[k] = a[k - 1] + s[k].pbufs
  BY <1>2, Zenon DEF Counts
<1>6. /\ b \in [0 .. n -> Nat] /\ b[0] = 0
      /\ \A k \in 1 .. n : b[k] = b[k - 1] + t[k].pbufs
  BY <1>3, Zenon DEF Counts
<1>7. /\ c \in [0 .. m + n -> Nat] /\ c[0] = 0
      /\ \A k \in 1 .. m + n : c[k] = c[k - 1] + q[k].pbufs
  BY <1>1, <1>4, Zenon DEF Counts
<1> HIDE DEF m, n
<1> DEFINE T == {k \in 0 .. m : c[k] = a[k]}
           U == {k \in 0 .. n : c[m + k] = a[m] + b[k]}
<1>8. \A k \in 0 .. m : k \in T
  <2>1. 0 \in T
    BY <1>1, <1>5, <1>7
  <2>2. ASSUME NEW k \in 1 .. m, k - 1 \in T
        PROVE  k \in T
    <3>1. k \in 1 .. m + n /\ q[k] = s[k] /\ c[k - 1] = a[k - 1] /\ k \in 0 .. m
      BY <1>1, <2>2
    <3>2. c[k] = a[k]
      BY <1>5, <1>7, <3>1, Zenon
    <3> QED
      BY <3>1, <3>2
  <2> HIDE DEF T
  <2> QED
    BY <1>1, <2>1, <2>2, Reaches
<1>9. \A k \in 0 .. n : k \in U
  <2>1. 0 \in U
    <3>1. m \in 0 .. m /\ m + 0 = m /\ 0 \in 0 .. n
      BY <1>1
    <3>2. c[m] = a[m] /\ a[m] \in Nat
      BY <1>5, <1>8, <3>1
    <3> QED
      BY <1>6, <3>1, <3>2
  <2>2. ASSUME NEW k \in 1 .. n, k - 1 \in U
        PROVE  k \in U
    <3>1. /\ m + k \in 1 .. m + n /\ (m + k) - 1 = m + (k - 1) /\ k \in 0 .. n
          /\ k - 1 \in 0 .. n /\ m \in 0 .. m
      BY <1>1
    <3>2. c[m + k] = c[m + (k - 1)] + t[k].pbufs
      BY <1>1, <1>7, <3>1, Zenon
    <3>3. c[m + (k - 1)] = a[m] + b[k - 1]
      BY <2>2
    <3>4. a[m] \in Nat /\ b[k - 1] \in Nat /\ b[k] \in Nat
      BY <1>5, <1>6, <3>1, Zenon
    <3>5. t[k].pbufs \in Nat
      <4>1. t[k] \in Seg
        BY ElementOfSeq DEF n
      <4> QED
        BY <4>1, SegmentFields
    <3> DEFINE x == t[k].pbufs
               y == b[k - 1]
               z == a[m]
    <3>6. b[k] = y + x
      BY <1>6, Zenon
    <3> HIDE DEF x, y, z
    <3>7. c[m + k] = (z + y) + x
      BY <3>2, <3>3, Zenon DEF x, y, z
    <3>8. (z + y) + x = z + (y + x)
      BY <3>4, <3>5 DEF x, y, z
    <3>9. c[m + k] = a[m] + b[k]
      BY <3>6, <3>7, <3>8, Zenon DEF z
    <3> QED
      BY <3>1, <3>9
  <2> HIDE DEF U
  <2> QED
    BY <1>1, <2>1, <2>2, Reaches
<1>10. c[m + n] = a[m] + b[n]
  BY <1>1, <1>9
<1>11. a[m] \in Nat /\ b[n] \in Nat
  BY <1>1, <1>5, <1>6
<1>12. Pbufs(q) = Pbufs(s) + Pbufs(t)
  BY <1>1, <1>2, <1>3, <1>4, <1>10, Zenon
<1> QED
  BY <1>2, <1>3, <1>11, <1>12, Zenon DEF q

-----------------------------------------------------------------------------
(* Segments put into a list.                                               *)

\* tcp_output and tcp_rexmit put segments into lists of segments.
LEMMA PlacedTyped ==
  ASSUME NEW q \in Seq(Seg), NEW seg \in Seg
  PROVE  Placed(q, seg) \in Seq(Seg)
<1> DEFINE T == {j \in DOMAIN q : q[j].seqno < seg.seqno}
           k == Leading(Len(q), T)
<1>1. Len(q) \in Nat /\ T \subseteq 1 .. Len(q)
  OBVIOUS
<1> HIDE DEF T
<1>2. k \in 0 .. Len(q)
  BY <1>1, LeadingIs
<1>3. Placed(q, seg) = SubSeq(q, 1, k) \o <<seg>> \o From(q, k + 1)
  BY Zenon DEF Placed, T
<1> HIDE DEF k
<1>4. SubSeq(q, 1, k) \in Seq(Seg) /\ From(q, k + 1) \in Seq(Seg) /\ <<seg>> \in Seq(Seg)
  BY <1>2, Cut
<1>5. SubSeq(q, 1, k) \o <<seg>> \in Seq(Seg)
  BY <1>4, Joined
<1>6. SubSeq(q, 1, k) \o <<seg>> \o From(q, k + 1) \in Seq(Seg)
  BY <1>4, <1>5, Joined
<1> QED
  BY <1>3, <1>6, Zenon

\* One that comes after all others goes to the end.
LEMMA PlacedLast ==
  ASSUME NEW q \in Seq(Seg), NEW seg \in Seg,
         \A i \in 1 .. Len(q) : q[i].seqno < seg.seqno
  PROVE  Placed(q, seg) = q \o <<seg>>
<1> DEFINE T == {j \in DOMAIN q : q[j].seqno < seg.seqno}
           n == Len(q)
<1>1. n \in Nat /\ T \subseteq 1 .. n /\ 1 .. n \subseteq T /\ n + 1 \notin T /\ n \in 0 .. n
  OBVIOUS
<1> HIDE DEF T
<1>2. Leading(n, T) = n
  BY <1>1, LeadingEnds
<1>3. Placed(q, seg) = SubSeq(q, 1, n) \o <<seg>> \o From(q, n + 1)
  BY <1>2, Zenon DEF Placed, T
<1>4. SubSeq(q, 1, n) = q /\ From(q, n + 1) = <<>>
  BY DEF From
<1>5. q \o <<seg>> \in Seq(Seg)
  <2>1. <<seg>> \in Seq(Seg)
    OBVIOUS
  <2> QED
    BY <2>1, Joined
<1>6. (q \o <<seg>>) \o <<>> = q \o <<seg>>
  <2> DEFINE s == q \o <<seg>>
  <2> HIDE DEF s
  <2>1. s \in Seq(Seg)
    BY <1>5 DEF s
  <2>2. s \o <<>> = s
    BY <2>1, EmptyJoins
  <2> QED
    BY <2>2 DEF s
<1> QED
  BY <1>3, <1>4, <1>6, Zenon

\* One that comes before all others goes to the front.
LEMMA PlacedFirst ==
  ASSUME NEW q \in Seq(Seg), NEW seg \in Seg,
         q # <<>> => seg.seqno <= q[1].seqno
  PROVE  Placed(q, seg) = <<seg>> \o q
<1> DEFINE T == {j \in DOMAIN q : q[j].seqno < seg.seqno}
           n == Len(q)
<1>1. n \in Nat /\ T \subseteq 1 .. n /\ 1 .. 0 \subseteq T /\ 0 \in 0 .. n
  OBVIOUS
<1>2. 0 + 1 \notin T
  <2> SUFFICES ASSUME 1 \in T PROVE FALSE
    OBVIOUS
  <2>1. q # <<>> /\ q[1] \in Seg /\ q[1].seqno < seg.seqno
    OBVIOUS
  <2>2. q[1].seqno \in Nat /\ seg.seqno \in Nat
    BY <2>1, SegmentFields
  <2> QED
    BY <2>1, <2>2
<1> HIDE DEF T
<1>3. Leading(n, T) = 0
  BY <1>1, <1>2, LeadingEnds
<1>4. Placed(q, seg) = SubSeq(q, 1, 0) \o <<seg>> \o From(q, 0 + 1)
  BY <1>3, Zenon DEF Placed, T
<1>5. SubSeq(q, 1, 0) = <<>> /\ From(q, 0 + 1) = q
  BY DEF From
<1>6. <<>> \o <<seg>> = <<seg>>
  OBVIOUS
<1> QED
  BY <1>4, <1>5, <1>6, Zenon

\* The lists that Merged goes through.
Goes(with, q, segs) ==
  /\ with[0] = q
  /\ \A j \in 1 .. Len(segs) : with[j] = Placed(with[j - 1], segs[j])

\* What Merged computes: one list after the other.
LEMMA MergedIs ==
  ASSUME NEW q \in Seq(Seg), NEW segs \in Seq(Seg)
  PROVE  \E with : Goes(with, q, segs) /\ Merged(q, segs) = with[Len(segs)]
<1> DEFINE n == Len(segs)
           step == [j \in 1 .. n |-> [x \in Seq(Seg) |-> Placed(x, segs[j])]]
           Is(f) == f = [j \in 0 .. n |-> IF j = 0 THEN q ELSE Placed(f[j - 1], segs[j])]
           with == CHOOSE f : Is(f)
<1>1. n \in Nat /\ \A j \in 1 .. n : segs[j] \in Seg
  OBVIOUS
<1>2. step \in [1 .. n -> [Seq(Seg) -> Seq(Seg)]]
  <2>1. ASSUME NEW j \in 1 .. n, NEW x \in Seq(Seg) PROVE Placed(x, segs[j]) \in Seq(Seg)
    BY <1>1, PlacedTyped
  <2> QED
    BY <2>1
<1>3. PICK f \in [0 .. n -> Seq(Seg)] : Follows(f, n, q, step)
  <2> DEFINE S == Seq(Seg)
  <2> HIDE DEF S, step, n
  <2>1. step \in [1 .. n -> [S -> S]] /\ n \in Nat /\ q \in S
    BY <1>1, <1>2 DEF S
  <2>2. \E f \in [0 .. n -> S] : Follows(f, n, q, step)
    BY <2>1, RecursionExists, Zenon
  <2> QED
    BY <2>2 DEF S
<1>4. f[0] = q /\ \A j \in 1 .. n : f[j] = step[j][f[j - 1]]
  BY <1>3, Zenon DEF Follows
<1>5. ASSUME NEW j \in 0 .. n
      PROVE  f[j] = IF j = 0 THEN q ELSE Placed(f[j - 1], segs[j])
  <2>1. CASE j = 0
    BY <1>4, <2>1
  <2>2. CASE j # 0
    <3>1. j \in 1 .. n /\ j - 1 \in 0 .. n
      BY <1>1, <2>2
    <3>2. f[j - 1] \in Seq(Seg)
      BY <3>1
    <3>3. step[j][f[j - 1]] = Placed(f[j - 1], segs[j])
      BY <3>1, <3>2, Zenon
    <3> QED
      BY <1>4, <2>2, <3>1, <3>3, Zenon
  <2> QED
    BY <2>1, <2>2
<1>6. Is(f)
  <2>1. f = [j \in 0 .. n |-> f[j]]
    OBVIOUS
  <2> QED
    BY <1>5, <2>1, Zenon
<1>7. Is(with)
  <2> HIDE DEF Is
  <2> QED
    BY <1>6, Zenon
<1>8. Merged(q, segs) = with[Len(segs)]
  BY Zenon DEF Merged
<1>9. with = [j \in 0 .. n |-> IF j = 0 THEN q ELSE Placed(with[j - 1], segs[j])]
  BY <1>7
<1> HIDE DEF with
<1>10. with[0] = q
  <2>1. 0 \in 0 .. n
    BY <1>1
  <2> QED
    BY <1>9, <2>1, Zenon
<1>11. ASSUME NEW j \in 1 .. n PROVE with[j] = Placed(with[j - 1], segs[j])
  <2>1. j \in 0 .. n /\ j # 0
    BY <1>1
  <2> QED
    BY <1>9, <2>1, Zenon
<1> QED
  BY <1>8, <1>10, <1>11, Zenon DEF Goes

\* The segments behind the i-th come after those of a list, and in order.
Behind(r, segs, i) ==
  /\ \A j \in i + 1 .. Len(segs) : \A l \in 1 .. Len(r) : r[l].seqno < segs[j].seqno
  /\ \A j \in i + 1 .. Len(segs) : \A l \in i + 1 .. j - 1 : segs[l].seqno < segs[j].seqno
EndsWith(with, segs, r, i) == with[Len(segs)] = r \o From(segs, i + 1)

\* From the i-th list on the segments only follow each other.
LEMMA MergedOn ==
  ASSUME NEW q \in Seq(Seg), NEW segs \in Seq(Seg), NEW with, Goes(with, q, segs),
         NEW i \in 0 .. Len(segs), NEW r \in Seq(Seg), with[i] = r,
         Behind(r, segs, i)
  PROVE  EndsWith(with, segs, r, i)
<1> DEFINE n == Len(segs)
           Part(j) == SubSeq(segs, i + 1, j)
           T == {j \in 0 .. n : j < i \/ with[j] = r \o Part(j)}
<1>0. \A j : j \in T <=> j \in 0 .. n /\ (j < i \/ with[j] = r \o Part(j))
  BY Zenon
<1> HIDE DEF T
<1>1. n \in Nat /\ i \in Nat /\ \A j \in 1 .. n : segs[j] \in Seg
  OBVIOUS
<1>2. ASSUME NEW j \in i .. n
      PROVE  /\ Part(j) \in Seq(Seg) /\ Len(Part(j)) = j - i
             /\ \A l \in 1 .. j - i : Part(j)[l] = segs[i + l]
  BY <1>1
<1>3. i \in T
  <2>1. Part(i) = <<>>
    BY <1>1
  <2>2. r \o <<>> = r
    BY EmptyJoins
  <2>3. with[i] = r \o Part(i)
    BY <2>1, <2>2, Zenon
  <2> QED
    BY <1>0, <2>3, Zenon
<1>4. ASSUME NEW j \in 1 .. n, j - 1 \in T
      PROVE  j \in T
  <2>0. j \in 0 .. n
    OBVIOUS
  <2>1. CASE j < i
    BY <1>0, <2>0, <2>1, Zenon
  <2>2. CASE j = i
    BY <1>3, <2>2
  <2>3. CASE j > i
    <3>1. j - 1 \in i .. n /\ j \in i .. n /\ j \in i + 1 .. n
      BY <2>3
    <3>2. with[j - 1] = r \o Part(j - 1)
      <4>1. ~(j - 1 < i)
        BY <2>3
      <4> QED
        BY <1>0, <1>4, <4>1, Zenon
    <3> DEFINE p == r \o Part(j - 1)
    <3>3. /\ Part(j - 1) \in Seq(Seg) /\ Len(Part(j - 1)) = (j - 1) - i
          /\ \A l \in 1 .. (j - 1) - i : Part(j - 1)[l] = segs[i + l]
      BY <1>2, <3>1
    <3>4. /\ p \in Seq(Seg) /\ Len(p) = Len(r) + Len(Part(j - 1))
          /\ \A l \in 1 .. Len(r) : p[l] = r[l]
          /\ \A l \in 1 .. Len(Part(j - 1)) : p[Len(r) + l] = Part(j - 1)[l]
          /\ Len(r) \in Nat
      BY <3>3, Joined
    <3> HIDE DEF p
    <3>5. ASSUME NEW l \in 1 .. Len(p)
          PROVE  p[l].seqno < segs[j].seqno
      <4>1. CASE l <= Len(r)
        <5>1. l \in 1 .. Len(r)
          BY <3>4, <4>1
        <5> QED
          BY <3>1, <3>4, <5>1, Zenon DEF Behind
      <4>2. CASE ~(l <= Len(r))
        <5> DEFINE m == l - Len(r)
        <5>1. m \in 1 .. (j - 1) - i /\ l = Len(r) + m /\ i + m \in i + 1 .. j - 1
          BY <1>1, <3>3, <3>4, <4>2
        <5> HIDE DEF m
        <5>2. p[l] = segs[i + m]
          BY <3>3, <3>4, <5>1, Zenon
        <5> QED
          BY <3>1, <5>1, <5>2, Zenon DEF Behind
      <4> QED
        BY <4>1, <4>2
    <3>6. with[j] = p \o <<segs[j]>>
      <4>1. with[j] = Placed(p, segs[j])
        BY <3>2, Zenon DEF Goes, p
      <4>2. Placed(p, segs[j]) = p \o <<segs[j]>>
        BY <1>1, <3>4, <3>5, PlacedLast
      <4> QED
        BY <4>1, <4>2, Zenon
    <3>7. Part(j) = Part(j - 1) \o <<segs[j]>>
      BY <1>1, <3>1, <2>3
    <3>8. r \o Part(j) = p \o <<segs[j]>>
      <4>1. <<segs[j]>> \in Seq(Seg)
        BY <1>1
      <4> DEFINE y == Part(j - 1)
                 z == <<segs[j]>>
      <4> HIDE DEF y, z
      <4>2. (r \o y) \o z = r \o (y \o z)
        <5>1. y \in Seq(Seg) /\ z \in Seq(Seg)
          BY <3>3, <4>1 DEF y, z
        <5> QED
          BY <5>1
      <4> QED
        BY <3>7, <4>2, Zenon DEF p, y, z
    <3>9. with[j] = r \o Part(j)
      BY <3>6, <3>8, Zenon
    <3> QED
      BY <1>0, <2>0, <3>9, Zenon
  <2>4. j < i \/ j = i \/ j > i
    BY <1>1
  <2> QED
    BY <2>1, <2>2, <2>3, <2>4
<1>5. \A j \in 0 .. n : j \in T
  <2>1. 0 \in T
    <3>1. 0 \in 0 .. n /\ (0 < i \/ i = 0)
      BY <1>1
    <3> QED
      BY <1>0, <1>3, <3>1, Zenon
  <2> HIDE DEF n
  <2> QED
    BY <1>1, <1>4, <2>1, Reaches
<1>6. with[n] = r \o Part(n)
  <2>1. n \in 0 .. n /\ ~(n < i)
    BY <1>1
  <2> QED
    BY <1>0, <1>5, <2>1, Zenon
<1>7. Part(n) = From(segs, i + 1)
  BY Zenon DEF From
<1> QED
  BY <1>6, <1>7, Zenon DEF EndsWith

\* Segments that come after all others and in order.
LEMMA MergedBehind ==
  ASSUME NEW q \in Seq(Seg), NEW segs \in Seq(Seg),
         \A j \in 1 .. Len(segs) : \A l \in 1 .. Len(q) : q[l].seqno < segs[j].seqno,
         \A j \in 1 .. Len(segs) : \A l \in 1 .. j - 1 : segs[l].seqno < segs[j].seqno
  PROVE  Merged(q, segs) = q \o segs
<1>1. PICK with : Goes(with, q, segs) /\ Merged(q, segs) = with[Len(segs)]
  BY MergedIs
<1>2. with[0] = q /\ 0 \in 0 .. Len(segs) /\ 0 + 1 = 1
  BY <1>1 DEF Goes
<1>3. with[Len(segs)] = q \o From(segs, 0 + 1)
  <2>1. /\ \A j \in 0 + 1 .. Len(segs) : \A l \in 1 .. Len(q) : q[l].seqno < segs[j].seqno
        /\ \A j \in 0 + 1 .. Len(segs) : \A l \in 0 + 1 .. j - 1 :
              segs[l].seqno < segs[j].seqno
    BY <1>2, Zenon
  <2> QED
    <3>1. Behind(q, segs, 0)
      BY <2>1, Zenon DEF Behind
    <3>2. EndsWith(with, segs, q, 0)
      BY <1>1, <1>2, <3>1, MergedOn, Zenon
    <3> QED
      BY <3>2, Zenon DEF EndsWith
<1>4. From(segs, 0 + 1) = segs
  BY DEF From
<1> QED
  BY <1>1, <1>3, <1>4, Zenon

\* The same, but the first of them comes before all others.
LEMMA MergedAround ==
  ASSUME NEW q \in Seq(Seg), NEW segs \in Seq(Seg), segs # <<>>,
         q # <<>> => segs[1].seqno <= q[1].seqno,
         \A j \in 2 .. Len(segs) : \A l \in 1 .. Len(q) : q[l].seqno < segs[j].seqno,
         \A j \in 1 .. Len(segs) : \A l \in 1 .. j - 1 : segs[l].seqno < segs[j].seqno
  PROVE  Merged(q, segs) = (<<segs[1]>> \o q) \o From(segs, 2)
<1>1. PICK with : Goes(with, q, segs) /\ Merged(q, segs) = with[Len(segs)]
  BY MergedIs
<1> DEFINE h == segs[1]
           r == <<h>> \o q
<1>2. 1 \in 1 .. Len(segs) /\ h \in Seg /\ <<h>> \in Seq(Seg) /\ Len(<<h>>) = 1 /\ <<h>>[1] = h
  OBVIOUS
<1>3. /\ r \in Seq(Seg) /\ Len(r) = 1 + Len(q) /\ r[1] = h
      /\ \A l \in 1 .. Len(q) : r[1 + l] = q[l]
      /\ Len(q) \in Nat
  BY <1>2, Joined
<1>4. with[1] = r
  <2>1. Placed(q, h) = r
    BY <1>2, PlacedFirst
  <2>2. with[1] = Placed(with[1 - 1], segs[1]) /\ with[0] = q /\ 1 - 1 = 0
    <3>1. 1 - 1 = 0
      OBVIOUS
    <3> QED
      BY <1>1, <1>2, <3>1, Zenon DEF Goes
  <2> QED
    BY <2>1, <2>2, Zenon
<1>5. ASSUME NEW j \in 1 + 1 .. Len(segs), NEW l \in 1 .. Len(r)
      PROVE  r[l].seqno < segs[j].seqno
  <2>1. CASE l = 1
    <3>1. j \in 1 .. Len(segs) /\ 1 \in 1 .. j - 1
      OBVIOUS
    <3> QED
      BY <1>3, <2>1, <3>1, Zenon
  <2>2. CASE l # 1
    <3>1. l - 1 \in 1 .. Len(q) /\ 1 + (l - 1) = l /\ j \in 2 .. Len(segs)
      BY <1>3, <2>2
    <3>2. r[l] = q[l - 1]
      BY <1>3, <3>1, Zenon
    <3> QED
      BY <3>1, <3>2, Zenon
  <2> QED
    BY <2>1, <2>2
<1>6. ASSUME NEW j \in 1 + 1 .. Len(segs), NEW l \in 1 + 1 .. j - 1
      PROVE  segs[l].seqno < segs[j].seqno
  OBVIOUS
<1>7. 1 \in 0 .. Len(segs)
  BY <1>2
<1> HIDE DEF r
<1>8. with[Len(segs)] = r \o From(segs, 1 + 1)
  <2>1. /\ \A j \in 1 + 1 .. Len(segs) : \A l \in 1 .. Len(r) : r[l].seqno < segs[j].seqno
        /\ \A j \in 1 + 1 .. Len(segs) : \A l \in 1 + 1 .. j - 1 :
              segs[l].seqno < segs[j].seqno
    BY <1>5, <1>6, Zenon
  <2> QED
    <3>1. Behind(r, segs, 1)
      BY <2>1, Zenon DEF Behind
    <3>2. EndsWith(with, segs, r, 1)
      BY <1>1, <1>3, <1>4, <1>7, <3>1, MergedOn, Zenon
    <3> QED
      BY <3>2, Zenon DEF EndsWith
<1>9. 1 + 1 = 2
  OBVIOUS
<1> QED
  BY <1>1, <1>8, <1>9, Zenon DEF r

-----------------------------------------------------------------------------
(* Lists that cover the bytes from lo to hi.                               *)

Linked(Q) == \A j \in 1 .. Len(Q) - 1 : End(Q[j]) = Q[j + 1].seqno

Covering(Q, lo, hi) ==
  /\ Linked(Q)
  /\ Q = <<>> => lo = hi
  /\ Q # <<>> => Q[1].seqno <= lo /\ lo < End(Q[1]) /\ End(Q[Len(Q)]) = hi

\* A segment of a list.
LEMMA SegmentAt ==
  ASSUME NEW Q \in Seq(Seg), NEW i \in 1 .. Len(Q)
  PROVE  /\ Q[i] \in Seg /\ Q[i].seqno \in Nat /\ End(Q[i]) \in Nat
         /\ Q[i].seqno < End(Q[i]) /\ Len(Q) \in Nat /\ Q[i].len \in Nat
         /\ End(Q[i]) = Q[i].seqno + Q[i].len
<1>1. Q[i] \in Seg /\ Len(Q) \in Nat
  OBVIOUS
<1> QED
  BY <1>1, SegmentFields

\* A segment ends before every later one.
LEMMA LinkedOrder ==
  ASSUME NEW Q \in Seq(Seg), Linked(Q), NEW i \in 1 .. Len(Q), NEW j \in i + 1 .. Len(Q)
  PROVE  End(Q[i]) <= Q[j].seqno
<1> DEFINE n == Len(Q)
           a == End(Q[i])
           T == {k \in 0 .. n : k <= i \/ a <= Q[k].seqno}
<1>1. n \in Nat /\ a \in Nat
  BY SegmentAt
<1> HIDE DEF a
<1>2. 0 \in T
  BY <1>1
<1>3. ASSUME NEW k \in 1 .. n, k - 1 \in T
      PROVE  k \in T
  <2>1. CASE k <= i
    BY <2>1
  <2>2. CASE k = i + 1
    <3>1. i \in 1 .. Len(Q) - 1
      BY <2>2
    <3>2. a = Q[k].seqno
      BY <2>2, <3>1 DEF Linked, a
    <3> QED
      BY <1>1, <3>2
  <2>3. CASE k > i + 1
    <3>1. k - 1 \in 1 .. Len(Q) - 1 /\ k - 1 \in 1 .. Len(Q) /\ (k - 1) + 1 = k
      BY <2>3
    <3>2. a <= Q[k - 1].seqno
      BY <1>3, <2>3
    <3>3. End(Q[k - 1]) = Q[k].seqno
      BY <3>1, Zenon DEF Linked
    <3>4. Q[k - 1].seqno \in Nat /\ End(Q[k - 1]) \in Nat /\ Q[k - 1].seqno < End(Q[k - 1])
      BY <3>1, SegmentAt, Zenon
    <3> DEFINE x == Q[k - 1].seqno
               y == End(Q[k - 1])
               z == Q[k].seqno
    <3> HIDE DEF x, y, z
    <3>5. a <= z
      <4>1. a <= x /\ y = z /\ x \in Nat /\ y \in Nat /\ x < y
        BY <3>2, <3>3, <3>4, Zenon DEF x, y, z
      <4> QED
        BY <1>1, <4>1
    <3>6. a <= Q[k].seqno
      BY <3>5, Zenon DEF z
    <3> QED
      BY <3>6
  <2>4. k <= i \/ k = i + 1 \/ k > i + 1
    OBVIOUS
  <2> QED
    BY <2>1, <2>2, <2>3, <2>4
<1>4. \A k \in 0 .. n : k \in T
  <2> HIDE DEF T, n
  <2> QED
    BY <1>1, <1>2, <1>3, Reaches
<1>5. a <= Q[j].seqno
  BY <1>4
<1> QED
  BY <1>5 DEF a

\* The numbers rise along a linked list.
LEMMA LinkedRises ==
  ASSUME NEW Q \in Seq(Seg), Linked(Q), NEW i \in 1 .. Len(Q), NEW j \in i + 1 .. Len(Q)
  PROVE  Q[i].seqno < Q[j].seqno /\ End(Q[i]) < End(Q[j])
<1>1. End(Q[i]) <= Q[j].seqno
  BY LinkedOrder
<1>2. j \in 1 .. Len(Q)
  OBVIOUS
<1>3. /\ Q[i].seqno \in Nat /\ End(Q[i]) \in Nat /\ Q[i].seqno < End(Q[i])
      /\ Q[j].seqno \in Nat /\ End(Q[j]) \in Nat /\ Q[j].seqno < End(Q[j])
  BY <1>2, SegmentAt
<1> QED
  BY <1>1, <1>3

\* Its parts are linked.
LEMMA LinkedParts ==
  ASSUME NEW A \in Seq(Seg), NEW U \in Seq(Seg), Linked(A \o U)
  PROVE  /\ Linked(A) /\ Linked(U)
         /\ \A i \in 1 .. Len(A) : \A j \in 1 .. Len(U) : End(A[i]) <= U[j].seqno
<1> DEFINE Q == A \o U
           m == Len(A)
           n == Len(U)
<1>1. /\ Q \in Seq(Seg) /\ Len(Q) = m + n /\ m \in Nat /\ n \in Nat
      /\ \A i \in 1 .. m : Q[i] = A[i]
      /\ \A i \in 1 .. n : Q[m + i] = U[i]
  BY Joined
<1>2. Linked(Q)
  OBVIOUS
<1> HIDE DEF Q
<1>3. ASSUME NEW j \in 1 .. m - 1 PROVE End(A[j]) = A[j + 1].seqno
  <2>1. j \in 1 .. Len(Q) - 1 /\ j \in 1 .. m /\ j + 1 \in 1 .. m
    BY <1>1
  <2> QED
    BY <1>1, <1>2, <2>1, Zenon DEF Linked
<1>4. ASSUME NEW j \in 1 .. n - 1 PROVE End(U[j]) = U[j + 1].seqno
  <2>1. m + j \in 1 .. Len(Q) - 1 /\ j \in 1 .. n /\ j + 1 \in 1 .. n
        /\ (m + j) + 1 = m + (j + 1)
    BY <1>1
  <2>2. End(Q[m + j]) = Q[(m + j) + 1].seqno
    BY <1>2, <2>1, Zenon DEF Linked
  <2> QED
    BY <1>1, <2>1, <2>2, Zenon
<1>5. ASSUME NEW i \in 1 .. m, NEW j \in 1 .. n PROVE End(A[i]) <= U[j].seqno
  <2>1. i \in 1 .. Len(Q) /\ m + j \in i + 1 .. Len(Q)
    BY <1>1
  <2>2. End(Q[i]) <= Q[m + j].seqno
    BY <1>1, <1>2, <2>1, LinkedOrder, Zenon
  <2> QED
    BY <1>1, <2>2, Zenon
<1> QED
  BY <1>3, <1>4, <1>5, Zenon DEF Linked

\* What is left when the segments that end by ackno are dropped.
LEMMA CoveringCut ==
  ASSUME NEW Q \in Seq(Seg), NEW lo \in Nat, NEW hi \in Nat, Covering(Q, lo, hi),
         NEW ackno \in lo .. hi, NEW k \in 0 .. Len(Q),
         \A i \in 1 .. k : End(Q[i]) <= ackno,
         k < Len(Q) => End(Q[k + 1]) > ackno
  PROVE  Covering(From(Q, k + 1), ackno, hi)
<1> DEFINE R == From(Q, k + 1)
           n == Len(Q)
<1>1. /\ R \in Seq(Seg) /\ Len(R) = n - k /\ n \in Nat
      /\ \A i \in 1 .. n - k : R[i] = Q[k + i]
  BY Cut
<1> SUFFICES Covering(R, ackno, hi)
  OBVIOUS
<1> HIDE DEF R
<1>2. /\ Linked(Q) /\ (Q = <<>> => lo = hi)
      /\ Q # <<>> => Q[1].seqno <= lo /\ lo < End(Q[1]) /\ End(Q[Len(Q)]) = hi
  BY Zenon DEF Covering
<1>3. ASSUME NEW j \in 1 .. Len(R) - 1 PROVE End(R[j]) = R[j + 1].seqno
  <2>1. /\ k + j \in 1 .. Len(Q) - 1 /\ j \in 1 .. n - k /\ j + 1 \in 1 .. n - k
        /\ (k + j) + 1 = k + (j + 1)
    BY <1>1
  <2>2. End(Q[k + j]) = Q[(k + j) + 1].seqno
    BY <1>2, <2>1, Zenon DEF Linked
  <2> QED
    BY <1>1, <2>1, <2>2, Zenon
<1>9. Linked(R)
  BY <1>3, Zenon DEF Linked
<1>4. CASE k = n
  <2>1. R = <<>>
    BY <1>1, <1>4
  <2>2. ackno = hi
    <3>1. CASE Q = <<>>
      BY <1>2, <3>1
    <3>2. CASE Q # <<>>
      <4>1. n \in 1 .. k
        BY <1>1, <1>4, <3>2
      <4>2. End(Q[n]) <= ackno /\ End(Q[n]) = hi
        BY <1>2, <3>2, <4>1, Zenon
      <4> QED
        BY <4>2
    <3> QED
      BY <3>1, <3>2
  <2> QED
    BY <1>9, <2>1, <2>2, Zenon DEF Covering
<1>5. CASE k < n
  <2>1. Q # <<>> /\ R # <<>> /\ 1 \in 1 .. n - k /\ k + 1 \in 1 .. n
    BY <1>1, <1>5
  <2>2. R[1] = Q[k + 1]
    BY <1>1, <2>1, Zenon
  <2>3. ackno < End(R[1])
    <3>1. End(Q[k + 1]) > ackno /\ End(Q[k + 1]) \in Nat
      BY <1>5, <2>1, SegmentAt, Zenon
    <3> QED
      BY <2>2, <3>1
  <2>4. R[1].seqno <= ackno
    <3>1. CASE k = 0
      <4>1. Q[1].seqno \in Nat /\ Q[1].seqno <= lo
        <5>1. 1 \in 1 .. Len(Q)
          BY <1>1, <1>5
        <5> QED
          BY <1>2, <2>1, <5>1, SegmentAt, Zenon
      <4>2. R[1] = Q[1]
        BY <2>2, <3>1
      <4> QED
        BY <4>1, <4>2
    <3>2. CASE k # 0
      <4>1. k \in 1 .. Len(Q) - 1 /\ k \in 1 .. k
        BY <1>1, <1>5, <3>2
      <4>2. End(Q[k]) = Q[k + 1].seqno /\ End(Q[k]) <= ackno
        BY <1>2, <4>1, Zenon DEF Linked
      <4> QED
        BY <2>2, <4>2, Zenon
    <3> QED
      BY <3>1, <3>2
  <2>5. End(R[Len(R)]) = hi
    <3>1. Len(R) \in 1 .. n - k /\ k + Len(R) = n
      BY <1>1, <1>5
    <3>2. R[Len(R)] = Q[n]
      BY <1>1, <3>1, Zenon
    <3> QED
      BY <1>2, <2>1, <3>2, Zenon
  <2> QED
    BY <1>9, <2>1, <2>3, <2>4, <2>5, Zenon DEF Covering
<1>6. k = n \/ k < n
  BY <1>1
<1> QED
  BY <1>4, <1>5, <1>6

\* Every byte is in exactly one segment, and no segment is outside.
LEMMA CoveredOnce ==
  ASSUME NEW Q \in Seq(Seg), NEW lo \in Nat, NEW hi \in Nat, Covering(Q, lo, hi)
  PROVE  /\ \A n \in lo .. hi - 1 :
              \E j \in 1 .. Len(Q) : \A i \in 1 .. Len(Q) :
                 (Q[i].seqno <= n /\ n < End(Q[i])) <=> i = j
         /\ \A i \in 1 .. Len(Q) : lo < End(Q[i]) /\ End(Q[i]) <= hi
<1>1. /\ Linked(Q) /\ (Q = <<>> => lo = hi)
      /\ Q # <<>> => Q[1].seqno <= lo /\ lo < End(Q[1]) /\ End(Q[Len(Q)]) = hi
  BY Zenon DEF Covering
<1>2. Len(Q) \in Nat
  OBVIOUS
<1> DEFINE N == Len(Q)
           e == [i \in 1 .. N |-> End(Q[i])]
           s == [i \in 1 .. N |-> Q[i].seqno]
<1>3. \A i \in 1 .. N : e[i] \in Nat /\ s[i] \in Nat /\ s[i] < e[i]
  BY SegmentAt
<1>4. \A i \in 1 .. N : \A j \in i + 1 .. N : e[i] <= s[j]
  <2> SUFFICES ASSUME NEW i \in 1 .. N, NEW j \in i + 1 .. N PROVE e[i] <= s[j]
    OBVIOUS
  <2>1. End(Q[i]) <= Q[j].seqno
    BY <1>1, LinkedOrder
  <2>2. i \in 1 .. N /\ j \in 1 .. N
    OBVIOUS
  <2> QED
    BY <2>1, <2>2, Zenon
<1>5. \A i \in 1 .. N - 1 : e[i] = s[i + 1]
  BY <1>1 DEF Linked
<1>6. N > 0 => s[1] <= lo /\ lo < e[1] /\ e[N] = hi
  <2> SUFFICES ASSUME N > 0 PROVE s[1] <= lo /\ lo < e[1] /\ e[N] = hi
    OBVIOUS
  <2>1. Q # <<>> /\ 1 \in 1 .. N /\ N \in 1 .. N
    BY <1>2
  <2> QED
    BY <1>1, <2>1
<1>7. N = 0 => lo = hi
  BY <1>1
<1> HIDE DEF N
<1>8. \A i \in 1 .. N : e[i] = End(Q[i]) /\ s[i] = Q[i].seqno
  BY Zenon
<1> HIDE DEF e, s
<1>9. ASSUME NEW n \in lo .. hi - 1
      PROVE  \E j \in 1 .. N : \A i \in 1 .. N : (s[i] <= n /\ n < e[i]) <=> i = j
  <2> DEFINE L == {i \in 1 .. N : n < e[i]}
  <2>0. N \in Nat
    BY <1>2 DEF N
  <2>1. N > 0 /\ N \in L /\ L \in SUBSET Nat /\ L # {}
    <3>1. N # 0
      BY <1>7, <2>0
    <3>2. N > 0 /\ N \in 1 .. N /\ n < e[N]
      BY <1>6, <2>0, <3>1
    <3> QED
      BY <3>2
  <2>2. PICK j \in L : \A i \in L : j <= i
    <3> HIDE DEF L
    <3> QED
      BY <2>1, LowestExists
  <2>3. j \in 1 .. N /\ n < e[j]
    BY <2>2
  <2>4. s[j] <= n
    <3>1. CASE j = 1
      BY <1>3, <1>6, <2>1, <3>1
    <3>2. CASE j # 1
      <4>1. j - 1 \in 1 .. N - 1 /\ j - 1 \in 1 .. N /\ (j - 1) + 1 = j /\ ~(j <= j - 1)
        BY <2>0, <2>3, <3>2
      <4>2. ~(n < e[j - 1])
        BY <2>2, <4>1
      <4>3. e[j - 1] = s[j] /\ e[j - 1] \in Nat
        BY <1>3, <1>5, <4>1, Zenon
      <4> QED
        BY <4>2, <4>3
    <3> QED
      BY <3>1, <3>2
  <2>5. ASSUME NEW i \in 1 .. N
        PROVE  (s[i] <= n /\ n < e[i]) <=> i = j
    <3>1. CASE i = j
      BY <2>3, <2>4, <3>1
    <3>2. CASE i < j
      <4>1. j \in i + 1 .. N
        BY <2>3, <3>2
      <4>2. e[i] <= s[j] /\ e[i] \in Nat /\ s[j] \in Nat
        BY <1>3, <1>4, <2>3, <4>1, Zenon
      <4> QED
        BY <2>4, <3>2, <4>2
    <3>3. CASE j < i
      <4>1. i \in j + 1 .. N
        BY <2>3, <3>3
      <4>2. e[j] <= s[i] /\ e[j] \in Nat /\ s[i] \in Nat
        BY <1>3, <1>4, <2>3, <4>1, Zenon
      <4> QED
        BY <2>3, <3>3, <4>2
    <3> QED
      BY <2>3, <3>1, <3>2, <3>3
  <2> QED
    BY <2>3, <2>5, Zenon
<1>10. ASSUME NEW i \in 1 .. N
       PROVE  lo < e[i] /\ e[i] <= hi
  <2>0. N \in Nat /\ N > 0 /\ 1 \in 1 .. N /\ N \in 1 .. N
    BY <1>2 DEF N
  <2>1. lo < e[i]
    <3>1. CASE i = 1
      BY <1>6, <2>0, <3>1
    <3>2. CASE i # 1
      <4>1. i \in 1 + 1 .. N
        BY <3>2
      <4>2. e[1] <= s[i] /\ e[1] \in Nat /\ s[i] \in Nat /\ s[i] < e[i] /\ e[i] \in Nat
        BY <1>3, <1>4, <2>0, <4>1, Zenon
      <4> QED
        BY <1>6, <2>0, <4>2
    <3> QED
      BY <3>1, <3>2
  <2>2. e[i] <= hi
    <3>1. CASE i = N
      BY <1>3, <1>6, <2>0, <3>1
    <3>2. CASE i # N
      <4>1. N \in i + 1 .. N
        BY <2>0, <3>2
      <4>2. e[i] <= s[N] /\ e[i] \in Nat /\ s[N] \in Nat /\ s[N] < e[N] /\ e[N] \in Nat
        BY <1>3, <1>4, <2>0, <4>1, Zenon
      <4> QED
        BY <1>6, <2>0, <4>2
    <3> QED
      BY <3>1, <3>2
  <2> QED
    BY <2>1, <2>2
<1> QED
  BY <1>8, <1>9, <1>10 DEF N

-----------------------------------------------------------------------------
(* The control block.                                                      *)

Sending == [seqno : Nat, len : Nat]
Thresholds == {n \in Nat : MSS <= n}
Pcb ==
  [unsent : Seq(Seg), unacked : Seq(Seg), unsent_oversize : Nat,
   snd_buf : Int, snd_queuelen : Int, snd_nxt : Nat, snd_lbb : Nat,
   lastack : Nat, snd_wnd : Nat, snd_wl2 : Nat, wl1 : BOOLEAN,
   cwnd : MSS .. CwndMax, ssthresh : Thresholds, dupacks : Nat, nrtx : Nat,
   flags : SUBSET Flags, timer : BOOLEAN, persist : BOOLEAN, out : SUBSET Sending]

SameQueues(c, d) ==
  /\ d.unsent = c.unsent /\ d.unacked = c.unacked
  /\ d.unsent_oversize = c.unsent_oversize
  /\ d.snd_buf = c.snd_buf /\ d.snd_queuelen = c.snd_queuelen
  /\ d.snd_nxt = c.snd_nxt /\ d.snd_lbb = c.snd_lbb /\ d.lastack = c.lastack
  /\ d.timer = c.timer
SameWindow(c, d) == d.snd_wnd = c.snd_wnd /\ d.snd_wl2 = c.snd_wl2 /\ d.wl1 = c.wl1

\* A list Q of all segments, in order: it covers what is written and not
\* acknowledged, and the counts are those of it.
Counted(c, Q) ==
  /\ Covering(Q, c.lastack, c.snd_lbb)
  /\ c.lastack <= c.snd_nxt /\ c.snd_nxt <= c.snd_lbb /\ c.snd_lbb <= StreamMax
  /\ c.snd_buf + c.snd_lbb - c.lastack = TCP_SND_BUF /\ 0 <= c.snd_buf
  /\ c.snd_queuelen = Pbufs(Q) /\ c.snd_queuelen <= TCP_SND_QUEUELEN
Room(c) ==
  /\ c.unsent = <<>> => c.unsent_oversize = 0
  /\ c.unsent # <<>> =>
       /\ c.unsent_oversize <= c.unsent[Len(c.unsent)].room
       /\ c.unsent[Len(c.unsent)].len + c.unsent_oversize <= Mss_local
Sent(c) ==
  /\ \A i \in 1 .. Len(c.unacked) : End(c.unacked[i]) <= c.snd_nxt
  /\ c.unacked # <<>> => c.timer
QueueInv(c) ==
  Counted(c, c.unacked \o c.unsent) /\ Room(c) /\ Sent(c)

\* After tcp_rexmit_fast, and until tcp_output, the first segment of all is the
\* first unsent one, and nothing keeps it from being sent.
Turned(c) == (<<c.unsent[1]>> \o c.unacked) \o From(c.unsent, 2)
FastInv(c) ==
  /\ c.unsent # <<>> /\ Counted(c, Turned(c)) /\ Room(c) /\ Sent(c)
  /\ End(c.unsent[1]) <= c.snd_nxt
  /\ InWindow(c, c.unsent[1]) /\ NaglePermits(c, 1)

\* What is out is inside the window.
InsideWindow(c) == c.snd_nxt <= c.lastack + c.snd_wnd

\* How far the server can have got, a probe's byte included.
Ahead(c, n) == n <= c.snd_nxt \/ (n = c.snd_nxt + 1 /\ c.lastack = c.snd_nxt)
OutInv(c) ==
  \A m \in c.out : m \in Sending /\ m.len \in 1 .. MSS /\ End(m) <= StreamMax /\ Ahead(c, End(m))

\* The fields of a control block.
LEMMA PcbFields ==
  ASSUME NEW c \in Pcb
  PROVE  /\ c.unsent \in Seq(Seg) /\ c.unacked \in Seq(Seg) /\ c.unsent_oversize \in Nat
         /\ c.snd_buf \in Int /\ c.snd_queuelen \in Int /\ c.snd_nxt \in Nat
         /\ c.snd_lbb \in Nat /\ c.lastack \in Nat /\ c.snd_wnd \in Nat
         /\ c.snd_wl2 \in Nat /\ c.wl1 \in BOOLEAN /\ c.cwnd \in Nat
         /\ MSS <= c.cwnd /\ c.cwnd <= CwndMax /\ c.ssthresh \in Nat /\ MSS <= c.ssthresh
         /\ c.dupacks \in Nat /\ c.nrtx \in Nat /\ c.flags \in SUBSET Flags
         /\ c.timer \in BOOLEAN /\ c.persist \in BOOLEAN /\ c.out \in SUBSET Sending
BY Numbers DEF Pcb, Thresholds

\* What does not touch the queues.
LEMMA SameKeeps ==
  ASSUME NEW c, NEW d, SameQueues(c, d)
  PROVE  /\ QueueInv(c) => QueueInv(d)
         /\ d.out = c.out /\ OutInv(c) => OutInv(d)
BY Zenon DEF SameQueues, QueueInv, Counted, Room, Sent, OutInv, Ahead

\* tcp_write that fails changes a flag.
LEMMA MemErrFields ==
  ASSUME NEW c \in Pcb
  PROVE  /\ MemErr(c) \in Pcb /\ SameQueues(c, MemErr(c)) /\ SameWindow(c, MemErr(c))
         /\ MemErr(c).out = c.out
<1>1. c.flags \cup {"NAGLEMEMERR"} \in SUBSET Flags
  BY DEF Pcb, Flags
<1> QED
  BY <1>1 DEF MemErr, Pcb, SameQueues, SameWindow

\* The window update changes the window.
LEMMA WindowFields ==
  ASSUME NEW c \in Pcb, NEW ackno \in Nat, NEW wnd \in Nat
  PROVE  /\ Window(c, ackno, wnd) \in Pcb /\ SameQueues(c, Window(c, ackno, wnd))
         /\ Window(c, ackno, wnd).out = c.out
         /\ Window(c, ackno, wnd).flags = c.flags
BY DEF Window, Pcb, SameQueues

-----------------------------------------------------------------------------
(* tcp_output.                                                             *)

\* What Sendable computes: the unsent segments, as far as all are in the window.
LEMMA SendableIs ==
  ASSUME NEW c \in Pcb
  PROVE  /\ Sendable(c) \in 0 .. Len(c.unsent)
         /\ \A j \in 1 .. Sendable(c) : InWindow(c, c.unsent[j])
         /\ c.unsent # <<>> /\ InWindow(c, c.unsent[1]) /\ NaglePermits(c, 1)
              => Sendable(c) # 0
<1> DEFINE U == c.unsent
           T == {j \in DOMAIN U : InWindow(c, U[j]) /\ NaglePermits(c, j)}
           k == Leading(Len(U), T)
<1>1. U \in Seq(Seg) /\ DOMAIN U = 1 .. Len(U) /\ Len(U) \in Nat
  BY PcbFields
<1>2. Sendable(c) = k
  BY Zenon DEF Sendable
<1>3. T \subseteq 1 .. Len(U)
  BY <1>1, Zenon
<1>4. k \in 0 .. Len(U) /\ 1 .. k \subseteq T /\ k + 1 \notin T
  <2> HIDE DEF T, U
  <2> QED
    BY <1>1, <1>3, LeadingIs
<1>5. \A j \in T : InWindow(c, U[j])
  BY Zenon
<1>6. \A j \in 1 .. k : InWindow(c, U[j])
  <2> HIDE DEF T, U, k
  <2> QED
    BY <1>4, <1>5
<1>7. ASSUME U # <<>>, InWindow(c, U[1]), NaglePermits(c, 1) PROVE k # 0
  <2>1. 1 \in DOMAIN U
    BY <1>1, <1>7
  <2>2. 1 \in T
    BY <1>7, <2>1, Zenon
  <2>3. 0 + 1 = 1
    OBVIOUS
  <2> HIDE DEF T, U, k
  <2> QED
    BY <1>4, <2>2, <2>3
<1> QED
  BY <1>2, <1>4, <1>6, <1>7, Zenon

\* The fields of what tcp_output leaves, when it sends k segments.
OutputIs(c, k, d) ==
  LET sent == SubSeq(c.unsent, 1, k)
      rest == From(c.unsent, k + 1)
  IN  /\ d.unsent = rest /\ d.unacked = Merged(c.unacked, sent)
      /\ d.snd_nxt = IF k > 0 /\ c.snd_nxt < End(sent[k]) THEN End(sent[k]) ELSE c.snd_nxt
      /\ d.timer = (c.timer \/ k > 0)
      /\ d.unsent_oversize = Oversize(c, rest)
      /\ d.out = c.out \cup {[seqno |-> s.seqno, len |-> s.len] : s \in SegmentsOf(sent)}
      /\ d.snd_buf = c.snd_buf /\ d.snd_queuelen = c.snd_queuelen
      /\ d.snd_lbb = c.snd_lbb /\ d.lastack = c.lastack
      /\ SameWindow(c, d)

\* Several segments put into a list leave a list of segments.
LEMMA MergedTyped ==
  ASSUME NEW q \in Seq(Seg), NEW segs \in Seq(Seg)
  PROVE  Merged(q, segs) \in Seq(Seg)
<1> DEFINE n == Len(segs)
<1>1. PICK with : Goes(with, q, segs) /\ Merged(q, segs) = with[n]
  BY MergedIs
<1>2. n \in Nat /\ \A j \in 1 .. n : segs[j] \in Seg
  OBVIOUS
<1> DEFINE T == {j \in 0 .. n : with[j] \in Seq(Seg)}
<1>3. 0 \in T
  <2>1. with[0] = q /\ 0 \in 0 .. n
    BY <1>1, <1>2 DEF Goes
  <2> QED
    BY <2>1
<1>4. ASSUME NEW j \in 1 .. n, j - 1 \in T PROVE j \in T
  <2>1. with[j] = Placed(with[j - 1], segs[j])
    BY <1>1, Zenon DEF Goes
  <2>2. Placed(with[j - 1], segs[j]) \in Seq(Seg)
    BY <1>2, <1>4, PlacedTyped
  <2> QED
    BY <2>1, <2>2
<1>5. \A j \in 0 .. n : j \in T
  <2> HIDE DEF T, n
  <2> QED
    BY <1>2, <1>3, <1>4, Reaches
<1>6. n \in T
  BY <1>2, <1>5
<1> QED
  BY <1>1, <1>6

\* tcp_output, field by field.
LEMMA OutputFields ==
  ASSUME NEW c \in Pcb
  PROVE  Output(c) \in Pcb /\ OutputIs(c, Sendable(c), Output(c))
<1> DEFINE k == Sendable(c)
           sent == SubSeq(c.unsent, 1, k)
           rest == From(c.unsent, k + 1)
           nxt == IF k > 0 /\ c.snd_nxt < End(sent[k]) THEN End(sent[k]) ELSE c.snd_nxt
           pass == {[seqno |-> s.seqno, len |-> s.len] : s \in SegmentsOf(sent)}
           out == c.out \cup pass
           una == Merged(c.unacked, sent)
           over == Oversize(c, rest)
           d == [c EXCEPT !.unsent = rest, !.unacked = una, !.snd_nxt = nxt,
                          !.timer = c.timer \/ k > 0, !.unsent_oversize = over,
                          !.flags = c.flags \ {"NAGLEMEMERR"}, !.out = out]
<1>0. k \in 0 .. Len(c.unsent) /\ c.unsent \in Seq(Seg) /\ c.unacked \in Seq(Seg)
      /\ c.snd_nxt \in Nat /\ c.out \in SUBSET Sending /\ c.unsent_oversize \in Nat
      /\ c.flags \in SUBSET Flags /\ c.timer \in BOOLEAN
  BY SendableIs, PcbFields
<1> HIDE DEF k
<1>1. /\ sent \in Seq(Seg) /\ Len(sent) = k /\ rest \in Seq(Seg)
  BY <1>0, Cut
<1> HIDE DEF sent, rest
<1>2. \A j \in 1 .. Len(sent) : /\ sent[j] \in Seg /\ sent[j].seqno \in Nat
                                /\ sent[j].len \in Nat /\ End(sent[j]) \in Nat
  BY <1>1, SegmentAt
<1>3. nxt \in Nat
  <2>1. k > 0 => k \in 1 .. Len(sent)
    BY <1>0, <1>1
  <2> QED
    BY <1>0, <1>2, <2>1
<1>4. pass \in SUBSET Sending
  <2>1. ASSUME NEW s \in SegmentsOf(sent) PROVE [seqno |-> s.seqno, len |-> s.len] \in Sending
    <3>1. PICK j \in DOMAIN sent : s = sent[j]
      BY Zenon DEF SegmentsOf
    <3>2. DOMAIN sent = 1 .. Len(sent)
      BY <1>1
    <3> QED
      BY <1>2, <3>1, <3>2 DEF Sending
  <2> QED
    BY <2>1
<1> HIDE DEF pass
<1>5. out \in SUBSET Sending
  BY <1>0, <1>4
<1>6. una \in Seq(Seg)
  BY <1>0, <1>1, MergedTyped
<1>7. over \in Nat
  BY <1>0 DEF Oversize
<1>8. Output(c) = d
  BY Zenon DEF Output, sent, rest, pass, k
<1> HIDE DEF una, over, out, nxt
<1>9. d \in Pcb
  BY <1>0, <1>1, <1>3, <1>5, <1>6, <1>7 DEF Pcb
<1>10. /\ d.unsent = rest /\ d.unacked = una /\ d.snd_nxt = nxt
       /\ d.timer = (c.timer \/ k > 0) /\ d.unsent_oversize = over /\ d.out = out
       /\ d.snd_buf = c.snd_buf /\ d.snd_queuelen = c.snd_queuelen
       /\ d.snd_lbb = c.snd_lbb /\ d.lastack = c.lastack
       /\ d.snd_wnd = c.snd_wnd /\ d.snd_wl2 = c.snd_wl2 /\ d.wl1 = c.wl1
  BY DEF Pcb
<1> HIDE DEF d
<1> QED
  BY <1>8, <1>9, <1>10, Zenon DEF OutputIs, SameWindow, una, over, out, nxt, pass, sent, rest, k

-----------------------------------------------------------------------------
(* tcp_output keeps the queues.                                            *)

\* Lists that are in order.
Rising(q) == \A j \in 1 .. Len(q) : \A l \in 1 .. j - 1 :
               q[l].seqno < q[j].seqno /\ End(q[l]) < End(q[j])

\* Where the unacknowledged and the unsent segments stand in the whole list.
LEMMA NormalOrder ==
  ASSUME NEW A \in Seq(Seg), NEW U \in Seq(Seg), Linked(A \o U)
  PROVE  /\ Rising(U)
         /\ \A j \in 1 .. Len(U) : \A l \in 1 .. Len(A) : A[l].seqno < U[j].seqno
<1>1. /\ Linked(U)
      /\ \A i \in 1 .. Len(A) : \A j \in 1 .. Len(U) : End(A[i]) <= U[j].seqno
  BY LinkedParts
<1>2. ASSUME NEW j \in 1 .. Len(U), NEW l \in 1 .. j - 1
      PROVE  U[l].seqno < U[j].seqno /\ End(U[l]) < End(U[j])
  <2>1. l \in 1 .. Len(U) /\ j \in l + 1 .. Len(U)
    OBVIOUS
  <2> QED
    BY <1>1, <2>1, LinkedRises
<1>3. ASSUME NEW j \in 1 .. Len(U), NEW l \in 1 .. Len(A)
      PROVE  A[l].seqno < U[j].seqno
  <2>1. End(A[l]) <= U[j].seqno
    BY <1>1
  <2>2. A[l].seqno \in Nat /\ End(A[l]) \in Nat /\ A[l].seqno < End(A[l]) /\ U[j].seqno \in Nat
    BY SegmentAt
  <2> QED
    BY <2>1, <2>2
<1> QED
  BY <1>2, <1>3, Zenon DEF Rising

\* The same when the first segment of all is the first unsent one.
LEMMA TurnedOrder ==
  ASSUME NEW A \in Seq(Seg), NEW U \in Seq(Seg), U # <<>>,
         Linked((<<U[1]>> \o A) \o From(U, 2))
  PROVE  /\ Rising(U)
         /\ \A j \in 2 .. Len(U) : \A l \in 1 .. Len(A) : A[l].seqno < U[j].seqno
         /\ A # <<>> => U[1].seqno < A[1].seqno
<1> DEFINE h == U[1]
           B == <<h>> \o A
           V == From(U, 2)
           Q == B \o V
           m == Len(A)
           n == Len(U)
<1>1. 1 \in 0 .. Len(U) /\ 1 + 1 = 2 /\ h \in Seg /\ <<h>> \in Seq(Seg) /\ Len(<<h>>) = 1
      /\ <<h>>[1] = h /\ 1 \in 1 .. 1
  OBVIOUS
<1>2. V \in Seq(Seg) /\ Len(V) = n - 1 /\ \A i \in 1 .. n - 1 : V[i] = U[1 + i]
  BY <1>1, Cut
<1>3. B \in Seq(Seg) /\ Len(B) = 1 + m /\ B[1] = h /\ \A i \in 1 .. m : B[1 + i] = A[i]
  BY <1>1, Joined
<1> HIDE DEF B, V
<1>j. /\ Q \in Seq(Seg) /\ Len(Q) = Len(B) + Len(V)
      /\ \A i \in 1 .. Len(B) : Q[i] = B[i]
      /\ \A i \in 1 .. Len(V) : Q[Len(B) + i] = V[i]
  <2>1. B \in Seq(Seg) /\ V \in Seq(Seg)
    BY <1>2, <1>3, Zenon
  <2> QED
    BY <2>1, Joined
<1>4. /\ Q \in Seq(Seg) /\ Len(Q) = (1 + m) + (n - 1)
      /\ \A i \in 1 .. 1 + m : Q[i] = B[i]
      /\ \A i \in 1 .. n - 1 : Q[(1 + m) + i] = V[i]
      /\ m \in Nat /\ n \in Nat
  <2>1. m \in Nat /\ n \in Nat
    OBVIOUS
  <2>2. Len(B) = 1 + m /\ Len(V) = n - 1
    BY <1>2, <1>3, Zenon
  <2> QED
    BY <1>j, <2>1, <2>2, Zenon
<1>5. Linked(Q)
  BY DEF B, V
<1> HIDE DEF Q
<1>6. ASSUME NEW i \in 1 .. Len(Q), NEW j \in i + 1 .. Len(Q)
      PROVE  Q[i].seqno < Q[j].seqno /\ End(Q[i]) < End(Q[j])
  BY <1>4, <1>5, LinkedRises
<1>7. ASSUME NEW j \in 2 .. n PROVE /\ m + j \in 1 .. Len(Q) /\ Q[m + j] = U[j]
  <2>1. /\ j - 1 \in 1 .. n - 1 /\ (1 + m) + (j - 1) = m + j /\ 1 + (j - 1) = j
        /\ m + j \in 1 .. Len(Q)
    BY <1>4
  <2> QED
    BY <1>2, <1>4, <2>1, Zenon
<1>8. 1 \in 1 .. Len(Q) /\ Q[1] = U[1]
  <2>1. 1 \in 1 .. Len(Q) /\ 1 \in 1 .. 1 + m
    BY <1>1, <1>4
  <2> QED
    BY <1>3, <1>4, <2>1, Zenon
<1>9. ASSUME NEW l \in 1 .. m PROVE 1 + l \in 1 .. Len(Q) /\ Q[1 + l] = A[l]
  <2>1. 1 + l \in 1 .. Len(Q) /\ 1 + l \in 1 .. 1 + m
    BY <1>1, <1>4
  <2> QED
    BY <1>3, <1>4, <2>1, Zenon
<1>10. ASSUME NEW j \in 1 .. n, NEW l \in 1 .. j - 1
       PROVE  U[l].seqno < U[j].seqno /\ End(U[l]) < End(U[j])
  <2>1. j \in 2 .. n
    BY <1>4
  <2>2. CASE l = 1
    <3>1. m + j \in 1 + 1 .. Len(Q)
      BY <1>4, <1>7, <2>1
    <3> QED
      BY <1>6, <1>7, <1>8, <2>1, <2>2, <3>1, Zenon
  <2>3. CASE l # 1
    <3>1. l \in 2 .. n /\ m + j \in (m + l) + 1 .. Len(Q)
      BY <1>4, <1>7, <2>1, <2>3
    <3> QED
      BY <1>6, <1>7, <2>1, <3>1, Zenon
  <2> QED
    BY <2>2, <2>3
<1>11. ASSUME NEW j \in 2 .. n, NEW l \in 1 .. m
       PROVE  A[l].seqno < U[j].seqno
  <2>1. m + j \in (1 + l) + 1 .. Len(Q)
    BY <1>4, <1>7
  <2> QED
    BY <1>6, <1>7, <1>9, <2>1, Zenon
<1>12. ASSUME A # <<>> PROVE U[1].seqno < A[1].seqno
  <2>1. 1 \in 1 .. m /\ 1 + 1 \in 1 + 1 .. Len(Q)
    BY <1>1, <1>4, <1>9, <1>12
  <2> QED
    BY <1>6, <1>8, <1>9, <2>1, Zenon
<1> QED
  BY <1>10, <1>11, <1>12, Zenon DEF Rising

\* What the two lists come to when the first k unsent segments are sent.
LEMMA NormalSent ==
  ASSUME NEW A \in Seq(Seg), NEW U \in Seq(Seg), Linked(A \o U), NEW k \in 0 .. Len(U)
  PROVE  /\ Merged(A, SubSeq(U, 1, k)) = A \o SubSeq(U, 1, k)
         /\ Merged(A, SubSeq(U, 1, k)) \o From(U, k + 1) = A \o U
<1> DEFINE s == SubSeq(U, 1, k)
           t == From(U, k + 1)
<1>1. /\ s \in Seq(Seg) /\ Len(s) = k /\ t \in Seq(Seg)
      /\ \A i \in 1 .. k : s[i] = U[i]
  BY Cut
<1>2. s \o t = U
  BY CutJoined
<1> HIDE DEF s, t
<1>3. /\ Rising(U)
      /\ \A j \in 1 .. Len(U) : \A l \in 1 .. Len(A) : A[l].seqno < U[j].seqno
  BY NormalOrder
<1>4. ASSUME NEW j \in 1 .. Len(s), NEW l \in 1 .. Len(A) PROVE A[l].seqno < s[j].seqno
  <2>1. j \in 1 .. k /\ j \in 1 .. Len(U)
    BY <1>1
  <2> QED
    BY <1>1, <1>3, <2>1, Zenon
<1>5. ASSUME NEW j \in 1 .. Len(s), NEW l \in 1 .. j - 1 PROVE s[l].seqno < s[j].seqno
  <2>1. j \in 1 .. k /\ j \in 1 .. Len(U) /\ l \in 1 .. k
    BY <1>1
  <2> QED
    BY <1>1, <1>3, <2>1, Zenon DEF Rising
<1>6. Merged(A, s) = A \o s
  BY <1>1, <1>4, <1>5, MergedBehind
<1>7. (A \o s) \o t = A \o (s \o t)
  <2>1. s \in Seq(Seg) /\ t \in Seq(Seg)
    BY <1>1, Zenon
  <2> QED
    BY <2>1, JoinAssociates
<1>8. Merged(A, s) \o t = A \o U
  BY <1>2, <1>6, <1>7, Zenon
<1> QED
  BY <1>6, <1>8, Zenon DEF s, t

\* Then, too, what is sent goes to its place on the unacknowledged list.
LEMMA TurnedSent ==
  ASSUME NEW A \in Seq(Seg), NEW U \in Seq(Seg), U # <<>>,
         Linked((<<U[1]>> \o A) \o From(U, 2)), NEW k \in 1 .. Len(U)
  PROVE  /\ Merged(A, SubSeq(U, 1, k)) = (<<U[1]>> \o A) \o From(SubSeq(U, 1, k), 2)
         /\ Merged(A, SubSeq(U, 1, k)) \o From(U, k + 1) = (<<U[1]>> \o A) \o From(U, 2)
<1> DEFINE s == SubSeq(U, 1, k)
           t == From(U, k + 1)
           B == <<U[1]>> \o A
           r == From(s, 2)
           V == From(U, 2)
<1>0. Len(U) \in Nat /\ k \in 0 .. Len(U)
  OBVIOUS
<1>1. /\ s \in Seq(Seg) /\ Len(s) = k /\ t \in Seq(Seg) /\ Len(t) = Len(U) - k
      /\ \A i \in 1 .. k : s[i] = U[i]
      /\ \A i \in 1 .. Len(U) - k : t[i] = U[k + i]
  BY <1>0, Cut
<1>2. /\ Rising(U)
      /\ \A j \in 2 .. Len(U) : \A l \in 1 .. Len(A) : A[l].seqno < U[j].seqno
      /\ A # <<>> => U[1].seqno < A[1].seqno
  BY TurnedOrder
<1>b. B \in Seq(Seg)
  <2>1. <<U[1]>> \in Seq(Seg)
    OBVIOUS
  <2> QED
    BY <2>1, Joined
<1>3. /\ V \in Seq(Seg) /\ Len(V) = Len(U) - 1 /\ \A i \in 1 .. Len(U) - 1 : V[i] = U[1 + i]
  <2>1. 1 \in 0 .. Len(U) /\ 1 + 1 = 2
    OBVIOUS
  <2> QED
    BY <2>1, Cut
<1> HIDE DEF s, t, V
<1>4. s # <<>> /\ s[1] = U[1] /\ 1 \in 0 .. Len(s) /\ 1 + 1 = 2
  BY <1>1
<1>5. r \in Seq(Seg) /\ Len(r) = k - 1 /\ \A i \in 1 .. k - 1 : r[i] = s[1 + i]
  <2>1. /\ From(s, 1 + 1) \in Seq(Seg) /\ Len(From(s, 1 + 1)) = Len(s) - 1
        /\ \A i \in 1 .. Len(s) - 1 : From(s, 1 + 1)[i] = s[1 + i]
    BY <1>1, <1>4, Cut, Zenon
  <2> QED
    BY <1>1, <1>4, <2>1, Zenon
<1>6. ASSUME NEW j \in 2 .. Len(s), NEW l \in 1 .. Len(A) PROVE A[l].seqno < s[j].seqno
  <2>1. j \in 1 .. k /\ j \in 2 .. Len(U)
    BY <1>1
  <2> QED
    BY <1>1, <1>2, <2>1, Zenon
<1>7. ASSUME NEW j \in 1 .. Len(s), NEW l \in 1 .. j - 1 PROVE s[l].seqno < s[j].seqno
  <2>1. j \in 1 .. k /\ j \in 1 .. Len(U) /\ l \in 1 .. k
    BY <1>1
  <2> QED
    BY <1>1, <1>2, <2>1, Zenon DEF Rising
<1>8. A # <<>> => s[1].seqno <= A[1].seqno
  <2> SUFFICES ASSUME A # <<>> PROVE s[1].seqno <= A[1].seqno
    OBVIOUS
  <2>1. 1 \in 1 .. Len(A) /\ 1 \in 1 .. Len(U)
    OBVIOUS
  <2>2. A[1].seqno \in Nat /\ U[1].seqno \in Nat
    BY <2>1, SegmentAt
  <2> QED
    BY <1>2, <1>4, <2>2
<1>9. Merged(A, s) = (<<s[1]>> \o A) \o From(s, 2)
  BY <1>1, <1>4, <1>6, <1>7, <1>8, MergedAround
<1>10. Merged(A, s) = B \o r
  BY <1>4, <1>9, Zenon
<1> HIDE DEF r, B
<1>11. r \o t = V
  <2>1. /\ r \o t \in Seq(Seg) /\ Len(r \o t) = (k - 1) + (Len(U) - k)
        /\ \A i \in 1 .. k - 1 : (r \o t)[i] = r[i]
        /\ \A i \in 1 .. Len(U) - k : (r \o t)[(k - 1) + i] = t[i]
    <3>1. /\ r \o t \in Seq(Seg) /\ Len(r \o t) = Len(r) + Len(t)
          /\ \A i \in 1 .. Len(r) : (r \o t)[i] = r[i]
          /\ \A i \in 1 .. Len(t) : (r \o t)[Len(r) + i] = t[i]
      <4>1. r \in Seq(Seg) /\ t \in Seq(Seg)
        BY <1>1, <1>5, Zenon
      <4> QED
        BY <4>1, Joined
    <3>2. Len(r) = k - 1 /\ Len(t) = Len(U) - k
      BY <1>1, <1>5, Zenon
    <3> QED
      BY <3>1, <3>2, Zenon
  <2>2. Len(r \o t) = Len(V)
    BY <1>0, <1>3, <2>1
  <2>3. ASSUME NEW i \in 1 .. Len(V) PROVE (r \o t)[i] = V[i]
    <3>1. CASE i <= k - 1
      <4>1. i \in 1 .. k - 1 /\ 1 + i \in 1 .. k /\ i \in 1 .. Len(U) - 1
        BY <1>0, <1>3, <3>1
      <4> QED
        BY <1>1, <1>3, <1>5, <2>1, <4>1, Zenon
    <3>2. CASE ~(i <= k - 1)
      <4>1. /\ i - (k - 1) \in 1 .. Len(U) - k /\ (k - 1) + (i - (k - 1)) = i
            /\ k + (i - (k - 1)) = 1 + i /\ i \in 1 .. Len(U) - 1
        BY <1>0, <1>3, <3>2
      <4>2. (r \o t)[i] = t[i - (k - 1)] /\ t[i - (k - 1)] = U[k + (i - (k - 1))]
        BY <1>1, <2>1, <4>1, Zenon
      <4> QED
        BY <1>3, <4>1, <4>2, Zenon
    <3> QED
      BY <3>1, <3>2
  <2> QED
    BY <1>3, <2>1, <2>2, <2>3, SameList
<1>12. (B \o r) \o t = B \o (r \o t)
  <2>1. B \in Seq(Seg) /\ r \in Seq(Seg) /\ t \in Seq(Seg)
    BY <1>1, <1>b, <1>5, Zenon
  <2> QED
    BY <2>1
<1>13. Merged(A, s) \o t = B \o V
  BY <1>10, <1>11, <1>12, Zenon
<1> QED
  BY <1>10, <1>13, Zenon DEF s, t, B, r, V

\* What is sent, with Q the list of all segments.
SentIs(A, U, k, Q, M) ==
  /\ M \o From(U, k + 1) = Q
  /\ Rising(U)
  /\ \A j \in 1 .. Len(U) : \E i \in 1 .. Len(Q) : Q[i] = U[j]
  /\ \A i \in 1 .. Len(M) : \/ \E l \in 1 .. Len(A) : M[i] = A[l]
                            \/ \E j \in 1 .. k : M[i] = U[j]

\* What tcp_output sends makes the unacknowledged list longer at its end,
LEMMA NormalSentIs ==
  ASSUME NEW A \in Seq(Seg), NEW U \in Seq(Seg), Linked(A \o U), NEW k \in 0 .. Len(U)
  PROVE  SentIs(A, U, k, A \o U, Merged(A, SubSeq(U, 1, k)))
<1> DEFINE s == SubSeq(U, 1, k)
           M == Merged(A, s)
           Q == A \o U
           m == Len(A)
<1>1. M = A \o s /\ M \o From(U, k + 1) = Q
  BY NormalSent
<1>2. Rising(U)
  BY NormalOrder
<1>3. s \in Seq(Seg) /\ Len(s) = k /\ \A i \in 1 .. k : s[i] = U[i]
  BY Cut
<1>4. /\ Len(Q) = m + Len(U) /\ m \in Nat /\ Len(U) \in Nat
      /\ \A i \in 1 .. Len(U) : Q[m + i] = U[i]
  BY Joined
<1> HIDE DEF s
<1>5. /\ Len(A \o s) = m + Len(s)
      /\ \A i \in 1 .. m : (A \o s)[i] = A[i]
      /\ \A i \in 1 .. Len(s) : (A \o s)[m + i] = s[i]
  <2>1. s \in Seq(Seg)
    BY <1>3
  <2> QED
    BY <2>1, Joined
<1> HIDE DEF M, Q
<1>6. ASSUME NEW j \in 1 .. Len(U) PROVE \E i \in 1 .. Len(Q) : Q[i] = U[j]
  <2>1. m + j \in 1 .. Len(Q)
    BY <1>4
  <2> QED
    BY <1>4, <2>1, Zenon
<1>7. ASSUME NEW i \in 1 .. Len(M)
      PROVE  \/ \E l \in 1 .. Len(A) : M[i] = A[l]
             \/ \E j \in 1 .. k : M[i] = U[j]
  <2>1. Len(M) = m + k
    BY <1>1, <1>3, <1>5, Zenon
  <2>2. CASE i <= m
    <3>1. i \in 1 .. m
      BY <1>4, <2>1, <2>2
    <3> QED
      BY <1>1, <1>5, <3>1, Zenon
  <2>3. CASE ~(i <= m)
    <3>1. i - m \in 1 .. k /\ m + (i - m) = i
      BY <1>4, <2>1, <2>3
    <3>2. M[m + (i - m)] = s[i - m] /\ s[i - m] = U[i - m]
      BY <1>1, <1>3, <1>5, <3>1, Zenon
    <3> QED
      BY <3>1, <3>2, Zenon
  <2> QED
    BY <2>2, <2>3
<1> QED
  BY <1>1, <1>2, <1>6, <1>7, Zenon DEF SentIs, M, Q, s

\* or, after a fast retransmission, puts its first segment back.
LEMMA TurnedSentIs ==
  ASSUME NEW A \in Seq(Seg), NEW U \in Seq(Seg), U # <<>>,
         Linked((<<U[1]>> \o A) \o From(U, 2)), NEW k \in 1 .. Len(U)
  PROVE  SentIs(A, U, k, (<<U[1]>> \o A) \o From(U, 2), Merged(A, SubSeq(U, 1, k)))
<1> DEFINE s == SubSeq(U, 1, k)
           M == Merged(A, s)
           h == U[1]
           B == <<h>> \o A
           r == From(s, 2)
           V == From(U, 2)
           Q == B \o V
           m == Len(A)
           n == Len(U)
<1>0. n \in Nat /\ m \in Nat /\ k \in 0 .. n /\ h \in Seg /\ 1 \in 1 .. n
      /\ 1 \in 0 .. n /\ 1 + 1 = 2 /\ 1 \in 1 .. k
  OBVIOUS
<1>1. M = B \o r /\ M \o From(U, k + 1) = Q
  BY TurnedSent
<1>2. Rising(U)
  BY TurnedOrder
<1>3. s \in Seq(Seg) /\ Len(s) = k /\ \A i \in 1 .. k : s[i] = U[i]
  BY <1>0, Cut
<1>4. V \in Seq(Seg) /\ Len(V) = n - 1 /\ \A i \in 1 .. n - 1 : V[i] = U[1 + i]
  BY <1>0, Cut
<1>5. <<h>> \in Seq(Seg) /\ Len(<<h>>) = 1 /\ <<h>>[1] = h /\ 1 \in 1 .. 1
  BY <1>0
<1>6. B \in Seq(Seg) /\ Len(B) = 1 + m /\ B[1] = h /\ \A i \in 1 .. m : B[1 + i] = A[i]
  BY <1>5, Joined
<1> HIDE DEF s, V, B
<1>7. r \in Seq(Seg) /\ Len(r) = k - 1 /\ \A i \in 1 .. k - 1 : r[i] = s[1 + i]
  <2>1. 1 \in 0 .. Len(s)
    BY <1>0, <1>3
  <2>2. s \in Seq(Seg)
    BY <1>3
  <2>3. /\ From(s, 1 + 1) \in Seq(Seg) /\ Len(From(s, 1 + 1)) = Len(s) - 1
        /\ \A i \in 1 .. Len(s) - 1 : From(s, 1 + 1)[i] = s[1 + i]
    BY <2>1, <2>2, Cut, Zenon
  <2> QED
    BY <1>0, <1>3, <2>3, Zenon
<1> HIDE DEF r
<1>8. /\ Len(B \o r) = Len(B) + Len(r)
      /\ \A i \in 1 .. Len(B) : (B \o r)[i] = B[i]
      /\ \A i \in 1 .. Len(r) : (B \o r)[Len(B) + i] = r[i]
  <2>1. B \in Seq(Seg) /\ r \in Seq(Seg)
    BY <1>6, <1>7, Zenon
  <2> QED
    BY <2>1, Joined
<1>9. /\ Len(B \o V) = Len(B) + Len(V)
      /\ \A i \in 1 .. Len(B) : (B \o V)[i] = B[i]
      /\ \A i \in 1 .. Len(V) : (B \o V)[Len(B) + i] = V[i]
  <2>1. B \in Seq(Seg) /\ V \in Seq(Seg)
    BY <1>4, <1>6, Zenon
  <2> QED
    BY <2>1, Joined
<1> HIDE DEF M
<1>10. ASSUME NEW j \in 1 .. n PROVE \E i \in 1 .. Len(Q) : Q[i] = U[j]
  <2>0. Len(Q) = (1 + m) + (n - 1) /\ Len(B) = 1 + m /\ Len(V) = n - 1
    BY <1>4, <1>6, <1>9, Zenon
  <2>1. CASE j = 1
    <3>1. 1 \in 1 .. Len(Q) /\ 1 \in 1 .. Len(B)
      BY <1>0, <2>0
    <3>2. Q[1] = U[1]
      BY <1>6, <1>9, <3>1, Zenon
    <3> QED
      BY <2>1, <3>1, <3>2, Zenon
  <2>2. CASE j # 1
    <3>1. /\ j - 1 \in 1 .. Len(V) /\ j - 1 \in 1 .. n - 1 /\ 1 + (j - 1) = j
          /\ Len(B) + (j - 1) \in 1 .. Len(Q)
      BY <1>0, <2>0, <2>2
    <3>2. Q[Len(B) + (j - 1)] = U[j]
      BY <1>4, <1>9, <3>1, Zenon
    <3> QED
      BY <3>1, <3>2, Zenon
  <2> QED
    BY <2>1, <2>2
<1>11. ASSUME NEW i \in 1 .. Len(M)
       PROVE  \/ \E l \in 1 .. Len(A) : M[i] = A[l]
              \/ \E j \in 1 .. k : M[i] = U[j]
  <2>0. Len(M) = (1 + m) + (k - 1) /\ Len(B) = 1 + m /\ Len(r) = k - 1
    BY <1>1, <1>6, <1>7, <1>8, Zenon
  <2>1. CASE i = 1
    <3>1. 1 \in 1 .. Len(B)
      BY <1>0, <2>0
    <3>2. M[1] = U[1]
      BY <1>1, <1>6, <1>8, <3>1, Zenon
    <3> QED
      BY <1>0, <2>1, <3>2, Zenon
  <2>2. CASE i # 1 /\ i <= 1 + m
    <3>1. i \in 1 .. Len(B) /\ i - 1 \in 1 .. m /\ 1 + (i - 1) = i
      BY <1>0, <2>0, <2>2
    <3>2. M[i] = A[i - 1]
      BY <1>1, <1>6, <1>8, <3>1, Zenon
    <3> QED
      BY <3>1, <3>2, Zenon
  <2>3. CASE ~(i <= 1 + m)
    <3>1. /\ i - (1 + m) \in 1 .. Len(r) /\ i - (1 + m) \in 1 .. k - 1
          /\ Len(B) + (i - (1 + m)) = i /\ 1 + (i - (1 + m)) \in 1 .. k
      BY <1>0, <2>0, <2>3
    <3> DEFINE l == i - (1 + m)
    <3> HIDE DEF l
    <3>2. l \in 1 .. Len(r) /\ l \in 1 .. k - 1 /\ Len(B) + l = i /\ 1 + l \in 1 .. k
      BY <3>1, Zenon DEF l
    <3>3. M[i] = r[l] /\ r[l] = s[1 + l] /\ s[1 + l] = U[1 + l]
      BY <1>1, <1>3, <1>7, <1>8, <3>2, Zenon
    <3> QED
      BY <3>2, <3>3, Zenon
  <2> QED
    BY <2>1, <2>2, <2>3
<1> QED
  BY <1>1, <1>2, <1>10, <1>11, Zenon DEF SentIs, M, Q, B, V, s

\* tcp_output keeps the queues, and what is out inside the window.
LEMMA OutputKeeps ==
  ASSUME NEW c \in Pcb, QueueInv(c) \/ FastInv(c), OutInv(c), InsideWindow(c)
  PROVE  LET d == Output(c)
         IN  /\ d \in Pcb /\ QueueInv(d) /\ OutInv(d) /\ InsideWindow(d)
             /\ SameWindow(c, d) /\ d.lastack = c.lastack /\ c.snd_nxt <= d.snd_nxt
<1> DEFINE d == Output(c)
           k == Sendable(c)
           A == c.unacked
           U == c.unsent
           M == d.unacked
           s == SubSeq(U, 1, k)
           rest == From(U, k + 1)
           n == Len(U)
<1>1. /\ A \in Seq(Seg) /\ U \in Seq(Seg) /\ c.snd_nxt \in Nat /\ c.lastack \in Nat
      /\ c.snd_lbb \in Nat /\ c.snd_wnd \in Nat /\ c.cwnd \in Nat /\ c.timer \in BOOLEAN
      /\ c.unsent_oversize \in Nat
  BY PcbFields
<1>2. d \in Pcb /\ OutputIs(c, k, d)
  BY OutputFields
<1>3. /\ k \in 0 .. n /\ \A j \in 1 .. k : InWindow(c, U[j])
      /\ U # <<>> /\ InWindow(c, U[1]) /\ NaglePermits(c, 1) => k # 0
  BY SendableIs
<1>4. /\ d.unsent = rest /\ M = Merged(A, s)
      /\ d.snd_nxt = IF k > 0 /\ c.snd_nxt < End(s[k]) THEN End(s[k]) ELSE c.snd_nxt
      /\ d.timer = (c.timer \/ k > 0)
      /\ d.unsent_oversize = Oversize(c, rest)
      /\ d.out = c.out \cup {[seqno |-> x.seqno, len |-> x.len] : x \in SegmentsOf(s)}
      /\ d.snd_buf = c.snd_buf /\ d.snd_queuelen = c.snd_queuelen
      /\ d.snd_lbb = c.snd_lbb /\ d.lastack = c.lastack
      /\ SameWindow(c, d)
  BY <1>2, Zenon DEF OutputIs
<1>5. /\ M \in Seq(Seg) /\ d.snd_nxt \in Nat
  BY <1>2, PcbFields
<1> HIDE DEF d, k, A, U
<1>6. /\ s \in Seq(Seg) /\ Len(s) = k /\ rest \in Seq(Seg) /\ Len(rest) = n - k /\ n \in Nat
      /\ \A i \in 1 .. k : s[i] = U[i]
      /\ \A i \in 1 .. n - k : rest[i] = U[k + i]
  <2>1. n \in Nat
    BY <1>1
  <2> QED
    BY <1>1, <1>3, <2>1, Cut
<1> HIDE DEF s, rest, M
<1>7. \E Q \in Seq(Seg) : /\ Counted(c, Q) /\ SentIs(A, U, k, Q, M)
                          /\ Room(c) /\ Sent(c)
  <2>1. CASE QueueInv(c)
    <3> DEFINE Q == A \o U
    <3>1. Counted(c, Q) /\ Room(c) /\ Sent(c)
      BY <2>1, Zenon DEF QueueInv, A, U
    <3>2. Q \in Seq(Seg)
      BY <1>1, Joined
    <3>3. Linked(Q)
      BY <3>1, Zenon DEF Counted, Covering
    <3>4. SentIs(A, U, k, Q, M)
      BY <1>1, <1>3, <1>4, <3>3, NormalSentIs, Zenon DEF s
    <3> QED
      BY <3>1, <3>2, <3>4, Zenon
  <2>2. CASE FastInv(c)
    <3> DEFINE Q == (<<U[1]>> \o A) \o From(U, 2)
    <3>1. /\ U # <<>> /\ Counted(c, Q) /\ Room(c) /\ Sent(c)
          /\ InWindow(c, U[1]) /\ NaglePermits(c, 1)
      BY <2>2, Zenon DEF FastInv, A, U, Turned
    <3>2. k \in 1 .. n
      BY <1>3, <3>1
    <3>3. Linked(Q)
      BY <3>1, Zenon DEF Counted, Covering
    <3>4. SentIs(A, U, k, Q, M)
      BY <1>1, <1>4, <3>1, <3>2, <3>3, TurnedSentIs, Zenon DEF s
    <3>5. Q \in Seq(Seg)
      <4>1. M \in Seq(Seg) /\ rest \in Seq(Seg) /\ M \o rest = Q
        BY <1>5, <1>6, <3>4, Zenon DEF SentIs, rest
      <4> HIDE DEF Q
      <4>2. M \o rest \in Seq(Seg)
        BY <4>1, Joined
      <4> QED
        BY <4>1, <4>2, Zenon
    <3> QED
      BY <3>1, <3>4, <3>5, Zenon
  <2> QED
    BY <2>1, <2>2
<1>8. PICK Q \in Seq(Seg) : /\ Counted(c, Q) /\ SentIs(A, U, k, Q, M)
                            /\ Room(c) /\ Sent(c)
  BY <1>7, Zenon
<1>9. /\ Covering(Q, c.lastack, c.snd_lbb) /\ c.lastack <= c.snd_nxt
      /\ c.snd_nxt <= c.snd_lbb /\ c.snd_lbb <= StreamMax
  BY <1>8, Zenon DEF Counted
<1>10. /\ M \o rest = Q /\ Rising(U)
       /\ \A j \in 1 .. n : \E i \in 1 .. Len(Q) : Q[i] = U[j]
       /\ \A i \in 1 .. Len(M) : \/ \E l \in 1 .. Len(A) : M[i] = A[l]
                                 \/ \E j \in 1 .. k : M[i] = U[j]
  BY <1>8, Zenon DEF SentIs, rest
<1>11. \A j \in 1 .. n : End(U[j]) <= c.snd_lbb /\ End(U[j]) \in Nat
  <2>1. \A i \in 1 .. Len(Q) : End(Q[i]) <= c.snd_lbb
    BY <1>1, <1>9, CoveredOnce
  <2>2. ASSUME NEW j \in 1 .. n PROVE End(U[j]) <= c.snd_lbb
    BY <1>10, <2>1, Zenon
  <2>3. ASSUME NEW j \in 1 .. n PROVE End(U[j]) \in Nat
    BY <1>1, SegmentAt
  <2> QED
    BY <2>2, <2>3, Zenon
<1>12. /\ c.snd_nxt <= d.snd_nxt /\ d.snd_nxt <= c.snd_lbb
       /\ \A j \in 1 .. k : End(U[j]) <= d.snd_nxt
  <2>1. CASE k = 0
    BY <1>1, <1>4, <1>9, <2>1
  <2>2. CASE k # 0
    <3>1. k \in 1 .. n /\ k \in 1 .. k /\ k > 0
      BY <1>3, <2>2
    <3>2. s[k] = U[k] /\ End(U[k]) \in Nat /\ End(U[k]) <= c.snd_lbb
      BY <1>6, <1>11, <3>1, Zenon
    <3> DEFINE e == End(U[k])
    <3>3. d.snd_nxt = IF c.snd_nxt < e THEN e ELSE c.snd_nxt
      BY <1>4, <3>1, <3>2, Zenon
    <3>4. ASSUME NEW j \in 1 .. k PROVE End(U[j]) <= e
      <4>1. CASE j = k
        BY <3>2, <4>1
      <4>2. CASE j # k
        <5>1. j \in 1 .. k - 1 /\ j \in 1 .. n
          BY <1>3, <4>2
        <5>2. End(U[j]) < End(U[k]) /\ End(U[j]) \in Nat
          BY <1>10, <1>11, <3>1, <5>1, Zenon DEF Rising
        <5> QED
          BY <3>2, <5>2
      <4> QED
        BY <4>1, <4>2
    <3>5. \A j \in 1 .. k : j \in 1 .. n
      BY <1>3
    <3>6. e \in Nat /\ e <= c.snd_lbb /\ \A j \in 1 .. k : End(U[j]) <= e /\ End(U[j]) \in Nat
      BY <1>11, <3>2, <3>4, <3>5, Zenon
    <3> HIDE DEF e
    <3>7. c.snd_nxt <= d.snd_nxt /\ d.snd_nxt <= c.snd_lbb /\ e <= d.snd_nxt
      BY <1>1, <1>9, <3>3, <3>6
    <3>8. ASSUME NEW j \in 1 .. k PROVE End(U[j]) <= d.snd_nxt
      <4>1. End(U[j]) <= e /\ End(U[j]) \in Nat
        BY <3>6
      <4> QED
        BY <1>5, <3>6, <3>7, <4>1
    <3> QED
      BY <3>7, <3>8
  <2> QED
    BY <2>1, <2>2
<1>13. Counted(d, Q)
  <2>1. c.lastack <= d.snd_nxt
    BY <1>1, <1>5, <1>9, <1>12
  <2> QED
    BY <1>4, <1>8, <1>12, <2>1, Zenon DEF Counted
<1>14. Sent(d)
  <2>0. /\ \A i \in 1 .. Len(A) : End(A[i]) <= c.snd_nxt
        /\ A # <<>> => c.timer
    BY <1>8, Zenon DEF Sent, A
  <2>1. ASSUME NEW i \in 1 .. Len(M) PROVE End(M[i]) <= d.snd_nxt
    <3>1. CASE \E l \in 1 .. Len(A) : M[i] = A[l]
      <4>1. PICK l \in 1 .. Len(A) : M[i] = A[l]
        BY <3>1
      <4>2. End(A[l]) <= c.snd_nxt /\ End(A[l]) \in Nat
        BY <1>1, <2>0, SegmentAt
      <4>3. End(A[l]) <= d.snd_nxt
        BY <1>1, <1>5, <1>12, <4>2
      <4> QED
        BY <4>1, <4>3, Zenon
    <3>2. CASE \E j \in 1 .. k : M[i] = U[j]
      BY <1>12, <3>2, Zenon
    <3> QED
      BY <1>10, <3>1, <3>2, Zenon
  <2>2. ASSUME M # <<>> PROVE d.timer
    <3>1. CASE k > 0
      BY <1>4, <3>1
    <3>2. CASE ~(k > 0)
      <4>1. 1 \in 1 .. Len(M)
        BY <1>5, <2>2
      <4>2. \A j \in 1 .. k : FALSE
        BY <1>3, <3>2
      <4>3. PICK l \in 1 .. Len(A) : M[1] = A[l]
        BY <1>10, <4>1, <4>2, Zenon
      <4>4. A # <<>>
        BY <1>1
      <4> QED
        BY <1>4, <2>0, <4>4, Zenon
    <3> QED
      BY <3>1, <3>2
  <2> QED
    BY <2>1, <2>2, Zenon DEF Sent, M
<1>15. Room(d)
  <2>1. /\ U = <<>> => c.unsent_oversize = 0
        /\ U # <<>> => /\ c.unsent_oversize <= U[n].room
                       /\ U[n].len + c.unsent_oversize <= Mss_local
    BY <1>8, Zenon DEF Room, U
  <2>2. CASE rest = <<>>
    <3>1. d.unsent = <<>> /\ d.unsent_oversize = 0
      BY <1>4, <2>2, Zenon DEF Oversize
    <3> QED
      BY <3>1, Zenon DEF Room
  <2>3. CASE rest # <<>>
    <3>1. Len(rest) \in 1 .. n - k /\ k + Len(rest) = n /\ U # <<>>
      BY <1>1, <1>3, <1>6, <2>3
    <3>2. rest[Len(rest)] = U[n]
      BY <1>6, <3>1, Zenon
    <3>3. d.unsent_oversize = c.unsent_oversize
      BY <1>4, <2>3, Zenon DEF Oversize
    <3>4. /\ d.unsent_oversize <= d.unsent[Len(d.unsent)].room
          /\ d.unsent[Len(d.unsent)].len + d.unsent_oversize <= Mss_local
      BY <1>4, <2>1, <3>1, <3>2, <3>3, Zenon
    <3>5. d.unsent # <<>>
      BY <1>4, <2>3, Zenon
    <3> QED
      BY <3>4, <3>5, Zenon DEF Room
  <2> QED
    BY <2>2, <2>3
<1>16. QueueInv(d)
  <2>1. M \o d.unsent = Q
    BY <1>4, <1>10, Zenon
  <2> QED
    BY <1>13, <1>14, <1>15, <2>1, Zenon DEF QueueInv, M
<1>17. OutInv(d)
  <2>1. ASSUME NEW m \in d.out
        PROVE  m \in Sending /\ m.len \in 1 .. MSS /\ End(m) <= StreamMax /\ Ahead(d, End(m))
    <3>1. CASE m \in c.out
      <4>1. m \in Sending /\ m.len \in 1 .. MSS /\ End(m) <= StreamMax /\ Ahead(c, End(m))
        BY <3>1, Zenon DEF OutInv
      <4>2. End(m) \in Nat
        BY <4>1 DEF Sending, End
      <4>3. End(m) <= c.snd_nxt \/ (End(m) = c.snd_nxt + 1 /\ c.lastack = c.snd_nxt)
        BY <4>1, Zenon DEF Ahead
      <4> DEFINE e == End(m)
      <4> HIDE DEF e
      <4>4. e <= d.snd_nxt \/ (e = d.snd_nxt + 1 /\ d.lastack = d.snd_nxt)
        <5>1. e \in Nat /\ (e <= c.snd_nxt \/ (e = c.snd_nxt + 1 /\ c.lastack = c.snd_nxt))
          BY <4>2, <4>3, Zenon DEF e
        <5> QED
          BY <1>1, <1>4, <1>5, <1>12, <5>1
      <4> QED
        BY <4>1, <4>4, Zenon DEF Ahead, e
    <3>2. CASE m \notin c.out
      <4>1. PICK x \in SegmentsOf(s) : m = [seqno |-> x.seqno, len |-> x.len]
        BY <1>4, <3>2, Zenon
      <4>2. PICK j \in DOMAIN s : x = s[j]
        BY <4>1, Zenon DEF SegmentsOf
      <4>3. j \in 1 .. k /\ j \in 1 .. n
        BY <1>3, <1>6, <4>2
      <4>4. x = U[j]
        BY <1>6, <4>2, <4>3, Zenon
      <4>5. x \in Seg
        BY <1>1, <4>3, <4>4
      <4>6. /\ x.seqno \in Nat /\ x.len \in 1 .. Mss_local /\ End(x) = x.seqno + x.len
            /\ x.len \in Nat
        BY <4>5, SegmentFields
      <4>7. m.seqno = x.seqno /\ m.len = x.len /\ m \in Sending
        BY <4>1, <4>6 DEF Sending
      <4>8. End(m) = End(x)
        BY <4>6, <4>7, Zenon DEF End
      <4>9. End(U[j]) <= d.snd_nxt /\ End(U[j]) <= c.snd_lbb /\ End(U[j]) \in Nat
        BY <1>11, <1>12, <4>3, Zenon
      <4> DEFINE e == End(U[j])
      <4> HIDE DEF e
      <4>10. e <= StreamMax
        BY <1>1, <1>9, <4>9, Numbers DEF e
      <4>11. m.len \in 1 .. MSS
        BY <4>6, <4>7, SegmentSize, Numbers
      <4> QED
        BY <4>4, <4>7, <4>8, <4>9, <4>10, <4>11, Zenon DEF Ahead, e
    <3> QED
      BY <3>1, <3>2
  <2> QED
    BY <2>1, Zenon DEF OutInv
<1>18. InsideWindow(d)
  <2>1. c.snd_nxt <= c.lastack + c.snd_wnd
    BY Zenon DEF InsideWindow
  <2>2. d.snd_wnd = c.snd_wnd
    BY <1>4, Zenon DEF SameWindow
  <2>3. CASE k > 0 /\ c.snd_nxt < End(s[k])
    <3>1. k \in 1 .. k /\ k \in 1 .. n
      BY <1>3, <2>3
    <3>2. InWindow(c, U[k]) /\ End(U[k]) \in Nat /\ s[k] = U[k]
      BY <1>3, <1>6, <1>11, <3>1, Zenon
    <3>3. d.snd_nxt = End(U[k])
      BY <1>4, <2>3, <3>2, Zenon
    <3>4. End(U[k]) - c.lastack <= Least(c.snd_wnd, c.cwnd)
      BY <3>2, Zenon DEF InWindow
    <3> DEFINE e == End(U[k])
    <3> HIDE DEF e
    <3>5. e <= c.lastack + c.snd_wnd
      <4>1. e \in Nat /\ e - c.lastack <= Least(c.snd_wnd, c.cwnd)
        BY <3>2, <3>4, Zenon DEF e
      <4> QED
        BY <1>1, <4>1 DEF Least
    <3> QED
      BY <1>4, <2>2, <3>3, <3>5, Zenon DEF InsideWindow, e
  <2>4. CASE ~(k > 0 /\ c.snd_nxt < End(s[k]))
    <3>1. d.snd_nxt = c.snd_nxt
      BY <1>4, <2>4, Zenon
    <3> QED
      BY <1>4, <2>1, <2>2, <3>1, Zenon DEF InsideWindow
  <2> QED
    BY <2>3, <2>4
<1> QED
  BY <1>2, <1>4, <1>12, <1>16, <1>17, <1>18, Zenon DEF d

-----------------------------------------------------------------------------
(* tcp_receive.                                                            *)

WindowInv(c) ==
  /\ c.lastack <= c.snd_wl2
  /\ ~c.wl1 => c.snd_wl2 = 0 /\ c.snd_wnd = Buffer
  /\ InsideWindow(c)

\* What the network promises of an answer.
Answers(c, ackno, wnd) ==
  /\ c.snd_wl2 < ackno => c.snd_wl2 + c.snd_wnd <= ackno + wnd
  /\ Buffer <= ackno + wnd
  /\ Ahead(c, ackno)

\* The window update moves the window's edge forward only.
LEMMA WindowMoves ==
  ASSUME NEW c \in Pcb, NEW ackno \in Nat, NEW wnd \in Nat,
         WindowInv(c), Answers(c, ackno, wnd)
  PROVE  LET w == Window(c, ackno, wnd)
         IN  /\ c.lastack <= w.snd_wl2 /\ ackno <= w.snd_wl2
             /\ ~w.wl1 => w.snd_wl2 = 0 /\ w.snd_wnd = Buffer
             /\ c.snd_wl2 + c.snd_wnd <= w.snd_wl2 + w.snd_wnd
             /\ \/ SameWindow(c, w)
                \/ w.snd_wl2 = ackno /\ w.snd_wnd = wnd /\ c.snd_wl2 <= ackno
<1> DEFINE w == Window(c, ackno, wnd)
<1>1. /\ c.lastack \in Nat /\ c.snd_wl2 \in Nat /\ c.snd_wnd \in Nat /\ c.wl1 \in BOOLEAN
      /\ Buffer \in Nat
  BY PcbFields, Numbers
<1>2. /\ c.lastack <= c.snd_wl2 /\ (~c.wl1 => c.snd_wl2 = 0 /\ c.snd_wnd = Buffer)
      /\ (c.snd_wl2 < ackno => c.snd_wl2 + c.snd_wnd <= ackno + wnd)
      /\ Buffer <= ackno + wnd
  BY Zenon DEF WindowInv, Answers
<1>3. CASE ~c.wl1 \/ c.snd_wl2 < ackno \/ (c.snd_wl2 = ackno /\ wnd > c.snd_wnd)
  <2>1. w.snd_wnd = wnd /\ w.snd_wl2 = ackno /\ w.wl1 = TRUE
    BY <1>3 DEF Window, Pcb
  <2> HIDE DEF w
  <2>2. c.snd_wl2 <= ackno /\ c.snd_wl2 + c.snd_wnd <= ackno + wnd /\ c.lastack <= ackno
    BY <1>1, <1>2, <1>3
  <2>3. ackno <= ackno
    OBVIOUS
  <2> QED
    BY <2>1, <2>2, <2>3, Zenon DEF w
<1>4. CASE ~(~c.wl1 \/ c.snd_wl2 < ackno \/ (c.snd_wl2 = ackno /\ wnd > c.snd_wnd))
  <2>1. w = c
    BY <1>4, Zenon DEF Window
  <2>2. ackno <= c.snd_wl2 /\ c.snd_wl2 + c.snd_wnd <= c.snd_wl2 + c.snd_wnd
    BY <1>1, <1>4
  <2> HIDE DEF w
  <2> QED
    BY <1>2, <2>1, <2>2, Zenon DEF SameWindow, w
<1> QED
  BY <1>3, <1>4

-----------------------------------------------------------------------------
\* What a whole list says of each of its segments.
LEMMA HeadFields ==
  ASSUME NEW c \in Pcb, QueueInv(c)
  PROVE  /\ \A i \in 1 .. Len(c.unacked) : /\ c.lastack < End(c.unacked[i])
                                           /\ End(c.unacked[i]) <= c.snd_lbb
         /\ \A i \in 1 .. Len(c.unsent) : /\ c.lastack < End(c.unsent[i])
                                          /\ End(c.unsent[i]) <= c.snd_lbb
         /\ c.unacked # <<>> => c.unacked[1].seqno <= c.lastack
         /\ c.unacked = <<>> /\ c.unsent # <<>> => c.unsent[1].seqno <= c.lastack
<1> DEFINE A == c.unacked
           U == c.unsent
           Q == A \o U
           m == Len(A)
<1>1. A \in Seq(Seg) /\ U \in Seq(Seg) /\ c.lastack \in Nat /\ c.snd_lbb \in Nat
  BY PcbFields
<1>2. Covering(Q, c.lastack, c.snd_lbb)
  BY Zenon DEF QueueInv, Counted
<1> HIDE DEF A, U
<1>3. /\ Q \in Seq(Seg) /\ Len(Q) = m + Len(U) /\ m \in Nat /\ Len(U) \in Nat
      /\ \A i \in 1 .. m : Q[i] = A[i]
      /\ \A i \in 1 .. Len(U) : Q[m + i] = U[i]
  BY <1>1, Joined
<1> HIDE DEF Q
<1>4. \A i \in 1 .. Len(Q) : c.lastack < End(Q[i]) /\ End(Q[i]) <= c.snd_lbb
  BY <1>1, <1>2, <1>3, CoveredOnce
<1>5. Q # <<>> => Q[1].seqno <= c.lastack
  BY <1>2, Zenon DEF Covering
<1>6. ASSUME NEW i \in 1 .. m PROVE c.lastack < End(A[i]) /\ End(A[i]) <= c.snd_lbb
  <2>1. i \in 1 .. Len(Q)
    BY <1>3
  <2> QED
    BY <1>3, <1>4, <2>1, Zenon
<1>7. ASSUME NEW i \in 1 .. Len(U) PROVE c.lastack < End(U[i]) /\ End(U[i]) <= c.snd_lbb
  <2>1. m + i \in 1 .. Len(Q)
    BY <1>3
  <2> QED
    BY <1>3, <1>4, <2>1, Zenon
<1>8. ASSUME A # <<>> PROVE A[1].seqno <= c.lastack
  <2>1. 1 \in 1 .. m /\ Q # <<>>
    BY <1>1, <1>3, <1>8
  <2> QED
    BY <1>3, <1>5, <2>1, Zenon
<1>9. ASSUME A = <<>>, U # <<>> PROVE U[1].seqno <= c.lastack
  <2>1. m = 0 /\ 1 \in 1 .. Len(U) /\ Q # <<>> /\ m + 1 = 1
    BY <1>1, <1>3, <1>9
  <2> QED
    BY <1>3, <1>5, <2>1, Zenon
<1> QED
  BY <1>6, <1>7, <1>8, <1>9, Zenon DEF A, U

\* The unsent segments end behind the last acknowledgement.
Unacknowledged(c) == \A i \in 1 .. Len(c.unsent) : c.lastack < End(c.unsent[i])

\* tcp_rexmit_fast turns the list, and the window lets the segment pass.
LEMMA RexmitTurns ==
  ASSUME NEW c \in Pcb, QueueInv(c), InsideWindow(c),
         c.unacked # <<>>, "INFR" \notin c.flags
  PROVE  LET d == RexmitFast(c)
         IN  /\ d \in Pcb /\ SameWindow(c, d) /\ d.lastack = c.lastack
             /\ d.snd_nxt = c.snd_nxt /\ d.snd_lbb = c.snd_lbb /\ d.out = c.out
             /\ FastInv(d) /\ Unacknowledged(d)
<1> DEFINE A == c.unacked
           U == c.unsent
           h == A[1]
           T == Tail(A)
           P == Placed(U, h)
           n == Len(U)
           m == Len(A)
           over == Oversize(c, U)
           thr == Threshold(c)
           wide == Inflated(thr, 3 * MSS)
           again == Again(c.nrtx)
           fl == c.flags \cup {"INFR"}
           d == [c EXCEPT !.unacked = T, !.unsent = P, !.unsent_oversize = over,
                          !.nrtx = again, !.ssthresh = thr, !.cwnd = wide, !.flags = fl]
<1>1. /\ A \in Seq(Seg) /\ U \in Seq(Seg) /\ c.lastack \in Nat /\ c.snd_lbb \in Nat
      /\ c.snd_nxt \in Nat /\ c.snd_wnd \in Nat /\ c.cwnd \in Nat /\ c.nrtx \in Nat
      /\ c.unsent_oversize \in Nat /\ c.flags \in SUBSET Flags
  BY PcbFields
<1>2. /\ \A i \in 1 .. m : c.lastack < End(A[i]) /\ End(A[i]) <= c.snd_lbb
      /\ \A i \in 1 .. n : c.lastack < End(U[i]) /\ End(U[i]) <= c.snd_lbb
      /\ h.seqno <= c.lastack
  BY HeadFields
<1>3. Counted(c, A \o U) /\ Room(c) /\ Sent(c)
  BY Zenon DEF QueueInv
<1>4. m \in Nat /\ n \in Nat /\ 1 \in 1 .. m /\ h \in Seg /\ <<h>> \in Seq(Seg)
      /\ Len(<<h>>) = 1 /\ <<h>>[1] = h /\ 1 \in 1 .. 1
      /\ T \in Seq(Seg) /\ A = <<h>> \o T /\ Head(A) = h
      /\ Len(T) = m - 1 /\ \A i \in 1 .. m - 1 : T[i] = A[i + 1]
  BY <1>1
<1>5. RexmitFast(c) = d
  BY <1>4, Zenon DEF RexmitFast
<1>6. P = <<h>> \o U
  <2>1. U # <<>> => h.seqno <= U[1].seqno
    <3> SUFFICES ASSUME U # <<>> PROVE h.seqno <= U[1].seqno
      OBVIOUS
    <3>1. Linked(A \o U)
      BY <1>3, Zenon DEF Counted, Covering
    <3>2. 1 \in 1 .. n
      BY <1>1, <1>4
    <3>3. \A j \in 1 .. n : \A l \in 1 .. m : A[l].seqno < U[j].seqno
      BY <1>1, <3>1, NormalOrder
    <3>4. h.seqno < U[1].seqno
      BY <1>4, <3>2, <3>3
    <3>5. h.seqno \in Nat /\ U[1].seqno \in Nat
      BY <1>1, <1>4, <3>2, SegmentAt
    <3> QED
      BY <3>4, <3>5
  <2> QED
    BY <1>1, <1>4, <2>1, PlacedFirst
<1> HIDE DEF A, U, T, P, h
<1>7. /\ P \in Seq(Seg) /\ Len(P) = 1 + n /\ P[1] = h /\ \A i \in 1 .. n : P[1 + i] = U[i]
  <2>1. /\ <<h>> \o U \in Seq(Seg) /\ Len(<<h>> \o U) = Len(<<h>>) + n
        /\ \A i \in 1 .. Len(<<h>>) : (<<h>> \o U)[i] = <<h>>[i]
        /\ \A i \in 1 .. n : (<<h>> \o U)[Len(<<h>>) + i] = U[i]
    BY <1>1, <1>4, Joined
  <2> QED
    BY <1>4, <1>6, <2>1, Zenon
<1>8. over \in Nat
  BY <1>1 DEF Oversize
<1>9. thr \in Thresholds /\ wide \in MSS .. CwndMax
  <2>1. thr \in Nat /\ 2 * MSS <= thr
    <3>1. Half(c) \in Nat
      BY <1>1 DEF Half, Least
    <3> QED
      BY <3>1, Numbers DEF Threshold
  <2> HIDE DEF thr
  <2> QED
    BY <2>1, Numbers DEF Thresholds, Inflated, Least
<1>10. again \in Nat
  BY <1>1, Numbers DEF Again
<1>11. fl \in SUBSET Flags
  BY <1>1 DEF Flags
<1> HIDE DEF over, thr, wide, again, fl
<1>12. d \in Pcb
  BY <1>4, <1>7, <1>8, <1>9, <1>10, <1>11 DEF Pcb
<1>13. /\ d.unacked = T /\ d.unsent = P /\ d.unsent_oversize = over /\ d.cwnd = wide
       /\ d.flags = fl /\ d.snd_nxt = c.snd_nxt /\ d.snd_lbb = c.snd_lbb /\ d.out = c.out
       /\ d.lastack = c.lastack /\ d.snd_buf = c.snd_buf
       /\ d.snd_queuelen = c.snd_queuelen /\ d.timer = c.timer
       /\ d.snd_wnd = c.snd_wnd /\ d.snd_wl2 = c.snd_wl2 /\ d.wl1 = c.wl1
  BY DEF Pcb
<1> HIDE DEF d
<1>14. P # <<>> /\ From(P, 2) = U
  <2>1. P # <<>>
    BY <1>4, <1>7
  <2>2. 1 \in 0 .. Len(P) /\ 1 + 1 = 2 /\ Len(P) - 1 = n
    BY <1>4, <1>7
  <2>3. /\ From(P, 2) \in Seq(Seg) /\ Len(From(P, 2)) = n
        /\ \A i \in 1 .. n : From(P, 2)[i] = P[1 + i]
    <3>1. /\ From(P, 1 + 1) \in Seq(Seg) /\ Len(From(P, 1 + 1)) = Len(P) - 1
          /\ \A i \in 1 .. Len(P) - 1 : From(P, 1 + 1)[i] = P[1 + i]
      BY <1>7, <2>2, Cut, Zenon
    <3> QED
      BY <2>2, <3>1, Zenon
  <2> DEFINE F == From(P, 2)
  <2> HIDE DEF F
  <2>4. F \in Seq(Seg) /\ Len(F) = Len(U) /\ \A i \in 1 .. Len(F) : F[i] = U[i]
    BY <1>7, <2>3, Zenon DEF F
  <2>5. F = U
    BY <1>1, <2>4, SameList
  <2> QED
    BY <2>1, <2>5, Zenon DEF F
<1>15. Turned(d) = A \o U
  <2>1. <<P[1]>> \o T = A
    BY <1>4, <1>7, Zenon
  <2> QED
    BY <1>13, <1>14, <2>1, Zenon DEF Turned
<1>16. Counted(d, Turned(d))
  BY <1>3, <1>13, <1>15, Zenon DEF Counted
<1>17. Sent(d)
  <2>0. /\ \A i \in 1 .. m : End(A[i]) <= c.snd_nxt
        /\ c.timer
    BY <1>3, Zenon DEF Sent, A
  <2>1. ASSUME NEW i \in 1 .. Len(T) PROVE End(T[i]) <= c.snd_nxt
    <3>1. i \in 1 .. m - 1 /\ i + 1 \in 1 .. m
      BY <1>4
    <3> QED
      BY <1>4, <2>0, <3>1, Zenon
  <2> QED
    BY <1>13, <2>0, <2>1, Zenon DEF Sent
<1>18. End(h) <= c.snd_nxt /\ c.lastack < End(h)
  <2>1. \A i \in 1 .. m : End(A[i]) <= c.snd_nxt
    BY <1>3, Zenon DEF Sent, A
  <2> QED
    BY <1>2, <1>4, <2>1, Zenon DEF h
<1>19. /\ h.seqno \in Nat /\ h.len \in Nat /\ h.len \in 1 .. Mss_local
       /\ End(h) = h.seqno + h.len /\ End(h) \in Nat /\ h.room \in Nat
  BY <1>4, SegmentFields
<1>20. Room(d)
  <2>0. /\ U = <<>> => c.unsent_oversize = 0
        /\ U # <<>> => /\ c.unsent_oversize <= U[n].room
                       /\ U[n].len + c.unsent_oversize <= Mss_local
    BY <1>3, Zenon DEF Room, U
  <2>1. CASE U = <<>>
    <3>1. n = 0 /\ Len(P) = 1 /\ over = 0
      BY <1>7, <2>1 DEF over, Oversize
    <3>2. P[Len(P)] = h
      BY <1>7, <3>1
    <3>3. over <= h.room /\ h.len + over <= Mss_local
      BY <1>19, <3>1, SegmentSize
    <3> QED
      BY <1>13, <1>14, <3>2, <3>3, Zenon DEF Room
  <2>2. CASE U # <<>>
    <3>1. over = c.unsent_oversize /\ n \in 1 .. n
      BY <1>1, <1>4, <2>2 DEF over, Oversize
    <3>2. P[Len(P)] = U[n]
      BY <1>7, <3>1, Zenon
    <3> QED
      BY <1>13, <1>14, <2>0, <2>2, <3>1, <3>2, Zenon DEF Room
  <2> QED
    BY <2>1, <2>2
<1>21. InWindow(d, d.unsent[1])
  <2>1. c.snd_nxt <= c.lastack + c.snd_wnd
    BY Zenon DEF InsideWindow
  <2>2. wide \in Nat /\ MSS <= wide
    BY <1>9, Numbers
  <2>3. h.seqno <= c.lastack
    BY <1>2
  <2>4. End(h) - c.lastack <= c.snd_wnd /\ End(h) - c.lastack <= wide
    <3> DEFINE e == End(h)
               s == h.seqno
               l == h.len
    <3>1. /\ e \in Nat /\ s \in Nat /\ l \in Nat /\ l <= MSS /\ e = s + l /\ e <= c.snd_nxt
          /\ s <= c.lastack
      BY <1>18, <1>19, <2>3, SegmentSize, Numbers
    <3>2. /\ c.lastack \in Nat /\ c.snd_wnd \in Nat /\ c.snd_nxt \in Nat /\ MSS \in Nat
          /\ wide \in Nat /\ MSS <= wide /\ c.snd_nxt <= c.lastack + c.snd_wnd
      BY <1>1, <2>1, <2>2, Numbers
    <3> DEFINE from == c.lastack
               wnd  == c.snd_wnd
               next == c.snd_nxt
    <3> HIDE DEF e, s, l, wide, from, wnd, next
    <3>3. e - from <= wnd /\ e - from <= wide
      <4>1. /\ e \in Nat /\ s \in Nat /\ l \in Nat /\ from \in Nat /\ wnd \in Nat
            /\ next \in Nat /\ MSS \in Nat /\ wide \in Nat
        BY <3>1, <3>2 DEF from, wnd, next
      <4>2. e = s + l /\ l <= MSS /\ s <= from /\ e <= next /\ next <= from + wnd /\ MSS <= wide
        BY <3>1, <3>2, Zenon DEF from, wnd, next
      <4> QED
        BY <4>1, <4>2
    <3> QED
      BY <3>3 DEF e, from, wnd
  <2>5. End(h) - c.lastack <= Least(c.snd_wnd, wide)
    BY <2>4, Zenon DEF Least
  <2> QED
    BY <1>7, <1>13, <2>5, Zenon DEF InWindow
<1>22. NaglePermits(d, 1)
  <2>1. d.flags # {}
    BY <1>13, Zenon DEF fl
  <2> QED
    BY <2>1, Zenon DEF NaglePermits
<1>23. FastInv(d)
  BY <1>7, <1>13, <1>14, <1>16, <1>17, <1>18, <1>20, <1>21, <1>22, Zenon DEF FastInv
<1>24. Unacknowledged(d)
  <2>1. ASSUME NEW i \in 1 .. Len(P) PROVE c.lastack < End(P[i])
    <3>1. CASE i = 1
      BY <1>7, <1>18, <3>1, Zenon
    <3>2. CASE i # 1
      <4>1. i - 1 \in 1 .. n /\ 1 + (i - 1) = i
        BY <1>4, <1>7, <3>2
      <4>2. P[i] = U[i - 1]
        BY <1>7, <4>1, Zenon
      <4> QED
        BY <1>2, <4>1, <4>2, Zenon DEF U
    <3> QED
      BY <3>1, <3>2
  <2> QED
    BY <1>13, <2>1, Zenon DEF Unacknowledged
<1> QED
  BY <1>5, <1>12, <1>13, <1>23, <1>24, Zenon DEF SameWindow

-----------------------------------------------------------------------------
(* Duplicate acknowledgements.                                             *)

\* The queues after an answer and before tcp_output.
Between(c, d) ==
  /\ d \in Pcb /\ (QueueInv(d) \/ FastInv(d))
  /\ SameWindow(c, d) /\ d.snd_nxt = c.snd_nxt /\ d.out = c.out

SameLists(c, d) == SameQueues(c, d) /\ SameWindow(c, d) /\ d.out = c.out

\* What leaves the queues alone leaves them as they must be in a handler.
LEMMA SameListsBetween ==
  ASSUME NEW c, NEW d \in Pcb, SameLists(c, d), QueueInv(c)
  PROVE  Between(c, d) /\ d.lastack = c.lastack
<1>1. SameQueues(c, d)
  BY Zenon DEF SameLists
<1>2. QueueInv(d)
  BY <1>1, SameKeeps
<1> QED
  BY <1>1, <1>2, Zenon DEF SameLists, SameQueues, Between

\* A duplicate acknowledgement, the fast retransmission included.
LEMMA DuplicateKeeps ==
  ASSUME NEW c, NEW w \in Pcb, QueueInv(w), InsideWindow(w), NEW ackno
  PROVE  LET e == Duplicate(c, w, ackno)
         IN  Between(w, e) /\ e.lastack = w.lastack /\ Unacknowledged(e)
<1> DEFINE isdup == /\ w.snd_wl2 + w.snd_wnd = c.snd_wl2 + c.snd_wnd /\ c.wl1
                    /\ c.timer /\ c.lastack = ackno
           x == IF isdup THEN Least(w.dupacks + 1, 4) ELSE 0
           d == [w EXCEPT !.dupacks = x]
           y == Inflated(d.cwnd, MSS)
           f == [d EXCEPT !.cwnd = y]
           e == Duplicate(c, w, ackno)
           Good(z) == Between(w, z) /\ z.lastack = w.lastack /\ Unacknowledged(z)
<1>1. e \in {f, RexmitFast(d), d}
  <2>1. e = CASE isdup /\ d.dupacks > 3 -> f
              [] isdup /\ d.dupacks = 3 -> RexmitFast(d)
              [] OTHER -> d
    BY Zenon DEF Duplicate
  <2> HIDE DEF isdup, d, f, e
  <2> QED
    BY <2>1
<1>2. x \in Nat
  <2>1. w.dupacks \in Nat
    BY PcbFields
  <2> HIDE DEF isdup
  <2> QED
    BY <2>1 DEF Least
<1> HIDE DEF x
<1>3. d \in Pcb /\ SameLists(w, d) /\ d.unacked = w.unacked /\ d.unsent = w.unsent
      /\ d.cwnd = w.cwnd /\ d.snd_lbb = w.snd_lbb
  BY <1>2 DEF Pcb, SameLists, SameQueues, SameWindow
<1> HIDE DEF d
<1>4. y \in MSS .. CwndMax
  <2>1. d.cwnd \in Nat /\ MSS <= d.cwnd
    BY <1>3, PcbFields
  <2> QED
    BY <2>1, Numbers DEF Inflated, Least
<1> HIDE DEF y
<1>5. f \in Pcb /\ SameLists(d, f)
  BY <1>3, <1>4 DEF Pcb, SameLists, SameQueues, SameWindow
<1> HIDE DEF f, e
<1>6. Between(w, d) /\ d.lastack = w.lastack /\ QueueInv(d)
  <2>1. SameQueues(w, d)
    BY <1>3, Zenon DEF SameLists
  <2> QED
    BY <1>3, <2>1, SameListsBetween, SameKeeps
<1>7. Good(d)
  <2>1. \A i \in 1 .. Len(d.unsent) : d.lastack < End(d.unsent[i])
    BY <1>3, <1>6, HeadFields
  <2> QED
    BY <1>6, <2>1, Zenon DEF Unacknowledged
<1>8. Good(f)
  <2>1. SameLists(w, f) /\ f.unsent = d.unsent /\ f.lastack = d.lastack
    BY <1>3, <1>5, Zenon DEF SameLists, SameQueues, SameWindow
  <2>2. Between(w, f) /\ f.lastack = w.lastack
    BY <1>5, <2>1, SameListsBetween
  <2> QED
    BY <1>7, <2>1, <2>2, Zenon DEF Unacknowledged
<1>9. Good(RexmitFast(d))
  <2>1. CASE d.unacked = <<>> \/ "INFR" \in d.flags
    <3>1. RexmitFast(d) = d
      BY <2>1, Zenon DEF RexmitFast
    <3> QED
      BY <1>7, <3>1, Zenon
  <2>2. CASE ~(d.unacked = <<>> \/ "INFR" \in d.flags)
    <3> DEFINE g == RexmitFast(d)
    <3>1. InsideWindow(d)
      BY <1>3, Zenon DEF InsideWindow, SameLists, SameQueues, SameWindow
    <3>2. d.unacked # <<>> /\ "INFR" \notin d.flags
      BY <2>2
    <3>3. /\ g \in Pcb /\ SameWindow(d, g) /\ g.lastack = d.lastack
          /\ g.snd_nxt = d.snd_nxt /\ g.out = d.out
          /\ FastInv(g) /\ Unacknowledged(g)
      BY <1>3, <1>6, <3>1, <3>2, RexmitTurns
    <3> HIDE DEF g
    <3>4. Good(g)
      BY <1>6, <3>3, Zenon DEF Between, SameWindow
    <3> QED
      BY <3>4, Zenon DEF g
  <2> QED
    BY <2>1, <2>2
<1>10. Good(e)
  <2> HIDE DEF Good
  <2> QED
    BY <1>1, <1>7, <1>8, <1>9, Zenon
<1> QED
  BY <1>10, Zenon DEF e

-----------------------------------------------------------------------------
(* What an acknowledgement leaves of a list.                               *)

\* What Keep computes: the list without its first segments that end by ackno.
LEMMA KeepIs ==
  ASSUME NEW q \in Seq(Seg), NEW ackno \in Nat
  PROVE  \E k \in 0 .. Len(q) :
           /\ Keep(q, ackno) = From(q, k + 1)
           /\ \A i \in 1 .. k : End(q[i]) <= ackno
           /\ k < Len(q) => End(q[k + 1]) > ackno
<1> DEFINE T == {j \in DOMAIN q : End(q[j]) <= ackno}
           k == Leading(Len(q), T)
<1>1. Len(q) \in Nat /\ T \subseteq 1 .. Len(q)
  OBVIOUS
<1>2. Keep(q, ackno) = From(q, 1 + k)
  BY Zenon DEF Keep
<1>3. /\ \A j \in T : End(q[j]) <= ackno
      /\ \A j \in 1 .. Len(q) : j \notin T => ~(End(q[j]) <= ackno)
  OBVIOUS
<1> HIDE DEF T
<1>4. k \in 0 .. Len(q) /\ 1 .. k \subseteq T /\ k + 1 \notin T
  BY <1>1, LeadingIs
<1> HIDE DEF k
<1>5. 1 + k = k + 1
  BY <1>4
<1>6. ASSUME k < Len(q) PROVE End(q[k + 1]) > ackno
  <2>1. k + 1 \in 1 .. Len(q)
    BY <1>1, <1>4, <1>6
  <2>2. End(q[k + 1]) \in Nat
    BY <2>1, SegmentAt
  <2>3. ~(End(q[k + 1]) <= ackno)
    BY <1>3, <1>4, <2>1
  <2> QED
    BY <2>2, <2>3
<1>7. \A i \in 1 .. k : End(q[i]) <= ackno
  BY <1>3, <1>4
<1> QED
  BY <1>2, <1>4, <1>5, <1>6, <1>7, Zenon

\* It drops nothing when the first segment ends later.
LEMMA KeepAll ==
  ASSUME NEW q \in Seq(Seg), NEW ackno \in Nat, \A i \in 1 .. Len(q) : ackno < End(q[i])
  PROVE  Keep(q, ackno) = q
<1>1. PICK k \in 0 .. Len(q) : /\ Keep(q, ackno) = From(q, k + 1)
                               /\ \A i \in 1 .. k : End(q[i]) <= ackno
  BY KeepIs
<1>2. k = 0
  <2> SUFFICES ASSUME k # 0 PROVE FALSE
    OBVIOUS
  <2>1. 1 \in 1 .. k /\ 1 \in 1 .. Len(q)
    OBVIOUS
  <2>2. End(q[1]) <= ackno /\ ackno < End(q[1]) /\ End(q[1]) \in Nat
    BY <1>1, <2>1, SegmentAt
  <2> QED
    BY <2>2
<1>3. From(q, 1) = q
  BY DEF From
<1>4. k + 1 = 1
  BY <1>2
<1> QED
  BY <1>1, <1>3, <1>4, Zenon

\* Before anything is acknowledged, the unsent list stays.
LEMMA AckedUnsentSame ==
  ASSUME NEW c \in Pcb, Room(c), Unacknowledged(c), NEW ackno \in Nat, ackno <= c.lastack
  PROVE  AckedUnsent(c, ackno) = c
<1> DEFINE U == c.unsent
           A == c.unacked
           q == c.snd_queuelen - (Pbufs(A) + Pbufs(U) - Pbufs(A) - Pbufs(U))
           o == Oversize(c, U)
<1>1. U \in Seq(Seg) /\ A \in Seq(Seg) /\ c.lastack \in Nat /\ c.snd_queuelen \in Int
  BY PcbFields
<1>2. Keep(U, ackno) = U
  <2>1. \A i \in 1 .. Len(U) : c.lastack < End(U[i])
    BY Zenon DEF Unacknowledged
  <2>2. ASSUME NEW i \in 1 .. Len(U) PROVE ackno < End(U[i])
    <3>1. c.lastack < End(U[i]) /\ End(U[i]) \in Nat
      BY <1>1, <2>1, SegmentAt
    <3> DEFINE e == End(U[i])
    <3> HIDE DEF e
    <3>2. ackno < e
      BY <1>1, <3>1 DEF e
    <3> QED
      BY <3>2 DEF e
  <2> QED
    BY <1>1, <2>2, KeepAll
<1>3. q = c.snd_queuelen
  <2>1. Pbufs(A) \in Nat /\ Pbufs(U) \in Nat
    BY <1>1, PbufsJoined
  <2> DEFINE a == Pbufs(A)
             u == Pbufs(U)
  <2> HIDE DEF a, u
  <2>2. c.snd_queuelen - (a + u - a - u) = c.snd_queuelen
    BY <1>1, <2>1 DEF a, u
  <2> QED
    BY <2>2 DEF a, u
<1>4. o = c.unsent_oversize
  <2>1. U = <<>> => c.unsent_oversize = 0
    BY Zenon DEF Room
  <2> QED
    BY <2>1, Zenon DEF Oversize
<1>5. WithQueues(c, A, U) = [c EXCEPT !.unacked = A, !.unsent = U, !.snd_queuelen = q,
                                      !.unsent_oversize = o]
  BY Zenon DEF WithQueues
<1> HIDE DEF q, o
<1>6. WithQueues(c, A, U) = c
  BY <1>3, <1>4, <1>5 DEF Pcb
<1>7. CASE ackno <= c.snd_nxt
  BY <1>2, <1>6, <1>7, Zenon DEF AckedUnsent
<1>8. CASE ~(ackno <= c.snd_nxt)
  BY <1>8, Zenon DEF AckedUnsent
<1> QED
  BY <1>7, <1>8

-----------------------------------------------------------------------------
(* An acknowledgement of new data.                                         *)

\* Acknowledged segments leave the two lists at the front of their row.
LEMMA KeptOfBoth ==
  ASSUME NEW A \in Seq(Seg), NEW U \in Seq(Seg), NEW lo \in Nat, NEW hi \in Nat,
         Covering(A \o U, lo, hi), NEW ackno \in lo .. hi
  PROVE  Covering(Keep(A, ackno) \o Keep(U, ackno), ackno, hi)
<1> DEFINE Q == A \o U
           L == Keep(A, ackno)
           R == Keep(U, ackno)
           m == Len(A)
           n == Len(U)
<1>1. /\ Q \in Seq(Seg) /\ Len(Q) = m + n /\ m \in Nat /\ n \in Nat
      /\ \A i \in 1 .. m : Q[i] = A[i]
      /\ \A i \in 1 .. n : Q[m + i] = U[i]
  BY Joined
<1>2. Covering(Q, lo, hi)
  OBVIOUS
<1>0. ackno \in Nat
  OBVIOUS
<1> HIDE DEF Q
<1>3. PICK i \in 0 .. m : /\ L = From(A, i + 1)
                          /\ \A l \in 1 .. i : End(A[l]) <= ackno
                          /\ i < m => End(A[i + 1]) > ackno
  BY <1>0, KeepIs
<1>4. PICK j \in 0 .. n : /\ R = From(U, j + 1)
                          /\ \A l \in 1 .. j : End(U[l]) <= ackno
                          /\ j < n => End(U[j + 1]) > ackno
  BY <1>0, KeepIs
<1>5. L \in Seq(Seg) /\ Len(L) = m - i /\ \A l \in 1 .. m - i : L[l] = A[i + l]
  BY <1>3, Cut
<1>6. R \in Seq(Seg) /\ Len(R) = n - j /\ \A l \in 1 .. n - j : R[l] = U[j + l]
  BY <1>4, Cut
<1> HIDE DEF L, R
<1>7. i < m => j = 0
  <2> SUFFICES ASSUME i < m, j # 0 PROVE FALSE
    OBVIOUS
  <2>1. i + 1 \in 1 .. m /\ 1 \in 1 .. n /\ 1 \in 1 .. j
    BY <1>1
  <2>2. Linked(A \o U)
    BY <1>2, Zenon DEF Covering, Q
  <2>3. End(A[i + 1]) <= U[1].seqno
    BY <2>1, <2>2, LinkedParts
  <2>4. End(A[i + 1]) > ackno /\ End(U[1]) <= ackno
    BY <1>3, <1>4, <2>1
  <2>5. End(A[i + 1]) \in Nat /\ U[1].seqno \in Nat /\ End(U[1]) \in Nat
        /\ U[1].seqno < End(U[1])
    BY <2>1, SegmentAt
  <2> DEFINE x == End(A[i + 1])
             y == U[1].seqno
             z == End(U[1])
  <2> HIDE DEF x, y, z
  <2>6. x <= y /\ x > ackno /\ z <= ackno /\ x \in Nat /\ y \in Nat /\ z \in Nat /\ y < z
    BY <2>3, <2>4, <2>5, Zenon DEF x, y, z
  <2> QED
    BY <2>6
<1> DEFINE k == i + j
<1>8. /\ k \in 0 .. Len(Q) /\ \A l \in 1 .. k : End(Q[l]) <= ackno
      /\ k < Len(Q) => End(Q[k + 1]) > ackno
  <2>1. CASE i < m
    <3>1. k = i /\ i + 1 \in 1 .. m /\ \A l \in 1 .. i : l \in 1 .. m
      BY <1>1, <1>7, <2>1
    <3>2. k \in 0 .. Len(Q)
      BY <1>1, <2>1, <3>1
    <3> HIDE DEF k
    <3> QED
      BY <1>1, <1>3, <2>1, <3>1, <3>2, Zenon
  <2>2. CASE ~(i < m)
    <3>0. Len(Q) = m + n /\ m \in Nat /\ n \in Nat /\ i \in 0 .. m /\ j \in 0 .. n
      BY <1>1
    <3>1. i = m /\ k = m + j /\ k \in 0 .. Len(Q)
      BY <2>2, <3>0
    <3>2. ASSUME NEW l \in 1 .. k PROVE End(Q[l]) <= ackno
      <4>1. CASE l <= m
        <5>1. l \in 1 .. m /\ l \in 1 .. i
          BY <3>1, <4>1
        <5> QED
          BY <1>1, <1>3, <5>1, Zenon
      <4>2. CASE ~(l <= m)
        <5>1. l - m \in 1 .. j /\ l - m \in 1 .. n /\ m + (l - m) = l
          BY <1>1, <3>1, <4>2
        <5>2. Q[m + (l - m)] = U[l - m] /\ End(U[l - m]) <= ackno
          BY <1>1, <1>4, <5>1, Zenon
        <5> QED
          BY <5>1, <5>2, Zenon
      <4> QED
        BY <4>1, <4>2
    <3>3. ASSUME k < Len(Q) PROVE End(Q[k + 1]) > ackno
      <4>1. j < n /\ j + 1 \in 1 .. n /\ k + 1 = m + (j + 1)
        BY <1>1, <3>1, <3>3
      <4>2. Q[m + (j + 1)] = U[j + 1]
        BY <1>1, <4>1
      <4> QED
        BY <1>4, <4>1, <4>2, Zenon
    <3> QED
      BY <3>1, <3>2, <3>3
  <2> QED
    BY <2>1, <2>2
<1>9. Covering(From(Q, k + 1), ackno, hi)
  <2> HIDE DEF k
  <2> QED
    BY <1>1, <1>2, <1>8, CoveringCut
<1>10. L \o R = From(Q, k + 1)
  <2> DEFINE F == From(Q, k + 1)
             G == L \o R
  <2>1. F \in Seq(Seg) /\ Len(F) = Len(Q) - k /\ \A l \in 1 .. Len(Q) - k : F[l] = Q[k + l]
    <3> HIDE DEF k
    <3> QED
      BY <1>1, <1>8, Cut
  <2>2. /\ G \in Seq(Seg) /\ Len(G) = Len(L) + Len(R)
        /\ \A l \in 1 .. Len(L) : G[l] = L[l]
        /\ \A l \in 1 .. Len(R) : G[Len(L) + l] = R[l]
    <3>1. L \in Seq(Seg) /\ R \in Seq(Seg)
      BY <1>5, <1>6, Zenon
    <3> QED
      BY <3>1, Joined
  <2> HIDE DEF F, G
  <2>3. Len(G) = Len(F) /\ Len(G) = (m - i) + (n - j)
    BY <1>1, <1>5, <1>6, <2>1, <2>2
  <2>4. ASSUME NEW l \in 1 .. Len(G) PROVE G[l] = F[l]
    <3>1. l \in 1 .. Len(Q) - k
      BY <2>1, <2>3, <2>4
    <3>2. F[l] = Q[k + l]
      BY <2>1, <3>1, Zenon
    <3>3. CASE l <= m - i
      <4>1. l \in 1 .. Len(L) /\ l \in 1 .. m - i /\ i + l \in 1 .. m /\ k + l = i + l
        BY <1>1, <1>5, <1>7, <3>3
      <4> QED
        BY <1>1, <1>5, <2>2, <3>2, <4>1, Zenon
    <3>4. CASE ~(l <= m - i)
      <4> DEFINE r == l - (m - i)
      <4>1. /\ r \in 1 .. Len(R) /\ r \in 1 .. n - j /\ j + r \in 1 .. n /\ Len(L) + r = l
            /\ k + l = m + (j + r)
        BY <1>1, <1>5, <1>6, <2>3, <3>4
      <4> HIDE DEF r
      <4>2. G[Len(L) + r] = R[r] /\ R[r] = U[j + r] /\ Q[m + (j + r)] = U[j + r]
        BY <1>1, <1>6, <2>2, <4>1, Zenon
      <4> QED
        BY <3>2, <4>1, <4>2, Zenon
    <3> QED
      BY <3>3, <3>4
  <2>5. G = F
    BY <2>1, <2>2, <2>3, <2>4, SameList
  <2> QED
    BY <2>5, Zenon DEF F, G
<1> QED
  BY <1>9, <1>10, Zenon DEF L, R

\* The last of a list stays the last.
LEMMA KeptLast ==
  ASSUME NEW q \in Seq(Seg), NEW ackno \in Nat
  PROVE  LET r == Keep(q, ackno)
         IN  /\ r \in Seq(Seg) /\ \A i \in 1 .. Len(r) : \E j \in 1 .. Len(q) : r[i] = q[j]
             /\ r # <<>> => q # <<>> /\ r[Len(r)] = q[Len(q)]
             /\ Pbufs(r) \in Nat /\ Pbufs(q) \in Nat /\ Pbufs(r) <= Pbufs(q)
<1> DEFINE r == Keep(q, ackno)
           n == Len(q)
<1>1. PICK k \in 0 .. n : r = From(q, k + 1)
  BY KeepIs
<1> DEFINE p == SubSeq(q, 1, k)
<1>2. /\ r \in Seq(Seg) /\ Len(r) = n - k /\ \A i \in 1 .. n - k : r[i] = q[k + i]
      /\ p \in Seq(Seg)
  BY <1>1, Cut
<1>3. p \o r = q
  BY <1>1, CutJoined
<1> HIDE DEF r, p
<1>4. Pbufs(p \o r) = Pbufs(p) + Pbufs(r) /\ Pbufs(p) \in Nat /\ Pbufs(r) \in Nat
  <2>1. p \in Seq(Seg) /\ r \in Seq(Seg)
    BY <1>2
  <2> QED
    BY <2>1, PbufsJoined
<1>5. Pbufs(r) \in Nat /\ Pbufs(q) \in Nat /\ Pbufs(r) <= Pbufs(q)
  <2> DEFINE x == Pbufs(p)
             y == Pbufs(r)
             z == Pbufs(q)
  <2> HIDE DEF x, y, z
  <2>1. z = x + y /\ x \in Nat /\ y \in Nat
    BY <1>3, <1>4, Zenon DEF x, y, z
  <2>2. y \in Nat /\ z \in Nat /\ y <= z
    BY <2>1
  <2> QED
    BY <2>2 DEF y, z
<1>6. ASSUME NEW i \in 1 .. Len(r) PROVE \E j \in 1 .. n : r[i] = q[j]
  <2>1. i \in 1 .. n - k /\ k + i \in 1 .. n
    BY <1>2
  <2> QED
    BY <1>2, <2>1, Zenon
<1>7. ASSUME r # <<>> PROVE q # <<>> /\ r[Len(r)] = q[n]
  <2>1. n - k \in 1 .. n - k /\ k + (n - k) = n /\ q # <<>>
    BY <1>2, <1>7
  <2> QED
    BY <1>2, <2>1, Zenon
<1> QED
  BY <1>2, <1>5, <1>6, <1>7, Zenon DEF r

\* The fields that Acked and AckedUnsent leave.
AckedIs(c, ackno, d) ==
  LET L == Keep(c.unacked, ackno)
      R == Keep(c.unsent, ackno)
  IN  /\ d.unacked = L /\ d.unsent = R
      /\ d.unsent_oversize = IF R = <<>> THEN 0 ELSE Oversize(c, c.unsent)
      /\ d.snd_buf = c.snd_buf + ackno - c.lastack /\ d.lastack = ackno
      /\ d.snd_queuelen = (c.snd_queuelen
                             - (Pbufs(c.unacked) + Pbufs(c.unsent) - Pbufs(L) - Pbufs(c.unsent)))
                            - (Pbufs(L) + Pbufs(c.unsent) - Pbufs(L) - Pbufs(R))
      /\ d.snd_nxt = c.snd_nxt /\ d.snd_lbb = c.snd_lbb /\ d.timer = Timed(L)
      /\ SameWindow(c, d) /\ d.out = c.out

\* An acknowledgement of new data, field by field.
LEMMA AckedFields ==
  ASSUME NEW c \in Pcb, NEW ackno \in Nat, ackno <= c.snd_nxt
  PROVE  LET d == AckedUnsent(Acked(c, ackno), ackno)
         IN  d \in Pcb /\ AckedIs(c, ackno, d)
<1> DEFINE A == c.unacked
           U == c.unsent
           L == Keep(A, ackno)
           R == Keep(U, ackno)
           start == IF "INFR" \in c.flags THEN c.ssthresh ELSE c.cwnd
           wide == Inflated(start, IF start < c.ssthresh THEN MSS ELSE (MSS * MSS) \div start)
           fl == c.flags \ {"INFR"}
           sb == c.snd_buf + ackno - c.lastack
           tm == Timed(L)
           b == [c EXCEPT !.flags = fl, !.nrtx = 0, !.dupacks = 0, !.snd_buf = sb,
                          !.lastack = ackno, !.cwnd = wide, !.timer = tm]
           o == Oversize(c, U)
           ql == c.snd_queuelen - (Pbufs(A) + Pbufs(U) - Pbufs(L) - Pbufs(U))
           a == [b EXCEPT !.unacked = L, !.unsent = U, !.snd_queuelen = ql,
                          !.unsent_oversize = o]
           p == IF R = <<>> THEN 0 ELSE o
           qr == ql - (Pbufs(L) + Pbufs(U) - Pbufs(L) - Pbufs(R))
           d == [a EXCEPT !.unacked = L, !.unsent = R, !.snd_queuelen = qr,
                          !.unsent_oversize = p]
<1>1. /\ A \in Seq(Seg) /\ U \in Seq(Seg) /\ c.snd_buf \in Int /\ c.snd_queuelen \in Int
      /\ c.lastack \in Nat /\ c.cwnd \in Nat /\ MSS <= c.cwnd /\ c.ssthresh \in Nat
      /\ MSS <= c.ssthresh /\ c.flags \in SUBSET Flags /\ c.unsent_oversize \in Nat
  BY PcbFields
<1>2. /\ L \in Seq(Seg) /\ R \in Seq(Seg) /\ Pbufs(L) \in Nat /\ Pbufs(R) \in Nat
      /\ Pbufs(A) \in Nat /\ Pbufs(U) \in Nat
  BY <1>1, KeptLast
<1>3. wide \in MSS .. CwndMax
  <2> DEFINE by == IF start < c.ssthresh THEN MSS ELSE (MSS * MSS) \div start
  <2>1. start \in Nat \ {0} /\ MSS <= start
    BY <1>1, Numbers
  <2> HIDE DEF start
  <2>2. MSS * MSS \in Nat
    BY Numbers
  <2> DEFINE sq == MSS * MSS
  <2> HIDE DEF sq
  <2>3. sq \div start \in Nat
    BY <2>1, <2>2 DEF sq
  <2>4. by \in Nat
    BY <2>3, Numbers DEF sq
  <2> HIDE DEF by
  <2>5. Inflated(start, by) \in MSS .. CwndMax
    BY <2>1, <2>4, Numbers DEF Inflated, Least
  <2> QED
    BY <2>5 DEF by
<1>4. fl \in SUBSET Flags /\ sb \in Int /\ tm \in BOOLEAN /\ ql \in Int /\ qr \in Int
  <2>1. fl \in SUBSET Flags
    BY <1>1
  <2>2. sb \in Int /\ tm \in BOOLEAN
    BY <1>1 DEF Timed
  <2> DEFINE l == Pbufs(L)
             r == Pbufs(R)
             x == Pbufs(A)
             u == Pbufs(U)
  <2> HIDE DEF l, r, x, u
  <2>3. l \in Nat /\ r \in Nat /\ x \in Nat /\ u \in Nat
    BY <1>2 DEF l, r, x, u
  <2>4. c.snd_queuelen - (x + u - l - u) \in Int
    BY <1>1, <2>3
  <2>5. (c.snd_queuelen - (x + u - l - u)) - (l + u - l - r) \in Int
    BY <1>1, <2>3
  <2> QED
    BY <2>1, <2>2, <2>4, <2>5, Zenon DEF l, r, x, u
<1>5. o \in Nat /\ p \in Nat
  BY <1>1 DEF Oversize
<1>6. Acked(c, ackno) = a
  <2>1. Acked(c, ackno) = WithQueues(b, L, U)
    BY Zenon DEF Acked
  <2>2. /\ b.unacked = A /\ b.unsent = U /\ b.snd_queuelen = c.snd_queuelen
        /\ b.unsent_oversize = c.unsent_oversize
    BY DEF Pcb
  <2> HIDE DEF b
  <2>3. Oversize(b, U) = o
    BY <2>2, Zenon DEF Oversize
  <2>4. WithQueues(b, L, U)
          = [b EXCEPT !.unacked = L, !.unsent = U,
                      !.snd_queuelen = b.snd_queuelen
                        - (Pbufs(b.unacked) + Pbufs(b.unsent) - Pbufs(L) - Pbufs(U)),
                      !.unsent_oversize = Oversize(b, U)]
    BY Zenon DEF WithQueues
  <2> QED
    BY <2>1, <2>2, <2>3, <2>4, Zenon
<1> HIDE DEF L, R, wide, fl, sb, tm, ql, qr, o, p, A, U
<1>7. b \in Pcb
  BY <1>3, <1>4 DEF Pcb
<1>8. /\ b.snd_buf = sb /\ b.lastack = ackno /\ b.snd_nxt = c.snd_nxt
      /\ b.snd_lbb = c.snd_lbb /\ b.timer = tm /\ SameWindow(c, b) /\ b.out = c.out
  BY DEF Pcb, SameWindow
<1> HIDE DEF b
<1>9. a \in Pcb
  BY <1>1, <1>2, <1>4, <1>5, <1>7 DEF Pcb
<1>10. /\ a.snd_buf = sb /\ a.lastack = ackno /\ a.snd_nxt = c.snd_nxt
       /\ a.snd_lbb = c.snd_lbb /\ a.timer = tm /\ SameWindow(b, a) /\ a.out = c.out
       /\ a.unacked = L /\ a.unsent = U /\ a.snd_queuelen = ql /\ a.unsent_oversize = o
  BY <1>7, <1>8 DEF Pcb, SameWindow
<1> HIDE DEF a
<1>11. AckedUnsent(a, ackno) = d
  <2>1. AckedUnsent(a, ackno) = WithQueues(a, L, R)
    BY <1>10, Zenon DEF AckedUnsent, R
  <2>3. Oversize(a, R) = p
    BY <1>10, Zenon DEF Oversize, p
  <2>4. WithQueues(a, L, R)
          = [a EXCEPT !.unacked = L, !.unsent = R,
                      !.snd_queuelen = a.snd_queuelen
                        - (Pbufs(a.unacked) + Pbufs(a.unsent) - Pbufs(L) - Pbufs(R)),
                      !.unsent_oversize = Oversize(a, R)]
    BY Zenon DEF WithQueues
  <2> QED
    BY <1>10, <2>1, <2>3, <2>4, Zenon DEF qr
<1>12. d \in Pcb
  BY <1>2, <1>4, <1>5, <1>9 DEF Pcb
<1>13. /\ d.snd_buf = sb /\ d.lastack = ackno /\ d.snd_nxt = c.snd_nxt
       /\ d.snd_lbb = c.snd_lbb /\ d.timer = tm /\ SameWindow(a, d) /\ d.out = c.out
       /\ d.unacked = L /\ d.unsent = R /\ d.snd_queuelen = qr /\ d.unsent_oversize = p
  BY <1>9, <1>10 DEF Pcb, SameWindow
<1> HIDE DEF d
<1>14. SameWindow(c, d)
  BY <1>8, <1>10, <1>13, Zenon DEF SameWindow
<1>15. AckedIs(c, ackno, d)
  BY <1>13, <1>14, Zenon DEF AckedIs, sb, tm, qr, ql, p, o, L, R, A, U
<1> QED
  BY <1>6, <1>11, <1>12, <1>15, Zenon

\* It cuts the covering list, and the accounts follow.
LEMMA AckedKeeps ==
  ASSUME NEW c \in Pcb, QueueInv(c), NEW ackno \in Nat, c.lastack < ackno, ackno <= c.snd_nxt
  PROVE  LET d == AckedUnsent(Acked(c, ackno), ackno)
         IN  /\ d \in Pcb /\ QueueInv(d) /\ SameWindow(c, d) /\ d.out = c.out
             /\ d.snd_nxt = c.snd_nxt /\ d.lastack = ackno
<1> DEFINE A == c.unacked
           U == c.unsent
           L == Keep(A, ackno)
           R == Keep(U, ackno)
           d == AckedUnsent(Acked(c, ackno), ackno)
<1>1. /\ A \in Seq(Seg) /\ U \in Seq(Seg) /\ c.snd_buf \in Int /\ c.snd_queuelen \in Int
      /\ c.lastack \in Nat /\ c.snd_nxt \in Nat /\ c.snd_lbb \in Nat
  BY PcbFields
<1>2. d \in Pcb /\ AckedIs(c, ackno, d)
  BY AckedFields
<1>3. Counted(c, A \o U) /\ Room(c) /\ Sent(c)
  BY Zenon DEF QueueInv
<1> HIDE DEF d, A, U
<1>4. /\ Covering(A \o U, c.lastack, c.snd_lbb)
      /\ c.snd_nxt <= c.snd_lbb /\ c.snd_lbb <= StreamMax
      /\ c.snd_buf + c.snd_lbb - c.lastack = TCP_SND_BUF /\ 0 <= c.snd_buf
      /\ c.snd_queuelen = Pbufs(A \o U) /\ c.snd_queuelen <= TCP_SND_QUEUELEN
  BY <1>3, Zenon DEF Counted
<1>5. ackno \in c.lastack .. c.snd_lbb
  BY <1>1, <1>4
<1>6. Covering(L \o R, ackno, c.snd_lbb)
  BY <1>1, <1>4, <1>5, KeptOfBoth
<1>7. /\ L \in Seq(Seg) /\ \A i \in 1 .. Len(L) : \E j \in 1 .. Len(A) : L[i] = A[j]
      /\ L # <<>> => A # <<>> /\ L[Len(L)] = A[Len(A)]
      /\ Pbufs(L) \in Nat /\ Pbufs(A) \in Nat /\ Pbufs(L) <= Pbufs(A)
  BY <1>1, KeptLast
<1>8. /\ R \in Seq(Seg)
      /\ R # <<>> => U # <<>> /\ R[Len(R)] = U[Len(U)]
      /\ Pbufs(R) \in Nat /\ Pbufs(U) \in Nat /\ Pbufs(R) <= Pbufs(U)
  BY <1>1, KeptLast
<1>9. /\ d.unacked = L /\ d.unsent = R
      /\ d.unsent_oversize = IF R = <<>> THEN 0 ELSE Oversize(c, c.unsent)
      /\ d.snd_buf = c.snd_buf + ackno - c.lastack /\ d.lastack = ackno
      /\ d.snd_queuelen = (c.snd_queuelen
                             - (Pbufs(A) + Pbufs(U) - Pbufs(L) - Pbufs(U)))
                            - (Pbufs(L) + Pbufs(U) - Pbufs(L) - Pbufs(R))
      /\ d.snd_nxt = c.snd_nxt /\ d.snd_lbb = c.snd_lbb /\ d.timer = Timed(L)
      /\ SameWindow(c, d) /\ d.out = c.out
  BY <1>2, Zenon DEF AckedIs, A, U
<1> HIDE DEF L, R
<1>10. d.snd_queuelen = Pbufs(L \o R) /\ d.snd_queuelen <= TCP_SND_QUEUELEN
  <2>1. Pbufs(A \o U) = Pbufs(A) + Pbufs(U)
    BY <1>1, PbufsJoined
  <2>2. Pbufs(L \o R) = Pbufs(L) + Pbufs(R)
    <3>1. L \in Seq(Seg) /\ R \in Seq(Seg)
      BY <1>7, <1>8
    <3> QED
      BY <3>1, PbufsJoined
  <2> DEFINE a == Pbufs(A)
             u == Pbufs(U)
             l == Pbufs(L)
             r == Pbufs(R)
             q == Pbufs(A \o U)
             s == Pbufs(L \o R)
  <2> HIDE DEF a, u, l, r, q, s
  <2>3. /\ a \in Nat /\ u \in Nat /\ l \in Nat /\ r \in Nat /\ q = a + u /\ s = l + r
        /\ l <= a /\ r <= u /\ c.snd_queuelen = q /\ q <= TCP_SND_QUEUELEN
        /\ d.snd_queuelen = (c.snd_queuelen - (a + u - l - u)) - (l + u - l - r)
    BY <1>4, <1>7, <1>8, <1>9, <2>1, <2>2, Zenon DEF a, u, l, r, q, s
  <2>4. d.snd_queuelen = s /\ d.snd_queuelen <= TCP_SND_QUEUELEN
    BY <2>3, Numbers
  <2> QED
    BY <2>4 DEF s
<1>11. Counted(d, L \o R)
  <2>1. d.snd_buf + d.snd_lbb - d.lastack = TCP_SND_BUF /\ 0 <= d.snd_buf
    <3>1. /\ c.snd_buf + ackno - c.lastack + c.snd_lbb - ackno = TCP_SND_BUF
          /\ 0 <= c.snd_buf + ackno - c.lastack
      BY <1>1, <1>4, Numbers
    <3> QED
      BY <1>9, <3>1, Zenon
  <2> QED
    BY <1>4, <1>6, <1>9, <1>10, <2>1, Zenon DEF Counted
<1>12. Room(d)
  <2>0. /\ U # <<>> => /\ c.unsent_oversize <= U[Len(U)].room
                       /\ U[Len(U)].len + c.unsent_oversize <= Mss_local
    BY <1>3, Zenon DEF Room, U
  <2>1. CASE R = <<>>
    <3>1. d.unsent_oversize = 0
      BY <1>9, <2>1, Zenon
    <3> QED
      BY <1>9, <2>1, <3>1, Zenon DEF Room
  <2>2. CASE R # <<>>
    <3>1. U # <<>> /\ R[Len(R)] = U[Len(U)]
      BY <1>8, <2>2, Zenon
    <3>2. d.unsent_oversize = c.unsent_oversize
      BY <1>9, <2>2, <3>1, Zenon DEF Oversize, U
    <3> QED
      BY <1>9, <2>0, <2>2, <3>1, <3>2, Zenon DEF Room
  <2> QED
    BY <2>1, <2>2
<1>13. Sent(d)
  <2>0. \A j \in 1 .. Len(A) : End(A[j]) <= c.snd_nxt
    BY <1>3, Zenon DEF Sent, A
  <2>1. \A i \in 1 .. Len(L) : End(L[i]) <= c.snd_nxt
    BY <1>7, <2>0, Zenon
  <2>2. L # <<>> => d.timer
    BY <1>9, Zenon DEF Timed
  <2> QED
    BY <1>9, <2>1, <2>2, Zenon DEF Sent
<1>14. QueueInv(d)
  BY <1>9, <1>11, <1>12, <1>13, Zenon DEF QueueInv
<1> QED
  BY <1>2, <1>9, <1>14, Zenon DEF d

-----------------------------------------------------------------------------
(* A whole acknowledgement.                                                *)

\* What the server has got stays explained.
Advances(c, d) ==
  c.snd_nxt <= d.snd_nxt /\ (d.lastack = c.lastack \/ c.lastack < c.snd_nxt)

\* What was sent before is still sent after the block has advanced.
LEMMA AheadStays ==
  ASSUME NEW c \in Pcb, NEW d \in Pcb, Advances(c, d), NEW n \in Nat, Ahead(c, n)
  PROVE  Ahead(d, n)
<1>1. c.snd_nxt \in Nat /\ d.snd_nxt \in Nat /\ c.lastack \in Nat /\ d.lastack \in Nat
  BY PcbFields
<1>2. c.snd_nxt <= d.snd_nxt /\ (d.lastack = c.lastack \/ c.lastack < c.snd_nxt)
  BY Zenon DEF Advances
<1>3. n <= c.snd_nxt \/ (n = c.snd_nxt + 1 /\ c.lastack = c.snd_nxt)
  BY Zenon DEF Ahead
<1>4. n <= d.snd_nxt \/ (n = d.snd_nxt + 1 /\ d.lastack = d.snd_nxt)
  BY <1>1, <1>2, <1>3
<1> QED
  BY <1>4, Zenon DEF Ahead

\* The answer's window is taken whole or not at all.
Moved(c, d, ackno, wnd) ==
  \/ SameWindow(c, d)
  \/ d.snd_wl2 = ackno /\ d.snd_wnd = wnd /\ c.snd_wl2 <= ackno
       /\ c.snd_wl2 + c.snd_wnd <= ackno + wnd

\* tcp_receive, whatever the acknowledgement acknowledges.
LEMMA AnsweredKeeps ==
  ASSUME NEW c \in Pcb, QueueInv(c), WindowInv(c),
         NEW ackno \in Nat, NEW wnd \in Nat, Answers(c, ackno, wnd)
  PROVE  LET w == Window(c, ackno, wnd)
             a == AckedUnsent(Answered(c, w, ackno), ackno)
         IN  /\ Between(w, a) /\ a.out = c.out /\ Advances(c, a) /\ WindowInv(a)
             /\ Moved(c, a, ackno, wnd) /\ a.snd_nxt = c.snd_nxt
<1> DEFINE w == Window(c, ackno, wnd)
           a == AckedUnsent(Answered(c, w, ackno), ackno)
<1>1. /\ c.lastack \in Nat /\ c.snd_wl2 \in Nat /\ c.snd_wnd \in Nat /\ c.wl1 \in BOOLEAN
      /\ c.snd_nxt \in Nat /\ Buffer \in Nat
  BY PcbFields, Numbers
<1>2. /\ w \in Pcb /\ SameQueues(c, w) /\ w.out = c.out
  BY WindowFields
<1>3. /\ c.lastack <= w.snd_wl2 /\ ackno <= w.snd_wl2
      /\ ~w.wl1 => w.snd_wl2 = 0 /\ w.snd_wnd = Buffer
      /\ c.snd_wl2 + c.snd_wnd <= w.snd_wl2 + w.snd_wnd
      /\ \/ SameWindow(c, w)
         \/ w.snd_wl2 = ackno /\ w.snd_wnd = wnd /\ c.snd_wl2 <= ackno
  BY WindowMoves
<1> HIDE DEF w
<1>4. QueueInv(w) /\ w.lastack = c.lastack /\ w.snd_nxt = c.snd_nxt
      /\ w.snd_wnd \in Nat /\ w.snd_wl2 \in Nat
  BY <1>2, SameKeeps, PcbFields DEF SameQueues
<1>5. /\ c.lastack <= c.snd_wl2 /\ c.snd_nxt <= c.lastack + c.snd_wnd
      /\ c.lastack <= c.snd_nxt
  BY Zenon DEF WindowInv, InsideWindow, QueueInv, Counted
<1>6. Moved(c, w, ackno, wnd)
  BY <1>3, Zenon DEF Moved
<1>6a. SameWindow(c, w) => w.snd_wnd = c.snd_wnd /\ w.snd_wl2 = c.snd_wl2
  BY Zenon DEF SameWindow
<1>7. CASE ackno <= c.lastack
  <2> DEFINE e == Duplicate(c, w, ackno)
  <2>1. c.snd_nxt <= c.lastack + w.snd_wnd
    BY <1>1, <1>3, <1>4, <1>5, <1>6a, <1>7
  <2>2. InsideWindow(w)
    BY <1>4, <2>1, Zenon DEF InsideWindow
  <2>3. Between(w, e) /\ e.lastack = w.lastack /\ Unacknowledged(e)
    BY <1>2, <1>4, <2>2, DuplicateKeeps
  <2>4. Answered(c, w, ackno) = e
    BY <1>1, <1>7 DEF Answered
  <2> HIDE DEF e
  <2>5. e \in Pcb /\ Room(e) /\ e.lastack = c.lastack
    BY <1>4, <2>3, Zenon DEF Between, QueueInv, FastInv
  <2>6. a = e
    BY <1>7, <2>3, <2>4, <2>5, AckedUnsentSame
  <2> HIDE DEF a
  <2>7. /\ e.snd_nxt = c.snd_nxt /\ e.snd_wnd = w.snd_wnd /\ e.snd_wl2 = w.snd_wl2
        /\ e.wl1 = w.wl1 /\ e.out = c.out
    BY <1>2, <1>4, <2>3, Zenon DEF Between, SameWindow
  <2>8. Advances(c, a)
    BY <1>1, <2>5, <2>6, <2>7 DEF Advances
  <2>9. WindowInv(a)
    BY <1>3, <2>1, <2>5, <2>6, <2>7, Zenon DEF WindowInv, InsideWindow
  <2>10. Moved(c, a, ackno, wnd)
    BY <1>6, <2>6, <2>7, Zenon DEF Moved, SameWindow
  <2> QED
    BY <2>3, <2>6, <2>7, <2>8, <2>9, <2>10, Zenon DEF a, w
<1>8. CASE c.lastack < ackno /\ ackno <= c.snd_nxt
  <2>1. Answered(c, w, ackno) = Acked(w, ackno)
    BY <1>1, <1>8 DEF Answered
  <2>2. /\ a \in Pcb /\ QueueInv(a) /\ SameWindow(w, a) /\ a.out = w.out
        /\ a.snd_nxt = w.snd_nxt /\ a.lastack = ackno
    BY <1>2, <1>4, <1>8, <2>1, AckedKeeps
  <2> HIDE DEF a
  <2>3. Between(w, a)
    BY <2>2, Zenon DEF Between
  <2>4. c.snd_nxt <= ackno + w.snd_wnd
    BY <1>1, <1>3, <1>4, <1>5, <1>6a, <1>8
  <2>5. a.snd_nxt = c.snd_nxt /\ a.snd_wnd = w.snd_wnd /\ a.snd_wl2 = w.snd_wl2
        /\ a.wl1 = w.wl1 /\ a.out = c.out
    BY <1>2, <1>4, <2>2, Zenon DEF SameWindow
  <2>6. Advances(c, a)
    <3>1. c.lastack < c.snd_nxt /\ c.snd_nxt <= c.snd_nxt
      BY <1>1, <1>8
    <3> QED
      BY <2>5, <3>1, Zenon DEF Advances
  <2>7. WindowInv(a)
    BY <1>3, <2>2, <2>4, <2>5, Zenon DEF WindowInv, InsideWindow
  <2>8. Moved(c, a, ackno, wnd)
    BY <1>6, <2>5, Zenon DEF Moved, SameWindow
  <2> QED
    BY <2>3, <2>5, <2>6, <2>7, <2>8, Zenon DEF a, w
<1>9. CASE ~(ackno <= c.lastack) /\ ~(c.lastack < ackno /\ ackno <= c.snd_nxt)
  <2>1. Answered(c, w, ackno) = w
    BY <1>9 DEF Answered
  <2>2. ~(ackno <= c.snd_nxt)
    BY <1>1, <1>9
  <2>3. a = w
    BY <1>4, <2>1, <2>2, Zenon DEF AckedUnsent
  <2> HIDE DEF a
  <2>4. c.lastack = c.snd_nxt
    BY <2>2, Zenon DEF Answers, Ahead
  <2>5. c.snd_nxt <= c.lastack + w.snd_wnd /\ c.snd_nxt <= c.snd_nxt
    BY <1>1, <1>4, <2>4
  <2>6. SameWindow(w, w)
    BY Zenon DEF SameWindow
  <2>7. Between(w, w)
    BY <1>2, <1>4, <2>6, Zenon DEF Between
  <2>8. Advances(c, w)
    BY <1>4, <2>5, Zenon DEF Advances
  <2>9. WindowInv(w)
    BY <1>3, <1>4, <2>5, Zenon DEF WindowInv, InsideWindow
  <2> QED
    BY <1>2, <1>4, <1>6, <2>3, <2>7, <2>8, <2>9, Zenon DEF a, w
<1> QED
  BY <1>7, <1>8, <1>9

\* All that a handler must keep of the control block.
Sound(c) == c \in Pcb /\ QueueInv(c) /\ WindowInv(c)

\* What tcp_output adds to a handler.
LEMMA OutputSound ==
  ASSUME NEW c \in Pcb, NEW a \in Pcb, QueueInv(a) \/ FastInv(a), OutInv(a), WindowInv(a),
         Advances(c, a)
  PROVE  LET d == Output(a)
         IN  Sound(d) /\ OutInv(d) /\ SameWindow(a, d) /\ Advances(c, d)
<1> DEFINE d == Output(a)
<1>1. InsideWindow(a)
  BY Zenon DEF WindowInv
<1>2. /\ d \in Pcb /\ QueueInv(d) /\ OutInv(d) /\ InsideWindow(d)
      /\ SameWindow(a, d) /\ d.lastack = a.lastack /\ a.snd_nxt <= d.snd_nxt
  BY <1>1, OutputKeeps
<1> HIDE DEF d
<1>3. WindowInv(d)
  BY <1>2, Zenon DEF WindowInv, SameWindow
<1>4. Advances(c, d)
  <2>1. c.snd_nxt \in Nat /\ a.snd_nxt \in Nat /\ d.snd_nxt \in Nat
    BY <1>2, PcbFields
  <2>2. c.snd_nxt <= a.snd_nxt /\ (a.lastack = c.lastack \/ c.lastack < c.snd_nxt)
    BY Zenon DEF Advances
  <2>3. c.snd_nxt <= d.snd_nxt
    BY <1>2, <2>1, <2>2
  <2> QED
    BY <1>2, <2>2, <2>3, Zenon DEF Advances
<1> QED
  BY <1>2, <1>3, <1>4, Zenon DEF Sound, d

\* tcp_input of an acknowledgement, tcp_output included.
LEMMA AckStep ==
  ASSUME NEW c, Sound(c), c.out = {},
         NEW ackno \in Nat, NEW wnd \in Nat, Answers(c, ackno, wnd)
  PROVE  LET w == Window(c, ackno, wnd)
             d == Output(AckedUnsent(Answered(c, w, ackno), ackno))
         IN  Sound(d) /\ OutInv(d) /\ Moved(c, d, ackno, wnd) /\ Advances(c, d)
<1> DEFINE w == Window(c, ackno, wnd)
           a == AckedUnsent(Answered(c, w, ackno), ackno)
           d == Output(a)
<1>1. c \in Pcb /\ QueueInv(c) /\ WindowInv(c)
  BY Zenon DEF Sound
<1>2. /\ Between(w, a) /\ a.out = c.out /\ Advances(c, a) /\ WindowInv(a)
      /\ Moved(c, a, ackno, wnd) /\ a.snd_nxt = c.snd_nxt
  BY <1>1, AnsweredKeeps
<1> HIDE DEF a
<1>3. a \in Pcb /\ (QueueInv(a) \/ FastInv(a))
  BY <1>2, Zenon DEF Between
<1>4. OutInv(a)
  BY <1>2 DEF OutInv
<1>5. Sound(d) /\ OutInv(d) /\ SameWindow(a, d) /\ Advances(c, d)
  BY <1>1, <1>2, <1>3, <1>4, OutputSound
<1> HIDE DEF d
<1>6. Moved(c, d, ackno, wnd)
  BY <1>2, <1>5, Zenon DEF Moved, SameWindow
<1> QED
  BY <1>5, <1>6, Zenon DEF d, a

-----------------------------------------------------------------------------
(* tcp_slowtmr.                                                            *)

\* A retransmission moves everything back to the unsent list.
LEMMA RtoSound ==
  ASSUME NEW c, Sound(c)
  PROVE  LET d == Rto(c)
         IN  Sound(d) /\ d.out = c.out /\ SameWindow(c, d) /\ Advances(c, d)
<1> DEFINE A == c.unacked
           U == c.unsent
           Q == A \o U
           thr == Threshold(c)
           nr == Again(c.nrtx)
           d == [c EXCEPT !.ssthresh = thr, !.cwnd = MSS, !.nrtx = nr,
                          !.unsent = Q, !.unacked = <<>>]
<1>1. c \in Pcb /\ QueueInv(c) /\ WindowInv(c)
  BY Zenon DEF Sound
<1>2. /\ A \in Seq(Seg) /\ U \in Seq(Seg) /\ c.cwnd \in Nat /\ c.snd_wnd \in Nat
      /\ c.nrtx \in Nat /\ c.snd_nxt \in Nat
  BY <1>1, PcbFields
<1>3. Counted(c, Q) /\ Room(c)
  BY <1>1, Zenon DEF QueueInv
<1>4. Rto(c) = d
  BY Zenon DEF Rto
<1>5. Q \in Seq(Seg) /\ <<>> \in Seq(Seg)
  BY <1>2, Joined
<1>6. thr \in Thresholds /\ nr \in Nat /\ MSS \in MSS .. CwndMax
  <2>1. Half(c) \in Nat
    BY <1>2 DEF Half, Least
  <2>2. thr \in Thresholds
    BY <2>1, Numbers DEF Threshold, Thresholds
  <2>3. nr \in Nat
    BY <1>2, Numbers DEF Again
  <2>4. MSS \in MSS .. CwndMax
    BY Numbers
  <2> QED
    BY <2>2, <2>3, <2>4
<1> HIDE DEF thr, nr, Q
<1>7. d \in Pcb
  BY <1>1, <1>5, <1>6 DEF Pcb
<1>8. /\ d.unacked = <<>> /\ d.unsent = Q /\ d.unsent_oversize = c.unsent_oversize
      /\ d.snd_nxt = c.snd_nxt /\ d.snd_lbb = c.snd_lbb /\ d.lastack = c.lastack
      /\ d.snd_buf = c.snd_buf /\ d.snd_queuelen = c.snd_queuelen /\ d.out = c.out
      /\ SameWindow(c, d)
  BY <1>1 DEF Pcb, SameWindow
<1> HIDE DEF d
<1>9. <<>> \o Q = Q
  BY <1>5, EmptyJoins
<1>10. Counted(d, d.unacked \o d.unsent)
  BY <1>3, <1>8, <1>9, Zenon DEF Counted
<1>11. Room(d)
  <2>1. /\ U = <<>> => c.unsent_oversize = 0
        /\ U # <<>> => /\ c.unsent_oversize <= U[Len(U)].room
                       /\ U[Len(U)].len + c.unsent_oversize <= Mss_local
    BY <1>3, Zenon DEF Room
  <2>0. A \in Seq(Seg) /\ U \in Seq(Seg)
    BY <1>2
  <2> HIDE DEF A, U
  <2>2. /\ Len(Q) = Len(A) + Len(U)
        /\ \A i \in 1 .. Len(U) : Q[Len(A) + i] = U[i]
        /\ Len(A) \in Nat /\ Len(U) \in Nat
    BY <2>0, Joined DEF Q
  <2>3. CASE U = <<>>
    <3>1. c.unsent_oversize = 0
      BY <2>1, <2>3
    <3>2. ASSUME Q # <<>> PROVE 0 <= Q[Len(Q)].room /\ Q[Len(Q)].len + 0 <= Mss_local
      <4>1. Len(Q) \in 1 .. Len(Q)
        BY <1>5, <3>2
      <4>2. Q[Len(Q)] \in Seg
        BY <1>5, <4>1, SegmentAt
      <4> QED
        BY <4>2, SegmentFields, SegmentSize
    <3> QED
      BY <1>8, <3>1, <3>2, Zenon DEF Room
  <2>4. CASE U # <<>>
    <3>0. Len(Q) = Len(A) + Len(U) /\ Len(A) \in Nat /\ Len(U) \in Nat
      BY <2>2, Zenon
    <3>1. Len(U) \in 1 .. Len(U) /\ Q # <<>>
      BY <1>5, <2>0, <2>4, <3>0
    <3>2. Q[Len(Q)] = U[Len(U)]
      BY <2>2, <3>1, Zenon
    <3> QED
      BY <1>8, <2>1, <2>4, <3>1, <3>2, Zenon DEF Room
  <2> QED
    BY <2>3, <2>4
<1>12. Sent(d)
  <2>1. \A i \in 1 .. Len(<<>>) : FALSE
    OBVIOUS
  <2> QED
    BY <1>8, <2>1, Zenon DEF Sent
<1>13. WindowInv(d)
  BY <1>1, <1>8, Zenon DEF WindowInv, InsideWindow, SameWindow
<1>14. Advances(c, d)
  <2>1. c.snd_nxt <= c.snd_nxt
    BY <1>2
  <2> QED
    BY <1>8, <2>1, Zenon DEF Advances
<1> QED
  BY <1>4, <1>7, <1>8, <1>10, <1>11, <1>12, <1>13, <1>14, Zenon DEF Sound, QueueInv

\* A probe's byte is the first that is not acknowledged, or an older one.
LEMMA ProbeSound ==
  ASSUME NEW c, Sound(c), OutInv(c)
  PROVE  LET d == Probe(c)
         IN  Sound(d) /\ OutInv(d) /\ SameWindow(c, d) /\ Advances(c, d)
<1> DEFINE Q == c.unacked \o c.unsent
           x == [seqno |-> Q[1].seqno, len |-> 1]
           o == c.out \cup {x}
           d == [c EXCEPT !.out = o]
<1>1. c \in Pcb /\ QueueInv(c) /\ WindowInv(c)
  BY Zenon DEF Sound
<1>2. /\ c.snd_nxt \in Nat /\ c.lastack \in Nat /\ c.snd_lbb \in Nat /\ c.out \in SUBSET Sending
      /\ c.unacked \in Seq(Seg) /\ c.unsent \in Seq(Seg)
  BY <1>1, PcbFields
<1>3. c.snd_nxt <= c.snd_nxt
  BY <1>2
<1>4. CASE Q = <<>>
  <2>1. Probe(c) = c
    BY <1>4, Zenon DEF Probe
  <2> QED
    BY <1>3, <2>1, Zenon DEF SameWindow, Advances
<1>5. CASE Q # <<>>
  <2>1. Probe(c) = d
    BY <1>5, Zenon DEF Probe
  <2>2. Q \in Seq(Seg)
    BY <1>2, Joined
  <2>3. /\ Q[1].seqno <= c.lastack /\ c.lastack < End(Q[1]) /\ Covering(Q, c.lastack, c.snd_lbb)
        /\ c.lastack <= c.snd_nxt /\ c.snd_nxt <= c.snd_lbb /\ c.snd_lbb <= StreamMax
    BY <1>1, <1>5, Zenon DEF QueueInv, Counted, Covering
  <2> HIDE DEF Q
  <2>4. 1 \in 1 .. Len(Q)
    BY <1>5, <2>2
  <2>5. Q[1].seqno \in Nat /\ End(Q[1]) \in Nat /\ End(Q[1]) <= c.snd_lbb
    BY <1>2, <2>2, <2>3, <2>4, SegmentAt, CoveredOnce
  <2> DEFINE s == Q[1].seqno
             e == End(Q[1])
  <2>6. x.seqno = s /\ x.len = 1 /\ x \in Sending
    BY <2>5 DEF Sending
  <2>7. End(x) = s + 1
    BY <2>6, Zenon DEF End
  <2> HIDE DEF s, e, x
  <2>8. /\ s \in Nat /\ e \in Nat /\ e <= c.snd_lbb /\ s <= c.lastack /\ c.lastack < e
    BY <2>3, <2>5, Zenon DEF s, e
  <2>9. /\ s + 1 <= StreamMax
        /\ s + 1 <= c.snd_nxt \/ (s + 1 = c.snd_nxt + 1 /\ c.lastack = c.snd_nxt)
        /\ 1 \in 1 .. MSS
    BY <1>2, <2>3, <2>8, Numbers
  <2>10. x \in Sending /\ x.len \in 1 .. MSS /\ End(x) <= StreamMax /\ Ahead(c, End(x))
    BY <2>6, <2>7, <2>9, Zenon DEF Ahead
  <2>11. o \in SUBSET Sending
    BY <1>2, <2>10
  <2>12. \A m \in o : m \in Sending /\ m.len \in 1 .. MSS /\ End(m) <= StreamMax /\ Ahead(c, End(m))
    BY <2>10, Zenon DEF OutInv
  <2> HIDE DEF o
  <2>13. /\ d \in Pcb /\ SameQueues(c, d) /\ SameWindow(c, d) /\ d.out = o
    BY <1>1, <2>11 DEF Pcb, SameQueues, SameWindow
  <2> HIDE DEF d
  <2>14. d.snd_nxt = c.snd_nxt /\ d.lastack = c.lastack
    BY <2>13, Zenon DEF SameQueues
  <2>15. QueueInv(d)
    BY <1>1, <2>13, Zenon DEF SameQueues, QueueInv, Counted, Room, Sent
  <2>16. WindowInv(d)
    BY <1>1, <2>13, <2>14, Zenon DEF WindowInv, InsideWindow, SameWindow
  <2>17. OutInv(d)
    BY <2>12, <2>13, <2>14, Zenon DEF OutInv, Ahead
  <2>18. Advances(c, d)
    BY <1>3, <2>14, Zenon DEF Advances
  <2> QED
    BY <2>1, <2>13, <2>15, <2>16, <2>17, <2>18, Zenon DEF Sound
<1> QED
  BY <1>4, <1>5

\* What every handler but the acknowledgement keeps.
Kept(c, d) == Sound(d) /\ OutInv(d) /\ SameWindow(c, d) /\ Advances(c, d)

\* A tick of tcp_slowtmr, whatever is due.
LEMMA SlowTmrKeeps ==
  ASSUME NEW c, Sound(c), c.out = {}
  PROVE  /\ Kept(c, c) /\ Kept(c, Timeout(c))
         /\ Kept(c, Output(c)) /\ Kept(c, Output(Timeout(c)))
<1>1. OutInv(c) /\ c.snd_nxt \in Nat
  BY PcbFields DEF OutInv, Sound
<1>2. Kept(c, c)
  <2>1. c.snd_nxt <= c.snd_nxt
    BY <1>1
  <2> QED
    BY <1>1, <2>1, Zenon DEF Kept, SameWindow, Advances
<1>3. Kept(c, Timeout(c))
  <2>1. CASE c.persist
    <3>1. Timeout(c) = Probe(c)
      BY <2>1, Zenon DEF Timeout
    <3> QED
      BY <1>1, <3>1, ProbeSound, Zenon DEF Kept
  <2>2. CASE ~c.persist
    <3>1. Timeout(c) = Rto(c)
      BY <2>2, Zenon DEF Timeout
    <3>2. LET d == Rto(c) IN Sound(d) /\ d.out = c.out /\ SameWindow(c, d) /\ Advances(c, d)
      BY RtoSound
    <3> DEFINE d == Rto(c)
    <3>3. Sound(d) /\ d.out = {} /\ SameWindow(c, d) /\ Advances(c, d)
      BY <3>2, Zenon
    <3> HIDE DEF d
    <3>4. OutInv(d)
      BY <3>3 DEF OutInv
    <3>5. Kept(c, d)
      BY <3>3, <3>4, Zenon DEF Kept
    <3> QED
      BY <3>1, <3>5, Zenon DEF d
  <2> QED
    BY <2>1, <2>2
<1>4. ASSUME NEW a, Kept(c, a) PROVE Kept(c, Output(a))
  <2>1. a \in Pcb /\ QueueInv(a) /\ WindowInv(a) /\ OutInv(a) /\ Advances(c, a)
        /\ SameWindow(c, a) /\ c \in Pcb
    BY <1>4, Zenon DEF Kept, Sound
  <2> DEFINE d == Output(a)
  <2>2. Sound(d) /\ OutInv(d) /\ SameWindow(a, d) /\ Advances(c, d)
    BY <2>1, OutputSound
  <2> HIDE DEF d
  <2>3. Kept(c, d)
    BY <2>1, <2>2, Zenon DEF Kept, SameWindow
  <2> QED
    BY <2>3, Zenon DEF d
<1> QED
  BY <1>2, <1>3, <1>4, Zenon

-----------------------------------------------------------------------------
(* tcp_write.                                                              *)

\* How many segments a length takes, and what the last one holds.
LEMMA Segments ==
  ASSUME NEW x \in Nat, NEW M \in Nat \ {0}
  PROVE  LET k == (x + M - 1) \div M
         IN  /\ k \in Nat /\ (x = 0 => k = 0)
             /\ x # 0 => k > 0 /\ x - (k - 1) * M \in 1 .. M
<1> DEFINE y == x + M - 1
           k == y \div M
           r == y % M
<1>1. y \in Nat
  OBVIOUS
<1> HIDE DEF y
<1>2. y = M * k + r /\ r \in 0 .. M - 1 /\ k \in Int
  BY <1>1
<1> HIDE DEF k, r
<1>3. k \in Nat
  <2> SUFFICES ASSUME k < 0 PROVE FALSE
    BY <1>2
  <2>1. k + 1 <= 0 /\ k + 1 \in Int
    BY <1>2
  <2>2. M * (k + 1) <= 0
    BY <2>1
  <2>3. M * (k + 1) = M * k + M
    BY <1>2
  <2> QED
    BY <1>1, <1>2, <2>2, <2>3
<1>4. ASSUME x = 0 PROVE k = 0
  <2> SUFFICES ASSUME k # 0 PROVE FALSE
    OBVIOUS
  <2>1. k - 1 \in Nat
    BY <1>3
  <2>2. M * (k - 1) \in Nat /\ M * (k - 1) = M * k - M
    BY <2>1, <1>3
  <2>3. y = M - 1
    BY <1>4 DEF y
  <2> QED
    BY <1>2, <2>2, <2>3
<1>5. ASSUME x # 0 PROVE k > 0
  <2> SUFFICES ASSUME k = 0 PROVE FALSE
    BY <1>3
  <2>1. M * k = 0
    OBVIOUS
  <2>2. y >= M
    BY <1>5 DEF y
  <2> QED
    BY <1>1, <1>2, <2>1, <2>2
<1>6. x - (k - 1) * M = r + 1
  <2>1. (k - 1) * M = M * k - M
    BY <1>3
  <2> DEFINE z == (k - 1) * M
             w == M * k
  <2>2. w \in Int
    BY <1>3
  <2> HIDE DEF z, w
  <2>3. z = w - M /\ y = w + r
    BY <1>2, <2>1 DEF z, w
  <2>4. x - z = r + 1
    BY <1>2, <2>2, <2>3 DEF y
  <2> QED
    BY <2>4 DEF z
<1>7. x - (k - 1) * M \in 1 .. M
  <2>1. r + 1 \in 1 .. M
    BY <1>2
  <2> QED
    BY <1>6, <2>1
<1> QED
  BY <1>3, <1>4, <1>5, <1>7, Zenon DEF k, y

\* The last segment grows.
LEMMA CoveringGrown ==
  ASSUME NEW P \in Seq(Seg), NEW x \in Seg, NEW y \in Seg, NEW lo \in Nat, NEW hi \in Nat,
         Covering(P \o <<x>>, lo, hi), y.seqno = x.seqno, End(x) <= End(y)
  PROVE  Covering(P \o <<y>>, lo, End(y))
<1> DEFINE Q == P \o <<x>>
           R == P \o <<y>>
           n == Len(P)
<1>0. <<x>> \in Seq(Seg) /\ <<y>> \in Seq(Seg) /\ Len(<<x>>) = 1 /\ Len(<<y>>) = 1
      /\ <<x>>[1] = x /\ <<y>>[1] = y /\ 1 \in 1 .. 1
  OBVIOUS
<1>1. /\ Q \in Seq(Seg) /\ Len(Q) = n + 1 /\ Q[n + 1] = x /\ \A i \in 1 .. n : Q[i] = P[i]
  BY <1>0, Joined
<1>2. /\ R \in Seq(Seg) /\ Len(R) = n + 1 /\ R[n + 1] = y /\ \A i \in 1 .. n : R[i] = P[i]
  BY <1>0, Joined
<1>3. Covering(Q, lo, hi) /\ n \in Nat
  OBVIOUS
<1> HIDE DEF Q, R
<1>4. Q # <<>> /\ R # <<>> /\ 1 \in 1 .. n + 1
  BY <1>1, <1>2, <1>3
<1>5. Linked(Q) /\ Q[1].seqno <= lo /\ lo < End(Q[1])
  BY <1>3, <1>4, Zenon DEF Covering
<1>6. \A i \in 1 .. n + 1 : R[i].seqno = Q[i].seqno
  <2> SUFFICES ASSUME NEW i \in 1 .. n + 1 PROVE R[i].seqno = Q[i].seqno
    OBVIOUS
  <2>1. i \in 1 .. n \/ i = n + 1
    BY <1>3
  <2> QED
    BY <1>1, <1>2, <2>1, Zenon
<1>7. ASSUME NEW j \in 1 .. Len(R) - 1 PROVE End(R[j]) = R[j + 1].seqno
  <2>1. j \in 1 .. n /\ j + 1 \in 1 .. n + 1 /\ j \in 1 .. Len(Q) - 1
    BY <1>1, <1>2, <1>3
  <2>2. End(Q[j]) = Q[j + 1].seqno
    BY <1>5, <2>1, Zenon DEF Linked
  <2> QED
    BY <1>1, <1>2, <1>6, <2>1, <2>2, Zenon
<1>8. lo < End(R[1])
  <2>1. CASE n = 0
    <3>1. R[1] = y /\ Q[1] = x
      BY <1>1, <1>2, <2>1
    <3>2. End(x) \in Nat /\ End(y) \in Nat
      BY SegmentFields
    <3> QED
      BY <1>5, <3>1, <3>2
  <2>2. CASE n # 0
    <3>1. 1 \in 1 .. n
      BY <1>3, <2>2
    <3>2. Q[1] = P[1] /\ R[1] = P[1]
      BY <1>1, <1>2, <3>1, Zenon
    <3> QED
      BY <1>5, <3>2, Zenon
  <2> QED
    BY <2>1, <2>2
<1>9. R[1].seqno <= lo
  BY <1>4, <1>5, <1>6, Zenon
<1> QED
  BY <1>2, <1>4, <1>7, <1>8, <1>9, Zenon DEF Covering, Linked, R

\* Segments follow.
LEMMA CoveringFollowed ==
  ASSUME NEW P \in Seq(Seg), NEW T \in Seq(Seg), NEW lo \in Nat, NEW mid \in Nat,
         Covering(P, lo, mid), T # <<>>, Linked(T), T[1].seqno = mid
  PROVE  Covering(P \o T, lo, End(T[Len(T)]))
<1> DEFINE Q == P \o T
           m == Len(P)
           n == Len(T)
<1>1. /\ Q \in Seq(Seg) /\ Len(Q) = m + n /\ m \in Nat /\ n \in Nat
      /\ \A i \in 1 .. m : Q[i] = P[i]
      /\ \A i \in 1 .. n : Q[m + i] = T[i]
  BY Joined
<1> HIDE DEF Q
<1>2. n > 0 /\ 1 \in 1 .. n /\ n \in 1 .. n /\ Q # <<>>
  BY <1>1
<1>3. /\ Linked(P) /\ (P = <<>> => lo = mid)
      /\ P # <<>> => P[1].seqno <= lo /\ lo < End(P[1]) /\ End(P[m]) = mid
  BY Zenon DEF Covering
<1>4. ASSUME NEW j \in 1 .. Len(Q) - 1 PROVE End(Q[j]) = Q[j + 1].seqno
  <2>0. Len(Q) = m + n /\ m \in Nat /\ n \in Nat
    BY <1>1
  <2>1. CASE j < m
    <3>1. j \in 1 .. m - 1 /\ j \in 1 .. m /\ j + 1 \in 1 .. m
      BY <2>0, <2>1
    <3> QED
      BY <1>1, <1>3, <3>1, Zenon DEF Linked
  <2>2. CASE j = m
    <3>1. m \in 1 .. m /\ P # <<>>
      BY <2>0, <2>2
    <3>2. Q[m] = P[m] /\ Q[m + 1] = T[1]
      BY <1>1, <1>2, <3>1, Zenon
    <3> QED
      BY <1>3, <2>2, <3>1, <3>2, Zenon
  <2>3. CASE ~(j < m) /\ j # m
    <3> DEFINE i == j - m
    <3>1. i \in 1 .. n - 1 /\ i \in 1 .. n /\ i + 1 \in 1 .. n /\ m + i = j /\ m + (i + 1) = j + 1
      BY <2>0, <2>3
    <3> HIDE DEF i
    <3>2. End(T[i]) = T[i + 1].seqno
      BY <3>1, Zenon DEF Linked
    <3> QED
      BY <1>1, <3>1, <3>2, Zenon
  <2> QED
    BY <2>1, <2>2, <2>3
<1>5. End(Q[Len(Q)]) = End(T[n])
  BY <1>1, <1>2, Zenon
<1>6. Q[1].seqno <= lo /\ lo < End(Q[1])
  <2>1. CASE P = <<>>
    <3>1. m = 0 /\ m + 1 = 1
      BY <2>1
    <3>2. Q[1] = T[1]
      BY <1>1, <1>2, <3>1, Zenon
    <3>3. T[1].seqno \in Nat /\ T[1].seqno < End(T[1]) /\ lo = mid
      BY <1>2, <1>3, <2>1, SegmentAt
    <3> QED
      BY <3>2, <3>3
  <2>2. CASE P # <<>>
    <3>1. 1 \in 1 .. m
      BY <1>1, <2>2
    <3> QED
      BY <1>1, <1>3, <2>2, <3>1, Zenon
  <2> QED
    BY <2>1, <2>2
<1> QED
  BY <1>2, <1>4, <1>5, <1>6, Zenon DEF Covering, Linked, Q

\* The pbufs of a list of one segment,
LEMMA PbufsOfOne ==
  ASSUME NEW x \in Seg
  PROVE  Pbufs(<<x>>) = x.pbufs
<1>1. <<x>> \in Seq(Seg) /\ Len(<<x>>) = 1 /\ <<x>>[1] = x
  OBVIOUS
<1>2. PICK s : Counts(<<x>>, s) /\ Pbufs(<<x>>) = s[Len(<<x>>)]
  BY <1>1, PbufsAre
<1>3. s[0] = 0 /\ \A k \in 1 .. 1 : s[k] = s[k - 1] + <<x>>[k].pbufs
  BY <1>1, <1>2, Zenon DEF Counts
<1>4. s[1] = s[0] + x.pbufs
  <2>1. 1 \in 1 .. 1 /\ 1 - 1 = 0
    OBVIOUS
  <2> QED
    BY <1>1, <1>3, <2>1, Zenon
<1>5. x.pbufs \in Nat
  BY SegmentFields
<1>6. s[1] = x.pbufs
  BY <1>3, <1>4, <1>5
<1> QED
  BY <1>1, <1>2, <1>6, Zenon

\* and of segments with one pbuf each.
LEMMA PbufsOfOnes ==
  ASSUME NEW q \in Seq(Seg), \A i \in 1 .. Len(q) : q[i].pbufs = 1
  PROVE  Pbufs(q) = Len(q)
<1> DEFINE n == Len(q)
<1>1. PICK s : Counts(q, s) /\ Pbufs(q) = s[n]
  BY PbufsAre
<1>2. s[0] = 0 /\ \A k \in 1 .. n : s[k] = s[k - 1] + q[k].pbufs
  BY <1>1, Zenon DEF Counts
<1>3. n \in Nat /\ \A k \in 1 .. n : s[k] = s[k - 1] + 1
  BY <1>2
<1> HIDE DEF n
<1> DEFINE T == {k \in 0 .. n : s[k] = k}
<1>4. 0 \in T
  BY <1>2, <1>3
<1>5. ASSUME NEW k \in 1 .. n, k - 1 \in T PROVE k \in T
  <2>1. s[k] = s[k - 1] + 1 /\ s[k - 1] = k - 1 /\ k \in 0 .. n
    BY <1>3, <1>5
  <2> QED
    BY <2>1
<1>6. \A k \in 0 .. n : k \in T
  <2> HIDE DEF T
  <2> QED
    BY <1>3, <1>4, <1>5, Reaches
<1>7. s[n] = n
  BY <1>3, <1>6
<1> QED
  BY <1>1, <1>7, Zenon DEF n

\* The last segment is replaced by one that has grown.
LEMMA GrownIs ==
  ASSUME NEW A \in Seq(Seg), NEW U \in Seq(Seg), U # <<>>, NEW y \in Seg,
         NEW lo \in Nat, NEW hi \in Nat, Covering(A \o U, lo, hi),
         y.seqno = U[Len(U)].seqno, End(U[Len(U)]) <= End(y)
  PROVE  LET G == [U EXCEPT ![Len(U)] = y]
         IN  /\ G \in Seq(Seg) /\ G # <<>> /\ Len(G) = Len(U) /\ G[Len(G)] = y
             /\ Covering(A \o G, lo, End(y)) /\ End(U[Len(U)]) = hi
             /\ Pbufs(A \o G) + U[Len(U)].pbufs = Pbufs(A \o U) + y.pbufs
             /\ Pbufs(A \o U) \in Nat
<1> DEFINE n == Len(U)
           k == n - 1
           x == U[n]
           G == [U EXCEPT ![n] = y]
           F == SubSeq(U, 1, k)
           P == A \o F
<1>1. n \in Nat \ {0} /\ n \in 1 .. n /\ k \in 0 .. n /\ k + 1 = n /\ x \in Seg
      /\ Len(U) = n
  OBVIOUS
<1>2. G \in Seq(Seg) /\ Len(G) = n /\ G[n] = y /\ \A i \in 1 .. k : G[i] = U[i]
  <2>1. U \in [1 .. n -> Seg] /\ DOMAIN U = 1 .. n
    OBVIOUS
  <2> HIDE DEF n
  <2>2. G \in [1 .. n -> Seg]
    BY <1>1, <2>1
  <2>3. G[n] = y /\ \A i \in 1 .. k : G[i] = U[i]
    BY <1>1, <2>1
  <2> HIDE DEF G
  <2> QED
    BY <1>1, <2>2, <2>3
<1>3. F \in Seq(Seg) /\ Len(F) = k /\ \A i \in 1 .. k : F[i] = U[i]
  BY <1>1, Cut
<1>4. /\ <<x>> \in Seq(Seg) /\ Len(<<x>>) = 1 /\ <<x>>[1] = x
      /\ <<y>> \in Seq(Seg) /\ Len(<<y>>) = 1 /\ <<y>>[1] = y /\ 1 \in 1 .. 1
  BY <1>1
<1> HIDE DEF F, G, x, k
<1>5. ASSUME NEW z \in Seg, NEW q \in Seq(Seg), Len(q) = n, q[n] = z,
             \A i \in 1 .. k : q[i] = U[i]
      PROVE  q = F \o <<z>>
  <2>1. <<z>> \in Seq(Seg) /\ Len(<<z>>) = 1 /\ <<z>>[1] = z /\ 1 \in 1 .. 1
        /\ F \in Seq(Seg)
    BY <1>3
  <2> DEFINE r == F \o <<z>>
  <2>2. /\ r \in Seq(Seg) /\ Len(r) = Len(F) + Len(<<z>>)
        /\ \A i \in 1 .. Len(F) : r[i] = F[i]
        /\ \A i \in 1 .. Len(<<z>>) : r[Len(F) + i] = <<z>>[i]
    BY <2>1, Joined
  <2> HIDE DEF r
  <2>3. Len(r) = n /\ r[n] = z
    <3>1. r[k + 1] = z /\ Len(r) = k + 1
      BY <1>3, <2>1, <2>2, Zenon
    <3> QED
      BY <1>1, <3>1, Zenon
  <2>4. ASSUME NEW i \in 1 .. Len(q) PROVE q[i] = r[i]
    <3>1. i = n \/ i \in 1 .. k
      BY <1>1, <1>5
    <3> QED
      BY <1>3, <1>5, <2>2, <2>3, <3>1, Zenon
  <2>5. q = r
    BY <1>5, <2>2, <2>3, <2>4, SameList
  <2> QED
    BY <2>5 DEF r
<1>6. U = F \o <<x>>
  <2>1. U[n] = x
    BY DEF x
  <2> QED
    BY <1>1, <1>5, <2>1
<1>7. G = F \o <<y>>
  BY <1>2, <1>5
<1>8. P \in Seq(Seg) /\ A \o U = P \o <<x>> /\ A \o G = P \o <<y>>
  <2>1. F \in Seq(Seg) /\ <<x>> \in Seq(Seg) /\ <<y>> \in Seq(Seg)
    BY <1>3, <1>4
  <2>2. P \in Seq(Seg)
    BY <2>1, Joined
  <2>3. (A \o F) \o <<x>> = A \o (F \o <<x>>) /\ (A \o F) \o <<y>> = A \o (F \o <<y>>)
    <3> DEFINE u == <<x>>
               v == <<y>>
    <3>1. F \in Seq(Seg) /\ u \in Seq(Seg) /\ v \in Seq(Seg)
      BY <2>1
    <3> HIDE DEF u, v
    <3>2. (A \o F) \o u = A \o (F \o u)
      BY <3>1, SegmentsAssociate
    <3>3. (A \o F) \o v = A \o (F \o v)
      BY <3>1, SegmentsAssociate
    <3> QED
      BY <3>2, <3>3, Zenon DEF u, v
  <2> QED
    BY <1>6, <1>7, <2>2, <2>3, Zenon
<1> HIDE DEF P
<1>9. Covering(P \o <<x>>, lo, hi)
  BY <1>8, Zenon
<1>10. Covering(P \o <<y>>, lo, End(y))
  BY <1>1, <1>8, <1>9, CoveringGrown DEF x
<1>11. End(x) = hi
  <2> DEFINE Q == P \o <<x>>
  <2>1. Q \in Seq(Seg) /\ Len(Q) = Len(P) + Len(<<x>>) /\ Len(P) \in Nat
        /\ \A i \in 1 .. Len(<<x>>) : Q[Len(P) + i] = <<x>>[i]
    <3>1. P \in Seq(Seg) /\ <<x>> \in Seq(Seg)
      BY <1>4, <1>8
    <3> QED
      BY <3>1, Joined
  <2>2. Covering(Q, lo, hi)
    BY <1>9
  <2> HIDE DEF Q
  <2>3. Len(Q) = Len(P) + 1 /\ Q[Len(P) + 1] = x
    BY <1>4, <2>1, Zenon
  <2>4. Q # <<>>
    BY <2>1, <2>3
  <2>5. End(Q[Len(Q)]) = hi
    BY <2>2, <2>4, Zenon DEF Covering
  <2> QED
    BY <2>3, <2>5, Zenon
<1>12. /\ Pbufs(A \o G) + x.pbufs = Pbufs(A \o U) + y.pbufs
       /\ Pbufs(A \o U) \in Nat
  <2>0. P \in Seq(Seg) /\ <<x>> \in Seq(Seg) /\ <<y>> \in Seq(Seg)
    BY <1>4, <1>8
  <2>1. Pbufs(P \o <<x>>) = Pbufs(P) + Pbufs(<<x>>) /\ Pbufs(P \o <<y>>) = Pbufs(P) + Pbufs(<<y>>)
        /\ Pbufs(P) \in Nat
    BY <2>0, PbufsJoined
  <2>2. Pbufs(<<x>>) = x.pbufs /\ Pbufs(<<y>>) = y.pbufs /\ x.pbufs \in Nat /\ y.pbufs \in Nat
    BY <1>1, PbufsOfOne, SegmentFields
  <2> DEFINE p == Pbufs(P)
             a == x.pbufs
             b == y.pbufs
  <2>3. Pbufs(A \o G) = p + b /\ Pbufs(A \o U) = p + a
    BY <1>8, <2>1, <2>2, Zenon
  <2> HIDE DEF p, a, b
  <2>4. (p + b) + a = (p + a) + b /\ p + a \in Nat
    BY <2>1, <2>2 DEF p, a, b
  <2> QED
    BY <2>3, <2>4, Zenon DEF a, b
<1>13. G # <<>>
  BY <1>1, <1>2
<1> QED
  BY <1>2, <1>8, <1>10, <1>11, <1>12, <1>13, Zenon DEF G, x

\* The new segments.
MadeIs(made, mid, new, tail, spare) ==
  /\ made \in Seq(Seg) /\ Len(made) = new /\ made # <<>> /\ Linked(made)
  /\ made[1].seqno = mid /\ End(made[new]) = mid + (new - 1) * Mss_local + tail
  /\ made[new].room = spare /\ made[new].len = tail /\ Pbufs(made) = new

\* tcp_write's third phase: the new segments follow one another.
LEMMA MadeAre ==
  ASSUME NEW mid \in Nat, NEW new \in Nat \ {0}, NEW tail \in 1 .. Mss_local, NEW spare \in Nat
  PROVE  MadeIs([j \in 1 .. new |->
                  [seqno |-> mid + (j - 1) * Mss_local,
                   len |-> IF j = new THEN tail ELSE Mss_local,
                   pbufs |-> 1, room |-> IF j = new THEN spare ELSE 0]],
                mid, new, tail, spare)
<1> DEFINE M == Mss_local
           at1(j) == mid + (j - 1) * M
           made == [j \in 1 .. new |->
                     [seqno |-> at1(j), len |-> IF j = new THEN tail ELSE M,
                      pbufs |-> 1, room |-> IF j = new THEN spare ELSE 0]]
<1>1. M \in Nat \ {0}
  BY SegmentSize
<1> HIDE DEF M
<1>2. ASSUME NEW j \in 1 .. new PROVE at1(j) \in Nat /\ at1(j) + M = at1(j + 1)
  <2>1. j - 1 \in Nat /\ (j + 1) - 1 = j
    OBVIOUS
  <2>2. (j - 1) * M \in Nat /\ j * M = (j - 1) * M + M
    BY <1>1, <2>1
  <2> DEFINE a == (j - 1) * M
             b == j * M
  <2>3. ((j + 1) - 1) * M = b
    BY <2>1
  <2> HIDE DEF a, b
  <2>4. a \in Nat /\ b = a + M
    BY <2>2 DEF a, b
  <2>5. mid + a \in Nat /\ (mid + a) + M = mid + b
    BY <1>1, <2>4
  <2> QED
    BY <2>3, <2>5 DEF a, b
<1>3. at1(1) = mid
  <2>1. (1 - 1) * M = 0
    BY <1>1
  <2> QED
    BY <2>1
<1> HIDE DEF at1
<1>4. ASSUME NEW j \in 1 .. new
      PROVE  /\ made[j] \in Seg /\ made[j].seqno = at1(j)
             /\ made[j].len = (IF j = new THEN tail ELSE M) /\ made[j].pbufs = 1
             /\ made[j].room = IF j = new THEN spare ELSE 0
  <2> DEFINE l == IF j = new THEN tail ELSE M
             r == IF j = new THEN spare ELSE 0
  <2>1. made[j] = [seqno |-> at1(j), len |-> l, pbufs |-> 1, room |-> r]
    OBVIOUS
  <2> HIDE DEF made
  <2>2. l \in 1 .. M /\ l \in Nat /\ r \in Nat /\ at1(j) \in Nat /\ 1 \in 1 .. l
    BY <1>1, <1>2 DEF M
  <2> HIDE DEF l, r
  <2>3. made[j] \in Seg
    BY <2>1, <2>2 DEF Seg, M
  <2> QED
    BY <2>1, <2>3 DEF l, r
<1>5. made \in Seq(Seg) /\ Len(made) = new /\ made # <<>>
  <2>1. made \in [1 .. new -> Seg]
    <3>1. \A j \in 1 .. new : made[j] \in Seg
      BY <1>4
    <3> QED
      BY <3>1
  <2> HIDE DEF made
  <2> QED
    BY <2>1
<1>6. DOMAIN made = 1 .. new
  OBVIOUS
<1> HIDE DEF made
<1>7. ASSUME NEW j \in 1 .. Len(made) - 1 PROVE End(made[j]) = made[j + 1].seqno
  <2>1. j \in 1 .. new /\ j + 1 \in 1 .. new /\ j # new
    BY <1>5
  <2>2. made[j].seqno = at1(j) /\ made[j].len = M /\ made[j + 1].seqno = at1(j + 1)
    BY <1>4, <2>1
  <2> QED
    BY <1>2, <2>1, <2>2, Zenon DEF End
<1>8. 1 \in 1 .. new /\ new \in 1 .. new
  OBVIOUS
<1>9. made[1].seqno = mid /\ made[new].room = spare /\ made[new].len = tail
  BY <1>3, <1>4, <1>8
<1>10. End(made[new]) = mid + (new - 1) * M + tail
  <2>1. made[new].seqno = at1(new)
    BY <1>4, <1>8
  <2> QED
    BY <1>9, <2>1, Zenon DEF End, at1
<1>11. Pbufs(made) = new
  <2>1. \A j \in 1 .. Len(made) : made[j].pbufs = 1
    BY <1>4, <1>5
  <2> QED
    BY <1>5, <2>1, PbufsOfOnes
<1>12. MadeIs(made, mid, new, tail, spare)
  BY <1>5, <1>7, <1>9, <1>10, <1>11, Zenon DEF MadeIs, Linked, M
<1> QED
  BY <1>12, Zenon DEF made, at1, M

\* Phases 1 and 2: l is what the last unsent segment holds.
Filling(used, space, chain, rest, len, ov, n, l, M) ==
  /\ used = Least(ov, len)
  /\ space = IF n = 0 THEN 0 ELSE M - l - used
  /\ chain = Least(space, len - used)
  /\ rest = len - used - chain

Filled(used, space, chain, rest, len, ov, n, l, M) ==
  /\ used \in Nat /\ used <= len /\ used <= ov /\ space \in Nat /\ chain \in Nat
  /\ chain <= space /\ rest \in Nat /\ used + chain + rest = len
  /\ n = 0 => used = 0 /\ chain = 0
  /\ n # 0 => l + used + space = M

\* The first two phases fill the last segment at most.
LEMMA FillingFills ==
  ASSUME NEW len \in Nat \ {0}, NEW ov \in Nat, NEW n \in Nat, NEW l, NEW M \in Nat \ {0},
         n = 0 => ov = 0, n # 0 => l \in Nat /\ l + ov <= M,
         NEW used, NEW space, NEW chain, NEW rest,
         Filling(used, space, chain, rest, len, ov, n, l, M)
  PROVE  Filled(used, space, chain, rest, len, ov, n, l, M)
<1>1. used = Least(ov, len) /\ space = IF n = 0 THEN 0 ELSE M - l - used
  BY DEF Filling
<1>2. chain = Least(space, len - used) /\ rest = len - used - chain
  BY DEF Filling
<1>3. used \in Nat /\ used <= len /\ used <= ov
  BY <1>1 DEF Least
<1>4. /\ space \in Nat /\ (n = 0 => space = 0) /\ (n # 0 => l + used + space = M)
  BY <1>1, <1>3
<1>5. chain \in Nat /\ chain <= space /\ chain <= len - used
  BY <1>2, <1>3, <1>4 DEF Least
<1>6. rest \in Nat /\ used + chain + rest = len
  BY <1>2, <1>3, <1>5
<1>7. n = 0 => used = 0 /\ chain = 0
  BY <1>3, <1>4, <1>5
<1> QED
  BY <1>3, <1>4, <1>5, <1>6, <1>7 DEF Filled

\* tcp_write that fails leaves the queues as they were.
LEMMA MemErrSound ==
  ASSUME NEW c, Sound(c)
  PROVE  LET d == MemErr(c)
         IN  Sound(d) /\ d.out = c.out /\ SameWindow(c, d) /\ Advances(c, d)
<1> DEFINE e == MemErr(c)
<1>0. c \in Pcb /\ QueueInv(c) /\ WindowInv(c)
  BY Zenon DEF Sound
<1>1. e \in Pcb /\ SameQueues(c, e) /\ SameWindow(c, e) /\ e.out = c.out
  BY <1>0, MemErrFields
<1> HIDE DEF e
<1>2. QueueInv(e) /\ e.snd_nxt = c.snd_nxt /\ e.lastack = c.lastack
  BY <1>0, <1>1, SameKeeps DEF SameQueues
<1>3. WindowInv(e)
  BY <1>0, <1>1, <1>2, Zenon DEF WindowInv, InsideWindow, SameWindow
<1>4. Advances(c, e)
  <2>0. c.snd_nxt \in Nat
    BY <1>0, PcbFields
  <2>1. c.snd_nxt <= c.snd_nxt
    BY <2>0
  <2> QED
    BY <1>2, <2>1, Zenon DEF Advances
<1> QED
  BY <1>1, <1>2, <1>3, <1>4, Zenon DEF Sound, e

\* The whole of tcp_write: the last segment filled, and new ones behind it.
LEMMA SegmentedSound ==
  ASSUME NEW c, Sound(c), NEW len \in Nat \ {0}, c.snd_lbb + len <= StreamMax,
         len <= c.snd_buf, c.snd_queuelen < TCP_SND_QUEUELEN
  PROVE  LET d == Segmented(c, len)
         IN  Sound(d) /\ d.out = c.out /\ SameWindow(c, d) /\ Advances(c, d)
<1> DEFINE U      == c.unsent
           A      == c.unacked
           ov     == c.unsent_oversize
           n      == Len(c.unsent)
           used   == Least(c.unsent_oversize, len)
           space  == IF n = 0 THEN 0 ELSE Mss_local - c.unsent[n].len - used
           chain  == Least(space, len - used)
           rest   == len - used - chain
           new    == (rest + Mss_local - 1) \div Mss_local
           tail   == TailOf(rest, new)
           spare  == IF new = 1 /\ c.unsent = <<>> /\ c.unacked = <<>> THEN 0
                     ELSE Mss_local - tail
           left   == IF chain > 0 THEN space - chain ELSE c.unsent_oversize - used
           grown  == [c.unsent[n] EXCEPT !.len = @ + used + chain,
                                         !.pbufs = @ + IF chain > 0 THEN 1 ELSE 0,
                                         !.room = IF chain > 0 THEN left ELSE @ - used]
           mid    == c.snd_lbb + used + chain
           made   == [j \in 1 .. new |->
                       [seqno |-> mid + (j - 1) * Mss_local,
                        len |-> IF j = new THEN tail ELSE Mss_local,
                        pbufs |-> 1, room |-> IF j = new THEN spare ELSE 0]]
           qlen   == Lengthened(c, new, chain)
           G      == IF n = 0 THEN <<>> ELSE [c.unsent EXCEPT ![n] = grown]
           W      == G \o made
           o      == IF new > 0 THEN spare ELSE left
           lb     == c.snd_lbb + len
           sb     == c.snd_buf - len
           d      == [c EXCEPT !.unsent = W, !.unsent_oversize = o, !.snd_lbb = lb,
                               !.snd_buf = sb, !.snd_queuelen = qlen]
           Good(e) == Sound(e) /\ e.out = c.out /\ SameWindow(c, e) /\ Advances(c, e)
<1>1. c \in Pcb /\ QueueInv(c) /\ WindowInv(c)
  BY Zenon DEF Sound
<1>2. Segmented(c, len) = IF new > 0 /\ qlen > TCP_SND_QUEUELEN THEN MemErr(c) ELSE d
  BY Zenon DEF Segmented
<1>3. /\ A \in Seq(Seg) /\ U \in Seq(Seg) /\ ov \in Nat /\ c.snd_lbb \in Nat
      /\ c.snd_buf \in Int /\ c.snd_queuelen \in Int /\ c.lastack \in Nat /\ c.snd_nxt \in Nat
      /\ c.snd_wnd \in Nat
  BY <1>1, PcbFields
<1>4. Counted(c, A \o U) /\ Room(c) /\ Sent(c)
  BY <1>1, Zenon DEF QueueInv
<1>5. /\ Covering(A \o U, c.lastack, c.snd_lbb) /\ c.lastack <= c.snd_nxt
      /\ c.snd_nxt <= c.snd_lbb /\ c.snd_buf + c.snd_lbb - c.lastack = TCP_SND_BUF
      /\ c.snd_queuelen = Pbufs(A \o U) /\ c.snd_queuelen <= TCP_SND_QUEUELEN
  BY <1>4, Zenon DEF Counted
<1>6. /\ n = 0 => ov = 0
      /\ n # 0 => /\ ov <= U[n].room /\ U[n].len + ov <= Mss_local
                  /\ U[n] \in Seg /\ U # <<>>
  <2>1. /\ U = <<>> => ov = 0
        /\ U # <<>> => ov <= U[n].room /\ U[n].len + ov <= Mss_local
    BY <1>4, Zenon DEF Room
  <2>2. (n = 0 => U = <<>>) /\ (n # 0 => U # <<>> /\ U[n] \in Seg) /\ n \in Nat
    BY <1>3
  <2> QED
    BY <2>1, <2>2, Zenon
<1>7. n # 0 => /\ U[n].len \in Nat \ {0} /\ U[n].pbufs \in 1 .. U[n].len /\ U[n].pbufs \in Nat
               /\ U[n].room \in Nat /\ U[n].seqno \in Nat /\ End(U[n]) = U[n].seqno + U[n].len
  BY <1>6, SegmentFields
<1>8. Mss_local \in Nat \ {0}
  BY SegmentSize
<1>9. Good(MemErr(c))
  BY MemErrSound
<1>10. SUFFICES ASSUME ~(new > 0 /\ qlen > TCP_SND_QUEUELEN)
                PROVE  Good(d)
  <2> HIDE DEF new, qlen, d, Good
  <2> QED
    BY <1>2, <1>9, <1>10, Zenon DEF Good
<1> HIDE DEF new, qlen
<1>11. /\ used \in Nat /\ used <= len /\ used <= ov /\ space \in Nat /\ chain \in Nat
       /\ chain <= space /\ rest \in Nat /\ used + chain + rest = len
       /\ n = 0 => used = 0 /\ chain = 0
       /\ n # 0 => U[n].len + used + space = Mss_local
  <2> DEFINE l == c.unsent[n].len
  <2>1. n \in Nat /\ (n = 0 => ov = 0) /\ (n # 0 => l \in Nat /\ l + ov <= Mss_local)
    BY <1>3, <1>6, <1>7
  <2>0. ov \in Nat
    BY <1>3
  <2> HIDE DEF l
  <2>2. Filling(used, space, chain, rest, len, ov, n, l, Mss_local)
    BY Zenon DEF Filling, l
  <2> HIDE DEF n, ov, used, space, chain, rest
  <2>3. Filled(used, space, chain, rest, len, ov, n, l, Mss_local)
    BY <1>8, <2>0, <2>1, <2>2, FillingFills
  <2> QED
    BY <2>3, Zenon DEF Filled, l, ov, n
<1> HIDE DEF used, space, chain, rest
<1>12. /\ new \in Nat /\ (rest = 0 => new = 0)
       /\ rest # 0 => new > 0 /\ tail \in 1 .. Mss_local
       /\ tail = rest - (new - 1) * Mss_local
  <2>1. tail = rest - (new - 1) * Mss_local
    BY Zenon DEF TailOf
  <2> HIDE DEF tail
  <2>2. LET k == (rest + Mss_local - 1) \div Mss_local
        IN  /\ k \in Nat /\ (rest = 0 => k = 0)
            /\ rest # 0 => k > 0 /\ rest - (k - 1) * Mss_local \in 1 .. Mss_local
    BY <1>8, <1>11, Segments
  <2>3. /\ new \in Nat /\ (rest = 0 => new = 0)
        /\ rest # 0 => new > 0 /\ rest - (new - 1) * Mss_local \in 1 .. Mss_local
    BY <2>2, Zenon DEF new
  <2> QED
    BY <2>1, <2>3, Zenon
<1> HIDE DEF tail
<1>13. new > 0 => spare \in Nat /\ tail + spare <= Mss_local /\ tail \in 1 .. Mss_local
  <2> SUFFICES ASSUME new > 0 PROVE spare \in Nat /\ tail + spare <= Mss_local /\ tail \in 1 .. Mss_local
    OBVIOUS
  <2>1. tail \in 1 .. Mss_local
    BY <1>12
  <2>2. spare = 0 \/ spare = Mss_local - tail
    OBVIOUS
  <2> HIDE DEF spare
  <2> QED
    BY <1>8, <2>1, <2>2
<1> HIDE DEF spare
<1>11a. /\ used \in Nat /\ chain \in Nat /\ rest \in Nat /\ used + chain + rest = len
        /\ space \in Nat /\ chain <= space /\ used <= ov
  BY <1>11, Zenon
<1>14. mid \in Nat /\ mid + rest = lb
  <2> DEFINE b == c.snd_lbb
  <2>1. b \in Nat
    BY <1>3
  <2> HIDE DEF b
  <2>2. b + used + chain \in Nat /\ (b + used + chain) + rest = b + len
    BY <1>11a, <2>1
  <2> QED
    BY <2>2, Zenon DEF b
\* The new segments.
<1>15. /\ made \in Seq(Seg) /\ Len(made) = new /\ (new = 0 => made = <<>>)
       /\ new > 0 => /\ made # <<>> /\ Linked(made) /\ made[1].seqno = mid
                     /\ End(made[new]) = lb /\ made[new].room = spare /\ made[new].len = tail
       /\ Pbufs(made) = new
  <2>1. CASE new = 0
    <3>1. made = <<>>
      <4>1. 1 .. new = {}
        BY <2>1
      <4>2. made \in Seq(Seg) /\ Len(made) = 0
        BY <2>1
      <4> HIDE DEF made
      <4> QED
        BY <4>2
    <3> HIDE DEF made
    <3>2. <<>> \in Seq(Seg) /\ Len(<<>>) = 0 /\ \A i \in 1 .. Len(<<>>) : <<>>[i].pbufs = 1
      OBVIOUS
    <3>3. Pbufs(<<>>) = Len(<<>>)
      BY <3>2, PbufsOfOnes
    <3> QED
      BY <2>1, <3>1, <3>2, <3>3
  <2>2. CASE new # 0
    <3>1. new \in Nat \ {0} /\ tail \in 1 .. Mss_local /\ spare \in Nat /\ new > 0
      BY <1>12, <1>13, <2>2
    <3>2. mid \in Nat
      BY <1>14
    <3> HIDE DEF mid
    <3>3. MadeIs(made, mid, new, tail, spare)
      BY <3>1, <3>2, MadeAre
    <3> HIDE DEF made
    <3>4. mid + (new - 1) * Mss_local + tail = lb
      <4> DEFINE p == (new - 1) * Mss_local
      <4>1. p \in Int
        BY <1>8, <3>1
      <4> HIDE DEF p
      <4>2. tail = rest - p
        BY <1>12 DEF p
      <4>3. mid + p + tail = lb
        BY <1>11, <1>14, <3>2, <4>1, <4>2
      <4> QED
        BY <4>3 DEF p
    <3>5. /\ made \in Seq(Seg) /\ Len(made) = new /\ made # <<>> /\ Linked(made)
          /\ made[1].seqno = mid /\ End(made[new]) = mid + (new - 1) * Mss_local + tail
          /\ made[new].room = spare /\ made[new].len = tail /\ Pbufs(made) = new
      BY <3>3, Zenon DEF MadeIs
    <3> QED
      BY <2>2, <3>4, <3>5, Zenon
  <2> QED
    BY <2>1, <2>2
<1> HIDE DEF made
\* The segment that grows.
<1> DEFINE more == IF chain > 0 THEN 1 ELSE 0
<1>16. left \in Nat
  BY <1>3, <1>11
<1>17. n # 0 => /\ grown \in Seg /\ grown.seqno = U[n].seqno
                /\ End(grown) = End(U[n]) + used + chain
                /\ grown.pbufs = U[n].pbufs + more
                /\ left <= grown.room /\ grown.len + left <= Mss_local
  <2> SUFFICES ASSUME n # 0
               PROVE  /\ grown \in Seg /\ grown.seqno = U[n].seqno
                      /\ End(grown) = End(U[n]) + used + chain
                      /\ grown.pbufs = U[n].pbufs + more
                      /\ left <= grown.room /\ grown.len + left <= Mss_local
    OBVIOUS
  <2> DEFINE x == U[n]
             sq == x.seqno
             l == x.len
             p == x.pbufs
             r == x.room
             ln == l + used + chain
             pb == p + more
             rm == IF chain > 0 THEN left ELSE r - used
             g == [x EXCEPT !.len = ln, !.pbufs = pb, !.room = rm]
  <2>1. x \in Seg /\ l \in Nat \ {0} /\ p \in 1 .. l /\ r \in Nat /\ sq \in Nat
        /\ ov <= r /\ l + ov <= Mss_local /\ End(x) = sq + l /\ l + used + space = Mss_local
    BY <1>6, <1>7, <1>11
  <2>2. grown = g
    BY Zenon
  <2> HIDE DEF grown, x
  <2> HIDE DEF sq, l, p, r
  <2>5. ln \in 1 .. Mss_local /\ ln \in Nat /\ pb \in 1 .. ln /\ pb \in Nat
    <3>1. /\ l \in Nat \ {0} /\ p \in 1 .. l /\ l + used + space = Mss_local
      BY <2>1
    <3> QED
      BY <1>8, <1>11a, <3>1
  <2>6. rm \in Nat /\ left <= rm /\ ln + left <= Mss_local
    <3>1. CASE chain > 0
      <4>1. left = space - chain /\ rm = left
        BY <3>1
      <4> HIDE DEF left, rm
      <4> QED
        BY <1>8, <1>11, <2>1, <4>1
    <3>2. CASE ~(chain > 0)
      <4>1. left = ov - used /\ rm = r - used /\ chain = 0
        BY <1>11, <3>2
      <4>2. /\ ov \in Nat /\ r \in Nat /\ l \in Nat /\ ov <= r /\ l + ov <= Mss_local
        BY <1>3, <2>1
      <4> HIDE DEF ov
      <4>3. used <= ov
        BY <1>11a DEF ov
      <4> HIDE DEF left, rm
      <4> QED
        BY <1>8, <1>11a, <4>1, <4>2, <4>3
    <3> QED
      BY <3>1, <3>2
  <2>7. sq + ln = (sq + l) + used + chain
    BY <1>11, <2>1
  <2> HIDE DEF ln, pb, rm
  <2>8. g \in Seg
    <3>1. x \in Seg /\ ln \in 1 .. Mss_local /\ ln \in Nat /\ pb \in 1 .. ln
          /\ pb \in Nat /\ rm \in Nat
      BY <2>1, <2>5, <2>6
    <3> QED
      BY <3>1 DEF Seg
  <2>9. g.seqno = sq /\ g.len = ln /\ g.pbufs = pb /\ g.room = rm
    BY <2>1 DEF Seg, sq
  <2> HIDE DEF g
  <2>10. End(g) = End(x) + used + chain
    BY <2>1, <2>7, <2>9, Zenon DEF End
  <2> QED
    BY <2>2, <2>6, <2>8, <2>9, <2>10, Zenon DEF x, sq, p, pb
<1> HIDE DEF grown
<1>18. /\ G \in Seq(Seg) /\ Covering(A \o G, c.lastack, mid)
       /\ Pbufs(A \o G) = c.snd_queuelen + more /\ Pbufs(A \o G) \in Nat
       /\ n # 0 => G # <<>> /\ Len(G) = n /\ G[Len(G)] = grown
  <2>1. CASE n = 0
    <3>1. G = <<>> /\ U = <<>>
      BY <1>3, <2>1
    <3>2. mid = c.snd_lbb /\ more = 0 /\ <<>> \in Seq(Seg)
      BY <1>3, <1>11, <2>1
    <3>3. Pbufs(A \o U) = Pbufs(A) + Pbufs(U) /\ Pbufs(A) \in Nat /\ Pbufs(U) \in Nat
      BY <1>3, PbufsJoined
    <3>4. c.snd_queuelen + 0 = c.snd_queuelen /\ Pbufs(A \o U) \in Nat
      BY <1>3, <3>3
    <3> HIDE DEF G, mid, more, U
    <3> QED
      BY <1>5, <2>1, <3>1, <3>2, <3>4, Zenon
  <2>2. CASE n # 0
    <3>1. G = [U EXCEPT ![Len(U)] = grown]
      BY <2>2
    <3>2. grown \in Seg /\ grown.seqno = U[n].seqno /\ End(grown) = End(U[n]) + used + chain
          /\ grown.pbufs = U[n].pbufs + more
      BY <1>17, <2>2
    <3>3. End(U[n]) \in Nat /\ U[n].pbufs \in Nat /\ U # <<>>
      BY <1>6, <1>7, <2>2
    <3>4. End(U[n]) <= End(grown)
      <4> DEFINE e == End(U[n])
                 f == End(grown)
      <4> HIDE DEF e, f
      <4>1. e \in Nat /\ f = e + used + chain
        BY <3>2, <3>3, Zenon DEF e, f
      <4>2. e <= f
        BY <1>11, <4>1
      <4> QED
        BY <4>2 DEF e, f
    <3> HIDE DEF G, U
    <3>5. /\ G \in Seq(Seg) /\ G # <<>> /\ Len(G) = Len(U) /\ G[Len(G)] = grown
          /\ Covering(A \o G, c.lastack, End(grown)) /\ End(U[Len(U)]) = c.snd_lbb
          /\ Pbufs(A \o G) + U[Len(U)].pbufs = Pbufs(A \o U) + grown.pbufs
          /\ Pbufs(A \o U) \in Nat
      <4>1. Covering(A \o U, c.lastack, c.snd_lbb)
        BY <1>5
      <4>2. grown.seqno = U[Len(U)].seqno /\ End(U[Len(U)]) <= End(grown)
        BY <3>2, <3>4, Zenon DEF U
      <4>3. LET H == [U EXCEPT ![Len(U)] = grown]
            IN  /\ H \in Seq(Seg) /\ H # <<>> /\ Len(H) = Len(U) /\ H[Len(H)] = grown
                /\ Covering(A \o H, c.lastack, End(grown)) /\ End(U[Len(U)]) = c.snd_lbb
                /\ Pbufs(A \o H) + U[Len(U)].pbufs = Pbufs(A \o U) + grown.pbufs
                /\ Pbufs(A \o U) \in Nat
        BY <1>3, <3>2, <3>3, <4>1, <4>2, GrownIs
      <4> QED
        BY <3>1, <4>3, Zenon
    <3>6. Len(U) = n
      BY DEF U
    <3>7. End(grown) = mid
      BY <3>2, <3>5, <3>6, Zenon
    <3>8. Pbufs(A \o G) = c.snd_queuelen + more /\ Pbufs(A \o G) \in Nat
      <4> DEFINE a == Pbufs(A \o G)
                 b == Pbufs(A \o U)
                 p == U[n].pbufs
                 g == grown.pbufs
      <4>1. a + p = b + g /\ g = p + more /\ b = c.snd_queuelen /\ p \in Nat /\ b \in Nat
        BY <1>5, <3>2, <3>3, <3>5, <3>6, Zenon
      <4>2. more \in Nat
        OBVIOUS
      <4>3. a \in Nat
        <5>1. A \in Seq(Seg) /\ G \in Seq(Seg)
          BY <1>3, <3>5
        <5>2. Pbufs(A \o G) = Pbufs(A) + Pbufs(G) /\ Pbufs(A) \in Nat /\ Pbufs(G) \in Nat
          BY <5>1, PbufsJoined
        <5> DEFINE u == Pbufs(A)
                   v == Pbufs(G)
        <5> HIDE DEF u, v
        <5>3. u + v \in Nat
          BY <5>2 DEF u, v
        <5> QED
          BY <5>2, <5>3, Zenon DEF u, v
      <4> HIDE DEF a, b, p, g, more
      <4>4. a = b + more
        <5>1. a + p = b + g /\ g = p + more /\ p \in Nat /\ b \in Nat
          BY <4>1
        <5> QED
          BY <4>2, <4>3, <5>1
      <4>5. a = c.snd_queuelen + more
        BY <4>1, <4>4, Zenon
      <4> QED
        BY <4>3, <4>5, Zenon DEF a
    <3> QED
      BY <3>5, <3>6, <3>7, <3>8, Zenon
  <2> QED
    BY <2>1, <2>2
<1> HIDE DEF G
<1>19. /\ W \in Seq(Seg) /\ A \o W = (A \o G) \o made /\ A \o G \in Seq(Seg)
  <2>1. G \in Seq(Seg) /\ made \in Seq(Seg) /\ A \in Seq(Seg)
    BY <1>3, <1>15, <1>18
  <2> HIDE DEF A
  <2>2. W \in Seq(Seg) /\ A \o G \in Seq(Seg)
    BY <2>1, Joined
  <2>3. (A \o G) \o made = A \o (G \o made)
    BY <2>1, JoinAssociates
  <2> QED
    BY <2>2, <2>3
<1> DEFINE P == A \o G
           wl == W[Len(W)]
<1>20. /\ qlen = c.snd_queuelen + new + more
       /\ qlen \in Nat
  <2>1. qlen = c.snd_queuelen + new + more
    BY Zenon DEF Lengthened, qlen
  <2>2. c.snd_queuelen + more \in Nat
    BY <1>18
  <2> HIDE DEF qlen, more
  <2>3. more \in Int
    BY DEF more
  <2> QED
    BY <1>3, <1>12, <2>1, <2>2, <2>3
<1>21. Covering(A \o W, c.lastack, lb) /\ Pbufs(A \o W) = qlen
  <2>0. P \in Seq(Seg) /\ made \in Seq(Seg) /\ A \o W = P \o made
    BY <1>15, <1>19
  <2>1. Pbufs(P \o made) = Pbufs(P) + Pbufs(made)
    BY <2>0, PbufsJoined
  <2>2. (c.snd_queuelen + more) + new = qlen
    BY <1>3, <1>12, <1>20
  <2>3. Pbufs(A \o W) = qlen
    BY <1>15, <1>18, <2>0, <2>1, <2>2, Zenon
  <2>4. CASE new = 0
    <3>1. rest = 0 /\ made = <<>>
      BY <1>11, <1>12, <1>15, <2>4
    <3>2. mid = lb
      BY <1>14, <3>1
    <3>3. P \o <<>> = P
      BY <2>0, EmptyJoins
    <3> QED
      BY <1>18, <2>0, <2>3, <3>1, <3>2, <3>3, Zenon
  <2>5. CASE new # 0
    <3>1. new > 0
      BY <1>12, <2>5
    <3>2. made # <<>> /\ Linked(made) /\ made[1].seqno = mid /\ End(made[Len(made)]) = lb
      BY <1>15, <3>1, Zenon
    <3>3. mid \in Nat /\ Covering(P, c.lastack, mid)
      BY <1>14, <1>18
    <3> HIDE DEF P, mid
    <3>4. Covering(P \o made, c.lastack, End(made[Len(made)]))
      BY <1>3, <2>0, <3>2, <3>3, CoveringFollowed
    <3> QED
      BY <2>0, <2>3, <3>2, <3>4, Zenon
  <2> QED
    BY <2>4, <2>5
<1>22. /\ o \in Nat
       /\ W # <<>> => o <= wl.room /\ wl.len + o <= Mss_local
       /\ W = <<>> => o = 0
  <2>1. CASE new > 0
    <3>0. made # <<>> /\ Len(made) = new /\ new \in Nat /\ G \in Seq(Seg) /\ made \in Seq(Seg)
      BY <1>12, <1>15, <1>18, <2>1
    <3>1. wl = made[new] /\ W # <<>>
      <4>1. /\ Len(W) = Len(G) + Len(made) /\ Len(G) \in Nat
            /\ \A i \in 1 .. Len(made) : W[Len(G) + i] = made[i]
        <5>1. G \in Seq(Seg) /\ made \in Seq(Seg)
          BY <3>0
        <5> QED
          BY <5>1, Joined
      <4>2. new \in 1 .. new
        BY <2>1, <3>0
      <4>3. Len(W) = Len(G) + new /\ W[Len(G) + new] = made[new]
        BY <3>0, <4>1, <4>2, Zenon
      <4> HIDE DEF W
      <4>4. W # <<>>
        <5>1. Len(W) > 0
          BY <2>1, <3>0, <4>1, <4>3
        <5> QED
          BY <5>1
      <4> QED
        BY <4>3, <4>4, Zenon
    <3>2. o = spare /\ wl.room = spare /\ wl.len = tail
      BY <1>15, <2>1, <3>1
    <3> HIDE DEF o, wl, W
    <3>3. spare \in Nat /\ tail + spare <= Mss_local /\ spare <= spare
      BY <1>13, <2>1
    <3> QED
      BY <3>1, <3>2, <3>3, Zenon
  <2>2. CASE ~(new > 0)
    <3>1. new = 0 /\ rest = 0
      BY <1>11, <1>12, <2>2
    <3>2. made = <<>> /\ n # 0
      BY <1>11, <1>15, <3>1
    <3>3. G \in Seq(Seg) /\ G # <<>> /\ G[Len(G)] = grown
      BY <1>18, <3>2
    <3>4. W = G
      BY <3>2, <3>3, EmptyJoins
    <3>5. o = left
      BY <2>2
    <3>6. left <= grown.room /\ grown.len + left <= Mss_local
      BY <1>17, <3>2
    <3> HIDE DEF W, o, left
    <3> QED
      BY <1>16, <3>3, <3>4, <3>5, <3>6, Zenon
  <2> QED
    BY <2>1, <2>2
<1> HIDE DEF W, o
<1>23. /\ lb \in Nat /\ sb \in Int /\ 0 <= sb /\ lb <= StreamMax /\ c.snd_nxt <= lb
       /\ sb + lb - c.lastack = TCP_SND_BUF /\ qlen <= TCP_SND_QUEUELEN
  <2>1. qlen <= TCP_SND_QUEUELEN
    <3>1. CASE new > 0
      BY <1>10, <1>20, <3>1, Numbers
    <3>2. CASE ~(new > 0)
      <4>1. qlen <= c.snd_queuelen + 1
        BY <1>3, <1>12, <1>20, <3>2
      <4> QED
        BY <1>3, <1>20, <4>1, Numbers
    <3> QED
      BY <3>1, <3>2
  <2> DEFINE b == c.snd_buf
             l == c.snd_lbb
             a == c.lastack
             x == c.snd_nxt
  <2>2. b \in Int /\ l \in Nat /\ a \in Nat /\ x \in Nat /\ x <= l /\ b + l - a = TCP_SND_BUF
        /\ l + len <= StreamMax /\ len <= b
    BY <1>3, <1>5, Zenon
  <2> HIDE DEF b, l, a, x
  <2>3. /\ l + len \in Nat /\ b - len \in Int /\ 0 <= b - len /\ x <= l + len
        /\ (b - len) + (l + len) - a = TCP_SND_BUF
    BY <2>2, Numbers
  <2> QED
    BY <2>1, <2>2, <2>3, Zenon DEF b, l, a, x
<1> HIDE DEF lb, sb
<1>24. d \in Pcb
  <2>1. W \in Seq(Seg) /\ o \in Nat /\ lb \in Nat /\ sb \in Int /\ qlen \in Int
    BY <1>19, <1>20, <1>22, <1>23
  <2> QED
    BY <1>1, <2>1 DEF Pcb
<1>25. /\ d.unsent = W /\ d.unacked = A /\ d.unsent_oversize = o /\ d.snd_lbb = lb
       /\ d.snd_buf = sb /\ d.snd_queuelen = qlen /\ d.snd_nxt = c.snd_nxt
       /\ d.lastack = c.lastack /\ d.timer = c.timer /\ d.out = c.out /\ SameWindow(c, d)
  BY <1>1 DEF Pcb, SameWindow
<1> HIDE DEF d
<1>26. Counted(d, A \o W)
  BY <1>5, <1>21, <1>23, <1>25, Zenon DEF Counted
<1>27. Room(d)
  BY <1>22, <1>25, Zenon DEF Room
<1>28. Sent(d)
  BY <1>4, <1>25, Zenon DEF Sent
<1>29. QueueInv(d)
  BY <1>25, <1>26, <1>27, <1>28, Zenon DEF QueueInv
<1>30. WindowInv(d)
  BY <1>1, <1>25, Zenon DEF WindowInv, InsideWindow, SameWindow
<1>31. Advances(c, d)
  <2>1. c.snd_nxt <= c.snd_nxt
    BY <1>3
  <2> QED
    BY <1>25, <2>1, Zenon DEF Advances
<1> QED
  BY <1>24, <1>25, <1>29, <1>30, <1>31, Zenon DEF Sound

-----------------------------------------------------------------------------
(* The network and the server.                                             *)

Edge(m) == m.ackno + m.wnd
ServerEdge == rcv_nxt + Buffer - unread

ServerInv(r, u) == r \in 0 .. StreamMax /\ u \in 0 .. Buffer /\ u <= r
SegmentsInv(segs) ==
  \A m \in segs : m \in Sending /\ m.len \in 1 .. MSS /\ End(m) <= StreamMax
AcksInv(answers, r, e) ==
  /\ \A m \in answers : m \in ServerAnswer /\ m.ackno <= r /\ Buffer <= Edge(m) /\ Edge(m) <= e
  /\ \A m, n \in answers : m.ackno < n.ackno => Edge(m) <= Edge(n)

\* What the server has got, and what is on its way to it, was sent.
AheadOf(c, segs, r) == Ahead(c, r) /\ \A m \in segs : Ahead(c, End(m))

\* The window is one that the server has announced, and the newer an answer
\* is, the further its window reaches.
Announced(c, answers, r, e) ==
  /\ c.snd_wl2 <= r /\ c.snd_wl2 + c.snd_wnd <= e
  /\ \A m \in answers : c.snd_wl2 < m.ackno => c.snd_wl2 + c.snd_wnd <= Edge(m)

TransferInv ==
  /\ Sound(pcb) /\ pcb.out = {}
  /\ ServerInv(rcv_nxt, unread) /\ SegmentsInv(segments) /\ AcksInv(acks, rcv_nxt, ServerEdge)
  /\ alive => AheadOf(pcb, segments, rcv_nxt) /\ Announced(pcb, acks, rcv_nxt, ServerEdge)

\* The server's answers.
LEMMA AnswerFields ==
  ASSUME NEW m \in ServerAnswer
  PROVE  m.ackno \in Nat /\ m.wnd \in Nat /\ Edge(m) \in Nat /\ m.wnd <= Buffer
         /\ m.ackno <= StreamMax
BY Numbers DEF ServerAnswer, Edge

\* Whatever is before something sent was sent.
LEMMA AheadBelow ==
  ASSUME NEW c \in Pcb, NEW k \in Nat, NEW n \in Nat, k <= n, Ahead(c, n)
  PROVE  Ahead(c, k)
<1>1. c.snd_nxt \in Nat
  BY PcbFields
<1>2. n <= c.snd_nxt \/ (n = c.snd_nxt + 1 /\ c.lastack = c.snd_nxt)
  BY Zenon DEF Ahead
<1>3. k <= c.snd_nxt \/ (k = c.snd_nxt + 1 /\ c.lastack = c.snd_nxt)
  BY <1>1, <1>2
<1> QED
  BY <1>3, Zenon DEF Ahead

\* The network adds nothing of its own.
LEMMA CarriedIs ==
  ASSUME NEW net, NEW new, NEW max, NEW left \in Carried(net, new, max)
  PROVE  left \subseteq net \cup new
BY DEF Carried

-----------------------------------------------------------------------------
(* The client's steps.                                                     *)

\* What the handler of a living block leaves.
LEMMA HandledKeeps ==
  ASSUME Sound(pcb), SegmentsInv(segments), ServerInv(rcv_nxt, unread),
         AheadOf(pcb, segments, rcv_nxt),
         NEW d, Sound(d), OutInv(d), Advances(pcb, d), Handled(d)
  PROVE  /\ Sound(pcb') /\ pcb'.out = {} /\ SameWindow(d, pcb')
         /\ SegmentsInv(segments') /\ AheadOf(pcb', segments', rcv_nxt)
<1> DEFINE p == [d EXCEPT !.out = {}]
<1>0. d \in Pcb /\ QueueInv(d) /\ WindowInv(d) /\ pcb \in Pcb
  BY Zenon DEF Sound
<1>1. pcb' = p /\ segments' \subseteq segments \cup d.out
  BY CarriedIs DEF Handled
<1>2. p \in Pcb /\ SameQueues(d, p) /\ SameWindow(d, p) /\ p.out = {}
  BY <1>0 DEF Pcb, SameQueues, SameWindow
<1> HIDE DEF p
<1>3. p.snd_nxt = d.snd_nxt /\ p.lastack = d.lastack
  BY <1>2, Zenon DEF SameQueues
<1>4. QueueInv(p)
  BY <1>0, <1>2, Zenon DEF SameQueues, QueueInv, Counted, Room, Sent
<1>5. WindowInv(p)
  BY <1>0, <1>2, <1>3, Zenon DEF WindowInv, InsideWindow, SameWindow
<1>6. \A m \in segments' : m \in segments \/ m \in d.out
  BY <1>1
<1>7. SegmentsInv(segments')
  BY <1>6, Zenon DEF SegmentsInv, OutInv
<1>8. Ahead(d, rcv_nxt)
  <2>1. rcv_nxt \in Nat /\ Ahead(pcb, rcv_nxt)
    BY DEF ServerInv, AheadOf
  <2> QED
    BY <1>0, <2>1, AheadStays
<1>9. ASSUME NEW m \in segments' PROVE Ahead(d, End(m))
  <2>1. CASE m \in d.out
    BY <2>1, Zenon DEF OutInv
  <2>2. CASE m \in segments
    <3>1. Ahead(pcb, End(m)) /\ m \in Sending
      BY <2>2, Zenon DEF AheadOf, SegmentsInv
    <3>2. End(m) \in Nat
      BY <3>1 DEF Sending, End
    <3> DEFINE e == End(m)
    <3> HIDE DEF e
    <3>3. e \in Nat /\ Ahead(pcb, e)
      BY <3>1, <3>2 DEF e
    <3>4. Ahead(d, e)
      BY <1>0, <3>3, AheadStays
    <3> QED
      BY <3>4 DEF e
  <2> QED
    BY <1>6, <2>1, <2>2
<1>10. AheadOf(p, segments', rcv_nxt)
  BY <1>3, <1>8, <1>9, Zenon DEF AheadOf, Ahead
<1> QED
  BY <1>1, <1>2, <1>4, <1>5, <1>7, <1>10, Zenon DEF Sound

\* A handler that leaves the window alone.
LEMMA KeptHandled ==
  ASSUME TransferInv, alive, NEW d, Kept(pcb, d), Handled(d),
         UNCHANGED <<alive, acks, rcv_nxt, unread>>
  PROVE  TransferInv'
<1>1. /\ Sound(pcb) /\ SegmentsInv(segments) /\ ServerInv(rcv_nxt, unread)
      /\ AheadOf(pcb, segments, rcv_nxt) /\ Announced(pcb, acks, rcv_nxt, ServerEdge)
      /\ AcksInv(acks, rcv_nxt, ServerEdge)
  BY Zenon DEF TransferInv
<1>2. Sound(d) /\ OutInv(d) /\ SameWindow(pcb, d) /\ Advances(pcb, d)
  BY Zenon DEF Kept
<1>3. /\ Sound(pcb') /\ pcb'.out = {} /\ SameWindow(d, pcb')
      /\ SegmentsInv(segments') /\ AheadOf(pcb', segments', rcv_nxt)
  BY <1>1, <1>2, HandledKeeps
<1>4. Announced(pcb', acks, rcv_nxt, ServerEdge)
  BY <1>1, <1>2, <1>3, Zenon DEF Announced, SameWindow
<1>5. alive' = alive /\ acks' = acks /\ rcv_nxt' = rcv_nxt /\ unread' = unread
  OBVIOUS
<1>6. ServerEdge' = ServerEdge
  BY <1>5 DEF ServerEdge
<1> QED
  BY <1>1, <1>3, <1>4, <1>5, <1>6, Zenon DEF TransferInv

\* tcp_client_senddata.
LEMMA UploadKeeps ==
  ASSUME TransferInv, Upload
  PROVE  TransferInv'
<1>1. /\ alive /\ pcb.snd_lbb + Packet <= StreamMax /\ Packet <= pcb.snd_buf
      /\ UNCHANGED <<alive, acks, rcv_nxt, unread>>
      /\ \/ pcb.snd_queuelen < TCP_SND_QUEUELEN /\ Handled(Segmented(pcb, Packet))
         \/ Handled(MemErr(pcb))
  BY Zenon DEF Upload
<1>2. Sound(pcb) /\ pcb.out = {}
  BY Zenon DEF TransferInv
<1>3. ASSUME NEW d, Sound(d), d.out = pcb.out, SameWindow(pcb, d), Advances(pcb, d)
      PROVE  Kept(pcb, d)
  <2>1. OutInv(d)
    BY <1>2, <1>3 DEF OutInv
  <2> QED
    BY <1>3, <2>1, Zenon DEF Kept
<1>4. CASE pcb.snd_queuelen < TCP_SND_QUEUELEN /\ Handled(Segmented(pcb, Packet))
  <2> DEFINE d == Segmented(pcb, Packet)
  <2>1. Packet \in Nat \ {0}
    BY Numbers
  <2>2. Sound(d) /\ d.out = pcb.out /\ SameWindow(pcb, d) /\ Advances(pcb, d)
    BY <1>1, <1>2, <1>4, <2>1, SegmentedSound
  <2>3. Handled(d)
    BY <1>4
  <2> HIDE DEF d
  <2>4. Kept(pcb, d)
    BY <1>3, <2>2
  <2> QED
    BY <1>1, <2>3, <2>4, KeptHandled
<1>5. CASE Handled(MemErr(pcb))
  <2> DEFINE d == MemErr(pcb)
  <2>2. Sound(d) /\ d.out = pcb.out /\ SameWindow(pcb, d) /\ Advances(pcb, d)
    BY <1>2, MemErrSound
  <2>3. Handled(d)
    BY <1>5
  <2> HIDE DEF d
  <2>4. Kept(pcb, d)
    BY <1>3, <2>2
  <2> QED
    BY <1>1, <2>3, <2>4, KeptHandled
<1> QED
  BY <1>1, <1>4, <1>5

\* tcp_slowtmr.
LEMMA SlowTmrSound ==
  ASSUME TransferInv, NEW timeout \in BOOLEAN, NEW poll \in BOOLEAN, SlowTmr(timeout, poll)
  PROVE  TransferInv'
<1>1. /\ alive /\ UNCHANGED <<alive, acks, rcv_nxt, unread>>
      /\ \E c \in {IF timeout THEN Timeout(pcb) ELSE pcb} :
         \E d \in {IF poll \/ (timeout /\ ~pcb.persist) THEN Output(c) ELSE c} : Handled(d)
  BY Zenon DEF SlowTmr
<1>2. Sound(pcb) /\ pcb.out = {}
  BY Zenon DEF TransferInv
<1>3. /\ Kept(pcb, pcb) /\ Kept(pcb, Timeout(pcb))
      /\ Kept(pcb, Output(pcb)) /\ Kept(pcb, Output(Timeout(pcb)))
  BY <1>2, SlowTmrKeeps
<1>4. PICK d : Handled(d) /\ d \in {pcb, Timeout(pcb), Output(pcb), Output(Timeout(pcb))}
  <2> DEFINE c == IF timeout THEN Timeout(pcb) ELSE pcb
             x == IF poll \/ (timeout /\ ~pcb.persist) THEN Output(c) ELSE c
  <2>1. Handled(x)
    BY <1>1, Zenon
  <2>2. c = pcb \/ c = Timeout(pcb)
    BY Zenon
  <2> HIDE DEF c
  <2>3. x = c \/ x = Output(c)
    BY Zenon
  <2> HIDE DEF x
  <2>4. x \in {pcb, Timeout(pcb), Output(pcb), Output(Timeout(pcb))}
    BY <2>2, <2>3, Zenon
  <2> QED
    BY <2>1, <2>4, Zenon
<1>5. Kept(pcb, d)
  BY <1>3, <1>4, Zenon
<1> QED
  BY <1>1, <1>4, <1>5, KeptHandled

\* Each answer on the network says what AckStep needs.
LEMMA AnswersTrue ==
  ASSUME TransferInv, alive, NEW m \in acks
  PROVE  /\ m.ackno \in Nat /\ m.wnd \in Nat /\ m.ackno <= rcv_nxt
         /\ Edge(m) <= ServerEdge /\ Answers(pcb, m.ackno, m.wnd)
<1>1. /\ pcb \in Pcb /\ AheadOf(pcb, segments, rcv_nxt)
      /\ Announced(pcb, acks, rcv_nxt, ServerEdge) /\ ServerInv(rcv_nxt, unread)
      /\ AcksInv(acks, rcv_nxt, ServerEdge)
  BY Zenon DEF TransferInv, Sound
<1>2. /\ m \in ServerAnswer /\ m.ackno <= rcv_nxt /\ Buffer <= Edge(m)
      /\ Edge(m) <= ServerEdge
  BY <1>1, Zenon DEF AcksInv
<1>3. m.ackno \in Nat /\ m.wnd \in Nat
  BY <1>2, AnswerFields
<1>4. rcv_nxt \in Nat
  BY <1>1 DEF ServerInv
<1>5. Ahead(pcb, m.ackno)
  <2> DEFINE a == m.ackno
  <2>1. a \in Nat /\ a <= rcv_nxt /\ Ahead(pcb, rcv_nxt)
    BY <1>1, <1>2, <1>3, Zenon DEF AheadOf
  <2> HIDE DEF a
  <2>2. Ahead(pcb, a)
    BY <1>1, <1>4, <2>1, AheadBelow
  <2> QED
    BY <2>2 DEF a
<1>6. Answers(pcb, m.ackno, m.wnd)
  BY <1>1, <1>2, <1>5, Zenon DEF Answers, Announced, Edge
<1> QED
  BY <1>2, <1>3, <1>6, Zenon

\* tcp_input.
LEMMA AckArrivesKeeps ==
  ASSUME TransferInv, NEW m \in acks, NEW again \in BOOLEAN, AckArrives(m, again)
  PROVE  TransferInv'
<1>1. /\ acks' \subseteq acks /\ UNCHANGED <<alive, rcv_nxt, unread>>
  BY DEF AckArrives
<1>2. ServerEdge' = ServerEdge /\ alive' = alive /\ rcv_nxt' = rcv_nxt /\ unread' = unread
  BY <1>1 DEF ServerEdge
<1>3. /\ Sound(pcb) /\ SegmentsInv(segments) /\ ServerInv(rcv_nxt, unread)
      /\ AcksInv(acks, rcv_nxt, ServerEdge) /\ pcb.out = {}
  BY Zenon DEF TransferInv
<1>4. AcksInv(acks', rcv_nxt, ServerEdge)
  <2>1. \A x \in acks' : x \in acks
    BY <1>1
  <2> QED
    BY <1>3, <2>1, Zenon DEF AcksInv
<1>5. CASE ~alive
  <2>1. UNCHANGED <<pcb, segments>>
    BY <1>5 DEF AckArrives
  <2>2. pcb' = pcb /\ segments' = segments
    BY <2>1
  <2> QED
    BY <1>2, <1>3, <1>4, <1>5, <2>2, Zenon DEF TransferInv
<1>6. CASE alive
  <2>0. /\ AheadOf(pcb, segments, rcv_nxt) /\ Announced(pcb, acks, rcv_nxt, ServerEdge)
    BY <1>6, Zenon DEF TransferInv
  <2>1. /\ m.ackno \in Nat /\ m.wnd \in Nat /\ m.ackno <= rcv_nxt
        /\ Edge(m) <= ServerEdge /\ Answers(pcb, m.ackno, m.wnd)
    BY <1>6, AnswersTrue
  <2> DEFINE d == Output(AckedUnsent(Answered(pcb, Window(pcb, m.ackno, m.wnd), m.ackno),
                                     m.ackno))
  <2>2. Handled(d)
    BY <1>6, Zenon DEF AckArrives
  <2>3. Sound(d) /\ OutInv(d) /\ Moved(pcb, d, m.ackno, m.wnd) /\ Advances(pcb, d)
    BY <1>3, <2>1, AckStep
  <2> HIDE DEF d
  <2>4. /\ Sound(pcb') /\ pcb'.out = {} /\ SameWindow(d, pcb')
        /\ SegmentsInv(segments') /\ AheadOf(pcb', segments', rcv_nxt)
    BY <1>3, <2>0, <2>2, <2>3, HandledKeeps
  <2>5. Announced(d, acks, rcv_nxt, ServerEdge)
    <3>1. CASE SameWindow(pcb, d)
      BY <2>0, <3>1, Zenon DEF Announced, SameWindow
    <3>2. CASE d.snd_wl2 = m.ackno /\ d.snd_wnd = m.wnd
      <4>1. d.snd_wl2 + d.snd_wnd = Edge(m)
        BY <3>2, Zenon DEF Edge
      <4>2. \A x \in acks : m.ackno < x.ackno => Edge(m) <= Edge(x)
        BY <1>3, Zenon DEF AcksInv
      <4> QED
        BY <2>1, <3>2, <4>1, <4>2, Zenon DEF Announced
    <3> QED
      BY <2>3, <3>1, <3>2, Zenon DEF Moved
  <2>6. Announced(pcb', acks', rcv_nxt, ServerEdge)
    <3>1. \A x \in acks' : x \in acks
      BY <1>1
    <3> QED
      BY <2>4, <2>5, <3>1, Zenon DEF Announced, SameWindow
  <2> QED
    BY <1>2, <1>3, <1>4, <2>4, <2>6, Zenon DEF TransferInv
<1> QED
  BY <1>5, <1>6

-----------------------------------------------------------------------------
(* The server's steps.                                                     *)

\* A new answer is the newest, and tells the whole window.
LEMMA AckKeeps ==
  ASSUME NEW as1, NEW as2, NEW r \in Nat, NEW e \in Nat, NEW to \in Nat, NEW u \in Nat,
         AcksInv(as1, r, e), r <= to, to <= StreamMax, u <= Buffer, u <= to,
         e <= to + Buffer - u, as2 \subseteq as1 \cup {[ackno |-> to, wnd |-> Buffer - u]}
  PROVE  /\ AcksInv(as2, to, to + Buffer - u)
         /\ \A c \in Pcb : Announced(c, as1, r, e) => Announced(c, as2, to, to + Buffer - u)
<1> DEFINE b == Buffer - u
           n == [ackno |-> to, wnd |-> b]
           f == to + Buffer - u
<1>1. /\ Buffer \in Nat /\ b \in 0 .. Buffer /\ f \in Nat /\ f = to + b /\ Buffer <= f /\ e <= f
      /\ to \in 0 .. StreamMax
  BY Numbers
<1> HIDE DEF b, f
<1>2. n.ackno = to /\ n.wnd = b /\ n \in ServerAnswer
  BY <1>1 DEF ServerAnswer
<1> HIDE DEF n
<1>3. Edge(n) = f
  BY <1>1, <1>2, Zenon DEF Edge
<1>4. \A m \in as2 : m \in as1 \/ m = n
  BY DEF n, b
<1>5. /\ \A m \in as1 : m \in ServerAnswer /\ m.ackno <= r /\ Buffer <= Edge(m) /\ Edge(m) <= e
      /\ \A m, k \in as1 : m.ackno < k.ackno => Edge(m) <= Edge(k)
  BY Zenon DEF AcksInv
<1>6. \A m \in as1 : m.ackno <= to /\ Edge(m) <= f /\ ~(to < m.ackno)
  <2> SUFFICES ASSUME NEW m \in as1 PROVE m.ackno <= to /\ Edge(m) <= f /\ ~(to < m.ackno)
    OBVIOUS
  <2>1. m.ackno \in Nat /\ Edge(m) \in Nat /\ m.ackno <= r /\ Edge(m) <= e
    BY <1>5, AnswerFields
  <2> DEFINE x == m.ackno
             y == Edge(m)
  <2> HIDE DEF x, y
  <2>2. x <= to /\ y <= f /\ ~(to < x)
    BY <1>1, <2>1 DEF x, y
  <2> QED
    BY <2>2 DEF x, y
<1>7. to <= to /\ f <= f /\ ~(to < to)
  BY <1>1
<1>8. \A m \in as2 : m \in ServerAnswer /\ m.ackno <= to /\ Buffer <= Edge(m) /\ Edge(m) <= f
  BY <1>1, <1>2, <1>3, <1>4, <1>5, <1>6, <1>7, Zenon
<1>9. ASSUME NEW m \in as2, NEW k \in as2, m.ackno < k.ackno PROVE Edge(m) <= Edge(k)
  <2>1. CASE k = n
    BY <1>3, <1>8, <2>1, Zenon
  <2>2. CASE m = n
    BY <1>2, <1>4, <1>6, <1>7, <1>9, <2>2, Zenon
  <2>3. CASE m \in as1 /\ k \in as1
    BY <1>5, <1>9, <2>3, Zenon
  <2> QED
    BY <1>4, <2>1, <2>2, <2>3, Zenon
<1>10. AcksInv(as2, to, f)
  BY <1>8, <1>9, Zenon DEF AcksInv
<1>11. ASSUME NEW c \in Pcb, Announced(c, as1, r, e) PROVE Announced(c, as2, to, f)
  <2>1. c.snd_wl2 \in Nat /\ c.snd_wnd \in Nat
    BY PcbFields
  <2>2. /\ c.snd_wl2 <= r /\ c.snd_wl2 + c.snd_wnd <= e
        /\ \A m \in as1 : c.snd_wl2 < m.ackno => c.snd_wl2 + c.snd_wnd <= Edge(m)
    BY <1>11, Zenon DEF Announced
  <2>3. c.snd_wl2 <= to /\ c.snd_wl2 + c.snd_wnd <= f
    BY <1>1, <2>1, <2>2
  <2>4. \A m \in as2 : c.snd_wl2 < m.ackno => c.snd_wl2 + c.snd_wnd <= Edge(m)
    BY <1>3, <1>4, <2>2, <2>3, Zenon
  <2> QED
    BY <2>3, <2>4, Zenon DEF Announced
<1> QED
  BY <1>10, <1>11, Zenon DEF f

\* The parts of the invariant, with the server's edge as a number.
LEMMA EdgeIs ==
  ASSUME TransferInv
  PROVE  /\ rcv_nxt \in Nat /\ unread \in Nat /\ ServerEdge \in Nat /\ rcv_nxt <= ServerEdge
         /\ rcv_nxt <= StreamMax /\ unread <= Buffer /\ unread <= rcv_nxt /\ pcb \in Pcb
         /\ AcksInv(acks, rcv_nxt, ServerEdge) /\ SegmentsInv(segments)
         /\ Sound(pcb) /\ pcb.out = {}
         /\ alive => AheadOf(pcb, segments, rcv_nxt) /\ Announced(pcb, acks, rcv_nxt, ServerEdge)
<1>1. /\ ServerInv(rcv_nxt, unread) /\ Sound(pcb) /\ pcb \in Pcb
      /\ AcksInv(acks, rcv_nxt, ServerEdge) /\ SegmentsInv(segments) /\ pcb.out = {}
      /\ alive => AheadOf(pcb, segments, rcv_nxt) /\ Announced(pcb, acks, rcv_nxt, ServerEdge)
  BY Zenon DEF TransferInv, Sound
<1>2. /\ rcv_nxt \in Nat /\ unread \in Nat /\ ServerEdge \in Nat /\ rcv_nxt <= ServerEdge
      /\ rcv_nxt <= StreamMax /\ unread <= Buffer /\ unread <= rcv_nxt
  BY <1>1, Numbers DEF ServerInv, ServerEdge
<1> QED
  BY <1>1, <1>2, Zenon

\* The server takes a segment, or only answers it.
LEMMA SegmentArrivesKeeps ==
  ASSUME TransferInv, NEW m \in segments, NEW again \in BOOLEAN, SegmentArrives(m, again)
  PROVE  TransferInv'
<1> DEFINE edge == rcv_nxt + Buffer - unread
           to == IF Continues(m) THEN Least(End(m), edge) ELSE rcv_nxt
           u == unread + to - rcv_nxt
<1>1. /\ segments' \subseteq segments /\ rcv_nxt' = to /\ unread' = u
      /\ Ack(to, unread') /\ pcb' = pcb /\ alive' = alive
  BY DEF SegmentArrives
<1>2. acks' \subseteq acks \cup {[ackno |-> to, wnd |-> Buffer - u]}
  <2> HIDE DEF to, u
  <2> QED
    BY <1>1, CarriedIs DEF Ack
<1>3. /\ rcv_nxt \in Nat /\ unread \in Nat /\ ServerEdge \in Nat /\ rcv_nxt <= ServerEdge
      /\ rcv_nxt <= StreamMax /\ unread <= Buffer /\ unread <= rcv_nxt /\ pcb \in Pcb
      /\ AcksInv(acks, rcv_nxt, ServerEdge) /\ SegmentsInv(segments)
      /\ Sound(pcb) /\ pcb.out = {}
      /\ alive => AheadOf(pcb, segments, rcv_nxt) /\ Announced(pcb, acks, rcv_nxt, ServerEdge)
  BY EdgeIs
<1>4. m \in Sending /\ End(m) <= StreamMax /\ End(m) \in Nat
  <2>1. m \in Sending /\ End(m) <= StreamMax
    BY <1>3, Zenon DEF SegmentsInv
  <2> QED
    BY <2>1 DEF Sending, End
<1> DEFINE f == End(m)
<1>5. /\ to \in Nat /\ rcv_nxt <= to /\ to <= StreamMax /\ to <= ServerEdge
      /\ to = rcv_nxt \/ to <= f
  <2>1. edge = ServerEdge
    BY Zenon DEF ServerEdge
  <2>2. Continues(m) => f > rcv_nxt
    BY Zenon DEF Continues
  <2>3. f \in Nat /\ f <= StreamMax
    BY <1>4
  <2> HIDE DEF f, edge
  <2>4. to = IF Continues(m) THEN Least(f, edge) ELSE rcv_nxt
    BY Zenon DEF f
  <2> HIDE DEF to
  <2>5. /\ rcv_nxt \in Nat /\ ServerEdge \in Nat /\ rcv_nxt <= ServerEdge
        /\ rcv_nxt <= StreamMax /\ StreamMax \in Nat
    <3>1. StreamMax \in Nat
      BY Numbers
    <3> QED
      BY <1>3, <3>1, Zenon
  <2>6. CASE Continues(m)
    <3>1. to = Least(f, ServerEdge) /\ f > rcv_nxt
      BY <2>1, <2>2, <2>4, <2>6, Zenon
    <3> QED
      BY <2>3, <2>5, <3>1 DEF Least
  <2>7. CASE ~Continues(m)
    <3>1. to = rcv_nxt
      BY <2>4, <2>7, Zenon
    <3> QED
      BY <2>5, <3>1
  <2> QED
    BY <2>6, <2>7, Zenon
<1> HIDE DEF to, f
<1>6. u \in Nat /\ u <= Buffer /\ u <= to /\ to + Buffer - u = ServerEdge
  BY <1>3, <1>5, Numbers DEF ServerEdge
<1> HIDE DEF u
<1>7. ServerEdge' = ServerEdge
  <2>1. ServerEdge' = to + Buffer - u
    BY <1>1 DEF ServerEdge
  <2> QED
    BY <1>6, <2>1, Zenon
<1>8. ServerEdge <= to + Buffer - u
  <2>1. ServerEdge <= ServerEdge
    BY <1>3
  <2> QED
    BY <1>6, <2>1, Zenon
<1>9. /\ AcksInv(acks', to, to + Buffer - u)
      /\ \A c \in Pcb : Announced(c, acks, rcv_nxt, ServerEdge)
                           => Announced(c, acks', to, to + Buffer - u)
  BY <1>2, <1>3, <1>5, <1>6, <1>8, AckKeeps
<1>10. AcksInv(acks', to, ServerEdge) /\ (alive => Announced(pcb, acks', to, ServerEdge))
  BY <1>3, <1>6, <1>9, Zenon
<1>11. \A x \in segments' : x \in segments
  BY <1>1
<1>12. ASSUME alive PROVE AheadOf(pcb, segments', to)
  <2>1. Ahead(pcb, rcv_nxt) /\ \A x \in segments : Ahead(pcb, End(x))
    BY <1>3, <1>12, Zenon DEF AheadOf
  <2>2. Ahead(pcb, f) /\ f \in Nat
    BY <1>4, <2>1, Zenon DEF f
  <2>3. Ahead(pcb, to)
    <3>1. CASE to = rcv_nxt
      BY <2>1, <3>1, Zenon
    <3>2. CASE to <= f
      BY <1>3, <1>5, <2>2, <3>2, AheadBelow
    <3> QED
      BY <1>5, <3>1, <3>2
  <2> QED
    BY <1>11, <2>1, <2>3, Zenon DEF AheadOf
<1>13. ServerInv(to, u)
  BY <1>5, <1>6 DEF ServerInv
<1>14. SegmentsInv(segments')
  BY <1>3, <1>11, Zenon DEF SegmentsInv
<1> QED
  BY <1>1, <1>3, <1>7, <1>10, <1>12, <1>13, <1>14, Zenon DEF TransferInv

\* Its application reads.
LEMMA ServerReadsKeeps ==
  ASSUME TransferInv, ServerReads
  PROVE  TransferInv'
<1>1. /\ unread' = 0 /\ Ack(rcv_nxt, 0) /\ pcb' = pcb /\ alive' = alive
      /\ segments' = segments /\ rcv_nxt' = rcv_nxt
  BY DEF ServerReads
<1>2. acks' \subseteq acks \cup {[ackno |-> rcv_nxt, wnd |-> Buffer - 0]}
  BY <1>1, CarriedIs DEF Ack
<1>3. /\ rcv_nxt \in Nat /\ unread \in Nat /\ ServerEdge \in Nat /\ rcv_nxt <= ServerEdge
      /\ rcv_nxt <= StreamMax /\ unread <= Buffer /\ unread <= rcv_nxt /\ pcb \in Pcb
      /\ AcksInv(acks, rcv_nxt, ServerEdge) /\ SegmentsInv(segments)
      /\ Sound(pcb) /\ pcb.out = {}
      /\ alive => AheadOf(pcb, segments, rcv_nxt) /\ Announced(pcb, acks, rcv_nxt, ServerEdge)
  BY EdgeIs
<1>4. /\ ServerEdge <= rcv_nxt + Buffer - 0 /\ rcv_nxt <= rcv_nxt /\ 0 <= Buffer /\ 0 <= rcv_nxt
  BY <1>3, Numbers DEF ServerEdge
<1>5. ServerEdge' = rcv_nxt + Buffer - 0
  BY <1>1 DEF ServerEdge
<1>6. /\ AcksInv(acks', rcv_nxt, rcv_nxt + Buffer - 0)
      /\ \A c \in Pcb : Announced(c, acks, rcv_nxt, ServerEdge)
                           => Announced(c, acks', rcv_nxt, rcv_nxt + Buffer - 0)
  <2>1. 0 \in Nat
    OBVIOUS
  <2> QED
    BY <1>2, <1>3, <1>4, <2>1, AckKeeps
<1>7. ServerInv(rcv_nxt, 0)
  BY <1>3, Numbers DEF ServerInv
<1> QED
  BY <1>1, <1>3, <1>5, <1>6, <1>7, Zenon DEF TransferInv

\* The network loses something.
LEMMA NetworkLosesKeeps ==
  ASSUME TransferInv, NetworkLoses
  PROVE  TransferInv'
<1>1. /\ pcb' = pcb /\ alive' = alive /\ rcv_nxt' = rcv_nxt /\ unread' = unread
      /\ \A x \in segments' : x \in segments
      /\ \A x \in acks' : x \in acks
  BY DEF NetworkLoses
<1>2. ServerEdge' = ServerEdge
  BY <1>1 DEF ServerEdge
<1>3. SegmentsInv(segments) => SegmentsInv(segments')
  BY <1>1, Zenon DEF SegmentsInv
<1>4. AcksInv(acks, rcv_nxt, ServerEdge) => AcksInv(acks', rcv_nxt, ServerEdge)
  BY <1>1, Zenon DEF AcksInv
<1>5. AheadOf(pcb, segments, rcv_nxt) => AheadOf(pcb, segments', rcv_nxt)
  BY <1>1, Zenon DEF AheadOf
<1>6. Announced(pcb, acks, rcv_nxt, ServerEdge) => Announced(pcb, acks', rcv_nxt, ServerEdge)
  BY <1>1, Zenon DEF Announced
<1> QED
  BY <1>1, <1>2, <1>3, <1>4, <1>5, <1>6, Zenon DEF TransferInv

-----------------------------------------------------------------------------
(* The beginning and the end of a connection.                              *)

\* A block as tcp_process leaves it.
LEMMA SenderInitSound == Sound(SenderInit) /\ SenderInit.out = {}
<1> DEFINE c == SenderInit
<1>1. <<>> \in Seq(Seg) /\ <<>> \o <<>> = <<>> /\ Len(<<>>) = 0 /\ {} \in SUBSET Flags
      /\ {} \in SUBSET Sending
  OBVIOUS
<1>2. Pbufs(<<>>) = 0
  <2>1. \A i \in 1 .. Len(<<>>) : <<>>[i].pbufs = 1
    OBVIOUS
  <2> QED
    BY <1>1, <2>1, PbufsOfOnes
<1> DEFINE w == 2 * MSS
           t == Least(10 * MSS, CwndMax)
<1>3. w \in MSS .. CwndMax /\ t \in Thresholds
  BY Numbers DEF Least, Thresholds
<1>4. c = [unsent |-> <<>>, unacked |-> <<>>, unsent_oversize |-> 0,
           snd_buf |-> TCP_SND_BUF, snd_queuelen |-> 0, snd_nxt |-> 0, snd_lbb |-> 0,
           lastack |-> 0, snd_wnd |-> Buffer, snd_wl2 |-> 0, wl1 |-> FALSE,
           cwnd |-> w, ssthresh |-> t, dupacks |-> 0, nrtx |-> 0,
           flags |-> {}, timer |-> FALSE, persist |-> FALSE, out |-> {}]
  BY Zenon DEF SenderInit
<1> HIDE DEF w, t, c
<1>5. c \in Pcb
  BY <1>1, <1>3, <1>4, Numbers DEF Pcb
<1>6. /\ c.unsent = <<>> /\ c.unacked = <<>> /\ c.unsent_oversize = 0
      /\ c.snd_buf = TCP_SND_BUF /\ c.snd_queuelen = 0 /\ c.snd_nxt = 0 /\ c.snd_lbb = 0
      /\ c.lastack = 0 /\ c.snd_wnd = Buffer /\ c.snd_wl2 = 0 /\ c.wl1 = FALSE
      /\ c.out = {}
  BY <1>4
<1>7. Linked(<<>>)
  BY <1>1 DEF Linked
<1>8. Covering(<<>>, 0, 0)
  BY <1>7, Zenon DEF Covering
<1>9. /\ 0 <= 0 /\ 0 <= StreamMax /\ TCP_SND_BUF + 0 - 0 = TCP_SND_BUF /\ 0 <= TCP_SND_BUF
      /\ 0 <= TCP_SND_QUEUELEN /\ 0 <= 0 + Buffer
  BY Numbers
<1>10. Counted(c, <<>>)
  BY <1>2, <1>6, <1>8, <1>9, Zenon DEF Counted
<1>11. Room(c)
  BY <1>6, Zenon DEF Room
<1>12. Sent(c)
  <2>1. \A i \in 1 .. Len(<<>>) : FALSE
    OBVIOUS
  <2> QED
    BY <1>6, <2>1, Zenon DEF Sent
<1>13. QueueInv(c)
  BY <1>1, <1>6, <1>10, <1>11, <1>12, Zenon DEF QueueInv
<1>14. WindowInv(c)
  BY <1>6, <1>9, Zenon DEF WindowInv, InsideWindow
<1> QED
  BY <1>5, <1>6, <1>13, <1>14, Zenon DEF Sound, c

\* The block is freed.
LEMMA GiveUpKeeps ==
  ASSUME TransferInv, GiveUp
  PROVE  TransferInv'
<1>1. /\ pcb' = SenderInit /\ alive' = FALSE /\ segments' = segments /\ acks' = acks
      /\ rcv_nxt' = rcv_nxt /\ unread' = unread
  BY DEF GiveUp
<1>2. ServerEdge' = ServerEdge
  BY <1>1 DEF ServerEdge
<1> QED
  BY <1>1, <1>2, SenderInitSound, Zenon DEF TransferInv

\* The invariant holds at the start,
LEMMA TransferInvInit == TransferInit => TransferInv
<1> SUFFICES ASSUME TransferInit PROVE TransferInv
  OBVIOUS
<1>1. /\ pcb = SenderInit /\ alive = TRUE /\ segments = {} /\ acks = {} /\ rcv_nxt = 0
      /\ unread = 0
  BY DEF TransferInit
<1> DEFINE c == SenderInit
<1>2. c.snd_nxt = 0 /\ c.lastack = 0 /\ c.snd_wl2 = 0 /\ c.snd_wnd = Buffer
  BY DEF SenderInit
<1> HIDE DEF c
<1>3. ServerEdge = Buffer /\ Buffer \in Nat /\ StreamMax \in Nat
  BY <1>1, Numbers DEF ServerEdge
<1>4. ServerInv(rcv_nxt, unread)
  BY <1>1, <1>3 DEF ServerInv
<1>5. SegmentsInv(segments) /\ AcksInv(acks, rcv_nxt, ServerEdge)
  BY <1>1 DEF SegmentsInv, AcksInv
<1>6. AheadOf(c, segments, rcv_nxt)
  BY <1>1, <1>2 DEF AheadOf, Ahead
<1>7. Announced(c, acks, rcv_nxt, ServerEdge)
  BY <1>1, <1>2, <1>3 DEF Announced
<1> QED
  BY <1>1, <1>4, <1>5, <1>6, <1>7, SenderInitSound, Zenon DEF TransferInv, c

\* and every step keeps it.
LEMMA TransferInvStep == TransferInv /\ [TransferNext]_transferVars => TransferInv'
<1> SUFFICES ASSUME TransferInv, [TransferNext]_transferVars PROVE TransferInv'
  OBVIOUS
<1>1. CASE Upload
  BY <1>1, UploadKeeps
<1>2. CASE \E m \in acks, again \in BOOLEAN : AckArrives(m, again)
  BY <1>2, AckArrivesKeeps
<1>3. CASE \E timeout, poll \in BOOLEAN : SlowTmr(timeout, poll)
  BY <1>3, SlowTmrSound
<1>4. CASE GiveUp
  BY <1>4, GiveUpKeeps
<1>5. CASE \E m \in segments, again \in BOOLEAN : SegmentArrives(m, again)
  BY <1>5, SegmentArrivesKeeps
<1>6. CASE ServerReads
  BY <1>6, ServerReadsKeeps
<1>7. CASE NetworkLoses
  BY <1>7, NetworkLosesKeeps
<1>8. CASE UNCHANGED transferVars
  <2>1. /\ pcb' = pcb /\ alive' = alive /\ rcv_nxt' = rcv_nxt /\ unread' = unread
        /\ segments' = segments /\ acks' = acks
    BY <1>8 DEF transferVars
  <2>2. ServerEdge' = ServerEdge
    BY <2>1 DEF ServerEdge
  <2> QED
    BY <2>1, <2>2, Zenon DEF TransferInv
<1> QED
  BY <1>1, <1>2, <1>3, <1>4, <1>5, <1>6, <1>7, <1>8, Zenon DEF TransferNext

-----------------------------------------------------------------------------
(* What the invariant says of the lists.                                   *)

\* The place that a segment has in the list of both.
LEMMA QueuedIs ==
  ASSUME Sound(pcb), NEW Q, Q = pcb.unacked \o pcb.unsent
  PROVE  /\ Q \in Seq(Seg) /\ Queued = {Q[j] : j \in 1 .. Len(Q)}
         /\ pcb.unacked \in Seq(Seg) /\ pcb.unsent \in Seq(Seg)
<1> DEFINE A == pcb.unacked
           U == pcb.unsent
           m == Len(A)
           n == Len(U)
<1>1. A \in Seq(Seg) /\ U \in Seq(Seg)
  BY PcbFields, Zenon DEF Sound
<1>2. Queued = SegmentsOf(U) \cup SegmentsOf(A)
  BY Zenon DEF Queued
<1>3. Q = A \o U
  BY Zenon
<1> HIDE DEF A, U
<1>4. /\ Q \in Seq(Seg) /\ Len(Q) = m + n /\ m \in Nat /\ n \in Nat
      /\ \A i \in 1 .. m : Q[i] = A[i]
      /\ \A i \in 1 .. n : Q[m + i] = U[i]
  BY <1>1, <1>3, Joined
<1>5. DOMAIN A = 1 .. m /\ DOMAIN U = 1 .. n
  BY <1>1
<1>6. SegmentsOf(A) = {A[j] : j \in 1 .. m} /\ SegmentsOf(U) = {U[j] : j \in 1 .. n}
  BY <1>5, Zenon DEF SegmentsOf
<1> HIDE DEF m, n
<1>7. ASSUME NEW j \in 1 .. Len(Q) PROVE Q[j] \in Queued
  <2>1. CASE j <= m
    <3>1. j \in 1 .. m
      BY <1>4, <2>1
    <3> QED
      BY <1>2, <1>4, <1>6, <3>1, Zenon
  <2>2. CASE ~(j <= m)
    <3>1. j - m \in 1 .. n /\ m + (j - m) = j
      BY <1>4, <2>2
    <3>2. Q[j] = U[j - m]
      BY <1>4, <3>1, Zenon
    <3> QED
      BY <1>2, <1>6, <3>1, <3>2, Zenon
  <2> QED
    BY <2>1, <2>2, Zenon
<1>8. ASSUME NEW s \in Queued PROVE \E j \in 1 .. Len(Q) : s = Q[j]
  <2>1. CASE s \in SegmentsOf(A)
    <3>1. PICK j \in 1 .. m : s = A[j]
      BY <1>6, <2>1, Zenon
    <3>2. j \in 1 .. Len(Q) /\ s = Q[j]
      <4>1. j \in 1 .. Len(Q)
        BY <1>4
      <4> QED
        BY <1>4, <3>1, <4>1, Zenon
    <3> QED
      BY <3>2, Zenon
  <2>2. CASE s \in SegmentsOf(U)
    <3>1. PICK j \in 1 .. n : s = U[j]
      BY <1>6, <2>2, Zenon
    <3>2. m + j \in 1 .. Len(Q)
      BY <1>4
    <3> QED
      BY <1>4, <3>1, <3>2, Zenon
  <2> QED
    BY <1>2, <2>1, <2>2, Zenon
<1>9. Queued = {Q[j] : j \in 1 .. Len(Q)}
  BY <1>7, <1>8, Zenon
<1> QED
  BY <1>1, <1>4, <1>9, Zenon DEF A, U

\* The types.
LEMMA InvTypes == TransferInv => TransferTypeOK
<1> SUFFICES ASSUME TransferInv PROVE TransferTypeOK
  OBVIOUS
<1> DEFINE Q == pcb.unacked \o pcb.unsent
<1>1. /\ Sound(pcb) /\ pcb.out = {} /\ pcb \in Pcb /\ QueueInv(pcb)
      /\ SegmentsInv(segments) /\ AcksInv(acks, rcv_nxt, ServerEdge)
  BY Zenon DEF TransferInv, Sound
<1>2. Q \in Seq(Seg) /\ Queued = {Q[j] : j \in 1 .. Len(Q)}
  BY <1>1, QueuedIs
<1>3. /\ pcb.lastack <= pcb.snd_nxt /\ pcb.snd_nxt <= pcb.snd_lbb /\ pcb.snd_lbb <= StreamMax
      /\ pcb.snd_buf + pcb.snd_lbb - pcb.lastack = TCP_SND_BUF /\ 0 <= pcb.snd_buf
      /\ pcb.snd_queuelen = Pbufs(Q) /\ pcb.snd_queuelen <= TCP_SND_QUEUELEN
  BY <1>1, Zenon DEF QueueInv, Counted
<1> HIDE DEF Q
<1>4. /\ pcb.snd_buf \in Int /\ pcb.snd_queuelen \in Int /\ pcb.snd_nxt \in Nat
      /\ pcb.snd_lbb \in Nat /\ pcb.lastack \in Nat /\ pcb.cwnd \in Nat
      /\ MSS <= pcb.cwnd /\ pcb.cwnd <= CwndMax /\ pcb.flags \in SUBSET Flags
  BY <1>1, PcbFields
<1>5. pcb.snd_buf \in 0 .. TCP_SND_BUF /\ pcb.snd_lbb \in 0 .. StreamMax
  <2> DEFINE b == pcb.snd_buf
             w == pcb.snd_lbb
             a == pcb.lastack
             x == pcb.snd_nxt
  <2>1. /\ b \in Int /\ w \in Nat /\ a \in Nat /\ x \in Nat /\ a <= x /\ x <= w
        /\ b + w - a = TCP_SND_BUF /\ 0 <= b /\ w <= StreamMax
    BY <1>3, <1>4, Zenon
  <2>2. TCP_SND_BUF \in Nat /\ StreamMax \in Nat
    BY Numbers
  <2> HIDE DEF b, w, a, x
  <2>3. b \in 0 .. TCP_SND_BUF /\ w \in 0 .. StreamMax
    BY <2>1, <2>2
  <2> QED
    BY <2>3, Zenon DEF b, w
<1>6. pcb.snd_queuelen \in 0 .. TCP_SND_QUEUELEN
  <2>1. Pbufs(Q) \in Nat /\ TCP_SND_QUEUELEN \in Nat
    BY <1>2, PbufsAre, PbufsJoined, Numbers
  <2>2. pcb.snd_queuelen \in Nat
    BY <1>3, <2>1, Zenon
  <2> QED
    BY <1>3, <2>1, <2>2
<1>7. pcb.cwnd \in MSS .. CwndMax
  BY <1>1, Zenon DEF Pcb
<1>8. \A seg \in Queued : seg.len \in 1 .. Mss_local /\ seg.pbufs \in 1 .. seg.len
  <2>1. ASSUME NEW j \in 1 .. Len(Q) PROVE Q[j].len \in 1 .. Mss_local /\ Q[j].pbufs \in 1 .. Q[j].len
    <3>1. Q[j] \in Seg
      BY <1>2
    <3> QED
      BY <3>1, SegmentFields
  <2> QED
    BY <1>2, <2>1, Zenon
<1>9. segments \subseteq Segment
  <2>1. ASSUME NEW m \in segments PROVE m \in Segment
    <3>1. m \in Sending /\ m.len \in 1 .. MSS /\ End(m) <= StreamMax /\ StreamMax \in Nat /\ MSS \in Nat
      BY <1>1, Numbers DEF SegmentsInv
    <3> QED
      BY <3>1 DEF Sending, Segment, End
  <2> QED
    BY <2>1, Zenon
<1>10. acks \subseteq ServerAnswer
  BY <1>1, Zenon DEF AcksInv
<1> QED
  BY <1>1, <1>3, <1>4, <1>5, <1>6, <1>7, <1>8, <1>9, <1>10, Zenon DEF TransferTypeOK

\* Every byte that waits is in one segment.
LEMMA InvQueued == TransferInv => EveryByteQueued
<1> SUFFICES ASSUME TransferInv PROVE EveryByteQueued
  OBVIOUS
<1> DEFINE A == pcb.unacked
           U == pcb.unsent
           Q == A \o U
           lo == pcb.lastack
           hi == pcb.snd_lbb
<1>1. Sound(pcb) /\ pcb \in Pcb /\ QueueInv(pcb)
  BY Zenon DEF TransferInv, Sound
<1>2. Q \in Seq(Seg) /\ Queued = {Q[j] : j \in 1 .. Len(Q)} /\ A \in Seq(Seg) /\ U \in Seq(Seg)
  BY <1>1, QueuedIs
<1>3. Covering(Q, lo, hi) /\ lo \in Nat /\ hi \in Nat
  <2>1. Covering(Q, lo, hi)
    BY <1>1, Zenon DEF QueueInv, Counted
  <2>2. lo \in Nat /\ hi \in Nat
    BY <1>1, PcbFields
  <2> QED
    BY <2>1, <2>2, Zenon
<1>4. Linked(A) /\ Linked(U)
  <2>1. Linked(Q)
    BY <1>3, Zenon DEF Covering
  <2> QED
    BY <1>2, <2>1, LinkedParts, Zenon
<1> HIDE DEF Q, A, U, lo, hi
<1>5. /\ \A n \in lo .. hi - 1 :
           \E j \in 1 .. Len(Q) : \A i \in 1 .. Len(Q) :
              (Q[i].seqno <= n /\ n < End(Q[i])) <=> i = j
      /\ \A i \in 1 .. Len(Q) : lo < End(Q[i]) /\ End(Q[i]) <= hi
  BY <1>2, <1>3, CoveredOnce
<1>6. ASSUME NEW n \in lo .. hi - 1
      PROVE  Cardinality({seg \in Queued : seg.seqno <= n /\ n < End(seg)}) = 1
  <2> DEFINE S == {seg \in Queued : seg.seqno <= n /\ n < End(seg)}
  <2>1. PICK j \in 1 .. Len(Q) : \A i \in 1 .. Len(Q) :
              (Q[i].seqno <= n /\ n < End(Q[i])) <=> i = j
    BY <1>5, Zenon
  <2>2. S = {Q[j]}
    BY <1>2, <2>1, Zenon
  <2>3. Cardinality({Q[j]}) = 1
    BY FS_Singleton, Zenon
  <2> QED
    BY <2>2, <2>3, Zenon
<1>7. ASSUME NEW seg \in Queued PROVE End(seg) > lo /\ End(seg) <= hi
  <2>1. PICK i \in 1 .. Len(Q) : seg = Q[i]
    BY <1>2, Zenon
  <2>2. lo < End(Q[i]) /\ End(Q[i]) <= hi /\ End(Q[i]) \in Nat
    BY <1>2, <1>5, SegmentAt
  <2>3. End(Q[i]) > lo
    BY <1>3, <2>2
  <2> QED
    BY <2>1, <2>2, <2>3, Zenon
<1>8. ASSUME NEW queue \in Seq(Seg), Linked(queue), NEW j \in 1 .. Len(queue) - 1
      PROVE  End(queue[j]) <= queue[j + 1].seqno
  <2>1. j \in 1 .. Len(queue) /\ End(queue[j]) = queue[j + 1].seqno
    BY <1>8 DEF Linked
  <2>2. End(queue[j]) \in Nat
    BY <2>1, SegmentAt
  <2>3. End(queue[j]) <= End(queue[j])
    BY <2>2
  <2> QED
    BY <2>1, <2>3, Zenon
<1>9. \A queue \in {U, A} : \A j \in 1 .. Len(queue) - 1 : End(queue[j]) <= queue[j + 1].seqno
  BY <1>2, <1>4, <1>8, Zenon
<1> QED
  BY <1>6, <1>7, <1>9, Zenon DEF EveryByteQueued, lo, hi, U, A

\* The accounts, the room and the timer are the invariant's own parts.
LEMMA InvAccounts == TransferInv => BufferAccounted /\ OversizeIsThere /\ SentIsTimed
<1> SUFFICES ASSUME TransferInv PROVE BufferAccounted /\ OversizeIsThere /\ SentIsTimed
  OBVIOUS
<1> DEFINE A == pcb.unacked
           U == pcb.unsent
<1>1. Sound(pcb) /\ pcb \in Pcb /\ QueueInv(pcb)
  BY Zenon DEF TransferInv, Sound
<1>2. A \in Seq(Seg) /\ U \in Seq(Seg)
  BY <1>1, PcbFields
<1>3. /\ pcb.snd_buf + pcb.snd_lbb - pcb.lastack = TCP_SND_BUF
      /\ pcb.snd_queuelen = Pbufs(A \o U) /\ Room(pcb) /\ Sent(pcb)
  BY <1>1, Zenon DEF QueueInv, Counted
<1>4. Pbufs(A \o U) = Pbufs(U) + Pbufs(A)
  <2> DEFINE a == Pbufs(A)
             u == Pbufs(U)
  <2> HIDE DEF A, U
  <2>1. Pbufs(A \o U) = a + u /\ a \in Nat /\ u \in Nat
    BY <1>2, PbufsJoined
  <2> HIDE DEF a, u
  <2>2. a + u = u + a
    BY <2>1
  <2> QED
    BY <2>1, <2>2, Zenon DEF a, u
<1> QED
  BY <1>3, <1>4, Zenon DEF BufferAccounted, OversizeIsThere, SentIsTimed, Room, Sent

\* What is out ends before the server's edge: the window that it is in is one
\* that the server has announced.
LEMMA InvWindow == TransferInv => NoOverrun
<1> SUFFICES ASSUME TransferInv, alive PROVE pcb.snd_nxt <= rcv_nxt + Buffer - unread
  BY Zenon DEF NoOverrun
<1> DEFINE x == pcb.snd_nxt
           a == pcb.lastack
           w == pcb.snd_wnd
           l == pcb.snd_wl2
<1>1. /\ pcb \in Pcb /\ ServerEdge \in Nat /\ Sound(pcb)
      /\ Announced(pcb, acks, rcv_nxt, ServerEdge)
  BY EdgeIs
<1>2. /\ x <= a + w /\ a <= l /\ l + w <= ServerEdge
  BY <1>1, Zenon DEF Sound, WindowInv, InsideWindow, Announced
<1>3. x \in Nat /\ a \in Nat /\ w \in Nat /\ l \in Nat
  BY <1>1, PcbFields
<1> HIDE DEF x, a, w, l
<1>4. x <= ServerEdge
  BY <1>1, <1>2, <1>3
<1> QED
  BY <1>4, Zenon DEF ServerEdge, x

-----------------------------------------------------------------------------
(* The theorems.                                                           *)

\* The inductive invariant: both lists in a row cover what is written and not
\* acknowledged, with exact accounts; what is out is inside a window that the
\* server has announced; and what has reached the server was sent.
THEOREM TransferInvariant == TransferSpec => []TransferInv
<1>1. TransferInit => TransferInv
  BY TransferInvInit
<1>2. TransferInv /\ [TransferNext]_transferVars => TransferInv'
  BY TransferInvStep
<1> QED
  BY <1>1, <1>2, PTL DEF TransferSpec

\* The two queues of tcp_write, tcp_output, tcp_receive and tcp_slowtmr are
\* always sound: every byte once and in order, whatever the network lost,
\* repeated or reordered, the accounts exact, the room there, what is out timed.
THEOREM QueuesAreSound == TransferSpec => []QueuesSound
<1>1. TransferInv => QueuesSound
  BY InvTypes, InvQueued, InvAccounts, Zenon DEF QueuesSound
<1> QED
  BY <1>1, TransferInvariant, PTL

\* Nothing is sent that the server has no room for, however old the
\* acknowledgement that tcp_receive took the window from.
THEOREM NothingOverruns == TransferSpec => []NoOverrun
<1>1. TransferInv => NoOverrun
  BY InvWindow
<1> QED
  BY <1>1, TransferInvariant, PTL
=============================================================================
