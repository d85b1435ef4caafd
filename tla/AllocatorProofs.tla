-------------------------- MODULE AllocatorProofs ---------------------------
(***************************************************************************)
(* Proofs about Heap, Malloc and Pbuf.  The heap of lwIP, for any size of it,*)
(* of its headers and of the requests, as long as no handler allocates     *)
(* while the main loop is in here: the list tiles the heap, lfree is the   *)
(* lowest free area, nothing is given twice or refused while there is room,*)
(* and the list implements the abstract heap.  malloc.c, for every bank,   *)
(* cell size and request: the table stays exact, blocks stay apart, and the*)
(* loops implement the pool of BlockPool.  The packet buffers, for pools,  *)
(* buffers and packets of any size: counts and lengths stay exact whoever  *)
(* shares a packet.                                                        *)
(***************************************************************************)
EXTENDS Heap, Malloc, Pbuf, Recursion, FiniteSetTheorems

LEMMA HeapConstants ==
  /\ MEM \in Nat \ {0} /\ HDR \in Nat \ {0} /\ MIN \in Nat \ {0} /\ HDR + MIN <= MEM
  /\ Wanted \subseteq Nat \ {0}
BY HeapAssumption DEF HeapAssumption

-----------------------------------------------------------------------------
(* A list of areas, by its headers and their two fields.                   *)

Tiled(M, nx, pv) ==
  /\ M \subseteq 0 .. MEM - 1 /\ nx \in [Offset -> Offset] /\ pv \in [Offset -> Offset]
  /\ 0 \in M /\ pv[0] = 0
  /\ \A m \in M : /\ m + HDR + MIN <= nx[m] /\ nx[m] \in M \cup {MEM}
                  /\ \A k \in M : k <= m \/ nx[m] <= k
                  /\ nx[m] # MEM => pv[nx[m]] = m
  /\ \A m \in M \ {0} : pv[m] \in M /\ nx[pv[m]] = m
  /\ \A f \in 0 .. MEM - 1 : \E m \in M : m <= f /\ f < nx[m]

LEMMA TiledIs ==
  /\ HeapInv => Tiled(mems, next, prev)
  /\ Tiled(mems, next, prev) => AreasTile /\ BackLinks /\ Covered
<1>1. MEM \in Nat \ {0} /\ HDR \in Nat \ {0} /\ MIN \in Nat \ {0} /\ Offset = 0 .. MEM
  BY HeapConstants DEF Offset
<1>2. ASSUME HeapInv PROVE Tiled(mems, next, prev)
  <2>1. mems \subseteq 0 .. MEM - 1
    BY <1>1, <1>2 DEF HeapInv, HeapTypeOK, ram_end
  <2> QED
    BY <2>1, <1>2 DEF HeapInv, HeapTypeOK, AreasTile, BackLinks, Covered, Tiled, ram_end
<1>3. Tiled(mems, next, prev) => AreasTile /\ BackLinks /\ Covered
  BY DEF AreasTile, BackLinks, Covered, Tiled, ram_end
<1> QED
  BY <1>2, <1>3

\* What a list's areas are, for arithmetic.
LEMMA TiledTypes ==
  ASSUME NEW M, NEW nx, NEW pv, Tiled(M, nx, pv)
  PROVE  /\ MEM \in Nat \ {0} /\ HDR \in Nat \ {0} /\ MIN \in Nat \ {0}
         /\ Offset = 0 .. MEM /\ 0 \in M
         /\ \A m \in M : /\ m \in Nat /\ m < MEM /\ m \in Offset /\ m # MEM
                         /\ nx[m] \in Nat /\ nx[m] <= MEM /\ nx[m] \in Offset
                         /\ m < nx[m] /\ m + HDR + MIN <= nx[m]
<1>1. MEM \in Nat \ {0} /\ HDR \in Nat \ {0} /\ MIN \in Nat \ {0} /\ Offset = 0 .. MEM
  BY HeapConstants DEF Offset
<1>2. 0 \in M
  BY DEF Tiled
<1>3. ASSUME NEW m \in M
      PROVE  /\ m \in Nat /\ m < MEM /\ m \in Offset /\ m # MEM
             /\ nx[m] \in Nat /\ nx[m] <= MEM /\ nx[m] \in Offset
             /\ m < nx[m] /\ m + HDR + MIN <= nx[m]
  <2>1. m \in 0 .. MEM - 1 /\ nx \in [Offset -> Offset] /\ m + HDR + MIN <= nx[m]
    BY DEF Tiled
  <2>2. m \in Offset /\ nx[m] \in Offset
    BY <1>1, <2>1
  <2> QED
    BY <1>1, <2>1, <2>2
<1> QED
  BY <1>1, <1>2, <1>3, Zenon

\* An area joined with the one behind it.
LEMMA Joined ==
  ASSUME NEW M, NEW nx, NEW pv, Tiled(M, nx, pv), NEW a \in M, nx[a] \in M,
         NEW nx2 \in [Offset -> Offset], NEW pv2 \in [Offset -> Offset],
         \A o \in Offset : nx2[o] = IF o = nx[a] THEN 0 ELSE IF o = a THEN nx[nx[a]] ELSE nx[o],
         \A o \in Offset : pv2[o] = IF o = nx[a] THEN 0
                                    ELSE IF o = nx[nx[a]] /\ o # MEM THEN a ELSE pv[o]
  PROVE  Tiled(M \ {nx[a]}, nx2, pv2)
<1> DEFINE b == nx[a]  c == nx[b]  Kept == M \ {b}
<1>0. /\ MEM \in Nat \ {0} /\ HDR \in Nat \ {0} /\ MIN \in Nat \ {0}
      /\ Offset = 0 .. MEM
  BY HeapConstants DEF Offset
<1>T. \A m \in M : /\ m \in Nat /\ m < MEM /\ m \in Offset /\ m # MEM
                   /\ nx[m] \in Nat /\ nx[m] <= MEM /\ nx[m] \in Offset
                   /\ m < nx[m] /\ m + HDR + MIN <= nx[m]
  BY TiledTypes
<1>N. \A m \in M : nx[m] \in M \cup {MEM} /\ \A k \in M : k <= m \/ nx[m] <= k
  BY DEF Tiled
<1>P. /\ \A m \in M : nx[m] # MEM => pv[nx[m]] = m
      /\ \A m \in M \ {0} : pv[m] \in M /\ nx[pv[m]] = m
  BY DEF Tiled
<1>1. /\ b \in M /\ c \in M \cup {MEM} /\ a < b /\ b < c /\ b # 0 /\ a \in Kept
      /\ a + HDR + MIN <= b /\ b + HDR + MIN <= c
  BY <1>T, <1>N
<1>G. /\ a \in Nat /\ b \in Nat /\ c \in Nat /\ c <= MEM
      /\ HDR \in Nat /\ MIN \in Nat /\ MEM \in Nat
  BY <1>0, <1>1, <1>T
<1>2. \A k \in Kept : k <= a \/ c <= k
  BY <1>1, <1>T, <1>N
<1>3. \A m \in Kept : m # a => nx2[m] = nx[m] /\ nx[m] # b
  <2> SUFFICES ASSUME NEW m \in Kept, m # a PROVE nx2[m] = nx[m] /\ nx[m] # b
    OBVIOUS
  <2>1. nx2[m] = nx[m]
    BY <1>T
  <2>2. nx[m] = b => pv[b] = m
    BY <1>1, <1>T, <1>P
  <2>3. pv[b] = a
    BY <1>1, <1>T, <1>P
  <2> QED
    BY <2>1, <2>2, <2>3
<1>4. nx2[a] = c
  BY <1>1, <1>T
<1>5. \A m \in Kept : /\ m + HDR + MIN <= nx2[m] /\ nx2[m] \in Kept \cup {MEM}
                   /\ \A k \in Kept : k <= m \/ nx2[m] <= k
  <2> SUFFICES ASSUME NEW m \in Kept
               PROVE  /\ m + HDR + MIN <= nx2[m] /\ nx2[m] \in Kept \cup {MEM}
                      /\ \A k \in Kept : k <= m \/ nx2[m] <= k
    OBVIOUS
  <2>1. CASE m = a
    <3>1. a + HDR + MIN <= c /\ c \in Kept \cup {MEM}
      BY <1>1, <1>G
    <3> QED
      BY <2>1, <3>1, <1>2, <1>4
  <2>2. CASE m # a
    BY <2>2, <1>3, <1>T, <1>N
  <2> QED
    BY <2>1, <2>2
<1>6. \A m \in Kept : nx2[m] # MEM => pv2[nx2[m]] = m
  <2> SUFFICES ASSUME NEW m \in Kept, nx2[m] # MEM PROVE pv2[nx2[m]] = m
    OBVIOUS
  <2>1. CASE m = a
    <3>1. c \in Offset /\ c # MEM /\ c # b
      BY <2>1, <1>1, <1>4, <1>T
    <3> QED
      BY <2>1, <3>1, <1>4
  <2>2. CASE m # a
    <3>1. nx2[m] = nx[m] /\ nx[m] # b /\ nx[m] \in M /\ pv[nx[m]] = m
      BY <2>2, <1>3, <1>5, <1>T, <1>N, <1>P
    <3>2. nx[m] # c
      <4>1. nx[m] = c => c \in M /\ pv[c] = b /\ pv[c] = m
        BY <3>1, <1>1, <1>T, <1>N, <1>P
      <4> QED
        BY <4>1
    <3> QED
      BY <3>1, <3>2, <1>T
  <2> QED
    BY <2>1, <2>2
<1>7. \A m \in Kept \ {0} : pv2[m] \in Kept /\ nx2[pv2[m]] = m
  <2> SUFFICES ASSUME NEW m \in Kept \ {0} PROVE pv2[m] \in Kept /\ nx2[pv2[m]] = m
    OBVIOUS
  <2>1. m \in Offset /\ m # MEM /\ m # b /\ pv[m] \in M /\ nx[pv[m]] = m
    BY <1>0, <1>T, <1>N, <1>P
  <2>2. CASE m = c
    BY <2>1, <2>2, <1>1, <1>4
  <2>3. CASE m # c
    <3>1. pv2[m] = pv[m]
      BY <2>1, <2>3
    <3>2. pv[m] # b /\ pv[m] # a
      BY <2>1, <2>3
    <3> QED
      BY <3>1, <3>2, <2>1, <1>3
  <2> QED
    BY <2>2, <2>3
<1>8. \A f \in 0 .. MEM - 1 : \E m \in Kept : m <= f /\ f < nx2[m]
  <2> SUFFICES ASSUME NEW f \in 0 .. MEM - 1 PROVE \E m \in Kept : m <= f /\ f < nx2[m]
    OBVIOUS
  <2>1. PICK m \in M : m <= f /\ f < nx[m]
    BY DEF Tiled
  <2>2. CASE m = b \/ m = a
    <3>1. a <= f /\ f < c
      BY <2>1, <2>2, <1>1, <1>G
    <3> QED
      BY <3>1, <1>1, <1>4
  <2>3. CASE m # b /\ m # a
    BY <2>1, <2>3, <1>3
  <2> QED
    BY <2>2, <2>3
<1>9. 0 \in Kept /\ pv2[0] = 0
  <2>1. 0 \in Kept /\ pv[0] = 0 /\ 0 \in Offset
    BY <1>0, <1>1 DEF Tiled
  <2>2. 0 # b /\ 0 # c
    BY <1>1, <1>T
  <2> QED
    BY <2>1, <2>2
<1> HIDE DEF Kept
<1>10. Kept \subseteq 0 .. MEM - 1
  BY <1>0, <1>T DEF Kept
<1>11. Tiled(Kept, nx2, pv2)
  BY <1>5, <1>6, <1>7, <1>8, <1>9, <1>10 DEF Tiled
<1> QED
  BY <1>11 DEF Kept

\* An area divided in two, each long enough.
LEMMA Divided ==
  ASSUME NEW M, NEW nx, NEW pv, Tiled(M, nx, pv), NEW a \in M,
         NEW r \in Nat, a + HDR + MIN <= r, r + HDR + MIN <= nx[a],
         NEW nx2 \in [Offset -> Offset], NEW pv2 \in [Offset -> Offset],
         \A o \in Offset : nx2[o] = IF o = a THEN r ELSE IF o = r THEN nx[a] ELSE nx[o],
         \A o \in Offset : pv2[o] = IF o = r THEN a
                                    ELSE IF o = nx[a] /\ o # MEM THEN r ELSE pv[o]
  PROVE  Tiled(M \cup {r}, nx2, pv2) /\ r \notin M /\ r \in 0 .. MEM - 1
<1> DEFINE c == nx[a]  Kept == M \cup {r}
<1>0. /\ MEM \in Nat \ {0} /\ HDR \in Nat \ {0} /\ MIN \in Nat \ {0}
      /\ Offset = 0 .. MEM
  BY HeapConstants DEF Offset
<1>T. \A m \in M : /\ m \in Nat /\ m < MEM /\ m \in Offset /\ m # MEM
                   /\ nx[m] \in Nat /\ nx[m] <= MEM /\ nx[m] \in Offset
                   /\ m < nx[m] /\ m + HDR + MIN <= nx[m]
  BY TiledTypes
<1>N. \A m \in M : nx[m] \in M \cup {MEM} /\ \A k \in M : k <= m \/ nx[m] <= k
  BY DEF Tiled
<1>P. /\ \A m \in M : nx[m] # MEM => pv[nx[m]] = m
      /\ \A m \in M \ {0} : pv[m] \in M /\ nx[pv[m]] = m
  BY DEF Tiled
<1>G. /\ a \in Nat /\ c \in Nat /\ c <= MEM /\ MEM \in Nat
      /\ HDR \in Nat \ {0} /\ MIN \in Nat \ {0}
  BY <1>0, <1>T
<1>1. c \in M \cup {MEM} /\ a < r /\ r < c /\ \A k \in M : k <= a \/ c <= k
  <2>1. a < r /\ r < c
    BY <1>G
  <2> QED
    BY <2>1, <1>N
<1>2. r \notin M /\ r \in 0 .. MEM - 1 /\ r \in Offset /\ r # 0
  <2>1. r \in 0 .. MEM - 1 /\ r # 0
    BY <1>1, <1>G
  <2>2. r \in Offset
    BY <2>1, <1>0
  <2>3. \A k \in M : k # r
    BY <1>1, <1>G, <1>T
  <2> QED
    BY <2>1, <2>2, <2>3
<1>3. nx2[a] = r /\ nx2[r] = c /\ \A m \in M : m # a => nx2[m] = nx[m]
  BY <1>1, <1>2, <1>T
<1>4. \A m \in Kept : /\ m + HDR + MIN <= nx2[m] /\ nx2[m] \in Kept \cup {MEM}
  BY <1>0, <1>1, <1>2, <1>3, <1>T, <1>N, <1>P
<1>5. \A m, k \in Kept : k <= m \/ nx2[m] <= k
  <2> SUFFICES ASSUME NEW m \in Kept, NEW k \in Kept, ~(k <= m) PROVE nx2[m] <= k
    OBVIOUS
  <2>1. CASE m = a
    BY <2>1, <1>1, <1>2, <1>3, <1>T
  <2>2. CASE m = r
    BY <2>2, <1>1, <1>2, <1>3, <1>T
  <2>3. CASE m # a /\ m # r
    <3>1. m \in M /\ nx2[m] = nx[m]
      BY <2>3, <1>3
    <3>2. CASE k \in M
      BY <3>1, <3>2, <1>T, <1>N, <1>P
    <3>3. CASE k = r
      <4>1. m <= a
        BY <3>1, <3>3, <2>3, <1>1, <1>N, <1>T
      <4>2. nx[m] <= a
        BY <3>1, <4>1, <2>3, <1>0, <1>T, <1>N, <1>P
      <4>3. nx[m] \in Nat
        BY <3>1, <1>0, <1>T, <1>N, <1>P
      <4> QED
        BY <3>1, <3>3, <4>2, <4>3, <1>1, <1>T
    <3> QED
      BY <3>2, <3>3
  <2> QED
    BY <2>1, <2>2, <2>3
<1>6. \A m \in Kept : nx2[m] # MEM => pv2[nx2[m]] = m
  <2> SUFFICES ASSUME NEW m \in Kept, nx2[m] # MEM PROVE pv2[nx2[m]] = m
    OBVIOUS
  <2>1. CASE m = a
    BY <2>1, <1>2, <1>3
  <2>2. CASE m = r
    BY <2>2, <1>0, <1>1, <1>2, <1>3
  <2>3. CASE m # a /\ m # r
    <3>1. m \in M /\ nx2[m] = nx[m] /\ nx[m] \in M /\ pv[nx[m]] = m
      BY <2>3, <1>3, <1>T, <1>N, <1>P
    <3>2. nx[m] # c
      <4>1. nx[m] = c => c \in M /\ pv[c] = a
        BY <3>1, <1>T, <1>N, <1>P
      <4> QED
        BY <4>1, <3>1, <2>3
    <3> QED
      BY <3>1, <3>2, <1>2, <1>T
  <2> QED
    BY <2>1, <2>2, <2>3
<1>7. \A m \in Kept \ {0} : pv2[m] \in Kept /\ nx2[pv2[m]] = m
  <2> SUFFICES ASSUME NEW m \in Kept \ {0} PROVE pv2[m] \in Kept /\ nx2[pv2[m]] = m
    OBVIOUS
  <2>1. CASE m = r
    BY <2>1, <1>2, <1>3
  <2>2. CASE m # r
    <3>1. m \in Offset /\ m # MEM /\ pv[m] \in M /\ nx[pv[m]] = m
      BY <2>2, <1>0, <1>T, <1>N, <1>P
    <3>2. CASE m = c
      BY <2>2, <3>1, <3>2, <1>3
    <3>3. CASE m # c
      <4>1. pv2[m] = pv[m] /\ pv[m] # a
        BY <2>2, <3>1, <3>3
      <4> QED
        BY <4>1, <3>1, <1>3
    <3> QED
      BY <3>2, <3>3
  <2> QED
    BY <2>1, <2>2
<1>8. \A f \in 0 .. MEM - 1 : \E m \in Kept : m <= f /\ f < nx2[m]
  <2> SUFFICES ASSUME NEW f \in 0 .. MEM - 1 PROVE \E m \in Kept : m <= f /\ f < nx2[m]
    OBVIOUS
  <2>1. PICK m \in M : m <= f /\ f < nx[m]
    BY DEF Tiled
  <2>2. CASE m = a
    <3>1. a \in Kept /\ r \in Kept /\ (f < r \/ r <= f)
      BY <1>0, <1>2
    <3> QED
      BY <2>1, <2>2, <3>1, <1>3
  <2>3. CASE m # a
    BY <2>1, <2>3, <1>3
  <2> QED
    BY <2>2, <2>3
<1>9. 0 \in Kept /\ pv2[0] = 0
  BY <1>0, <1>1, <1>2, <1>T DEF Tiled
<1>10. Kept \subseteq 0 .. MEM - 1
  BY <1>2 DEF Tiled
<1> HIDE DEF Kept
<1>11. Tiled(Kept, nx2, pv2)
  BY <1>4, <1>5, <1>6, <1>7, <1>8, <1>9, <1>10 DEF Tiled
<1> QED
  BY <1>2, <1>11 DEF Kept
-----------------------------------------------------------------------------
(* What the invariant says of the areas on the list.                       *)

LEMMA AtLeast ==
  ASSUME NEW n \in Wanted
  PROVE  AtLeastMin(n) \in Nat /\ MIN <= AtLeastMin(n) /\ n <= AtLeastMin(n)
BY HeapConstants DEF AtLeastMin

LEMMA HeapFacts ==
  ASSUME HeapInv
  PROVE  /\ Tiled(mems, next, prev)
         /\ MEM \in Nat \ {0} /\ HDR \in Nat \ {0} /\ MIN \in Nat \ {0}
         /\ Offset = 0 .. MEM /\ 0 \in mems
         /\ \A m \in mems : /\ m \in Nat /\ m < MEM /\ m \in Offset /\ m # MEM
                            /\ next[m] \in Nat /\ next[m] <= MEM /\ next[m] \in Offset
                            /\ m < next[m] /\ m + HDR + MIN <= next[m]
         /\ \A m \in mems : /\ next[m] \in mems \cup {MEM}
                            /\ \A k \in mems : k <= m \/ next[m] <= k
                            /\ next[m] # MEM => prev[next[m]] = m
         /\ \A m \in mems \ {0} : prev[m] \in mems /\ next[prev[m]] = m
<1>1. Tiled(mems, next, prev)
  BY TiledIs
<1>2. /\ \A m \in mems : /\ next[m] \in mems \cup {MEM}
                         /\ \A k \in mems : k <= m \/ next[m] <= k
                         /\ next[m] # MEM => prev[next[m]] = m
      /\ \A m \in mems \ {0} : prev[m] \in mems /\ next[prev[m]] = m
  BY <1>1 DEF Tiled
<1> QED
  BY <1>1, <1>2, TiledTypes

LEMMA NotEmpty == \A x : <<x>> # <<>>
OBVIOUS

\* With no area being freed no two neighbours are free.
LEMMA NoHoles ==
  ASSUME HeapInv, freed = <<>>, NEW m \in mems, Vacant(m)
  PROVE  ~Vacant(next[m])
<1>1. Vacant(next[m]) => freed = <<m>> \/ freed = <<next[m]>>
  BY DEF HeapInv, HolesAtFreed
<1> QED
  BY <1>1, NotEmpty

-----------------------------------------------------------------------------
(* The steps.                                                              *)

LEMMA HeapInitial == HeapInit => HeapInv
<1> SUFFICES ASSUME HeapInit PROVE HeapInv
  OBVIOUS
<1>0. MEM \in Nat \ {0} /\ HDR \in Nat \ {0} /\ MIN \in Nat \ {0} /\ HDR + MIN <= MEM
      /\ Offset = 0 .. MEM /\ 0 \in Offset /\ MEM \in Offset
  BY HeapConstants DEF Offset
<1>1. mems = {0} /\ used = {} /\ next[0] = MEM /\ prev[0] = 0 /\ lfree = 0
      /\ owned = [o \in Offset |-> 0] /\ found = <<>> /\ freed = <<>>
  BY <1>0 DEF HeapInit
<1>2. next \in [Offset -> Offset] /\ prev \in [Offset -> Offset]
  BY <1>0 DEF HeapInit
<1>3. HeapTypeOK
  BY <1>0, <1>1, <1>2 DEF HeapTypeOK, ram_end
<1>4. AreasTile /\ BackLinks /\ Covered
  BY <1>0, <1>1 DEF AreasTile, BackLinks, Covered, ram_end
<1>5. HolesAtFreed /\ LfreeLowest /\ LfreeVacant /\ GivenOnce /\ CallInv
  BY <1>0, <1>1 DEF HolesAtFreed, LfreeLowest, LfreeVacant, GivenOnce, CallInv, Vacant, ram_end
<1> QED
  BY <1>3, <1>4, <1>5 DEF HeapInv

\* The first free area from m on, or the end.
LEMMA AdvanceIs ==
  ASSUME HeapInv, NEW m, NEW use
  PROVE  /\ Advance(m, use) \in {k \in mems : k >= m /\ k \notin use} \cup {MEM}
         /\ \A j \in {k \in mems : k >= m /\ k \notin use} \cup {MEM} : Advance(m, use) <= j
<1> DEFINE ahead == {k \in mems : k >= m /\ k \notin use} \cup {MEM}
<1>1. ahead \subseteq Nat /\ ahead # {}
  BY HeapFacts
<1>2. \E k \in ahead : \A j \in ahead : k <= j
  <2> HIDE DEF ahead
  <2> QED
    BY <1>1, LowestExists
<1>3. Advance(m, use) = CHOOSE k \in ahead : \A j \in ahead : k <= j
  BY DEF Advance, ram_end
<1> HIDE DEF ahead
<1>4. Advance(m, use) \in ahead /\ \A j \in ahead : Advance(m, use) <= j
  BY <1>2, <1>3, Zenon
<1> QED
  BY <1>4 DEF ahead

\* What main has found is a free area, long enough for what it was asked for.
LEMMA FoundIs ==
  ASSUME HeapInv, found # <<>>
  PROVE  /\ freed = <<>>
         /\ \E m \in mems, n \in Wanted :
              /\ m \notin used /\ found = <<m, AtLeastMin(n)>>
              /\ m + HDR + AtLeastMin(n) <= next[m]
<1>1. freed = <<>>
  BY DEF HeapInv, CallInv
<1>2. PICK m \in mems \ used, n \in Wanted :
        found = <<m, AtLeastMin(n)>> /\ AtLeastMin(n) <= DataSize(m)
  BY DEF HeapInv, CallInv
<1>3. m + HDR + AtLeastMin(n) <= next[m]
  BY <1>2, HeapFacts, AtLeast DEF DataSize
<1> QED
  BY <1>1, <1>2, <1>3

\* Taking an area whose rest becomes an area of its own.
LEMMA TakeSplit ==
  ASSUME HeapInv, freed = <<>>, NEW m \in mems, m \notin used, NEW k \in Nat, MIN <= k,
         Take(m, k), Splits(m, k), found' = <<>>, freed' = freed
  PROVE  HeapInv'
<1> DEFINE rest == m + HDR + k
<1>S. \A x \in mems : /\ x \in Nat /\ x < MEM /\ x \in Offset /\ x # MEM
                      /\ next[x] \in Nat /\ next[x] <= MEM /\ next[x] \in Offset
                      /\ x < next[x] /\ x + HDR + MIN <= next[x]
  BY HeapFacts
<1>N. \A x \in mems : /\ next[x] \in mems \cup {MEM}
                      /\ \A j \in mems : j <= x \/ next[x] <= j
  <2>1. Tiled(mems, next, prev)
    BY TiledIs
  <2> QED
    BY <2>1 DEF Tiled
<1>C. MEM \in Nat \ {0} /\ HDR \in Nat \ {0} /\ MIN \in Nat \ {0} /\ Offset = 0 .. MEM
  BY HeapFacts
<1>F. /\ MEM \in Nat \ {0} /\ HDR \in Nat \ {0} /\ MIN \in Nat \ {0}
      /\ \A x \in mems : /\ x \in Nat /\ x < MEM /\ x \in Offset /\ x # MEM
                         /\ next[x] \in Nat /\ next[x] <= MEM /\ next[x] \in Offset
                         /\ x < next[x] /\ next[x] \in mems \cup {MEM}
                         /\ \A j \in mems : j <= x \/ next[x] <= j
  BY <1>S, <1>N, <1>C, Zenon
<1>1. rest \in Nat /\ m + HDR + MIN <= rest /\ rest + HDR + MIN <= next[m] /\ m < rest
      /\ rest < next[m] /\ rest < MEM
  <2>1. m \in Nat /\ next[m] \in Nat /\ next[m] <= MEM
    BY <1>F
  <2>2. next[m] - (m + HDR) >= k + HDR + MIN
    BY DEF Splits, DataSize
  <2> QED
    BY <2>1, <2>2, <1>F
<1>2. rest \in Offset /\ m \in Offset /\ next[m] \in Offset
  BY <1>1, <1>F DEF Offset
<1>3. next \in [Offset -> Offset] /\ prev \in [Offset -> Offset] /\ owned \in [Offset -> Nat]
      /\ lfree \in Offset /\ used \subseteq mems
  BY DEF HeapInv, HeapTypeOK
<1>4. /\ mems' = mems \cup {rest} /\ used' = used \cup {m}
      /\ owned' = [owned EXCEPT ![m] = @ + 1]
      /\ next' = [next EXCEPT ![rest] = next[m], ![m] = rest]
      /\ prev' = [o \in Offset |-> IF o = rest THEN m
                                   ELSE IF o = next[m] /\ o # MEM THEN rest ELSE prev[o]]
      /\ lfree' = IF m = lfree THEN rest ELSE lfree
  BY DEF Take, ram_end
<1>5. next' \in [Offset -> Offset] /\ prev' \in [Offset -> Offset]
      /\ \A o \in Offset : next'[o] = IF o = m THEN rest ELSE IF o = rest THEN next[m] ELSE next[o]
  BY <1>1, <1>2, <1>3, <1>4, <1>F
<1>6. \A o \in Offset : prev'[o] = IF o = rest THEN m
                                   ELSE IF o = next[m] /\ o # MEM THEN rest ELSE prev[o]
  BY <1>4
<1> HIDE DEF rest
<1>7. Tiled(mems', next', prev') /\ rest \notin mems
  <2>1. Tiled(mems, next, prev)
    BY TiledIs
  <2>2. Tiled(mems \cup {rest}, next', prev') /\ rest \notin mems
    BY <2>1, <1>1, <1>5, <1>6, Divided
  <2> QED
    BY <2>2, <1>4
<1>8. AreasTile' /\ BackLinks' /\ Covered'
  BY <1>7 DEF Tiled, AreasTile, BackLinks, Covered, ram_end
<1>9. \A x : x \in mems' \ used' <=> x = rest \/ (x \in mems \ used /\ x # m)
  BY <1>3, <1>4, <1>7
<1>10. HeapTypeOK'
  <2>1. mems' \subseteq Offset \ {ram_end} /\ used' \subseteq mems'
    BY <1>1, <1>2, <1>3, <1>4, <1>F DEF ram_end
  <2>2. owned' \in [Offset -> Nat] /\ lfree' \in Offset
    BY <1>2, <1>3, <1>4
  <2> QED
    BY <2>1, <2>2, <1>5 DEF HeapTypeOK
<1>11. HolesAtFreed'
  <2>1. ASSUME NEW x \in mems', x \in mems' \ used', next'[x] \in mems' \ used' PROVE FALSE
    <3>1. CASE x = rest
      <4>1. next'[x] = next[m] /\ next[m] # rest
        BY <3>1, <1>1, <1>2, <1>5
      <4>2. next[m] \in mems \ used
        BY <2>1, <4>1, <1>9
      <4> QED
        BY <4>2, NoHoles DEF Vacant
    <3>2. CASE x # rest
      <4>1. x \in mems \ used /\ x # m
        BY <2>1, <3>2, <1>9
      <4>2. next'[x] = next[x] /\ next[x] # rest
        BY <3>2, <4>1, <1>5, <1>7, <1>1, <1>F
      <4>3. next[x] \in mems \ used
        BY <2>1, <4>2, <1>9
      <4> QED
        BY <4>1, <4>3, NoHoles DEF Vacant
    <3> QED
      BY <3>1, <3>2
  <2> QED
    BY <2>1 DEF HolesAtFreed, Vacant
<1>12. \A x \in mems \ used : lfree <= x
  BY DEF HeapInv, LfreeLowest, Vacant
<1>13. (\A x \in mems' \ used' : lfree' <= x) /\ (lfree' \in mems' \ used' \/ lfree' = MEM)
  <2>1. CASE m = lfree
    <3>1. ASSUME NEW x \in mems \ used, x # m PROVE rest <= x
      <4>1. m <= x /\ x \in Nat /\ m \in Nat /\ next[m] \in Nat
        BY <2>1, <1>12, <1>S
      <4>2. next[m] <= x
        BY <3>1, <4>1, <1>N
      <4> QED
        BY <4>1, <4>2, <1>1
    <3>2. lfree' = rest
      BY <2>1, <1>4
    <3> QED
      BY <3>1, <3>2, <1>1, <1>9
  <2>2. CASE m # lfree
    <3>1. lfree' = lfree /\ lfree <= m /\ lfree <= rest
      <4>1. lfree' = lfree /\ lfree <= m
        BY <2>2, <1>4, <1>12
      <4>2. lfree \in Nat /\ m \in Nat
        BY <1>3, <1>C, <1>S
      <4> QED
        BY <4>1, <4>2, <1>1
    <3>2. lfree \in mems \ used \/ lfree = MEM
      BY DEF HeapInv, LfreeVacant, Vacant, ram_end
    <3> QED
      BY <2>2, <3>1, <3>2, <1>9, <1>12
  <2> QED
    BY <2>1, <2>2
<1>16. LfreeLowest' /\ LfreeVacant'
  BY <1>13 DEF LfreeLowest, LfreeVacant, Vacant, ram_end
<1>14. GivenOnce'
  BY <1>2, <1>3, <1>4 DEF HeapInv, GivenOnce
<1>15. CallInv'
  BY DEF CallInv
<1> QED
  BY <1>8, <1>10, <1>11, <1>16, <1>14, <1>15 DEF HeapInv

\* Taking an area whole.
LEMMA TakeWhole ==
  ASSUME HeapInv, freed = <<>>, NEW m \in mems, m \notin used, NEW k,
         Take(m, k), ~Splits(m, k), found' = <<>>, freed' = freed
  PROVE  HeapInv'
<1>1. /\ mems' = mems /\ next' = next /\ prev' = prev /\ used' = used \cup {m}
      /\ owned' = [owned EXCEPT ![m] = @ + 1]
      /\ lfree' = IF m = lfree THEN Advance(m, used') ELSE lfree
  BY DEF Take
<1>2. AreasTile' /\ BackLinks' /\ Covered'
  BY <1>1 DEF HeapInv, AreasTile, BackLinks, Covered
<1>3. HolesAtFreed'
  BY <1>1, NoHoles DEF HolesAtFreed, Vacant
<1>4. MEM \in Nat /\ MEM \in Offset /\ \A x \in mems : x \in Nat /\ x \in Offset
  BY HeapFacts
<1>5. lfree' \in Offset /\ LfreeLowest' /\ LfreeVacant'
  <2>1. \A x \in mems : Vacant(x) => lfree <= x
    BY DEF HeapInv, LfreeLowest
  <2>2. CASE m = lfree
    <3>1. /\ lfree' \in {x \in mems : x >= m /\ x \notin used'} \cup {MEM}
          /\ \A j \in {x \in mems : x >= m /\ x \notin used'} \cup {MEM} : lfree' <= j
      BY <2>2, <1>1, AdvanceIs
    <3>2. \A x \in mems : x \notin used' => x >= m
      BY <2>1, <2>2, <1>1, <1>4 DEF Vacant
    <3> QED
      BY <3>1, <3>2, <1>1, <1>4 DEF LfreeLowest, LfreeVacant, Vacant, ram_end
  <2>3. CASE m # lfree
    BY <2>1, <2>3, <1>1 DEF HeapInv, HeapTypeOK, LfreeLowest, LfreeVacant, Vacant, ram_end
  <2> QED
    BY <2>2, <2>3
<1>6. HeapTypeOK' /\ GivenOnce'
  BY <1>1, <1>4, <1>5 DEF HeapInv, HeapTypeOK, GivenOnce
<1>7. CallInv'
  BY DEF CallInv
<1> QED
  BY <1>2, <1>3, <1>5, <1>6, <1>7 DEF HeapInv

\* The mark is cleared: the area is the one around which areas may now be free.
LEMMA FreeMarkStep ==
  ASSUME HeapInv, NEW m \in mems, FreeMark(m)
  PROVE  HeapInv'
<1>1. /\ mems' = mems /\ next' = next /\ prev' = prev /\ used' = used \ {m} /\ m \in used
      /\ owned' = [owned EXCEPT ![m] = @ - 1] /\ owned[m] > 0
      /\ lfree' = IF m < lfree THEN m ELSE lfree
      /\ found' = <<>> /\ freed = <<>> /\ freed' = <<m>>
  BY DEF FreeMark, Idle
<1>2. AreasTile' /\ BackLinks' /\ Covered'
  BY <1>1 DEF HeapInv, AreasTile, BackLinks, Covered
<1>3. HolesAtFreed'
  <2>1. ASSUME NEW x \in mems, x \notin used', next[x] \in mems, next[x] \notin used'
        PROVE  freed' \in {<<x>>, <<next[x]>>}
    <3>1. CASE x = m \/ next[x] = m
      BY <3>1, <1>1
    <3>2. CASE x # m /\ next[x] # m
      BY <2>1, <3>2, <1>1, NoHoles DEF Vacant
    <3> QED
      BY <3>1, <3>2
  <2> QED
    BY <2>1, <1>1 DEF HolesAtFreed, Vacant
<1>4. /\ \A x \in mems : x \in Nat /\ x \in Offset
      /\ lfree \in Nat /\ lfree \in Offset
  <2>1. lfree \in Offset /\ Offset = 0 .. MEM /\ MEM \in Nat
    BY HeapFacts DEF HeapInv, HeapTypeOK
  <2>2. \A x \in mems : x \in Nat /\ x \in Offset
    BY HeapFacts
  <2> QED
    BY <2>1, <2>2
<1>5. LfreeLowest' /\ LfreeVacant'
  <2>1. \A x \in mems \ used : lfree <= x
    BY DEF HeapInv, LfreeLowest, Vacant
  <2>2. lfree \in mems \ used \/ lfree = MEM
    BY DEF HeapInv, LfreeVacant, Vacant, ram_end
  <2>3. \A x \in mems \ used' : lfree' <= x
    BY <2>1, <1>1, <1>4
  <2>4. lfree' \in mems \ used' \/ lfree' = MEM
    BY <2>2, <1>1
  <2> QED
    BY <2>3, <2>4, <1>1 DEF LfreeLowest, LfreeVacant, Vacant, ram_end
<1>6. owned \in [Offset -> Nat] /\ \A o \in Offset : owned[o] = IF o \in used THEN 1 ELSE 0
  BY DEF HeapInv, HeapTypeOK, GivenOnce
<1>7. \A o \in Offset : owned'[o] = IF o \in used' THEN 1 ELSE 0
  BY <1>1, <1>4, <1>6
<1>8. owned' \in [Offset -> Nat]
  <2>1. owned[m] - 1 \in Nat
    BY <1>1, <1>4, <1>6
  <2> QED
    BY <2>1, <1>1, <1>6
<1>9. GivenOnce'
  BY <1>7 DEF GivenOnce
<1>10. HeapTypeOK'
  BY <1>1, <1>4, <1>8 DEF HeapInv, HeapTypeOK
<1>11. CallInv'
  BY <1>1 DEF CallInv
<1> QED
  BY <1>2, <1>3, <1>5, <1>9, <1>10, <1>11 DEF HeapInv

\* Where PlugHoles works: m is what main is freeing, and the fields are set
\* around the areas that go.
PlugSets(m, gone, first, after) ==
  /\ gone = {n \in {next[m]} : n \in mems \ used}
            \cup {n \in {m} : prev[m] # m /\ prev[m] \in mems \ used}
  /\ first = IF m \in gone THEN prev[m] ELSE m
  /\ after = IF next[m] \in gone THEN next[next[m]] ELSE next[m]
  /\ mems' = mems \ gone
  /\ next' = [o \in Offset |-> IF o \in gone THEN 0
                               ELSE IF o = first THEN after ELSE next[o]]
  /\ prev' = [o \in Offset |-> IF o \in gone THEN 0
                               ELSE IF o = after /\ o # ram_end THEN first ELSE prev[o]]
  /\ lfree' = IF lfree \in gone THEN first ELSE lfree

\* The areas that go leave a list of areas.
LEMMA PlugTiles ==
  ASSUME HeapInv, NEW m \in mems, NEW gone, NEW first, NEW after,
         PlugSets(m, gone, first, after)
  PROVE  /\ Tiled(mems', next', prev')
         /\ gone \subseteq mems /\ first \in mems \ gone /\ \A g \in gone : first < g
<1>T. Tiled(mems, next, prev)
  BY TiledIs
<1>S. \A x \in mems : /\ x \in Nat /\ x < MEM /\ x \in Offset /\ x # MEM
                      /\ next[x] \in Nat /\ next[x] <= MEM /\ next[x] \in Offset
                      /\ x < next[x] /\ x + HDR + MIN <= next[x]
  BY HeapFacts
<1>N. \A x \in mems : /\ next[x] \in mems \cup {MEM}
                      /\ next[x] # MEM => prev[next[x]] = x
  BY <1>T DEF Tiled
<1>P. prev[0] = 0 /\ \A x \in mems \ {0} : prev[x] \in mems /\ next[prev[x]] = x
  BY <1>T DEF Tiled
<1>G. next \in [Offset -> Offset] /\ prev \in [Offset -> Offset] /\ 0 \in Offset /\ 0 \in mems
  BY <1>T, HeapFacts DEF Tiled
<1> DEFINE b == next[m]  p == prev[m]
<1>1. b \in Offset /\ m \in Offset /\ m < b /\ m # b
  BY <1>S
<1>2. p # m => p \in mems /\ next[p] = m /\ p < m /\ p \in Offset
  BY <1>P, <1>S
<1>3. first \in Offset /\ after \in Offset
  BY <1>1, <1>2, <1>S, <1>N DEF PlugSets
<1>4. next' \in [Offset -> Offset] /\ prev' \in [Offset -> Offset]
  BY <1>3, <1>G DEF PlugSets
<1>5. CASE b \notin mems \ used /\ ~(p # m /\ p \in mems \ used)
  <2>1. gone = {} /\ first = m /\ after = b
    BY <1>5 DEF PlugSets
  <2>2. \A o \in Offset : next'[o] = next[o]
    BY <2>1, <1>1, SMTT(40) DEF PlugSets
  <2>3. \A o \in Offset : prev'[o] = prev[o]
    BY <2>1, <1>1, <1>N, SMTT(40) DEF PlugSets, ram_end
  <2>4. next' = next /\ prev' = prev /\ mems' = mems
    BY <2>1, <2>2, <2>3, <1>4, <1>G DEF PlugSets
  <2> QED
    BY <2>1, <2>4, <1>T
<1>6. CASE b \in mems \ used /\ ~(p # m /\ p \in mems \ used)
  <2>1. gone = {b} /\ first = m /\ after = next[b]
    BY <1>1, <1>6 DEF PlugSets
  <2>2. \A o \in Offset : next'[o] = IF o = b THEN 0 ELSE IF o = m THEN next[b] ELSE next[o]
    BY <2>1 DEF PlugSets
  <2>3. \A o \in Offset : prev'[o] = IF o = b THEN 0
                                     ELSE IF o = next[b] /\ o # MEM THEN m ELSE prev[o]
    BY <2>1 DEF PlugSets, ram_end
  <2>4. Tiled(mems \ {b}, next', prev')
    BY <2>2, <2>3, <1>4, <1>6, <1>T, Joined
  <2> QED
    BY <2>1, <2>4, <1>1, <1>6 DEF PlugSets
<1>7. CASE b \notin mems \ used /\ (p # m /\ p \in mems \ used)
  <2>1. gone = {m} /\ first = p /\ after = b /\ next[p] = m
    BY <1>1, <1>2, <1>7 DEF PlugSets
  <2>2. \A o \in Offset : next'[o] = IF o = next[p] THEN 0
                                     ELSE IF o = p THEN next[next[p]] ELSE next[o]
    BY <2>1 DEF PlugSets
  <2>3. \A o \in Offset : prev'[o] = IF o = next[p] THEN 0
                                     ELSE IF o = next[next[p]] /\ o # MEM THEN p ELSE prev[o]
    BY <2>1 DEF PlugSets, ram_end
  <2>4. Tiled(mems \ {next[p]}, next', prev')
    BY <2>1, <2>2, <2>3, <1>2, <1>4, <1>7, <1>T, Joined
  <2> QED
    BY <2>1, <2>4, <1>2, <1>7 DEF PlugSets
<1>8. CASE b \in mems \ used /\ (p # m /\ p \in mems \ used)
  <2> DEFINE c   == next[b]
             N1  == mems \ {b}
             nx1 == [o \in Offset |-> IF o = b THEN 0 ELSE IF o = m THEN c ELSE next[o]]
             pv1 == [o \in Offset |-> IF o = b THEN 0
                                      ELSE IF o = c /\ o # MEM THEN m ELSE prev[o]]
  <2>1. gone = {b, m} /\ first = p /\ after = c /\ next[p] = m /\ p < m /\ p # b /\ b # c
    BY <1>1, <1>2, <1>8, <1>S DEF PlugSets
  <2>2. nx1 \in [Offset -> Offset] /\ pv1 \in [Offset -> Offset]
    BY <1>1, <1>8, <1>S, <1>G
  <2>3. \A o \in Offset : nx1[o] = IF o = b THEN 0 ELSE IF o = m THEN c ELSE next[o]
    OBVIOUS
  <2>4. \A o \in Offset : pv1[o] = IF o = b THEN 0 ELSE IF o = c /\ o # MEM THEN m ELSE prev[o]
    OBVIOUS
  <2>5. p \in N1 /\ nx1[p] = m /\ m \in N1 /\ nx1[m] = c /\ p # m
    BY <2>1, <1>1, <1>2, <1>8
  <2>6. \A o \in Offset : next'[o] = IF o = m THEN 0 ELSE IF o = p THEN c ELSE nx1[o]
    BY <2>1, <1>1, SMTT(40) DEF PlugSets
  <2>7. \A o \in Offset : prev'[o] = IF o = m THEN 0
                                     ELSE IF o = c /\ o # MEM THEN p ELSE pv1[o]
    BY <2>1, <1>1 DEF PlugSets, ram_end
  <2> HIDE DEF N1, nx1, pv1
  <2>8. Tiled(N1, nx1, pv1)
    BY <2>2, <2>3, <2>4, <1>8, <1>T, Joined DEF N1
  <2>9. Tiled(N1 \ {m}, next', prev')
    <3>1. \A o \in Offset : next'[o] = IF o = nx1[p] THEN 0
                                       ELSE IF o = p THEN nx1[nx1[p]] ELSE nx1[o]
      BY <2>5, <2>6
    <3>2. \A o \in Offset : prev'[o] = IF o = nx1[p] THEN 0
                                       ELSE IF o = nx1[nx1[p]] /\ o # MEM THEN p ELSE pv1[o]
      BY <2>5, <2>7
    <3>3. Tiled(N1 \ {nx1[p]}, next', prev')
      BY <3>1, <3>2, <2>5, <2>8, <1>4, Joined
    <3> QED
      BY <3>3, <2>5
  <2>10. mems' = N1 \ {m}
    BY <2>1 DEF PlugSets, N1
  <2> QED
    BY <2>1, <2>9, <2>10, <1>1, <1>2, <1>8, <1>S
<1> QED
  BY <1>5, <1>6, <1>7, <1>8

\* The free areas around the one freed are joined with it: no neighbours are
\* free any more.
LEMMA PlugHolesStep ==
  ASSUME HeapInv, PlugHoles
  PROVE  HeapInv'
<1>1. PICK m \in mems \ used : freed = <<m>> /\ found = <<>>
  BY DEF PlugHoles, HeapInv, CallInv
<1> DEFINE gone  == {n \in {next[m]} : n \in mems \ used}
                    \cup {n \in {m} : prev[m] # m /\ prev[m] \in mems \ used}
           first == IF m \in gone THEN prev[m] ELSE m
           after == IF next[m] \in gone THEN next[next[m]] ELSE next[m]
<1>2. freed[1] = m
  BY <1>1
<1>3. PlugSets(m, gone, first, after)
  BY <1>2 DEF PlugHoles, PlugSets, Vacant
<1>4. used' = used /\ owned' = owned /\ found' = found /\ freed' = <<>>
  BY DEF PlugHoles
<1>5. gone \subseteq mems \ used /\ first \in mems \ used
  <2>1. next[m] # m
    BY <1>1, HeapFacts
  <2>2. m \in gone => prev[m] \in mems \ used
    BY <2>1
  <2> QED
    BY <1>1, <2>2
<1>S. \A x \in mems : /\ x \in Nat /\ x < MEM /\ x \in Offset /\ x # MEM
                      /\ next[x] \in Nat /\ next[x] <= MEM /\ next[x] \in Offset
                      /\ x < next[x] /\ x + HDR + MIN <= next[x]
  BY HeapFacts
<1>N. \A x \in mems : next[x] # MEM => prev[next[x]] = x
  <2>1. Tiled(mems, next, prev)
    BY TiledIs
  <2> QED
    BY <2>1 DEF Tiled
<1>H. ASSUME NEW x \in mems \ used, next[x] \in mems \ used PROVE x = m \/ next[x] = m
  <2>1. freed = <<x>> \/ freed = <<next[x]>>
    BY <1>H DEF HeapInv, HolesAtFreed, Vacant
  <2> QED
    BY <2>1, <1>1
<1>6. after \notin mems \ used
  <2>1. CASE next[m] \in mems \ used
    <3>1. after = next[next[m]] /\ m < next[m] /\ next[m] < next[next[m]]
      BY <2>1, <1>1, <1>S
    <3>2. m \in Nat /\ next[m] \in Nat /\ next[next[m]] \in Nat
      BY <2>1, <1>1, <1>S
    <3>3. next[m] # m /\ next[next[m]] # m
      BY <3>1, <3>2
    <3> QED
      BY <2>1, <3>1, <3>3, <1>H
  <2>2. CASE next[m] \notin mems \ used
    <3>1. next[m] # m
      BY <1>1, <1>S
    <3>2. after = next[m]
      BY <2>2, <3>1
    <3> QED
      BY <2>2, <3>2
  <2> QED
    BY <2>1, <2>2
<1>7. ASSUME NEW x \in mems \ used, x \notin gone, x # first, next[x] \in mems \ used
      PROVE  next[x] \in gone
  <2>1. CASE x = m
    BY <1>7, <2>1
  <2>2. CASE x # m
    <3>1. next[x] = m
      BY <1>7, <2>2, <1>H
    <3>2. prev[m] = x
      BY <3>1, <1>1, <1>N, <1>S
    <3> QED
      BY <1>7, <2>2, <3>1, <3>2
  <2> QED
    BY <2>1, <2>2
<1> HIDE DEF gone, first, after
<1>8. /\ mems' = mems \ gone /\ lfree' = IF lfree \in gone THEN first ELSE lfree
      /\ \A x \in mems \ gone : next'[x] = IF x = first THEN after ELSE next[x]
  BY <1>3, <1>S DEF PlugSets
<1>9. /\ Tiled(mems', next', prev')
      /\ gone \subseteq mems /\ first \in mems \ gone /\ \A g \in gone : first < g
  BY <1>1, <1>3, PlugTiles
<1>10. AreasTile' /\ BackLinks' /\ Covered'
  BY <1>9 DEF Tiled, AreasTile, BackLinks, Covered, ram_end
<1>11. \A x : x \in mems' \ used' <=> x \in mems \ used /\ x \notin gone
  BY <1>4, <1>8
<1>12. HolesAtFreed'
  <2>1. ASSUME NEW x \in mems', x \in mems' \ used', next'[x] \in mems' \ used' PROVE FALSE
    <3>1. x \in mems \ used /\ x \notin gone /\ next'[x] \in mems \ used /\ next'[x] \notin gone
      BY <2>1, <1>11
    <3> QED
      BY <3>1, <1>6, <1>7, <1>8
  <2> QED
    BY <2>1 DEF HolesAtFreed, Vacant
<1>13. \A x \in mems \ used : lfree <= x
  BY DEF HeapInv, LfreeLowest, Vacant
<1>14. lfree \in mems \ used \/ lfree = MEM
  BY DEF HeapInv, LfreeVacant, Vacant, ram_end
<1>15. lfree \in Nat /\ lfree \in Offset
  <2>1. lfree \in Offset /\ Offset = 0 .. MEM /\ MEM \in Nat
    BY HeapFacts DEF HeapInv, HeapTypeOK
  <2> QED
    BY <2>1
<1>16. lfree \notin gone
  <2>1. lfree <= first /\ first \in Nat
    BY <1>5, <1>13, <1>S
  <2> QED
    BY <2>1, <1>9, <1>15, <1>S
<1>17. LfreeLowest' /\ LfreeVacant'
  <2>1. \A x \in mems' \ used' : lfree' <= x
    BY <1>8, <1>11, <1>13, <1>16
  <2>2. lfree' \in mems' \ used' \/ lfree' = MEM
    BY <1>8, <1>11, <1>14, <1>16
  <2> QED
    BY <2>1, <2>2 DEF LfreeLowest, LfreeVacant, Vacant, ram_end
<1>18. HeapTypeOK'
  <2>1. mems \subseteq Offset \ {MEM} /\ used \subseteq mems /\ owned \in [Offset -> Nat]
    BY DEF HeapInv, HeapTypeOK, ram_end
  <2>2. next' \in [Offset -> Offset] /\ prev' \in [Offset -> Offset]
    BY <1>9 DEF Tiled
  <2>3. used' \subseteq mems' /\ mems' \subseteq Offset \ {MEM} /\ lfree' \in Offset
    BY <2>1, <1>4, <1>5, <1>8, <1>15, <1>16
  <2> QED
    BY <2>1, <2>2, <2>3, <1>4 DEF HeapTypeOK, ram_end
<1>19. GivenOnce'
  BY <1>4 DEF HeapInv, GivenOnce
<1>20. CallInv'
  BY <1>1, <1>4 DEF CallInv
<1> QED
  BY <1>10, <1>12, <1>17, <1>18, <1>19, <1>20 DEF HeapInv

\* Where Trim works: rest is what becomes of the end of m.
TrimSets(m, rest, join, gone, after) ==
  /\ gone = IF join THEN {next[m]} \ {rest} ELSE {}
  /\ after = IF join THEN next[next[m]] ELSE next[m]
  /\ mems' = (mems \ gone) \cup {rest}
  /\ next' = [o \in Offset |-> IF o = m THEN rest ELSE IF o = rest THEN after
                               ELSE IF o \in gone THEN 0 ELSE next[o]]
  /\ prev' = [o \in Offset |-> IF o = rest THEN m
                               ELSE IF o = after /\ o # ram_end THEN rest
                               ELSE IF o \in gone THEN 0 ELSE prev[o]]

\* What is cut off leaves a list of areas.
LEMMA TrimTiles ==
  ASSUME HeapInv, NEW m \in mems, NEW rest \in Nat, NEW join \in BOOLEAN, NEW gone, NEW after,
         TrimSets(m, rest, join, gone, after),
         m + HDR + MIN <= rest, rest < next[m],
         join => next[m] \in mems, ~join => rest + HDR + MIN <= next[m]
  PROVE  Tiled(mems', next', prev') /\ rest \notin mems /\ rest \in 0 .. MEM - 1
<1>T. Tiled(mems, next, prev)
  BY TiledIs
<1>S. \A x \in mems : /\ x \in Nat /\ x < MEM /\ x \in Offset /\ x # MEM
                      /\ next[x] \in Nat /\ next[x] <= MEM /\ next[x] \in Offset
                      /\ x < next[x] /\ x + HDR + MIN <= next[x]
  BY HeapFacts
<1>C. MEM \in Nat \ {0} /\ HDR \in Nat \ {0} /\ MIN \in Nat \ {0} /\ Offset = 0 .. MEM
  BY HeapFacts
<1>G. next \in [Offset -> Offset] /\ prev \in [Offset -> Offset] /\ 0 \in Offset
  <2>1. 0 \in Offset
    BY <1>C
  <2> QED
    BY <2>1, <1>T DEF Tiled
<1> DEFINE b == next[m]
<1>1. m \in Offset /\ b \in Offset /\ b \in Nat /\ m # b /\ rest # b /\ rest # m /\ rest \in Offset
  <2>1. m \in Nat /\ b \in Nat /\ b <= MEM /\ m \in Offset /\ b \in Offset /\ m < b
    BY <1>S
  <2>2. rest # b /\ rest # m /\ rest < MEM
    BY <2>1, <1>C
  <2> QED
    BY <2>1, <2>2, <1>C
<1>2. after \in Offset
  BY <1>1, <1>S DEF TrimSets
<1>3. next' \in [Offset -> Offset] /\ prev' \in [Offset -> Offset]
  BY <1>1, <1>2, <1>G DEF TrimSets
<1>4. CASE ~join
  <2>1. gone = {} /\ after = b
    BY <1>4 DEF TrimSets
  <2>2. \A o \in Offset : next'[o] = IF o = m THEN rest ELSE IF o = rest THEN next[m] ELSE next[o]
    BY <2>1 DEF TrimSets
  <2>3. \A o \in Offset : prev'[o] = IF o = rest THEN m
                                     ELSE IF o = next[m] /\ o # MEM THEN rest ELSE prev[o]
    BY <2>1 DEF TrimSets, ram_end
  <2>4. Tiled(mems \cup {rest}, next', prev') /\ rest \notin mems /\ rest \in 0 .. MEM - 1
    BY <2>2, <2>3, <1>3, <1>4, <1>T, Divided
  <2> QED
    BY <2>1, <2>4 DEF TrimSets
<1>5. CASE join
  <2> DEFINE c   == next[b]
             N1  == mems \ {b}
             nx1 == [o \in Offset |-> IF o = b THEN 0 ELSE IF o = m THEN c ELSE next[o]]
             pv1 == [o \in Offset |-> IF o = b THEN 0
                                      ELSE IF o = c /\ o # MEM THEN m ELSE prev[o]]
  <2>1. gone = {b} /\ after = c
    BY <1>1, <1>5 DEF TrimSets
  <2>2. b # c /\ c \in Offset /\ rest + HDR + MIN <= c
    <3>1. b < c /\ c \in Nat /\ c \in Offset /\ b + HDR + MIN <= c
      BY <1>5, <1>S
    <3> QED
      BY <3>1, <1>1, <1>C
  <2>3. nx1 \in [Offset -> Offset] /\ pv1 \in [Offset -> Offset]
    BY <1>1, <2>2, <1>G
  <2>4. \A o \in Offset : nx1[o] = IF o = b THEN 0 ELSE IF o = m THEN c ELSE next[o]
    OBVIOUS
  <2>5. \A o \in Offset : pv1[o] = IF o = b THEN 0 ELSE IF o = c /\ o # MEM THEN m ELSE prev[o]
    OBVIOUS
  <2>6. m \in N1 /\ nx1[m] = c
    BY <1>1
  <2>7. \A o \in Offset : next'[o] = IF o = m THEN rest ELSE IF o = rest THEN c ELSE nx1[o]
    BY <2>1, <1>1 DEF TrimSets
  <2>8. \A o \in Offset : prev'[o] = IF o = rest THEN m
                                     ELSE IF o = c /\ o # MEM THEN rest ELSE pv1[o]
    BY <2>1, <2>2, <1>1 DEF TrimSets, ram_end
  <2>9. mems' = N1 \cup {rest}
    BY <2>1 DEF TrimSets
  <2> HIDE DEF nx1, pv1
  <2>10. Tiled(N1, nx1, pv1)
    BY <2>3, <2>4, <2>5, <1>5, <1>T, Joined
  <2> HIDE DEF N1
  <2>11. Tiled(N1 \cup {rest}, next', prev') /\ rest \notin N1 /\ rest \in 0 .. MEM - 1
    <3>1. \A o \in Offset : next'[o] = IF o = m THEN rest ELSE IF o = rest THEN nx1[m] ELSE nx1[o]
      BY <2>6, <2>7
    <3>2. \A o \in Offset : prev'[o] = IF o = rest THEN m
                                       ELSE IF o = nx1[m] /\ o # MEM THEN rest ELSE pv1[o]
      BY <2>6, <2>8
    <3>3. rest + HDR + MIN <= nx1[m]
      BY <2>2, <2>6
    <3> QED
      BY <3>1, <3>2, <3>3, <2>6, <2>10, <1>3, Divided
  <2> QED
    BY <2>9, <2>11, <1>1 DEF N1
<1> QED
  BY <1>4, <1>5

LEMMA TrimStep ==
  ASSUME HeapInv, NEW m \in mems, NEW n \in Wanted, Trim(m, n)
  PROVE  HeapInv'
<1> DEFINE size  == AtLeastMin(n)
           rest  == m + HDR + size
           join  == next[m] \in mems \ used
           gone  == IF join THEN {next[m]} \ {rest} ELSE {}
           after == IF join THEN next[next[m]] ELSE next[m]
<1>1. /\ found = <<>> /\ freed = <<>> /\ m \in used /\ size < DataSize(m)
      /\ join \/ size + HDR + MIN <= DataSize(m)
      /\ lfree' = IF lfree = next[m] \/ rest < lfree THEN rest ELSE lfree
      /\ used' = used /\ owned' = owned /\ found' = found /\ freed' = freed
  BY DEF Trim, TrimLfree, Idle, Vacant
<1>2. TrimSets(m, rest, join, gone, after)
  BY DEF Trim, TrimSets, Vacant
<1>S. \A x \in mems : /\ x \in Nat /\ x < MEM /\ x \in Offset /\ x # MEM
                      /\ next[x] \in Nat /\ next[x] <= MEM /\ next[x] \in Offset
                      /\ x < next[x] /\ x + HDR + MIN <= next[x]
  BY HeapFacts
<1>N. \A x \in mems : next[x] \in mems \cup {MEM}
  <2>1. Tiled(mems, next, prev)
    BY TiledIs
  <2> QED
    BY <2>1 DEF Tiled
<1>C. MEM \in Nat \ {0} /\ HDR \in Nat \ {0} /\ MIN \in Nat \ {0} /\ Offset = 0 .. MEM
  BY HeapFacts
<1>3. /\ rest \in Nat /\ m + HDR + MIN <= rest /\ rest < next[m]
      /\ ~join => rest + HDR + MIN <= next[m]
  <2>1. m \in Nat /\ next[m] \in Nat /\ size \in Nat /\ MIN <= size
    BY <1>S, AtLeast
  <2> HIDE DEF size
  <2>2. rest < next[m]
    BY <2>1, <1>1, <1>C DEF DataSize
  <2>3. ~join => rest + HDR + MIN <= next[m]
    BY <2>1, <1>1, <1>C DEF DataSize
  <2> QED
    BY <2>1, <2>2, <2>3, <1>C
<1> HIDE DEF rest, size
<1>4. after # rest /\ after \notin mems \ used /\ rest # next[m] /\ next[m] \in Nat
  <2>1. next[m] \in Nat /\ rest # next[m]
    BY <1>3, <1>S
  <2>2. CASE join
    <3>1. after = next[next[m]] /\ next[m] < next[next[m]] /\ next[next[m]] \in Nat
      BY <2>2, <1>S
    <3>2. ~Vacant(next[next[m]])
      BY <2>2, <1>1, NoHoles DEF Vacant
    <3> QED
      BY <3>1, <3>2, <2>1, <1>3 DEF Vacant
  <2>3. CASE ~join
    BY <2>1, <2>3
  <2> QED
    BY <2>1, <2>2, <2>3
<1>5. gone \subseteq mems \ used /\ \A x \in mems \ used : x \in gone <=> x = next[m]
  BY <1>4
<1>6. Tiled(mems', next', prev') /\ rest \notin mems /\ rest \in 0 .. MEM - 1
  <2>1. join \in BOOLEAN
    OBVIOUS
  <2> HIDE DEF gone, after
  <2>2. join => next[m] \in mems
    OBVIOUS
  <2> HIDE DEF join
  <2> QED
    BY <2>1, <2>2, <1>2, <1>3, TrimTiles
<1> HIDE DEF gone, after, join
<1>7. AreasTile' /\ BackLinks' /\ Covered'
  BY <1>6 DEF Tiled, AreasTile, BackLinks, Covered, ram_end
<1>8. mems' = (mems \ gone) \cup {rest} /\ used \subseteq mems
  BY <1>2 DEF TrimSets, HeapInv, HeapTypeOK
<1>9. \A x : x \in mems' \ used' <=> x = rest \/ (x \in mems \ used /\ x # next[m])
  BY <1>1, <1>5, <1>6, <1>8
<1>10. /\ next'[rest] = after
       /\ \A x \in mems \ used : x # next[m] => next'[x] = next[x]
  <2>1. rest \in Offset /\ rest # m
    BY <1>1, <1>6, <1>8, <1>C
  <2>2. next'[rest] = after
    BY <2>1, <1>2 DEF TrimSets
  <2>3. ASSUME NEW x \in mems \ used, x # next[m] PROVE next'[x] = next[x]
    <3>1. x \in Offset /\ x # m /\ x # rest /\ x \notin gone
      BY <2>3, <1>1, <1>5, <1>6, <1>S
    <3> QED
      BY <3>1, <1>2 DEF TrimSets
  <2> QED
    BY <2>2, <2>3
<1>11. HolesAtFreed'
  <2>1. ASSUME NEW x \in mems', x \in mems' \ used', next'[x] \in mems' \ used' PROVE FALSE
    <3>1. CASE x = rest
      BY <2>1, <3>1, <1>4, <1>9, <1>10
    <3>2. CASE x # rest
      <4>1. x \in mems \ used /\ x # next[m] /\ next'[x] = next[x]
        BY <2>1, <3>2, <1>9, <1>10
      <4>2. next[x] # rest
        BY <4>1, <1>6, <1>N, <1>C
      <4>3. next[x] \in mems \ used
        BY <2>1, <4>1, <4>2, <1>9
      <4> QED
        BY <4>1, <4>3, <1>1, NoHoles DEF Vacant
    <3> QED
      BY <3>1, <3>2
  <2> QED
    BY <2>1 DEF HolesAtFreed, Vacant
<1>12. lfree \in Nat /\ lfree \in Offset
  <2>1. lfree \in Offset
    BY DEF HeapInv, HeapTypeOK
  <2> QED
    BY <2>1, <1>C
<1>13. LfreeLowest' /\ LfreeVacant'
  <2>1. \A x \in mems \ used : lfree <= x
    BY DEF HeapInv, LfreeLowest, Vacant
  <2>2. lfree \in mems \ used \/ lfree = MEM
    BY DEF HeapInv, LfreeVacant, Vacant, ram_end
  <2>3. lfree' \in Nat /\ lfree' <= lfree /\ lfree' <= rest
    BY <1>1, <1>3, <1>4, <1>12
  <2>4. \A x \in mems' \ used' : lfree' <= x
    BY <2>1, <2>3, <1>9, <1>12, <1>S
  <2>5. lfree' \in mems' \ used' \/ lfree' = MEM
    BY <2>2, <1>1, <1>9
  <2> QED
    BY <2>4, <2>5 DEF LfreeLowest, LfreeVacant, Vacant, ram_end
<1>14. HeapTypeOK'
  <2>1. mems \subseteq Offset \ {MEM} /\ owned \in [Offset -> Nat]
    BY DEF HeapInv, HeapTypeOK, ram_end
  <2>2. next' \in [Offset -> Offset] /\ prev' \in [Offset -> Offset] /\ mems' \subseteq 0 .. MEM - 1
    BY <1>6 DEF Tiled
  <2>3. mems' \subseteq Offset \ {MEM} /\ lfree' \in Offset
    BY <2>2, <1>1, <1>6, <1>12, <1>C
  <2>4. used' \subseteq mems'
    BY <1>1, <1>5, <1>8
  <2> QED
    BY <2>1, <2>2, <2>3, <2>4, <1>1 DEF HeapTypeOK, ram_end
<1>15. GivenOnce' /\ CallInv'
  BY <1>1 DEF HeapInv, GivenOnce, CallInv
<1> QED
  BY <1>7, <1>11, <1>13, <1>14, <1>15 DEF HeapInv

\* Main's scan ends at a free area that is long enough.
LEMMA MallocFindStep ==
  ASSUME HeapInv, NEW n \in Wanted, MallocFind(n)
  PROVE  HeapInv'
<1>1. PICK m \in mems : FirstFit(AtLeastMin(n), m) /\ found' = <<m, AtLeastMin(n)>>
  BY DEF MallocFind
<1>2. /\ mems' = mems /\ next' = next /\ prev' = prev /\ used' = used /\ lfree' = lfree
      /\ owned' = owned /\ freed' = freed /\ freed = <<>>
  BY DEF MallocFind, Idle
<1>3. m \in mems \ used /\ AtLeastMin(n) <= DataSize(m)
  <2>1. m \in Nat /\ next[m] \in Nat /\ HDR \in Nat /\ AtLeastMin(n) \in Nat
    BY HeapFacts, AtLeast
  <2>2. m \notin used /\ DataSize(m) >= AtLeastMin(n)
    BY <1>1 DEF FirstFit, Fit
  <2> QED
    BY <2>1, <2>2 DEF DataSize
<1>4. CallInv'
  BY <1>1, <1>2, <1>3 DEF CallInv, DataSize
<1>5. (AreasTile /\ BackLinks /\ Covered /\ HeapTypeOK)'
  BY <1>2 DEF HeapInv, AreasTile, BackLinks, Covered, HeapTypeOK
<1>6. (HolesAtFreed /\ LfreeLowest /\ LfreeVacant /\ GivenOnce)'
  <2>1. LfreeLowest'
    BY <1>2 DEF HeapInv, LfreeLowest, LfreeVacant, Vacant
  <2> QED
    BY <2>1, <1>2 DEF HeapInv, HolesAtFreed, LfreeVacant, GivenOnce, Vacant
<1> QED
  BY <1>4, <1>5, <1>6 DEF HeapInv

\* What main found is taken: nobody has been there meanwhile.
LEMMA MallocTakeStep ==
  ASSUME HeapInv, MallocTake
  PROVE  HeapInv'
<1>1. freed = <<>> /\ Take(found[1], found[2]) /\ found' = <<>> /\ freed' = freed /\ found # <<>>
  BY FoundIs DEF MallocTake
<1>2. PICK m \in mems, n \in Wanted : m \notin used /\ found = <<m, AtLeastMin(n)>>
  BY <1>1, FoundIs
<1>3. Take(m, AtLeastMin(n)) /\ AtLeastMin(n) \in Nat /\ MIN <= AtLeastMin(n)
  BY <1>1, <1>2, AtLeast
<1>4. CASE Splits(m, AtLeastMin(n))
  BY <1>1, <1>2, <1>3, <1>4, TakeSplit
<1>5. CASE ~Splits(m, AtLeastMin(n))
  BY <1>1, <1>2, <1>3, <1>5, TakeWhole
<1> QED
  BY <1>4, <1>5

LEMMA HeapStep ==
  ASSUME HeapInv, ~NestedMalloc, [HeapNext]_heapVars
  PROVE  HeapInv'
<1>1. ASSUME NEW n \in Wanted, MallocFind(n) PROVE HeapInv'
  BY <1>1, MallocFindStep
<1>2. ASSUME UNCHANGED heapVars PROVE HeapInv'
  <2>1. (AreasTile /\ BackLinks /\ Covered /\ HeapTypeOK)'
    BY <1>2 DEF heapVars, HeapInv, AreasTile, BackLinks, Covered, HeapTypeOK
  <2>2. (HolesAtFreed /\ LfreeLowest /\ LfreeVacant /\ GivenOnce /\ CallInv)'
    BY <1>2 DEF heapVars, HeapInv, HolesAtFreed, LfreeLowest, LfreeVacant, GivenOnce, CallInv,
                Vacant, Idle, DataSize
  <2> QED
    BY <2>1, <2>2 DEF HeapInv
<1>3. ASSUME NEW n \in Wanted, MallocFails(n) PROVE HeapInv'
  BY <1>2, <1>3 DEF MallocFails
<1>4. ASSUME NEW n \in Wanted, MallocNested(n) PROVE HeapInv'
  BY <1>4 DEF MallocNested
<1>5. ASSUME MallocTake PROVE HeapInv'
  BY <1>5, MallocTakeStep
<1>6. ASSUME PlugHoles PROVE HeapInv'
  BY <1>6, PlugHolesStep
<1>7. ASSUME NEW m \in mems, FreeMark(m) PROVE HeapInv'
  BY <1>7, FreeMarkStep
<1>8. ASSUME NEW m \in mems, NEW n \in Wanted, Trim(m, n) PROVE HeapInv'
  BY <1>8, TrimStep
<1> QED
  BY <1>1, <1>2, <1>3, <1>4, <1>5, <1>6, <1>7, <1>8 DEF HeapNext

-----------------------------------------------------------------------------
(* The properties.                                                         *)

LEMMA NoHolesIdle == HeapInv => HolesPlugged
BY NoHoles DEF HolesPlugged, Idle

\* A gap long enough begins in a free area that is.
LEMMA NothingOverlooked == HeapInv => NullMeansFull
<1> SUFFICES ASSUME HeapInv, NEW n \in Wanted, Idle, NEW f \in 0 .. MEM,
                    f + HDR + AtLeastMin(n) <= MEM,
                    Abstract!FitsGap(f, f + HDR + AtLeastMin(n))
             PROVE  Fit(AtLeastMin(n)) # {}
  BY DEF NullMeansFull, Abstract!NoRoom
<1> DEFINE k == AtLeastMin(n)  t == f + HDR + k
<1>S. \A x \in mems : /\ x \in Nat /\ x < MEM /\ x \in Offset /\ x # MEM
                      /\ next[x] \in Nat /\ next[x] <= MEM /\ next[x] \in Offset
                      /\ x < next[x] /\ x + HDR + MIN <= next[x]
  BY HeapFacts
<1>C. MEM \in Nat \ {0} /\ HDR \in Nat \ {0} /\ MIN \in Nat \ {0}
  BY HeapConstants
<1>K. k \in Nat
  BY AtLeast
<1>0. freed = <<>>
  BY DEF Idle
<1> HIDE DEF k
<1>1. f \in Nat /\ t \in Nat /\ f < t /\ t <= MEM /\ f \in 0 .. MEM - 1
  BY <1>C, <1>K DEF k
<1>2. \A u \in used : next[u] <= f \/ t <= u
  <2> TAKE u \in used
  <2>1. <<u, next[u]>> \in AreasHeld
    BY DEF AreasHeld
  <2>2. Abstract!Disjoint(<<u, next[u]>>, <<f, t>>)
    BY <2>1 DEF Abstract!FitsGap, k
  <2> QED
    BY <2>2 DEF Abstract!Disjoint
<1>3. PICK m \in mems : m <= f /\ f < next[m]
  BY <1>1 DEF HeapInv, Covered
<1>4. m \in Nat /\ next[m] \in Nat /\ m < MEM
  BY <1>S
<1>5. m \notin used
  <2>1. ~(next[m] <= f) /\ ~(t <= m)
    BY <1>1, <1>3, <1>4
  <2> QED
    BY <1>2, <2>1
<1>6. t <= next[m]
  <2>1. next[m] \in mems \cup {MEM}
    BY HeapFacts, Zenon
  <2>2. CASE next[m] = MEM
    BY <1>1, <2>2
  <2>3. CASE next[m] \in mems
    <3>1. next[m] \in used
      BY <2>3, <1>0, <1>5, NoHoles DEF Vacant
    <3>2. next[m] < next[next[m]] /\ next[next[m]] \in Nat
      BY <2>3, <1>S
    <3>3. ~(next[next[m]] <= f)
      BY <3>2, <1>1, <1>3, <1>4
    <3> QED
      BY <3>1, <3>3, <1>2
  <2> QED
    BY <2>1, <2>2, <2>3
<1>7. DataSize(m) >= k /\ m < MEM - k
  BY <1>1, <1>3, <1>4, <1>6, <1>C, <1>K DEF DataSize
<1>8. lfree <= m
  BY <1>5 DEF HeapInv, LfreeLowest, Vacant
<1>9. m \in Fit(k)
  BY <1>5, <1>7, <1>8 DEF Fit, Scanned
<1> QED
  BY <1>9 DEF k

\* Every state of the heap is sound, as long as no handler allocates while the
\* main loop is in mem_malloc or mem_free: mem_malloc, mem_trim, mem_free and
\* plug_holes keep the list of areas whole, its marks true and lfree lowest,
\* give no area twice and refuse nothing there is room for.
THEOREM HeapIsSound == ~NestedMalloc => (HeapSpec => []HeapSound)
<1>1. HeapInit => HeapInv
  BY HeapInitial
<1>2. ~NestedMalloc /\ HeapInv /\ [HeapNext]_heapVars => HeapInv'
  BY HeapStep
<1>3. HeapInv => HeapSound
  BY NoHolesIdle, NothingOverlooked DEF HeapSound
<1>4. ASSUME ~NestedMalloc PROVE HeapSpec => []HeapSound
  <2>1. HeapInv /\ [HeapNext]_heapVars => HeapInv'
    BY <1>2, <1>4
  <2> QED
    BY <1>1, <1>3, <2>1, PTL DEF HeapSpec
<1> QED
  BY <1>4

-----------------------------------------------------------------------------
(* The abstract heap.                                                      *)

\* The areas held when one more is in use, one less, or one is cut short.
LEMMA HeldWith ==
  ASSUME NEW m, m \notin used, used' = used \cup {m}, \A x \in used : next'[x] = next[x]
  PROVE  AreasHeld' = AreasHeld \cup {<<m, next'[m]>>}
BY DEF AreasHeld

LEMMA HeldWithout ==
  ASSUME NEW m \in used, used' = used \ {m}, next' = next
  PROVE  AreasHeld' = AreasHeld \ {<<m, next[m]>>}
BY DEF AreasHeld

LEMMA HeldShorter ==
  ASSUME NEW m \in used, used' = used, \A x \in used : x # m => next'[x] = next[x]
  PROVE  AreasHeld' = (AreasHeld \ {<<m, next[m]>>}) \cup {<<m, next'[m]>>}
BY DEF AreasHeld

LEMMA HeldSame ==
  ASSUME used' = used, \A x \in used : next'[x] = next[x]
  PROVE  AreasHeld' = AreasHeld
BY DEF AreasHeld

\* What is taken fits between the areas held.
LEMMA TakeIsAlloc ==
  ASSUME HeapInv, MallocTake
  PROVE  \E n \in Wanted : Abstract!Alloc(n)
<1>1. Take(found[1], found[2]) /\ found # <<>>
  BY DEF MallocTake
<1>2. PICK m \in mems, n \in Wanted :
        m \notin used /\ found = <<m, AtLeastMin(n)>> /\ m + HDR + AtLeastMin(n) <= next[m]
  BY <1>1, FoundIs
<1> DEFINE k == AtLeastMin(n)  rest == m + HDR + k  t == next'[m]
<1>3. Take(m, k)
  BY <1>1, <1>2
<1>S. \A x \in mems : /\ x \in Nat /\ x < MEM /\ x \in Offset /\ x # MEM
                      /\ next[x] \in Nat /\ next[x] <= MEM /\ next[x] \in Offset
                      /\ x < next[x] /\ x + HDR + MIN <= next[x]
  BY HeapFacts
<1>N. \A x \in mems : \A j \in mems : j <= x \/ next[x] <= j
  <2>1. Tiled(mems, next, prev)
    BY TiledIs
  <2> QED
    BY <2>1 DEF Tiled
<1>C. MEM \in Nat \ {0} /\ HDR \in Nat \ {0} /\ MIN \in Nat \ {0} /\ n \in Nat
  BY HeapConstants
<1>K. k \in Nat /\ n <= k
  BY AtLeast
<1>T. next \in [Offset -> Offset] /\ used \subseteq mems
  BY DEF HeapInv, HeapTypeOK
<1> HIDE DEF k
<1>4. used' = used \cup {m}
  BY <1>3 DEF Take
<1>5. /\ t \in Nat /\ rest <= t /\ t <= next[m]
      /\ \A x \in used : next'[x] = next[x]
  <2>1. CASE ~Splits(m, k)
    <3>1. next' = next
      BY <2>1, <1>3 DEF Take
    <3> QED
      BY <3>1, <1>2, <1>S DEF k
  <2>2. CASE Splits(m, k)
    <3>1. next' = [next EXCEPT ![rest] = next[m], ![m] = rest]
      BY <2>2, <1>3 DEF Take
    <3>2. m \in Nat /\ next[m] \in Nat /\ next[m] - (m + HDR) >= k + HDR + MIN
      BY <2>2, <1>S DEF Splits, DataSize
    <3>3. m < rest /\ rest < next[m] /\ rest \in Nat
      BY <3>2, <1>C, <1>K
    <3>4. next'[m] = rest
      BY <3>1, <1>S, <1>T
    <3>5. ASSUME NEW x \in used PROVE next'[x] = next[x]
      <4>1. x \in mems /\ x \in Nat /\ x \in Offset /\ x # m
        BY <1>2, <1>S, <1>T
      <4>2. x <= m \/ next[m] <= x
        BY <4>1, <1>N
      <4>3. x # rest
        BY <3>2, <3>3, <4>1, <4>2
      <4> QED
        BY <3>1, <4>1, <4>3, <1>T
    <3>6. t \in Nat /\ rest <= t /\ t <= next[m]
      BY <3>2, <3>3, <3>4
    <3> QED
      BY <3>5, <3>6
  <2> QED
    BY <2>1, <2>2
<1>6. AreasHeld' = AreasHeld \cup {<<m, t>>}
  BY <1>2, <1>4, <1>5, HeldWith
<1>7. m \in Nat /\ next[m] \in Nat /\ next[m] <= MEM
  BY <1>S
<1> HIDE DEF t
<1>8. m \in 0 .. MEM /\ t \in m + HDR + n .. MEM /\ m + HDR <= t
  BY <1>5, <1>7, <1>C, <1>K
<1>9. Abstract!FitsGap(m, t)
  <2>1. ASSUME NEW u \in used PROVE next[u] <= m \/ t <= u
    <3>1. u \in mems /\ u \in Nat /\ next[u] \in Nat /\ u # m
      BY <1>2, <1>S, <1>T
    <3>2. m <= u \/ next[u] <= m
      BY <3>1, <1>N
    <3>3. u <= m \/ next[m] <= u
      BY <3>1, <1>N
    <3> QED
      BY <3>1, <3>2, <3>3, <1>5, <1>7
  <2> QED
    BY <2>1, <1>8 DEF Abstract!FitsGap, Abstract!Disjoint, AreasHeld
<1> QED
  BY <1>6, <1>8, <1>9 DEF Abstract!Alloc

LEMMA MarkIsFree ==
  ASSUME HeapInv, NEW m \in mems, FreeMark(m)
  PROVE  \E x \in AreasHeld : Abstract!Free(x)
<1>1. m \in used /\ used' = used \ {m} /\ next' = next
  BY DEF FreeMark
<1>2. AreasHeld' = AreasHeld \ {<<m, next[m]>>} /\ <<m, next[m]>> \in AreasHeld
  BY <1>1, HeldWithout DEF AreasHeld
<1> QED
  BY <1>2 DEF Abstract!Free

LEMMA TrimIsShrink ==
  ASSUME HeapInv, NEW m \in mems, NEW n \in Wanted, Trim(m, n)
  PROVE  \E x \in AreasHeld : Abstract!Shrink(x)
<1> DEFINE k == AtLeastMin(n)  rest == m + HDR + k
<1>1. /\ m \in used /\ used' = used /\ k < DataSize(m) /\ k \in Nat
      /\ Vacant(next[m]) \/ k + HDR + MIN <= DataSize(m)
  BY AtLeast DEF Trim
<1> DEFINE gone  == IF Vacant(next[m]) THEN {next[m]} \ {rest} ELSE {}
           after == IF Vacant(next[m]) THEN next[next[m]] ELSE next[m]
<1>2. next' = [o \in Offset |-> IF o = m THEN rest ELSE IF o = rest THEN after
                                ELSE IF o \in gone THEN 0 ELSE next[o]]
  BY DEF Trim
<1>S. /\ m \in Nat /\ m \in Offset /\ next[m] \in Nat
      /\ \A x \in mems : x \in Nat /\ x \in Offset
  BY HeapFacts
<1>N. \A j \in mems : j <= m \/ next[m] <= j
  <2>1. Tiled(mems, next, prev)
    BY TiledIs
  <2> QED
    BY <2>1 DEF Tiled
<1>C. HDR \in Nat \ {0} /\ used \subseteq mems
  BY HeapConstants DEF HeapInv, HeapTypeOK
<1> HIDE DEF k
<1>3. m + HDR <= rest /\ rest <= next[m] - 1 /\ rest \in Nat /\ m < rest /\ rest < next[m]
  BY <1>1, <1>S, <1>C DEF DataSize
<1> HIDE DEF rest
<1>4. next'[m] = rest
  BY <1>2, <1>S
<1>5. ASSUME NEW x \in used, x # m PROVE next'[x] = next[x]
  <2>1. x \in Nat /\ x \in Offset /\ (x <= m \/ next[m] <= x)
    BY <1>S, <1>C, <1>N
  <2>2. x # rest
    BY <2>1, <1>3, <1>S
  <2>3. x \notin gone
    BY <1>5 DEF Vacant
  <2> HIDE DEF gone, after
  <2> QED
    BY <2>1, <2>2, <2>3, <1>2, <1>5
<1> HIDE DEF gone, after
<1>6. AreasHeld' = (AreasHeld \ {<<m, next[m]>>}) \cup {<<m, rest>>}
  BY <1>1, <1>4, <1>5, HeldShorter
<1>7. <<m, next[m]>> \in AreasHeld
  BY <1>1 DEF AreasHeld
<1>8. rest \in m + HDR .. next[m] - 1
  BY <1>3, <1>S, <1>C
<1>9. Abstract!Shrink(<<m, next[m]>>)
  BY <1>6, <1>8 DEF Abstract!Shrink
<1> QED
  BY <1>7, <1>9

LEMMA PlugIsNothing ==
  ASSUME HeapInv, PlugHoles
  PROVE  AreasHeld' = AreasHeld
<1>1. PICK m \in mems \ used : freed = <<m>>
  BY DEF PlugHoles, HeapInv, CallInv
<1> DEFINE gone  == {x \in {next[m]} : Vacant(x)} \cup {x \in {m} : prev[m] # m /\ Vacant(prev[m])}
           first == IF m \in gone THEN prev[m] ELSE m
           after == IF next[m] \in gone THEN next[next[m]] ELSE next[m]
<1>2. freed[1] = m
  BY <1>1
<1>3. used' = used /\ next' = [o \in Offset |-> IF o \in gone THEN 0
                                                ELSE IF o = first THEN after ELSE next[o]]
  BY <1>2 DEF PlugHoles
<1>4. gone \cap used = {}
  BY <1>1 DEF Vacant
<1>5. first \notin used
  <2>1. next[m] # m
    BY <1>1, HeapFacts
  <2>2. m \in gone => prev[m] \notin used
    BY <2>1 DEF Vacant
  <2> QED
    BY <1>1, <2>2
<1>6. \A x \in used : x \in Offset
  BY DEF HeapInv, HeapTypeOK
<1> HIDE DEF gone, first, after
<1>7. \A x \in used : next'[x] = next[x]
  BY <1>3, <1>4, <1>5, <1>6
<1> QED
  BY <1>3, <1>7, HeldSame

\* The list of areas implements the abstract heap: a taken area is one that
\* overlaps no other and is long enough, an area marked free goes back, a
\* trimmed one keeps its place, and joining free areas is not seen.
THEOREM ImplementsHeapPool == ~NestedMalloc => (HeapSpec => RefinesHeapPool)
<1>1. HeapInit => HeapInv /\ Abstract!Init
  BY HeapInitial DEF HeapInit, AreasHeld, Abstract!Init
<1>2. ASSUME ~NestedMalloc, HeapInv, [HeapNext]_heapVars
      PROVE  HeapInv' /\ [Abstract!Next]_AreasHeld
  <2>1. HeapInv'
    BY <1>2, HeapStep
  <2>2. ASSUME used' = used, next' = next PROVE AreasHeld' = AreasHeld
    BY <2>2 DEF AreasHeld
  <2>3. ASSUME UNCHANGED heapVars PROVE AreasHeld' = AreasHeld
    BY <2>2, <2>3 DEF heapVars
  <2>4. ASSUME NEW n \in Wanted, MallocFind(n) \/ MallocFails(n) \/ MallocNested(n)
        PROVE  AreasHeld' = AreasHeld
    BY <2>2, <2>3, <2>4, <1>2 DEF MallocFind, MallocFails, MallocNested
  <2>5. ASSUME MallocTake PROVE Abstract!Next
    BY <2>5, <1>2, TakeIsAlloc DEF Abstract!Next
  <2>6. ASSUME PlugHoles PROVE AreasHeld' = AreasHeld
    BY <2>6, <1>2, PlugIsNothing
  <2>7. ASSUME NEW m \in mems, FreeMark(m) PROVE Abstract!Next
    BY <2>7, <1>2, MarkIsFree DEF Abstract!Next
  <2>8. ASSUME NEW m \in mems, NEW n \in Wanted, Trim(m, n) PROVE Abstract!Next
    BY <2>8, <1>2, TrimIsShrink DEF Abstract!Next
  <2> QED
    BY <1>2, <2>1, <2>3, <2>4, <2>5, <2>6, <2>7, <2>8 DEF HeapNext
<1>3. ASSUME ~NestedMalloc PROVE HeapSpec => RefinesHeapPool
  <2>1. HeapInv /\ [HeapNext]_heapVars => HeapInv' /\ [Abstract!Next]_AreasHeld
    BY <1>2, <1>3
  <2> QED
    BY <1>1, <2>1, PTL DEF HeapSpec, RefinesHeapPool, Abstract!Spec
<1> QED
  BY <1>3

-----------------------------------------------------------------------------
(* malloc.c.                                                               *)

USE SizeAssumption, NilAssumption

\* A block is a first cell and a length of at least one.
LEMMA BlockFacts ==
  ASSUME NEW b \in Blocks
  PROVE  b.off \in Idx /\ b.len \in 1 .. N /\ b.off \in Cells(b) /\ b = Block(b.off, b.len)
BY DEF Blocks, Block, Idx, Cells

LEMMA BlockFields ==
  ASSUME NEW o \in Int, NEW n \in Int
  PROVE  Block(o, n).off = o /\ Block(o, n).len = n /\ Cells(Block(o, n)) = o .. o + n - 1
BY DEF Block, Cells

\* A request for at least one byte needs at least one cell.
LEMMA NeedPositive ==
  ASSUME NEW size \in Nat \ {0}
  PROVE  NeedNum(size) \in Nat \ {0}
<1> DEFINE q == size \div BlockSize
           r == size % BlockSize
<1>1. q \in Nat /\ r \in Nat
  OBVIOUS
<1>2. size = BlockSize * q + r
  OBVIOUS
<1>3. CASE r > 0
  BY <1>1, <1>3 DEF NeedNum
<1>4. CASE r = 0
  <2>1. q # 0
    BY <1>2, <1>4
  <2> QED BY <1>1, <1>4, <2>1 DEF NeedNum
<1> QED BY <1>1, <1>3, <1>4

\* Writing a length or a zero keeps the type of the table.
LEMMA TableUpdate ==
  ASSUME NEW f \in [Idx -> 0 .. N], NEW k, NEW v \in 0 .. N
  PROVE  [f EXCEPT ![k] = v] \in [Idx -> 0 .. N]
OBVIOUS

LEMMA InitIInv == Init => IInv
<1> SUFFICES ASSUME Init PROVE IInv
  OBVIOUS
<1>1. TypeOK
  <2>1. memreadyflag \in BOOLEAN /\ memmap \in [Idx -> 0 .. N]
    BY DEF Init
  <2>2. held \subseteq Blocks /\ old \in Blocks \cup {NIL} /\ ret \in Blocks \cup {NIL}
    BY DEF Init
  <2>3. /\ pc = "idle" /\ need \in Nat /\ seri \in Nat /\ i \in Nat
        /\ offset \in Int /\ offset + 1 >= 0 /\ offset < N
    BY DEF Init
  <2> QED BY <2>1, <2>2, <2>3 DEF TypeOK
<1>2. Disjoint /\ TableDescribes /\ ReadyInv
  BY DEF Init, Disjoint, TableDescribes, ReadyInv
<1>3. ScanInv /\ MarkInv /\ ClearInv
  BY DEF Init, ScanInv, MarkInv, ClearInv
<1> QED BY <1>1, <1>2, <1>3 DEF IInv

\* my_mem_init, called explicitly or by the first request.
LEMMA StepInitialise == IInv /\ Initialise => IInv'
<1> SUFFICES ASSUME IInv, Initialise PROVE IInv'
  OBVIOUS
<1>1. memmap' = [c \in Idx |-> 0] /\ memreadyflag' = TRUE /\ held = {} /\ pc = "idle"
  BY DEF Initialise, my_mem_init
<1>2. UNCHANGED <<held, pc, need, seri, offset, i, old, ret>>
  BY DEF Initialise
<1>3. memmap' \in [Idx -> 0 .. N]
  BY <1>1
<1>4. TypeOK'
  BY <1>1, <1>2, <1>3 DEF IInv, TypeOK
<1>5. Disjoint' /\ ReadyInv'
  BY <1>1, <1>2 DEF IInv, Disjoint, ReadyInv
<1>6. TableDescribes'
  BY <1>1, <1>2 DEF TableDescribes
<1>7. ScanInv' /\ MarkInv' /\ ClearInv'
  BY <1>1, <1>2 DEF ScanInv, MarkInv, ClearInv
<1> QED BY <1>4, <1>5, <1>6, <1>7 DEF IInv

\* The head of my_mem_malloc starts a search that has passed nothing yet.
LEMMA StepRequest ==
  ASSUME IInv, NEW size \in Sizes, NEW b \in held \cup {NIL}, Request(size, b)
  PROVE  IInv'
<1>1. pc = "idle" /\ held' = held /\ i' = i
  BY DEF Request
<1>2. /\ memreadyflag' = TRUE
      /\ memmap' = IF memreadyflag THEN memmap ELSE [c \in Idx |-> 0]
  BY DEF Request, my_mem_init, IInv, TypeOK
<1>3. memmap' \in [Idx -> 0 .. N]
  BY <1>2 DEF IInv, TypeOK
<1>4. /\ \A d \in held : \A c \in Cells(d) : memmap'[c] = d.len
      /\ \A c \in Idx : memmap'[c] # 0 => \E d \in held : c \in Cells(d)
  <2>1. CASE memreadyflag
    BY <1>1, <1>2, <2>1 DEF IInv, TableDescribes, Marked, ToClear
  <2>2. CASE ~memreadyflag
    <3>1. held = {}
      BY <2>2 DEF IInv, ReadyInv
    <3> QED BY <1>2, <2>2, <3>1
  <2> QED BY <2>1, <2>2
<1>5. Disjoint'
  BY <1>1 DEF IInv, Disjoint
<1>6. CASE size = 0
  <2>1. UNCHANGED <<pc, need, seri, offset, old>> /\ ret' = NIL
    BY <1>6 DEF Request
  <2>2. TypeOK'
    BY <1>1, <1>2, <1>3, <2>1 DEF IInv, TypeOK
  <2>3. TableDescribes'
    BY <1>1, <1>4 DEF TableDescribes
  <2>4. ReadyInv' /\ ScanInv' /\ MarkInv' /\ ClearInv'
    BY <1>1, <1>2, <2>1 DEF IInv, ReadyInv, ScanInv, MarkInv, ClearInv
  <2> QED BY <1>5, <2>2, <2>3, <2>4 DEF IInv
<1>7. CASE size # 0
  <2>1. /\ pc' = "scan" /\ need' = NeedNum(size) /\ seri' = 0
        /\ offset' = N - 1 /\ old' = b /\ ret' = ret
    BY <1>7 DEF Request, Last
  <2>2. need' \in Lens /\ need' \in Nat \ {0}
    BY <1>7, <2>1, NeedPositive DEF Lens
  <2>3. TypeOK'
    <3>1. b \in Blocks \cup {NIL}
      BY DEF IInv, TypeOK
    <3> QED BY <1>1, <1>2, <1>3, <2>1, <2>2, <3>1 DEF IInv, TypeOK
  <2>4. TableDescribes'
    BY <1>1, <1>4 DEF TableDescribes
  <2>5. ReadyInv'
    BY <1>1, <1>2, <2>1 DEF ReadyInv
  <2>6. ScanInv'
    BY <2>1, <2>2 DEF ScanInv
  <2>7. MarkInv' /\ ClearInv'
    BY <2>1 DEF MarkInv, ClearInv
  <2> QED BY <1>5, <2>3, <2>4, <2>5, <2>6, <2>7 DEF IInv
<1> QED BY <1>6, <1>7

\* During a search the table has a non-zero entry exactly where a block is.
LEMMA FreeIsZero ==
  ASSUME IInv, pc = "scan", NEW c \in Idx
  PROVE  memmap[c] = 0 <=> ~Taken(c)
<1>1. memreadyflag
  BY DEF IInv, ReadyInv
<1>2. ASSUME NEW d \in held, c \in Cells(d) PROVE memmap[c] # 0
  <2>1. memmap[c] = d.len
    BY <1>1, <1>2 DEF IInv, TableDescribes
  <2>2. d.len \in 1 .. N
    BY BlockFacts DEF IInv, TypeOK
  <2> QED BY <2>1, <2>2
<1>3. ASSUME memmap[c] # 0 PROVE Taken(c)
  BY <1>1, <1>3 DEF IInv, TableDescribes, Marked, ToClear, Taken
<1> QED BY <1>2, <1>3 DEF Taken

\* One iteration of the search.
LEMMA StepScan == IInv /\ Scan => IInv'
<1> SUFFICES ASSUME IInv, Scan PROVE IInv'
  OBVIOUS
<1>1. /\ pc = "scan" /\ offset >= 0
      /\ seri' = IF memmap[offset] = 0 THEN seri + 1 ELSE 0
      /\ UNCHANGED <<memreadyflag, memmap, held, need, old, ret>>
  BY DEF Scan, Run
<1>2. /\ need \in Lens /\ need \in Nat /\ need >= 1 /\ seri \in Nat
      /\ seri < need /\ offset + seri < N /\ offset \in Idx
      /\ \A c \in offset + 1 .. offset + seri : memmap[c] = 0
      /\ offset + seri = N - 1 \/ memmap[offset + seri + 1] # 0
      /\ \A o \in offset + 1 .. N - need : \E c \in o .. o + need - 1 : Taken(c)
  BY <1>1 DEF IInv, ScanInv, TypeOK, Idx
<1>3. \A c \in Idx : memmap[c] = 0 <=> ~Taken(c)
  BY <1>1, FreeIsZero
<1>4. \A c : Taken(c)' <=> Taken(c)
  BY <1>1 DEF Taken
<1>5. Disjoint'
  BY <1>1 DEF IInv, Disjoint
<1>6. CASE seri' = need
  <2>1. pc' = "mark" /\ i' = 0 /\ offset' = offset
    BY <1>6 DEF Scan, Found
  <2>2. TypeOK'
    BY <1>1, <1>2, <1>6, <2>1 DEF IInv, TypeOK
  <2>3. TableDescribes'
    BY <1>1, <2>1 DEF IInv, TableDescribes, Marked, ToClear
  <2>4. seri + 1 = need /\ memmap[offset] = 0
    BY <1>1, <1>2, <1>6
  <2>5. \A c \in offset .. offset + need - 1 : c \in Idx /\ memmap[c] = 0
    BY <1>2, <2>4 DEF Idx
  <2>6. MarkInv'
    <3>1. Apart'
      BY <1>1, <1>3, <2>1, <2>5 DEF Apart, Taken
    <3>2. Marked' = {}
      <4>1. offset' + i' - 1 = offset - 1 /\ offset' = offset /\ offset \in Int
        BY <1>2, <2>1 DEF Idx
      <4>2. offset .. offset - 1 = {}
        BY <4>1
      <4> QED BY <2>1, <4>1, <4>2 DEF Marked
    <3>3. /\ need' \in Lens /\ need' >= 1 /\ i' <= need' /\ offset' >= 0
          /\ offset' + need' <= N
      BY <1>1, <1>2, <2>1, <2>4 DEF Idx
    <3>4. \A o \in offset' + 1 .. N - need' : \E c \in o .. o + need' - 1 : Taken(c)'
      BY <1>1, <1>2, <1>4, <2>1
    <3> QED BY <3>1, <3>2, <3>3, <3>4 DEF MarkInv
  <2>7. ReadyInv' /\ ScanInv' /\ ClearInv'
    BY <1>1, <2>1 DEF IInv, ReadyInv, ScanInv, ClearInv
  <2> QED BY <1>5, <2>2, <2>3, <2>6, <2>7 DEF IInv
<1>7. CASE seri' # need
  <2>1. pc' = "scan" /\ i' = i /\ offset' = offset - 1
    BY <1>1, <1>7 DEF Scan, Found
  <2>2. TypeOK'
    BY <1>1, <1>2, <2>1 DEF IInv, TypeOK
  <2>3. TableDescribes'
    BY <1>1, <2>1 DEF IInv, TableDescribes, Marked, ToClear
  <2>4. \A o \in offset .. N - need : \E c \in o .. o + need - 1 : Taken(c)
    <3>1. CASE memmap[offset] # 0
      <4>1. Taken(offset)
        BY <1>2, <1>3, <3>1
      <4>2. offset \in offset .. offset + need - 1
        BY <1>2 DEF Idx
      <4> QED BY <1>2, <4>1, <4>2 DEF Idx
    <3>2. CASE memmap[offset] = 0
      <4>1. seri + 1 < need
        BY <1>1, <1>2, <1>7, <3>2
      <4>2. ASSUME offset <= N - need
            PROVE  \E c \in offset .. offset + need - 1 : Taken(c)
        <5>1. offset + seri # N - 1
          BY <1>2, <4>1, <4>2 DEF Idx
        <5>2. offset + seri + 1 \in Idx /\ offset + seri + 1 \in offset .. offset + need - 1
          BY <1>2, <4>1, <5>1 DEF Idx
        <5> QED BY <1>2, <1>3, <5>1, <5>2
      <4> QED BY <1>2, <4>2 DEF Idx
    <3> QED BY <3>1, <3>2
  <2>5. ScanInv'
    <3>1. seri' < need /\ offset' + seri' < N
      BY <1>1, <1>2, <1>7, <2>1 DEF Idx
    <3>2. \A c \in offset' + 1 .. offset' + seri' : memmap[c] = 0
      BY <1>1, <1>2, <2>1 DEF Idx
    <3>3. offset' + seri' = N - 1 \/ memmap[offset' + seri' + 1] # 0
      BY <1>1, <1>2, <2>1 DEF Idx
    <3>4. \A o \in offset' + 1 .. N - need : \E c \in o .. o + need - 1 : Taken(c)'
      BY <1>2, <1>4, <2>1, <2>4 DEF Idx
    <3> QED BY <1>1, <1>2, <3>1, <3>2, <3>3, <3>4 DEF ScanInv
  <2>6. ReadyInv' /\ MarkInv' /\ ClearInv'
    BY <1>1, <2>1 DEF IInv, ReadyInv, MarkInv, ClearInv
  <2> QED BY <1>5, <2>2, <2>3, <2>5, <2>6 DEF IInv
<1> QED BY <1>6, <1>7

\* The search has come below cell 0: nothing changes but the program counter.
LEMMA StepScanFails == IInv /\ ScanFails => IInv'
<1> SUFFICES ASSUME IInv, ScanFails PROVE IInv'
  OBVIOUS
<1>1. /\ pc = "scan" /\ pc' = "idle" /\ ret' = NIL /\ old' = NIL
      /\ UNCHANGED <<memreadyflag, memmap, held, need, seri, offset, i>>
  BY DEF ScanFails
<1>2. TypeOK'
  BY <1>1 DEF IInv, TypeOK
<1>3. Disjoint' /\ TableDescribes'
  BY <1>1 DEF IInv, Disjoint, TableDescribes, Marked, ToClear
<1>4. ReadyInv' /\ ScanInv' /\ MarkInv' /\ ClearInv'
  BY <1>1 DEF IInv, ReadyInv, ScanInv, MarkInv, ClearInv
<1> QED BY <1>2, <1>3, <1>4 DEF IInv

\* One iteration of the marking loop: the cell lies in no held block.
LEMMA StepMark == IInv /\ Mark => IInv'
<1> SUFFICES ASSUME IInv, Mark PROVE IInv'
  OBVIOUS
<1>1. /\ pc = "mark" /\ i < need
      /\ memmap' = [memmap EXCEPT ![offset + i] = need] /\ i' = i + 1
      /\ UNCHANGED <<memreadyflag, held, pc, need, seri, offset, old, ret>>
  BY DEF Mark, Length
<1>2. /\ need \in Lens /\ need >= 1 /\ offset >= 0 /\ offset + need <= N
      /\ need \in Nat /\ i \in Nat /\ offset \in Int
      /\ \A c \in Marked : memmap[c] = need
      /\ \A o \in offset + 1 .. N - need : \E c \in o .. o + need - 1 : Taken(c)
      /\ Apart
  BY <1>1 DEF IInv, MarkInv, TypeOK
<1>3. /\ memmap \in [Idx -> 0 .. N] /\ memreadyflag
  BY <1>1 DEF IInv, TypeOK, ReadyInv
<1>4. need \in 0 .. N /\ offset + i \in Idx
  BY <1>1, <1>2 DEF Idx
<1>5. memmap' \in [Idx -> 0 .. N]
  BY <1>1, <1>3, <1>4, TableUpdate
<1>6. \A c \in Idx : memmap'[c] = IF c = offset + i THEN need ELSE memmap[c]
  BY <1>1, <1>3
<1>7. TypeOK'
  BY <1>1, <1>2, <1>5 DEF IInv, TypeOK
<1>8. Disjoint' /\ ReadyInv' /\ ScanInv' /\ ClearInv'
  BY <1>1 DEF IInv, Disjoint, ReadyInv, ScanInv, ClearInv
<1>9. offset + i \in offset .. offset + need - 1
  BY <1>1, <1>2
<1>10. \A c \in Int : c \in Marked' <=> c \in Marked \/ c = offset + i
  BY <1>1, <1>2 DEF Marked
<1>11. TableDescribes'
  <2>1. ASSUME NEW b \in held, NEW c \in Cells(b) PROVE memmap'[c] = b.len
    <3>1. c \in Idx /\ c # offset + i
      BY <1>2, <1>9, <2>1 DEF IInv, Disjoint, Apart
    <3>2. memmap[c] = b.len
      BY <1>3, <2>1 DEF IInv, TableDescribes
    <3> QED BY <1>6, <3>1, <3>2
  <2>2. ASSUME NEW c \in Idx, memmap'[c] # 0
        PROVE  (\E b \in held : c \in Cells(b)) \/ c \in Marked'
    <3>1. CASE c = offset + i
      BY <1>10, <3>1 DEF Idx
    <3>2. CASE c # offset + i
      <4>1. memmap[c] # 0
        BY <1>6, <2>2, <3>2
      <4>2. (\E b \in held : c \in Cells(b)) \/ c \in Marked
        BY <1>1, <1>3, <4>1 DEF IInv, TableDescribes, ToClear
      <4> QED BY <1>10, <4>2 DEF Idx
    <3> QED BY <3>1, <3>2
  <2> QED BY <1>1, <2>1, <2>2 DEF TableDescribes
<1>12. MarkInv'
  <2>1. i' <= need'
    BY <1>1, <1>2
  <2>2. \A c \in Marked' : memmap'[c] = need'
    <3>1. \A c \in Marked' : c \in Idx
      BY <1>1, <1>2 DEF Marked, Idx
    <3> QED BY <1>1, <1>2, <1>6, <1>10, <3>1 DEF Idx
  <2>3. Apart'
    BY <1>1, <1>2 DEF Apart
  <2>4. \A o \in offset' + 1 .. N - need' : \E c \in o .. o + need' - 1 : Taken(c)'
    BY <1>1, <1>2 DEF Taken
  <2> QED BY <1>1, <1>2, <2>1, <2>2, <2>3, <2>4 DEF MarkInv
<1> QED BY <1>7, <1>8, <1>11, <1>12 DEF IInv

\* One iteration of the clearing loop, over cells of no held block.
LEMMA StepClear == IInv /\ Clear => IInv'
<1> SUFFICES ASSUME IInv, Clear PROVE IInv'
  OBVIOUS
<1>1. /\ pc = "clear" /\ i < need
      /\ memmap' = [memmap EXCEPT ![offset + i] = 0] /\ i' = i + 1
      /\ UNCHANGED <<memreadyflag, held, pc, need, seri, offset, old, ret>>
  BY DEF Clear
<1>2. /\ offset >= 0 /\ offset + need <= N
      /\ need \in Nat /\ i \in Nat /\ offset \in Int /\ Apart
  BY <1>1 DEF IInv, ClearInv, TypeOK
<1>3. memmap \in [Idx -> 0 .. N] /\ memreadyflag
  BY <1>1 DEF IInv, TypeOK, ReadyInv
<1>4. 0 \in 0 .. N /\ offset + i \in Idx
  BY <1>1, <1>2 DEF Idx
<1>5. memmap' \in [Idx -> 0 .. N]
  BY <1>1, <1>3, <1>4, TableUpdate
<1>6. \A c \in Idx : memmap'[c] = IF c = offset + i THEN 0 ELSE memmap[c]
  BY <1>1, <1>3
<1>7. TypeOK'
  BY <1>1, <1>2, <1>5 DEF IInv, TypeOK
<1>8. Disjoint' /\ ReadyInv' /\ ScanInv' /\ MarkInv'
  BY <1>1 DEF IInv, Disjoint, ReadyInv, ScanInv, MarkInv
<1>9. offset + i \in offset .. offset + need - 1
  BY <1>1, <1>2
<1>10. \A c \in Int : c \in ToClear <=> c \in ToClear' \/ c = offset + i
  BY <1>1, <1>2 DEF ToClear
<1>11. TableDescribes'
  <2>1. ASSUME NEW b \in held, NEW c \in Cells(b) PROVE memmap'[c] = b.len
    <3>1. c \in Idx /\ c # offset + i
      BY <1>2, <1>9, <2>1 DEF IInv, Disjoint, Apart
    <3>2. memmap[c] = b.len
      BY <1>3, <2>1 DEF IInv, TableDescribes
    <3> QED BY <1>6, <3>1, <3>2
  <2>2. ASSUME NEW c \in Idx, memmap'[c] # 0
        PROVE  (\E b \in held : c \in Cells(b)) \/ c \in ToClear'
    <3>1. c # offset + i /\ memmap[c] # 0
      BY <1>6, <2>2
    <3>2. (\E b \in held : c \in Cells(b)) \/ c \in ToClear
      BY <1>1, <1>3, <3>1 DEF IInv, TableDescribes, Marked
    <3> QED BY <1>10, <3>1, <3>2 DEF Idx
  <2> QED BY <1>1, <2>1, <2>2 DEF TableDescribes
<1>12. ClearInv'
  <2>1. i' <= need'
    BY <1>1, <1>2
  <2>2. Apart'
    BY <1>1, <1>2 DEF Apart
  <2> QED BY <1>1, <1>2, <2>1, <2>2 DEF ClearInv
<1> QED BY <1>7, <1>8, <1>11, <1>12 DEF IInv

\* The clearing loop has ended: every cell of the freed block is zero.
LEMMA StepClearDone == IInv /\ ClearDone => IInv'
<1> SUFFICES ASSUME IInv, ClearDone PROVE IInv'
  OBVIOUS
<1>1. /\ pc = "clear" /\ i = need /\ pc' = "idle"
      /\ UNCHANGED <<memreadyflag, memmap, held, need, seri, offset, i, old, ret>>
  BY DEF ClearDone
<1>2. need \in Nat /\ offset \in Int
  BY DEF IInv, TypeOK
<1>3. TypeOK'
  BY <1>1 DEF IInv, TypeOK
<1>4. ToClear = {}
  BY <1>1, <1>2 DEF ToClear
<1>5. Disjoint' /\ TableDescribes'
  BY <1>1, <1>4 DEF IInv, Disjoint, TableDescribes, Marked
<1>6. ReadyInv' /\ ScanInv' /\ MarkInv' /\ ClearInv'
  BY <1>1 DEF IInv, ReadyInv, ScanInv, MarkInv, ClearInv
<1> QED BY <1>3, <1>5, <1>6 DEF IInv

\* What my_mem_free reads from the table is the length of the block.
LEMMA ClearStarts ==
  ASSUME IInv, memreadyflag, NEW b \in held
  PROVE  /\ memmap[b.off] = b.len /\ b.off \in Idx /\ b.len \in 1 .. N
         /\ b.off + b.len <= N /\ Cells(b) = b.off .. b.off + b.len - 1
<1>1. b.off \in Idx /\ b.len \in 1 .. N /\ b.off \in Cells(b)
  BY BlockFacts DEF IInv, TypeOK
<1>2. memmap[b.off] = b.len
  BY <1>1 DEF IInv, TableDescribes
<1>3. b.off + b.len - 1 \in Cells(b)
  BY <1>1 DEF Cells, Idx
<1>4. b.off + b.len - 1 \in Idx
  BY <1>3 DEF IInv, Disjoint
<1> QED BY <1>1, <1>2, <1>4 DEF Idx, Cells

\* myfree: the block leaves held, its cells are those the loop will clear.
LEMMA StepFree ==
  ASSUME IInv, NEW b \in held, myfree(b)
  PROVE  IInv'
<1>1. /\ pc = "idle" /\ held' = held \ {b}
      /\ pc' = "clear" /\ offset' = b.off /\ need' = memmap[b.off] /\ i' = 0
      /\ UNCHANGED <<memreadyflag, memmap, seri, old, ret>>
  BY DEF myfree, BeginClear
<1>2. memreadyflag
  BY DEF IInv, ReadyInv
<1>3. /\ need' = b.len /\ b.off \in Idx /\ b.len \in 1 .. N /\ b.off + b.len <= N
      /\ Cells(b) = b.off .. b.off + b.len - 1
  BY <1>1, <1>2, ClearStarts
<1>4. TypeOK'
  <2>1. need' \in Nat /\ offset' \in Int /\ offset' + 1 >= 0 /\ offset' < N /\ i' \in Nat
    BY <1>1, <1>3 DEF Idx
  <2> QED BY <1>1, <2>1 DEF IInv, TypeOK
<1>5. Disjoint'
  BY <1>1 DEF IInv, Disjoint
<1>6. ToClear' = Cells(b)
  BY <1>1, <1>3 DEF ToClear, Idx
<1>7. TableDescribes'
  BY <1>1, <1>2, <1>6 DEF IInv, TableDescribes, Marked, ToClear
<1>8. Apart'
  BY <1>1, <1>3 DEF Apart, IInv, Disjoint
<1>9. ClearInv'
  BY <1>1, <1>3, <1>8 DEF ClearInv, Idx
<1>10. ReadyInv' /\ ScanInv' /\ MarkInv'
  BY <1>1, <1>2 DEF IInv, ReadyInv, ScanInv, MarkInv
<1> QED BY <1>4, <1>5, <1>7, <1>9, <1>10 DEF IInv

\* The marking loop has ended: the block found is the caller's.
LEMMA StepMarkDone == IInv /\ MarkDone => IInv'
<1> SUFFICES ASSUME IInv, MarkDone PROVE IInv'
  OBVIOUS
<1> DEFINE blk == Block(offset, need)
<1>1. /\ pc = "mark" /\ i = need /\ ret' = blk /\ held' = (held \ {old}) \cup {blk}
      /\ old' = NIL /\ UNCHANGED <<memreadyflag, memmap, seri>>
  BY DEF MarkDone
<1>2. /\ need \in Lens /\ need >= 1 /\ offset >= 0 /\ offset + need <= N
      /\ need \in Nat /\ offset \in Int /\ Apart
      /\ \A c \in Marked : memmap[c] = need
  BY <1>1 DEF IInv, MarkInv, TypeOK
<1>3. blk.off = offset /\ blk.len = need /\ Cells(blk) = offset .. offset + need - 1
  <2>1. offset \in Int /\ need \in Int
    BY <1>2
  <2> HIDE DEF blk
  <2>2. blk = Block(offset, need)
    BY DEF blk
  <2> QED BY <2>1, <2>2, BlockFields
<1>4. blk \in Blocks
  BY <1>2 DEF Blocks, Idx
<1>5. Marked = Cells(blk)
  BY <1>1, <1>2, <1>3 DEF Marked
<1>6. memreadyflag /\ (old # NIL => old \in held)
  BY <1>1 DEF IInv, ReadyInv
<1>7. held' \subseteq Blocks /\ ret' \in Blocks \cup {NIL} /\ old' \in Blocks \cup {NIL}
  BY <1>1, <1>4 DEF IInv, TypeOK
<1>8. \A b \in held : Cells(b) \cap Cells(blk) = {}
  BY <1>2, <1>3 DEF Apart
<1>9. Disjoint'
  <2>1. Cells(blk) \subseteq Idx
    BY <1>2, <1>3 DEF Idx
  <2>2. \A b \in held' : Cells(b) \subseteq Idx
    BY <1>1, <2>1 DEF IInv, Disjoint
  <2>3. \A b, d \in held' : b # d => Cells(b) \cap Cells(d) = {}
    BY <1>1, <1>8 DEF IInv, Disjoint
  <2> QED BY <2>2, <2>3 DEF Disjoint
<1>10. \A b \in held' : \A c \in Cells(b) : memmap'[c] = b.len
  BY <1>1, <1>2, <1>3, <1>5, <1>6 DEF IInv, TableDescribes
<1>11. \A c \in Idx : memmap'[c] # 0 => (\E b \in held : c \in Cells(b)) \/ c \in Cells(blk)
  BY <1>1, <1>5, <1>6 DEF IInv, TableDescribes, ToClear
<1>12. CASE old = NIL
  <2>1. pc' = "idle" /\ UNCHANGED <<offset, need, i>>
    BY <1>12 DEF MarkDone
  <2>2. held' = held \cup {blk}
    BY <1>1, <1>12 DEF IInv, TypeOK
  <2>3. TypeOK'
    BY <1>1, <1>7, <2>1 DEF IInv, TypeOK
  <2>4. TableDescribes'
    BY <1>10, <1>11, <2>2 DEF TableDescribes
  <2>5. ReadyInv' /\ ScanInv' /\ MarkInv' /\ ClearInv'
    BY <1>1, <1>6, <2>1 DEF ReadyInv, ScanInv, MarkInv, ClearInv
  <2> QED BY <1>9, <2>3, <2>4, <2>5 DEF IInv
<1>13. CASE old # NIL
  <2>1. pc' = "clear" /\ offset' = old.off /\ need' = memmap[old.off] /\ i' = 0
    BY <1>13 DEF MarkDone, BeginClear
  <2>2. old \in held
    BY <1>6, <1>13
  <2>3. /\ need' = old.len /\ old.off \in Idx /\ old.len \in 1 .. N /\ old.off + old.len <= N
        /\ Cells(old) = old.off .. old.off + old.len - 1
    BY <1>6, <2>1, <2>2, ClearStarts
  <2>4. TypeOK'
    <3>1. need' \in Nat /\ offset' \in Int /\ offset' + 1 >= 0 /\ offset' < N /\ i' \in Nat
      BY <2>1, <2>3 DEF Idx
    <3>2. memreadyflag' \in BOOLEAN /\ memmap' \in [Idx -> 0 .. N] /\ seri' \in Nat
      BY <1>1 DEF IInv, TypeOK
    <3> QED BY <1>7, <2>1, <3>1, <3>2 DEF TypeOK
  <2>5. ToClear' = Cells(old)
    BY <2>1, <2>3 DEF ToClear, Idx
  <2>6. TableDescribes'
    BY <1>1, <1>10, <1>11, <2>5 DEF TableDescribes
  <2>7. Apart'
    <3>1. \A b \in held' : Cells(b) \cap Cells(old) = {}
      BY <1>1, <1>8, <2>2 DEF IInv, Disjoint
    <3> QED BY <2>1, <2>3, <3>1 DEF Apart
  <2>8. ClearInv'
    BY <2>1, <2>3, <2>7 DEF ClearInv, Idx
  <2>9. ReadyInv' /\ ScanInv' /\ MarkInv'
    BY <1>1, <1>6, <2>1 DEF ReadyInv, ScanInv, MarkInv
  <2> QED BY <1>9, <2>4, <2>6, <2>8, <2>9 DEF IInv
<1> QED BY <1>12, <1>13

\* IInv speaks of the variables only.
LEMMA StutterIInv == IInv /\ UNCHANGED vars => IInv'
<1> SUFFICES ASSUME IInv, UNCHANGED vars PROVE IInv'
  OBVIOUS
<1>1. TypeOK' /\ Disjoint' /\ TableDescribes' /\ ReadyInv'
  BY DEF IInv, vars, TypeOK, Disjoint, TableDescribes, Marked, ToClear, ReadyInv
<1>2. ScanInv' /\ MarkInv' /\ ClearInv'
  BY DEF IInv, vars, ScanInv, MarkInv, ClearInv, Marked, Apart, Taken
<1> QED BY <1>1, <1>2 DEF IInv

LEMMA NextIInv == IInv /\ [Next]_vars => IInv'
BY StepInitialise, StepScan, StepScanFails, StepMark, StepMarkDone, StepClear,
   StepClearDone, StepRequest, StepFree, StutterIInv DEF Next

-----------------------------------------------------------------------------

\* In every bank the table and the loops stay exact.
THEOREM Invariance == Spec => []IInv
BY InitIInv, NextIInv, PTL DEF Spec

\* The variables keep their types: offset never leaves -1 .. N - 1.
THEOREM TypeCorrect == Spec => []TypeOK
<1>1. IInv => TypeOK
  BY DEF IInv
<1> QED BY <1>1, Invariance, PTL

\* malloc.c never gives out a cell twice.
THEOREM BlocksAreDisjoint == Spec => []Disjoint
<1>1. IInv => Disjoint
  BY DEF IInv
<1> QED BY <1>1, Invariance, PTL

\* No cell leaks: a non-zero entry belongs to a block or to a running loop.
THEOREM TableIsExact == Spec => []TableDescribes
<1>1. IInv => TableDescribes
  BY DEF IInv
<1> QED BY <1>1, Invariance, PTL

\* Neither loop writes outside the bank or into a block that is held.
THEOREM LoopsAreContained == Spec => []LoopsStayInside
<1>1. IInv => LoopsStayInside
  <2> SUFFICES ASSUME IInv, pc \in {"mark", "clear"}, NEW c \in offset .. offset + need - 1
               PROVE  c \in Idx /\ \A b \in held : c \notin Cells(b)
    BY DEF LoopsStayInside
  <2>1. offset >= 0 /\ offset + need <= N /\ Apart
    BY DEF IInv, MarkInv, ClearInv
  <2>2. offset \in Int /\ need \in Nat
    BY DEF IInv, TypeOK
  <2> QED BY <2>1, <2>2 DEF Idx, Apart
<1> QED BY <1>1, Invariance, PTL

-----------------------------------------------------------------------------

\* A run of cells fits in the pool exactly when no block takes one of them.
LEMMA FitsTaken ==
  ASSUME NEW o \in Int, NEW n \in Int
  PROVE  Pool!Fits(o, n) <=> /\ o \in 0 .. N - n
                             /\ \A c \in o .. o + n - 1 : ~Taken(c)
BY DEF Pool!Fits, Pool!Cells, Pool!Block, Pool!Free, Taken, Cells

\* A search that ends without success refuses a request that fits nowhere.
LEMMA FailsRefuses == IInv /\ ScanFails => Pool!Refuse(need) /\ need \in Lens
<1> SUFFICES ASSUME IInv, ScanFails PROVE Pool!Refuse(need) /\ need \in Lens
  OBVIOUS
<1>1. pc = "scan" /\ offset < 0 /\ ret' = NIL /\ held' = held
  BY DEF ScanFails
<1>2. /\ need \in Lens /\ need \in Nat /\ offset + 1 = 0
      /\ \A o \in offset + 1 .. N - need : \E c \in o .. o + need - 1 : Taken(c)
  BY <1>1 DEF IInv, ScanInv, TypeOK
<1>3. \A o \in 0 .. N - need : \E c \in o .. o + need - 1 : Taken(c)
  BY <1>2
<1>4. \A o \in 0 .. N - need : ~Pool!Fits(o, need)
  BY <1>2, <1>3, FitsTaken
<1> QED BY <1>1, <1>2, <1>4 DEF Pool!Refuse

\* The block marked is the highest that fits.
LEMMA MarkedIsHighest ==
  ASSUME IInv, pc = "mark"
  PROVE  offset \in 0 .. N - need /\ Pool!Highest(offset, need)
<1>1. /\ need \in Nat /\ offset \in Int /\ offset >= 0 /\ offset + need <= N /\ Apart
      /\ \A o \in offset + 1 .. N - need : \E c \in o .. o + need - 1 : Taken(c)
  BY DEF IInv, MarkInv, TypeOK
<1>2. offset \in 0 .. N - need
  BY <1>1
<1>3. Pool!Fits(offset, need)
  BY <1>1, <1>2, FitsTaken DEF Apart, Taken
<1>4. ASSUME NEW p \in 0 .. N - need, Pool!Fits(p, need) PROVE p <= offset
  <2> SUFFICES ASSUME p > offset PROVE FALSE
    BY <1>1
  <2>1. p \in offset + 1 .. N - need /\ p \in Int /\ need \in Int
    BY <1>1
  <2>2. \A c \in p .. p + need - 1 : ~Taken(c)
    BY <1>4, <2>1, FitsTaken
  <2> QED BY <1>1, <2>1, <2>2
<1> QED BY <1>2, <1>3, <1>4 DEF Pool!Highest

\* The end of the marking loop is the pool's grant, or its move in myrealloc.
LEMMA DoneGrants == IInv /\ MarkDone => Pool!Next
<1> SUFFICES ASSUME IInv, MarkDone PROVE Pool!Next
  OBVIOUS
<1>1. pc = "mark" /\ ret' = Block(offset, need) /\ held' = (held \ {old}) \cup {ret'}
  BY DEF MarkDone
<1>2. need \in Lens
  BY <1>1 DEF IInv, MarkInv
<1>3. offset \in 0 .. N - need /\ Pool!Highest(offset, need)
  BY <1>1, MarkedIsHighest
<1>4. ret' = Pool!Block(offset, need)
  BY <1>1 DEF Block, Pool!Block
<1>5. CASE old = NIL
  <2>1. held' = held \cup {ret'}
    BY <1>1, <1>5 DEF IInv, TypeOK
  <2>2. Pool!Grant(need)
    BY <1>3, <1>4, <2>1 DEF Pool!Grant
  <2> QED BY <1>2, <2>2 DEF Pool!Next
<1>6. CASE old # NIL
  <2>1. old \in held
    BY <1>6 DEF IInv, ReadyInv
  <2>2. Pool!Move(old, need)
    BY <1>1, <1>3, <1>4 DEF Pool!Move
  <2> QED BY <1>2, <2>1, <2>2 DEF Pool!Next
<1> QED BY <1>5, <1>6

LEMMA NextPool == IInv /\ [Next]_vars => [Pool!Next]_<<held, ret>>
<1> SUFFICES ASSUME IInv, [Next]_vars PROVE [Pool!Next]_<<held, ret>>
  OBVIOUS
<1>1. CASE Initialise \/ Scan \/ Mark \/ Clear \/ ClearDone \/ UNCHANGED vars
  BY <1>1 DEF Initialise, Scan, Mark, Clear, ClearDone, vars
<1>2. CASE ScanFails
  BY <1>2, FailsRefuses DEF Pool!Next
<1>3. CASE MarkDone
  BY <1>3, DoneGrants
<1>4. ASSUME NEW size \in Sizes, NEW b \in held \cup {NIL}, Request(size, b)
      PROVE  [Pool!Next]_<<held, ret>>
  BY <1>4 DEF Request, Pool!Next, Pool!RefuseEmpty
<1>5. ASSUME NEW b \in held, myfree(b) PROVE [Pool!Next]_<<held, ret>>
  BY <1>5 DEF myfree, Pool!Next, Pool!Release
<1> QED BY <1>1, <1>2, <1>3, <1>4, <1>5 DEF Next

\* The search and marking loops implement the pool: highest fit, and refusal
\* only when nothing fits.
THEOREM ImplementsPool == Spec => RefinesPool
<1>1. Init => Pool!Init
  BY DEF Init, Pool!Init
<1> QED BY <1>1, Invariance, NextPool, PTL DEF Spec, RefinesPool, Pool!Spec

\* my_mem_preused counts the cells of the blocks that are held.
THEOREM UsageIsExact == Spec => []UsageExact
<1>1. IInv => UsageExact
  <2> SUFFICES ASSUME IInv, memreadyflag, pc = "idle"
               PROVE  {c \in Idx : memmap[c] # 0} = UNION {Cells(b) : b \in held}
    BY DEF UsageExact, my_mem_preused
  <2>1. \A b \in held : b \in Blocks /\ Cells(b) \subseteq Idx
    BY DEF IInv, TypeOK, Disjoint
  <2>2. \A b \in held : \A c \in Cells(b) : memmap[c] # 0
    BY <2>1, BlockFacts DEF IInv, TableDescribes
  <2>3. \A c \in Idx : memmap[c] # 0 => \E b \in held : c \in Cells(b)
    BY DEF IInv, TableDescribes, Marked, ToClear
  <2> QED
    BY <2>1, <2>2, <2>3
<1> QED
  BY <1>1, Invariance, PTL

\* The run's invariant, for every bank, cell size and request.
THEOREM AllocatorIsSound == Spec => []AllocatorSound
<1>1. IInv /\ LoopsStayInside /\ UsageExact => AllocatorSound
  BY DEF AllocatorSound
<1> QED
  BY <1>1, Invariance, LoopsAreContained, UsageIsExact, PTL

-----------------------------------------------------------------------------
(* The packet buffers.                                                     *)

\* The assumption on the constants, in parts.
LEMMA PbufConstants ==
  /\ PoolSize \in Nat /\ PoolSize > 0 /\ BufSize \in Nat /\ BufSize > 0
  /\ MostHeld \in Nat /\ MostHeld > 0 /\ Headers \in 0 .. BufSize - 1
  /\ LongestPacket \in Nat /\ NULL \notin Pbuf
BY PbufAssumption DEF PbufAssumption, Pbuf, NULL

-----------------------------------------------------------------------------
(* Walks.                                                                  *)

\* What a walk follows.
Steps == [Pbuf -> Pbuf \cup {NULL}]

\* No set of buffers is left by no step.
Ending(step) == \A S \in SUBSET Pbuf : S # {} => \E q \in S : step[q] \notin S

\* What a walk comes to: its first buffer and, with a buffer, the next one.
LEMMA ReachedClosed ==
  ASSUME NEW step \in Steps, NEW p \in Pbuf \cup {NULL}
  PROVE  /\ Reached(step, p) \subseteq Pbuf
         /\ p \in Pbuf => p \in Reached(step, p)
         /\ \A r \in Reached(step, p) : step[r] \in Reached(step, p) \cup {NULL}
<1>1. Reached(step, p) \subseteq Pbuf
  BY DEF Reached
<1>2. p \in Pbuf => p \in Reached(step, p)
  BY PbufConstants DEF Reached
<1>3. ASSUME NEW r \in Reached(step, p), step[r] # NULL PROVE step[r] \in Reached(step, p)
  <2>1. r \in Pbuf /\ step[r] \in Pbuf
    BY <1>1, <1>3 DEF Steps
  <2>2. ASSUME NEW S \in SUBSET Pbuf, {p} \ {NULL} \subseteq S,
               \A q \in S : step[q] \in S \cup {NULL}
        PROVE  step[r] \in S
    <3>1. r \in S
      BY <2>2 DEF Reached
    <3> QED
      BY <1>3, <2>2, <3>1
  <2> QED
    BY <2>1, <2>2 DEF Reached
<1> QED
  BY <1>1, <1>2, <1>3

\* And nothing else.
LEMMA ReachedLeast ==
  ASSUME NEW step \in Steps, NEW p \in Pbuf \cup {NULL},
         NEW S \in SUBSET Pbuf, p \in Pbuf => p \in S,
         \A r \in S : step[r] \in S \cup {NULL}
  PROVE  Reached(step, p) \subseteq S
<1>1. {p} \ {NULL} \subseteq S
  OBVIOUS
<1> QED
  BY <1>1, Zenon DEF Reached

\* All but the first one is reached by a step.
LEMMA ReachedBefore ==
  ASSUME NEW step \in Steps, NEW p \in Pbuf \cup {NULL}, NEW q \in Reached(step, p), q # p
  PROVE  \E r \in Reached(step, p) : step[r] = q
<1> SUFFICES ASSUME \A r \in Reached(step, p) : step[r] # q PROVE FALSE
  OBVIOUS
<1> DEFINE R == Reached(step, p)
           S == R \ {q}
<1>1. /\ R \subseteq Pbuf /\ (p \in Pbuf => p \in R)
      /\ \A r \in R : step[r] \in R \cup {NULL}
  BY ReachedClosed
<1> HIDE DEF R
<1>2. S \in SUBSET Pbuf /\ (p \in Pbuf => p \in S)
  BY <1>1
<1>3. \A r \in S : step[r] \in S \cup {NULL}
  BY <1>1 DEF R
<1>4. R \subseteq S
  <2> HIDE DEF S
  <2> QED
    BY <1>2, <1>3, ReachedLeast DEF R
<1> QED
  BY <1>4 DEF R

\* A walk is its first buffer and the walk from the next one.
LEMMA ReachedFrom ==
  ASSUME NEW step \in Steps, NEW p \in Pbuf
  PROVE  Reached(step, p) \subseteq {p} \cup Reached(step, step[p])
<1>1. step[p] \in Pbuf \cup {NULL}
  BY DEF Steps
<1> DEFINE R == Reached(step, step[p])
           S == {p} \cup R
<1>2. /\ R \subseteq Pbuf /\ (step[p] \in Pbuf => step[p] \in R)
      /\ \A r \in R : step[r] \in R \cup {NULL}
  BY <1>1, ReachedClosed
<1> HIDE DEF R
<1>3. S \in SUBSET Pbuf /\ p \in S /\ \A r \in S : step[r] \in S \cup {NULL}
  BY <1>1, <1>2
<1> HIDE DEF S
<1>4. Reached(step, p) \subseteq S
  BY <1>3, ReachedLeast
<1> QED
  BY <1>4 DEF S, R

\* A walk that ends ends in one place.
LEMMA OneEnd ==
  ASSUME NEW step \in Steps, Ending(step), NEW p \in Pbuf,
         NEW a \in Reached(step, p), NEW b \in Reached(step, p),
         step[a] = NULL, step[b] = NULL
  PROVE  a = b
<1> SUFFICES ASSUME a # b PROVE FALSE
  OBVIOUS
<1> DEFINE From(q) == Reached(step, q)
           S == {q \in Pbuf : a \in From(q) /\ b \in From(q)}
<1>1. ASSUME NEW q \in S PROVE step[q] \in S
  <2>1. q \in Pbuf /\ a \in From(q) /\ b \in From(q)
    OBVIOUS
  <2>2. step[q] \in Pbuf \cup {NULL}
    BY <2>1 DEF Steps
  <2>3. From(q) \subseteq {q} \cup From(step[q])
    BY <2>1, ReachedFrom
  <2>4. step[q] = NULL => From(step[q]) = {}
    <3>1. step[q] = NULL => From(NULL) \subseteq {}
      <4>1. {} \in SUBSET Pbuf /\ NULL \in Pbuf \cup {NULL} /\ (NULL \in Pbuf => NULL \in {})
            /\ \A r \in {} : step[r] \in {} \cup {NULL}
        BY PbufConstants
      <4> QED
        BY <4>1, ReachedLeast
    <3> QED
      BY <3>1
  <2> HIDE DEF From
  <2>5. CASE q = a \/ q = b
    <3>1. From(q) \subseteq {q}
      BY <2>3, <2>4, <2>5
    <3> QED
      BY <2>1, <3>1
  <2>6. CASE q # a /\ q # b
    <3>1. a \in From(step[q]) /\ b \in From(step[q])
      BY <2>1, <2>3, <2>6
    <3> QED
      BY <2>2, <2>4, <3>1
  <2> QED
    BY <2>5, <2>6
<1>2. p \in S
  OBVIOUS
<1>3. S \in SUBSET Pbuf /\ S # {}
  BY <1>2
<1> HIDE DEF S
<1> QED
  BY <1>1, <1>3 DEF Ending

\* A walk that ends leaves every set that it is closed in through NULL.
LEMMA WalkEnds ==
  ASSUME NEW step \in Steps, Ending(step), NEW p \in Pbuf
  PROVE  \E q \in Reached(step, p) : step[q] = NULL
<1> DEFINE R == Reached(step, p)
<1>1. R \in SUBSET Pbuf /\ p \in R /\ \A r \in R : step[r] \in R \cup {NULL}
  BY ReachedClosed
<1> HIDE DEF R
<1>2. PICK q \in R : step[q] \notin R
  BY <1>1 DEF Ending
<1> QED
  BY <1>1, <1>2 DEF R

-----------------------------------------------------------------------------
(* Pools.  s is a pool, h how many references the callers hold, and x a    *)
(* buffer that the code in hand holds one more to, or NULL.                *)

\* The types.
Entries == [next : Pbuf \cup {NULL}, ref : Nat, len : 0 .. BufSize,
            tot_len : Nat, room : 0 .. BufSize]
Pools   == [Pbuf -> Entries]
Held    == [Pbuf -> Nat]

\* The pointers, and whether one is to p.
NextIn(s) == [q \in Pbuf |-> s[q].next]
Pointed(s, p) == \E q \in Pbuf : s[q].next = p

\* No two buffers point to the same one, and no chain closes on itself.
Chained(s) ==
  /\ \A q, r \in Pbuf : s[q].next = s[r].next /\ s[q].next # NULL => q = r
  /\ \A S \in SUBSET Pbuf : S # {} => \E q \in S : s[q].next \notin S

\* The buffers of memp's list are cleared, the others' payload fits.
Kept(s) == \A q \in Pbuf : /\ s[q].ref = 0 => s[q] = Unused
                           /\ s[q].len + s[q].room <= BufSize

\* Each counts the pointers and the references to it.
One(c) == IF c THEN 1 ELSE 0
Counted(s, h, x) ==
  \A p \in Pbuf : s[p].ref = h[p] + One(Pointed(s, p)) + One(p = x)

\* What holds of a pool throughout.
PoolInv(s, h, x) ==
  s \in Pools /\ Chained(s) /\ Kept(s) /\ Counted(s, h, x)

\* A buffer's tot_len; missing is what follows a chain's last one.
Measured(s, q, missing) ==
  s[q].tot_len = s[q].len + IF s[q].next = NULL THEN missing ELSE s[s[q].next].tot_len

\* What these say of a buffer.
LEMMA EntryTypes ==
  ASSUME NEW s \in Pools, NEW q \in Pbuf
  PROVE  /\ s[q] \in Entries /\ s[q].next \in Pbuf \cup {NULL} /\ s[q].ref \in Nat
         /\ s[q].len \in Nat /\ s[q].len <= BufSize /\ s[q].tot_len \in Nat
         /\ s[q].room \in Nat /\ s[q].room <= BufSize
<1>1. s[q] \in Entries
  BY DEF Pools
<1> QED
  BY <1>1, PbufConstants DEF Entries

\* A cleared buffer is one.
LEMMA UnusedTypes ==
  /\ Unused \in Entries /\ Unused.next = NULL /\ Unused.ref = 0
  /\ Unused.len = 0 /\ Unused.tot_len = 0 /\ Unused.room = 0
<1>1. 0 \in 0 .. BufSize
  BY PbufConstants
<1> QED
  BY <1>1 DEF Unused, Entries

\* The walks along chains end.
LEMMA NextTypes ==
  ASSUME NEW s \in Pools, Chained(s)
  PROVE  /\ NextIn(s) \in Steps /\ Ending(NextIn(s))
         /\ \A q \in Pbuf : NextIn(s)[q] = s[q].next
<1>1. \A q \in Pbuf : s[q].next \in Pbuf \cup {NULL}
  BY EntryTypes
<1> QED
  BY <1>1 DEF NextIn, Steps, Ending, Chained

\* Some of the links of chains make chains.
LEMMA FewerLinks ==
  ASSUME NEW s, Chained(s), NEW t,
         \A q \in Pbuf : t[q].next = s[q].next \/ t[q].next = NULL
  PROVE  Chained(t)
<1>1. ASSUME NEW q \in Pbuf, NEW r \in Pbuf, t[q].next = t[r].next, t[q].next # NULL
      PROVE  q = r
  <2>1. t[q].next = s[q].next /\ t[r].next = s[r].next
    BY <1>1
  <2> QED
    BY <1>1, <2>1 DEF Chained
<1>2. ASSUME NEW S \in SUBSET Pbuf, S # {} PROVE \E q \in S : t[q].next \notin S
  <2>1. PICK q \in S : s[q].next \notin S
    BY <1>2 DEF Chained
  <2>2. NULL \notin S
    BY PbufConstants
  <2>3. q \in Pbuf
    OBVIOUS
  <2> QED
    BY <2>1, <2>2, <2>3
<1> QED
  BY <1>1, <1>2 DEF Chained

-----------------------------------------------------------------------------
(* pbuf_free.                                                              *)

\* The walk of pbuf_free.
FreeStep(s) == [q \in Pbuf |-> IF s[q].ref > 1 THEN NULL ELSE s[q].next]

\* What pbuf_free makes of a buffer.
LEMMA FreedIs ==
  ASSUME NEW s, NEW x, NEW q \in Pbuf
  PROVE  Freed_from(s, x)[q] = IF q \notin Reached(FreeStep(s), x) THEN s[q]
                               ELSE IF s[q].ref > 1 THEN [s[q] EXCEPT !.ref = @ - 1]
                               ELSE Unused
<1> HIDE DEF Reached
<1> QED
  BY DEF Freed_from, FreeStep

\* pbuf_free takes x's reference, and with it those of the chain behind that
\* nobody else refers to; what stays is measured as before.
LEMMA FreedKeeps ==
  ASSUME NEW s, NEW h \in Held, NEW x \in Pbuf \cup {NULL}, PoolInv(s, h, x)
  PROVE  /\ PoolInv(Freed_from(s, x), h, NULL)
         /\ \A q \in Pbuf :
              \/ Measured(s, q, 0)
              \/ q \in Reached(FreeStep(s), x) /\ s[q].ref <= 1
              => Measured(Freed_from(s, x), q, 0)
<1> DEFINE t == Freed_from(s, x)
           P == Reached(FreeStep(s), x)
           D == {q \in P : s[q].ref <= 1}
<1>1. /\ s \in Pools /\ Chained(s) /\ Kept(s) /\ Counted(s, h, x)
      /\ \A q, r \in Pbuf : s[q].next = s[r].next /\ s[q].next # NULL => q = r
  BY DEF PoolInv, Chained
<1>2. \A q \in Pbuf : /\ s[q].next \in Pbuf \cup {NULL} /\ s[q].ref \in Nat
                      /\ s[q] \in Entries
  BY <1>1, EntryTypes
<1>3. FreeStep(s) \in Steps
      /\ \A q \in Pbuf : FreeStep(s)[q] = IF s[q].ref > 1 THEN NULL ELSE s[q].next
  BY <1>2 DEF FreeStep, Steps
<1>4. /\ P \subseteq Pbuf /\ (x \in Pbuf => x \in P)
      /\ \A r \in P : FreeStep(s)[r] \in P \cup {NULL}
  BY <1>3, ReachedClosed
<1>5. \A q \in P : q # x => \E r \in P : FreeStep(s)[r] = q
  BY <1>3, ReachedBefore
<1>6. \A q \in Pbuf : t[q] = IF q \notin P THEN s[q]
                             ELSE IF s[q].ref > 1 THEN [s[q] EXCEPT !.ref = @ - 1]
                             ELSE Unused
  BY FreedIs
<1>7. t = [q \in Pbuf |-> t[q]]
  BY DEF Freed_from
<1> HIDE DEF t, P
<1>8. D \subseteq Pbuf /\ \A q \in Pbuf : q \in D <=> q \in P /\ ~(s[q].ref > 1)
  BY <1>2, <1>4
<1> HIDE DEF D
\* A buffer with the walk's reference is passed with another one before it.
<1>9. ASSUME NEW q \in P, q # x
      PROVE  \E r \in D : s[r].next = q
  <2>1. PICK r \in P : FreeStep(s)[r] = q
    BY <1>5, <1>9
  <2>2. r \in Pbuf /\ q \in Pbuf /\ q # NULL
    BY <1>4, <1>9, PbufConstants
  <2>3. ~(s[r].ref > 1) /\ s[r].next = q
    BY <1>3, <2>1, <2>2
  <2> QED
    BY <1>8, <2>2, <2>3
<1>10. ASSUME NEW r \in D PROVE s[r].next \in P \cup {NULL}
  BY <1>3, <1>4, <1>8
\* What is given back was pointed to by what is given back, or by nothing.
<1>11. ASSUME NEW q \in D
       PROVE  h[q] = 0 /\ \A r \in Pbuf : s[r].next = q => r \in D
  <2>1. /\ q \in Pbuf /\ q \in P /\ ~(s[q].ref > 1) /\ h[q] \in Nat
        /\ s[q].ref = h[q] + One(Pointed(s, q)) + One(q = x) /\ q # NULL
    BY <1>1, <1>8, PbufConstants DEF Counted, Held
  <2>2. CASE q = x
    <3>1. One(q = x) = 1 /\ One(Pointed(s, q)) \in {0, 1}
      BY <2>2 DEF One
    <3>2. h[q] = 0 /\ One(Pointed(s, q)) = 0
      BY <1>2, <2>1, <3>1
    <3>3. ~Pointed(s, q)
      BY <3>2 DEF One
    <3> QED
      BY <3>2, <3>3 DEF Pointed
  <2>3. CASE q # x
    <3>1. PICK r \in D : s[r].next = q
      BY <1>9, <2>1, <2>3
    <3>2. Pointed(s, q)
      BY <1>8, <3>1 DEF Pointed
    <3>3. One(Pointed(s, q)) = 1 /\ One(q = x) \in {0, 1}
      BY <3>2 DEF One
    <3>4. h[q] = 0
      BY <1>2, <2>1, <3>3
    <3>5. \A u \in Pbuf : s[u].next = q => u = r
      BY <1>1, <1>8, <2>1, <3>1
    <3> QED
      BY <3>1, <3>4, <3>5
  <2> QED
    BY <2>2, <2>3
<1>12. \A q \in Pbuf : /\ q \in D => t[q] = Unused
                       /\ q \notin D => /\ t[q].next = s[q].next /\ t[q].len = s[q].len
                                        /\ t[q].tot_len = s[q].tot_len
                                        /\ t[q].room = s[q].room /\ t[q] \in Entries
                                        /\ t[q].ref = IF q \in P THEN s[q].ref - 1 ELSE s[q].ref
  <2> SUFFICES ASSUME NEW q \in Pbuf
               PROVE  /\ q \in D => t[q] = Unused
                      /\ q \notin D => /\ t[q].next = s[q].next /\ t[q].len = s[q].len
                                       /\ t[q].tot_len = s[q].tot_len
                                       /\ t[q].room = s[q].room /\ t[q] \in Entries
                                       /\ t[q].ref = IF q \in P THEN s[q].ref - 1 ELSE s[q].ref
    OBVIOUS
  <2>1. s[q] \in Entries /\ s[q].ref \in Nat
    BY <1>2
  <2>2. CASE q \notin P
    BY <1>6, <1>8, <2>1, <2>2
  <2>3. CASE q \in P /\ s[q].ref > 1
    <3>1. t[q] = [s[q] EXCEPT !.ref = @ - 1] /\ s[q].ref - 1 \in Nat
      BY <1>6, <2>1, <2>3
    <3> QED
      BY <1>8, <2>1, <2>3, <3>1 DEF Entries
  <2>4. CASE q \in D
    BY <1>6, <1>8, <2>4
  <2> QED
    BY <1>8, <2>2, <2>3, <2>4
<1>13. t \in Pools
  <2>1. \A q \in Pbuf : t[q] \in Entries
    BY <1>12, UnusedTypes
  <2> QED
    BY <1>7, <2>1 DEF Pools
<1>14. Chained(t)
  <2>1. \A q \in Pbuf : t[q].next = s[q].next \/ t[q].next = NULL
    BY <1>12, UnusedTypes
  <2> QED
    BY <1>1, <2>1, FewerLinks
<1>15. Kept(t)
  <2>1. ASSUME NEW q \in Pbuf
        PROVE  (t[q].ref = 0 => t[q] = Unused) /\ t[q].len + t[q].room <= BufSize
    <3>1. CASE q \in D
      BY <1>12, <3>1, UnusedTypes, PbufConstants
    <3>2. CASE q \notin D /\ q \in P
      <4>1. s[q].ref > 1 /\ t[q].ref = s[q].ref - 1
        BY <1>8, <1>12, <3>2
      <4>2. t[q].ref # 0
        BY <1>2, <4>1
      <4> QED
        BY <1>1, <1>12, <3>2, <4>2 DEF Kept
    <3>3. CASE q \notin P
      BY <1>1, <1>6, <3>3 DEF Kept
    <3> QED
      BY <3>1, <3>2, <3>3
  <2> QED
    BY <2>1 DEF Kept
<1>16. Counted(t, h, NULL)
  <2>1. ASSUME NEW q \in Pbuf
        PROVE  t[q].ref = h[q] + One(Pointed(t, q)) + One(q = NULL)
    <3>1. One(q = NULL) = 0 /\ h[q] \in Nat /\ q # NULL
      BY PbufConstants DEF One, Held
    <3>2. \A r \in Pbuf : t[r].next = q <=> s[r].next = q /\ r \notin D
      BY <1>12, <3>1, UnusedTypes
    <3>3. s[q].ref = h[q] + One(Pointed(s, q)) + One(q = x)
      BY <1>1 DEF Counted
    <3>4. CASE q \in D
      <4>1. ~Pointed(t, q)
        BY <1>11, <3>2, <3>4 DEF Pointed
      <4> QED
        BY <1>11, <1>12, <3>1, <3>4, <4>1, UnusedTypes DEF One
    <3>5. CASE q \in P /\ q \notin D /\ q = x
      <4>1. ASSUME NEW r \in D, s[r].next = q PROVE FALSE
        <5>1. FreeStep(s)[x] = NULL
          BY <1>3, <1>8, <3>5
        <5>2. {x} \in SUBSET Pbuf /\ (x \in Pbuf => x \in {x}) /\ x \in Pbuf \cup {NULL}
              /\ \A u \in {x} : FreeStep(s)[u] \in {x} \cup {NULL}
          BY <3>5, <5>1
        <5>3. P \subseteq {x}
          <6> HIDE DEF FreeStep, Steps
          <6> QED
            BY <1>3, <5>2, ReachedLeast DEF P
        <5>4. r = x
          BY <1>8, <5>3
        <5> QED
          BY <3>5, <5>4
      <4>2. Pointed(t, q) <=> Pointed(s, q)
        BY <3>2, <4>1 DEF Pointed
      <4>3. s[q].ref = h[q] + One(Pointed(t, q)) + 1
        BY <3>3, <3>5, <4>2 DEF One
      <4>4. One(Pointed(t, q)) \in {0, 1}
        BY DEF One
      <4> QED
        BY <1>12, <3>1, <3>5, <4>3, <4>4
    <3>6. CASE q \in P /\ q \notin D /\ q # x
      <4>1. PICK r \in D : s[r].next = q
        BY <1>9, <3>6
      <4>2. \A u \in Pbuf : s[u].next = q => u = r
        BY <1>1, <1>8, <3>1, <4>1
      <4>3. ~Pointed(t, q) /\ Pointed(s, q)
        BY <1>8, <3>2, <4>1, <4>2 DEF Pointed
      <4>4. s[q].ref = h[q] + 1 /\ One(Pointed(t, q)) = 0
        BY <3>1, <3>3, <3>6, <4>3 DEF One
      <4> QED
        BY <1>12, <3>1, <3>6, <4>4
    <3>7. CASE q \notin P
      <4>1. \A r \in Pbuf : s[r].next = q => r \notin D
        BY <1>10, <3>1, <3>7
      <4>2. Pointed(t, q) <=> Pointed(s, q)
        BY <3>2, <4>1 DEF Pointed
      <4>3. q # x
        BY <1>4, <3>7
      <4>4. One(q = x) = 0 /\ One(Pointed(t, q)) = One(Pointed(s, q)) /\ t[q] = s[q]
        BY <1>6, <3>7, <4>2, <4>3 DEF One
      <4> QED
        BY <3>1, <3>3, <4>4
    <3> QED
      BY <1>8, <3>4, <3>5, <3>6, <3>7
  <2> QED
    BY <2>1 DEF Counted
<1>17. ASSUME NEW q \in Pbuf, Measured(s, q, 0) \/ q \in D
       PROVE  Measured(t, q, 0)
  <2>1. CASE q \in D
    BY <1>12, <2>1, UnusedTypes DEF Measured
  <2>2. CASE q \notin D
    <3>1. s[q].next # NULL => s[q].next \in Pbuf /\ s[q].next \notin D
      BY <1>2, <1>11, <2>2
    <3>2. t[q].next = s[q].next /\ t[q].len = s[q].len /\ t[q].tot_len = s[q].tot_len
      BY <1>12, <2>2
    <3>3. s[q].next # NULL => t[s[q].next].tot_len = s[s[q].next].tot_len
      BY <1>12, <3>1
    <3> QED
      BY <1>17, <2>2, <3>2, <3>3 DEF Measured
  <2> QED
    BY <2>1, <2>2
<1>18. PoolInv(t, h, NULL)
  BY <1>13, <1>14, <1>15, <1>16 DEF PoolInv
<1>19. \A q \in Pbuf : Measured(s, q, 0) \/ (q \in P /\ s[q].ref <= 1) => Measured(t, q, 0)
  BY <1>17 DEF D
<1> QED
  BY <1>18, <1>19 DEF t, P

-----------------------------------------------------------------------------
(* pbuf_cat and pbuf_chain.                                                *)

\* Every length is that of the chain from there on.
Exact(s) == \A q \in Pbuf : Measured(s, q, 0)

\* A chain is a walk.
LEMMA MembersIs ==
  ASSUME NEW s, NEW p
  PROVE  Members(s, p) = Reached(NextIn(s), p)
BY DEF Members, NextIn

\* The chain of a is closed, and nothing outside points into it.
LEMMA ChainApart ==
  ASSUME NEW s \in Pools, Chained(s), NEW a \in Pbuf, ~Pointed(s, a)
  PROVE  /\ Members(s, a) \subseteq Pbuf /\ a \in Members(s, a)
         /\ \A q \in Members(s, a) : s[q].next \in Members(s, a) \cup {NULL}
         /\ \A q \in Pbuf : s[q].next \in Members(s, a) => q \in Members(s, a)
         /\ \E e \in Members(s, a) :
              s[e].next = NULL /\ \A q \in Members(s, a) : s[q].next = NULL => q = e
<1> DEFINE M == Members(s, a)
<1>1. /\ NextIn(s) \in Steps /\ Ending(NextIn(s))
      /\ \A q \in Pbuf : NextIn(s)[q] = s[q].next
  BY NextTypes
<1>2. M = Reached(NextIn(s), a)
  BY MembersIs
<1> HIDE DEF M
<1>3. M \subseteq Pbuf /\ a \in M /\ \A r \in M : NextIn(s)[r] \in M \cup {NULL}
  BY <1>1, <1>2, ReachedClosed
<1>4. \A q \in M : s[q].next \in M \cup {NULL}
  BY <1>1, <1>3
<1>5. ASSUME NEW q \in Pbuf, s[q].next \in M PROVE q \in M
  <2>1. s[q].next # a
    BY <1>5 DEF Pointed
  <2>2. PICK r \in M : NextIn(s)[r] = s[q].next
    BY <1>1, <1>2, <1>5, <2>1, ReachedBefore
  <2>3. s[r].next = s[q].next /\ s[q].next # NULL /\ r \in Pbuf
    BY <1>1, <1>3, <1>5, <2>2, PbufConstants
  <2>4. r = q
    BY <2>3 DEF Chained
  <2> QED
    BY <2>2, <2>4
<1>6. PICK e \in M : NextIn(s)[e] = NULL
  BY <1>1, <1>2, WalkEnds
<1>7. ASSUME NEW q \in M, s[q].next = NULL PROVE q = e
  <2>1. NextIn(s)[q] = NULL
    BY <1>1, <1>3, <1>7
  <2> QED
    BY <1>1, <1>2, <1>6, <2>1, OneEnd
<1>8. s[e].next = NULL
  BY <1>1, <1>3, <1>6
<1> QED
  BY <1>3, <1>4, <1>5, <1>7, <1>8 DEF M

\* Joining two packets: t's first buffer is pointed to, and nothing else changes
\* but the lengths.
LEMMA CatKeeps ==
  ASSUME NEW s \in Pools, Chained(s), Kept(s), Exact(s), NEW a \in Pbuf, NEW b \in Pbuf, a # b,
         ~Pointed(s, a), ~Pointed(s, b), \A q \in Members(s, a) : s[q].ref = 1
  PROVE  /\ Cat(s, a, b) \in Pools /\ Chained(Cat(s, a, b)) /\ Kept(Cat(s, a, b))
         /\ Exact(Cat(s, a, b))
         /\ \A q \in Pbuf : Cat(s, a, b)[q].ref = s[q].ref
         /\ \A q \in Pbuf : Pointed(Cat(s, a, b), q) <=> Pointed(s, q) \/ q = b
<1> DEFINE t == Cat(s, a, b)
           M == Members(s, a)
<1>1. /\ M \subseteq Pbuf /\ a \in M
      /\ \A q \in M : s[q].next \in M \cup {NULL}
      /\ \A q \in Pbuf : s[q].next \in M => q \in M
  BY ChainApart
<1>2. PICK e \in M : s[e].next = NULL /\ \A q \in M : s[q].next = NULL => q = e
  BY ChainApart
<1>3. \A q \in Pbuf : t[q] = IF q \notin M THEN s[q]
                             ELSE [s[q] EXCEPT !.tot_len = @ + s[b].tot_len,
                                               !.next = IF @ = NULL THEN b ELSE @]
  <2> HIDE DEF Members
  <2> QED
    BY DEF Cat
<1>4. t = [q \in Pbuf |-> t[q]] /\ \A q \in M : s[q].ref = 1
  BY DEF Cat
<1> HIDE DEF t, M
<1>5. b \notin M
  <2> SUFFICES ASSUME b \in M PROVE FALSE
    OBVIOUS
  <2>1. NextIn(s) \in Steps /\ \A q \in Pbuf : NextIn(s)[q] = s[q].next
    BY NextTypes
  <2>2. PICK r \in M : NextIn(s)[r] = b
    BY <2>1, ReachedBefore, MembersIs DEF M
  <2> QED
    BY <1>1, <2>1, <2>2 DEF Pointed
<1>6. \A q \in Pbuf : s[q] \in Entries /\ s[q].tot_len \in Nat
  BY EntryTypes
<1>7. ASSUME NEW q \in M
      PROVE  /\ t[q] \in Entries /\ t[q].ref = s[q].ref /\ t[q].len = s[q].len
             /\ t[q].room = s[q].room /\ t[q].tot_len = s[q].tot_len + s[b].tot_len
             /\ t[q].next = IF q = e THEN b ELSE s[q].next
  <2>1. q \in Pbuf /\ t[q] = [s[q] EXCEPT !.tot_len = @ + s[b].tot_len,
                                          !.next = IF @ = NULL THEN b ELSE @]
    BY <1>1, <1>3
  <2>2. s[q] \in Entries /\ s[b].tot_len \in Nat /\ (s[q].next = NULL <=> q = e)
    BY <1>2, <1>6, <2>1
  <2>3. s[q].next \in Pbuf \cup {NULL}
    BY <2>2 DEF Entries
  <2> DEFINE n == IF s[q].next = NULL THEN b ELSE s[q].next
             l == s[q].tot_len + s[b].tot_len
  <2>4. n \in Pbuf \cup {NULL} /\ n = IF q = e THEN b ELSE s[q].next
    BY <2>2, <2>3
  <2>5. l \in Nat
    BY <1>6, <2>1, <2>2
  <2>6. t[q] = [s[q] EXCEPT !.tot_len = l, !.next = n]
    BY <2>1, <2>2 DEF Entries
  <2> HIDE DEF n, l
  <2>7. /\ t[q] \in Entries /\ t[q].ref = s[q].ref /\ t[q].len = s[q].len
        /\ t[q].room = s[q].room /\ t[q].tot_len = l /\ t[q].next = n
    BY <2>2, <2>4, <2>5, <2>6 DEF Entries
  <2> QED
    BY <2>4, <2>7 DEF l
<1>8. \A q \in Pbuf : q \notin M => t[q] = s[q]
  BY <1>3
<1>9. t \in Pools
  <2>1. \A q \in Pbuf : t[q] \in Entries
    BY <1>6, <1>7, <1>8
  <2> QED
    BY <1>4, <2>1 DEF Pools
<1>10. \A q \in Pbuf : t[q].next = IF q = e THEN b ELSE s[q].next
  BY <1>7, <1>8
<1>11. e \in Pbuf /\ b # NULL /\ NULL \notin Pbuf
  BY <1>1, PbufConstants
<1>12. Chained(t)
  <2>1. ASSUME NEW q \in Pbuf, NEW r \in Pbuf, t[q].next = t[r].next, t[q].next # NULL
        PROVE  q = r
    <3>1. CASE q = e \/ r = e
      BY <1>10, <2>1, <3>1 DEF Pointed
    <3>2. CASE q # e /\ r # e
      BY <1>10, <2>1, <3>2 DEF Chained
    <3> QED
      BY <3>1, <3>2
  <2>2. ASSUME NEW S \in SUBSET Pbuf, S # {}, \A q \in S : t[q].next \in S
        PROVE  FALSE
    <3>1. ASSUME NEW q \in S \ M PROVE s[q].next \in S \ M
      <4>1. q \in Pbuf /\ q # e /\ t[q].next = s[q].next
        BY <1>10, <3>1
      <4> QED
        BY <1>1, <2>2, <3>1, <4>1
    <3>2. S \ M = {}
      <4>1. S \ M \in SUBSET Pbuf
        OBVIOUS
      <4> QED
        BY <3>1, <4>1 DEF Chained
    <3>3. e \notin S
      <4>1. e \in S => b \in S
        BY <1>10, <1>11, <2>2
      <4> QED
        BY <1>5, <3>2, <4>1
    <3>4. \A q \in S : s[q].next \in S
      BY <1>10, <2>2, <3>3
    <3> QED
      BY <2>2, <3>4 DEF Chained
  <2> QED
    BY <2>1, <2>2 DEF Chained
<1>13. Kept(t)
  <2>1. ASSUME NEW q \in Pbuf
        PROVE  (t[q].ref = 0 => t[q] = Unused) /\ t[q].len + t[q].room <= BufSize
    <3>1. CASE q \in M
      BY <1>4, <1>7, <3>1 DEF Kept
    <3>2. CASE q \notin M
      BY <1>8, <3>2 DEF Kept
    <3> QED
      BY <3>1, <3>2
  <2> QED
    BY <2>1 DEF Kept
<1>14. ASSUME NEW q \in Pbuf PROVE Measured(t, q, 0)
  <2>1. /\ Measured(s, q, 0) /\ s[q].tot_len \in Nat /\ s[b].tot_len \in Nat
        /\ s[q].len \in Nat /\ s[q].next \in Pbuf \cup {NULL}
    BY EntryTypes DEF Exact
  <2>2. t[b] = s[b]
    BY <1>5, <1>8
  <2>3. CASE q \in M /\ q = e
    <3>1. s[q].tot_len = s[q].len
      BY <1>2, <2>1, <2>3 DEF Measured
    <3>2. t[q].tot_len = s[q].len + t[b].tot_len
      BY <1>7, <2>2, <2>3, <3>1
    <3> QED
      BY <1>7, <1>11, <2>3, <3>2 DEF Measured
  <2>4. CASE q \in M /\ q # e
    <3>1. s[q].next \in M /\ s[q].next # NULL
      BY <1>1, <1>2, <1>11, <2>4
    <3>2. /\ s[q].tot_len = s[q].len + s[s[q].next].tot_len
          /\ s[s[q].next].tot_len \in Nat
      BY <1>1, <1>6, <2>1, <3>1 DEF Measured
    <3>3. t[s[q].next].tot_len = s[s[q].next].tot_len + s[b].tot_len
      BY <1>7, <3>1
    <3>4. t[q].next = s[q].next /\ t[q].len = s[q].len
          /\ t[q].tot_len = s[q].tot_len + s[b].tot_len
      BY <1>7, <2>4
    <3>5. t[q].tot_len = t[q].len + t[s[q].next].tot_len
      BY <2>1, <3>2, <3>3, <3>4
    <3> QED
      BY <3>1, <3>4, <3>5 DEF Measured
  <2>5. CASE q \notin M
    <3>1. s[q].next # NULL => t[s[q].next] = s[s[q].next]
      BY <1>1, <1>8, <2>1, <2>5
    <3>2. t[q] = s[q]
      BY <1>8, <2>5
    <3> QED
      BY <2>1, <3>1, <3>2 DEF Measured
  <2> QED
    BY <2>3, <2>4, <2>5
<1>15. \A q \in Pbuf : t[q].ref = s[q].ref
  BY <1>7, <1>8
<1>16. ASSUME NEW q \in Pbuf PROVE Pointed(t, q) <=> Pointed(s, q) \/ q = b
  <2>1. t[e].next = b
    BY <1>10, <1>11
  <2>2. q # NULL
    BY <1>11
  <2> QED
    BY <1>2, <1>10, <1>11, <2>1, <2>2 DEF Pointed
<1> QED
  BY <1>9, <1>12, <1>13, <1>14, <1>15, <1>16 DEF t, Exact

-----------------------------------------------------------------------------
(* pbuf_realloc.                                                           *)

\* What is left to keep at each buffer of the packet.
LEMMA RemLenIs ==
  ASSUME NEW s \in Pools, Chained(s), Exact(s), NEW p \in Pbuf, ~Pointed(s, p), NEW n \in Nat
  PROVE  \A q \in Members(s, p) : RemLen(s, p, n)[q] = s[q].tot_len - s[p].tot_len + n
<1> DEFINE M == Members(s, p)
           Before(q) == CHOOSE r \in M : s[r].next = q
           Is(f) == f = [q \in M |-> IF q = p THEN n ELSE f[Before(q)] - s[Before(q)].len]
           rem == CHOOSE f : Is(f)
           g == [q \in M |-> s[q].tot_len - s[p].tot_len + n]
<1>1. /\ NextIn(s) \in Steps /\ \A q \in Pbuf : NextIn(s)[q] = s[q].next
  BY NextTypes
<1>2. M = Reached(NextIn(s), p)
  BY MembersIs
<1>3. M \subseteq Pbuf /\ p \in M /\ \A q \in M : s[q].next \in M \cup {NULL}
  BY ChainApart
<1>4. RemLen(s, p, n) = rem
  BY Zenon DEF RemLen
<1> HIDE DEF M
<1>5. ASSUME NEW q \in M, q # p
      PROVE  Before(q) \in M /\ s[Before(q)].next = q
  <2>1. \E r \in M : NextIn(s)[r] = q
    BY <1>1, <1>2, <1>5, ReachedBefore
  <2>2. \E r \in M : s[r].next = q
    BY <1>1, <1>3, <2>1
  <2> QED
    BY <2>2
<1>6. ASSUME NEW q \in M, s[q].next # NULL
      PROVE  s[s[q].next].tot_len = s[q].tot_len - s[q].len
  <2>1. s[q].tot_len \in Nat /\ s[q].len \in Nat /\ s[s[q].next].tot_len \in Nat
    BY <1>3, <1>6, EntryTypes
  <2> QED
    BY <1>3, <1>6, <2>1 DEF Exact, Measured
<1>7. Is(g)
  <2>1. ASSUME NEW q \in M
        PROVE  g[q] = IF q = p THEN n ELSE g[Before(q)] - s[Before(q)].len
    <3>1. s[q].tot_len \in Nat /\ s[p].tot_len \in Nat
      BY <1>3, EntryTypes
    <3>2. CASE q = p
      BY <3>1, <3>2
    <3>3. CASE q # p
      <4> DEFINE r == Before(q)
      <4>1. r \in M /\ s[r].next = q
        BY <1>5, <3>3
      <4> HIDE DEF r
      <4>2. s[r].tot_len \in Nat /\ s[r].len \in Nat /\ q # NULL
        BY <1>3, <4>1, EntryTypes, PbufConstants
      <4>3. s[q].tot_len = s[r].tot_len - s[r].len
        BY <1>6, <4>1, <4>2
      <4>4. g[q] = g[r] - s[r].len
        BY <3>1, <4>1, <4>2, <4>3
      <4> HIDE DEF g
      <4> QED
        BY <3>3, <4>4 DEF r
    <3> QED
      BY <3>2, <3>3
  <2>2. g = [q \in M |-> g[q]]
    OBVIOUS
  <2> HIDE DEF g, Before
  <2> QED
    BY <2>1, <2>2
<1>8. Is(rem)
  <2> HIDE DEF Is
  <2> QED
    BY <1>7, Zenon
<1>9. \A q \in M : rem[q] = IF q = p THEN n ELSE rem[Before(q)] - s[Before(q)].len
  <2> HIDE DEF rem, Before
  <2> QED
    BY <1>8
<1> HIDE DEF rem
<1> DEFINE S == {q \in M : rem[q] = s[q].tot_len - s[p].tot_len + n}
<1>10. p \in S
  <2>1. s[p].tot_len \in Nat /\ rem[p] = n
    BY <1>3, <1>9, EntryTypes
  <2> QED
    BY <1>3, <2>1
<1>11. ASSUME NEW q \in S PROVE s[q].next \in S \cup {NULL}
  <2> SUFFICES ASSUME s[q].next # NULL PROVE s[q].next \in S
    OBVIOUS
  <2> DEFINE u == s[q].next
  <2>1. q \in M /\ q \in Pbuf /\ u \in M /\ u \in Pbuf
    BY <1>3
  <2>2. u # p
    BY <2>1 DEF Pointed
  <2>3. Before(u) \in M /\ s[Before(u)].next = u
    BY <1>5, <2>1, <2>2
  <2>4. Before(u) = q
    <3>1. Before(u) \in Pbuf /\ s[Before(u)].next = s[q].next /\ s[Before(u)].next # NULL
      BY <1>3, <2>3
    <3> HIDE DEF Before
    <3> QED
      BY <2>1, <3>1 DEF Chained
  <2>5. rem[u] = rem[q] - s[q].len
    BY <1>9, <2>1, <2>2, <2>4
  <2>6. s[u].tot_len = s[q].tot_len - s[q].len
    BY <1>6, <2>1
  <2>7. s[q].tot_len \in Nat /\ s[p].tot_len \in Nat /\ s[q].len \in Nat
    BY <2>1, EntryTypes
  <2>8. rem[u] = s[u].tot_len - s[p].tot_len + n
    BY <2>5, <2>6, <2>7
  <2> QED
    BY <2>1, <2>8
<1>12. M \subseteq S
  <2>1. S \in SUBSET Pbuf /\ \A q \in S : NextIn(s)[q] \in S \cup {NULL}
    BY <1>1, <1>3, <1>11
  <2> HIDE DEF S
  <2> QED
    BY <1>1, <1>2, <1>10, <2>1, ReachedLeast
<1> QED
  BY <1>4, <1>12 DEF M

\* The buffers that the loop passes over, and the pool before the rest is freed.
PassedOver(s, p, n, q) == q \in Members(s, p) /\ RemLen(s, p, n)[q] > s[q].len
Walked(s, p, n) ==
  Reached([q \in Pbuf |-> IF PassedOver(s, p, n, q) THEN s[q].next ELSE NULL], p)
Shortened(s, p, n) ==
  [q \in Pbuf |->
     IF q \notin Walked(s, p, n) THEN s[q]
     ELSE IF PassedOver(s, p, n, q) THEN [s[q] EXCEPT !.tot_len = @ + n - s[p].tot_len]
     ELSE [s[q] EXCEPT !.len = RemLen(s, p, n)[q], !.tot_len = RemLen(s, p, n)[q],
                       !.next = NULL]]

\* pbuf_realloc is these two.
LEMMA CutIs ==
  ASSUME NEW s, NEW p, NEW n
  PROVE  Cut(s, p, n) =
           Freed_from(Shortened(s, p, n),
                      s[CHOOSE q \in Walked(s, p, n) : ~PassedOver(s, p, n, q)].next)
<1> HIDE DEF Reached, RemLen, Members, Freed_from
<1> QED
  BY Zenon DEF Cut, Shortened, Walked, PassedOver

\* The loop ends at a buffer with as much to keep as it holds, or less.
LEMMA WalkedTo ==
  ASSUME NEW s \in Pools, Chained(s), Exact(s), NEW p \in Pbuf, ~Pointed(s, p),
         NEW n \in Nat, n < s[p].tot_len
  PROVE  /\ Walked(s, p, n) \subseteq Members(s, p) /\ Walked(s, p, n) \subseteq Pbuf
         /\ p \in Walked(s, p, n)
         /\ \A q \in Walked(s, p, n) :
              /\ RemLen(s, p, n)[q] = s[q].tot_len - s[p].tot_len + n
              /\ RemLen(s, p, n)[q] \in Nat
              /\ PassedOver(s, p, n, q) => s[q].next \in Walked(s, p, n)
              /\ ~PassedOver(s, p, n, q) => RemLen(s, p, n)[q] <= s[q].len
              /\ q # p => \E r \in Walked(s, p, n) : s[r].next = q
         /\ \E e \in Walked(s, p, n) :
              /\ ~PassedOver(s, p, n, e)
              /\ \A q \in Walked(s, p, n) : ~PassedOver(s, p, n, q) => q = e
<1> DEFINE M == Members(s, p)
           rem == RemLen(s, p, n)
           Over(q) == PassedOver(s, p, n, q)
           W == Walked(s, p, n)
           step == [q \in Pbuf |-> IF Over(q) THEN s[q].next ELSE NULL]
<1>1. M \subseteq Pbuf /\ p \in M /\ \A q \in M : s[q].next \in M \cup {NULL}
  BY ChainApart
<1>2. \A q \in M : rem[q] = s[q].tot_len - s[p].tot_len + n
  BY RemLenIs
<1>3. \A q \in Pbuf : Over(q) <=> q \in M /\ rem[q] > s[q].len
  BY DEF PassedOver
<1>4. W = Reached(step, p)
  BY DEF Walked
<1> HIDE DEF M, rem, Over, W
<1>5. \A q \in Pbuf : s[q].next \in Pbuf \cup {NULL}
  BY EntryTypes
<1>6. step \in Steps /\ \A q \in Pbuf : step[q] = IF Over(q) THEN s[q].next ELSE NULL
  BY <1>5 DEF Steps
<1> HIDE DEF step
<1>7. Ending(step)
  <2> SUFFICES ASSUME NEW S \in SUBSET Pbuf, S # {} PROVE \E q \in S : step[q] \notin S
    BY DEF Ending
  <2>1. PICK q \in S : s[q].next \notin S
    BY DEF Chained
  <2> QED
    BY <1>6, <2>1, PbufConstants
<1>8. W \subseteq Pbuf /\ p \in W /\ \A q \in W : step[q] \in W \cup {NULL}
  BY <1>4, <1>6, ReachedClosed
<1>9. W \subseteq M
  <2>1. M \in SUBSET Pbuf /\ \A q \in M : step[q] \in M \cup {NULL}
    BY <1>1, <1>6
  <2> QED
    BY <1>1, <1>4, <1>6, <2>1, ReachedLeast
\* At the end of a chain there is less to keep than there is.
<1>10. ASSUME NEW q \in W, Over(q) PROVE s[q].next \in W
  <2>1. q \in M /\ q \in Pbuf /\ rem[q] > s[q].len
    BY <1>3, <1>8, <1>10
  <2>2. s[q].next # NULL
    <3> SUFFICES ASSUME s[q].next = NULL PROVE FALSE
      OBVIOUS
    <3>1. s[q].tot_len = s[q].len /\ s[q].len \in Nat /\ s[p].tot_len \in Nat
      BY <2>1, EntryTypes DEF Exact, Measured
    <3>2. rem[q] = s[q].len - s[p].tot_len + n
      BY <1>2, <2>1, <3>1
    <3> QED
      BY <2>1, <3>1, <3>2
  <2>3. step[q] = s[q].next
    BY <1>6, <1>10, <2>1
  <2> QED
    BY <1>8, <2>2, <2>3
<1>11. ASSUME NEW q \in W, q # p PROVE \E r \in W : s[r].next = q /\ Over(r)
  <2>1. PICK r \in W : step[r] = q
    BY <1>4, <1>6, <1>11, ReachedBefore
  <2>2. r \in Pbuf /\ q \in Pbuf /\ q # NULL
    BY <1>8, PbufConstants
  <2> QED
    BY <1>6, <2>1, <2>2
<1>12. ASSUME NEW q \in W PROVE rem[q] \in Nat
  <2>1. q \in M /\ q \in Pbuf /\ rem[q] = s[q].tot_len - s[p].tot_len + n
    BY <1>2, <1>8, <1>9
  <2>2. s[q].tot_len \in Nat /\ s[p].tot_len \in Nat
    BY <2>1, EntryTypes
  <2>3. CASE q = p
    BY <2>1, <2>2, <2>3
  <2>4. CASE q # p
    <3>1. PICK r \in W : s[r].next = q /\ Over(r)
      BY <1>11, <2>4
    <3>2. r \in Pbuf /\ r \in M /\ rem[r] > s[r].len /\ q # NULL
      BY <1>3, <1>8, <2>1, <3>1, PbufConstants
    <3>3. s[r].tot_len = s[r].len + s[q].tot_len /\ s[r].len \in Nat
      BY <3>1, <3>2, EntryTypes DEF Exact, Measured
    <3>4. rem[r] = s[r].tot_len - s[p].tot_len + n
      BY <1>2, <3>2
    <3> QED
      BY <2>1, <2>2, <3>2, <3>3, <3>4
  <2> QED
    BY <2>3, <2>4
<1>13. ASSUME NEW q \in W, ~Over(q) PROVE rem[q] <= s[q].len
  <2>1. q \in M /\ q \in Pbuf /\ ~(rem[q] > s[q].len) /\ rem[q] \in Nat
    BY <1>3, <1>8, <1>9, <1>12, <1>13
  <2>2. s[q].len \in Nat
    BY <2>1, EntryTypes
  <2> QED
    BY <2>1, <2>2
<1>14. PICK e \in W : step[e] = NULL
  BY <1>4, <1>6, <1>7, WalkEnds
<1>15. ~Over(e)
  BY <1>6, <1>8, <1>10, <1>14, PbufConstants
<1>16. ASSUME NEW q \in W, ~Over(q) PROVE q = e
  <2>1. step[q] = NULL
    BY <1>6, <1>8, <1>16
  <2> QED
    BY <1>4, <1>6, <1>7, <1>14, <2>1, OneEnd
<1>17. \A q \in W : rem[q] = s[q].tot_len - s[p].tot_len + n
  BY <1>2, <1>9
<1>18. \A q \in W : q # p => \E r \in W : s[r].next = q
  BY <1>11
<1> QED
  BY <1>8, <1>9, <1>10, <1>12, <1>13, <1>15, <1>16, <1>17, <1>18 DEF M, rem, Over, W

\* pbuf_realloc takes one pointer away, to what it then frees.
LEMMA CutKeeps ==
  ASSUME NEW s, NEW h \in Held, PoolInv(s, h, NULL), Exact(s),
         NEW p \in Pbuf, ~Pointed(s, p), s[p].ref > 0, NEW n \in Nat, n < s[p].tot_len
  PROVE  PoolInv(Cut(s, p, n), h, NULL) /\ Exact(Cut(s, p, n))
<1> DEFINE W == Walked(s, p, n)
           rem == RemLen(s, p, n)
           Over(q) == PassedOver(s, p, n, q)
           c == Shortened(s, p, n)
           last == CHOOSE q \in W : ~Over(q)
           x == s[last].next
           grow == n - s[p].tot_len
<1>1. /\ s \in Pools /\ Chained(s) /\ Kept(s) /\ Counted(s, h, NULL)
      /\ \A q, r \in Pbuf : s[q].next = s[r].next /\ s[q].next # NULL => q = r
  BY DEF PoolInv, Chained
<1>2. /\ W \subseteq Pbuf /\ p \in W
      /\ \A q \in W : /\ rem[q] = s[q].tot_len - s[p].tot_len + n /\ rem[q] \in Nat
                      /\ Over(q) => s[q].next \in W
                      /\ ~Over(q) => rem[q] <= s[q].len
                      /\ q # p => \E r \in W : s[r].next = q
  BY <1>1, WalkedTo
<1>3. PICK e \in W : ~Over(e) /\ \A q \in W : ~Over(q) => q = e
  BY <1>1, WalkedTo
<1>4. last = e
  <2>1. last \in W /\ ~Over(last)
    <3> HIDE DEF W, Over
    <3> QED
      BY <1>3
  <2> HIDE DEF last
  <2> QED
    BY <1>3, <2>1
<1>5. Cut(s, p, n) = Freed_from(c, x)
  BY CutIs
<1>6. \A q \in Pbuf : c[q] = IF q \notin W THEN s[q]
                             ELSE IF Over(q) THEN [s[q] EXCEPT !.tot_len = @ + n - s[p].tot_len]
                             ELSE [s[q] EXCEPT !.len = rem[q], !.tot_len = rem[q], !.next = NULL]
  <2> HIDE DEF W, rem, Over
  <2> QED
    BY DEF Shortened, W, rem, Over
<1>7. c = [q \in Pbuf |-> c[q]]
  BY DEF Shortened
<1> HIDE DEF W, rem, Over, c, last
<1>8. \A q \in Pbuf : /\ s[q] \in Entries /\ s[q].tot_len \in Nat /\ s[q].len \in Nat
                      /\ s[q].len <= BufSize /\ s[q].next \in Pbuf \cup {NULL}
                      /\ s[q].ref \in Nat /\ s[q].room \in Nat
  BY <1>1, EntryTypes
<1>9. ASSUME NEW q \in W, Over(q)
      PROVE  /\ c[q] \in Entries /\ c[q].next = s[q].next /\ c[q].len = s[q].len
             /\ c[q].ref = s[q].ref /\ c[q].room = s[q].room /\ c[q].tot_len = rem[q]
  <2>1. q \in Pbuf /\ rem[q] \in Nat /\ rem[q] = s[q].tot_len - s[p].tot_len + n
    BY <1>2
  <2>2. s[q] \in Entries /\ s[q].tot_len \in Nat /\ s[p].tot_len \in Nat
    BY <1>2, <1>8, <2>1
  <2>3. s[q].tot_len + n - s[p].tot_len = rem[q]
    BY <2>1, <2>2
  <2>4. c[q] = [s[q] EXCEPT !.tot_len = rem[q]]
    BY <1>6, <1>9, <2>1, <2>2, <2>3 DEF Entries
  <2> QED
    BY <2>1, <2>2, <2>4 DEF Entries
<1>10. /\ c[e] \in Entries /\ c[e].next = NULL /\ c[e].len = rem[e] /\ c[e].tot_len = rem[e]
       /\ c[e].ref = s[e].ref /\ c[e].room = s[e].room /\ rem[e] <= s[e].len
  <2>1. e \in Pbuf /\ rem[e] \in Nat /\ rem[e] <= s[e].len
    BY <1>2, <1>3
  <2>2. s[e] \in Entries /\ s[e].len <= BufSize /\ s[e].len \in Nat
    BY <1>8, <2>1
  <2>3. rem[e] \in 0 .. BufSize
    BY <2>1, <2>2, PbufConstants
  <2>4. c[e] = [s[e] EXCEPT !.len = rem[e], !.tot_len = rem[e], !.next = NULL]
    BY <1>3, <1>6, <2>1
  <2> QED
    BY <2>1, <2>2, <2>3, <2>4 DEF Entries
<1>11. \A q \in W : Over(q) \/ q = e
  BY <1>3
<1>12. \A q \in Pbuf : q \notin W => c[q] = s[q]
  BY <1>6
<1>13. \A q \in Pbuf : c[q].next = IF q = e THEN NULL ELSE s[q].next
  BY <1>3, <1>9, <1>10, <1>11, <1>12
<1>14. c \in Pools
  <2>1. \A q \in Pbuf : c[q] \in Entries
    BY <1>8, <1>9, <1>10, <1>11, <1>12
  <2> QED
    BY <1>7, <2>1 DEF Pools
<1>15. Chained(c)
  <2>1. \A q \in Pbuf : c[q].next = s[q].next \/ c[q].next = NULL
    BY <1>13
  <2> QED
    BY <1>1, <2>1, FewerLinks
<1>16. ASSUME NEW q \in W PROVE s[q].ref # 0
  <2>1. CASE q = p
    BY <2>1
  <2>2. CASE q # p
    <3>1. PICK r \in W : s[r].next = q
      BY <1>2, <2>2
    <3>2. Pointed(s, q) /\ q \in Pbuf
      BY <1>2, <3>1 DEF Pointed
    <3>3. s[q].ref = h[q] + 1 + One(q = NULL) /\ h[q] \in Nat /\ One(q = NULL) \in {0, 1}
      BY <1>1, <3>2 DEF Counted, One, Held
    <3> QED
      BY <3>3
  <2> QED
    BY <2>1, <2>2
<1>17. Kept(c)
  <2>1. ASSUME NEW q \in Pbuf
        PROVE  (c[q].ref = 0 => c[q] = Unused) /\ c[q].len + c[q].room <= BufSize
    <3>1. CASE q \in W
      <4>1. c[q].ref = s[q].ref /\ c[q].room = s[q].room /\ c[q].len <= s[q].len
            /\ c[q].len \in Nat
        BY <1>2, <1>8, <1>9, <1>10, <1>11, <3>1
      <4>2. s[q].len + s[q].room <= BufSize /\ s[q].ref # 0
        BY <1>1, <1>16, <3>1 DEF Kept
      <4> QED
        BY <1>8, <4>1, <4>2, PbufConstants
    <3>2. CASE q \notin W
      BY <1>1, <1>12, <3>2 DEF Kept
    <3> QED
      BY <3>1, <3>2
  <2> QED
    BY <2>1 DEF Kept
<1>18. x = s[e].next /\ x \in Pbuf \cup {NULL} /\ e \in Pbuf
  BY <1>2, <1>4, <1>8
<1> HIDE DEF x
<1>19. Counted(c, h, x)
  <2>1. ASSUME NEW q \in Pbuf
        PROVE  c[q].ref = h[q] + One(Pointed(c, q)) + One(q = x)
    <3>1. c[q].ref = s[q].ref
      BY <1>9, <1>10, <1>11, <1>12
    <3>2. s[q].ref = h[q] + One(Pointed(s, q)) + One(q = NULL) /\ h[q] \in Nat /\ q # NULL
      BY <1>1, PbufConstants DEF Counted, Held
    <3>3. CASE q = x
      <4>1. Pointed(s, q)
        BY <1>18, <3>3 DEF Pointed
      <4>2. ~Pointed(c, q)
        <5> SUFFICES ASSUME NEW r \in Pbuf, c[r].next = q PROVE FALSE
          BY DEF Pointed
        <5>1. r # e /\ s[r].next = s[e].next
          BY <1>13, <1>18, <3>2, <3>3
        <5> QED
          BY <1>1, <1>18, <3>2, <3>3, <5>1
      <4> QED
        BY <3>1, <3>2, <3>3, <4>1, <4>2 DEF One
    <3>4. CASE q # x
      <4>1. Pointed(c, q) <=> Pointed(s, q)
        BY <1>13, <1>18, <3>2, <3>4 DEF Pointed
      <4> QED
        BY <3>1, <3>2, <3>4, <4>1 DEF One
    <3> QED
      BY <3>3, <3>4
  <2> QED
    BY <2>1 DEF Counted
<1>20. \A q \in W : c[q].tot_len = rem[q]
  BY <1>9, <1>10, <1>11
<1>21. ASSUME NEW q \in Pbuf PROVE Measured(c, q, 0)
  <2>1. CASE q = e
    <3>1. rem[e] \in Nat
      BY <1>2
    <3> QED
      BY <1>10, <2>1, <3>1 DEF Measured
  <2>2. CASE q \in W /\ Over(q)
    <3>1. s[q].next \in W /\ q # NULL /\ s[q].next # NULL
      BY <1>2, <2>2, PbufConstants
    <3>2. /\ s[q].tot_len = s[q].len + s[s[q].next].tot_len
          /\ s[s[q].next].tot_len \in Nat /\ s[p].tot_len \in Nat
      BY <1>2, <1>8, <3>1 DEF Exact, Measured
    <3>3. /\ rem[q] = s[q].tot_len - s[p].tot_len + n
          /\ rem[s[q].next] = s[s[q].next].tot_len - s[p].tot_len + n
      BY <1>2, <2>2, <3>1
    <3>4. rem[q] = s[q].len + rem[s[q].next]
      BY <1>8, <3>2, <3>3
    <3>5. c[s[q].next].tot_len = rem[s[q].next]
      BY <1>20, <3>1
    <3> QED
      BY <1>9, <2>2, <3>1, <3>4, <3>5 DEF Measured
  <2>3. CASE q \notin W
    <3>1. s[q].next # NULL => s[q].next \notin W
      <4> SUFFICES ASSUME s[q].next # NULL, s[q].next \in W PROVE FALSE
        OBVIOUS
      <4>1. s[q].next # p
        BY DEF Pointed
      <4>2. PICK r \in W : s[r].next = s[q].next
        BY <1>2, <4>1
      <4>3. r = q
        BY <1>1, <1>2, <4>2
      <4> QED
        BY <2>3, <4>3
    <3>2. c[q] = s[q] /\ s[q].next \in Pbuf \cup {NULL} /\ Measured(s, q, 0)
      BY <1>8, <1>12, <2>3 DEF Exact
    <3>3. s[q].next # NULL => c[s[q].next] = s[s[q].next]
      BY <1>12, <3>1, <3>2
    <3> QED
      BY <3>2, <3>3 DEF Measured
  <2> QED
    BY <1>11, <2>1, <2>2, <2>3
<1>22. PoolInv(c, h, x)
  BY <1>14, <1>15, <1>17, <1>19 DEF PoolInv
<1>23. PoolInv(Freed_from(c, x), h, NULL) /\ Exact(Freed_from(c, x))
  BY <1>18, <1>21, <1>22, FreedKeeps DEF Exact
<1> QED
  BY <1>5, <1>23

-----------------------------------------------------------------------------
(* pbuf_alloc.                                                             *)

\* What the loop has, and its rounds.
Tails == [pool : Pools, r : Pbuf, rem_len : Nat]
Round(t) == IF t.rem_len = 0 \/ Spare(t.pool) = {} THEN t ELSE Extended(t)

\* The packet of p is built up to its buffer r: the pool is in order, but that
\* rem_len bytes are missing behind r.
TailInv(t, h, p) ==
  /\ t \in Tails /\ PoolInv(t.pool, h, NULL)
  /\ t.r \in Members(t.pool, p) /\ t.pool[t.r].next = NULL
  /\ \A q \in Pbuf : Measured(t.pool, q, IF q = t.r THEN t.rem_len ELSE 0)
  /\ \A q \in Members(t.pool, p) : t.pool[q].ref = 1

\* The smaller of two numbers.
LEMMA SmallerIs ==
  ASSUME NEW a \in Nat, NEW b \in Nat
  PROVE  Smaller(a, b) \in Nat /\ Smaller(a, b) <= a /\ Smaller(a, b) <= b
BY DEF Smaller

\* A new buffer behind r.
LEMMA ExtendedIs ==
  ASSUME NEW t \in Tails, Spare(t.pool) # {}
  PROVE  /\ Extended(t) \in Tails
         /\ \E q \in Spare(t.pool), len \in 0 .. BufSize :
              /\ len <= t.rem_len
              /\ Extended(t).r = q /\ Extended(t).rem_len = t.rem_len - len
              /\ Extended(t).pool =
                   [t.pool EXCEPT ![t.r].next = q,
                                  ![q] = [next |-> NULL, ref |-> 1, len |-> len,
                                          tot_len |-> t.rem_len, room |-> 0]]
<1> DEFINE s == t.pool
           q == memp_malloc(s)
           len == Smaller(t.rem_len, BufSize)
           new == [next |-> NULL, ref |-> 1, len |-> len, tot_len |-> t.rem_len, room |-> 0]
           u == [s EXCEPT ![t.r].next = q, ![q] = new]
<1>1. s \in Pools /\ t.r \in Pbuf /\ t.rem_len \in Nat
  BY DEF Tails
<1>2. q \in Spare(s) /\ q \in Pbuf
  BY DEF memp_malloc, Spare
<1>3. len \in Nat /\ len <= t.rem_len /\ len <= BufSize
  BY <1>1, SmallerIs, PbufConstants
<1>4. Extended(t) = [pool |-> u, r |-> q, rem_len |-> t.rem_len - len]
  BY DEF Extended
<1> HIDE DEF s, q, len
<1>5. len \in 0 .. BufSize /\ t.rem_len - len \in Nat
  BY <1>1, <1>3, PbufConstants
<1>6. new \in Entries
  BY <1>1, <1>5, PbufConstants DEF Entries
<1>7. [s[t.r] EXCEPT !.next = q] \in Entries
  <2>1. s[t.r] \in Entries
    BY <1>1, EntryTypes
  <2> QED
    BY <1>2, <2>1 DEF Entries
<1>8. u \in Pools
  <2> DEFINE v == [s[t.r] EXCEPT !.next = q]
  <2>1. s \in [Pbuf -> Entries] /\ v \in Entries
    BY <1>1, <1>7 DEF Pools
  <2>2. u = [[s EXCEPT ![t.r] = v] EXCEPT ![q] = new]
    BY <1>1, <1>2, <2>1
  <2> HIDE DEF u, v, new
  <2>3. u \in [Pbuf -> Entries]
    BY <1>1, <1>2, <1>6, <2>1, <2>2
  <2> QED
    BY <2>3 DEF Pools
<1>9. Extended(t) \in Tails
  <2> HIDE DEF u
  <2> QED
    BY <1>2, <1>4, <1>5, <1>8 DEF Tails
<1>10. /\ Extended(t).r = q /\ Extended(t).rem_len = t.rem_len - len
       /\ Extended(t).pool = u
  <2> HIDE DEF u
  <2> QED
    BY <1>4
<1>11. Extended(t).pool = [t.pool EXCEPT ![t.r].next = q,
                             ![q] = [next |-> NULL, ref |-> 1, len |-> len,
                                     tot_len |-> t.rem_len, room |-> 0]]
  BY <1>10 DEF s
<1>12. q \in Spare(t.pool)
  BY <1>2 DEF s
<1> QED
  BY Zenon, <1>3, <1>5, <1>9, <1>10, <1>11, <1>12

\* A round of the loop.
LEMMA RoundKeeps ==
  ASSUME NEW t, NEW h \in Held, NEW p \in Pbuf, TailInv(t, h, p)
  PROVE  TailInv(Round(t), h, p)
<1>1. CASE t.rem_len = 0 \/ Spare(t.pool) = {}
  BY <1>1 DEF Round
<1>2. CASE ~(t.rem_len = 0 \/ Spare(t.pool) = {})
  <2> DEFINE v == Extended(t)
             s == t.pool
             u == v.pool
             r == t.r
             M == Members(s, p)
             L == Members(u, p)
  <2>1. Round(t) = v /\ t \in Tails
    BY <1>2 DEF Round, TailInv
  <2>2. v \in Tails
    BY <1>2, <2>1, ExtendedIs
  <2>3. PICK q \in Spare(s), len \in 0 .. BufSize :
          /\ len <= t.rem_len /\ v.r = q /\ v.rem_len = t.rem_len - len
          /\ u = [s EXCEPT ![r].next = q,
                           ![q] = [next |-> NULL, ref |-> 1, len |-> len,
                                   tot_len |-> t.rem_len, room |-> 0]]
    BY <1>2, <2>1, ExtendedIs
  <2>4. /\ s \in Pools /\ r \in Pbuf /\ t.rem_len \in Nat /\ u \in Pools
        /\ q \in Pbuf /\ s[q].ref = 0
    BY <2>1, <2>2 DEF Tails, Spare
  <2>5. /\ PoolInv(s, h, NULL) /\ r \in M /\ s[r].next = NULL
        /\ \A b \in Pbuf : Measured(s, b, IF b = r THEN t.rem_len ELSE 0)
        /\ \A b \in M : s[b].ref = 1
    BY DEF TailInv
  <2> HIDE DEF v, s, u, r
  <2>6. /\ Chained(s) /\ Kept(s) /\ Counted(s, h, NULL)
    BY <2>5 DEF PoolInv
  <2>7. q # r /\ q \notin M /\ q # NULL
    BY <2>4, <2>5, PbufConstants
  <2>8. s[q].next = NULL
    BY <2>4, <2>6, UnusedTypes DEF Kept
  <2>9. h[q] = 0 /\ ~Pointed(s, q)
    <3>1. 0 = h[q] + One(Pointed(s, q)) + One(q = NULL) /\ h[q] \in Nat
      BY <2>4, <2>6 DEF Counted, Held
    <3>2. One(Pointed(s, q)) \in {0, 1} /\ One(q = NULL) \in {0, 1}
      BY DEF One
    <3>3. h[q] = 0 /\ One(Pointed(s, q)) = 0
      BY <3>1, <3>2
    <3> QED
      BY <3>3 DEF One
  <2>10. /\ u[q] = [next |-> NULL, ref |-> 1, len |-> len, tot_len |-> t.rem_len, room |-> 0]
         /\ u[r] = [s[r] EXCEPT !.next = q]
         /\ \A b \in Pbuf : b # q /\ b # r => u[b] = s[b]
    BY <2>3, <2>4, <2>7 DEF Pools
  <2>11. /\ u[r].next = q /\ u[r].ref = s[r].ref /\ u[r].len = s[r].len
         /\ u[r].tot_len = s[r].tot_len /\ u[r].room = s[r].room
    <3>1. s[r] \in Entries
      BY <2>4, EntryTypes
    <3> QED
      BY <2>10, <3>1 DEF Entries
  <2>12. /\ u[q].next = NULL /\ u[q].ref = 1 /\ u[q].len = len /\ u[q].tot_len = t.rem_len
         /\ u[q].room = 0
    BY <2>10
  <2>13. \A b \in Pbuf : u[b].next = IF b = r THEN q ELSE s[b].next
    BY <2>8, <2>10, <2>11, <2>12
  <2>14. \A b \in Pbuf : ~(s[b].next = q)
    BY <2>9 DEF Pointed
  <2>15. Chained(u)
    <3>1. ASSUME NEW a \in Pbuf, NEW b \in Pbuf, u[a].next = u[b].next, u[a].next # NULL
          PROVE  a = b
      <4>1. CASE a = r \/ b = r
        BY <2>13, <2>14, <3>1, <4>1
      <4>2. CASE a # r /\ b # r
        BY <2>6, <2>13, <3>1, <4>2 DEF Chained
      <4> QED
        BY <4>1, <4>2
    <3>2. ASSUME NEW S \in SUBSET Pbuf, S # {}, \A b \in S : u[b].next \in S
          PROVE  FALSE
      <4>1. q \notin S
        BY <2>4, <2>12, <3>2, PbufConstants
      <4>2. r \notin S
        BY <2>4, <2>13, <3>2, <4>1
      <4>3. \A b \in S : s[b].next \in S
        BY <2>13, <3>2, <4>2
      <4> QED
        BY <2>6, <3>2, <4>3 DEF Chained
    <3> QED
      BY <3>1, <3>2 DEF Chained
  <2>16. Kept(u)
    <3>1. ASSUME NEW b \in Pbuf
          PROVE  (u[b].ref = 0 => u[b] = Unused) /\ u[b].len + u[b].room <= BufSize
      <4>1. CASE b = q
        BY <2>12, <4>1, PbufConstants
      <4>2. CASE b = r
        BY <2>4, <2>5, <2>6, <2>11, <4>2 DEF Kept
      <4>3. CASE b # q /\ b # r
        BY <2>6, <2>10, <4>3 DEF Kept
      <4> QED
        BY <4>1, <4>2, <4>3
    <3> QED
      BY <3>1 DEF Kept
  <2>17. Counted(u, h, NULL)
    <3>1. ASSUME NEW b \in Pbuf
          PROVE  u[b].ref = h[b] + One(Pointed(u, b)) + One(b = NULL)
      <4>1. s[b].ref = h[b] + One(Pointed(s, b)) + One(b = NULL) /\ One(b = NULL) = 0
        BY <2>6, PbufConstants DEF Counted, One
      <4>2. CASE b = q
        <5>1. Pointed(u, q)
          BY <2>4, <2>11 DEF Pointed
        <5> QED
          BY <2>9, <2>12, <4>1, <4>2, <5>1 DEF One
      <4>3. CASE b # q
        <5>1. Pointed(u, b) <=> Pointed(s, b)
          <6>1. b # NULL
            BY PbufConstants
          <6> QED
            BY <2>5, <2>13, <4>3, <6>1 DEF Pointed
        <5>2. u[b].ref = s[b].ref
          BY <2>10, <2>11, <4>3
        <5>3. One(Pointed(u, b)) = One(Pointed(s, b))
          BY <5>1 DEF One
        <5> HIDE DEF Pointed
        <5> QED
          BY <4>1, <5>2, <5>3
      <4> QED
        BY <4>2, <4>3
    <3> QED
      BY <3>1 DEF Counted
  <2>18. ASSUME NEW b \in Pbuf
         PROVE  Measured(u, b, IF b = q THEN t.rem_len - len ELSE 0)
    <3>1. CASE b = q
      BY <2>4, <2>12, <3>1, PbufConstants DEF Measured
    <3>2. CASE b = r
      <4>1. s[r].tot_len = s[r].len + t.rem_len
        BY <2>4, <2>5 DEF Measured
      <4> QED
        BY <2>7, <2>11, <2>12, <3>2, <4>1 DEF Measured
    <3>3. CASE b # q /\ b # r
      <4>1. Measured(s, b, 0) /\ u[b] = s[b] /\ s[b].next # q /\ s[b].next \in Pbuf \cup {NULL}
        BY <2>4, <2>5, <2>10, <2>14, <3>3, EntryTypes
      <4>2. s[b].next # NULL => u[s[b].next].tot_len = s[s[b].next].tot_len
        BY <2>10, <2>11, <4>1
      <4> QED
        BY <3>3, <4>1, <4>2 DEF Measured
    <3> QED
      BY <3>1, <3>2, <3>3
  <2>19. /\ NextIn(s) \in Steps /\ NextIn(u) \in Steps
         /\ \A b \in Pbuf : NextIn(s)[b] = s[b].next /\ NextIn(u)[b] = u[b].next
    BY <2>4, <2>6, <2>15, NextTypes
  <2>20. M = Reached(NextIn(s), p) /\ L = Reached(NextIn(u), p)
    BY MembersIs
  <2> HIDE DEF M, L
  <2>21. /\ M \subseteq Pbuf /\ p \in M /\ \A b \in M : s[b].next \in M \cup {NULL}
         /\ L \subseteq Pbuf /\ p \in L /\ \A b \in L : u[b].next \in L \cup {NULL}
    <3>1. M \subseteq Pbuf /\ p \in M /\ \A b \in M : NextIn(s)[b] \in M \cup {NULL}
      BY <2>19, <2>20, ReachedClosed
    <3>2. L \subseteq Pbuf /\ p \in L /\ \A b \in L : NextIn(u)[b] \in L \cup {NULL}
      BY <2>19, <2>20, ReachedClosed
    <3> QED
      BY <2>19, <3>1, <3>2
  <2>22. L \subseteq M \cup {q}
    <3> DEFINE S == M \cup {q}
    <3>1. S \in SUBSET Pbuf /\ p \in S
      BY <2>4, <2>21
    <3>2. \A b \in S : NextIn(u)[b] \in S \cup {NULL}
      BY <2>4, <2>12, <2>13, <2>19, <2>21
    <3> HIDE DEF S
    <3>3. L \subseteq S
      BY <2>19, <2>20, <3>1, <3>2, ReachedLeast
    <3> QED
      BY <3>3 DEF S
  <2>23. r \in L
    <3> DEFINE S == M \cap L
    <3>1. S \in SUBSET Pbuf /\ p \in S
      BY <2>21
    <3>2. \A b \in S : NextIn(s)[b] \in S \cup {NULL}
      BY <2>5, <2>13, <2>19, <2>21
    <3> HIDE DEF S
    <3>3. M \subseteq S
      BY <2>19, <2>20, <3>1, <3>2, ReachedLeast
    <3> QED
      BY <2>5, <3>3 DEF S
  <2>24. q \in L
    BY <2>7, <2>11, <2>21, <2>23
  <2>25. \A b \in L : u[b].ref = 1
    <3>1. \A b \in M : u[b].ref = 1
      BY <2>5, <2>7, <2>10, <2>11, <2>21
    <3> QED
      BY <2>12, <2>22, <3>1
  <2>26. PoolInv(u, h, NULL)
    BY <2>4, <2>15, <2>16, <2>17 DEF PoolInv
  <2>27. TailInv(v, h, p)
    <3>1. v.r \in Members(v.pool, p) /\ \A b \in Members(v.pool, p) : v.pool[b].ref = 1
      BY <2>3, <2>24, <2>25 DEF L, u
    <3>2. v.pool[v.r].next = NULL
      BY <2>3, <2>12 DEF u
    <3>3. \A b \in Pbuf : Measured(v.pool, b, IF b = v.r THEN v.rem_len ELSE 0)
      BY <2>3, <2>18 DEF u
    <3>4. PoolInv(v.pool, h, NULL)
      BY <2>26 DEF u
    <3> QED
      BY <2>2, <3>1, <3>2, <3>3, <3>4 DEF TailInv, v
  <2> QED
    BY <2>1, <2>27
<1> QED
  BY <1>1, <1>2

\* What the loop of pbuf_alloc ends with.
LEMMA TailEnds ==
  ASSUME NEW s, NEW h \in Held, NEW p \in Pbuf, NEW m,
         TailInv([pool |-> s, r |-> p, rem_len |-> m], h, p)
  PROVE  \E t : /\ TailInv(t, h, p)
                /\ AllocTail(s, p, m) = IF t.rem_len = 0 THEN t.pool ELSE Freed_from(t.pool, p)
<1> DEFINE base == [pool |-> s, r |-> p, rem_len |-> m]
           Is(f) == f = [j \in 0 .. PoolSize |->
                           IF j = 0 THEN [pool |-> s, r |-> p, rem_len |-> m]
                           ELSE IF f[j - 1].rem_len = 0 \/ Spare(f[j - 1].pool) = {} THEN f[j - 1]
                           ELSE Extended(f[j - 1])]
           tail == CHOOSE f : Is(f)
           step == [j \in 1 .. PoolSize |-> [t \in Tails |-> Round(t)]]
<1>1. AllocTail(s, p, m) = IF tail[PoolSize].rem_len = 0 THEN tail[PoolSize].pool
                           ELSE Freed_from(tail[PoolSize].pool, p)
  BY Zenon DEF AllocTail
<1>2. base \in Tails
  BY DEF TailInv
<1>3. \A t \in Tails : Round(t) \in Tails
  BY ExtendedIs DEF Round
<1>4. step \in [1 .. PoolSize -> [Tails -> Tails]]
  BY <1>3
<1> HIDE DEF base
<1>5. PICK f \in [0 .. PoolSize -> Tails] : Follows(f, PoolSize, base, step)
  <2> HIDE DEF step, Tails
  <2> QED
    BY <1>2, <1>4, PbufConstants, RecursionExists
<1>6. f[0] = base /\ \A k \in 1 .. PoolSize : f[k] = step[k][f[k - 1]]
  BY <1>5 DEF Follows
<1>7. \A k \in 1 .. PoolSize : f[k] = Round(f[k - 1])
  <2> SUFFICES ASSUME NEW k \in 1 .. PoolSize PROVE f[k] = Round(f[k - 1])
    OBVIOUS
  <2>1. k - 1 \in 0 .. PoolSize
    BY PbufConstants
  <2>2. f[k - 1] \in Tails
    BY <2>1
  <2> HIDE DEF Tails, Round
  <2> QED
    BY <1>6, <2>2
<1>8. Is(f)
  <2> DEFINE val(j) == IF j = 0 THEN [pool |-> s, r |-> p, rem_len |-> m]
                       ELSE IF f[j - 1].rem_len = 0 \/ Spare(f[j - 1].pool) = {} THEN f[j - 1]
                       ELSE Extended(f[j - 1])
  <2>1. ASSUME NEW j \in 0 .. PoolSize PROVE f[j] = val(j)
    <3>1. CASE j = 0
      BY <1>6, <3>1 DEF base
    <3>2. CASE j # 0
      <4>1. j \in 1 .. PoolSize
        BY <3>2, PbufConstants
      <4>2. f[j] = Round(f[j - 1])
        BY <1>7, <4>1
      <4> QED
        BY <3>2, <4>2, Zenon DEF Round
    <3> QED
      BY <3>1, <3>2
  <2> HIDE DEF val
  <2>2. f = [j \in 0 .. PoolSize |-> val(j)]
    <3> HIDE DEF Tails
    <3> QED
      BY <2>1
  <2> QED
    BY <2>2, Zenon DEF val
<1>9. Is(tail)
  <2> HIDE DEF Is
  <2> QED
    BY <1>8, Zenon
<1> HIDE DEF tail
<1>10. /\ tail[0] = base
       /\ \A j \in 1 .. PoolSize : tail[j] = Round(tail[j - 1])
  <2> DEFINE val(j) == IF j = 0 THEN [pool |-> s, r |-> p, rem_len |-> m]
                       ELSE IF tail[j - 1].rem_len = 0 \/ Spare(tail[j - 1].pool) = {} THEN tail[j - 1]
                       ELSE Extended(tail[j - 1])
  <2>1. tail = [j \in 0 .. PoolSize |-> val(j)]
    BY <1>9, Zenon
  <2>2. \A j \in 0 .. PoolSize : tail[j] = val(j)
    <3> HIDE DEF val
    <3> QED
      BY <2>1
  <2>3. 0 \in 0 .. PoolSize /\ \A j \in 1 .. PoolSize : j \in 0 .. PoolSize /\ j # 0
    BY PbufConstants
  <2> QED
    BY <2>2, <2>3, Zenon DEF base, Round
<1> HIDE DEF Is
<1> DEFINE T == {j \in 0 .. PoolSize : TailInv(tail[j], h, p)}
<1>11. 0 \in T
  BY <1>10, PbufConstants DEF base
<1>12. ASSUME NEW j \in 1 .. PoolSize, j - 1 \in T PROVE j \in T
  <2>1. TailInv(tail[j - 1], h, p) /\ j \in 0 .. PoolSize
    BY <1>12, PbufConstants
  <2>2. TailInv(Round(tail[j - 1]), h, p)
    BY <2>1, RoundKeeps
  <2> QED
    BY <1>10, <2>1, <2>2
<1>13. PoolSize \in T
  <2> HIDE DEF T
  <2>1. \A j \in 0 .. PoolSize : j \in T
    BY <1>11, <1>12, PbufConstants, Reaches
  <2> QED
    BY <2>1, PbufConstants
<1> QED
  BY <1>1, <1>13

\* The first buffer of a new packet.
Begun(s, p, length, front) ==
  [s EXCEPT ![p] = [next |-> NULL, ref |-> 1, len |-> Smaller(length, BufSize - front),
                    tot_len |-> length, room |-> front]]

\* It is the packet that the loop starts with.
LEMMA BegunIs ==
  ASSUME NEW s, NEW h \in Held, PoolInv(s, h, NULL), Exact(s), NEW p \in Spare(s),
         NEW length \in Nat, NEW front \in 0 .. BufSize - 1
  PROVE  /\ h[p] = 0 /\ [h EXCEPT ![p] = 1] \in Held
         /\ TailInv([pool |-> Begun(s, p, length, front), r |-> p,
                     rem_len |-> length - Smaller(length, BufSize - front)],
                    [h EXCEPT ![p] = 1], p)
<1> DEFINE n == Smaller(length, BufSize - front)
           u == Begun(s, p, length, front)
           k == [h EXCEPT ![p] = 1]
           t == [pool |-> u, r |-> p, rem_len |-> length - n]
<1>1. BufSize - front \in Nat /\ front \in Nat /\ front <= BufSize
  BY PbufConstants
<1>2. n \in Nat /\ n <= length /\ n <= BufSize - front
  BY <1>1, SmallerIs
<1>3. /\ s \in Pools /\ Chained(s) /\ Kept(s) /\ Counted(s, h, NULL)
      /\ p \in Pbuf /\ s[p].ref = 0 /\ p # NULL
  BY PbufConstants DEF PoolInv, Spare
<1>4. s[p].next = NULL
  BY <1>3, UnusedTypes DEF Kept
<1>5. h[p] = 0 /\ ~Pointed(s, p)
  <2>1. 0 = h[p] + One(Pointed(s, p)) + One(p = NULL) /\ h[p] \in Nat
    BY <1>3 DEF Counted, Held
  <2>2. One(Pointed(s, p)) \in {0, 1} /\ One(p = NULL) \in {0, 1}
    BY DEF One
  <2>3. h[p] = 0 /\ One(Pointed(s, p)) = 0
    BY <2>1, <2>2
  <2> QED
    BY <2>3 DEF One
<1> HIDE DEF n
<1> DEFINE new == [next |-> NULL, ref |-> 1, len |-> n, tot_len |-> length, room |-> front]
<1>6. new \in Entries
  <2>1. n \in 0 .. BufSize /\ front \in 0 .. BufSize
    BY <1>1, <1>2, PbufConstants
  <2> QED
    BY <2>1 DEF Entries
<1>7. u = [s EXCEPT ![p] = new]
  BY DEF Begun, n
<1> HIDE DEF u, new
<1>8. u \in Pools /\ u[p] = new /\ \A b \in Pbuf : b # p => u[b] = s[b]
  BY <1>3, <1>6, <1>7 DEF Pools
<1>9. /\ u[p].next = NULL /\ u[p].ref = 1 /\ u[p].len = n /\ u[p].tot_len = length
      /\ u[p].room = front
  BY <1>8 DEF new
<1>10. \A b \in Pbuf : u[b].next = s[b].next
  BY <1>4, <1>8, <1>9
<1>11. Chained(u)
  BY <1>3, <1>10, FewerLinks
<1>12. Kept(u)
  <2>1. ASSUME NEW b \in Pbuf
        PROVE  (u[b].ref = 0 => u[b] = Unused) /\ u[b].len + u[b].room <= BufSize
    <3>1. CASE b = p
      BY <1>1, <1>2, <1>9, <3>1, PbufConstants
    <3>2. CASE b # p
      BY <1>3, <1>8, <3>2 DEF Kept
    <3> QED
      BY <3>1, <3>2
  <2> QED
    BY <2>1 DEF Kept
<1>13. k \in Held /\ k[p] = 1 /\ \A b \in Pbuf : b # p => k[b] = h[b]
  BY <1>3 DEF Held
<1> HIDE DEF k
<1>14. Counted(u, k, NULL)
  <2>1. ASSUME NEW b \in Pbuf
        PROVE  u[b].ref = k[b] + One(Pointed(u, b)) + One(b = NULL)
    <3>1. s[b].ref = h[b] + One(Pointed(s, b)) + One(b = NULL) /\ One(b = NULL) = 0
      BY <1>3, PbufConstants DEF Counted, One
    <3>2. Pointed(u, b) <=> Pointed(s, b)
      BY <1>10 DEF Pointed
    <3>3. CASE b = p
      <4>1. One(Pointed(u, p)) = 0
        BY <1>5, <3>2, <3>3 DEF One
      <4> QED
        BY <1>9, <1>13, <3>1, <3>3, <4>1
    <3>4. CASE b # p
      <4>1. One(Pointed(u, b)) = One(Pointed(s, b))
        BY <3>2 DEF One
      <4> HIDE DEF Pointed
      <4> QED
        BY <1>8, <1>13, <3>1, <3>4, <4>1
    <3> QED
      BY <3>3, <3>4
  <2> QED
    BY <2>1 DEF Counted
<1>15. PoolInv(u, k, NULL)
  BY <1>8, <1>11, <1>12, <1>14 DEF PoolInv
<1>16. length - n \in Nat
  BY <1>2
<1>17. ASSUME NEW b \in Pbuf PROVE Measured(u, b, IF b = p THEN length - n ELSE 0)
  <2>1. CASE b = p
    <3>1. length = n + (length - n)
      BY <1>2
    <3> QED
      BY <1>9, <2>1, <3>1 DEF Measured
  <2>2. CASE b # p
    <3>1. Measured(s, b, 0) /\ u[b] = s[b]
      BY <1>8, <2>2 DEF Exact
    <3>2. s[b].next \in Pbuf \cup {NULL} /\ s[b].next # p
      BY <1>3, <1>5, EntryTypes DEF Pointed
    <3>3. s[b].next # NULL => u[s[b].next] = s[s[b].next]
      BY <1>8, <3>2
    <3> QED
      BY <2>2, <3>1, <3>3 DEF Measured
  <2> QED
    BY <2>1, <2>2
<1>18. NextIn(u) \in Steps /\ \A b \in Pbuf : NextIn(u)[b] = u[b].next
  BY <1>8, <1>11, NextTypes
<1>19. Members(u, p) = Reached(NextIn(u), p)
  BY MembersIs
<1>20. p \in Members(u, p)
  BY <1>3, <1>18, <1>19, ReachedClosed
<1>21. Members(u, p) \subseteq {p}
  <2> DEFINE S == {p}
  <2>1. S \in SUBSET Pbuf /\ p \in S /\ \A b \in S : NextIn(u)[b] \in S \cup {NULL}
    BY <1>3, <1>9, <1>18
  <2> HIDE DEF S
  <2>2. Members(u, p) \subseteq S
    BY <1>3, <1>18, <1>19, <2>1, ReachedLeast
  <2> QED
    BY <2>2 DEF S
<1>22. \A b \in Members(u, p) : u[b].ref = 1
  BY <1>9, <1>21
<1>23. TailInv(t, k, p)
  <2>1. t \in Tails /\ t.pool = u /\ t.r = p /\ t.rem_len = length - n
    BY <1>3, <1>8, <1>16 DEF Tails
  <2> HIDE DEF t
  <2> QED
    BY <1>9, <1>15, <1>17, <1>20, <1>22, <2>1 DEF TailInv
<1> QED
  BY <1>5, <1>13, <1>23 DEF n, u, k

\* A packet is complete and its caller's, or all of it is back.
LEMMA AllocKeeps ==
  ASSUME NEW s, NEW h \in Held, PoolInv(s, h, NULL), Exact(s), NEW p \in Spare(s),
         NEW length \in Nat, NEW front \in 0 .. BufSize - 1, NEW t,
         t = AllocTail(Begun(s, p, length, front), p,
                       length - Smaller(length, BufSize - front))
  PROVE  /\ p \in Pbuf /\ Exact(t)
         /\ t[p].ref = 0 => PoolInv(t, h, NULL)
         /\ t[p].ref # 0 => PoolInv(t, [h EXCEPT ![p] = 1], NULL)
<1> DEFINE k == [h EXCEPT ![p] = 1]
           u == Begun(s, p, length, front)
           m == length - Smaller(length, BufSize - front)
<1>1. p \in Pbuf /\ p # NULL
  BY PbufConstants DEF Spare
<1>2. h[p] = 0 /\ k \in Held /\ TailInv([pool |-> u, r |-> p, rem_len |-> m], k, p)
  BY BegunIs
<1>3. k[p] = 1 /\ \A b \in Pbuf : b # p => k[b] = h[b]
  BY <1>1 DEF Held
<1>4. t = AllocTail(u, p, m)
  OBVIOUS
<1> HIDE DEF k, u, m
<1>5. PICK e : /\ TailInv(e, k, p)
               /\ t = IF e.rem_len = 0 THEN e.pool ELSE Freed_from(e.pool, p)
  BY <1>1, <1>2, <1>4, TailEnds
<1> DEFINE s1 == e.pool
<1>6. /\ e \in Tails /\ s1 \in Pools /\ e.r \in Pbuf /\ PoolInv(s1, k, NULL)
      /\ e.r \in Members(s1, p)
      /\ \A q \in Pbuf : Measured(s1, q, IF q = e.r THEN e.rem_len ELSE 0)
      /\ \A q \in Members(s1, p) : s1[q].ref = 1
  BY <1>5 DEF TailInv, Tails
<1> HIDE DEF s1
<1>7. Chained(s1) /\ Counted(s1, k, NULL) /\ Kept(s1)
  BY <1>6 DEF PoolInv
<1>8. NextIn(s1) \in Steps /\ \A b \in Pbuf : NextIn(s1)[b] = s1[b].next
  BY <1>6, <1>7, NextTypes
<1> DEFINE M == Members(s1, p)
<1>9. M = Reached(NextIn(s1), p)
  BY MembersIs
<1> HIDE DEF M
<1>10. M \subseteq Pbuf /\ p \in M /\ \A b \in M : NextIn(s1)[b] \in M \cup {NULL}
  BY <1>1, <1>8, <1>9, ReachedClosed
<1>11. CASE e.rem_len = 0
  <2>1. t = s1
    BY <1>5, <1>11 DEF s1
  <2>2. Exact(t)
    BY <1>6, <1>11, <2>1 DEF Exact
  <2>3. t[p].ref = 1
    BY <1>6, <1>10, <2>1 DEF M
  <2> QED
    BY <1>1, <1>6, <2>1, <2>2, <2>3 DEF k
<1>12. CASE e.rem_len # 0
  <2>1. t = Freed_from(s1, p)
    BY <1>5, <1>12 DEF s1
  <2> DEFINE P == Reached(FreeStep(s1), p)
  <2>2. \A b \in Pbuf : s1[b].next \in Pbuf \cup {NULL} /\ s1[b].ref \in Nat
    BY <1>6, EntryTypes
  <2>3. /\ FreeStep(s1) \in Steps
        /\ \A b \in Pbuf : FreeStep(s1)[b] = IF s1[b].ref > 1 THEN NULL ELSE s1[b].next
    BY <2>2 DEF FreeStep, Steps
  <2>4. P \subseteq Pbuf /\ p \in P /\ \A b \in P : FreeStep(s1)[b] \in P \cup {NULL}
    BY <1>1, <2>3, ReachedClosed
  <2> HIDE DEF P
  <2>5. M \subseteq P
    <3> DEFINE S == M \cap P
    <3>1. S \in SUBSET Pbuf /\ p \in S
      BY <1>10, <2>4
    <3>2. \A b \in S : NextIn(s1)[b] \in S \cup {NULL}
      <4> SUFFICES ASSUME NEW b \in S PROVE NextIn(s1)[b] \in S \cup {NULL}
        OBVIOUS
      <4>1. b \in Pbuf /\ s1[b].ref = 1
        BY <1>6, <1>10 DEF M
      <4>2. FreeStep(s1)[b] = s1[b].next /\ NextIn(s1)[b] = s1[b].next
        BY <1>8, <2>3, <4>1
      <4> QED
        BY <1>10, <2>4, <4>2
    <3> HIDE DEF S
    <3>3. M \subseteq S
      BY <1>1, <1>8, <1>9, <3>1, <3>2, ReachedLeast
    <3> QED
      BY <3>3 DEF S
  <2>6. PoolInv(s1, h, p)
    <3>1. ASSUME NEW b \in Pbuf PROVE s1[b].ref = h[b] + One(Pointed(s1, b)) + One(b = p)
      <4>1. s1[b].ref = k[b] + One(Pointed(s1, b)) + One(b = NULL) /\ One(b = NULL) = 0
        BY <1>7, PbufConstants DEF Counted, One
      <4>2. One(Pointed(s1, b)) \in Nat /\ One(b = p) = IF b = p THEN 1 ELSE 0
        BY DEF One
      <4>3. k[b] = h[b] + One(b = p) /\ h[b] \in Nat
        BY <1>2, <1>3, <4>2 DEF Held
      <4> QED
        BY <4>1, <4>2, <4>3
    <3>2. Counted(s1, h, p)
      BY <3>1 DEF Counted
    <3> QED
      BY <1>6, <1>7, <3>2 DEF PoolInv
  <2>7. /\ PoolInv(t, h, NULL)
        /\ \A q \in Pbuf : Measured(s1, q, 0) \/ (q \in P /\ s1[q].ref <= 1) => Measured(t, q, 0)
    BY <1>1, <2>1, <2>6, FreedKeeps DEF P
  <2>8. Exact(t)
    <3>1. ASSUME NEW q \in Pbuf PROVE Measured(t, q, 0)
      <4>1. CASE q = e.r
        <5>1. q \in P /\ s1[q].ref = 1
          BY <1>6, <2>5, <4>1 DEF M
        <5> QED
          BY <2>7, <5>1
      <4>2. CASE q # e.r
        <5>1. Measured(s1, q, 0)
          BY <1>6, <4>2
        <5> QED
          BY <2>7, <5>1
      <4> QED
        BY <4>1, <4>2
    <3> QED
      BY <3>1 DEF Exact
  <2>9. t[p].ref = 0
    <3>1. p \in P /\ ~(s1[p].ref > 1)
      BY <1>6, <1>10, <2>4 DEF M
    <3>2. t[p] = Unused
      BY <1>1, <2>1, <3>1, FreedIs DEF P
    <3> QED
      BY <3>2, UnusedTypes
  <2> QED
    BY <1>1, <2>7, <2>8, <2>9
<1> QED
  BY <1>11, <1>12

-----------------------------------------------------------------------------
(* The calls.                                                              *)

\* Between two calls every buffer is counted and measured exactly.
PbufInv ==
  /\ holders \in [Pbuf -> 0 .. MostHeld]
  /\ PoolInv(pool, holders, NULL) /\ Exact(pool)

\* Its parts.
LEMMA PbufInvIs ==
  ASSUME PbufInv
  PROVE  /\ holders \in Held /\ pool \in Pools /\ Chained(pool) /\ Kept(pool)
         /\ Counted(pool, holders, NULL) /\ Exact(pool) /\ PoolInv(pool, holders, NULL)
         /\ \A q \in Pbuf : holders[q] \in 0 .. MostHeld /\ holders[q] \in Nat
         /\ \A q \in Pbuf : IsHead(q) <=> ~Pointed(pool, q)
<1>1. /\ holders \in [Pbuf -> 0 .. MostHeld] /\ \A j \in 0 .. MostHeld : j \in Nat
      /\ PoolInv(pool, holders, NULL) /\ Exact(pool)
  BY DEF PbufInv
<1>2. holders \in Held
  BY <1>1 DEF Held
<1> QED
  BY <1>1, <1>2 DEF PoolInv, IsHead, Pointed

\* What is held is counted.
LEMMA HeldIsCounted ==
  ASSUME NEW s \in Pools, NEW h \in Held, NEW x, Counted(s, h, x), NEW p \in Pbuf, h[p] > 0
  PROVE  s[p].ref > 0 /\ s[p].ref \in Nat /\ h[p] \in Nat
<1>1. s[p].ref = h[p] + One(Pointed(s, p)) + One(p = x) /\ h[p] \in Nat
  BY DEF Counted, Held
<1>2. One(Pointed(s, p)) \in {0, 1} /\ One(p = x) \in {0, 1}
  BY DEF One
<1> HIDE DEF One, Pointed
<1> QED
  BY <1>1, <1>2

\* One more reference to p.
RefUp(s, p) == [s EXCEPT ![p].ref = @ + 1]

\* It leaves chains and lengths alone.
LEMMA RefAdded ==
  ASSUME NEW s \in Pools, Chained(s), Kept(s), Exact(s), NEW p \in Pbuf,
         NEW t, t = RefUp(s, p)
  PROVE  /\ t \in Pools /\ Chained(t) /\ Kept(t) /\ Exact(t)
         /\ \A q \in Pbuf : /\ t[q].ref = s[q].ref + One(q = p)
                            /\ Pointed(t, q) <=> Pointed(s, q)
<1>1. s[p] \in Entries /\ s[p].ref \in Nat
  BY EntryTypes
<1> DEFINE e == [s[p] EXCEPT !.ref = @ + 1]
<1>2. /\ e \in Entries /\ e.next = s[p].next /\ e.len = s[p].len /\ e.tot_len = s[p].tot_len
      /\ e.room = s[p].room /\ e.ref = s[p].ref + 1
  BY <1>1 DEF Entries
<1>3. t = [s EXCEPT ![p] = e]
  BY DEF Pools, RefUp
<1> HIDE DEF e
<1>4. t \in Pools /\ t[p] = e /\ \A q \in Pbuf : q # p => t[q] = s[q]
  BY <1>2, <1>3 DEF Pools
<1>5. \A q \in Pbuf : /\ t[q].next = s[q].next /\ t[q].len = s[q].len
                      /\ t[q].tot_len = s[q].tot_len /\ t[q].room = s[q].room
  BY <1>2, <1>4
<1>6. Chained(t)
  BY <1>5, FewerLinks
<1>7. Kept(t)
  <2>1. ASSUME NEW q \in Pbuf
        PROVE  (t[q].ref = 0 => t[q] = Unused) /\ t[q].len + t[q].room <= BufSize
    <3>1. CASE q = p
      <4>1. t[q].ref # 0
        BY <1>1, <1>2, <1>4, <3>1
      <4> QED
        BY <1>5, <4>1 DEF Kept
    <3>2. CASE q # p
      BY <1>4, <3>2 DEF Kept
    <3> QED
      BY <3>1, <3>2
  <2> QED
    BY <2>1 DEF Kept
<1>8. Exact(t)
  <2>1. ASSUME NEW q \in Pbuf PROVE Measured(t, q, 0)
    <3>1. Measured(s, q, 0) /\ s[q].next \in Pbuf \cup {NULL}
      BY EntryTypes DEF Exact
    <3>2. s[q].next # NULL => t[s[q].next].tot_len = s[s[q].next].tot_len
      BY <1>5, <3>1
    <3> QED
      BY <1>5, <3>1, <3>2 DEF Measured
  <2> QED
    BY <2>1 DEF Exact
<1>9. ASSUME NEW q \in Pbuf PROVE t[q].ref = s[q].ref + One(q = p)
  <2>1. s[q].ref \in Nat
    BY EntryTypes
  <2> QED
    BY <1>2, <1>4, <2>1 DEF One
<1>10. \A q \in Pbuf : Pointed(t, q) <=> Pointed(s, q)
  BY <1>5 DEF Pointed
<1> QED
  BY <1>4, <1>6, <1>7, <1>8, <1>9, <1>10

\* It holds at the start.
LEMMA PbufInitial == PbufInit => PbufInv
<1> SUFFICES ASSUME PbufInit PROVE PbufInv
  OBVIOUS
<1>1. /\ pool = [p \in Pbuf |-> Unused] /\ holders = [p \in Pbuf |-> 0]
  BY DEF PbufInit
<1>2. \A q \in Pbuf : pool[q] = Unused /\ holders[q] = 0
  BY <1>1
<1>3. pool \in Pools /\ holders \in [Pbuf -> 0 .. MostHeld]
  BY <1>1, UnusedTypes, PbufConstants DEF Pools
<1>4. \A q \in Pbuf : ~Pointed(pool, q)
  BY <1>2, UnusedTypes, PbufConstants DEF Pointed
<1>5. Chained(pool)
  <2>1. \A q \in Pbuf : pool[q].next = NULL
    BY <1>2, UnusedTypes
  <2>2. ASSUME NEW S \in SUBSET Pbuf, S # {} PROVE \E q \in S : pool[q].next \notin S
    <3>1. PICK q \in S : TRUE
      BY <2>2
    <3> QED
      BY <2>1, <3>1, PbufConstants
  <2> QED
    BY <2>1, <2>2 DEF Chained
<1>6. Kept(pool)
  BY <1>2, UnusedTypes, PbufConstants DEF Kept
<1>7. Counted(pool, holders, NULL)
  BY <1>2, <1>4, UnusedTypes, PbufConstants DEF Counted, One
<1>8. Exact(pool)
  BY <1>2, UnusedTypes DEF Exact, Measured
<1> QED
  BY <1>3, <1>5, <1>6, <1>7, <1>8 DEF PbufInv, PoolInv

\* The next state, taken as one.
LEMMA PbufNextIs ==
  ASSUME NEW t, NEW k, pool' = t, holders' = k, k \in [Pbuf -> 0 .. MostHeld],
         PoolInv(t, k, NULL), Exact(t)
  PROVE  PbufInv'
<1>1. PoolInv(pool', holders', NULL) /\ Exact(pool') /\ holders' \in [Pbuf -> 0 .. MostHeld]
  OBVIOUS
<1> QED
  BY <1>1 DEF PbufInv, Exact, PoolInv, Counted, Kept, Chained, Measured, Pointed

\* The calls keep it.
LEMMA AllocInv ==
  ASSUME PbufInv, NEW length \in 0 .. LongestPacket, NEW front \in {0, Headers},
         pbuf_alloc(length, front)
  PROVE  PbufInv'
<1> DEFINE p == memp_malloc(pool)
           n == Smaller(length, BufSize - front)
<1>1. p \in Spare(pool)
  BY DEF pbuf_alloc, memp_malloc
<1>2. length \in Nat /\ front \in 0 .. BufSize - 1
  BY PbufConstants
<1>3. /\ pool' = AllocTail(Begun(pool, p, length, front), p, length - n)
      /\ holders' = IF pool'[p].ref = 0 THEN holders ELSE [holders EXCEPT ![p] = 1]
  BY Zenon DEF pbuf_alloc, Begun
<1> HIDE DEF p
<1>4. holders \in Held /\ PoolInv(pool, holders, NULL) /\ Exact(pool)
  BY PbufInvIs
<1>5. /\ p \in Pbuf /\ Exact(pool')
      /\ pool'[p].ref = 0 => PoolInv(pool', holders, NULL)
      /\ pool'[p].ref # 0 => PoolInv(pool', [holders EXCEPT ![p] = 1], NULL)
  BY <1>1, <1>2, <1>3, <1>4, AllocKeeps
<1>6. holders' \in [Pbuf -> 0 .. MostHeld]
  BY <1>3, <1>5, PbufConstants DEF PbufInv
<1>7. PoolInv(pool', holders', NULL)
  BY <1>3, <1>5
<1> QED
  BY <1>5, <1>6, <1>7, PbufNextIs

LEMMA RefInv ==
  ASSUME PbufInv, NEW p \in Pbuf, pbuf_ref(p)
  PROVE  PbufInv'
<1> DEFINE s == pool
           h == holders
           t == [s EXCEPT ![p].ref = @ + 1]
           k == [h EXCEPT ![p] = @ + 1]
<1>1. /\ h \in Held /\ s \in Pools /\ Chained(s) /\ Kept(s) /\ Exact(s)
      /\ Counted(s, h, NULL) /\ h \in [Pbuf -> 0 .. MostHeld]
  BY PbufInvIs DEF PbufInv
<1>2. pool' = t /\ holders' = k /\ h[p] \in 1 .. MostHeld - 1
  BY DEF pbuf_ref
<1> HIDE DEF s, h
<1>7. t = RefUp(s, p)
  BY DEF RefUp
<1> HIDE DEF t
<1>3. /\ t \in Pools /\ Chained(t) /\ Kept(t) /\ Exact(t)
      /\ \A q \in Pbuf : /\ t[q].ref = s[q].ref + One(q = p)
                         /\ Pointed(t, q) <=> Pointed(s, q)
  BY <1>1, <1>7, RefAdded
<1>4. /\ k \in [Pbuf -> 0 .. MostHeld]
      /\ \A q \in Pbuf : k[q] = h[q] + One(q = p)
  <2>1. h[p] + 1 \in 0 .. MostHeld /\ \A q \in Pbuf : h[q] \in Nat
    BY <1>1, <1>2, PbufConstants DEF Held
  <2> QED
    BY <1>1, <2>1 DEF One
<1> HIDE DEF k
<1>5. Counted(t, k, NULL)
  <2>1. ASSUME NEW q \in Pbuf PROVE t[q].ref = k[q] + One(Pointed(t, q)) + One(q = NULL)
    <3>1. s[q].ref = h[q] + One(Pointed(s, q)) + One(q = NULL) /\ h[q] \in Nat
      BY <1>1 DEF Counted, Held
    <3>2. One(Pointed(t, q)) = One(Pointed(s, q))
      BY <1>3 DEF One
    <3>3. One(Pointed(s, q)) \in Nat /\ One(q = NULL) \in Nat /\ One(q = p) \in Nat
      BY DEF One
    <3>4. t[q].ref = s[q].ref + One(q = p) /\ k[q] = h[q] + One(q = p)
      BY <1>3, <1>4
    <3> HIDE DEF Pointed, One
    <3> QED
      BY <3>1, <3>2, <3>3, <3>4
  <2> QED
    BY <2>1 DEF Counted
<1>6. PoolInv(t, k, NULL)
  BY <1>3, <1>5 DEF PoolInv
<1> QED
  BY <1>2, <1>3, <1>4, <1>6, PbufNextIs

LEMMA FreeInv ==
  ASSUME PbufInv, NEW p \in Pbuf, pbuf_free(p)
  PROVE  PbufInv'
<1> DEFINE s == pool
           h == holders
           k == [h EXCEPT ![p] = @ - 1]
<1>1. /\ h \in Held /\ s \in Pools /\ Chained(s) /\ Kept(s) /\ Exact(s)
      /\ Counted(s, h, NULL) /\ h \in [Pbuf -> 0 .. MostHeld]
  BY PbufInvIs DEF PbufInv
<1>2. pool' = Freed_from(s, p) /\ holders' = k /\ h[p] > 0
  BY Zenon DEF pbuf_free
<1> HIDE DEF s, h
<1>3. /\ k \in [Pbuf -> 0 .. MostHeld] /\ k \in Held
      /\ \A q \in Pbuf : k[q] + One(q = p) = h[q] /\ k[q] \in Nat
  <2>1. h[p] - 1 \in 0 .. MostHeld /\ h[p] - 1 \in Nat /\ \A q \in Pbuf : h[q] \in Nat
    BY <1>1, <1>2, PbufConstants DEF Held
  <2> QED
    BY <1>1, <2>1 DEF One, Held
<1> HIDE DEF k
<1>4. Counted(s, k, p)
  <2>1. ASSUME NEW q \in Pbuf PROVE s[q].ref = k[q] + One(Pointed(s, q)) + One(q = p)
    <3>1. s[q].ref = h[q] + One(Pointed(s, q)) + One(q = NULL)
      BY <1>1 DEF Counted
    <3>2. One(Pointed(s, q)) \in Nat /\ One(q = NULL) = 0 /\ One(q = p) \in Nat
      BY PbufConstants DEF One
    <3>3. k[q] + One(q = p) = h[q] /\ k[q] \in Nat
      BY <1>3
    <3> HIDE DEF Pointed, One
    <3> QED
      BY <3>1, <3>2, <3>3
  <2> QED
    BY <2>1 DEF Counted
<1>5. PoolInv(s, k, p)
  BY <1>1, <1>4 DEF PoolInv
<1>6. /\ PoolInv(Freed_from(s, p), k, NULL)
      /\ \A q \in Pbuf : Measured(s, q, 0) => Measured(Freed_from(s, p), q, 0)
  BY <1>3, <1>5, FreedKeeps
<1>7. Exact(Freed_from(s, p))
  BY <1>1, <1>6 DEF Exact
<1> QED
  <2> HIDE DEF Freed_from
  <2> QED
    BY <1>2, <1>3, <1>6, <1>7, PbufNextIs

LEMMA CatInv ==
  ASSUME PbufInv, NEW a \in Pbuf, NEW b \in Pbuf, pbuf_cat(a, b)
  PROVE  PbufInv'
<1> DEFINE s == pool
           h == holders
           t == Cat(s, a, b)
           k == [h EXCEPT ![b] = 0]
<1>1. /\ h \in Held /\ s \in Pools /\ Chained(s) /\ Kept(s) /\ Exact(s)
      /\ Counted(s, h, NULL) /\ h \in [Pbuf -> 0 .. MostHeld]
  BY PbufInvIs DEF PbufInv
<1>2. /\ pool' = t /\ holders' = k /\ h[b] = 1 /\ a # b
      /\ ~Pointed(s, a) /\ ~Pointed(s, b) /\ \A q \in Members(s, a) : s[q].ref = 1
  BY PbufInvIs, Zenon DEF pbuf_cat, Packets, OwnOnly
<1> HIDE DEF s, h
<1>3. /\ t \in Pools /\ Chained(t) /\ Kept(t) /\ Exact(t)
      /\ \A q \in Pbuf : t[q].ref = s[q].ref
      /\ \A q \in Pbuf : Pointed(t, q) <=> Pointed(s, q) \/ q = b
  <2> HIDE DEF t
  <2> QED
    BY <1>1, <1>2, CatKeeps DEF t
<1> HIDE DEF t
<1>4. /\ k \in [Pbuf -> 0 .. MostHeld] /\ k[b] = 0
      /\ \A q \in Pbuf : q # b => k[q] = h[q]
  BY <1>1, PbufConstants
<1> HIDE DEF k
<1>5. Counted(t, k, NULL)
  <2>1. ASSUME NEW q \in Pbuf PROVE t[q].ref = k[q] + One(Pointed(t, q)) + One(q = NULL)
    <3>1. s[q].ref = h[q] + One(Pointed(s, q)) + One(q = NULL) /\ h[q] \in Nat
      BY <1>1 DEF Counted, Held
    <3>2. One(q = NULL) = 0
      BY PbufConstants DEF One
    <3>3. CASE q = b
      <4>1. One(Pointed(s, q)) = 0 /\ One(Pointed(t, q)) = 1
        BY <1>2, <1>3, <3>3 DEF One
      <4> HIDE DEF Pointed, One
      <4> QED
        BY <1>2, <1>3, <1>4, <3>1, <3>2, <3>3, <4>1
    <3>4. CASE q # b
      <4>1. One(Pointed(t, q)) = One(Pointed(s, q))
        BY <1>3, <3>4 DEF One
      <4>2. t[q].ref = s[q].ref /\ k[q] = h[q]
        BY <1>3, <1>4, <3>4
      <4> HIDE DEF Pointed, One
      <4> QED
        BY <3>1, <4>1, <4>2
    <3> QED
      BY <3>3, <3>4
  <2> QED
    BY <2>1 DEF Counted
<1>6. PoolInv(t, k, NULL)
  BY <1>3, <1>5 DEF PoolInv
<1> QED
  BY <1>2, <1>3, <1>4, <1>6, PbufNextIs

LEMMA ChainInv ==
  ASSUME PbufInv, NEW a \in Pbuf, NEW b \in Pbuf, pbuf_chain(a, b)
  PROVE  PbufInv'
<1> DEFINE s == pool
           h == holders
           c == Cat(s, a, b)
           t == RefUp(c, b)
<1>1. /\ h \in Held /\ s \in Pools /\ Chained(s) /\ Kept(s) /\ Exact(s)
      /\ Counted(s, h, NULL) /\ h \in [Pbuf -> 0 .. MostHeld]
  BY PbufInvIs DEF PbufInv
<1>2. /\ pool' = t /\ holders' = h /\ a # b
      /\ ~Pointed(s, a) /\ ~Pointed(s, b) /\ \A q \in Members(s, a) : s[q].ref = 1
  BY PbufInvIs, Zenon DEF pbuf_chain, Packets, OwnOnly, Chained_on, RefUp
<1> HIDE DEF s, h
<1>3. /\ c \in Pools /\ Chained(c) /\ Kept(c) /\ Exact(c)
      /\ \A q \in Pbuf : c[q].ref = s[q].ref
      /\ \A q \in Pbuf : Pointed(c, q) <=> Pointed(s, q) \/ q = b
  <2> HIDE DEF c
  <2> QED
    BY <1>1, <1>2, CatKeeps DEF c
<1> HIDE DEF c
<1>7. t = RefUp(c, b)
  OBVIOUS
<1> HIDE DEF t
<1>4. /\ t \in Pools /\ Chained(t) /\ Kept(t) /\ Exact(t)
      /\ \A q \in Pbuf : /\ t[q].ref = c[q].ref + One(q = b)
                         /\ Pointed(t, q) <=> Pointed(c, q)
  BY <1>3, <1>7, RefAdded
<1>5. Counted(t, h, NULL)
  <2>1. ASSUME NEW q \in Pbuf PROVE t[q].ref = h[q] + One(Pointed(t, q)) + One(q = NULL)
    <3>1. s[q].ref = h[q] + One(Pointed(s, q)) + One(q = NULL) /\ h[q] \in Nat
      BY <1>1 DEF Counted, Held
    <3>2. One(q = NULL) = 0 /\ t[q].ref = s[q].ref + One(q = b)
      BY <1>3, <1>4, PbufConstants DEF One
    <3>3. CASE q = b
      <4>1. One(Pointed(s, q)) = 0 /\ One(Pointed(t, q)) = 1 /\ One(q = b) = 1
        BY <1>2, <1>3, <1>4, <3>3 DEF One
      <4> HIDE DEF Pointed, One
      <4> QED
        BY <3>1, <3>2, <4>1
    <3>4. CASE q # b
      <4>1. One(Pointed(t, q)) = One(Pointed(s, q)) /\ One(q = b) = 0
        BY <1>3, <1>4, <3>4 DEF One
      <4>2. One(Pointed(s, q)) \in Nat
        BY DEF One
      <4> HIDE DEF Pointed, One
      <4> QED
        BY <3>1, <3>2, <4>1, <4>2
    <3> QED
      BY <3>3, <3>4
  <2> QED
    BY <2>1 DEF Counted
<1>6. PoolInv(t, h, NULL)
  BY <1>4, <1>5 DEF PoolInv
<1> QED
  BY <1>1, <1>2, <1>4, <1>6, PbufNextIs

\* The packet without its first buffer, before what is left is freed.
Unlinked(s, p) ==
  [s EXCEPT ![s[p].next].tot_len = s[p].tot_len - s[p].len,
            ![p].next = NULL, ![p].tot_len = s[p].len]

\* Only that first buffer changes.
LEMMA UnlinkedIs ==
  ASSUME NEW s \in Pools, NEW p \in Pbuf, NEW q \in Pbuf, p # q, s[p].next = q,
         s[q].tot_len = s[p].tot_len - s[p].len
  PROVE  /\ Unlinked(s, p) \in Pools
         /\ \A b \in Pbuf : b # p => Unlinked(s, p)[b] = s[b]
         /\ Unlinked(s, p)[p].next = NULL /\ Unlinked(s, p)[p].ref = s[p].ref
         /\ Unlinked(s, p)[p].len = s[p].len /\ Unlinked(s, p)[p].room = s[p].room
         /\ Unlinked(s, p)[p].tot_len = s[p].len
<1> DEFINE e == [s[p] EXCEPT !.next = NULL, !.tot_len = s[p].len]
           f == [s[q] EXCEPT !.tot_len = s[p].tot_len - s[p].len]
<1>1. s[p] \in Entries /\ s[q] \in Entries /\ s[p].len \in Nat
  BY EntryTypes
<1>2. f = s[q]
  BY <1>1 DEF Entries
<1>3. /\ e \in Entries /\ e.next = NULL /\ e.ref = s[p].ref /\ e.len = s[p].len
      /\ e.room = s[p].room /\ e.tot_len = s[p].len
  BY <1>1 DEF Entries
<1>4. Unlinked(s, p) = [[s EXCEPT ![q] = f] EXCEPT ![p] = e]
  BY DEF Unlinked, Pools
<1> HIDE DEF e, f
<1>5. [s EXCEPT ![q] = f] = s
  BY <1>2 DEF Pools
<1>6. Unlinked(s, p) = [s EXCEPT ![p] = e]
  BY <1>4, <1>5
<1> QED
  BY <1>3, <1>6 DEF Pools

LEMMA DechainInv ==
  ASSUME PbufInv, NEW p \in Pbuf, pbuf_dechain(p)
  PROVE  PbufInv'
<1> DEFINE s == pool
           h == holders
           q == s[p].next
           t == Unlinked(s, p)
<1>1. /\ h \in Held /\ s \in Pools /\ Chained(s) /\ Kept(s) /\ Exact(s)
      /\ Counted(s, h, NULL) /\ h \in [Pbuf -> 0 .. MostHeld]
  BY PbufInvIs DEF PbufInv
<1>2. /\ pool' = Freed_from(t, q) /\ holders' = h
      /\ ~Pointed(s, p) /\ h[p] > 0 /\ q # NULL
  BY PbufInvIs, Zenon DEF pbuf_dechain, Packets, Dechained, Unlinked
<1> HIDE DEF s, h
<1>3. q \in Pbuf /\ q # p /\ s[p].ref > 0 /\ s[p].ref \in Nat
  <2>1. q \in Pbuf
    BY <1>1, <1>2, EntryTypes
  <2>2. q # p
    BY <1>2 DEF Pointed
  <2> QED
    BY <1>1, <1>2, <2>1, <2>2, HeldIsCounted
<1>4. s[q].tot_len = s[p].tot_len - s[p].len
  <2>1. s[p].tot_len = s[p].len + s[q].tot_len
    BY <1>1, <1>2 DEF Exact, Measured
  <2>2. s[q].tot_len \in Nat /\ s[p].len \in Nat
    BY <1>1, <1>3, EntryTypes
  <2> QED
    BY <2>1, <2>2
<1>9. s[p].next = q
  OBVIOUS
<1> HIDE DEF q, t
<1>5. /\ t \in Pools /\ \A b \in Pbuf : b # p => t[b] = s[b]
      /\ t[p].next = NULL /\ t[p].ref = s[p].ref
      /\ t[p].len = s[p].len /\ t[p].room = s[p].room
      /\ t[p].tot_len = s[p].len
  BY <1>1, <1>3, <1>4, <1>9, UnlinkedIs DEF t
<1>6. Chained(t) /\ Kept(t) /\ Exact(t)
  <2>1. \A b \in Pbuf : t[b].next = s[b].next \/ t[b].next = NULL
    BY <1>5
  <2>2. Chained(t)
    BY <1>1, <2>1, FewerLinks
  <2>3. ASSUME NEW b \in Pbuf
        PROVE  (t[b].ref = 0 => t[b] = Unused) /\ t[b].len + t[b].room <= BufSize
    <3>1. CASE b = p
      BY <1>1, <1>3, <1>5, <3>1 DEF Kept
    <3>2. CASE b # p
      BY <1>1, <1>5, <3>2 DEF Kept
    <3> QED
      BY <3>1, <3>2
  <2>4. ASSUME NEW b \in Pbuf PROVE Measured(t, b, 0)
    <3>1. CASE b = p
      <4>1. s[p].len \in Nat
        BY <1>1, EntryTypes
      <4> QED
        BY <1>5, <3>1, <4>1 DEF Measured
    <3>2. CASE b # p
      <4>1. Measured(s, b, 0) /\ t[b] = s[b]
        BY <1>1, <1>5, <3>2 DEF Exact
      <4>2. s[b].next \in Pbuf \cup {NULL} /\ s[b].next # p
        BY <1>1, <1>2, EntryTypes DEF Pointed
      <4>3. s[b].next # NULL => t[s[b].next] = s[s[b].next]
        BY <1>5, <4>2
      <4> QED
        BY <4>1, <4>3 DEF Measured
    <3> QED
      BY <3>1, <3>2
  <2> QED
    BY <2>2, <2>3, <2>4 DEF Kept, Exact
<1>7. Counted(t, h, q)
  <2>1. ASSUME NEW b \in Pbuf PROVE t[b].ref = h[b] + One(Pointed(t, b)) + One(b = q)
    <3>1. s[b].ref = h[b] + One(Pointed(s, b)) + One(b = NULL) /\ One(b = NULL) = 0
      BY <1>1, PbufConstants DEF Counted, One
    <3>2. t[b].ref = s[b].ref /\ h[b] \in Nat
      BY <1>1, <1>5 DEF Held
    <3>3. b # NULL
      BY PbufConstants
    <3>4. CASE b = q
      <4>1. ASSUME NEW r \in Pbuf, t[r].next = q PROVE FALSE
        <5>1. r # p
          BY <1>3, <1>5, <3>3, <3>4, <4>1
        <5>2. s[r].next = s[p].next /\ s[r].next # NULL
          BY <1>5, <1>9, <3>3, <3>4, <4>1, <5>1
        <5> QED
          BY <1>1, <5>1, <5>2 DEF Chained
      <4>2. ~Pointed(t, b) /\ Pointed(s, b)
        BY <1>9, <3>4, <4>1 DEF Pointed
      <4>3. One(Pointed(t, b)) = 0 /\ One(Pointed(s, b)) = 1 /\ One(b = q) = 1
        BY <3>4, <4>2 DEF One
      <4> HIDE DEF Pointed, One
      <4> QED
        BY <3>1, <3>2, <4>3
    <3>5. CASE b # q
      <4>1. Pointed(t, b) <=> Pointed(s, b)
        BY <1>5, <1>9, <3>3, <3>5 DEF Pointed
      <4>2. One(Pointed(t, b)) = One(Pointed(s, b)) /\ One(b = q) = 0
        BY <3>5, <4>1 DEF One
      <4> HIDE DEF Pointed, One
      <4> QED
        BY <3>1, <3>2, <4>2
    <3> QED
      BY <3>4, <3>5
  <2> QED
    BY <2>1 DEF Counted
<1> DEFINE u == Freed_from(t, q)
<1>8. PoolInv(t, h, q)
  BY <1>5, <1>6, <1>7 DEF PoolInv
<1>10. /\ PoolInv(u, h, NULL)
       /\ \A b \in Pbuf : Measured(t, b, 0) => Measured(u, b, 0)
  BY <1>1, <1>3, <1>8, FreedKeeps
<1>11. Exact(u)
  BY <1>6, <1>10 DEF Exact
<1>12. pool' = u /\ holders' = h
  BY <1>2
<1> HIDE DEF u
<1> QED
  BY <1>1, <1>10, <1>11, <1>12, PbufNextIs

LEMMA ReallocInv ==
  ASSUME PbufInv, NEW p \in Pbuf, NEW n \in 0 .. LongestPacket, pbuf_realloc(p, n)
  PROVE  PbufInv'
<1> DEFINE t == Cut(pool, p, n)
<1>1. /\ holders \in Held /\ PoolInv(pool, holders, NULL) /\ Exact(pool) /\ pool \in Pools
      /\ holders \in [Pbuf -> 0 .. MostHeld] /\ Counted(pool, holders, NULL)
  BY PbufInvIs DEF PbufInv
<1>2. /\ pool' = t /\ holders' = holders /\ ~Pointed(pool, p) /\ holders[p] > 0
      /\ n < pool[p].tot_len
  BY PbufInvIs, Zenon DEF pbuf_realloc, Packets
<1>3. pool[p].ref > 0
  BY <1>1, <1>2, HeldIsCounted
<1>4. n \in Nat
  BY PbufConstants
<1>5. PoolInv(t, holders, NULL) /\ Exact(t)
  BY <1>1, <1>2, <1>3, <1>4, CutKeeps
<1> HIDE DEF t
<1> QED
  BY <1>1, <1>2, <1>5, PbufNextIs

LEMMA HeaderInv ==
  ASSUME PbufInv, NEW p \in Pbuf, NEW n \in {-1, 1}, pbuf_header(p, n)
  PROVE  PbufInv'
<1> DEFINE s == pool
           h == holders
           e == [s[p] EXCEPT !.len = @ + n, !.tot_len = @ + n, !.room = @ - n]
           t == [s EXCEPT ![p] = e]
<1>1. /\ h \in Held /\ s \in Pools /\ Chained(s) /\ Kept(s) /\ Exact(s)
      /\ Counted(s, h, NULL) /\ h \in [Pbuf -> 0 .. MostHeld]
  BY PbufInvIs DEF PbufInv
<1>2. /\ pool' = [s EXCEPT ![p].len = @ + n, ![p].tot_len = @ + n, ![p].room = @ - n]
      /\ holders' = h /\ ~Pointed(s, p) /\ h[p] > 0
      /\ -n <= s[p].len /\ n <= s[p].room
  BY PbufInvIs, Zenon DEF pbuf_header, Packets
<1>3. pool' = t
  BY <1>1, <1>2 DEF Pools
<1> HIDE DEF s, h
<1>4. s[p].ref > 0 /\ s[p].ref \in Nat
  BY <1>1, <1>2, HeldIsCounted
<1>5. /\ s[p] \in Entries /\ s[p].len \in Nat /\ s[p].room \in Nat /\ s[p].tot_len \in Nat
      /\ s[p].len + s[p].room <= BufSize /\ n \in Int
      /\ s[p].next \in Pbuf \cup {NULL}
  BY <1>1, EntryTypes DEF Kept
<1>6. /\ Measured(s, p, 0)
      /\ s[p].next # NULL => s[s[p].next].tot_len \in Nat
  BY <1>1, <1>5, EntryTypes DEF Exact
<1>7. s[p].len <= s[p].tot_len
  BY <1>5, <1>6 DEF Measured
<1>8. /\ s[p].len + n \in 0 .. BufSize /\ s[p].room - n \in 0 .. BufSize
      /\ s[p].tot_len + n \in Nat /\ (s[p].len + n) + (s[p].room - n) <= BufSize
  BY <1>2, <1>5, <1>7, PbufConstants
<1>9. /\ e \in Entries /\ e.next = s[p].next /\ e.ref = s[p].ref
      /\ e.len = s[p].len + n /\ e.tot_len = s[p].tot_len + n /\ e.room = s[p].room - n
  BY <1>5, <1>8 DEF Entries
<1> HIDE DEF e
<1>10. t \in Pools /\ t[p] = e /\ \A q \in Pbuf : q # p => t[q] = s[q]
  BY <1>1, <1>9 DEF Pools
<1> HIDE DEF t
<1>11. \A q \in Pbuf : t[q].next = s[q].next /\ t[q].ref = s[q].ref
  BY <1>9, <1>10
<1>12. Chained(t)
  BY <1>1, <1>11, FewerLinks
<1>13. Kept(t)
  <2>1. ASSUME NEW q \in Pbuf
        PROVE  (t[q].ref = 0 => t[q] = Unused) /\ t[q].len + t[q].room <= BufSize
    <3>1. CASE q = p
      BY <1>4, <1>8, <1>9, <1>10, <3>1
    <3>2. CASE q # p
      BY <1>1, <1>10, <3>2 DEF Kept
    <3> QED
      BY <3>1, <3>2
  <2> QED
    BY <2>1 DEF Kept
<1>14. Exact(t)
  <2>1. ASSUME NEW q \in Pbuf PROVE Measured(t, q, 0)
    <3>1. Measured(s, q, 0) /\ s[q].next \in Pbuf \cup {NULL} /\ s[q].next # p
      BY <1>1, <1>2, EntryTypes DEF Exact, Pointed
    <3>2. s[q].next # NULL => t[s[q].next] = s[s[q].next]
      BY <1>10, <3>1
    <3>3. CASE q = p
      <4> DEFINE m == IF s[p].next = NULL THEN 0 ELSE s[s[p].next].tot_len
      <4>1. m \in Nat /\ s[p].tot_len = s[p].len + m
        BY <1>6 DEF Measured
      <4>2. m = IF t[p].next = NULL THEN 0 ELSE t[t[p].next].tot_len
        BY <1>9, <1>10, <3>2, <3>3
      <4>3. t[p].tot_len = s[p].tot_len + n /\ t[p].len = s[p].len + n
        BY <1>9, <1>10
      <4> HIDE DEF m
      <4>4. t[p].tot_len = t[p].len + m
        BY <1>5, <4>1, <4>3
      <4> QED
        BY <3>3, <4>2, <4>4 DEF Measured
    <3>4. CASE q # p
      <4>1. t[q] = s[q]
        BY <1>10, <3>4
      <4> QED
        BY <3>1, <3>2, <4>1 DEF Measured
    <3> QED
      BY <3>3, <3>4
  <2> QED
    BY <2>1 DEF Exact
<1>15. Counted(t, h, NULL)
  <2>1. ASSUME NEW q \in Pbuf PROVE t[q].ref = h[q] + One(Pointed(t, q)) + One(q = NULL)
    <3>1. Pointed(t, q) <=> Pointed(s, q)
      BY <1>11 DEF Pointed
    <3>2. One(Pointed(t, q)) = One(Pointed(s, q))
      BY <3>1 DEF One
    <3>3. s[q].ref = h[q] + One(Pointed(s, q)) + One(q = NULL) /\ t[q].ref = s[q].ref
      BY <1>1, <1>11 DEF Counted
    <3> HIDE DEF Pointed, One
    <3> QED
      BY <3>2, <3>3, Zenon
  <2> QED
    BY <2>1 DEF Counted
<1>16. PoolInv(t, h, NULL)
  BY <1>10, <1>12, <1>13, <1>15 DEF PoolInv
<1> QED
  BY <1>1, <1>2, <1>3, <1>14, <1>16, PbufNextIs

\* A step keeps it.
LEMMA PbufStep == PbufInv /\ [PbufNext]_pbufVars => PbufInv'
<1> SUFFICES ASSUME PbufInv, [PbufNext]_pbufVars PROVE PbufInv'
  OBVIOUS
<1>1. CASE \E length \in 0 .. LongestPacket, front \in {0, Headers} :
             pbuf_alloc(length, front)
  BY <1>1, AllocInv, Zenon
<1>2. CASE \E p \in Pbuf : pbuf_ref(p) \/ pbuf_free(p) \/ pbuf_dechain(p)
  BY <1>2, RefInv, FreeInv, DechainInv, Zenon
<1>3. CASE \E a, b \in Pbuf : pbuf_cat(a, b) \/ pbuf_chain(a, b)
  BY <1>3, CatInv, ChainInv, Zenon
<1>4. CASE \E p \in Pbuf, n \in 0 .. LongestPacket : pbuf_realloc(p, n)
  BY <1>4, ReallocInv, Zenon
<1>5. CASE \E p \in Pbuf, n \in {-1, 1} : pbuf_header(p, n)
  BY <1>5, HeaderInv, Zenon
<1>6. CASE UNCHANGED pbufVars
  <2>1. pool' = pool /\ holders' = holders
    BY <1>6 DEF pbufVars
  <2> QED
    BY <2>1, PbufInvIs, PbufNextIs DEF PbufInv
<1> QED
  BY <1>1, <1>2, <1>3, <1>4, <1>5, <1>6, Zenon DEF PbufNext

\* The pointers to a buffer are none or one.
LEMMA PointersCounted ==
  ASSUME NEW s, Chained(s), NEW p \in Pbuf
  PROVE  Cardinality({q \in Pbuf : s[q].next = p}) = One(Pointed(s, p))
<1> DEFINE P == {q \in Pbuf : s[q].next = p}
<1>1. CASE Pointed(s, p)
  <2>1. PICK q \in Pbuf : s[q].next = p
    BY <1>1 DEF Pointed
  <2>2. p # NULL
    BY PbufConstants
  <2>3. P = {q}
    BY <2>1, <2>2 DEF Chained
  <2> HIDE DEF P
  <2>4. Cardinality(P) = 1
    BY <2>3, FS_Singleton
  <2> QED
    BY <1>1, <2>4 DEF One, P
<1>2. CASE ~Pointed(s, p)
  <2>1. P = {}
    BY <1>2 DEF Pointed
  <2> HIDE DEF P
  <2>2. Cardinality(P) = 0
    BY <2>1, FS_EmptySet
  <2> QED
    BY <1>2, <2>2 DEF One, P
<1> QED
  BY <1>1, <1>2

\* It says all that PbufsSound does.
LEMMA PbufInvSuffices == PbufInv => PbufsSound
<1> SUFFICES ASSUME PbufInv PROVE PbufsSound
  OBVIOUS
<1>1. /\ pool \in Pools /\ Chained(pool) /\ Counted(pool, holders, NULL) /\ Exact(pool)
      /\ holders \in [Pbuf -> 0 .. MostHeld]
  BY PbufInvIs DEF PbufInv
<1>2. PbufTypeOK
  BY <1>1 DEF PbufTypeOK, Pools, Entries
<1>3. RefsExact
  <2>1. ASSUME NEW p \in Pbuf
        PROVE  pool[p].ref = holders[p] + Cardinality({q \in Pbuf : pool[q].next = p})
    <3>1. /\ pool[p].ref = holders[p] + One(Pointed(pool, p)) + One(p = NULL)
          /\ holders[p] \in Nat
      BY <1>1, PbufInvIs DEF Counted
    <3>2. Cardinality({q \in Pbuf : pool[q].next = p}) = One(Pointed(pool, p))
      BY <1>1, PointersCounted
    <3>3. One(p = NULL) = 0 /\ One(Pointed(pool, p)) \in Nat
      BY PbufConstants DEF One
    <3> HIDE DEF Pointed, One
    <3>4. pool[p].ref = holders[p] + One(Pointed(pool, p))
      BY <3>1, <3>3
    <3> QED
      BY <3>2, <3>4, Zenon
  <2> QED
    BY <2>1 DEF RefsExact
<1>4. TotLenExact
  BY <1>1 DEF Exact, Measured, TotLenExact
<1>5. ChainsEnd
  BY <1>1 DEF Chained, ChainsEnd
<1> QED
  BY <1>2, <1>3, <1>4, <1>5 DEF PbufsSound

\* Whatever the callers do with their packets, every buffer's ref is the number
\* of pointers to it, every tot_len is the length of the chain from there on,
\* and no chain closes on itself: for pools, buffers and packets of any size.
THEOREM PbufsAreSound == PbufSpec => []PbufsSound
<1>1. PbufInit => PbufInv
  BY PbufInitial
<1>2. PbufInv /\ [PbufNext]_pbufVars => PbufInv'
  BY PbufStep
<1>3. PbufInv => PbufsSound
  BY PbufInvSuffices
<1> QED
  BY <1>1, <1>2, <1>3, PTL DEF PbufSpec
=============================================================================
