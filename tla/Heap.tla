-------------------------------- MODULE Heap --------------------------------
(***************************************************************************)
(* lwIP's heap (mem.c): a list of areas, each behind a header with the     *)
(* offsets of its neighbours and a mark, and lfree, the lowest free area.  *)
(* The main loop allocates, trims and frees.  NO_SYS compiles the mutex    *)
(* away, and the handler of WK_UP allocates too (tcp_connect's segment):   *)
(* NestedMalloc says whether it may do so while the main loop is in here.  *)
(*                                                                         *)
(* Offsets and sizes are in units of MEM_ALIGNMENT.  ram_end->prev is left *)
(* out: nothing reads it.                                                  *)
(***************************************************************************)
EXTENDS Naturals, FiniteSets

CONSTANTS
  MEM,      \* MEM_SIZE_ALIGNED
  HDR,      \* SIZEOF_STRUCT_MEM
  MIN,      \* MIN_SIZE_ALIGNED
  Wanted,   \* sizes callers ask for, aligned
  NestedMalloc  \* does WK_UP's handler interrupt the main loop in here?

ASSUME HeapAssumption ==
  /\ {MEM, HDR, MIN} \subseteq Nat \ {0} /\ HDR + MIN <= MEM
  /\ Wanted \subseteq Nat \ {0} /\ NestedMalloc \in BOOLEAN

VARIABLES
  mems,      \* the offsets of the headers on the list, but for ram_end
  next, prev, \* their fields
  used,      \* those whose area is in use
  lfree,     \* MEM stands for ram_end
  owned,     \* what callers got: an offset once for every time it was given
  found,     \* main's mem_malloc: <<area, size>> found but not taken, or <<>>
  freed      \* main's mem_free: the area marked free but not merged, or <<>>

heapVars == <<mems, next, prev, used, lfree, owned, found, freed>>

Offset == 0 .. MEM
ram_end == MEM

\* mem_init.
HeapInit ==
  /\ mems = {0} /\ used = {}
  /\ next = [o \in Offset |-> IF o = 0 THEN MEM ELSE 0] /\ prev = [o \in Offset |-> 0]
  /\ lfree = 0 /\ owned = [o \in Offset |-> 0] /\ found = <<>> /\ freed = <<>>

DataSize(m) == next[m] - (m + HDR)
AtLeastMin(n) == IF n < MIN THEN MIN ELSE n
Idle == found = <<>> /\ freed = <<>>

\* Mutant: the mark is not looked at.
VacantAny(m) == m \in mems

Vacant(m) == m \in mems \ used

-----------------------------------------------------------------------------
(* mem_malloc.                                                             *)

\* The areas the scan comes to, and those it would stop at.
Scanned(n) == {m \in mems : lfree <= m /\ m < MEM - n}

Fit(n) == {m \in Scanned(n) : m \notin used /\ DataSize(m) >= n}
FirstFit(n, m) == m \in Fit(n) /\ \A k \in Fit(n) : m <= k

Splits(m, n) == DataSize(m) >= n + HDR + MIN

\* The first free area from m on, or the end.
Advance(m, use) ==
  LET ahead == {k \in mems : k >= m /\ k \notin use} \cup {ram_end}
  IN  CHOOSE k \in ahead : \A j \in ahead : k <= j

\* Area m is taken for n units: a remainder that can hold data becomes an
\* area of its own.
Take(m, n) ==
  /\ owned' = [owned EXCEPT ![m] = @ + 1]
  /\ used' = used \cup {m}
  /\ LET rest == m + HDR + n IN
     IF Splits(m, n)
     THEN /\ mems' = mems \cup {rest}
          /\ next' = [next EXCEPT ![rest] = next[m], ![m] = rest]
          /\ prev' = [o \in Offset |-> IF o = rest THEN m
                                       ELSE IF o = next[m] /\ o # ram_end THEN rest
                                       ELSE prev[o]]
          /\ lfree' = IF m = lfree THEN rest ELSE lfree
     ELSE /\ UNCHANGED <<mems, next, prev>>
          /\ lfree' = IF m = lfree THEN Advance(m, used') ELSE lfree

\* Main's scan ends at a fit ...
MallocFind(n) ==
  /\ Idle /\ \E m \in mems : FirstFit(AtLeastMin(n), m) /\ found' = <<m, AtLeastMin(n)>>
  /\ UNCHANGED <<mems, next, prev, used, lfree, owned, freed>>
\* ... which is then taken, whatever the handler has done to it meanwhile.
MallocTake ==
  /\ found # <<>> /\ Take(found[1], found[2]) /\ found' = <<>>
  /\ UNCHANGED freed
\* Or it ends without: NULL.
MallocFails(n) ==
  /\ Idle /\ Fit(AtLeastMin(n)) = {} /\ UNCHANGED heapVars

\* The handler's mem_malloc, whole, at any point of main's calls.
MallocNested(n) ==
  /\ NestedMalloc /\ \E m \in mems : FirstFit(AtLeastMin(n), m) /\ Take(m, AtLeastMin(n))
  /\ UNCHANGED <<found, freed>>

-----------------------------------------------------------------------------
(* mem_free and mem_trim.                                                  *)

\* The mark is cleared ...
FreeMark(m) ==
  /\ Idle /\ m \in used /\ owned[m] > 0
  /\ used' = used \ {m} /\ freed' = <<m>> /\ owned' = [owned EXCEPT ![m] = @ - 1]
  /\ lfree' = IF m < lfree THEN m ELSE lfree
  /\ UNCHANGED <<mems, next, prev, found>>

\* ... and plug_holes joins the area with the free ones around it.
PlugHoles ==
  /\ freed # <<>> /\ freed' = <<>>
  /\ LET m     == freed[1]
         gone  == {n \in {next[m]} : Vacant(n)}
                  \cup {n \in {m} : prev[m] # m /\ Vacant(prev[m])}
         first == IF m \in gone THEN prev[m] ELSE m
         after == IF next[m] \in gone THEN next[next[m]] ELSE next[m]
     IN  /\ mems' = mems \ gone
         /\ next' = [o \in Offset |-> IF o \in gone THEN 0
                                      ELSE IF o = first THEN after ELSE next[o]]
         /\ prev' = [o \in Offset |-> IF o \in gone THEN 0
                                      ELSE IF o = after /\ o # ram_end THEN first ELSE prev[o]]
         /\ lfree' = IF lfree \in gone THEN first ELSE lfree
  /\ UNCHANGED <<used, owned, found>>

\* Mutant: lfree does not fall to an area that has been cut off below it.
TrimLosesLfree(m, rest) == IF lfree = next[m] THEN rest ELSE lfree

\* The lowest free area, once the rest of m is one.
TrimLfree(m, rest) ==
  IF lfree = next[m] \/ rest < lfree THEN rest ELSE lfree

\* mem_trim: the next area, if free, begins earlier; else what is cut off
\* becomes an area of its own, if it can hold data.
Trim(m, n) ==
  LET size == AtLeastMin(n)
      rest == m + HDR + size
      join == Vacant(next[m])
  IN /\ Idle /\ m \in used /\ owned[m] > 0 /\ size < DataSize(m)
     /\ join \/ size + HDR + MIN <= DataSize(m)
     /\ LET gone  == IF join THEN {next[m]} \ {rest} ELSE {}
            after == IF join THEN next[next[m]] ELSE next[m]
        IN /\ mems' = (mems \ gone) \cup {rest}
           /\ next' = [o \in Offset |-> IF o = m THEN rest ELSE IF o = rest THEN after
                                        ELSE IF o \in gone THEN 0 ELSE next[o]]
           /\ prev' = [o \in Offset |-> IF o = rest THEN m
                                        ELSE IF o = after /\ o # ram_end THEN rest
                                        ELSE IF o \in gone THEN 0 ELSE prev[o]]
           /\ lfree' = TrimLfree(m, rest)
     /\ UNCHANGED <<used, owned, found, freed>>

HeapNext ==
  \/ \E n \in Wanted : MallocFind(n) \/ MallocFails(n) \/ MallocNested(n)
  \/ MallocTake \/ PlugHoles
  \/ \E m \in mems : FreeMark(m) \/ \E n \in Wanted : Trim(m, n)
HeapSpec == HeapInit /\ [][HeapNext]_heapVars

-----------------------------------------------------------------------------
\* The types of the variables.
HeapTypeOK ==
  /\ mems \subseteq Offset \ {ram_end} /\ used \subseteq mems
  /\ next \in [Offset -> Offset] /\ prev \in [Offset -> Offset]
  /\ lfree \in Offset /\ owned \in [Offset -> Nat]

\* The areas lie side by side from 0 to the end, each can hold data, and the
\* two directions of the list agree.
AreasTile ==
  /\ 0 \in mems /\ prev[0] = 0
  /\ \A m \in mems :
       /\ m + HDR + MIN <= next[m] /\ next[m] \in mems \cup {ram_end}
       /\ \A k \in mems : k <= m \/ next[m] <= k
       /\ next[m] # ram_end => prev[next[m]] = m

\* Between calls no two neighbours are free: all free memory is in areas as
\* long as it allows.
HolesPlugged == Idle => \A m \in mems : ~(Vacant(m) /\ Vacant(next[m]))

\* The scan may begin at lfree: nothing below it is free, and it is.
LfreeLowest ==
  /\ \A m \in mems : Vacant(m) => lfree <= m
  /\ Idle => Vacant(lfree) \/ lfree = ram_end

\* Nobody is given an area that someone else holds.
GivenOnce == \A m \in Offset : owned[m] = IF m \in used THEN 1 ELSE 0

-----------------------------------------------------------------------------
\* The abstract heap; an area goes back when it is marked free.
AreasHeld == {<<m, next[m]>> : m \in used}
Abstract == INSTANCE HeapPool WITH Sizes <- Wanted, areas <- AreasHeld

\* The list implements the abstract heap.
RefinesHeapPool == Abstract!Spec

\* mem_malloc returns NULL only when no gap between the areas in use, joined
\* or not, is long enough: no free memory is overlooked.
NullMeansFull ==
  \A n \in Wanted : Idle /\ Fit(AtLeastMin(n)) = {} => Abstract!NoRoom(AtLeastMin(n))

-----------------------------------------------------------------------------
(* The invariant behind them, also within main's calls (HeapProofs).       *)

\* The list backwards is the list forwards, and every offset is in an area.
BackLinks == \A m \in mems \ {0} : prev[m] \in mems /\ next[prev[m]] = m
Covered   == \A f \in 0 .. MEM - 1 : \E m \in mems : m <= f /\ f < next[m]

\* Two neighbours are free only around the area that is being freed.
HolesAtFreed ==
  \A m \in mems : Vacant(m) /\ Vacant(next[m]) => freed \in {<<m>>, <<next[m]>>}

\* lfree is free or the end, also while an area is found or freed.
LfreeVacant == Vacant(lfree) \/ lfree = ram_end

\* Main frees or has found one area, which is free, and long enough.
CallInv ==
  /\ freed = <<>> \/ (found = <<>> /\ \E m \in mems \ used : freed = <<m>>)
  /\ \/ found = <<>>
     \/ \E m \in mems \ used, n \in Wanted :
          found = <<m, AtLeastMin(n)>> /\ AtLeastMin(n) <= DataSize(m)

HeapInv == /\ HeapTypeOK /\ AreasTile /\ BackLinks /\ Covered /\ HolesAtFreed
           /\ LfreeLowest /\ LfreeVacant /\ GivenOnce /\ CallInv

\* The list of areas is sound: it tiles the heap, no free neighbours, no free
\* memory below lfree or overlooked by a refusal, no area given twice.
HeapSound == HeapInv /\ HolesPlugged /\ NullMeansFull
=============================================================================
