------------------------------- MODULE Malloc -------------------------------
(***************************************************************************)
(* malloc.c: the block allocator of one memory bank, at the granularity of *)
(* its loops.  The caller is the boot code (lwipcomm.c): it frees or        *)
(* reallocates only blocks it was given.                                   *)
(***************************************************************************)
EXTENDS Integers, FiniteSets

CONSTANTS
  N,          \* memtabsize: cells of the bank
  BlockSize,  \* memblocksize: bytes of a cell
  Sizes,      \* the sizes in bytes that are requested
  NIL         \* the null pointer, 0xFFFFFFFF as an offset

ASSUME SizeAssumption == N \in Nat \ {0} /\ BlockSize \in Nat \ {0} /\ Sizes \subseteq Nat

VARIABLES
  memreadyflag, \* has the bank been initialised?
  memmap,       \* per cell, the length of the block it belongs to, 0 if free
  held,         \* the blocks the caller holds
  pc,           \* the loop that is running, "idle" between two calls
  need,         \* memblock_neednum (malloc), memblock_num (free)
  seri,         \* memblock_serinum
  offset,       \* offset (malloc), index (free)
  i,            \* the loop variable of the marking and clearing loops
  old,          \* the block myrealloc moves, NIL in a plain mymalloc
  ret           \* what the last call returned

vars == <<memreadyflag, memmap, held, pc, need, seri, offset, i, old, ret>>

Idx == 0 .. N - 1
Cells(b)    == b.off .. b.off + b.len - 1
Block(o, n) == [off |-> o, len |-> n]
Blocks == {Block(o, n) : o \in Idx, n \in 1 .. N}
ASSUME NilAssumption == NIL \notin Blocks

NeedNum(size) == size \div BlockSize + (IF size % BlockSize > 0 THEN 1 ELSE 0)
Lens == {NeedNum(s) : s \in Sizes \ {0}}

\* The table of the external bank lies where no start-up code clears it.
Init ==
  /\ memreadyflag = FALSE
  /\ memmap \in [Idx -> 0 .. N]
  /\ held = {} /\ pc = "idle"
  /\ need = 0 /\ seri = 0 /\ offset = 0 /\ i = 0
  /\ old = NIL /\ ret = NIL

my_mem_init == memreadyflag' = TRUE /\ memmap' = [c \in Idx |-> 0]

Initialise ==
  /\ pc = "idle" /\ held = {} /\ my_mem_init
  /\ UNCHANGED <<held, pc, need, seri, offset, i, old, ret>>

\* Where the search starts; a mutant starts at memtabsize - 2.
LastButOne == N - 2
Last == N - 1

\* The head of my_mem_malloc, for mymalloc (b = NIL) or myrealloc of b.
Request(size, b) ==
  /\ pc = "idle"
  /\ IF memreadyflag THEN UNCHANGED <<memreadyflag, memmap>> ELSE my_mem_init
  /\ IF size = 0
     THEN ret' = NIL /\ UNCHANGED <<pc, need, seri, offset, old>>
     ELSE /\ pc' = "scan" /\ need' = NeedNum(size) /\ seri' = 0
          /\ offset' = Last /\ old' = b
          /\ UNCHANGED ret
  /\ UNCHANGED <<held, i>>

\* The run of free cells after one more cell.
Run == IF memmap[offset] = 0 THEN seri + 1 ELSE 0

\* Is the run long enough?  A mutant wants one cell more.
FoundLonger == seri' > need
Found == seri' = need

\* One iteration of the search, from the last cell down.
Scan ==
  /\ pc = "scan" /\ offset >= 0
  /\ seri' = Run
  /\ IF Found
     THEN pc' = "mark" /\ i' = 0 /\ UNCHANGED offset
     ELSE offset' = offset - 1 /\ UNCHANGED <<pc, i>>
  /\ UNCHANGED <<memreadyflag, memmap, held, need, old, ret>>

\* Mutant: offset is unsigned, never below 0, and the search goes on.
ScanNeverFails ==
  /\ pc = "scan" /\ offset < 0 /\ offset' = Last
  /\ UNCHANGED <<memreadyflag, memmap, held, pc, need, seri, i, old, ret>>

ScanFails ==
  /\ pc = "scan" /\ offset < 0
  /\ pc' = "idle" /\ ret' = NIL /\ old' = NIL
  /\ UNCHANGED <<memreadyflag, memmap, held, need, seri, offset, i>>

\* What a cell of the block is set to.
Length == need

Mark ==
  /\ pc = "mark" /\ i < need
  /\ memmap' = [memmap EXCEPT ![offset + i] = Length]
  /\ i' = i + 1
  /\ UNCHANGED <<memreadyflag, held, pc, need, seri, offset, old, ret>>

\* my_mem_free of block b begins: the length comes from the table.
BeginClear(b) ==
  /\ pc' = "clear" /\ offset' = b.off /\ need' = memmap[b.off] /\ i' = 0

\* The block is returned; myrealloc then frees the old one.
MarkDone ==
  /\ pc = "mark" /\ i = need
  /\ ret' = Block(offset, need)
  /\ held' = (held \ {old}) \cup {ret'}
  /\ IF old = NIL THEN pc' = "idle" /\ UNCHANGED <<offset, need, i>>
                  ELSE BeginClear(old)
  /\ old' = NIL
  /\ UNCHANGED <<memreadyflag, memmap, seri>>

myfree(b) ==
  /\ pc = "idle" /\ b \in held
  /\ held' = held \ {b} /\ BeginClear(b)
  /\ UNCHANGED <<memreadyflag, memmap, seri, old, ret>>

Clear ==
  /\ pc = "clear" /\ i < need
  /\ memmap' = [memmap EXCEPT ![offset + i] = 0]
  /\ i' = i + 1
  /\ UNCHANGED <<memreadyflag, held, pc, need, seri, offset, old, ret>>

ClearDone ==
  /\ pc = "clear" /\ i = need /\ pc' = "idle"
  /\ UNCHANGED <<memreadyflag, memmap, held, need, seri, offset, i, old, ret>>

Next == \/ Initialise \/ Scan \/ ScanFails \/ Mark \/ MarkDone \/ Clear \/ ClearDone
        \/ \E size \in Sizes, b \in held \cup {NIL} : Request(size, b)
        \/ \E b \in held : myfree(b)

Spec == Init /\ [][Next]_vars

\* The loops run to their end: the allocator is called by straight-line code.
Loops == Scan \/ ScanFails \/ Mark \/ MarkDone \/ Clear \/ ClearDone
FairSpec == Spec /\ WF_vars(Loops)

\* my_mem_preused, the share of the cells in use in per cent.
my_mem_preused == (Cardinality({c \in Idx : memmap[c] # 0}) * 100) \div N

-----------------------------------------------------------------------------
(* The cells of held blocks, of the block being marked and of the one      *)
(* being cleared.                                                          *)
Marked   == IF pc = "mark" THEN offset .. offset + i - 1 ELSE {}
ToClear  == IF pc = "clear" THEN offset + i .. offset + need - 1 ELSE {}

TypeOK ==
  /\ memreadyflag \in BOOLEAN
  /\ memmap \in [Idx -> 0 .. N]
  /\ held \subseteq Blocks
  /\ pc \in {"idle", "scan", "mark", "clear"}
  /\ need \in Nat /\ seri \in Nat /\ i \in Nat
  /\ offset \in Int /\ offset + 1 >= 0 /\ offset < N
  /\ old \in Blocks \cup {NIL} /\ ret \in Blocks \cup {NIL}

\* Two blocks a caller holds never share a cell, nor leave the bank.
Disjoint ==
  /\ \A b \in held : Cells(b) \subseteq Idx
  /\ \A b, d \in held : b # d => Cells(b) \cap Cells(d) = {}

\* The table describes the blocks: every cell of a held block has its length,
\* and a cell that no block and no running loop accounts for is free.
TableDescribes ==
  memreadyflag =>
    /\ \A b \in held : \A c \in Cells(b) : memmap[c] = b.len
    /\ \A c \in Idx :
         memmap[c] # 0 => \/ \E b \in held : c \in Cells(b)
                          \/ c \in Marked \cup ToClear

\* Freeing never reaches into a neighbour, marking never overwrites one.
LoopsStayInside ==
  pc \in {"mark", "clear"} =>
    \A c \in offset .. offset + need - 1 : c \in Idx /\ \A b \in held : c \notin Cells(b)

\* The usage figure is that of the blocks held.
UsageExact ==
  (memreadyflag /\ pc = "idle") =>
     my_mem_preused = (Cardinality(UNION {Cells(b) : b \in held}) * 100) \div N

-----------------------------------------------------------------------------
(* The loop invariants that make the properties inductive (MallocProofs).  *)

Taken(c) == \E b \in held : c \in Cells(b)
Apart    == \A b \in held : \A c \in offset .. offset + need - 1 : c \notin Cells(b)

ReadyInv ==
  /\ held # {} \/ pc # "idle" => memreadyflag
  /\ old # NIL => old \in held /\ pc \in {"scan", "mark"}

\* The search has passed no run of need free cells, and seri counts the free
\* cells right above offset.
ScanInv ==
  pc = "scan" =>
    /\ need \in Lens /\ need >= 1 /\ seri < need /\ offset + seri < N
    /\ \A c \in offset + 1 .. offset + seri : memmap[c] = 0
    /\ offset + seri = N - 1 \/ memmap[offset + seri + 1] # 0
    /\ \A o \in offset + 1 .. N - need : \E c \in o .. o + need - 1 : Taken(c)

\* The run found lies in the bank, away from every block, and is the highest.
MarkInv ==
  pc = "mark" =>
    /\ need \in Lens /\ need >= 1 /\ i <= need /\ offset >= 0 /\ offset + need <= N
    /\ \A c \in Marked : memmap[c] = need
    /\ Apart
    /\ \A o \in offset + 1 .. N - need : \E c \in o .. o + need - 1 : Taken(c)

ClearInv ==
  pc = "clear" => /\ i <= need /\ offset >= 0 /\ offset + need <= N
                  /\ Apart

\* Disjoint blocks, an exact table, and loops that keep both: inductive.
IInv == TypeOK /\ Disjoint /\ TableDescribes /\ ReadyInv /\ ScanInv /\ MarkInv /\ ClearInv

\* The table of blocks is sound at every step of every loop: blocks apart, the
\* table exact, the loops inside their block, the figure of usage right.
AllocatorSound == IInv /\ LoopsStayInside /\ UsageExact

-----------------------------------------------------------------------------
Pool == INSTANCE BlockPool WITH N <- N, Lens <- Lens, NIL <- NIL,
                               held <- held, ret <- ret

\* The loops implement the pool: highest fit, refusal only when nothing fits.
RefinesPool == Pool!Spec

\* Every call returns.
Returns == pc # "idle" ~> pc = "idle"
=============================================================================
