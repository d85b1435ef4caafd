-------------------------------- MODULE Pbuf --------------------------------
(***************************************************************************)
(* lwIP's packet buffers (pbuf.c): chains of buffers from a pool, shared   *)
(* by counting the pointers to each.  A step is one call, by a caller that *)
(* keeps to what the comments ask of it: only a packet it holds, only by   *)
(* the first buffer, and no longer by one it has given to pbuf_cat.        *)
(***************************************************************************)
EXTENDS Integers, FiniteSets

CONSTANTS
  PoolSize,  \* PBUF_POOL_SIZE
  BufSize,   \* PBUF_POOL_BUFSIZE
  Headers,    \* bytes of headers a new packet leaves room for
  LongestPacket,
  MostHeld   \* bound: references a caller takes to one packet

ASSUME PbufAssumption ==
  /\ {PoolSize, BufSize, MostHeld} \subseteq Nat \ {0}
  /\ Headers \in 0 .. BufSize - 1 /\ LongestPacket \in Nat

VARIABLES
  pool,   \* the buffers: [next, ref, len, tot_len, room], see Unused
  holders    \* how many references to each the callers hold

pbufVars == <<pool, holders>>

Pbuf == 1 .. PoolSize
NULL == 0

\* A buffer in memp's list.  room is how far its payload may grow to the front.
Unused == [next |-> NULL, ref |-> 0, len |-> 0, tot_len |-> 0, room |-> 0]
Spare(s)  == {p \in Pbuf : s[p].ref = 0}
memp_malloc(s) == CHOOSE p \in Spare(s) : TRUE
Smaller(a, b) == IF a < b THEN a ELSE b

PbufInit == pool = [p \in Pbuf |-> Unused] /\ holders = [p \in Pbuf |-> 0]

-----------------------------------------------------------------------------
(* The loops.  The operators take and give back the pool.                  *)

\* The buffers that a loop comes to which begins with p and goes from r to
\* step[r], until that is NULL: the least set with p that no step leaves.
Reached(step, p) ==
  {q \in Pbuf :
     \A S \in SUBSET Pbuf :
       {p} \ {NULL} \subseteq S /\ (\A r \in S : step[r] \in S \cup {NULL}) => q \in S}

\* The chain from p on (pbuf_clen counts it).
Members(s, p) == Reached([q \in Pbuf |-> s[q].next], p)

\* pbuf_free: the loop goes on past each buffer that loses its last reference
\* and gives it back.
Freed_from(s, p) ==
  LET passed == Reached([q \in Pbuf |-> IF s[q].ref > 1 THEN NULL ELSE s[q].next], p)
  IN  [q \in Pbuf |-> IF q \notin passed THEN s[q]
                      ELSE IF s[q].ref > 1 THEN [s[q] EXCEPT !.ref = @ - 1] ELSE Unused]

\* pbuf_alloc of PBUF_POOL: the tail of the packet of p, one buffer after the
\* other; r is the last one, rem_len what is missing.  A round of the loop:
Extended(t) ==
  LET q   == memp_malloc(t.pool)
      len == Smaller(t.rem_len, BufSize)
      new == [next |-> NULL, ref |-> 1, len |-> len, tot_len |-> t.rem_len, room |-> 0]
  IN  [pool |-> [t.pool EXCEPT ![t.r].next = q, ![q] = new], r |-> q,
       rem_len |-> t.rem_len - len]

\* What is there of the packet is freed when the pool is empty.
AllocTail(s, p, rem_len) ==
  LET tail[i \in 0 .. PoolSize] ==
        IF i = 0 THEN [pool |-> s, r |-> p, rem_len |-> rem_len]
        ELSE IF tail[i - 1].rem_len = 0 \/ Spare(tail[i - 1].pool) = {} THEN tail[i - 1]
        ELSE Extended(tail[i - 1])
      end == tail[PoolSize]
  IN  IF end.rem_len = 0 THEN end.pool ELSE Freed_from(end.pool, p)

\* pbuf_realloc below tot_len: rem_len counts down along the chain; the buffers
\* passed over lose what the packet loses, the one reached is cut, and those
\* behind it are freed.
RemLen(s, p, new_len) ==
  LET rem_len[q \in Members(s, p)] ==
        IF q = p THEN new_len
        ELSE LET r == CHOOSE r \in Members(s, p) : s[r].next = q
             IN  rem_len[r] - s[r].len
  IN  rem_len
Cut(s, p, new_len) ==
  LET rem_len == RemLen(s, p, new_len)
      Over(q) == q \in Members(s, p) /\ rem_len[q] > s[q].len
      walked  == Reached([q \in Pbuf |-> IF Over(q) THEN s[q].next ELSE NULL], p)
      last    == CHOOSE q \in walked : ~Over(q)
      cut     == [q \in Pbuf |->
                    IF q \notin walked THEN s[q]
                    ELSE IF Over(q) THEN [s[q] EXCEPT !.tot_len = @ + new_len - s[p].tot_len]
                    ELSE [s[q] EXCEPT !.len = rem_len[q], !.tot_len = rem_len[q],
                                      !.next = NULL]]
  IN  Freed_from(cut, s[last].next)

\* pbuf_cat: every buffer of the first packet counts the second.
Cat(s, h, t) ==
  [p \in Pbuf |->
     IF p \notin Members(s, h) THEN s[p]
     ELSE [s[p] EXCEPT !.tot_len = @ + s[t].tot_len,
                       !.next = IF @ = NULL THEN t ELSE @]]

-----------------------------------------------------------------------------
(* The calls.                                                              *)

\* The first buffer of a packet, which no other one points to.
IsHead(p) == \A q \in Pbuf : pool[q].next # p
Packets   == {p \in Pbuf : holders[p] > 0 /\ IsHead(p)}
\* A packet no part of which anyone else refers to.
OwnOnly(h) == \A p \in Members(pool, h) : pool[p].ref = 1

pbuf_alloc(length, offset) ==
  /\ Spare(pool) # {}
  /\ LET p == memp_malloc(pool)
         n == Smaller(length, BufSize - offset)
         s == AllocTail([pool EXCEPT ![p] = [next |-> NULL, ref |-> 1, len |-> n,
                                             tot_len |-> length, room |-> offset]],
                        p, length - n)
     IN  /\ pool' = s
         /\ holders' = IF s[p].ref = 0 THEN holders ELSE [holders EXCEPT ![p] = 1]

pbuf_ref(p) ==
  /\ holders[p] \in 1 .. MostHeld - 1
  /\ pool' = [pool EXCEPT ![p].ref = @ + 1] /\ holders' = [holders EXCEPT ![p] = @ + 1]

pbuf_free(p) ==
  /\ holders[p] > 0
  /\ pool' = Freed_from(pool, p) /\ holders' = [holders EXCEPT ![p] = @ - 1]

\* The caller's reference to t is the chain's from now on.
pbuf_cat(h, t) ==
  /\ h \in Packets /\ t \in Packets /\ h # t /\ holders[t] = 1 /\ OwnOnly(h)
  /\ pool' = Cat(pool, h, t) /\ holders' = [holders EXCEPT ![t] = 0]

Chained_on(h, t) == [Cat(pool, h, t) EXCEPT ![t].ref = @ + 1]

\* The caller keeps its reference to t.
pbuf_chain(h, t) ==
  /\ h \in Packets /\ t \in Packets /\ h # t /\ OwnOnly(h)
  /\ pool' = Chained_on(h, t) /\ UNCHANGED holders

\* Mutant: the pointer taken out is not taken off the count.
DechainedOnly(p) ==
  [pool EXCEPT ![pool[p].next].tot_len = pool[p].tot_len - pool[p].len,
               ![p].next = NULL, ![p].tot_len = pool[p].len]

\* The rest is freed unless someone else refers to it.
Dechained(p) ==
  LET q == pool[p].next
  IN  Freed_from([pool EXCEPT ![q].tot_len = pool[p].tot_len - pool[p].len,
                              ![p].next = NULL, ![p].tot_len = pool[p].len], q)

pbuf_dechain(p) ==
  /\ p \in Packets /\ pool[p].next # NULL
  /\ pool' = Dechained(p) /\ UNCHANGED holders

pbuf_realloc(p, new_len) ==
  /\ p \in Packets /\ new_len < pool[p].tot_len
  /\ pool' = Cut(pool, p, new_len) /\ UNCHANGED holders

\* pbuf_header hides n bytes (n < 0) or brings as many back, if there is room.
pbuf_header(p, n) ==
  /\ p \in Packets /\ -n <= pool[p].len /\ n <= pool[p].room
  /\ pool' = [pool EXCEPT ![p].len = @ + n, ![p].tot_len = @ + n, ![p].room = @ - n]
  /\ UNCHANGED holders

PbufNext ==
  \/ \E length \in 0 .. LongestPacket, offset \in {0, Headers} : pbuf_alloc(length, offset)
  \/ \E p \in Pbuf : pbuf_ref(p) \/ pbuf_free(p) \/ pbuf_dechain(p)
  \/ \E h, t \in Pbuf : pbuf_cat(h, t) \/ pbuf_chain(h, t)
  \/ \E p \in Pbuf, n \in 0 .. LongestPacket : pbuf_realloc(p, n)
  \/ \E p \in Pbuf, n \in {-1, 1} : pbuf_header(p, n)

PbufSpec == PbufInit /\ [][PbufNext]_pbufVars

-----------------------------------------------------------------------------
PbufTypeOK ==
  /\ pool \in [Pbuf -> [next : Pbuf \cup {NULL}, ref : Nat, len : 0 .. BufSize,
                        tot_len : Nat, room : 0 .. BufSize]]
  /\ holders \in [Pbuf -> 0 .. MostHeld]

\* pbuf.c: "the reference counter of a pbuf equals the number of pointers that
\* refer to the pbuf": none is freed under a holder or leaked after the last.
RefsExact ==
  \A p \in Pbuf : pool[p].ref = holders[p] + Cardinality({q \in Pbuf : pool[q].next = p})

\* "tot_len invariant: (p->tot_len == p->len + (p->next? p->next->tot_len: 0)":
\* through cutting, joining, taking apart and hiding headers, of packets whose
\* tails others hold as well.
TotLenExact ==
  \A p \in Pbuf :
    pool[p].tot_len = pool[p].len + IF pool[p].next = NULL THEN 0
                                    ELSE pool[pool[p].next].tot_len

\* No chain closes on itself: every walk to its end terminates.
ChainsEnd ==
  \A S \in SUBSET Pbuf : S # {} => \E q \in S : pool[q].next \notin S

\* Packets are counted, measured and linked right, whoever shares them and
\* whenever the pool runs out.
PbufsSound == PbufTypeOK /\ RefsExact /\ TotLenExact /\ ChainsEnd
=============================================================================
