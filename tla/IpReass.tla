------------------------------ MODULE IpReass ------------------------------
(***************************************************************************)
(* Reassembly of IP datagrams (ip_frag.c): ip_reass, which lwip_pkt_handle *)
(* reaches through ethernet_input and ip_input, and ip_reass_tmr.          *)
(*                                                                         *)
(* A datagram is Size units long; every route cuts it at its own points.   *)
(* A fragment comes at any time, in any order, more than once or never.    *)
(* The last one carries no "more fragments" flag.                          *)
(***************************************************************************)
EXTENDS Integers, Sequences, FiniteSets

CONSTANTS
  Datagram,           \* the sender's address and identification
  Size,
  Routes,             \* for each route, where it cuts
  REASSDATA,          \* MEMP_NUM_REASSDATA
  IP_REASS_MAX_PBUFS,
  IP_REASS_MAXAGE

ASSUME IpReassAssumption ==
  /\ Size \in Nat \ {0} /\ IsFiniteSet(Datagram)
  /\ \A cuts \in Routes : cuts # {} /\ cuts \subseteq 1 .. Size - 1
  /\ {REASSDATA, IP_REASS_MAX_PBUFS} \subseteq Nat \ {0} /\ IP_REASS_MAXAGE \in Nat

VARIABLES
  reassdatagrams, \* the list, first to last; see NewData
  ip_reass_pbufcount,
  passed_up,      \* the datagram ip_reass has just returned, if any
  unlinked_wrong  \* a freed entry is still on the list: what follows is undefined

ipReassVars == <<reassdatagrams, ip_reass_pbufcount, passed_up, unlinked_wrong>>

Fragment ==
  {f \in [start : 0 .. Size - 1, end : 1 .. Size] :
     f.start < f.end /\ \E cuts \in Routes :
       /\ {f.start, f.end} \subseteq cuts \cup {0, Size}
       /\ cuts \cap (f.start + 1 .. f.end - 1) = {}}
NoDatagram == <<>>

\* ip_reass_enqueue_new_datagram's structure: p is the chain of fragments.
NewData(d) == [id |-> d, timer |-> IP_REASS_MAXAGE, p |-> <<>>, last |-> FALSE]

IpReassInit ==
  /\ reassdatagrams = <<>> /\ ip_reass_pbufcount = 0
  /\ passed_up = NoDatagram /\ unlinked_wrong = FALSE

-----------------------------------------------------------------------------
(* The list.  The operators work on q = [list, count, freed, more, wrong]: *)
(* freed and more are pbufs_freed and other_datagrams > 1 of the running   *)
(* ip_reass_remove_oldest_datagram.                                        *)

\* pbuf_clen: a frame of the largest size is longer than PBUF_POOL_BUFSIZE.
Clen(f) == IF f.end - f.start > 1 THEN 2 ELSE 1
Total(v) ==
  LET sum[n \in 0 .. Len(v)] == IF n = 0 THEN 0 ELSE sum[n - 1] + v[n]
  IN  sum[Len(v)]
Pbufs_of(p) == Total([i \in DOMAIN p |-> Clen(p[i])])

Without(list, i) == SubSeq(list, 1, i - 1) \o SubSeq(list, i + 1, Len(list))

\* ip_reass_free_complete_datagram of the i-th entry, which is unlinked from
\* the prev-th: if that is not the one before, the freed entry stays linked.
FreeComplete(q, i, prev) ==
  LET n == Pbufs_of(q.list[i].p)
  IN  IF i = 1 \/ prev = i - 1
      THEN [q EXCEPT !.list = Without(@, i), !.count = @ - n, !.freed = @ + n]
      ELSE [q EXCEPT !.wrong = TRUE]

Others(q, d) == {i \in DOMAIN q.list : q.list[i].id # d}

\* One round: the last of those with the least timer goes.  prev is the last
\* entry that has a successor, wherever the oldest one is.
OldestOther(q, others) ==
  CHOOSE i \in others : \A j \in others :
    \/ q.list[i].timer < q.list[j].timer
    \/ q.list[i].timer = q.list[j].timer /\ j <= i
FreeOldest(q, d) ==
  LET others == Others(q, d)
      q1     == [q EXCEPT !.more = Cardinality(others) > 1]
  IN  IF others = {} THEN q1 ELSE FreeComplete(q1, OldestOther(q, others), Len(q.list) - 1)

\* Every round frees a pbuf, so there are no more rounds than pbufs needed.
RemoveOldest(q, d, need) ==
  LET round[n \in 0 .. need] ==
        IF n = 0 THEN [q EXCEPT !.freed = 0, !.more = TRUE]
        ELSE LET r == round[n - 1]
             IN  IF r.freed < need /\ r.more /\ ~r.wrong THEN FreeOldest(r, d) ELSE r
  IN  round[need]

\* ip_reass_tmr: those at 0 go, with the entry before them in hand.
TimedOut(r) == r.timer = 0

\* Mutant: the first of the list is passed over.
OlderButFirst(list) ==
  [i \in DOMAIN list |-> IF i = 1 THEN list[i] ELSE [list[i] EXCEPT !.timer = @ - 1]]

Older(list) == [i \in DOMAIN list |-> [list[i] EXCEPT !.timer = @ - 1]]

Unexpired(list) ==
  LET kept[n \in 0 .. Len(list)] ==
        IF n = 0 THEN <<>>
        ELSE IF TimedOut(list[n]) THEN kept[n - 1] ELSE Append(kept[n - 1], list[n])
  IN  kept[Len(list)]

PbufsQueued(list) == Total([i \in DOMAIN list |-> Pbufs_of(list[i].p)])

IpReassTmr ==
  /\ ~unlinked_wrong
  /\ LET kept == Unexpired(reassdatagrams)
     IN  /\ reassdatagrams' = Older(kept)
         /\ ip_reass_pbufcount' =
              ip_reass_pbufcount - (PbufsQueued(reassdatagrams) - PbufsQueued(kept))
  /\ passed_up' = NoDatagram /\ UNCHANGED unlinked_wrong

-----------------------------------------------------------------------------
(* A fragment (ip_reass_chain_frag_into_datagram_and_validate).            *)

\* The fragments the walk passes: as long as they start no later.
Passed(p, f) == CHOOSE k \in 0 .. Len(p) :
  /\ \A i \in 1 .. k : p[i].start <= f.start
  /\ k < Len(p) => p[k + 1].start > f.start
Walked(p, f) == SubSeq(p, 1, Passed(p, f))
Beyond(p, f) == SubSeq(p, Passed(p, f) + 1, Len(p))

\* "Overlapping or duplicate fragments are thrown away", but not one that comes
\* before all the others.
ThrownAway(p, f) ==
  \/ \E i \in DOMAIN Walked(p, f) : f.start < p[i].end
  \/ Walked(p, f) # <<>> /\ Beyond(p, f) # <<>> /\ f.end > Beyond(p, f)[1].start

NoHole(p) == \A i \in 1 .. Len(p) - 1 : p[i].end = p[i + 1].start

\* The walk looks for holes up to the fragment before the new one, and between
\* the two only if the new one is the last; then comes the rest.
Valid(p, f) ==
  /\ NoHole(IF Beyond(p, f) = <<>> THEN Append(p, f) ELSE Walked(p, f))
  /\ Head(Append(Walked(p, f), f)).start = 0
  /\ NoHole(<<f>> \o Beyond(p, f))

-----------------------------------------------------------------------------
(* ip_reass.                                                               *)

Keeps(q) == /\ reassdatagrams' = q.list /\ ip_reass_pbufcount' = q.count
            /\ unlinked_wrong' = q.wrong /\ passed_up' = NoDatagram

\* Mutant: the flag is the fragment's, not the entry's.
SeesLast(r, f) == f.end = Size

SeenLast(r, f) == r.last \/ f.end = Size

\* The fragment into the i-th entry; a complete datagram is returned.
Chain(q, i, f) ==
  LET r == q.list[i]
      s == [r EXCEPT !.last = SeenLast(r, f),
                     !.p = Walked(@, f) \o <<f>> \o Beyond(@, f)]
  IN  \/ /\ ThrownAway(r.p, f)
         /\ Keeps([q EXCEPT !.list[i].last = s.last])
      \/ /\ ~ThrownAway(r.p, f) /\ ~(s.last /\ Valid(r.p, f))
         /\ Keeps([q EXCEPT !.list[i] = s, !.count = @ + Clen(f)])
      \/ /\ ~ThrownAway(r.p, f) /\ s.last /\ Valid(r.p, f)
         /\ reassdatagrams' = Without(q.list, i)
         /\ ip_reass_pbufcount' = q.count + Clen(f) - Pbufs_of(s.p)
         /\ passed_up' = s.p /\ UNCHANGED unlinked_wrong

IndexOf(q, d) == {i \in DOMAIN q.list : q.list[i].id = d}

\* ip_reass_enqueue_new_datagram: the new entry is the first.
Enqueue(q, d, f) ==
  LET room == IF Len(q.list) < REASSDATA THEN [q EXCEPT !.freed = Clen(f)]
              ELSE RemoveOldest(q, d, Clen(f))
  IN  IF room.wrong \/ room.freed < Clen(f) THEN Keeps(room)
      ELSE Chain([room EXCEPT !.list = <<NewData(d)>> \o @], 1, f)

Full(q, f) == q.count + Clen(f) > IP_REASS_MAX_PBUFS

IpFragment(d, f) ==
  LET now  == [list |-> reassdatagrams, count |-> ip_reass_pbufcount,
               freed |-> 0, more |-> TRUE, wrong |-> FALSE]
      room == IF Full(now, f) THEN RemoveOldest(now, d, Clen(f)) ELSE now
  IN  /\ ~unlinked_wrong
      /\ \/ (room.wrong \/ Full(room, f)) /\ Keeps(room)
         \/ /\ ~room.wrong /\ ~Full(room, f) /\ IndexOf(room, d) = {}
            /\ Enqueue(room, d, f)
         \/ /\ ~room.wrong /\ ~Full(room, f)
            /\ \E i \in IndexOf(room, d) : Chain(room, i, f)

IpReassNext == IpReassTmr \/ \E d \in Datagram, f \in Fragment : IpFragment(d, f)
IpReassSpec == IpReassInit /\ [][IpReassNext]_ipReassVars

-----------------------------------------------------------------------------
IpReassTypeOK ==
  /\ \A i \in DOMAIN reassdatagrams :
       /\ reassdatagrams[i].id \in Datagram /\ reassdatagrams[i].timer \in 0 .. IP_REASS_MAXAGE
       /\ reassdatagrams[i].p \in Seq(Fragment) /\ reassdatagrams[i].last \in BOOLEAN
  /\ Len(reassdatagrams) <= REASSDATA
  /\ ip_reass_pbufcount \in 0 .. IP_REASS_MAX_PBUFS

\* The count is that of the pbufs on the queues, whatever was thrown away,
\* completed, expired or dropped for another: the pool of pbufs is neither used
\* up by fragments nor closed to them for good.
PbufsCounted == ~unlinked_wrong => ip_reass_pbufcount = PbufsQueued(reassdatagrams)

\* A datagram has one entry, with a fragment on it: one whose fragments were
\* divided between two would never be completed.
OneEntryPerDatagram ==
  /\ \A i, j \in DOMAIN reassdatagrams :
       reassdatagrams[i].id = reassdatagrams[j].id => i = j
  /\ ~unlinked_wrong => \A i \in DOMAIN reassdatagrams : reassdatagrams[i].p # <<>>

\* The fragments on the chain cover the datagram.
Complete(p) == p # <<>> /\ p[1].start = 0 /\ p[Len(p)].end = Size /\ NoHole(p)

\* A datagram whose fragments are all there, in whatever order they came, is
\* not left waiting for its timeout.
NothingCompleteWaits == \A i \in DOMAIN reassdatagrams : ~Complete(reassdatagrams[i].p)

\* What is passed up starts the datagram, in order and without a byte twice,
\* whatever routes its fragments took.
PassedUpInOrder ==
  passed_up # NoDatagram =>
    /\ passed_up[1].start = 0
    /\ \A i \in 1 .. Len(passed_up) - 1 : passed_up[i].end <= passed_up[i + 1].start

\* The list is sound: counted, one entry for a datagram, none forgotten once it
\* is complete, and what is passed up in order.
ReassSound == /\ IpReassTypeOK /\ PbufsCounted /\ OneEntryPerDatagram
              /\ NothingCompleteWaits /\ PassedUpInOrder

\* An incomplete datagram does not occupy its entry for ever, although
\* fragments of it go on coming and others are dropped for it; short of the
\* entry that RemoveOldest unlinks wrongly (UnlinkedRight).
WaitsFor(d)  == \E i \in DOMAIN reassdatagrams : reassdatagrams[i].id = d
ReassEnds    == \A d \in Datagram : WaitsFor(d) ~> ~WaitsFor(d) \/ unlinked_wrong
IpReassFairSpec == IpReassSpec /\ WF_ipReassVars(IpReassTmr)

-----------------------------------------------------------------------------
\* ip_frag.c: "Check if the fragments received so far have no wholes."  A
\* datagram is passed up only when it is whole.  It does not hold: a hole just
\* before the fragment that came last is not seen.
PassedUpWhole == passed_up # NoDatagram => Complete(passed_up)

\* ip_frag.c: LWIP_ASSERT("prev->next == ipr", prev->next == ipr).  It does not
\* hold for three datagrams when the last on the list is the fragment's own.
UnlinkedRight == ~unlinked_wrong
=============================================================================
