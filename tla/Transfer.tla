------------------------------ MODULE Transfer ------------------------------
(***************************************************************************)
(* An upload on its way (tcp_client.c, tcp_out.c, tcp_in.c, tcp.c): from   *)
(* tcp_client_senddata through tcp_write's segments, tcp_output's window   *)
(* and Nagle tests, tcp_receive's acknowledgements and the slow timer's    *)
(* retransmissions and probes, to a server behind a network that loses,    *)
(* repeats and reorders.                                                   *)
(*                                                                         *)
(* The connection is established and the server sends no data.  A sequence *)
(* number is the count of bytes written before; byte n is the n-th that    *)
(* the client wrote, wherever it is stored.  How long a timeout takes is   *)
(* left open; whether its count runs is not.                               *)
(***************************************************************************)
EXTENDS Integers, Sequences, FiniteSets

CONSTANTS
  MSS, TCP_SND_BUF, TCP_SND_QUEUELEN, TCP_MAXRTX,
  Packet,    \* sizeof(Envir_Packetdata)
  Buffer,    \* the server's receive buffer: the largest window it announces
  CwndMax,   \* where cwnd stops, 65535: behind Buffer all values act alike
  RtxWidth,  \* nrtx counts modulo this, 256
  StreamMax, \* bound: bytes written
  DataMax, AckMax \* bounds: segments and answers on the network

ASSUME TransferAssumption ==
  /\ {MSS, TCP_SND_BUF, TCP_SND_QUEUELEN, TCP_MAXRTX, Packet} \subseteq Nat \ {0}
  /\ Buffer \in Nat /\ Buffer >= 2 /\ CwndMax \in Nat /\ CwndMax >= Buffer /\ CwndMax >= 2 * MSS
  /\ RtxWidth \in Nat /\ RtxWidth > TCP_MAXRTX
  /\ {StreamMax, DataMax, AckMax} \subseteq Nat \ {0}

VARIABLES
  pcb,      \* the sending half of the client's control block, see SenderInit
  alive,    \* is it still on tcp_active_pcbs?
  segments, \* data on its way to the server: [seqno, len]
  acks,     \* acknowledgements on their way back: [ackno, wnd]
  rcv_nxt,  \* the server: bytes received in order,
  unread    \* how many of them its application has not read

transferVars == <<pcb, alive, segments, acks, rcv_nxt, unread>>

Least(a, b) == IF a < b THEN a ELSE b
Flags == {"INFR", "NAGLEMEMERR"}

\* The fields as tcp_process leaves them on the answer to the first SYN.
\* "timer" is rtime # -1, "persist" persist_backoff # 0, "wl1" whether a
\* segment has set snd_wl1, and "out" what the running handler has passed to
\* ip_output.
SenderInit ==
  [unsent |-> <<>>, unacked |-> <<>>, unsent_oversize |-> 0,
   snd_buf |-> TCP_SND_BUF, snd_queuelen |-> 0, snd_nxt |-> 0, snd_lbb |-> 0,
   lastack |-> 0, snd_wnd |-> Buffer, snd_wl2 |-> 0, wl1 |-> FALSE,
   cwnd |-> 2 * MSS, ssthresh |-> Least(10 * MSS, CwndMax), dupacks |-> 0, nrtx |-> 0,
   flags |-> {}, timer |-> FALSE, persist |-> FALSE, out |-> {}]

TransferInit ==
  /\ pcb = SenderInit /\ alive = TRUE
  /\ segments = {} /\ acks = {} /\ rcv_nxt = 0 /\ unread = 0

\* A full network loses old messages to carry new ones.
Carried(net, new, max) ==
  IF Cardinality(net \cup new) <= max THEN {net \cup new}
  ELSE {n \in SUBSET (net \cup new) :
          Cardinality(n) = max /\ (new \subseteq n \/ n \subseteq new)}

\* A handler has run, and its segments are on the network.
Handled(c) ==
  /\ pcb' = [c EXCEPT !.out = {}]
  /\ segments' \in Carried(segments, c.out, DataMax)

-----------------------------------------------------------------------------
(* tcp_write.  A segment is [seqno, len, pbufs, room]: room is what its    *)
(* last pbuf has left.                                                     *)

End(seg) == seg.seqno + seg.len
Mss_local == Least(MSS, Buffer \div 2)
MemErr(c) == [c EXCEPT !.flags = @ \cup {"NAGLEMEMERR"}]

Lengthened(c, new, chain) == c.snd_queuelen + new + IF chain > 0 THEN 1 ELSE 0

\* What the last new segment holds.
TailOf(rest, new) == rest - (new - 1) * Mss_local

\* Phase 1 fills the last unsent segment's pbuf, phase 2 chains another to
\* it, phase 3 makes new segments; nothing changes if the queue gets too long.
Segmented(c, len) ==
  LET n      == Len(c.unsent)
      used   == Least(c.unsent_oversize, len)
      space  == IF n = 0 THEN 0 ELSE Mss_local - c.unsent[n].len - used
      chain  == Least(space, len - used)
      rest   == len - used - chain
      new    == (rest + Mss_local - 1) \div Mss_local
      tail   == TailOf(rest, new)
      spare  == IF new = 1 /\ c.unsent = <<>> /\ c.unacked = <<>> THEN 0
                ELSE Mss_local - tail
      left   == IF chain > 0 THEN space - chain ELSE c.unsent_oversize - used
      grown  == [c.unsent[n] EXCEPT !.len = @ + used + chain,
                                    !.pbufs = @ + IF chain > 0 THEN 1 ELSE 0,
                                    !.room = IF chain > 0 THEN left ELSE @ - used]
      made   == [j \in 1 .. new |->
                  [seqno |-> c.snd_lbb + used + chain + (j - 1) * Mss_local,
                   len |-> IF j = new THEN tail ELSE Mss_local,
                   pbufs |-> 1, room |-> IF j = new THEN spare ELSE 0]]
      qlen   == Lengthened(c, new, chain)
  IN  IF new > 0 /\ qlen > TCP_SND_QUEUELEN THEN MemErr(c)
      ELSE [c EXCEPT !.unsent = (IF n = 0 THEN <<>> ELSE [@ EXCEPT ![n] = grown]) \o made,
                     !.unsent_oversize = IF new > 0 THEN spare ELSE left,
                     !.snd_lbb = @ + len, !.snd_buf = @ - len, !.snd_queuelen = qlen]

\* Send_EnvirPacketData: the packet is written if there is room and dropped if
\* not, and nothing calls tcp_output.  mem_malloc may fail on the way.
Upload ==
  /\ alive /\ pcb.snd_lbb + Packet <= StreamMax /\ Packet <= pcb.snd_buf
  /\ \/ pcb.snd_queuelen < TCP_SND_QUEUELEN /\ Handled(Segmented(pcb, Packet))
     \/ Handled(MemErr(pcb))
  /\ UNCHANGED <<alive, acks, rcv_nxt, unread>>

-----------------------------------------------------------------------------
(* tcp_output.                                                             *)

\* How far the first elements of a list of n are in the set T of places.
Leading(n, T) == CHOOSE k \in 0 .. n : 1 .. k \subseteq T /\ k + 1 \notin T
SegmentsOf(queue) == {queue[j] : j \in DOMAIN queue}
From(queue, k) == SubSeq(queue, k, Len(queue))

\* Mutant: the segment goes to the end of the list.
AtEnd(queue, seg) == Append(queue, seg)

\* A segment put in front of the first one that is not before it, and several,
\* one after the other.
Placed(queue, seg) ==
  LET k == Leading(Len(queue), {j \in DOMAIN queue : queue[j].seqno < seg.seqno})
  IN  SubSeq(queue, 1, k) \o <<seg>> \o From(queue, k + 1)
Merged(queue, segs) ==
  LET with[j \in 0 .. Len(segs)] ==
        IF j = 0 THEN queue ELSE Placed(with[j - 1], segs[j])
  IN  with[Len(segs)]

\* With nothing unsent there is no pbuf to fill.
Oversize(c, rest) == IF rest = <<>> THEN 0 ELSE c.unsent_oversize

InWindow(c, seg) == End(seg) - c.lastack <= Least(c.snd_wnd, c.cwnd)

\* tcp_do_output_nagle, and tcp_output's exception, before the j-th segment.
NaglePermits(c, j) ==
  \/ c.unacked = <<>> /\ j = 1
  \/ c.flags # {}
  \/ j < Len(c.unsent) \/ c.unsent[j].len >= MSS
  \/ c.snd_buf = 0 \/ c.snd_queuelen >= TCP_SND_QUEUELEN

\* How many segments the loop sends.
Sendable(c) ==
  Leading(Len(c.unsent),
          {j \in DOMAIN c.unsent : InWindow(c, c.unsent[j]) /\ NaglePermits(c, j)})

Output(c) ==
  LET k    == Sendable(c)
      sent == SubSeq(c.unsent, 1, k)
      rest == From(c.unsent, k + 1)
  IN  [c EXCEPT !.unsent = rest,
                !.unacked = Merged(@, sent),
                !.snd_nxt = IF k > 0 /\ @ < End(sent[k]) THEN End(sent[k]) ELSE @,
                !.timer = @ \/ k > 0,
                !.unsent_oversize = Oversize(c, rest),
                !.flags = @ \ {"NAGLEMEMERR"},
                !.out = @ \cup {[seqno |-> s.seqno, len |-> s.len] : s \in SegmentsOf(sent)}]

-----------------------------------------------------------------------------
(* tcp_receive, of a segment without data.                                 *)

\* The first segments are dropped as long as they end no later.
Keep(queue, ackno) ==
  From(queue, 1 + Leading(Len(queue), {j \in DOMAIN queue : End(queue[j]) <= ackno}))
Pbufs(queue) ==
  LET sum[j \in 0 .. Len(queue)] == IF j = 0 THEN 0 ELSE sum[j - 1] + queue[j].pbufs
  IN  sum[Len(queue)]
WithQueues(c, unacked, unsent) ==
  [c EXCEPT !.unacked = unacked, !.unsent = unsent,
            !.snd_queuelen = @ - (Pbufs(c.unacked) + Pbufs(c.unsent)
                                    - Pbufs(unacked) - Pbufs(unsent)),
            !.unsent_oversize = Oversize(c, unsent)]

\* Mutant: any window is taken.
WindowAny(c, ackno, wnd) ==
  [c EXCEPT !.snd_wnd = wnd, !.snd_wl2 = ackno, !.wl1 = TRUE, !.persist = wnd = 0]

\* The window update, which starts and stops the persist timer.
Window(c, ackno, wnd) ==
  IF ~c.wl1 \/ c.snd_wl2 < ackno \/ (c.snd_wl2 = ackno /\ wnd > c.snd_wnd)
  THEN [c EXCEPT !.snd_wnd = wnd, !.snd_wl2 = ackno, !.wl1 = TRUE, !.persist = wnd = 0]
  ELSE c

Inflated(window, by) == Least(window + by, CwndMax)
Again(nrtx) == (nrtx + 1) % RtxWidth
Half(c) == (Least(c.cwnd, c.snd_wnd)) \div 2
Threshold(c) == IF Half(c) < 2 * MSS THEN 2 * MSS ELSE Half(c)

\* tcp_rexmit_fast and tcp_rexmit.
RexmitFast(c) ==
  IF c.unacked = <<>> \/ "INFR" \in c.flags THEN c
  ELSE [c EXCEPT !.unacked = Tail(@), !.unsent = Placed(@, Head(c.unacked)),
                 !.unsent_oversize = Oversize(c, c.unsent),
                 !.nrtx = Again(@), !.ssthresh = Threshold(c),
                 !.cwnd = Inflated(Threshold(c), 3 * MSS),
                 !.flags = @ \cup {"INFR"}]

\* An acknowledgement of nothing new: w is the block with its window updated.
Duplicate(c, w, ackno) ==
  LET isdup == /\ w.snd_wl2 + w.snd_wnd = c.snd_wl2 + c.snd_wnd /\ c.wl1
               /\ c.timer /\ c.lastack = ackno
      d == [w EXCEPT !.dupacks = IF isdup THEN Least(@ + 1, 4) ELSE 0]
  IN  CASE isdup /\ d.dupacks > 3 -> [d EXCEPT !.cwnd = Inflated(@, MSS)]
        [] isdup /\ d.dupacks = 3 -> RexmitFast(d)
        [] OTHER -> d

\* The retransmission count goes on as long as something is out.
Timed(left) == left # <<>>

\* An acknowledgement of new data.
Acked(c, ackno) ==
  LET start == IF "INFR" \in c.flags THEN c.ssthresh ELSE c.cwnd
      left  == Keep(c.unacked, ackno)
  IN  WithQueues([c EXCEPT !.flags = @ \ {"INFR"}, !.nrtx = 0, !.dupacks = 0,
                           !.snd_buf = @ + ackno - c.lastack, !.lastack = ackno,
                           !.cwnd = Inflated(start, IF start < c.ssthresh THEN MSS
                                                    ELSE (MSS * MSS) \div start),
                           !.timer = Timed(left)],
                 left, c.unsent)

\* The segments on the unsent list that had been sent before.
AckedUnsent(c, ackno) ==
  IF ackno <= c.snd_nxt THEN WithQueues(c, c.unacked, Keep(c.unsent, ackno)) ELSE c

Answered(c, w, ackno) ==
  CASE ackno <= c.lastack -> Duplicate(c, w, ackno)
    [] c.lastack < ackno /\ ackno <= c.snd_nxt -> Acked(w, ackno)
    [] OTHER -> w

\* tcp_input: tcp_sent_client finds no es->p, then tcp_output.
AckArrives(m, again) ==
  /\ m \in acks /\ acks' = IF again THEN acks ELSE acks \ {m}
  /\ IF alive THEN \E w \in {Window(pcb, m.ackno, m.wnd)} :
                   \E a \in {Answered(pcb, w, m.ackno)} :
                   \E c \in {AckedUnsent(a, m.ackno)} : \E d \in {Output(c)} : Handled(d)
     ELSE UNCHANGED <<pcb, segments>>
  /\ UNCHANGED <<alive, rcv_nxt, unread>>

-----------------------------------------------------------------------------
(* tcp_slowtmr.                                                            *)

\* A retransmission, tcp_rexmit_rto up to its tcp_output: half the window, one
\* segment at a time, everything unsent again.
Rto(c) == [c EXCEPT !.ssthresh = Threshold(c), !.cwnd = MSS, !.nrtx = Again(@),
                    !.unsent = c.unacked \o @, !.unacked = <<>>]

\* tcp_zero_window_probe: one byte of the oldest segment.
Probe(c) ==
  IF c.unacked \o c.unsent = <<>> THEN c
  ELSE [c EXCEPT !.out = @ \cup {[seqno |-> (c.unacked \o c.unsent)[1].seqno, len |-> 1]}]

\* Mutant: the persist timer is left out.
TimeoutNoProbe(c) == IF c.persist THEN c ELSE Rto(c)

\* What the tick does when the count that runs is up.
Timeout(c) == IF c.persist THEN Probe(c) ELSE Rto(c)

Due(c) == c.persist \/ (c.timer /\ c.unacked # <<>>)

\* One tick: perhaps a timeout, then perhaps the poll interval is over.  Both
\* call tcp_output, which has nothing to add the second time.
SlowTmr(timeout, poll) ==
  /\ alive /\ pcb.nrtx # TCP_MAXRTX /\ (timeout \/ poll) /\ (timeout => Due(pcb))
  /\ \E c \in {IF timeout THEN Timeout(pcb) ELSE pcb} :
     \E d \in {IF poll \/ (timeout /\ ~pcb.persist) THEN Output(c) ELSE c} : Handled(d)
  /\ UNCHANGED <<alive, acks, rcv_nxt, unread>>

\* Too many retransmissions: tcp_pcb_purge, and the block is freed.
GiveUp ==
  /\ alive /\ pcb.nrtx = TCP_MAXRTX
  /\ pcb' = SenderInit /\ alive' = FALSE
  /\ UNCHANGED <<segments, acks, rcv_nxt, unread>>

-----------------------------------------------------------------------------
(* The server and the network, external.                                   *)

Ack(taken, waiting) ==
  acks' \in Carried(acks, {[ackno |-> taken, wnd |-> Buffer - waiting]}, AckMax)

Continues(m) == m.seqno <= rcv_nxt /\ End(m) > rcv_nxt

\* The server takes what continues its data and fits, and always answers.
SegmentArrives(m, again) ==
  /\ m \in segments /\ segments' = IF again THEN segments ELSE segments \ {m}
  /\ LET edge == rcv_nxt + Buffer - unread
         to   == IF Continues(m) THEN Least(End(m), edge) ELSE rcv_nxt
     IN  /\ rcv_nxt' = to /\ unread' = unread + to - rcv_nxt
         /\ Ack(to, unread')
  /\ UNCHANGED <<pcb, alive>>

\* Its application reads, and the window that opens is announced once.
ServerReads ==
  /\ unread > 0 /\ unread' = 0 /\ Ack(rcv_nxt, 0)
  /\ UNCHANGED <<pcb, alive, segments, rcv_nxt>>

NetworkLoses ==
  /\ \/ \E m \in segments : segments' = segments \ {m} /\ UNCHANGED acks
     \/ \E m \in acks : acks' = acks \ {m} /\ UNCHANGED segments
  /\ UNCHANGED <<pcb, alive, rcv_nxt, unread>>

TransferNext ==
  \/ Upload
  \/ \E m \in acks, again \in BOOLEAN : AckArrives(m, again)
  \/ \E timeout, poll \in BOOLEAN : SlowTmr(timeout, poll)
  \/ GiveUp
  \/ \E m \in segments, again \in BOOLEAN : SegmentArrives(m, again)
  \/ ServerReads
  \/ NetworkLoses

TransferSpec == TransferInit /\ [][TransferNext]_transferVars

\* The main loop runs the timers, the server's application reads, and the
\* network does not lose everything: some segment that is sent again and again,
\* one that the server waits for, and an answer that tells where it stands.
Newest(m)    == m.ackno = rcv_nxt /\ m.wnd = Buffer - unread
Segment == [seqno : 0 .. StreamMax, len : 1 .. MSS]
ServerAnswer == [ackno : 0 .. StreamMax, wnd : 0 .. Buffer]
TransferFairness ==
  /\ WF_transferVars(\E poll \in BOOLEAN : SlowTmr(TRUE, poll))
  /\ WF_transferVars(SlowTmr(FALSE, TRUE))
  /\ WF_transferVars(GiveUp) /\ WF_transferVars(ServerReads)
  /\ SF_transferVars(\E m \in segments : SegmentArrives(m, FALSE))
  /\ SF_transferVars(\E m \in segments : Continues(m) /\ SegmentArrives(m, FALSE))
  /\ SF_transferVars(\E m \in acks : Newest(m) /\ AckArrives(m, FALSE))

TransferFairSpec == TransferSpec /\ TransferFairness

-----------------------------------------------------------------------------
Queued == SegmentsOf(pcb.unsent) \cup SegmentsOf(pcb.unacked)

\* The type of the state; the network holds what fits.
TransferTypeOK ==
  /\ pcb.snd_buf \in 0 .. TCP_SND_BUF /\ pcb.snd_queuelen \in 0 .. TCP_SND_QUEUELEN
  /\ pcb.lastack <= pcb.snd_nxt /\ pcb.snd_nxt <= pcb.snd_lbb
  /\ pcb.snd_lbb \in 0 .. StreamMax /\ pcb.cwnd \in MSS .. CwndMax
  /\ \A seg \in Queued : seg.len \in 1 .. Mss_local /\ seg.pbufs \in 1 .. seg.len
  /\ pcb.flags \subseteq Flags /\ pcb.out = {}
  /\ segments \subseteq Segment /\ acks \subseteq ServerAnswer

\* Every byte written and not acknowledged is in exactly one segment of the
\* two lists, and each list is in order, whatever was retransmitted,
\* acknowledged in the middle or reordered (tcp_in.c:1055, tcp_out.c:1007).
EveryByteQueued ==
  alive =>
    /\ \A n \in pcb.lastack .. pcb.snd_lbb - 1 :
         Cardinality({seg \in Queued : seg.seqno <= n /\ n < End(seg)}) = 1
    /\ \A seg \in Queued : End(seg) > pcb.lastack /\ End(seg) <= pcb.snd_lbb
    /\ \A queue \in {pcb.unsent, pcb.unacked} : \A j \in 1 .. Len(queue) - 1 :
         End(queue[j]) <= queue[j + 1].seqno

\* The send buffer's free space and the pbuf count are those of the lists, on
\* which lwIP's "valid queue length" assertions rely (tcp_out.c:328, :683).
BufferAccounted ==
  alive => /\ pcb.snd_buf + pcb.snd_lbb - pcb.lastack = TCP_SND_BUF
           /\ pcb.snd_queuelen = Pbufs(pcb.unsent) + Pbufs(pcb.unacked)

\* tcp_write copies only into memory that the last unsent segment's pbuf has
\* (tcp_out.c:632): the room it remembers never outlives that segment's place.
OversizeIsThere ==
  /\ pcb.unsent = <<>> => pcb.unsent_oversize = 0
  /\ pcb.unsent # <<>> => pcb.unsent_oversize <= pcb.unsent[Len(pcb.unsent)].room

\* Nothing is sent that the server has no room for, however old the
\* acknowledgement that the window was taken from (tcp_in.c:870).
NoOverrun == alive => pcb.snd_nxt <= rcv_nxt + Buffer - unread

\* While data is out, the retransmission count runs: an answer to part of it,
\* a fast retransmission or a probe never leaves it stopped (tcp_in.c:1038).
SentIsTimed == pcb.unacked # <<>> => pcb.timer

\* The two queues are sound: every byte once and in order, the accounts of them
\* exact, and what has been sent timed.
QueuesSound == /\ TransferTypeOK /\ EveryByteQueued /\ BufferAccounted
               /\ OversizeIsThere /\ SentIsTimed

\* The window is open, but not wide enough for the segment that is to be sent.
Narrow ==
  /\ pcb.unacked = <<>> /\ pcb.unsent # <<>>
  /\ pcb.snd_wnd > 0 /\ pcb.snd_wnd < End(Head(pcb.unsent)) - pcb.lastack

\* What the client writes is acknowledged or the connection given up, unless
\* the window stays too narrow for the next segment.
Delivered == []<>(~alive \/ pcb.lastack = pcb.snd_lbb \/ Narrow)

\* "Send persist timer zero-window probes to keep a connection active when a
\* window update is lost" (tcp_out.c:1406): what the client writes is
\* acknowledged or the connection given up.
UpdateLossSurvived == []<>(~alive \/ pcb.lastack = pcb.snd_lbb)

\* "TCP_MAXRTX: Maximum number of retransmissions of data segments"
\* (opt.h:927).  It does not hold: fast retransmissions count too, and a count
\* that has passed TCP_MAXRTX between two ticks equals it only after a wrap.
RetransmissionsBounded == pcb.nrtx <= TCP_MAXRTX
=============================================================================
