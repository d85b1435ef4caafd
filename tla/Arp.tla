-------------------------------- MODULE Arp --------------------------------
(***************************************************************************)
(* The address resolution of etharp.c, as compiled here: one packet waits  *)
(* on an unresolved entry (ARP_QUEUEING 0), entries are learned from ARP   *)
(* packets only (ETHARP_TRUST_IP_MAC 0), none is static.  An upload to a   *)
(* server outside the subnet resolves the gateway; a host that asks for    *)
(* the board is learned too, and may take the place of another.            *)
(***************************************************************************)
EXTENDS Integers, FiniteSets, FiniteSetsExt

CONSTANTS
  TableSize,    \* ARP_TABLE_SIZE
  MaxAge,       \* ARP_MAXAGE, in calls of etharp_tmr
  Rerequest,    \* ARP_AGE_REREQUEST_USED
  MaxPending,   \* ARP_MAXPENDING
  Host,         \* the addresses of the subnet
  Gateway,      \* netif->gw
  Remote,       \* destinations outside the subnet
  Mac,          \* hardware addresses
  Announce,     \* the pairs <<address, hardware address>> of ARP packets
  None          \* no address, no packet

ASSUME ArpAssumption ==
  /\ {TableSize, MaxAge, Rerequest, MaxPending} \subseteq Nat \ {0}
  /\ Rerequest < MaxAge /\ Gateway \in Host
  /\ Announce \subseteq Host \X Mac
  /\ None \notin Host \cup Mac /\ Remote \cap Host = {}

VARIABLES
  arp_table,  \* the entries; q is the packet that waits, named by its next hop
  cached,     \* etharp_cached_entry
  copies,     \* copies of packets made for the table and not freed
  out,        \* the frame just sent: its packet's next hop, its destination
  heard,      \* the hardware address each host announced last
  silent,     \* calls of etharp_tmr since then, up to MaxAge
  reasked     \* requests for addresses already known, since etharp_tmr

arpVars == <<arp_table, cached, copies, out, heard, silent, reasked>>

Slot      == 0..(TableSize - 1)
Entry     == [state : {"empty", "pending", "stable", "rerequesting"},
              ip : Host \cup {None}, mac : Mac \cup {None},
              ctime : 0..(MaxAge - 1), q : Host \cup {None}]
Nothing   == <<None, None>>
Stable(e) == e.state \in {"stable", "rerequesting"}

\* etharp_free_entry: the packet that waits is freed and the entry cleaned
\* (LWIP_DEBUG is defined).
Freed == [state |-> "empty", ip |-> None, mac |-> None, ctime |-> 0, q |-> None]

-----------------------------------------------------------------------------
\* etharp_find_entry

Matching(ip) == {i \in Slot : arp_table[i].state # "empty" /\ arp_table[i].ip = ip}

\* The oldest of some entries; the sweep keeps the last of equals.
Oldest(S) == Max({i \in S : \A j \in S : arp_table[i].ctime >= arp_table[j].ctime})

Empties    == {i \in Slot : arp_table[i].state = "empty"}
Stables    == {i \in Slot : Stable(arp_table[i])}
Pending(Q) == {i \in Slot : arp_table[i].state = "pending" /\ (arp_table[i].q # None) = Q}

\* The entry to create: an empty one, else the least destructive to recycle.
Victim == IF Empties # {} THEN Min(Empties)
          ELSE IF Stables # {} THEN Oldest(Stables)
          ELSE IF Pending(FALSE) # {} THEN Oldest(Pending(FALSE))
          ELSE Oldest(Pending(TRUE))

Created(ip) == [Freed EXCEPT !.ip = ip]

\* The place of ip, the table with an entry for it, the packets freed for it.
EntryFor(ip) ==
  IF Matching(ip) # {}
  THEN [i |-> Min(Matching(ip)), table |-> arp_table, freed |-> 0]
  ELSE [i |-> Victim, table |-> [arp_table EXCEPT ![Victim] = Created(ip)],
        freed |-> IF arp_table[Victim].q # None THEN 1 ELSE 0]

-----------------------------------------------------------------------------
ArpInit ==
  /\ arp_table = [i \in Slot |-> Freed]
  /\ cached = 0 /\ copies = 0 /\ out = Nothing
  /\ heard = [h \in Host |-> None] /\ silent = [h \in Host |-> MaxAge]
  /\ reasked = [h \in Host |-> 0]

\* etharp_update_arp_entry: the entry is fresh, and what waits on it leaves.
Learned(e, mac) == [e EXCEPT !.state = "stable", !.mac = mac, !.ctime = 0, !.q = None]

UpdateEntry(found, mac) ==
  LET waiting == found.table[found.i].q IN
  /\ arp_table' = [found.table EXCEPT ![found.i] = Learned(@, mac)]
  /\ out' = IF waiting # None THEN <<waiting, mac>> ELSE Nothing
  /\ copies' = copies - found.freed - (IF waiting # None THEN 1 ELSE 0)

\* An ARP packet for the board makes an entry, any other refreshes one.
MayCreate(for_us) == for_us

\* etharp_arp_input
ArpInput ==
  \E a \in Announce, for_us \in BOOLEAN :
    /\ heard' = [heard EXCEPT ![a[1]] = a[2]]
    /\ silent' = [silent EXCEPT ![a[1]] = 0]
    /\ IF MayCreate(for_us) \/ Matching(a[1]) # {}
       THEN UpdateEntry(EntryFor(a[1]), a[2])
       ELSE UNCHANGED <<arp_table, copies>> /\ out' = Nothing
    /\ UNCHANGED <<cached, reasked>>

-----------------------------------------------------------------------------

\* etharp_output_to_arp_index: a used entry about to expire is asked for again;
\* mem: there is room for that request.
Rerequested(e, mem) ==
  IF e.state = "stable" /\ e.ctime >= Rerequest /\ mem
  THEN [e EXCEPT !.state = "rerequesting"] ELSE e

OutputTo(i, hop, mem) ==
  LET e == arp_table[i] IN
  /\ arp_table' = [arp_table EXCEPT ![i] = Rerequested(e, mem)]
  /\ reasked' = IF e.state = "stable" /\ e.ctime >= Rerequest /\ mem
              THEN [reasked EXCEPT ![e.ip] = @ + 1] ELSE reasked
  /\ out' = <<hop, e.mac>>
  /\ UNCHANGED copies

\* Mutant: every packet starts the wait anew.
ParkedAnew(e, hop) == [e EXCEPT !.state = "pending", !.q = hop, !.ctime = 0]

\* etharp_query for an address that is not stable: ask for it, and keep a copy
\* of the packet in place of the one that waits, if there is room for a copy.
Parked(e, hop) == [e EXCEPT !.state = "pending", !.q = hop]

\* Mutant: it is forgotten without being freed.
ReplacedForgotten(waiting) == 0

\* The packet that waited is freed.
Replaced(waiting) == IF waiting # None THEN 1 ELSE 0

Query(found, hop, mem) ==
  /\ arp_table' = [found.table EXCEPT ![found.i] =
                     IF mem THEN Parked(@, hop) ELSE [@ EXCEPT !.state = "pending"]]
  /\ copies' = copies - found.freed
                 + (IF mem THEN 1 - Replaced(found.table[found.i].q) ELSE 0)
  /\ out' = Nothing
  /\ UNCHANGED reasked

\* Mutant: any known address will do.
HitAnyHost(hop) == Stable(arp_table[cached])

\* The cached entry serves if it is known and this packet's.
Hit(hop) == Stable(arp_table[cached]) /\ arp_table[cached].ip = hop

\* etharp_output of a unicast packet
ArpOutput ==
  \E dst \in Host \cup Remote, mem \in BOOLEAN :
    LET hop   == IF dst \in Host THEN dst ELSE Gateway
        known == {i \in Slot : Stable(arp_table[i]) /\ arp_table[i].ip = hop}
    IN  /\ \/ /\ Hit(hop)
              /\ OutputTo(cached, hop, mem)
              /\ UNCHANGED cached
           \/ /\ ~Hit(hop) /\ known # {}
              /\ OutputTo(Min(known), hop, mem)
              /\ cached' = Min(known)
           \/ /\ ~Hit(hop) /\ known = {}
              /\ Query(EntryFor(hop), hop, mem)
              /\ UNCHANGED cached
        /\ UNCHANGED <<heard, silent>>

\* etharp_tmr, every five seconds
Outlived(e, age) == age >= MaxAge \/ (e.state = "pending" /\ age >= MaxPending)

Aged(e) ==
  IF e.state = "empty" THEN e
  ELSE IF Outlived(e, e.ctime + 1) THEN Freed
  ELSE [e EXCEPT !.ctime = @ + 1,
                 !.state = IF @ = "rerequesting" THEN "stable" ELSE @]

ArpTmr ==
  /\ arp_table' = [i \in Slot |-> Aged(arp_table[i])]
  /\ copies' = copies - Cardinality({i \in Slot : /\ arp_table[i].q # None
                                                  /\ Aged(arp_table[i]).q = None})
  /\ silent' = [h \in Host |-> IF silent[h] < MaxAge THEN silent[h] + 1 ELSE MaxAge]
  /\ reasked' = [h \in Host |-> 0]
  /\ out' = Nothing
  /\ UNCHANGED <<cached, heard>>

ArpNext == ArpInput \/ ArpOutput \/ ArpTmr

ArpSpec == ArpInit /\ [][ArpNext]_arpVars

-----------------------------------------------------------------------------
ArpTypeOK ==
  /\ arp_table \in [Slot -> Entry] /\ cached \in Slot /\ copies \in 0..TableSize
  /\ out \in (Host \cup {None}) \X (Mac \cup {None})
  /\ heard \in [Host -> Mac \cup {None}] /\ silent \in [Host -> 0..MaxAge]
  /\ reasked \in [Host -> Nat]

\* No address has two entries, whichever of them were recycled: a reply would
\* refresh the first only and the packets go by the other.
OneEntryPerHost ==
  \A i, j \in {k \in Slot : arp_table[k].state # "empty"} :
    arp_table[i].ip = arp_table[j].ip => i = j

\* "no queued packets should exist on stable entries" (etharp.c:368): recycling
\* the oldest stable entry drops no packet.
WaitOnPending == \A i \in Slot : arp_table[i].q # None => arp_table[i].state = "pending"

\* Every copy made of a packet waits on an entry or was freed: the table leaks
\* none when it replaces, recycles, expires or resolves.
NoPacketLeaks == copies = Cardinality({i \in Slot : arp_table[i].q # None})

\* A packet leaves to the address its next hop announced last, and no longer
\* than ARP_MAXAGE periods after it did: an entry recycled, expired or moved to
\* another adapter misdirects nothing, the cached entry included.
SentWhereHeard ==
  out # Nothing => /\ heard[out[1]] = out[2]
                   /\ silent[out[1]] < MaxAge

\* "re-request it, but only if its state is ETHARP_STATE_STABLE to prevent
\* flooding the network with ARP requests" (etharp.c:847): one request per
\* period for an address in use.
NoFlood == \A h \in Host : reasked[h] <= 1

\* No address stays unresolved: it is answered, given up after ARP_MAXPENDING
\* periods however many packets for it come meanwhile, or recycled.
Unresolved(h) == \E i \in Slot : arp_table[i].state = "pending" /\ arp_table[i].ip = h
PendingEnds   == \A h \in Host : Unresolved(h) ~> ~Unresolved(h)

\* The table is sound through replacing, recycling, ageing and resolving: one
\* entry for a host, no packet lost or left over, and no flood of requests.
TableSound ==
  ArpTypeOK /\ OneEntryPerHost /\ WaitOnPending /\ NoPacketLeaks /\ NoFlood
=============================================================================
