--------------------------- MODULE NetworkProofs ----------------------------
(***************************************************************************)
(* Proofs about Arp, Timers and IpReass.  The table of addresses, for any  *)
(* size of it, any ages and any hosts: one entry per address, packets wait *)
(* on pending entries only and none is lost, what leaves goes where the next*)
(* hop was heard, and an address in use is asked for once per period.  lwIP's*)
(* list of timeouts, for any intervals: every armed timer once and in order,*)
(* and no time lost.  Reassembly, for any datagrams, routes and limits: the*)
(* pbufs are counted, nothing complete waits, and what is passed up is in  *)
(* order.                                                                  *)
(***************************************************************************)
EXTENDS Arp, Timers, IpReass, Integers, Recursion, SequenceTheorems,
        FiniteSetTheorems, WellFoundedInduction, TLAPS

-----------------------------------------------------------------------------
(* The table of addresses.                                                 *)

LEMMA ArpConstants ==
  /\ TableSize \in Nat \ {0} /\ MaxAge \in Nat \ {0} /\ Rerequest \in Nat \ {0}
  /\ MaxPending \in Nat \ {0} /\ Rerequest < MaxAge
  /\ Gateway \in Host /\ None \notin Host /\ None \notin Mac
  /\ Announce \subseteq Host \X Mac
BY ArpAssumption, Zenon DEF ArpAssumption

-----------------------------------------------------------------------------
(* Smallest and largest elements.                                          *)

LEMMA SmallestExists ==
  ASSUME NEW T, T \subseteq Nat, T # {}
  PROVE  \E x \in T : \A y \in T : x <= y
<1>1. \E x \in T : \A y \in T : ~(<<y, x>> \in OpToRel(<, Nat))
  BY NatLessThanWellFounded, WFMin, Zenon
<1>2. PICK x \in T : \A y \in T : ~(<<y, x>> \in OpToRel(<, Nat))
  BY <1>1
<1>3. ASSUME NEW y \in T PROVE x <= y
  <2>1. x \in Nat /\ y \in Nat
    OBVIOUS
  <2>2. <<y, x>> \notin OpToRel(<, Nat)
    BY <1>2
  <2>3. ~(y < x)
    BY <2>1, <2>2 DEF OpToRel
  <2> QED
    BY <2>1, <2>3
<1> QED
  BY <1>3

LEMMA MinIsMember ==
  ASSUME NEW T, T \subseteq Nat, T # {}
  PROVE  Min(T) \in T
<1>1. \E x \in T : \A y \in T : x <= y
  BY SmallestExists
<1> QED
  BY <1>1, Zenon DEF Min

LEMMA LargestExists ==
  ASSUME NEW n \in Nat, NEW T, T \subseteq 0 .. n, T # {}
  PROVE  \E x \in T : \A y \in T : x >= y
<1> DEFINE U == {k \in 0 .. n : \E x \in T : k + x = n}
<1>1. U \subseteq Nat /\ U # {}
  <2>1. PICK x \in T : TRUE
    OBVIOUS
  <2>2. x \in 0 .. n
    BY <2>1
  <2>3. n - x \in 0 .. n /\ (n - x) + x = n
    BY <2>2
  <2>4. PICK k \in 0 .. n : k + x = n
    BY <2>3
  <2>5. k \in U
    BY <2>1, <2>4
  <2>6. U \subseteq Nat
    OBVIOUS
  <2> QED
    BY <2>5, <2>6, Zenon
<1>2. PICK k \in U : \A j \in U : k <= j
  <2> HIDE DEF U
  <2> QED
    BY <1>1, SmallestExists
<1>3. PICK x \in T : k + x = n
  OBVIOUS
<1>4. ASSUME NEW y \in T PROVE x >= y
  <2>1. y \in 0 .. n /\ x \in 0 .. n /\ k \in 0 .. n
    OBVIOUS
  <2>2. n - y \in 0 .. n /\ (n - y) + y = n
    BY <2>1
  <2>3. n - y \in U
    BY <2>2
  <2>4. k <= n - y
    BY <1>2, <2>3
  <2> QED
    BY <1>3, <2>1, <2>4
<1> QED
  BY <1>4

LEMMA MaxIsMember ==
  ASSUME NEW n \in Nat, NEW T, T \subseteq 0 .. n, T # {}
  PROVE  Max(T) \in T
<1>1. \E x \in T : \A y \in T : x >= y
  BY LargestExists
<1> QED
  BY <1>1, Zenon DEF Max

-----------------------------------------------------------------------------
(* What an entry promises, and the table as a whole.                       *)

\* An entry against what the hosts said, hd, how long ago, sl, and what was
\* asked for again, ra.
EntryOK(e, hd, sl, ra) ==
  /\ e \in Entry
  /\ e.state # "empty" => e.ip \in Host
  /\ e.q # None => e.state = "pending" /\ e.q = e.ip
  /\ Stable(e) => e.mac \in Mac /\ hd[e.ip] = e.mac /\ sl[e.ip] <= e.ctime
  /\ e.state = "stable" /\ e.ctime >= Rerequest => ra[e.ip] = 0

TableTyped == arp_table \in [Slot -> Entry] /\ cached \in Slot
HostsTyped ==
  /\ heard \in [Host -> Mac \cup {None}] /\ silent \in [Host -> 0 .. MaxAge]
  /\ reasked \in [Host -> Nat]
EntriesOK == \A i \in Slot : EntryOK(arp_table[i], heard, silent, reasked)

\* What left, typed.
OutTyped == out \in (Host \cup {None}) \X (Mac \cup {None})

\* The inductive invariant, but for the count of the copies.
ArpInv ==
  /\ TableTyped /\ HostsTyped /\ OutTyped
  /\ EntriesOK /\ OneEntryPerHost
  /\ NoFlood /\ SentWhereHeard

LEMMA SlotFacts ==
  /\ Slot \subseteq Nat /\ Slot \subseteq 0 .. (TableSize - 1)
  /\ TableSize - 1 \in Nat /\ 0 \in Slot
BY ArpConstants DEF Slot

LEMMA FreedOK ==
  ASSUME NEW hd, NEW sl, NEW ra
  PROVE  EntryOK(Freed, hd, sl, ra) /\ Freed \in Entry
BY ArpConstants DEF EntryOK, Freed, Entry, Stable

\* The oldest of some entries is one of them.
LEMMA OldestIsMember ==
  ASSUME TableTyped, NEW S, S \subseteq Slot, S # {}
  PROVE  Oldest(S) \in S
<1> DEFINE ages == {arp_table[i].ctime : i \in S}
           oldest == {i \in S : \A j \in S : arp_table[i].ctime >= arp_table[j].ctime}
<1>1. ages \subseteq 0 .. (MaxAge - 1) /\ MaxAge - 1 \in Nat
  BY ArpConstants DEF TableTyped, Entry
<1>2. ages # {}
  <2>1. PICK i \in S : TRUE
    OBVIOUS
  <2>2. arp_table[i].ctime \in ages
    BY <2>1
  <2> QED
    BY <2>2
<1>3. PICK a \in ages : \A b \in ages : a >= b
  <2> HIDE DEF ages
  <2> QED
    BY <1>1, <1>2, LargestExists
<1>4. PICK i \in S : a = arp_table[i].ctime
  BY Zenon
<1>5. i \in oldest
  BY <1>3, <1>4, Zenon
<1>6. oldest # {} /\ oldest \subseteq 0 .. (TableSize - 1) /\ TableSize - 1 \in Nat
  BY <1>5, SlotFacts
<1>7. Max(oldest) \in oldest
  <2> HIDE DEF oldest
  <2> QED
    BY <1>6, MaxIsMember
<1>8. Oldest(S) = Max(oldest)
  BY Zenon DEF Oldest
<1> QED
  BY <1>7, <1>8

LEMMA VictimIsSlot ==
  ASSUME TableTyped
  PROVE  Victim \in Slot
<1>1. CASE Empties # {}
  <2>1. Empties \subseteq Slot /\ Empties \subseteq Nat
    BY SlotFacts DEF Empties
  <2>2. Min(Empties) \in Empties
    BY <1>1, <2>1, MinIsMember
  <2> QED
    BY <1>1, <2>1, <2>2 DEF Victim
<1>2. CASE Empties = {} /\ Stables # {}
  <2>1. Stables \subseteq Slot
    BY DEF Stables
  <2> QED
    BY <1>2, <2>1, OldestIsMember DEF Victim
<1>3. CASE Empties = {} /\ Stables = {} /\ Pending(FALSE) # {}
  <2>1. Pending(FALSE) \subseteq Slot
    BY DEF Pending
  <2> QED
    BY <1>3, <2>1, OldestIsMember DEF Victim
<1>4. CASE Empties = {} /\ Stables = {} /\ Pending(FALSE) = {}
  <2>1. Pending(TRUE) \subseteq Slot
    BY DEF Pending
  <2>2. Pending(TRUE) # {}
    <3>1. 0 \in Slot /\ arp_table[0].state \in {"empty", "pending", "stable", "rerequesting"}
      BY SlotFacts DEF TableTyped, Entry
    <3>2. arp_table[0].state = "pending"
      BY <1>4, <3>1 DEF Empties, Stables, Stable
    <3>3. arp_table[0].q # None
      BY <1>4, <3>1, <3>2, Zenon DEF Pending
    <3>4. 0 \in Pending(TRUE)
      BY <3>1, <3>2, <3>3, Zenon DEF Pending
    <3> QED
      BY <3>4
  <2> QED
    BY <1>4, <2>1, <2>2, OldestIsMember DEF Victim
<1> QED
  BY <1>1, <1>2, <1>3, <1>4

\* No entry but the one at i has the address; the hosts said the same but it.
Apart(i, ip) ==
  \A j \in Slot \ {i} : arp_table[j].state # "empty" => arp_table[j].ip # ip
SameBut(ip, hd, sl, ra) ==
  \A h \in Host : h # ip => hd[h] = heard[h] /\ sl[h] = silent[h] /\ ra[h] = reasked[h]
TableOK(t, hd, sl, ra) ==
  /\ t \in [Slot -> Entry]
  /\ \A j \in Slot : EntryOK(t[j], hd, sl, ra)
  /\ \A j, k \in {n \in Slot : t[n].state # "empty"} : t[j].ip = t[k].ip => j = k

\* How many packets an entry holds.
Held(e) == IF e.q # None THEN 1 ELSE 0

\* The entry for an address: a place f.i that no other entry's address is at,
\* the table but for that place as it was, and what was freed there counted.
LEMMA EntryForShape ==
  ASSUME ArpInv, NEW ip \in Host, NEW f, f = EntryFor(ip)
  PROVE  /\ f.i \in Slot
         /\ f.table \in [Slot -> Entry]
         /\ \A e : [f.table EXCEPT ![f.i] = e] = [arp_table EXCEPT ![f.i] = e]
         /\ \/ f.table[f.i] = arp_table[f.i] /\ f.freed = 0
            \/ f.table[f.i] = Created(ip) /\ f.freed = Held(arp_table[f.i])
         /\ f.table[f.i].ip = ip
         /\ EntryOK(f.table[f.i], heard, silent, reasked)
         /\ Apart(f.i, ip)
<1>0. arp_table \in [Slot -> Entry] /\ Slot \subseteq Nat
  BY SlotFacts DEF ArpInv, TableTyped
<1>1. CASE Matching(ip) # {}
  <2>1. f = [i |-> Min(Matching(ip)), table |-> arp_table, freed |-> 0]
    BY <1>1, Zenon DEF EntryFor
  <2>2. Matching(ip) \subseteq Slot /\ Matching(ip) \subseteq Nat
    BY <1>0 DEF Matching
  <2>3. Min(Matching(ip)) \in Matching(ip)
    BY <1>1, <2>2, MinIsMember
  <2> DEFINE m == Min(Matching(ip))
  <2> HIDE DEF m
  <2>4. m \in Slot /\ arp_table[m].state # "empty" /\ arp_table[m].ip = ip
    BY <2>3, Zenon DEF Matching, m
  <2>5. f.i = m /\ f.table = arp_table /\ f.freed = 0
    BY <2>1 DEF m
  <2>6. \A j \in Slot \ {m} : arp_table[j].state # "empty" => arp_table[j].ip # ip
    BY <2>4, Zenon DEF ArpInv, OneEntryPerHost
  <2>7. EntryOK(arp_table[m], heard, silent, reasked)
    BY <2>4, Zenon DEF ArpInv, EntriesOK
  <2> QED
    BY <1>0, <2>4, <2>5, <2>6, <2>7, Zenon DEF Apart
<1>2. CASE Matching(ip) = {}
  <2>1. f = [i |-> Victim, table |-> [arp_table EXCEPT ![Victim] = Created(ip)],
             freed |-> IF arp_table[Victim].q # None THEN 1 ELSE 0]
    BY <1>2, Zenon DEF EntryFor
  <2> DEFINE v == Victim
  <2>2. v \in Slot
    BY VictimIsSlot DEF ArpInv
  <2> HIDE DEF v
  <2>3. /\ f.i = v /\ f.table = [arp_table EXCEPT ![v] = Created(ip)]
        /\ f.freed = Held(arp_table[v])
    BY <2>1 DEF v, Held
  <2>4. Created(ip) \in Entry /\ Created(ip).ip = ip
        /\ EntryOK(Created(ip), heard, silent, reasked)
    BY ArpConstants DEF Created, Freed, Entry, EntryOK, Stable
  <2>5. f.table[v] = Created(ip) /\ f.table \in [Slot -> Entry]
    BY <1>0, <2>2, <2>3, <2>4
  <2>6. \A e : [f.table EXCEPT ![v] = e] = [arp_table EXCEPT ![v] = e]
    BY <1>0, <2>2, <2>3
  <2>7. \A j \in Slot \ {v} : arp_table[j].state # "empty" => arp_table[j].ip # ip
    BY <1>2, Zenon DEF Matching
  <2> QED
    BY <2>2, <2>3, <2>4, <2>5, <2>6, <2>7, Zenon DEF Apart
<1> QED
  BY <1>1, <1>2

\* One entry is replaced by one that keeps its promise, for an address that no
\* other entry has; what the hosts said changes for that address only.
LEMMA ReplaceEntry ==
  ASSUME ArpInv, NEW i \in Slot, NEW e, NEW hd, NEW sl, NEW ra,
         EntryOK(e, hd, sl, ra), Apart(i, e.ip), SameBut(e.ip, hd, sl, ra),
         NEW t, t = [arp_table EXCEPT ![i] = e]
  PROVE  TableOK(t, hd, sl, ra)
<1>0. arp_table \in [Slot -> Entry] /\ e \in Entry
  BY Zenon DEF ArpInv, TableTyped, EntryOK
<1>1. t \in [Slot -> Entry] /\ t[i] = e /\ \A j \in Slot \ {i} : t[j] = arp_table[j]
  BY <1>0
<1>2. ASSUME NEW j \in Slot PROVE EntryOK(t[j], hd, sl, ra)
  <2>1. CASE j = i
    BY <1>1, <2>1, Zenon
  <2>2. CASE j # i
    <3>1. t[j] = arp_table[j] /\ EntryOK(arp_table[j], heard, silent, reasked)
      BY <1>1, <2>2, Zenon DEF ArpInv, EntriesOK
    <3>2. arp_table[j].state # "empty" =>
            /\ arp_table[j].ip \in Host
            /\ hd[arp_table[j].ip] = heard[arp_table[j].ip]
            /\ sl[arp_table[j].ip] = silent[arp_table[j].ip]
            /\ ra[arp_table[j].ip] = reasked[arp_table[j].ip]
      BY <2>2, <3>1, Zenon DEF EntryOK, Apart, SameBut
    <3>3. EntryOK(arp_table[j], hd, sl, ra)
      BY <3>1, <3>2 DEF EntryOK, Stable
    <3> QED
      BY <3>1, <3>3, Zenon
  <2> QED
    BY <2>1, <2>2
<1>3. ASSUME NEW j \in Slot, NEW k \in Slot, t[j].state # "empty", t[k].state # "empty",
             t[j].ip = t[k].ip
      PROVE  j = k
  <2>1. CASE j # i /\ k # i
    BY <1>1, <1>3, <2>1, Zenon DEF ArpInv, OneEntryPerHost
  <2>2. CASE j = i /\ k # i
    BY <1>1, <1>3, <2>2, Zenon DEF Apart
  <2>3. CASE j # i /\ k = i
    BY <1>1, <1>3, <2>3, Zenon DEF Apart
  <2> QED
    BY <2>1, <2>2, <2>3
<1> QED
  BY <1>1, <1>2, <1>3, Zenon DEF TableOK

-----------------------------------------------------------------------------
(* The steps.                                                              *)

LEMMA ArpInitial == ArpInit => ArpInv
<1> SUFFICES ASSUME ArpInit PROVE ArpInv
  OBVIOUS
<1>1. arp_table = [i \in Slot |-> Freed]
  BY Zenon DEF ArpInit
<1>2. \A i \in Slot : arp_table[i] = Freed
  BY <1>1, Zenon
<1>3. TableTyped
  BY <1>1, FreedOK, SlotFacts, Zenon DEF ArpInit, TableTyped
<1>4. HostsTyped
  <2>1. \A h \in Host : None \in Mac \cup {None} /\ MaxAge \in 0 .. MaxAge /\ 0 \in Nat
    BY ArpConstants
  <2> QED
    BY <2>1, Zenon DEF ArpInit, HostsTyped
<1>5. EntriesOK
  BY <1>2, FreedOK, Zenon DEF EntriesOK
<1>6. OneEntryPerHost
  BY <1>2 DEF OneEntryPerHost, Freed
<1>7. NoFlood
  BY DEF ArpInit, NoFlood
<1>8. SentWhereHeard /\ OutTyped
  BY Zenon DEF ArpInit, SentWhereHeard, OutTyped, Nothing
<1> QED
  BY <1>3, <1>4, <1>5, <1>6, <1>7, <1>8, Zenon DEF ArpInv

LEMMA LearnedOK ==
  ASSUME NEW x \in Entry, NEW mac \in Mac, NEW hd, NEW sl, NEW ra,
         x.ip \in Host, hd[x.ip] = mac, sl[x.ip] = 0
  PROVE  EntryOK(Learned(x, mac), hd, sl, ra) /\ Learned(x, mac).ip = x.ip
<1>1. /\ Learned(x, mac).state = "stable" /\ Learned(x, mac).mac = mac
      /\ Learned(x, mac).ctime = 0 /\ Learned(x, mac).q = None
      /\ Learned(x, mac).ip = x.ip
  BY DEF Learned, Entry
<1>2. Learned(x, mac) \in Entry
  <2> DEFINE s == [x EXCEPT !.state = "stable"]
             m == [s EXCEPT !.mac = mac]
             c == [m EXCEPT !.ctime = 0]
             p == [c EXCEPT !.q = None]
  <2>1. s \in Entry
    BY DEF Entry
  <2> HIDE DEF s
  <2>2. m \in Entry
    BY <2>1 DEF Entry
  <2> HIDE DEF m
  <2>3. c \in Entry
    BY <2>2, ArpConstants DEF Entry
  <2> HIDE DEF c
  <2>4. p \in Entry
    BY <2>3 DEF Entry
  <2> QED
    BY <2>4, Zenon DEF Learned, s, m, c, p
<1> QED
  BY <1>1, <1>2, ArpConstants DEF EntryOK, Stable

LEMMA ArpInputStep ==
  ASSUME ArpInv, ArpInput
  PROVE  ArpInv'
<1>1. PICK a \in Announce, for_us \in BOOLEAN :
        /\ heard' = [heard EXCEPT ![a[1]] = a[2]]
        /\ silent' = [silent EXCEPT ![a[1]] = 0]
        /\ IF MayCreate(for_us) \/ Matching(a[1]) # {}
           THEN UpdateEntry(EntryFor(a[1]), a[2])
           ELSE UNCHANGED <<arp_table, copies>> /\ out' = Nothing
        /\ UNCHANGED <<cached, reasked>>
  BY Zenon DEF ArpInput
<1> DEFINE ip == a[1]
           mac == a[2]
<1>2. ip \in Host /\ mac \in Mac
  BY ArpConstants
<1> HIDE DEF ip, mac
<1>3. /\ heard' = [heard EXCEPT ![ip] = mac] /\ silent' = [silent EXCEPT ![ip] = 0]
      /\ cached' = cached /\ reasked' = reasked
  BY <1>1, Zenon DEF ip, mac
<1>4. /\ HostsTyped' /\ heard'[ip] = mac /\ silent'[ip] = 0
      /\ \A h \in Host : h # ip => heard'[h] = heard[h] /\ silent'[h] = silent[h]
                                   /\ reasked'[h] = reasked[h]
  <2>1. heard \in [Host -> Mac \cup {None}] /\ silent \in [Host -> 0 .. MaxAge]
    BY DEF ArpInv, HostsTyped
  <2>2. mac \in Mac \cup {None} /\ 0 \in 0 .. MaxAge
    BY <1>2, ArpConstants
  <2>3. reasked' \in [Host -> Nat]
    BY <1>3, Zenon DEF ArpInv, HostsTyped
  <2> QED
    BY <1>2, <1>3, <2>1, <2>2, <2>3, Zenon DEF HostsTyped
<1>5. NoFlood'
  BY <1>3, Zenon DEF ArpInv, NoFlood
<1>6. CASE MayCreate(for_us) \/ Matching(ip) # {}
  <2> DEFINE f == EntryFor(ip)
             e == Learned(f.table[f.i], mac)
  <2>1. UpdateEntry(f, mac)
    BY <1>1, <1>6, Zenon DEF ip, mac
  <2>2. /\ f.i \in Slot
        /\ \A x : [f.table EXCEPT ![f.i] = x] = [arp_table EXCEPT ![f.i] = x]
        /\ f.table[f.i].ip = ip
        /\ EntryOK(f.table[f.i], heard, silent, reasked)
        /\ Apart(f.i, ip)
    <3> HIDE DEF f
    <3>1. f = EntryFor(ip)
      BY DEF f
    <3> QED
      BY <1>2, <3>1, EntryForShape, Zenon
  <2> HIDE DEF f
  <2>3. EntryOK(e, heard', silent', reasked') /\ e.ip = ip
    <3>1. f.table[f.i] \in Entry
      BY <2>2, Zenon DEF EntryOK
    <3>2. EntryOK(Learned(f.table[f.i], mac), heard', silent', reasked')
          /\ Learned(f.table[f.i], mac).ip = f.table[f.i].ip
      BY <1>2, <1>4, <2>2, <3>1, LearnedOK, Zenon
    <3> QED
      BY <2>2, <3>2, Zenon
  <2>4. arp_table' = [arp_table EXCEPT ![f.i] = e]
    BY <2>1, <2>2, Zenon DEF UpdateEntry
  <2> HIDE DEF e
  <2>5. TableOK(arp_table', heard', silent', reasked')
    <3>1. Apart(f.i, e.ip) /\ SameBut(e.ip, heard', silent', reasked')
      BY <1>4, <2>2, <2>3, Zenon DEF SameBut
    <3> QED
      BY <2>2, <2>3, <2>4, <3>1, ReplaceEntry, Zenon
  <2>6. OutTyped' /\ SentWhereHeard'
    <3> DEFINE q == f.table[f.i].q
    <3>1. out' = IF q # None THEN <<q, mac>> ELSE Nothing
      BY <2>1, Zenon DEF UpdateEntry
    <3>2. q # None => q = ip
      BY <2>2, Zenon DEF EntryOK
    <3> HIDE DEF q
    <3>3. CASE q # None
      <4>1. out' = <<ip, mac>>
        BY <3>1, <3>2, <3>3, Zenon
      <4>2. out'[1] = ip /\ out'[2] = mac
        BY <4>1
      <4>3. 0 < MaxAge
        BY ArpConstants
      <4> QED
        BY <1>2, <1>4, <4>1, <4>2, <4>3, Zenon DEF OutTyped, SentWhereHeard
    <3>4. CASE q = None
      BY <3>1, <3>4, Zenon DEF OutTyped, SentWhereHeard, Nothing
    <3> QED
      BY <3>3, <3>4
  <2>7. TableTyped'
    BY <1>3, <2>5, Zenon DEF ArpInv, TableTyped, TableOK
  <2>8. EntriesOK' /\ OneEntryPerHost'
    BY <2>5, Zenon DEF EntriesOK, OneEntryPerHost, TableOK
  <2> QED
    BY <1>4, <1>5, <2>6, <2>7, <2>8, Zenon DEF ArpInv
<1>7. CASE ~(MayCreate(for_us) \/ Matching(ip) # {})
  <2>1. arp_table' = arp_table /\ out' = Nothing
    BY <1>1, <1>7, Zenon DEF ip
  <2>2. ASSUME NEW i \in Slot PROVE EntryOK(arp_table[i], heard', silent', reasked')
    <3>1. EntryOK(arp_table[i], heard, silent, reasked)
      BY Zenon DEF ArpInv, EntriesOK
    <3>2. arp_table[i].state # "empty" => arp_table[i].ip # ip /\ arp_table[i].ip \in Host
      BY <1>7, <3>1, Zenon DEF Matching, EntryOK
    <3>3. arp_table[i].state # "empty" =>
            /\ heard'[arp_table[i].ip] = heard[arp_table[i].ip]
            /\ silent'[arp_table[i].ip] = silent[arp_table[i].ip]
            /\ reasked'[arp_table[i].ip] = reasked[arp_table[i].ip]
      BY <1>4, <3>2, Zenon
    <3> QED
      BY <3>1, <3>3 DEF EntryOK, Stable
  <2>3. EntriesOK' /\ OneEntryPerHost' /\ TableTyped'
    BY <1>3, <2>1, <2>2, Zenon DEF ArpInv, EntriesOK, OneEntryPerHost, TableTyped
  <2>4. OutTyped' /\ SentWhereHeard'
    BY <2>1, Zenon DEF OutTyped, SentWhereHeard, Nothing
  <2> QED
    BY <1>4, <1>5, <2>3, <2>4, Zenon DEF ArpInv
<1> QED
  BY <1>6, <1>7

\* A known entry is used: it may be asked for again, and the packet leaves to
\* what its host said.
LEMMA OutputToStep ==
  ASSUME ArpInv, NEW i \in Slot, NEW hop \in Host, NEW mem \in BOOLEAN,
         Stable(arp_table[i]), arp_table[i].ip = hop, OutputTo(i, hop, mem),
         UNCHANGED <<heard, silent>>, cached' \in Slot
  PROVE  ArpInv'
<1> DEFINE x == arp_table[i]
           e == Rerequested(x, mem)
           again == x.state = "stable" /\ x.ctime >= Rerequest /\ mem
<1>1. x \in Entry /\ EntryOK(x, heard, silent, reasked) /\ x.ip = hop /\ Stable(x)
  BY Zenon DEF ArpInv, EntriesOK, EntryOK
<1>2. /\ arp_table' = [arp_table EXCEPT ![i] = e]
      /\ reasked' = IF again THEN [reasked EXCEPT ![hop] = @ + 1] ELSE reasked
      /\ out' = <<hop, x.mac>> /\ heard' = heard /\ silent' = silent
  BY <1>1, Zenon DEF OutputTo
<1>3. Apart(i, hop)
  BY <1>1, Zenon DEF ArpInv, OneEntryPerHost, Apart, Stable
<1> HIDE DEF x
<1>4. /\ reasked' \in [Host -> Nat] /\ \A h \in Host : h # hop => reasked'[h] = reasked[h]
      /\ \A h \in Host : reasked'[h] <= 1
      /\ EntryOK(e, heard, silent, reasked') /\ e.ip = hop
  <2>0. reasked \in [Host -> Nat] /\ \A h \in Host : reasked[h] <= 1
    BY Zenon DEF ArpInv, HostsTyped, NoFlood
  <2>1. CASE again
    <3>1. reasked' = [reasked EXCEPT ![hop] = @ + 1] /\ e = [x EXCEPT !.state = "rerequesting"]
      BY <1>2, <2>1, Zenon DEF Rerequested
    <3>2. reasked[hop] = 0
      BY <1>1, <2>1, Zenon DEF EntryOK
    <3>3. [x EXCEPT !.state = "rerequesting"] \in Entry
      BY <1>1 DEF Entry
    <3>4. /\ [x EXCEPT !.state = "rerequesting"].state = "rerequesting"
          /\ [x EXCEPT !.state = "rerequesting"].ip = x.ip
          /\ [x EXCEPT !.state = "rerequesting"].mac = x.mac
          /\ [x EXCEPT !.state = "rerequesting"].ctime = x.ctime
          /\ [x EXCEPT !.state = "rerequesting"].q = x.q
      BY <1>1 DEF Entry
    <3> HIDE DEF e
    <3>5. /\ e.state = "rerequesting" /\ e.ip = x.ip /\ e.mac = x.mac /\ e.ctime = x.ctime
          /\ e.q = x.q /\ e \in Entry
      BY <3>1, <3>3, <3>4, Zenon
    <3>6. x.q = None
      BY <1>1 DEF EntryOK, Stable
    <3>7. EntryOK(e, heard, silent, reasked')
      BY <1>1, <3>5, <3>6 DEF EntryOK, Stable
    <3>8. /\ reasked' \in [Host -> Nat] /\ \A h \in Host : h # hop => reasked'[h] = reasked[h]
          /\ \A h \in Host : reasked'[h] <= 1
      BY <2>0, <3>1, <3>2
    <3> QED
      BY <1>1, <3>5, <3>7, <3>8, Zenon
  <2>2. CASE ~again
    <3>1. reasked' = reasked /\ e = x
      BY <1>2, <2>2, Zenon DEF Rerequested
    <3> HIDE DEF e
    <3> QED
      BY <1>1, <2>0, <3>1, Zenon
  <2> QED
    BY <2>1, <2>2
<1> HIDE DEF e, again
<1>5. TableOK(arp_table', heard', silent', reasked')
  <2>1. Apart(i, e.ip) /\ SameBut(e.ip, heard', silent', reasked')
    BY <1>2, <1>3, <1>4, Zenon DEF SameBut
  <2>2. EntryOK(e, heard', silent', reasked')
    BY <1>2, <1>4, Zenon
  <2> QED
    BY <1>2, <2>1, <2>2, ReplaceEntry, Zenon
<1>6. TableTyped' /\ EntriesOK' /\ OneEntryPerHost'
  BY <1>5, Zenon DEF TableTyped, EntriesOK, OneEntryPerHost, TableOK
<1>7. HostsTyped' /\ NoFlood'
  BY <1>2, <1>4, Zenon DEF ArpInv, HostsTyped, NoFlood
<1>8. OutTyped' /\ SentWhereHeard'
  <2>1. x.mac \in Mac /\ heard[hop] = x.mac /\ silent[hop] <= x.ctime
    BY <1>1, Zenon DEF EntryOK
  <2>2. silent[hop] < MaxAge
    <3>1. x.ctime \in 0 .. (MaxAge - 1) /\ silent[hop] \in 0 .. MaxAge
      BY <1>1 DEF Entry, ArpInv, HostsTyped
    <3> QED
      BY <2>1, <3>1, ArpConstants
  <2>3. out'[1] = hop /\ out'[2] = x.mac
    BY <1>2
  <2> QED
    BY <1>2, <2>1, <2>2, <2>3, Zenon DEF OutTyped, SentWhereHeard
<1> QED
  BY <1>6, <1>7, <1>8, Zenon DEF ArpInv

\* An entry that waits for an answer, with a packet or without.
LEMMA WaitingOK ==
  ASSUME NEW x \in Entry, NEW hd, NEW sl, NEW ra, EntryOK(x, hd, sl, ra),
         x.ip \in Host
  PROVE  /\ EntryOK(Parked(x, x.ip), hd, sl, ra) /\ Parked(x, x.ip).ip = x.ip
         /\ EntryOK([x EXCEPT !.state = "pending"], hd, sl, ra)
         /\ [x EXCEPT !.state = "pending"].ip = x.ip
<1> DEFINE p == [x EXCEPT !.state = "pending"]
           k == [p EXCEPT !.q = x.ip]
<1>1. p \in Entry /\ p.state = "pending" /\ p.ip = x.ip /\ p.q = x.q
  BY DEF Entry
<1>2. Parked(x, x.ip) = k
  BY Zenon DEF Parked
<1> HIDE DEF p
<1>3. k \in Entry /\ k.state = "pending" /\ k.ip = x.ip /\ k.q = x.ip
  BY <1>1 DEF Entry
<1> HIDE DEF k
<1>4. EntryOK(p, hd, sl, ra)
  BY <1>1 DEF EntryOK, Stable
<1>5. EntryOK(k, hd, sl, ra)
  BY <1>3 DEF EntryOK, Stable
<1> QED
  BY <1>1, <1>2, <1>3, <1>4, <1>5, Zenon DEF p

LEMMA QueryStep ==
  ASSUME ArpInv, NEW hop \in Host, NEW mem \in BOOLEAN,
         Query(EntryFor(hop), hop, mem), UNCHANGED <<heard, silent, cached>>
  PROVE  ArpInv'
<1> DEFINE f == EntryFor(hop)
           x == f.table[f.i]
           e == IF mem THEN Parked(x, hop) ELSE [x EXCEPT !.state = "pending"]
<1>1. /\ f.i \in Slot
      /\ \A y : [f.table EXCEPT ![f.i] = y] = [arp_table EXCEPT ![f.i] = y]
      /\ x.ip = hop /\ EntryOK(x, heard, silent, reasked) /\ Apart(f.i, hop)
  <2> HIDE DEF f
  <2>1. f = EntryFor(hop)
    BY DEF f
  <2> QED
    BY <2>1, EntryForShape, Zenon
<1>2. /\ arp_table' = [f.table EXCEPT ![f.i] = e] /\ out' = Nothing
      /\ reasked' = reasked /\ heard' = heard /\ silent' = silent /\ cached' = cached
  BY Zenon DEF Query
<1> HIDE DEF f
<1>3. x \in Entry
  BY <1>1, Zenon DEF EntryOK
<1>4. EntryOK(e, heard, silent, reasked) /\ e.ip = hop
  <2> HIDE DEF x
  <2>1. CASE mem
    BY <1>1, <1>3, <2>1, WaitingOK, Zenon
  <2>2. CASE ~mem
    BY <1>1, <1>3, <2>2, WaitingOK, Zenon
  <2> QED
    BY <2>1, <2>2
<1>5. arp_table' = [arp_table EXCEPT ![f.i] = e]
  BY <1>1, <1>2, Zenon
<1> HIDE DEF e
<1>6. TableOK(arp_table', heard', silent', reasked')
  <2>1. Apart(f.i, e.ip) /\ SameBut(e.ip, heard', silent', reasked')
    BY <1>1, <1>2, <1>4, Zenon DEF SameBut
  <2>2. EntryOK(e, heard', silent', reasked')
    BY <1>2, <1>4, Zenon
  <2> QED
    BY <1>1, <1>5, <2>1, <2>2, ReplaceEntry, Zenon
<1>7. TableTyped' /\ EntriesOK' /\ OneEntryPerHost'
  BY <1>2, <1>6, Zenon DEF ArpInv, TableTyped, EntriesOK, OneEntryPerHost, TableOK
<1>8. HostsTyped' /\ NoFlood' /\ OutTyped' /\ SentWhereHeard'
  BY <1>2, Zenon DEF ArpInv, HostsTyped, NoFlood, OutTyped, SentWhereHeard, Nothing
<1> QED
  BY <1>7, <1>8, Zenon DEF ArpInv

LEMMA ArpOutputStep ==
  ASSUME ArpInv, ArpOutput
  PROVE  ArpInv'
<1> DEFINE Known(hop) == {i \in Slot : Stable(arp_table[i]) /\ arp_table[i].ip = hop}
<1>1. PICK hop \in Host, mem \in BOOLEAN :
        /\ \/ /\ Hit(hop) /\ OutputTo(cached, hop, mem) /\ UNCHANGED cached
           \/ /\ Known(hop) # {} /\ OutputTo(Min(Known(hop)), hop, mem)
              /\ cached' = Min(Known(hop))
           \/ /\ Query(EntryFor(hop), hop, mem) /\ UNCHANGED cached
        /\ UNCHANGED <<heard, silent>>
  <2>1. PICK dst \in Host \cup Remote, mem \in BOOLEAN :
          LET hop   == IF dst \in Host THEN dst ELSE Gateway
              known == {i \in Slot : Stable(arp_table[i]) /\ arp_table[i].ip = hop}
          IN  /\ \/ /\ Hit(hop)
                    /\ OutputTo(cached, hop, mem)
                    /\ UNCHANGED cached
                 \/ /\ ~Hit(hop) /\ known # {}
                    /\ OutputTo(Min(known), hop, mem)
                    /\ cached' = Min(known)
                 \/ /\ ~Hit(hop) /\ known = {}
                    /\ Query(EntryFor(hop), hop, mem)
                    /\ UNCHANGED cached
              /\ UNCHANGED <<heard, silent>>
    BY Zenon DEF ArpOutput
  <2>2. (IF dst \in Host THEN dst ELSE Gateway) \in Host
    BY ArpConstants
  <2> QED
    BY <2>1, <2>2, Zenon
<1>2. CASE Hit(hop) /\ OutputTo(cached, hop, mem) /\ UNCHANGED cached
  <2>1. cached \in Slot /\ cached' \in Slot
    BY <1>2, Zenon DEF ArpInv, TableTyped
  <2>2. Stable(arp_table[cached]) /\ arp_table[cached].ip = hop
    BY <1>2, Zenon DEF Hit
  <2> QED
    BY <1>1, <1>2, <2>1, <2>2, OutputToStep
<1>3. CASE Known(hop) # {} /\ OutputTo(Min(Known(hop)), hop, mem) /\ cached' = Min(Known(hop))
  <2> DEFINE K == Known(hop)
             m == Min(K)
  <2>1. K \subseteq Nat /\ K # {}
    BY <1>3, SlotFacts
  <2>2. m \in K
    <3> HIDE DEF K
    <3> QED
      BY <2>1, MinIsMember
  <2>3. m \in Slot /\ Stable(arp_table[m]) /\ arp_table[m].ip = hop
    BY <2>2, Zenon
  <2>4. OutputTo(m, hop, mem) /\ cached' = m
    BY <1>3, Zenon
  <2> HIDE DEF m
  <2> QED
    BY <1>1, <2>3, <2>4, OutputToStep
<1>4. CASE Query(EntryFor(hop), hop, mem) /\ UNCHANGED cached
  BY <1>1, <1>4, QueryStep
<1> QED
  BY <1>1, <1>2, <1>3, <1>4

\* A period later an entry is gone or has become as much older as its host
\* has been silent for longer.
LEMMA AgedOK ==
  ASSUME NEW x \in Entry, NEW hd, NEW sl, NEW ra, NEW sl2, NEW ra2,
         EntryOK(x, hd, sl, ra),
         x.ip \in Host => /\ sl[x.ip] \in 0 .. MaxAge /\ ra2[x.ip] = 0
                          /\ sl2[x.ip] = IF sl[x.ip] < MaxAge THEN sl[x.ip] + 1 ELSE MaxAge
  PROVE  /\ EntryOK(Aged(x), hd, sl2, ra2)
         /\ Aged(x).state # "empty" => x.state # "empty" /\ Aged(x).ip = x.ip
         /\ Aged(x).q # None => Aged(x).q = x.q
<1>1. CASE x.state = "empty"
  <2>1. Aged(x) = x
    BY <1>1 DEF Aged
  <2> QED
    BY <1>1, <2>1 DEF EntryOK, Stable
<1>2. CASE x.state # "empty" /\ Outlived(x, x.ctime + 1)
  <2>1. Aged(x) = Freed
    BY <1>2 DEF Aged
  <2>2. Freed.state = "empty" /\ Freed.q = None
    BY DEF Freed
  <2> QED
    BY <2>1, <2>2, FreedOK, Zenon
<1>3. CASE x.state # "empty" /\ ~Outlived(x, x.ctime + 1)
  <2> DEFINE c == [x EXCEPT !.ctime = @ + 1]
             s == [c EXCEPT !.state = IF @ = "rerequesting" THEN "stable" ELSE @]
  <2>1. x.ctime \in 0 .. (MaxAge - 1) /\ x.ctime + 1 < MaxAge
    BY <1>3, ArpConstants DEF Outlived, Entry
  <2>2. /\ c \in Entry /\ c.ctime = x.ctime + 1 /\ c.state = x.state /\ c.ip = x.ip
        /\ c.mac = x.mac /\ c.q = x.q
    BY <2>1, ArpConstants DEF Entry
  <2>3. Aged(x) = s
    BY <1>3, Zenon DEF Aged
  <2> HIDE DEF c
  <2>4. /\ s \in Entry /\ s.ctime = c.ctime /\ s.ip = c.ip /\ s.mac = c.mac /\ s.q = c.q
        /\ s.state = IF c.state = "rerequesting" THEN "stable" ELSE c.state
    BY <2>2 DEF Entry
  <2> HIDE DEF s
  <2>5. Stable(s) => Stable(x)
    BY <2>2, <2>4 DEF Stable
  <2>6. Stable(x) => sl2[x.ip] <= x.ctime + 1
    <3> SUFFICES ASSUME Stable(x) PROVE sl2[x.ip] <= x.ctime + 1
      OBVIOUS
    <3>1. x.ip \in Host /\ sl[x.ip] <= x.ctime
      BY DEF EntryOK, Stable
    <3> QED
      BY <2>1, <3>1, ArpConstants
  <2>7. EntryOK(s, hd, sl2, ra2)
    BY <1>3, <2>2, <2>4, <2>5, <2>6 DEF EntryOK, Stable
  <2> QED
    BY <1>3, <2>2, <2>3, <2>4, <2>7, Zenon
<1> QED
  BY <1>1, <1>2, <1>3

LEMMA ArpTmrStep ==
  ASSUME ArpInv, ArpTmr
  PROVE  ArpInv'
<1>1. /\ arp_table' = [i \in Slot |-> Aged(arp_table[i])]
      /\ silent' = [h \in Host |-> IF silent[h] < MaxAge THEN silent[h] + 1 ELSE MaxAge]
      /\ reasked' = [h \in Host |-> 0] /\ out' = Nothing
      /\ cached' = cached /\ heard' = heard
  BY Zenon DEF ArpTmr
<1>2. \A h \in Host : silent[h] \in 0 .. MaxAge
  BY DEF ArpInv, HostsTyped
<1>3. ASSUME NEW i \in Slot
      PROVE  /\ arp_table'[i] = Aged(arp_table[i])
             /\ EntryOK(arp_table'[i], heard', silent', reasked')
             /\ arp_table'[i].state # "empty" =>
                  arp_table[i].state # "empty" /\ arp_table'[i].ip = arp_table[i].ip
  <2> DEFINE x == arp_table[i]
  <2>1. arp_table'[i] = Aged(x)
    BY <1>1, Zenon
  <2>2. x \in Entry /\ EntryOK(x, heard, silent, reasked)
    BY Zenon DEF ArpInv, EntriesOK, EntryOK
  <2> HIDE DEF x
  <2>3. x.ip \in Host =>
          /\ silent[x.ip] \in 0 .. MaxAge /\ reasked'[x.ip] = 0
          /\ silent'[x.ip] = IF silent[x.ip] < MaxAge THEN silent[x.ip] + 1 ELSE MaxAge
    BY <1>1, <1>2, Zenon
  <2>4. /\ EntryOK(Aged(x), heard, silent', reasked')
        /\ Aged(x).state # "empty" => x.state # "empty" /\ Aged(x).ip = x.ip
    BY <2>2, <2>3, AgedOK, Zenon
  <2> QED
    BY <1>1, <2>1, <2>4, Zenon DEF x
<1>4. TableTyped'
  <2>1. \A i \in Slot : Aged(arp_table[i]) \in Entry
    BY <1>3, Zenon DEF EntryOK
  <2> QED
    BY <1>1, <2>1, Zenon DEF TableTyped, ArpInv
<1>5. EntriesOK'
  BY <1>3, Zenon DEF EntriesOK
<1>6. OneEntryPerHost'
  BY <1>3, Zenon DEF OneEntryPerHost, ArpInv
<1>7. HostsTyped'
  <2>1. \A h \in Host : (IF silent[h] < MaxAge THEN silent[h] + 1 ELSE MaxAge) \in 0 .. MaxAge
    BY <1>2, ArpConstants
  <2>2. silent' \in [Host -> 0 .. MaxAge]
    BY <1>1, <2>1, Zenon
  <2>3. reasked' \in [Host -> Nat]
    <3>1. 0 \in Nat
      OBVIOUS
    <3> QED
      BY <1>1, <3>1, Zenon
  <2> QED
    BY <1>1, <2>2, <2>3, Zenon DEF HostsTyped, ArpInv
<1>8. NoFlood'
  BY <1>1 DEF NoFlood
<1>9. OutTyped' /\ SentWhereHeard'
  BY <1>1, Zenon DEF OutTyped, SentWhereHeard, Nothing
<1> QED
  BY <1>4, <1>5, <1>6, <1>7, <1>8, <1>9, Zenon DEF ArpInv

LEMMA ArpStep == ArpInv /\ [ArpNext]_arpVars => ArpInv'
<1> SUFFICES ASSUME ArpInv, [ArpNext]_arpVars PROVE ArpInv'
  OBVIOUS
<1>1. CASE UNCHANGED arpVars
  BY <1>1, Zenon DEF arpVars, ArpInv, TableTyped, HostsTyped, OutTyped, EntriesOK,
                     OneEntryPerHost, NoFlood, SentWhereHeard
<1> QED
  BY <1>1, ArpInputStep, ArpOutputStep, ArpTmrStep DEF ArpNext

\* The invariant holds for any table and any hosts.
THEOREM ArpInvariance == ArpSpec => []ArpInv
<1> QED
  BY ArpInitial, ArpStep, PTL DEF ArpSpec

\* No address has two entries, whatever was recycled for it: a reply refreshes
\* the entry the packets go by.
THEOREM EntriesUnique == ArpSpec => []OneEntryPerHost
<1>1. ArpInv => OneEntryPerHost
  BY DEF ArpInv
<1> QED
  BY <1>1, ArpInvariance, PTL

\* Recycling a stable entry drops no packet: packets wait on pending ones only.
THEOREM PacketsWaitOnPending == ArpSpec => []WaitOnPending
<1>1. ArpInv => WaitOnPending
  BY Zenon DEF ArpInv, EntriesOK, EntryOK, WaitOnPending
<1> QED
  BY <1>1, ArpInvariance, PTL

\* A packet leaves to the address its next hop announced last, no longer than
\* ARP_MAXAGE ago.
THEOREM PacketsGoWhereHeard == ArpSpec => []SentWhereHeard
<1>1. ArpInv => SentWhereHeard
  BY DEF ArpInv
<1> QED
  BY <1>1, ArpInvariance, PTL

\* An address in use is asked for again at most once per period.
THEOREM RequestsBounded == ArpSpec => []NoFlood
<1>1. ArpInv => NoFlood
  BY DEF ArpInv
<1> QED
  BY <1>1, ArpInvariance, PTL

-----------------------------------------------------------------------------
(* The count of the copies.                                                *)

Waiting(t) == {i \in Slot : t[i].q # None}

LEMMA WaitingFinite ==
  ASSUME NEW t
  PROVE  /\ IsFiniteSet(Waiting(t)) /\ Cardinality(Waiting(t)) \in 0 .. TableSize
<1>1. IsFiniteSet(Slot) /\ Cardinality(Slot) = TableSize
  <2>1. 0 \in Int /\ TableSize - 1 \in Int /\ ~(0 > TableSize - 1)
    BY ArpConstants
  <2>2. /\ IsFiniteSet(0 .. (TableSize - 1))
        /\ Cardinality(0 .. (TableSize - 1)) = (TableSize - 1) - 0 + 1
    BY <2>1, FS_Interval
  <2> QED
    BY <2>2, ArpConstants DEF Slot
<1>2. Waiting(t) \in SUBSET Slot
  BY DEF Waiting
<1>3. IsFiniteSet(Waiting(t)) /\ Cardinality(Waiting(t)) <= Cardinality(Slot)
  BY <1>1, <1>2, FS_Subset
<1> QED
  BY <1>1, <1>3, FS_CardinalityType, ArpConstants

\* One entry replaced: its packet no longer counts, the new one's does.
LEMMA CountReplace ==
  ASSUME TableTyped, NEW i \in Slot, NEW e, NEW t, t = [arp_table EXCEPT ![i] = e]
  PROVE  Cardinality(Waiting(t)) + Held(arp_table[i])
           = Cardinality(Waiting(arp_table)) + Held(e)
<1> DEFINE V == Waiting(arp_table)
           W == Waiting(t)
           R == V \ {i}
<1>1. t[i] = e /\ \A j \in Slot \ {i} : t[j] = arp_table[j]
  BY DEF TableTyped
<1>2. IsFiniteSet(V) /\ Cardinality(V) \in Nat
  BY WaitingFinite, ArpConstants
<1>3. V = IF arp_table[i].q # None THEN R \cup {i} ELSE R
  BY DEF Waiting
<1>4. W = IF e.q # None THEN R \cup {i} ELSE R
  BY <1>1, Zenon DEF Waiting
<1>5. IsFiniteSet(R) /\ i \notin R
  BY <1>2, FS_RemoveElement
<1> HIDE DEF V, W, R
<1>6. Cardinality(R) \in Nat /\ Cardinality(R \cup {i}) = Cardinality(R) + 1
  BY <1>5, FS_AddElement, FS_CardinalityType
<1>7. Cardinality(V) = Cardinality(R) + Held(arp_table[i])
  BY <1>3, <1>6 DEF Held
<1>8. Cardinality(W) = Cardinality(R) + Held(e)
  BY <1>4, <1>6 DEF Held
<1>9. Held(e) \in Nat /\ Held(arp_table[i]) \in Nat
  BY DEF Held
<1>10. Cardinality(W) + Held(arp_table[i]) = Cardinality(V) + Held(e)
  BY <1>6, <1>7, <1>8, <1>9
<1> QED
  BY <1>10 DEF V, W

LEMMA NoLeakInitial == ArpInit => NoPacketLeaks
<1> SUFFICES ASSUME ArpInit PROVE NoPacketLeaks
  OBVIOUS
<1>1. Waiting(arp_table) = {} /\ copies = 0
  BY DEF ArpInit, Waiting, Freed
<1>2. Cardinality({}) = 0
  BY FS_EmptySet
<1> QED
  BY <1>1, <1>2, Zenon DEF NoPacketLeaks, Waiting

\* The copies are as many as the table can hold.
LEMMA CopiesTyped ==
  ASSUME NoPacketLeaks
  PROVE  copies \in 0 .. TableSize /\ copies \in Nat /\ \A e : Held(e) \in Nat
<1>1. copies = Cardinality(Waiting(arp_table))
  BY Zenon DEF NoPacketLeaks, Waiting
<1>2. Cardinality(Waiting(arp_table)) \in 0 .. TableSize
  BY WaitingFinite
<1>3. \A e : Held(e) \in Nat
  BY DEF Held
<1> QED
  BY <1>1, <1>2, <1>3

\* What the place found for an address gives up is what was freed there.
LEMMA FoundCount ==
  ASSUME ArpInv, NEW ip \in Host, NEW f, f = EntryFor(ip)
  PROVE  f.freed + Held(f.table[f.i]) = Held(arp_table[f.i]) /\ f.freed \in Nat
<1>1. \/ f.table[f.i] = arp_table[f.i] /\ f.freed = 0
      \/ f.table[f.i] = Created(ip) /\ f.freed = Held(arp_table[f.i])
  BY EntryForShape, Zenon
<1>2. Held(Created(ip)) = 0
  BY DEF Held, Created, Freed
<1>3. Held(arp_table[f.i]) \in {0, 1}
  BY DEF Held
<1>4. CASE f.table[f.i] = arp_table[f.i] /\ f.freed = 0
  BY <1>3, <1>4
<1>5. CASE f.table[f.i] = Created(ip) /\ f.freed = Held(arp_table[f.i])
  <2>1. Held(f.table[f.i]) = 0
    BY <1>2, <1>5, Zenon
  <2> QED
    BY <1>3, <1>5, <2>1
<1> QED
  BY <1>1, <1>4, <1>5

\* A replaced entry and the copies that go and come with it.
LEMMA LeakStep ==
  ASSUME ArpInv, NoPacketLeaks, NEW i \in Slot, NEW e,
         arp_table' = [arp_table EXCEPT ![i] = e],
         NEW n, copies' = n, n + Held(arp_table[i]) = copies + Held(e), n \in Int
  PROVE  NoPacketLeaks'
<1>1. Cardinality(Waiting(arp_table')) + Held(arp_table[i])
        = Cardinality(Waiting(arp_table)) + Held(e)
  BY CountReplace, Zenon DEF ArpInv
<1>2. copies = Cardinality(Waiting(arp_table))
  BY Zenon DEF NoPacketLeaks, Waiting
<1>3. /\ Cardinality(Waiting(arp_table')) \in Nat /\ Cardinality(Waiting(arp_table)) \in Nat
      /\ Held(e) \in Nat /\ Held(arp_table[i]) \in Nat
  BY WaitingFinite, ArpConstants DEF Held
<1>4. n = Cardinality(Waiting(arp_table'))
  <2> DEFINE c == Cardinality(Waiting(arp_table'))
             d == Cardinality(Waiting(arp_table))
             h == Held(arp_table[i])
             k == Held(e)
  <2> HIDE DEF c, d, h, k
  <2>1. c + h = d + k /\ c \in Nat /\ d \in Nat /\ k \in Nat /\ h \in Nat
    BY <1>1, <1>3, Zenon DEF c, d, h, k
  <2>2. n + h = d + k
    BY <1>2, Zenon DEF d, h, k
  <2>3. n = c
    BY <2>1, <2>2
  <2> QED
    BY <2>3 DEF c
<1>5. copies' = Cardinality(Waiting(arp_table'))
  BY <1>4
<1> QED
  BY <1>5, Zenon DEF NoPacketLeaks, Waiting

LEMMA NoLeakInput ==
  ASSUME ArpInv, NoPacketLeaks, ArpInput
  PROVE  NoPacketLeaks'
<1>1. PICK a \in Announce, for_us \in BOOLEAN :
        IF MayCreate(for_us) \/ Matching(a[1]) # {}
        THEN UpdateEntry(EntryFor(a[1]), a[2])
        ELSE UNCHANGED <<arp_table, copies>>
  BY Zenon DEF ArpInput
<1> DEFINE ip == a[1]
           mac == a[2]
<1>2. ip \in Host /\ mac \in Mac
  BY ArpConstants
<1> HIDE DEF ip, mac
<1>3. CASE UpdateEntry(EntryFor(ip), mac)
  <2> DEFINE f == EntryFor(ip)
             x == f.table[f.i]
             e == Learned(x, mac)
  <2>1. /\ f.i \in Slot /\ x \in Entry
        /\ \A y : [f.table EXCEPT ![f.i] = y] = [arp_table EXCEPT ![f.i] = y]
    <3> HIDE DEF f
    <3>1. f = EntryFor(ip)
      BY DEF f
    <3>2. /\ f.i \in Slot /\ EntryOK(f.table[f.i], heard, silent, reasked)
          /\ \A y : [f.table EXCEPT ![f.i] = y] = [arp_table EXCEPT ![f.i] = y]
      BY <1>2, <3>1, EntryForShape, Zenon
    <3> QED
      BY <3>2, Zenon DEF EntryOK
  <2>2. f.freed + Held(x) = Held(arp_table[f.i]) /\ f.freed \in Nat
    <3> HIDE DEF f
    <3>1. f = EntryFor(ip)
      BY DEF f
    <3> QED
      BY <1>2, <3>1, FoundCount
  <2> HIDE DEF f
  <2>3. /\ arp_table' = [arp_table EXCEPT ![f.i] = e]
        /\ copies' = copies - f.freed - Held(x)
    BY <1>3, <2>1, Zenon DEF UpdateEntry, Held, f
  <2>4. Held(e) = 0
    BY <2>1 DEF Held, Learned, Entry
  <2>5. copies \in Nat /\ Held(x) \in Nat /\ Held(arp_table[f.i]) \in Nat
    BY CopiesTyped, Zenon
  <2> DEFINE n == copies - f.freed - Held(x)
  <2>6. n \in Int /\ n + Held(arp_table[f.i]) = copies + Held(e)
    <3> DEFINE fr == f.freed
               hx == Held(x)
               ha == Held(arp_table[f.i])
               he == Held(e)
    <3> HIDE DEF fr, hx, ha, he
    <3>1. fr + hx = ha /\ fr \in Nat /\ hx \in Nat /\ ha \in Nat /\ he = 0 /\ copies \in Nat
      BY <2>2, <2>4, <2>5 DEF fr, hx, ha, he
    <3>2. copies - fr - hx \in Int /\ (copies - fr - hx) + ha = copies + he
      BY <3>1
    <3> QED
      BY <3>2 DEF fr, hx, ha, he
  <2> HIDE DEF n, e, x
  <2>7. copies' = n
    BY <2>3 DEF n
  <2> QED
    BY <2>1, <2>3, <2>6, <2>7, LeakStep, Zenon
<1>4. CASE UNCHANGED <<arp_table, copies>>
  BY <1>4, Zenon DEF NoPacketLeaks
<1> QED
  BY <1>1, <1>3, <1>4, Zenon DEF ip, mac

LEMMA NoLeakOutputTo ==
  ASSUME ArpInv, NoPacketLeaks, NEW i \in Slot, NEW hop, NEW mem, OutputTo(i, hop, mem)
  PROVE  NoPacketLeaks'
<1> DEFINE x == arp_table[i]
           e == Rerequested(x, mem)
<1>1. x \in Entry
  BY Zenon DEF ArpInv, TableTyped
<1>2. arp_table' = [arp_table EXCEPT ![i] = e] /\ copies' = copies
  BY Zenon DEF OutputTo
<1> HIDE DEF x
<1>3. e.q = x.q
  BY <1>1 DEF Rerequested, Entry
<1> HIDE DEF e
<1>4. Held(e) = Held(x)
  BY <1>3, Zenon DEF Held
<1>5. copies \in Nat
  BY CopiesTyped, Zenon
<1>6. copies + Held(arp_table[i]) = copies + Held(e) /\ copies \in Int
  BY <1>4, <1>5 DEF x
<1> QED
  BY <1>2, <1>6, LeakStep, Zenon

LEMMA NoLeakQuery ==
  ASSUME ArpInv, NoPacketLeaks, NEW hop \in Host, NEW mem \in BOOLEAN,
         Query(EntryFor(hop), hop, mem)
  PROVE  NoPacketLeaks'
<1> DEFINE f == EntryFor(hop)
           x == f.table[f.i]
           e == IF mem THEN Parked(x, hop) ELSE [x EXCEPT !.state = "pending"]
           n == copies - f.freed + (IF mem THEN 1 - Held(x) ELSE 0)
<1>1. /\ f.i \in Slot /\ x \in Entry
      /\ \A y : [f.table EXCEPT ![f.i] = y] = [arp_table EXCEPT ![f.i] = y]
  <2> HIDE DEF f
  <2>1. f = EntryFor(hop)
    BY DEF f
  <2>2. /\ f.i \in Slot /\ EntryOK(f.table[f.i], heard, silent, reasked)
        /\ \A y : [f.table EXCEPT ![f.i] = y] = [arp_table EXCEPT ![f.i] = y]
    BY <2>1, EntryForShape, Zenon
  <2> QED
    BY <2>2, Zenon DEF EntryOK
<1>2. f.freed + Held(x) = Held(arp_table[f.i]) /\ f.freed \in Nat
  <2> HIDE DEF f
  <2>1. f = EntryFor(hop)
    BY DEF f
  <2> QED
    BY <2>1, FoundCount
<1>3. arp_table' = [f.table EXCEPT ![f.i] = e] /\ copies' = n
  BY Zenon DEF Query, Replaced, Held
<1> HIDE DEF f
<1>4. arp_table' = [arp_table EXCEPT ![f.i] = e]
  BY <1>1, <1>3, Zenon
<1>5. Held(e) = IF mem THEN 1 ELSE Held(x)
  <2> HIDE DEF x
  <2>1. CASE mem
    <3>1. Parked(x, hop).q = hop /\ hop # None
      BY <1>1, ArpConstants DEF Parked, Entry
    <3> QED
      BY <2>1, <3>1 DEF Held
  <2>2. CASE ~mem
    <3>1. [x EXCEPT !.state = "pending"].q = x.q
      BY <1>1 DEF Entry
    <3> QED
      BY <2>2, <3>1 DEF Held
  <2> QED
    BY <2>1, <2>2
<1>6. copies \in Nat /\ Held(x) \in Nat /\ Held(arp_table[f.i]) \in Nat
  BY CopiesTyped, Zenon
<1> HIDE DEF x, e
<1>7. n \in Int /\ n + Held(arp_table[f.i]) = copies + Held(e)
  <2> DEFINE fr == f.freed
             hx == Held(x)
             ha == Held(arp_table[f.i])
             he == Held(e)
  <2> HIDE DEF fr, hx, ha, he
  <2>1. fr + hx = ha /\ fr \in Nat /\ hx \in Nat /\ ha \in Nat /\ copies \in Nat
    BY <1>2, <1>6 DEF fr, hx, ha
  <2>2. CASE mem
    <3>1. he = 1 /\ n = copies - fr + (1 - hx)
      BY <1>5, <2>2 DEF he, hx, fr
    <3> HIDE DEF n
    <3>2. n \in Int /\ n + ha = copies + he
      BY <2>1, <3>1
    <3> QED
      BY <3>2 DEF ha, he
  <2>3. CASE ~mem
    <3>1. he = hx /\ n = copies - fr + 0
      BY <1>5, <2>3 DEF he, hx, fr
    <3> HIDE DEF n
    <3>2. n \in Int /\ n + ha = copies + he
      BY <2>1, <3>1
    <3> QED
      BY <3>2 DEF ha, he
  <2> QED
    BY <2>2, <2>3
<1> HIDE DEF n
<1> QED
  BY <1>1, <1>3, <1>4, <1>7, LeakStep, Zenon

LEMMA NoLeakTmr ==
  ASSUME ArpInv, NoPacketLeaks, ArpTmr
  PROVE  NoPacketLeaks'
<1> DEFINE V == Waiting(arp_table)
           D == {i \in Slot : arp_table[i].q # None /\ Aged(arp_table[i]).q = None}
<1>1. /\ arp_table' = [i \in Slot |-> Aged(arp_table[i])]
      /\ copies' = copies - Cardinality(D)
      /\ silent' = [h \in Host |-> IF silent[h] < MaxAge THEN silent[h] + 1 ELSE MaxAge]
      /\ reasked' = [h \in Host |-> 0]
  BY Zenon DEF ArpTmr
<1>2. \A h \in Host : silent[h] \in 0 .. MaxAge
  BY DEF ArpInv, HostsTyped
<1>3. ASSUME NEW i \in Slot, Aged(arp_table[i]).q # None
      PROVE  arp_table[i].q # None
  <2> DEFINE x == arp_table[i]
  <2>1. x \in Entry /\ EntryOK(x, heard, silent, reasked)
    BY Zenon DEF ArpInv, EntriesOK, EntryOK
  <2> HIDE DEF x
  <2>2. x.ip \in Host =>
          /\ silent[x.ip] \in 0 .. MaxAge /\ reasked'[x.ip] = 0
          /\ silent'[x.ip] = IF silent[x.ip] < MaxAge THEN silent[x.ip] + 1 ELSE MaxAge
    BY <1>1, <1>2, Zenon
  <2>3. Aged(x).q # None => Aged(x).q = x.q
    BY <2>1, <2>2, AgedOK, Zenon
  <2> QED
    BY <1>3, <2>3, Zenon DEF x
<1>4. Waiting(arp_table') = V \ D /\ V \cap D = D
  <2>1. \A i \in Slot : arp_table'[i] = Aged(arp_table[i])
    BY <1>1, Zenon
  <2> QED
    BY <1>3, <2>1, Zenon DEF Waiting
<1>5. IsFiniteSet(V) /\ Cardinality(V) \in Nat
  BY WaitingFinite, ArpConstants
<1>6. copies = Cardinality(V)
  BY Zenon DEF NoPacketLeaks, Waiting
<1> HIDE DEF V, D
<1>7. Cardinality(V \ D) = Cardinality(V) - Cardinality(V \cap D)
  BY <1>5, FS_Difference
<1>8. copies' = Cardinality(Waiting(arp_table'))
  BY <1>1, <1>4, <1>6, <1>7, Zenon
<1> QED
  BY <1>8, Zenon DEF NoPacketLeaks, Waiting

LEMMA NoLeakStep == ArpInv /\ NoPacketLeaks /\ [ArpNext]_arpVars => NoPacketLeaks'
<1> SUFFICES ASSUME ArpInv, NoPacketLeaks, [ArpNext]_arpVars PROVE NoPacketLeaks'
  OBVIOUS
<1>1. CASE ArpInput
  BY <1>1, NoLeakInput
<1>2. CASE ArpOutput
  <2>1. PICK dst \in Host \cup Remote, mem \in BOOLEAN :
          LET hop   == IF dst \in Host THEN dst ELSE Gateway
              known == {i \in Slot : Stable(arp_table[i]) /\ arp_table[i].ip = hop}
          IN  \/ Hit(hop) /\ OutputTo(cached, hop, mem)
              \/ known # {} /\ OutputTo(Min(known), hop, mem)
              \/ Query(EntryFor(hop), hop, mem)
    BY <1>2, Zenon DEF ArpOutput
  <2> DEFINE hop   == IF dst \in Host THEN dst ELSE Gateway
             known == {i \in Slot : Stable(arp_table[i]) /\ arp_table[i].ip = hop}
  <2>2. hop \in Host
    BY ArpConstants
  <2>3. known \subseteq Slot /\ known \subseteq Nat
    BY SlotFacts
  <2>4. CASE OutputTo(cached, hop, mem)
    <3>1. cached \in Slot
      BY DEF ArpInv, TableTyped
    <3> HIDE DEF hop
    <3> QED
      BY <2>4, <3>1, NoLeakOutputTo
  <2>5. CASE known # {} /\ OutputTo(Min(known), hop, mem)
    <3> HIDE DEF known
    <3>1. Min(known) \in Slot
      BY <2>3, <2>5, MinIsMember
    <3> HIDE DEF hop
    <3> QED
      BY <2>5, <3>1, NoLeakOutputTo
  <2>6. CASE Query(EntryFor(hop), hop, mem)
    <3> HIDE DEF hop
    <3> QED
      BY <2>2, <2>6, NoLeakQuery
  <2> QED
    BY <2>1, <2>4, <2>5, <2>6, Zenon
<1>3. CASE ArpTmr
  BY <1>3, NoLeakTmr
<1>4. CASE UNCHANGED arpVars
  BY <1>4, Zenon DEF arpVars, NoPacketLeaks
<1> QED
  BY <1>1, <1>2, <1>3, <1>4 DEF ArpNext

\* Every copy of a packet waits on an entry or was freed.
THEOREM NoCopyLeaks == ArpSpec => []NoPacketLeaks
<1> QED
  BY NoLeakInitial, NoLeakStep, ArpInvariance, PTL DEF ArpSpec

\* The types of the table and of what it remembers of the hosts.
THEOREM ArpTypeCorrect == ArpSpec => []ArpTypeOK
<1>1. ArpInv /\ NoPacketLeaks => ArpTypeOK
  <2> SUFFICES ASSUME ArpInv, NoPacketLeaks PROVE ArpTypeOK
    OBVIOUS
  <2>1. copies \in 0 .. TableSize
    BY CopiesTyped
  <2> QED
    BY <2>1, Zenon DEF ArpInv, TableTyped, HostsTyped, OutTyped, ArpTypeOK
<1> QED
  BY <1>1, ArpInvariance, NoCopyLeaks, PTL

\* The run's invariant, for any hosts, adapters and table size.
THEOREM TableIsSound == ArpSpec => []TableSound
<1>1. ArpTypeOK /\ OneEntryPerHost /\ WaitOnPending /\ NoPacketLeaks /\ NoFlood => TableSound
  BY DEF TableSound
<1> QED
  BY <1>1, ArpTypeCorrect, EntriesUnique, PacketsWaitOnPending, NoCopyLeaks, RequestsBounded, PTL

-----------------------------------------------------------------------------
(* The list of timeouts.                                                   *)

\* The lists of timeouts: a handler, and how long after the one before.
Lists == Seq(Handler \X Nat)

\* What Waits computes: the sums of the times, up to the k-th.
LEMMA WaitsAre ==
  ASSUME NEW list \in Lists
  PROVE  /\ Waits(list) \in [0 .. Len(list) -> Nat]
         /\ Waits(list)[0] = 0
         /\ \A k \in 1 .. Len(list) : Waits(list)[k] = Waits(list)[k - 1] + list[k][2]
<1> DEFINE n == Len(list)
           val == [k \in 1 .. n |-> list[k][2]]
           Is(w) == w = [k \in 0 .. n |-> IF k = 0 THEN 0 ELSE w[k - 1] + list[k][2]]
<1>1. n \in Nat /\ \A k \in 1 .. n : list[k][2] \in Nat
  BY DEF Lists
<1>2. val \in [1 .. n -> Nat]
  BY <1>1
<1>3. PICK w \in [0 .. n -> Nat] :
        w[0] = 0 /\ \A k \in 1 .. n : w[k] = w[k - 1] + val[k]
  <2> HIDE DEF n, val
  <2> QED
    BY <1>1, <1>2, SumsExist
<1>4. Is(w)
  BY <1>1, <1>3
<1>5. Waits(list) = CHOOSE v : Is(v)
  BY DEF Waits
<1>6. Is(Waits(list))
  <2> HIDE DEF Is
  <2> QED
    BY <1>4, <1>5, Zenon
<1>7. Waits(list) = [k \in 0 .. n |-> IF k = 0 THEN 0 ELSE Waits(list)[k - 1] + list[k][2]]
  BY <1>6
<1>8. Waits(list)[0] = 0 /\ \A k \in 1 .. n : Waits(list)[k] = Waits(list)[k - 1] + list[k][2]
  BY <1>1, <1>7
<1> DEFINE T == {k \in 0 .. n : Waits(list)[k] \in Nat}
<1>9. \A k \in 0 .. n : k \in T
  <2>1. 0 \in T
    BY <1>1, <1>8
  <2>2. ASSUME NEW k \in 1 .. n, k - 1 \in T
        PROVE  k \in T
    BY <1>1, <1>8, <2>2
  <2> HIDE DEF T, n
  <2> QED
    BY <1>1, <2>1, <2>2, Reaches
<1> QED
  BY <1>7, <1>8, <1>9

\* The sums do not fall.
LEMMA WaitsGrow ==
  ASSUME NEW list \in Lists
  PROVE  /\ Len(list) \in Nat
         /\ \A k \in 0 .. Len(list) : Waits(list)[k] \in Nat
         /\ \A k \in 1 .. Len(list) :
              /\ list[k] = <<list[k][1], list[k][2]>>
              /\ list[k][1] \in Handler /\ list[k][2] \in Nat
              /\ Waits(list)[k] = Waits(list)[k - 1] + list[k][2]
<1>1. \A k \in 1 .. Len(list) : list[k] \in Handler \X Nat
  BY ElementOfSeq DEF Lists
<1>2. Len(list) \in Nat
  BY DEF Lists
<1>3. \A k \in 1 .. Len(list) :
        /\ list[k] = <<list[k][1], list[k][2]>>
        /\ list[k][1] \in Handler /\ list[k][2] \in Nat
  BY <1>1
<1> QED
  BY <1>2, <1>3, WaitsAre

\* The entries that end no later than t are the first ones.
LEMMA EarlierAreFirst ==
  ASSUME NEW list \in Lists, NEW t \in Nat
  PROVE  \E k \in 0 .. Len(list) :
           /\ Cardinality({j \in 1 .. Len(list) : Waits(list)[j] <= t}) = k
           /\ Waits(list)[k] <= t
           /\ \A j \in k + 1 .. Len(list) : Waits(list)[j] > t
<1> DEFINE n == Len(list)
           W == Waits(list)
           Early == {j \in 1 .. n : W[j] <= t}
           Late == {j \in 1 .. n : W[j] > t}
<1>1. /\ n \in Nat /\ W[0] = 0
      /\ \A k \in 0 .. n : W[k] \in Nat
      /\ \A k \in 1 .. n : list[k][2] \in Nat /\ W[k] = W[k - 1] + list[k][2]
  BY WaitsGrow, WaitsAre
<1>2. \A k \in 1 .. n : W[k - 1] <= W[k]
  <2> SUFFICES ASSUME NEW k \in 1 .. n PROVE W[k - 1] <= W[k]
    OBVIOUS
  <2>1. k \in 0 .. n /\ k - 1 \in 0 .. n
    BY <1>1
  <2> HIDE DEF n, W
  <2> QED
    BY <1>1, <2>1
<1> HIDE DEF W, n
<1>3. \E k \in 0 .. n : Early = 1 .. k /\ W[k] <= t /\ \A j \in k + 1 .. n : W[j] > t
  <2>1. CASE Late = {}
    <3>1. \A j \in 1 .. n : W[j] <= t
      BY <1>1, <2>1
    <3>2. Early = 1 .. n /\ W[n] <= t
      BY <1>1, <3>1
    <3> QED
      BY <1>1, <3>2
  <2>2. CASE Late # {}
    <3>1. PICK m \in Late : \A j \in Late : m <= j
      <4>1. Late \in SUBSET Nat
        BY <1>1
      <4> HIDE DEF Late
      <4> QED
        BY <2>2, <4>1, LowestExists
    <3>2. m \in 1 .. n /\ W[m] > t
      BY <3>1
    <3>3. \A j \in 1 .. m - 1 : W[j] <= t
      BY <1>1, <3>1, <3>2
    <3> DEFINE T == {j \in 0 .. n : j < m \/ W[j] > t}
    <3>4. \A j \in 0 .. n : j \in T
      <4>1. 0 \in T
        BY <1>1, <3>2
      <4>2. ASSUME NEW j \in 1 .. n, j - 1 \in T
            PROVE  j \in T
        BY <1>1, <1>2, <3>2, <4>2
      <4> HIDE DEF T
      <4> QED
        BY <1>1, <4>1, <4>2, Reaches
    <3>5. \A j \in m .. n : W[j] > t
      BY <3>2, <3>4
    <3>6. Early = 1 .. m - 1
      BY <1>1, <3>2, <3>3, <3>5
    <3>7. W[m - 1] <= t
      BY <1>1, <3>2, <3>3
    <3>8. m - 1 \in 0 .. n /\ \A j \in (m - 1) + 1 .. n : W[j] > t
      BY <1>1, <3>2, <3>5
    <3> HIDE DEF Early
    <3> QED
      BY <3>6, <3>7, <3>8
  <2> QED
    BY <2>1, <2>2
<1>4. PICK k \in 0 .. n : Early = 1 .. k /\ W[k] <= t /\ \A j \in k + 1 .. n : W[j] > t
  BY <1>3
<1>5. Cardinality(1 .. k) = k
  BY <1>1, FS_Interval
<1> QED
  BY <1>4, <1>5 DEF n, W

\* A list with an entry put in behind the first k, and the next one changed.
SplicedIs(S, s, k, e, rest, new) ==
  /\ new \in Seq(S) /\ Len(new) = Len(s) + 1
  /\ \A j \in 1 .. k : new[j] = s[j]
  /\ new[k + 1] = e
  /\ \A j \in k + 1 .. Len(s) : new[j + 1] = rest[j - k]

LEMMA Spliced ==
  ASSUME NEW S, NEW s \in Seq(S), NEW k \in 0 .. Len(s), NEW e \in S,
         NEW rest \in [1 .. Len(s) - k -> S]
  PROVE  SplicedIs(S, s, k, e, rest, SubSeq(s, 1, k) \o <<e>> \o rest)
<1> DEFINE first == SubSeq(s, 1, k)
           both == first \o <<e>>
           new == both \o rest
<1>1. Len(s) \in Nat /\ \A j \in 1 .. k : s[j] \in S
  BY ElementOfSeq
<1>2. first \in Seq(S) /\ Len(first) = k /\ \A j \in 1 .. k : first[j] = s[j]
  BY <1>1, SubSeqProperties
<1>3. <<e>> \in Seq(S) /\ Len(<<e>>) = 1 /\ <<e>>[1] = e
  OBVIOUS
<1>4. rest \in Seq(S) /\ Len(rest) = Len(s) - k
  BY <1>1, SeqDef
<1> HIDE DEF first
<1>5. /\ both \in Seq(S) /\ Len(both) = k + 1
      /\ \A i \in 1 .. k + 1 : both[i] = IF i <= k THEN first[i] ELSE <<e>>[i - k]
  BY <1>2, <1>3, ConcatProperties
<1>6. both[k + 1] = e /\ \A j \in 1 .. k : both[j] = s[j]
  <2>1. k + 1 \in 1 .. k + 1 /\ ~(k + 1 <= k) /\ (k + 1) - k = 1
    BY <1>1
  <2>2. both[k + 1] = e
    BY <1>3, <1>5, <2>1
  <2>3. \A j \in 1 .. k : j \in 1 .. k + 1 /\ j <= k
    BY <1>1
  <2> QED
    BY <1>2, <1>5, <2>2, <2>3
<1> HIDE DEF both
<1>7. /\ new \in Seq(S) /\ Len(new) = Len(s) + 1
      /\ \A i \in 1 .. Len(s) + 1 : new[i] = IF i <= k + 1 THEN both[i] ELSE rest[i - (k + 1)]
  <2>1. /\ new \in Seq(S) /\ Len(new) = Len(both) + Len(rest)
        /\ \A i \in 1 .. Len(both) + Len(rest) :
             new[i] = IF i <= Len(both) THEN both[i] ELSE rest[i - Len(both)]
    BY <1>4, <1>5, ConcatProperties
  <2>2. Len(both) + Len(rest) = Len(s) + 1
    BY <1>1, <1>4, <1>5
  <2> HIDE DEF new
  <2> QED
    BY <1>5, <2>1, <2>2
<1> HIDE DEF new
<1>8. \A j \in 1 .. k : new[j] = s[j]
  BY <1>1, <1>6, <1>7
<1>9. new[k + 1] = e
  BY <1>1, <1>6, <1>7
<1>10. ASSUME NEW j \in k + 1 .. Len(s)
       PROVE  new[j + 1] = rest[j - k]
  <2>1. j + 1 \in 1 .. Len(s) + 1 /\ ~(j + 1 <= k + 1) /\ (j + 1) - (k + 1) = j - k
    BY <1>1
  <2> QED
    BY <1>7, <2>1
<1> QED
  BY <1>7, <1>8, <1>9, <1>10, Zenon DEF new, both, first, SplicedIs

\* Inserted puts the entry behind k others, where it waits for t, and leaves
\* everybody else's wait as it was.
InsertedBehind(list, h, t, new, k) ==
  /\ new \in Lists /\ Len(new) = Len(list) + 1
  /\ new[k + 1][1] = h /\ Waits(new)[k + 1] = t
  /\ \A j \in 1 .. k : new[j][1] = list[j][1] /\ Waits(new)[j] = Waits(list)[j]
  /\ \A j \in k + 1 .. Len(list) :
       new[j + 1][1] = list[j][1] /\ Waits(new)[j + 1] = Waits(list)[j]

\* sys_timeout does so, for some k.
LEMMA InsertedAt ==
  ASSUME NEW list \in Lists, NEW h \in Handler, NEW t \in Nat
  PROVE  \E k \in 0 .. Len(list) : InsertedBehind(list, h, t, Inserted(list, h, t), k)
<1> DEFINE n == Len(list)
           W == Waits(list)
<1>1. PICK k \in 0 .. n :
        /\ Cardinality({j \in 1 .. n : W[j] <= t}) = k
        /\ W[k] <= t
        /\ \A j \in k + 1 .. n : W[j] > t
  BY EarlierAreFirst
<1>2. /\ n \in Nat /\ W[0] = 0
      /\ \A j \in 0 .. n : W[j] \in Nat
      /\ \A j \in 1 .. n :
           /\ list[j] = <<list[j][1], list[j][2]>>
           /\ list[j][1] \in Handler /\ list[j][2] \in Nat
           /\ W[j] = W[j - 1] + list[j][2]
  BY WaitsGrow, WaitsAre
<1>p. \A j \in 1 .. n : list[j] \in Handler \X Nat
  BY ElementOfSeq DEF Lists
<1> DEFINE d == t - W[k]
           entry == <<h, d>>
           rest == SubSeq(list, k + 1, n)
           last == [j \in 1 .. Len(rest) |->
                      IF j = 1 THEN <<rest[1][1], rest[1][2] - entry[2]>> ELSE rest[j]]
           new == SubSeq(list, 1, k) \o <<entry>> \o last
<1>3. new = Inserted(list, h, t)
  BY <1>1 DEF Inserted
<1>4. d \in Nat /\ entry \in Handler \X Nat /\ entry[1] = h /\ entry[2] = d
  BY <1>1, <1>2
<1>5. Len(rest) = n - k /\ \A j \in 1 .. n - k : rest[j] = list[k + j]
  <2>1. \A j \in k + 1 .. n : list[j] \in Handler \X Nat
    BY <1>1, <1>2, <1>p
  <2>2. Len(rest) = IF k + 1 <= n THEN n - (k + 1) + 1 ELSE 0
    BY <1>1, <1>2, <2>1, SubSeqProperties
  <2>3. \A j \in 1 .. n - (k + 1) + 1 : rest[j] = list[(k + 1) + j - 1]
    BY <1>1, <1>2, <2>1, SubSeqProperties
  <2> HIDE DEF n, rest
  <2> QED
    BY <1>1, <1>2, <2>2, <2>3
<1>6. k < n => list[k + 1][2] - d \in Nat /\ W[k] + d = t
  <2> SUFFICES ASSUME k < n
               PROVE  list[k + 1][2] - d \in Nat
    BY <1>1, <1>2
  <2>1. k + 1 \in 1 .. n /\ (k + 1) - 1 = k
    BY <1>1, <1>2
  <2>2. W[k + 1] = W[k] + list[k + 1][2] /\ W[k + 1] > t /\ list[k + 1][2] \in Nat
    BY <1>1, <1>2, <2>1
  <2> HIDE DEF W, n
  <2> QED
    BY <1>1, <1>2, <2>2
<1> HIDE DEF rest
<1>7. ASSUME NEW j \in k + 1 .. n
      PROVE  last[j - k] = IF j = k + 1 THEN <<list[j][1], list[j][2] - d>> ELSE list[j]
  <2>1. j - k \in 1 .. Len(rest) /\ k + (j - k) = j /\ (j - k = 1 <=> j = k + 1)
    BY <1>1, <1>2, <1>5
  <2>2. rest[j - k] = list[j]
    BY <1>5, <2>1
  <2> QED
    BY <1>4, <2>1, <2>2
<1>8. last \in [1 .. n - k -> Handler \X Nat]
  <2> SUFFICES ASSUME NEW i \in 1 .. n - k
               PROVE  last[i] \in Handler \X Nat
    BY <1>5
  <2>1. k + i \in k + 1 .. n /\ (k + i) - k = i /\ k + i \in 1 .. n
    BY <1>1, <1>2
  <2>2. last[i] = IF k + i = k + 1 THEN <<list[k + i][1], list[k + i][2] - d>> ELSE list[k + i]
    BY <1>7, <2>1
  <2>3. list[k + i] \in Handler \X Nat /\ list[k + i][1] \in Handler
    BY <1>2, <1>p, <2>1
  <2>4. k + i = k + 1 => list[k + i][2] - d \in Nat
    BY <1>1, <1>2, <1>6
  <2> QED
    BY <2>2, <2>3, <2>4
<1> HIDE DEF d, entry, last
<1>9. /\ new \in Lists /\ Len(new) = n + 1
      /\ \A j \in 1 .. k : new[j] = list[j]
      /\ new[k + 1] = entry
      /\ \A j \in k + 1 .. n : new[j + 1] = last[j - k]
  <2> DEFINE P == Handler \X Nat
  <2>1. list \in Seq(P) /\ entry \in P /\ last \in [1 .. n - k -> P] /\ Lists = Seq(P)
    BY <1>4, <1>8 DEF Lists
  <2> HIDE DEF P
  <2>2. SplicedIs(P, list, k, entry, last, new)
    BY <2>1, Spliced, Zenon
  <2> QED
    BY <2>1, <2>2, Zenon DEF SplicedIs
<1> HIDE DEF new
<1>10. /\ new[k + 1][1] = h /\ new[k + 1][2] = d
       /\ \A j \in 1 .. k : new[j][1] = list[j][1] /\ new[j][2] = list[j][2]
       /\ \A j \in k + 1 .. n :
            /\ new[j + 1][1] = list[j][1]
            /\ new[j + 1][2] = IF j = k + 1 THEN list[j][2] - d ELSE list[j][2]
  <2>1. ASSUME NEW j \in k + 1 .. n
        PROVE  /\ new[j + 1][1] = list[j][1]
               /\ new[j + 1][2] = IF j = k + 1 THEN list[j][2] - d ELSE list[j][2]
    <3>1. new[j + 1] = IF j = k + 1 THEN <<list[j][1], list[j][2] - d>> ELSE list[j]
      BY <1>7, <1>9
    <3> QED
      BY <3>1
  <2> QED
    BY <1>4, <1>9, <2>1
<1> DEFINE V == Waits(new)
<1>11. /\ V[0] = 0 /\ \A j \in 0 .. n + 1 : V[j] \in Nat
       /\ \A j \in 1 .. n + 1 : V[j] = V[j - 1] + new[j][2]
  BY <1>9, WaitsGrow, WaitsAre
<1> HIDE DEF V, W, n
<1>12. \A j \in 0 .. k : V[j] = W[j]
  <2> DEFINE T == {j \in 0 .. k : V[j] = W[j]}
  <2>1. 0 \in T
    BY <1>1, <1>2, <1>11
  <2>2. ASSUME NEW j \in 1 .. k, j - 1 \in T
        PROVE  j \in T
    <3>1. j \in 1 .. n + 1 /\ j \in 1 .. n
      BY <1>1, <1>2
    <3>2. V[j] = V[j - 1] + new[j][2] /\ W[j] = W[j - 1] + list[j][2]
      BY <1>2, <1>11, <3>1
    <3> QED
      BY <1>10, <2>2, <3>2
  <2> HIDE DEF T
  <2>3. k \in Nat
    BY <1>1, <1>2
  <2>4. \A j \in 0 .. k : j \in T
    BY <2>1, <2>2, <2>3, Reaches, Zenon
  <2> QED
    BY <2>4 DEF T
<1>13. V[k + 1] = t
  <2>1. V[k + 1] = V[k] + d
    <3>1. k + 1 \in 1 .. n + 1 /\ (k + 1) - 1 = k
      BY <1>1, <1>2
    <3> QED
      BY <1>10, <1>11, <3>1
  <2>2. V[k] = W[k] /\ W[k] \in Nat
    BY <1>1, <1>2, <1>12
  <2> QED
    BY <2>1, <2>2 DEF d
<1>14. \A j \in k + 1 .. n : V[j + 1] = W[j]
  <2> DEFINE T == {j \in 0 .. n : j <= k \/ V[j + 1] = W[j]}
  <2>1. 0 \in T
    BY <1>1, <1>2
  <2>2. ASSUME NEW j \in 1 .. n, j - 1 \in T
        PROVE  j \in T
    <3>1. CASE j <= k
      BY <3>1
    <3>2. CASE j = k + 1
      <4>1. V[j + 1] = V[j] + (list[j][2] - d)
        <5>1. j + 1 \in 1 .. n + 1 /\ (j + 1) - 1 = j /\ j \in k + 1 .. n
          BY <1>1, <1>2, <3>2
        <5> QED
          BY <1>10, <1>11, <3>2, <5>1
      <4>2. W[j] = W[k] + list[j][2]
        BY <1>1, <1>2, <3>2
      <4>3. W[k] \in Nat /\ list[j][2] \in Nat
        BY <1>1, <1>2
      <4>4. V[j] = t
        BY <1>13, <3>2
      <4>5. V[j + 1] = W[j]
        BY <4>1, <4>2, <4>3, <4>4 DEF d
      <4> QED
        BY <4>5
    <3>3. CASE j > k + 1
      <4>1. V[j + 1] = V[j] + list[j][2]
        <5>1. j + 1 \in 1 .. n + 1 /\ (j + 1) - 1 = j /\ j \in k + 1 .. n /\ j # k + 1
          BY <1>1, <1>2, <3>3
        <5> QED
          BY <1>10, <1>11, <5>1
      <4>2. W[j] = W[j - 1] + list[j][2]
        BY <1>2
      <4>3. V[j] = W[j - 1]
        BY <1>1, <1>2, <2>2, <3>3
      <4> QED
        BY <4>1, <4>2, <4>3
    <3> QED
      BY <1>1, <1>2, <3>1, <3>2, <3>3
  <2> HIDE DEF T
  <2>3. \A j \in 0 .. n : j \in T
    BY <1>2, <2>1, <2>2, Reaches
  <2>4. \A j \in k + 1 .. n : j \in T /\ ~(j <= k)
    BY <1>1, <1>2, <2>3
  <2> QED
    BY <2>4 DEF T
<1>15. InsertedBehind(list, h, t, new, k)
  <2>1. \A j \in 1 .. k : j \in 0 .. k
    BY <1>1, <1>2
  <2> QED
    BY <1>9, <1>10, <1>12, <1>13, <1>14, <2>1 DEF InsertedBehind, V, W, n
<1> QED
  BY <1>3, <1>15 DEF n

\* Without its head, everybody waits for the head's time less.
LEMMA TailWaits ==
  ASSUME NEW list \in Lists, list # <<>>
  PROVE  /\ Tail(list) \in Lists /\ Len(Tail(list)) = Len(list) - 1
         /\ list[1] = <<list[1][1], list[1][2]>> /\ list[1][1] \in Handler /\ list[1][2] \in Nat
         /\ \A j \in 1 .. Len(list) - 1 :
              /\ Tail(list)[j] = list[j + 1]
              /\ Waits(Tail(list))[j] = Waits(list)[j + 1] - list[1][2]
<1> DEFINE n == Len(list)
           W == Waits(list)
           tail == Tail(list)
           V == Waits(tail)
<1>1. /\ n \in Nat /\ W[0] = 0
      /\ \A j \in 0 .. n : W[j] \in Nat
      /\ \A j \in 1 .. n :
           /\ list[j] = <<list[j][1], list[j][2]>>
           /\ list[j][1] \in Handler /\ list[j][2] \in Nat
           /\ W[j] = W[j - 1] + list[j][2]
  BY WaitsGrow, WaitsAre
<1>2. tail \in Lists /\ Len(tail) = n - 1 /\ \A j \in 1 .. n - 1 : tail[j] = list[j + 1]
  BY HeadTailProperties DEF Lists
<1>3. n \in Nat \ {0}
  BY EmptySeq DEF Lists
<1>4. /\ V[0] = 0 /\ \A j \in 0 .. n - 1 : V[j] \in Nat
      /\ \A j \in 1 .. n - 1 : V[j] = V[j - 1] + tail[j][2]
  BY <1>2, WaitsGrow, WaitsAre
<1> HIDE DEF n, W, tail, V
<1>5. 1 \in 1 .. n /\ 1 - 1 = 0
  BY <1>3
<1>6. W[1] = list[1][2] /\ list[1][2] \in Nat
  BY <1>1, <1>5
<1> DEFINE T == {j \in 0 .. n - 1 : V[j] = W[j + 1] - list[1][2]}
<1>7. 0 \in T
  BY <1>3, <1>4, <1>6
<1>8. ASSUME NEW j \in 1 .. n - 1, j - 1 \in T
      PROVE  j \in T
  <2>1. V[j] = V[j - 1] + list[j + 1][2]
    BY <1>2, <1>4
  <2>2. j + 1 \in 1 .. n /\ (j + 1) - 1 = j /\ (j - 1) + 1 = j /\ j \in 0 .. n
    BY <1>3
  <2>3. W[j + 1] = W[j] + list[j + 1][2] /\ list[j + 1][2] \in Nat /\ W[j] \in Nat
    BY <1>1, <2>2
  <2>4. V[j - 1] = W[j] - list[1][2]
    BY <1>8, <2>2
  <2> QED
    BY <1>6, <2>1, <2>3, <2>4
<1>9. \A j \in 0 .. n - 1 : j \in T
  <2>1. n - 1 \in Nat
    BY <1>3
  <2> HIDE DEF T
  <2> QED
    BY <1>7, <1>8, <2>1, Reaches
<1>10. \A j \in 1 .. n - 1 : V[j] = W[j + 1] - list[1][2]
  BY <1>9
<1> QED
  BY <1>1, <1>2, <1>5, <1>10 DEF n, W, tail, V

-----------------------------------------------------------------------------
\* A handler is in a list, and none is twice.
Has(list, h) == \E k \in 1 .. Len(list) : list[k][1] = h
Distinct(list) == \A j, k \in 1 .. Len(list) : list[j][1] = list[k][1] => j = k

\* TimeAccounted of a list, with the history and the time the counts have run.
Accounted(list, a, l, s, ran) ==
  \A k \in 1 .. Len(list) :
    a[list[k][1]] + l[list[k][1]]
      = Interval(list[k][1]) - Waits(list)[k] + ran + s[list[k][1]]

\* The intervals of the handlers.
LEMMA Intervals ==
  /\ \A h \in Handler : Interval(h) \in Nat \ {0}
  /\ Slots >= 3 /\ Slots \in Nat
  /\ Interval("tcp") = TCP_TMR_INTERVAL /\ Interval("ip_reass") = IP_TMR_INTERVAL
  /\ Interval("arp") = ARP_TMR_INTERVAL
BY TimersAssumption DEF TimersAssumption, Handler, Interval

\* There are three handlers, so the list is never longer.
LEMMA ShortList ==
  ASSUME NEW list \in Lists, Distinct(list)
  PROVE  Len(list) <= Slots
<1>1. Len(list) \in Nat /\ \A k \in 1 .. Len(list) : list[k][1] \in Handler
  BY WaitsGrow
<1>2. Len(list) <= 3
  <2> SUFFICES ASSUME ~(Len(list) <= 3) PROVE FALSE
    OBVIOUS
  <2>1. 1 \in 1 .. Len(list) /\ 2 \in 1 .. Len(list) /\ 3 \in 1 .. Len(list) /\ 4 \in 1 .. Len(list)
    BY <1>1
  <2>2. /\ list[1][1] # list[2][1] /\ list[1][1] # list[3][1] /\ list[1][1] # list[4][1]
        /\ list[2][1] # list[3][1] /\ list[2][1] # list[4][1] /\ list[3][1] # list[4][1]
    BY <2>1 DEF Distinct
  <2>3. /\ list[1][1] \in Handler /\ list[2][1] \in Handler /\ list[3][1] \in Handler
        /\ list[4][1] \in Handler
    BY <1>1, <2>1
  <2> QED
    BY <2>2, <2>3 DEF Handler
<1> QED
  BY <1>1, <1>2, Intervals

\* A timer that is armed now is due in its interval, the others' account is
\* unchanged.
LEMMA InsertAccounted ==
  ASSUME NEW list \in Lists, Distinct(list), NEW h \in Handler, ~Has(list, h),
         NEW ran \in Nat, NEW a \in [Handler -> Nat], NEW l \in [Handler -> Nat],
         NEW s \in [Handler -> Nat], Accounted(list, a, l, s, ran),
         NEW new, new = Inserted(list, h, Interval(h))
  PROVE  /\ new \in Lists /\ Distinct(new) /\ Len(new) <= Slots
         /\ \A g \in Handler : Has(new, g) <=> Has(list, g) \/ g = h
         /\ Accounted(new, [a EXCEPT ![h] = 0], [l EXCEPT ![h] = ran], [s EXCEPT ![h] = 0], ran)
<1> DEFINE n == Len(list)
           t == Interval(h)
           a2 == [a EXCEPT ![h] = 0]
           l2 == [l EXCEPT ![h] = ran]
           s2 == [s EXCEPT ![h] = 0]
<1>1. t \in Nat
  BY Intervals
<1>2. PICK k \in 0 .. n : InsertedBehind(list, h, t, new, k)
  BY <1>1, InsertedAt
<1>3. /\ n \in Nat /\ \A j \in 1 .. n : list[j][1] \in Handler /\ list[j][1] # h
  BY WaitsGrow DEF Has
<1>4. /\ new \in Lists /\ Len(new) = n + 1
      /\ new[k + 1][1] = h /\ Waits(new)[k + 1] = t
      /\ \A j \in 1 .. k : new[j][1] = list[j][1] /\ Waits(new)[j] = Waits(list)[j]
      /\ \A j \in k + 1 .. n :
           new[j + 1][1] = list[j][1] /\ Waits(new)[j + 1] = Waits(list)[j]
  BY <1>2 DEF InsertedBehind
<1>i. ASSUME NEW i \in 1 .. n + 1
      PROVE  \/ i = k + 1
             \/ i \in 1 .. k /\ i \in 1 .. n /\ new[i][1] = list[i][1] /\ Waits(new)[i] = Waits(list)[i]
             \/ i > k + 1 /\ i - 1 \in 1 .. n /\ new[i][1] = list[i - 1][1]
                /\ Waits(new)[i] = Waits(list)[i - 1]
  <2>1. CASE i <= k
    BY <1>2, <1>3, <1>4, <2>1
  <2>2. CASE i > k + 1
    <3>1. i - 1 \in k + 1 .. n /\ (i - 1) + 1 = i /\ i - 1 \in 1 .. n
      BY <1>2, <1>3, <2>2
    <3> QED
      BY <1>4, <2>2, <3>1
  <2> QED
    BY <1>2, <1>3, <2>1, <2>2
<1> HIDE DEF n, t
<1>5. Distinct(new)
  <2> SUFFICES ASSUME NEW i \in 1 .. n + 1, NEW j \in 1 .. n + 1, new[i][1] = new[j][1]
               PROVE  i = j
    BY <1>4 DEF Distinct
  <2>d. \A p, q \in 1 .. n : list[p][1] = list[q][1] => p = q
    BY DEF Distinct, n
  <2>e. ASSUME NEW m \in 1 .. n + 1, m # k + 1
        PROVE  new[m][1] # h
    <3>1. \/ m \in 1 .. n /\ new[m][1] = list[m][1]
          \/ m - 1 \in 1 .. n /\ new[m][1] = list[m - 1][1]
      BY <1>i, <2>e
    <3>2. CASE m \in 1 .. n /\ new[m][1] = list[m][1]
      BY <1>3, <3>2
    <3>3. CASE m - 1 \in 1 .. n /\ new[m][1] = list[m - 1][1]
      BY <1>3, <3>3
    <3> QED
      BY <3>1, <3>2, <3>3
  <2>1. CASE i = k + 1
    BY <1>4, <2>1, <2>e
  <2>2. CASE j = k + 1
    BY <1>4, <2>2, <2>e
  <2>3. CASE i # k + 1 /\ j # k + 1
    <3>1. CASE i \in 1 .. k /\ i \in 1 .. n /\ new[i][1] = list[i][1]
      <4>1. CASE j \in 1 .. k /\ j \in 1 .. n /\ new[j][1] = list[j][1]
        BY <2>d, <3>1, <4>1
      <4>2. CASE j > k + 1 /\ j - 1 \in 1 .. n /\ new[j][1] = list[j - 1][1]
        <5>1. i = j - 1
          BY <2>d, <3>1, <4>2
        <5> QED
          BY <1>2, <1>3, <3>1, <4>2, <5>1
      <4> QED
        BY <1>i, <2>3, <4>1, <4>2
    <3>2. CASE i > k + 1 /\ i - 1 \in 1 .. n /\ new[i][1] = list[i - 1][1]
      <4>1. CASE j \in 1 .. k /\ j \in 1 .. n /\ new[j][1] = list[j][1]
        <5>1. j = i - 1
          BY <2>d, <3>2, <4>1
        <5> QED
          BY <1>2, <1>3, <3>2, <4>1, <5>1
      <4>2. CASE j > k + 1 /\ j - 1 \in 1 .. n /\ new[j][1] = list[j - 1][1]
        <5>1. i - 1 = j - 1
          BY <2>d, <3>2, <4>2
        <5> QED
          BY <1>3, <5>1
      <4> QED
        BY <1>i, <2>3, <4>1, <4>2
    <3> QED
      BY <1>i, <2>3, <3>1, <3>2
  <2> QED
    BY <2>1, <2>2, <2>3
<1>6. ASSUME NEW g \in Handler
      PROVE  Has(new, g) <=> Has(list, g) \/ g = h
  <2>1. ASSUME Has(new, g), g # h
        PROVE  Has(list, g)
    <3>1. PICK i \in 1 .. n + 1 : new[i][1] = g
      BY <1>4, <2>1 DEF Has
    <3>2. i # k + 1
      BY <1>4, <2>1, <3>1
    <3>3. \/ i \in 1 .. n /\ new[i][1] = list[i][1]
          \/ i - 1 \in 1 .. n /\ new[i][1] = list[i - 1][1]
      BY <1>i, <3>2
    <3>4. \E j \in 1 .. n : list[j][1] = g
      BY <3>1, <3>3
    <3> QED
      BY <3>4 DEF Has, n
  <2>2. Has(new, h)
    <3>1. k + 1 \in 1 .. Len(new)
      BY <1>2, <1>3, <1>4
    <3> QED
      BY <1>4, <3>1 DEF Has
  <2>3. ASSUME Has(list, g)
        PROVE  Has(new, g)
    <3>1. PICK j \in 1 .. n : list[j][1] = g
      BY <2>3 DEF Has, n
    <3>2. CASE j <= k
      <4>1. new[j][1] = g /\ j \in 1 .. Len(new)
        BY <1>2, <1>3, <1>4, <3>1, <3>2
      <4> QED
        BY <4>1 DEF Has
    <3>3. CASE ~(j <= k)
      <4>1. j \in k + 1 .. n
        BY <1>2, <1>3, <3>3
      <4>2. new[j + 1][1] = g
        BY <1>4, <3>1, <4>1
      <4>3. j + 1 \in 1 .. Len(new)
        BY <1>2, <1>3, <1>4
      <4> QED
        BY <4>2, <4>3 DEF Has
    <3> QED
      BY <3>2, <3>3
  <2> QED
    BY <2>1, <2>2, <2>3
<1>7. Accounted(new, a2, l2, s2, ran)
  <2> SUFFICES ASSUME NEW i \in 1 .. n + 1
               PROVE  a2[new[i][1]] + l2[new[i][1]]
                        = Interval(new[i][1]) - Waits(new)[i] + ran + s2[new[i][1]]
    BY <1>4, Zenon DEF Accounted
  <2>a. \A g \in Handler : g # h => a2[g] = a[g] /\ l2[g] = l[g] /\ s2[g] = s[g]
    OBVIOUS
  <2>h. a2[h] = 0 /\ l2[h] = ran /\ s2[h] = 0
    OBVIOUS
  <2>o. \A j \in 1 .. n : a[list[j][1]] + l[list[j][1]]
                            = Interval(list[j][1]) - Waits(list)[j] + ran + s[list[j][1]]
    BY DEF Accounted, n
  <2> HIDE DEF a2, l2, s2
  <2>p. \A j \in 1 .. n : a2[list[j][1]] + l2[list[j][1]]
                            = Interval(list[j][1]) - Waits(list)[j] + ran + s2[list[j][1]]
    BY <1>3, <2>a, <2>o
  <2>1. CASE i = k + 1
    <3>1. new[i][1] = h /\ Waits(new)[i] = t
      BY <1>4, <2>1
    <3>2. Interval(new[i][1]) - Waits(new)[i] = 0
      BY <1>1, <3>1 DEF t
    <3> QED
      BY <2>h, <3>1, <3>2
  <2>2. CASE i \in 1 .. n /\ new[i][1] = list[i][1] /\ Waits(new)[i] = Waits(list)[i]
    BY <2>2, <2>p
  <2>3. CASE i - 1 \in 1 .. n /\ new[i][1] = list[i - 1][1] /\ Waits(new)[i] = Waits(list)[i - 1]
    BY <2>3, <2>p
  <2> QED
    BY <1>i, <2>1, <2>2, <2>3
<1> QED
  BY <1>4, <1>5, <1>6, <1>7, ShortList

\* The head expires: the others wait for that much less.
LEMMA TailAccounted ==
  ASSUME NEW list \in Lists, list # <<>>, Distinct(list),
         NEW ran \in Nat, NEW a \in [Handler -> Nat], NEW l \in [Handler -> Nat],
         NEW s \in [Handler -> Nat], Accounted(list, a, l, s, ran)
  PROVE  LET tail == Tail(list)
         IN  /\ tail \in Lists /\ Distinct(tail) /\ Len(tail) <= Slots
             /\ \A g \in Handler : Has(tail, g) <=> Has(list, g) /\ g # list[1][1]
             /\ Accounted(tail, a, l, s, ran - list[1][2])
<1> DEFINE n == Len(list)
           tail == Tail(list)
<1>1. /\ tail \in Lists /\ Len(tail) = n - 1 /\ list[1][1] \in Handler /\ list[1][2] \in Nat
      /\ \A j \in 1 .. n - 1 :
           tail[j] = list[j + 1] /\ Waits(tail)[j] = Waits(list)[j + 1] - list[1][2]
  BY TailWaits
<1>2. n \in Nat \ {0} /\ \A j \in 1 .. n : list[j][1] \in Handler
  BY WaitsGrow, EmptySeq DEF Lists
<1>3. \A j \in 0 .. n : Waits(list)[j] \in Nat
  BY WaitsGrow
<1>4. \A p, q \in 1 .. n : list[p][1] = list[q][1] => p = q
  BY DEF Distinct
<1>5. \A j \in 1 .. n : a[list[j][1]] + l[list[j][1]]
                          = Interval(list[j][1]) - Waits(list)[j] + ran + s[list[j][1]]
  BY DEF Accounted
<1>n. \A g : Has(list, g) <=> \E j \in 1 .. n : list[j][1] = g
  BY DEF Has
<1> HIDE DEF n, tail
<1>6. Distinct(tail)
  <2> SUFFICES ASSUME NEW i \in 1 .. n - 1, NEW j \in 1 .. n - 1, tail[i][1] = tail[j][1]
               PROVE  i = j
    BY <1>1 DEF Distinct
  <2>1. i + 1 \in 1 .. n /\ j + 1 \in 1 .. n
    BY <1>2
  <2>2. i + 1 = j + 1
    BY <1>1, <1>4, <2>1
  <2> QED
    BY <1>2, <2>2
<1>7. ASSUME NEW g \in Handler
      PROVE  Has(tail, g) <=> Has(list, g) /\ g # list[1][1]
  <2>1. ASSUME Has(tail, g)
        PROVE  Has(list, g) /\ g # list[1][1]
    <3>1. PICK j \in 1 .. n - 1 : tail[j][1] = g
      BY <1>1, <2>1 DEF Has
    <3>2. j + 1 \in 1 .. n /\ j + 1 # 1 /\ 1 \in 1 .. n
      BY <1>2
    <3>3. list[j + 1][1] = g
      BY <1>1, <3>1
    <3> QED
      BY <1>4, <1>n, <3>2, <3>3
  <2>2. ASSUME Has(list, g), g # list[1][1]
        PROVE  Has(tail, g)
    <3>1. PICK j \in 1 .. n : list[j][1] = g
      BY <1>n, <2>2
    <3>2. j # 1
      BY <2>2, <3>1
    <3>3. j - 1 \in 1 .. n - 1 /\ (j - 1) + 1 = j
      BY <1>2, <3>2
    <3>4. tail[j - 1][1] = g
      BY <1>1, <3>1, <3>3
    <3> QED
      BY <1>1, <3>3, <3>4 DEF Has
  <2> QED
    BY <2>1, <2>2
<1>8. Accounted(tail, a, l, s, ran - list[1][2])
  <2> SUFFICES ASSUME NEW j \in 1 .. n - 1
               PROVE  a[tail[j][1]] + l[tail[j][1]]
                        = Interval(tail[j][1]) - Waits(tail)[j] + (ran - list[1][2]) + s[tail[j][1]]
    BY <1>1 DEF Accounted
  <2>1. j + 1 \in 1 .. n /\ j + 1 \in 0 .. n
    BY <1>2
  <2> DEFINE g == list[j + 1][1]
  <2>2. g \in Handler /\ tail[j][1] = g /\ Waits(tail)[j] = Waits(list)[j + 1] - list[1][2]
    BY <1>1, <1>2, <2>1
  <2>3. a[g] + l[g] = Interval(g) - Waits(list)[j + 1] + ran + s[g]
    BY <1>5, <2>1
  <2>4. a[g] \in Nat /\ l[g] \in Nat /\ s[g] \in Nat /\ Interval(g) \in Nat
        /\ Waits(list)[j + 1] \in Nat
    BY <1>3, <2>1, <2>2, Intervals
  <2> HIDE DEF g
  <2>5. a[g] + l[g] = Interval(g) - (Waits(list)[j + 1] - list[1][2]) + (ran - list[1][2]) + s[g]
    <3> DEFINE w == Waits(list)[j + 1]
               d == list[1][2]
    <3>1. w \in Nat /\ d \in Nat /\ a[g] + l[g] = Interval(g) - w + ran + s[g]
      BY <1>1, <2>3, <2>4
    <3> HIDE DEF w, d
    <3>2. a[g] + l[g] = Interval(g) - (w - d) + (ran - d) + s[g]
      BY <2>4, <3>1
    <3> QED
      BY <3>2 DEF w, d
  <2> QED
    BY <2>2, <2>5
<1> QED
  BY <1>1, <1>6, <1>7, <1>8, ShortList DEF tail

-----------------------------------------------------------------------------
\* The time the counts have run that the list's times are relative to.
Ran == IF checkAt = "idle" THEN sinceLast ELSE diff

\* tcpip_tcp_timer has been called, and has not decided about its timer.
TcpCalled == checkAt \in {"tcp", "rearm", "disable"}

\* A timer is in the list unless its handler runs, or nobody has armed it.
ListedRight ==
  /\ \A h \in {"ip_reass", "arp"} : Has(timeouts, h) <=> checkAt # h
  /\ Has(timeouts, "tcp") <=> tcpip_tcp_timer_active /\ ~TcpCalled
  /\ TcpCalled => tcpip_tcp_timer_active

\* Once a handler has been called timeouts_last_time is now.
ClockRight == checkAt # "idle" => sinceLast = IF fired THEN 0 ELSE diff

\* The inductive invariant.
TimersInv == TimersTypeOK /\ ListedRight /\ ClockRight /\ TimeAccounted

\* The TCP timer is only disabled without a connection it could have seen.
TcpNeeded == /\ pcbs > 0 /\ ~unseen => tcpip_tcp_timer_active
             /\ checkAt = "disable" => pcbs = 0 \/ unseen

\* Its parts, as the lemmas on lists take them.
LEMMA Unfold ==
  /\ TimeAccounted <=> Accounted(timeouts, age, lag, loss, Ran)
  /\ \A h : InList(h) <=> Has(timeouts, h)
  /\ TimersTypeOK => /\ timeouts \in Lists /\ Distinct(timeouts) /\ Ran \in Nat
                     /\ age \in [Handler -> Nat] /\ lag \in [Handler -> Nat]
                     /\ loss \in [Handler -> Nat] /\ sinceLast \in Nat /\ diff \in Nat
<1>1. \A k : WaitOf(k) = Waits(timeouts)[k]
  BY DEF WaitOf
<1>2. TimeAccounted <=> Accounted(timeouts, age, lag, loss, Ran)
  BY <1>1 DEF TimeAccounted, Accounted, Ran
<1>3. \A h : InList(h) <=> Has(timeouts, h)
  BY DEF InList, Has
<1> QED
  BY <1>2, <1>3 DEF TimersTypeOK, Lists, Distinct, Ran

\* It holds after lwip_init.
LEMMA FirstTimers == TimersInit => TimersInv
<1> SUFFICES ASSUME TimersInit PROVE TimersInv
  OBVIOUS
<1> DEFINE one == <<<<"ip_reass", IP_TMR_INTERVAL>>>>
           zero == [h \in Handler |-> 0]
<1>1. one \in Lists /\ Len(one) = 1 /\ one[1] = <<"ip_reass", IP_TMR_INTERVAL>>
  BY Intervals DEF Handler, Lists
<1>2. Waits(one)[1] = IP_TMR_INTERVAL
  <2>1. 1 \in 1 .. Len(one) /\ 1 - 1 = 0 /\ one[1][2] = IP_TMR_INTERVAL
    BY <1>1
  <2>2. Waits(one)[1] = Waits(one)[0] + one[1][2] /\ Waits(one)[0] = 0
    <3> HIDE DEF one
    <3> QED
      BY <1>1, <2>1, WaitsAre
  <2>3. IP_TMR_INTERVAL \in Nat
    BY TimersAssumption DEF TimersAssumption
  <2> QED
    BY <2>1, <2>2, <2>3
<1>3. Distinct(one) /\ \A h : Has(one, h) <=> h = "ip_reass"
  BY <1>1 DEF Distinct, Has
<1>4. zero \in [Handler -> Nat] /\ "arp" \in Handler /\ "ip_reass" \in Handler /\ "tcp" \in Handler
  BY DEF Handler
<1>5. Accounted(one, zero, zero, zero, 0)
  BY <1>1, <1>2, <1>4, Intervals DEF Accounted
<1>6. zero = [zero EXCEPT !["arp"] = 0]
  BY <1>4
<1>7. /\ timeouts = Inserted(one, "arp", Interval("arp"))
      /\ age = zero /\ lag = zero /\ loss = zero
      /\ sinceLast = 0 /\ diff = 0 /\ checkAt = "idle"
  BY Intervals DEF TimersInit
<1> HIDE DEF one, zero
<1>8. /\ timeouts \in Lists /\ Distinct(timeouts) /\ Len(timeouts) <= Slots
      /\ \A g \in Handler : Has(timeouts, g) <=> Has(one, g) \/ g = "arp"
      /\ Accounted(timeouts, zero, zero, zero, 0)
  <2> DEFINE r == 0
             h == "arp"
  <2>1. /\ ~Has(one, h) /\ h \in Handler /\ r \in Nat
        /\ Accounted(one, zero, zero, zero, r) /\ timeouts = Inserted(one, h, Interval(h))
    BY <1>3, <1>4, <1>5, <1>7
  <2>2. zero = [zero EXCEPT ![h] = 0] /\ zero = [zero EXCEPT ![h] = r]
    BY <1>6
  <2>3. /\ timeouts \in Lists /\ Distinct(timeouts) /\ Len(timeouts) <= Slots
        /\ \A g \in Handler : Has(timeouts, g) <=> Has(one, g) \/ g = h
        /\ Accounted(timeouts, [zero EXCEPT ![h] = 0], [zero EXCEPT ![h] = r],
                     [zero EXCEPT ![h] = 0], r)
    <3> HIDE DEF r, h
    <3> QED
      BY <1>1, <1>3, <1>4, <2>1, InsertAccounted
  <2> QED
    BY <2>2, <2>3
<1>9. TimersTypeOK
  <2>1. age \in [Handler -> Nat] /\ lag \in [Handler -> Nat] /\ loss \in [Handler -> Nat]
    BY <1>4, <1>7
  <2>2. /\ {sinceLast, diff} \subseteq Nat /\ sinceCheck \in 0 .. Gap /\ pcbs \in 0 .. MaxPcbs
    BY TimersAssumption DEF TimersAssumption, TimersInit
  <2>3. /\ {tcpip_tcp_timer_active, unseen, fired} \subseteq BOOLEAN
        /\ checkAt \in Handler \cup {"idle", "loop", "rearm", "disable"}
    BY DEF TimersInit
  <2> QED
    BY <1>8, <2>1, <2>2, <2>3 DEF TimersTypeOK, Lists, Distinct
<1>10. TimeAccounted
  BY <1>7, <1>8, Unfold DEF Ran
<1>11. ListedRight
  BY <1>3, <1>4, <1>8 DEF ListedRight, TimersInit, TcpCalled
<1> QED
  BY <1>9, <1>10, <1>11 DEF TimersInv, ClockRight, TimersInit

\* A timer that is armed: what every call of sys_timeout comes down to.
LEMMA ArmStep ==
  ASSUME TimersInv, NEW h \in Handler, ~Has(timeouts, h), Ran' = Ran,
         timeouts' = Inserted(timeouts, h, Interval(h)), Arm(h, Ran)
  PROVE  /\ timeouts' \in Lists /\ Distinct(timeouts') /\ Len(timeouts') <= Slots
         /\ \A g \in Handler : Has(timeouts', g) <=> Has(timeouts, g) \/ g = h
         /\ TimeAccounted'
         /\ age' \in [Handler -> Nat] /\ lag' \in [Handler -> Nat] /\ loss' \in [Handler -> Nat]
<1>1. /\ timeouts \in Lists /\ Distinct(timeouts) /\ Ran \in Nat
      /\ age \in [Handler -> Nat] /\ lag \in [Handler -> Nat] /\ loss \in [Handler -> Nat]
      /\ Accounted(timeouts, age, lag, loss, Ran)
  BY Unfold DEF TimersInv
<1>2. /\ age' = [age EXCEPT ![h] = 0] /\ lag' = [lag EXCEPT ![h] = Ran]
      /\ loss' = [loss EXCEPT ![h] = 0]
  BY DEF Arm
<1>3. /\ timeouts' \in Lists /\ Distinct(timeouts') /\ Len(timeouts') <= Slots
      /\ \A g \in Handler : Has(timeouts', g) <=> Has(timeouts, g) \/ g = h
      /\ Accounted(timeouts', [age EXCEPT ![h] = 0], [lag EXCEPT ![h] = Ran],
                   [loss EXCEPT ![h] = 0], Ran)
  BY <1>1, InsertAccounted
<1>4. Accounted(timeouts', age', lag', loss', Ran')
  BY <1>2, <1>3
<1>5. TimeAccounted'
  BY <1>4 DEF TimeAccounted, Accounted, WaitOf, Ran
<1> QED
  BY <1>1, <1>2, <1>3, <1>5

\* The rest of the types, and the list's.
OtherTypes ==
  /\ {sinceLast, diff} \subseteq Nat /\ sinceCheck \in 0 .. Gap
  /\ {tcpip_tcp_timer_active, unseen, fired} \subseteq BOOLEAN /\ pcbs \in 0 .. MaxPcbs
  /\ checkAt \in Handler \cup {"idle", "loop", "rearm", "disable"}

\* The types of a state, and of the next.
LEMMA TypesSplit ==
  TimersTypeOK <=> /\ timeouts \in Lists /\ Distinct(timeouts) /\ Len(timeouts) <= Slots
                   /\ OtherTypes
                   /\ age \in [Handler -> Nat] /\ lag \in [Handler -> Nat]
                   /\ loss \in [Handler -> Nat]
BY DEF TimersTypeOK, OtherTypes, Lists, Distinct

LEMMA TypesSplitNext ==
  TimersTypeOK' <=> /\ timeouts' \in Lists /\ Distinct(timeouts') /\ Len(timeouts') <= Slots
                    /\ OtherTypes'
                    /\ age' \in [Handler -> Nat] /\ lag' \in [Handler -> Nat]
                    /\ loss' \in [Handler -> Nat]
BY DEF TimersTypeOK, OtherTypes, Lists, Distinct

\* The three handlers.
LEMMA HandlersAre == "tcp" \in Handler /\ "ip_reass" \in Handler /\ "arp" \in Handler
BY DEF Handler

\* Nothing that TimeAccounted speaks of changes.
LEMMA SameAccount ==
  ASSUME TimeAccounted, UNCHANGED <<timeouts, age, lag, loss>>, Ran' = Ran
  PROVE  TimeAccounted'
BY DEF TimeAccounted, WaitOf, Ran

\* The clock's interrupt.
LEMMA TickStep ==
  ASSUME TimersInv, Tick
  PROVE  TimersInv'
<1>1. /\ checkAt = "idle" /\ checkAt' = "idle" /\ sinceCheck < Gap
      /\ sinceLast' = sinceLast + 1 /\ sinceCheck' = sinceCheck + 1
      /\ age' = [h \in Handler |-> IF Has(timeouts, h) THEN age[h] + 1 ELSE age[h]]
      /\ timeouts' = timeouts /\ tcpip_tcp_timer_active' = tcpip_tcp_timer_active
      /\ pcbs' = pcbs /\ unseen' = unseen /\ diff' = diff /\ fired' = fired /\ lag' = lag /\ loss' = loss
  BY Unfold DEF Tick, listed
<1>2. TimersTypeOK
  BY DEF TimersInv
<1>3. OtherTypes'
  BY <1>1, <1>2, TypesSplit, TimersAssumption DEF OtherTypes, TimersAssumption
<1>4. age' \in [Handler -> Nat]
  BY <1>1, <1>2, TypesSplit
<1>5. TimersTypeOK'
  BY <1>1, <1>2, <1>3, <1>4, TypesSplit, TypesSplitNext
<1>6. ListedRight' /\ ClockRight'
  BY <1>1 DEF TimersInv, ListedRight, ClockRight, TcpCalled
<1>7. Accounted(timeouts, age', lag, loss, sinceLast + 1)
  <2>1. Accounted(timeouts, age, lag, loss, sinceLast)
    BY <1>1, Unfold DEF TimersInv, Ran
  <2> SUFFICES ASSUME NEW k \in 1 .. Len(timeouts)
               PROVE  age'[timeouts[k][1]] + lag[timeouts[k][1]]
                        = Interval(timeouts[k][1]) - Waits(timeouts)[k] + (sinceLast + 1)
                            + loss[timeouts[k][1]]
    BY DEF Accounted
  <2> DEFINE h == timeouts[k][1]
             w == Waits(timeouts)[k]
  <2>2. h \in Handler /\ w \in Nat
    <3>1. timeouts \in Lists /\ k \in 0 .. Len(timeouts)
      BY <1>2, TypesSplit, WaitsGrow
    <3> QED
      BY <3>1, WaitsGrow
  <2>3. age'[h] = age[h] + 1
    <3>1. Has(timeouts, h)
      BY DEF Has
    <3> HIDE DEF h
    <3> QED
      BY <1>1, <2>2, <3>1
  <2>4. age[h] + lag[h] = Interval(h) - w + sinceLast + loss[h]
    BY <2>1 DEF Accounted
  <2>5. age[h] \in Nat /\ lag[h] \in Nat /\ loss[h] \in Nat /\ Interval(h) \in Nat /\ sinceLast \in Nat
    <3> HIDE DEF h, w
    <3> QED
      BY <1>2, <2>2, Intervals, Unfold
  <2> HIDE DEF h, w
  <2>6. age'[h] + lag[h] = Interval(h) - w + (sinceLast + 1) + loss[h]
    <3>1. (age[h] + 1) + lag[h] = Interval(h) - w + (sinceLast + 1) + loss[h]
      <4> DEFINE x == age[h]
                 y == lag[h]
                 z == loss[h]
                 i == Interval(h)
      <4>1. /\ x \in Nat /\ y \in Nat /\ z \in Nat /\ i \in Nat /\ w \in Nat /\ sinceLast \in Nat
            /\ x + y = i - w + sinceLast + z
        BY <2>2, <2>4, <2>5
      <4> HIDE DEF x, y, z, i
      <4>2. (x + 1) + y = i - w + (sinceLast + 1) + z
        BY <4>1
      <4> QED
        BY <4>2 DEF x, y, z, i
    <3> QED
      BY <2>3, <3>1
  <2> QED
    BY <2>6 DEF h, w
<1>8. TimeAccounted'
  <2>1. Accounted(timeouts', age', lag', loss', Ran')
    BY <1>1, <1>7 DEF Ran
  <2> QED
    BY <2>1 DEF TimeAccounted, Accounted, WaitOf, Ran
<1> QED
  BY <1>5, <1>6, <1>8 DEF TimersInv

\* tcp_timer_needed arms the TCP timer.
LEMMA ConnectStep ==
  ASSUME TimersInv, Connect
  PROVE  TimersInv'
<1>1. /\ pcbs < MaxPcbs /\ pcbs' = pcbs + 1 /\ sinceLast' = sinceLast
      /\ sinceCheck' = sinceCheck /\ checkAt' = checkAt /\ diff' = diff /\ fired' = fired
  BY DEF Connect
<1>2. TimersTypeOK
  BY DEF TimersInv
<1>3. tcpip_tcp_timer_active' \in BOOLEAN /\ unseen' \in BOOLEAN
  BY <1>2 DEF Connect, StartTcpTimer, TimersTypeOK
<1>4. OtherTypes'
  BY <1>1, <1>2, <1>3, TypesSplit, TimersAssumption DEF OtherTypes, TimersAssumption
<1>5. ClockRight'
  BY <1>1 DEF TimersInv, ClockRight
<1>6. CASE tcpip_tcp_timer_active
  <2>1. UNCHANGED <<timeouts, tcpip_tcp_timer_active, age, lag, loss>>
    BY <1>6 DEF Connect, StartTcpTimer, history
  <2>2. TimersTypeOK'
    BY <1>2, <1>4, <2>1, TypesSplit, TypesSplitNext
  <2>3. TimeAccounted'
    BY <1>1, <2>1, SameAccount DEF TimersInv, Ran
  <2>4. ListedRight'
    BY <1>1, <2>1 DEF TimersInv, ListedRight, TcpCalled
  <2> QED
    BY <1>5, <2>2, <2>3, <2>4 DEF TimersInv
<1>7. CASE ~tcpip_tcp_timer_active
  <2>1. /\ tcpip_tcp_timer_active' = TRUE
        /\ timeouts' = Inserted(timeouts, "tcp", Interval("tcp"))
        /\ Arm("tcp", Ran)
    BY <1>7, Intervals DEF Connect, StartTcpTimer, Ran
  <2>2. ~Has(timeouts, "tcp") /\ ~TcpCalled /\ Ran' = Ran
    BY <1>1, <1>7 DEF TimersInv, ListedRight, Ran
  <2>3. /\ timeouts' \in Lists /\ Distinct(timeouts') /\ Len(timeouts') <= Slots
        /\ \A g \in Handler : Has(timeouts', g) <=> Has(timeouts, g) \/ g = "tcp"
        /\ TimeAccounted'
        /\ age' \in [Handler -> Nat] /\ lag' \in [Handler -> Nat] /\ loss' \in [Handler -> Nat]
    BY <2>1, <2>2, ArmStep, HandlersAre
  <2>4. TimersTypeOK'
    BY <1>4, <2>3, TypesSplitNext
  <2>5. ListedRight'
    BY <1>1, <2>1, <2>2, <2>3, HandlersAre DEF TimersInv, ListedRight, TcpCalled
  <2> QED
    BY <1>5, <2>3, <2>4, <2>5 DEF TimersInv
<1> QED
  BY <1>6, <1>7

\* Disconnect, Check, TcpTimer and TcpDisable leave the list and its account.
LEMMA QuietStep ==
  ASSUME TimersInv, Disconnect \/ Check \/ TcpTimer \/ TcpDisable
  PROVE  TimersInv'
<1>1. TimersTypeOK /\ OtherTypes /\ sinceLast \in Nat /\ diff \in Nat
  BY TypesSplit, Unfold DEF TimersInv
<1>2. UNCHANGED <<timeouts, age, lag, loss>>
  BY DEF Disconnect, Check, TcpTimer, TcpDisable, history, listed
<1>3. OtherTypes'
  <2>1. CASE Disconnect
    BY <1>1, <2>1, TimersAssumption DEF Disconnect, OtherTypes, TimersAssumption
  <2>2. CASE Check
    <3>1. {sinceLast', diff'} \subseteq Nat /\ sinceCheck' \in 0 .. Gap
      BY <1>1, <2>2, TimersAssumption DEF Check, TimersAssumption
    <3> QED
      BY <1>1, <2>2, <3>1 DEF Check, listed, OtherTypes
  <2>3. CASE TcpTimer
    BY <1>1, <2>3, TimersAssumption DEF TcpTimer, OtherTypes, TimersAssumption
  <2>4. CASE TcpDisable
    BY <1>1, <2>4, TimersAssumption DEF TcpDisable, OtherTypes, TimersAssumption
  <2> QED
    BY <2>1, <2>2, <2>3, <2>4
<1>4. TimersTypeOK'
  BY <1>1, <1>2, <1>3, TypesSplit, TypesSplitNext
<1>5. Ran' = Ran
  BY DEF Disconnect, Check, TcpTimer, TcpDisable, Ran, listed
<1>6. TimeAccounted'
  BY <1>2, <1>5, SameAccount DEF TimersInv
<1>7. ClockRight'
  BY DEF TimersInv, ClockRight, Disconnect, Check, TcpTimer, TcpDisable, listed
<1>8. ListedRight'
  <2>1. CASE Disconnect
    BY <1>2, <2>1 DEF TimersInv, ListedRight, TcpCalled, Disconnect
  <2>2. CASE Check
    BY <1>2, <2>2 DEF TimersInv, ListedRight, TcpCalled, Check, listed
  <2>3. CASE TcpTimer
    BY <1>2, <2>3 DEF TimersInv, ListedRight, TcpCalled, TcpTimer
  <2>4. CASE TcpDisable
    BY <1>2, <2>4 DEF TimersInv, ListedRight, TcpCalled, TcpDisable
  <2> QED
    BY <2>1, <2>2, <2>3, <2>4
<1> QED
  BY <1>4, <1>6, <1>7, <1>8 DEF TimersInv

\* sys_check_timeouts takes the head.
LEMMA ExpireStep ==
  ASSUME TimersInv, Expire
  PROVE  TimersInv'
<1>1. /\ checkAt = "loop" /\ timeouts # <<>> /\ timeouts[1][2] <= diff
      /\ timeouts' = Tail(timeouts) /\ checkAt' = timeouts[1][1]
      /\ diff' = diff - timeouts[1][2] /\ sinceLast' = 0 /\ fired' = TRUE
      /\ UNCHANGED <<sinceCheck, tcpip_tcp_timer_active, pcbs, unseen, age, lag, loss>>
  BY DEF Expire, Expired, history
<1>2. /\ timeouts \in Lists /\ Distinct(timeouts) /\ Ran = diff /\ diff \in Nat
      /\ age \in [Handler -> Nat] /\ lag \in [Handler -> Nat] /\ loss \in [Handler -> Nat]
      /\ Accounted(timeouts, age, lag, loss, diff) /\ OtherTypes
  BY <1>1, Unfold, TypesSplit DEF TimersInv, Ran
<1>3. /\ timeouts' \in Lists /\ Distinct(timeouts') /\ Len(timeouts') <= Slots
      /\ \A g \in Handler : Has(timeouts', g) <=> Has(timeouts, g) /\ g # timeouts[1][1]
      /\ Accounted(timeouts', age, lag, loss, diff - timeouts[1][2])
  BY <1>1, <1>2, TailAccounted
<1>4. timeouts[1][1] \in Handler /\ timeouts[1][2] \in Nat /\ Has(timeouts, timeouts[1][1])
  <2>1. 1 \in 1 .. Len(timeouts)
    BY <1>1, <1>2, EmptySeq DEF Lists
  <2> QED
    BY <1>1, <1>2, <2>1, TailWaits DEF Has
<1>5. diff' \in Nat
  BY <1>1, <1>2, <1>4
<1>6. OtherTypes'
  BY <1>1, <1>2, <1>4, <1>5 DEF OtherTypes
<1>7. TimersTypeOK'
  BY <1>1, <1>2, <1>3, <1>6, TypesSplitNext
<1>8. checkAt' # "idle"
  BY <1>1, <1>4 DEF Handler
<1>9. TimeAccounted'
  <2>1. Accounted(timeouts', age', lag', loss', Ran')
    BY <1>1, <1>3, <1>8 DEF Ran
  <2> QED
    BY <2>1 DEF TimeAccounted, Accounted, WaitOf, Ran
<1>10. ListedRight'
  <2>1. \A h \in {"ip_reass", "arp"} : Has(timeouts', h) <=> checkAt' # h
    BY <1>1, <1>3, HandlersAre DEF TimersInv, ListedRight
  <2>2. Has(timeouts, "tcp") <=> tcpip_tcp_timer_active
    BY <1>1 DEF TimersInv, ListedRight, TcpCalled
  <2>3. TcpCalled' <=> timeouts[1][1] = "tcp"
    BY <1>1, <1>4 DEF TcpCalled, Handler
  <2>4. Has(timeouts', "tcp") <=> tcpip_tcp_timer_active' /\ ~TcpCalled'
    BY <1>1, <1>3, <2>2, <2>3, HandlersAre
  <2>5. TcpCalled' => tcpip_tcp_timer_active'
    BY <1>1, <1>4, <2>2, <2>3
  <2> QED
    BY <2>1, <2>4, <2>5 DEF ListedRight
<1>11. ClockRight'
  BY <1>1 DEF ClockRight
<1> QED
  BY <1>7, <1>9, <1>10, <1>11 DEF TimersInv

\* A handler arms its timer again.
LEMMA RearmStep ==
  ASSUME TimersInv, NEW h \in Handler,
         checkAt = IF h = "tcp" THEN "rearm" ELSE h, checkAt' = "loop",
         timeouts' = Inserted(timeouts, h, Interval(h)), Arm(h, diff),
         UNCHANGED <<sinceLast, sinceCheck, tcpip_tcp_timer_active, pcbs, unseen, diff, fired>>
  PROVE  TimersInv'
<1>1. checkAt # "idle" /\ Ran = diff /\ Ran' = diff
  BY DEF Handler, Ran
<1>2. ~Has(timeouts, h)
  BY DEF TimersInv, ListedRight, TcpCalled, Handler
<1>3. /\ timeouts' \in Lists /\ Distinct(timeouts') /\ Len(timeouts') <= Slots
      /\ \A g \in Handler : Has(timeouts', g) <=> Has(timeouts, g) \/ g = h
      /\ TimeAccounted'
      /\ age' \in [Handler -> Nat] /\ lag' \in [Handler -> Nat] /\ loss' \in [Handler -> Nat]
  BY <1>1, <1>2, ArmStep
<1>4. OtherTypes'
  BY TypesSplit DEF TimersInv, OtherTypes
<1>5. TimersTypeOK'
  BY <1>3, <1>4, TypesSplitNext
<1>6. ListedRight'
  <2>1. CASE h = "tcp"
    BY <1>3, <2>1, HandlersAre DEF TimersInv, ListedRight, TcpCalled
  <2>2. CASE h # "tcp"
    BY <1>3, <2>2, HandlersAre DEF TimersInv, ListedRight, TcpCalled, Handler
  <2> QED
    BY <2>1, <2>2
<1>7. ClockRight'
  BY <1>1 DEF TimersInv, ClockRight
<1> QED
  BY <1>3, <1>5, <1>6, <1>7 DEF TimersInv

\* sys_check_timeouts returns.
LEMMA CheckEndsStep ==
  ASSUME TimersInv, CheckEnds
  PROVE  TimersInv'
<1>1. /\ checkAt = "loop" /\ checkAt' = "idle" /\ diff' = 0 /\ fired' = FALSE
      /\ loss' = [h \in Handler |-> IF Has(timeouts, h) /\ fired THEN loss[h] + diff ELSE loss[h]]
      /\ UNCHANGED <<timeouts, tcpip_tcp_timer_active, pcbs, unseen, sinceLast, sinceCheck, age,
                     lag>>
  BY Unfold DEF CheckEnds, listed
<1>2. TimersTypeOK /\ OtherTypes /\ sinceLast = IF fired THEN 0 ELSE diff
  BY <1>1, TypesSplit DEF TimersInv, ClockRight
<1>3. /\ timeouts \in Lists /\ diff \in Nat /\ Accounted(timeouts, age, lag, loss, diff)
      /\ age \in [Handler -> Nat] /\ lag \in [Handler -> Nat] /\ loss \in [Handler -> Nat]
  BY <1>1, Unfold DEF TimersInv, Ran
<1>4. loss' \in [Handler -> Nat]
  BY <1>1, <1>3
<1>5. OtherTypes'
  <2>1. {sinceLast', diff'} \subseteq Nat
    BY <1>1, <1>2 DEF OtherTypes
  <2> QED
    BY <1>1, <1>2, <2>1 DEF OtherTypes
<1>6. TimersTypeOK'
  BY <1>1, <1>2, <1>4, <1>5, TypesSplit, TypesSplitNext
<1>7. Accounted(timeouts, age, lag, loss', sinceLast)
  <2> SUFFICES ASSUME NEW k \in 1 .. Len(timeouts)
               PROVE  age[timeouts[k][1]] + lag[timeouts[k][1]]
                        = Interval(timeouts[k][1]) - Waits(timeouts)[k] + sinceLast
                            + loss'[timeouts[k][1]]
    BY DEF Accounted
  <2> DEFINE h == timeouts[k][1]
             w == Waits(timeouts)[k]
  <2>1. h \in Handler /\ w \in Nat
    <3>1. k \in 0 .. Len(timeouts)
      BY <1>3, WaitsGrow
    <3> QED
      BY <1>3, <3>1, WaitsGrow
  <2>2. Has(timeouts, h)
    BY DEF Has
  <2>3. age[h] + lag[h] = Interval(h) - w + diff + loss[h]
    BY <1>3 DEF Accounted
  <2> HIDE DEF h, w
  <2>4. age[h] \in Nat /\ lag[h] \in Nat /\ loss[h] \in Nat /\ Interval(h) \in Nat
    BY <1>3, <2>1, Intervals
  <2>5. loss'[h] = IF fired THEN loss[h] + diff ELSE loss[h]
    BY <1>1, <2>1, <2>2
  <2>6. age[h] + lag[h] = Interval(h) - w + sinceLast + loss'[h]
    BY <1>2, <1>3, <2>1, <2>3, <2>4, <2>5
  <2> QED
    BY <2>6 DEF h, w
<1>8. TimeAccounted'
  <2>1. Accounted(timeouts', age', lag', loss', Ran')
    BY <1>1, <1>7 DEF Ran
  <2> QED
    BY <2>1 DEF TimeAccounted, Accounted, WaitOf, Ran
<1>9. ListedRight' /\ ClockRight'
  BY <1>1 DEF TimersInv, ListedRight, ClockRight, TcpCalled
<1> QED
  BY <1>6, <1>8, <1>9 DEF TimersInv

\* The list of timeouts holds every armed timer once, in the order in which
\* they are due, for any intervals and any clock (timers.c:218).
THEOREM TimersInvariant == TimersSpec => []TimersInv
<1>1. TimersInv /\ [TimersNext]_timersVars => TimersInv'
  <2> SUFFICES ASSUME TimersInv, [TimersNext]_timersVars PROVE TimersInv'
    OBVIOUS
  <2>1. ASSUME NEW h \in {"ip_reass", "arp"}, Periodic(h)
        PROVE  TimersInv'
    BY <2>1, RearmStep, HandlersAre DEF Periodic
  <2>2. CASE TcpRearm
    <3>1. timeouts' = Inserted(timeouts, "tcp", Interval("tcp"))
      BY <2>2, Intervals DEF TcpRearm
    <3> QED
      BY <2>2, <3>1, RearmStep, HandlersAre DEF TcpRearm
  <2>3. CASE UNCHANGED timersVars
    <3>1. UNCHANGED <<timeouts, age, lag, loss>> /\ Ran' = Ran
      BY <2>3 DEF timersVars, Ran
    <3>2. TimeAccounted'
      BY <3>1, SameAccount DEF TimersInv
    <3> QED
      BY <2>3, <3>2 DEF timersVars, TimersInv, TimersTypeOK, ListedRight, ClockRight, TcpCalled
  <2> QED
    BY <2>1, <2>2, <2>3, TickStep, ConnectStep, QuietStep, ExpireStep, CheckEndsStep
       DEF TimersNext, CheckStep
<1> QED
  BY <1>1, FirstTimers, PTL DEF TimersSpec

\* No timer's time is lost or counted twice by the differences that the list
\* holds, whoever else is inserted before it (timers.c:230).
THEOREM TimesAreAccounted == TimersSpec => [](TimersTypeOK /\ TimeAccounted)
<1>1. TimersInv => TimersTypeOK /\ TimeAccounted
  BY DEF TimersInv
<1> QED
  BY <1>1, TimersInvariant, PTL

\* A step keeps the TCP timer needed, unless a connection was not seen.
LEMMA TcpNeededStep ==
  ASSUME TimersInv, TcpNeeded, [TimersNext]_timersVars
  PROVE  TcpNeeded'
<1>1. CASE Tick \/ UNCHANGED timersVars
  BY <1>1 DEF Tick, listed, timersVars, TcpNeeded
<1>2. CASE Connect
  <2>1. tcpip_tcp_timer_active' = TRUE
    BY <1>2, TypesSplit DEF Connect, StartTcpTimer, TimersInv, OtherTypes
  <2>2. checkAt' = "disable" => unseen'
    BY <1>2 DEF Connect
  <2> QED
    BY <2>1, <2>2 DEF TcpNeeded
<1>3. CASE Disconnect \/ Check
  BY <1>3, TypesSplit DEF Disconnect, Check, listed, TcpNeeded, TimersInv, OtherTypes
<1>4. CASE Expire
  <2>1. timeouts \in Lists /\ timeouts # <<>>
    BY <1>4, Unfold DEF TimersInv, Expire, Expired
  <2>2. timeouts[1][1] # "disable"
    BY <2>1, TailWaits DEF Handler
  <2> QED
    BY <1>4, <2>2 DEF Expire, TcpNeeded
<1>5. ASSUME NEW h \in {"ip_reass", "arp"}, Periodic(h)
      PROVE  TcpNeeded'
  BY <1>5 DEF Periodic, TcpNeeded
<1>6. CASE TcpTimer
  BY <1>6, TypesSplit DEF TcpTimer, TcpNeeded, TimersInv, OtherTypes, ListedRight, TcpCalled
<1>7. CASE TcpRearm \/ CheckEnds
  BY <1>7 DEF TcpRearm, CheckEnds, listed, TcpNeeded
<1>8. CASE TcpDisable
  BY <1>8 DEF TcpDisable, TcpNeeded
<1> QED
  BY <1>1, <1>2, <1>3, <1>4, <1>5, <1>6, <1>7, <1>8 DEF TimersNext, CheckStep

\* The TCP timer is armed as long as there is a connection, and every timer is
\* due in its own time, whoever opens one in the middle of a check; but for one
\* opened between the test and the clear of tcpip_tcp_timer (timers.c:86).
THEOREM TimersAreSound == TimersSpec => []TimersSound
<1>1. TimersInit => TcpNeeded
  BY DEF TimersInit, TcpNeeded
<1>2. TimersInv /\ TcpNeeded /\ [TimersNext]_timersVars => TcpNeeded'
  BY TcpNeededStep
<1>3. TimersInv /\ TcpNeeded => TimersSound
  <2> SUFFICES ASSUME TimersInv, TcpNeeded PROVE TimersSound
    OBVIOUS
  <2>1. pcbs \in Nat
    BY TypesSplit, TimersAssumption DEF TimersInv, OtherTypes, TimersAssumption
  <2>2. TcpTimerArmed
    BY <2>1, Unfold DEF TcpTimerArmed, TcpNeeded, TimersInv, ListedRight, TcpCalled
  <2> QED
    BY <2>2 DEF TimersInv, TimersSound
<1> QED
  BY <1>1, <1>2, <1>3, TimersInvariant, PTL DEF TimersSpec

-----------------------------------------------------------------------------
(* Reassembly.                                                             *)

\* Two lists in a row.
LEMMA Joined ==
  ASSUME NEW S, NEW s \in Seq(S), NEW t \in Seq(S)
  PROVE  /\ s \o t \in Seq(S) /\ Len(s \o t) = Len(s) + Len(t)
         /\ \A i \in 1 .. Len(s) : (s \o t)[i] = s[i]
         /\ \A i \in 1 .. Len(t) : (s \o t)[Len(s) + i] = t[i]
         /\ Len(s) \in Nat /\ Len(t) \in Nat
OBVIOUS

\* Lists with the same elements.
LEMMA SameList ==
  ASSUME NEW S, NEW s \in Seq(S), NEW t \in Seq(S), Len(s) = Len(t),
         \A i \in 1 .. Len(s) : s[i] = t[i]
  PROVE  s = t
BY SeqEqual

\* The first k elements of a list and the others.
LEMMA CutAt ==
  ASSUME NEW S, NEW q \in Seq(S), NEW k \in 0 .. Len(q)
  PROVE  /\ SubSeq(q, 1, k) \in Seq(S) /\ Len(SubSeq(q, 1, k)) = k
         /\ \A i \in 1 .. k : SubSeq(q, 1, k)[i] = q[i]
         /\ SubSeq(q, k + 1, Len(q)) \in Seq(S) /\ Len(SubSeq(q, k + 1, Len(q))) = Len(q) - k
         /\ \A i \in 1 .. Len(q) - k : SubSeq(q, k + 1, Len(q))[i] = q[k + i]
OBVIOUS

\* The two make the list.
LEMMA CutsJoin ==
  ASSUME NEW S, NEW q \in Seq(S), NEW k \in 0 .. Len(q)
  PROVE  SubSeq(q, 1, k) \o SubSeq(q, k + 1, Len(q)) = q
<1> DEFINE s == SubSeq(q, 1, k)
           t == SubSeq(q, k + 1, Len(q))
<1>1. /\ s \in Seq(S) /\ Len(s) = k /\ t \in Seq(S) /\ Len(t) = Len(q) - k
      /\ \A i \in 1 .. k : s[i] = q[i]
      /\ \A i \in 1 .. Len(q) - k : t[i] = q[k + i]
  BY CutAt
<1> HIDE DEF s, t
<1>2. /\ s \o t \in Seq(S) /\ Len(s \o t) = k + (Len(q) - k)
      /\ \A i \in 1 .. k : (s \o t)[i] = s[i]
      /\ \A i \in 1 .. Len(t) : (s \o t)[k + i] = t[i]
  <2>1. s \in Seq(S) /\ t \in Seq(S)
    BY <1>1, Zenon
  <2>2. /\ s \o t \in Seq(S) /\ Len(s \o t) = Len(s) + Len(t)
        /\ \A i \in 1 .. Len(s) : (s \o t)[i] = s[i]
        /\ \A i \in 1 .. Len(t) : (s \o t)[Len(s) + i] = t[i]
    BY <2>1, Joined
  <2> QED
    BY <1>1, <2>2, Zenon
<1>3. Len(s \o t) = Len(q)
  BY <1>1, <1>2
<1>4. ASSUME NEW i \in 1 .. Len(q)
      PROVE  (s \o t)[i] = q[i]
  <2>1. CASE i <= k
    BY <1>1, <1>2, <2>1
  <2>2. CASE ~(i <= k)
    <3>1. i - k \in 1 .. Len(q) - k /\ k + (i - k) = i
      BY <2>2
    <3>2. (s \o t)[k + (i - k)] = t[i - k] /\ t[i - k] = q[k + (i - k)]
      BY <1>1, <1>2, <3>1, Zenon
    <3> QED
      BY <3>1, <3>2, Zenon
  <2> QED
    BY <2>1, <2>2
<1>5. s \o t = q
  BY <1>2, <1>3, <1>4, SameList
<1> QED
  BY <1>5 DEF s, t

-----------------------------------------------------------------------------
(* Sums of lists.                                                          *)

\* sum[k] is the sum of the first k elements of v.
Sums(v, sum) ==
  /\ sum \in [0 .. Len(v) -> Nat] /\ sum[0] = 0
  /\ \A k \in 1 .. Len(v) : sum[k] = sum[k - 1] + v[k]

\* What Total computes.
LEMMA TotalIs ==
  ASSUME NEW v \in Seq(Nat)
  PROVE  \E sum : Sums(v, sum) /\ Total(v) = sum[Len(v)]
<1> DEFINE n == Len(v)
           val == [k \in 1 .. n |-> v[k]]
           Is(w) == w = [k \in 0 .. n |-> IF k = 0 THEN 0 ELSE w[k - 1] + v[k]]
           sum == CHOOSE w : Is(w)
<1>1. n \in Nat /\ \A k \in 1 .. n : v[k] \in Nat
  OBVIOUS
<1>2. val \in [1 .. n -> Nat]
  BY <1>1
<1>3. PICK w \in [0 .. n -> Nat] :
        w[0] = 0 /\ \A k \in 1 .. n : w[k] = w[k - 1] + val[k]
  <2> HIDE DEF n, val
  <2> QED
    BY <1>1, <1>2, SumsExist
<1>4. Is(w)
  BY <1>1, <1>3
<1>5. Is(sum)
  <2> HIDE DEF Is
  <2> QED
    BY <1>4, Zenon
<1>6. Total(v) = sum[Len(v)]
  BY Zenon DEF Total
<1>7. sum = [k \in 0 .. n |-> IF k = 0 THEN 0 ELSE sum[k - 1] + v[k]]
  BY <1>5
<1> HIDE DEF sum
<1>8. sum[0] = 0 /\ \A k \in 1 .. n : sum[k] = sum[k - 1] + v[k]
  BY <1>1, <1>7
<1> DEFINE T == {k \in 0 .. n : sum[k] \in Nat}
<1>9. \A k \in 0 .. n : k \in T
  <2>1. 0 \in T
    BY <1>1, <1>8
  <2>2. ASSUME NEW k \in 1 .. n, k - 1 \in T
        PROVE  k \in T
    BY <1>1, <1>8, <2>2
  <2> HIDE DEF T, n
  <2> QED
    BY <1>1, <2>1, <2>2, Reaches
<1>10. sum \in [0 .. n -> Nat]
  BY <1>7, <1>9
<1> QED
  BY <1>6, <1>8, <1>10, Zenon DEF Sums

\* The sum of two lists in a row.
LEMMA TotalJoined ==
  ASSUME NEW s \in Seq(Nat), NEW t \in Seq(Nat)
  PROVE  Total(s \o t) = Total(s) + Total(t) /\ Total(s) \in Nat /\ Total(t) \in Nat
<1> DEFINE q == s \o t
           m == Len(s)
           n == Len(t)
<1>1. /\ q \in Seq(Nat) /\ Len(q) = m + n /\ m \in Nat /\ n \in Nat
      /\ \A i \in 1 .. m : q[i] = s[i]
      /\ \A i \in 1 .. n : q[m + i] = t[i]
  BY Joined
<1> HIDE DEF q
<1>2. PICK a : Sums(s, a) /\ Total(s) = a[m]
  BY TotalIs
<1>3. PICK b : Sums(t, b) /\ Total(t) = b[n]
  BY TotalIs
<1>4. PICK c : Sums(q, c) /\ Total(q) = c[Len(q)]
  BY <1>1, TotalIs
<1>5. /\ a \in [0 .. m -> Nat] /\ a[0] = 0
      /\ \A k \in 1 .. m : a[k] = a[k - 1] + s[k]
  BY <1>2, Zenon DEF Sums
<1>6. /\ b \in [0 .. n -> Nat] /\ b[0] = 0
      /\ \A k \in 1 .. n : b[k] = b[k - 1] + t[k]
  BY <1>3, Zenon DEF Sums
<1>7. /\ c \in [0 .. m + n -> Nat] /\ c[0] = 0
      /\ \A k \in 1 .. m + n : c[k] = c[k - 1] + q[k]
  BY <1>1, <1>4, Zenon DEF Sums
<1> HIDE DEF m, n
<1> DEFINE T == {k \in 0 .. m : c[k] = a[k]}
           U == {k \in 0 .. n : c[m + k] = a[m] + b[k]}
<1>8. \A k \in 0 .. m : k \in T
  <2>1. 0 \in T
    BY <1>1, <1>5, <1>7
  <2>2. ASSUME NEW k \in 1 .. m, k - 1 \in T
        PROVE  k \in T
    <3>1. k \in 1 .. m + n /\ q[k] = s[k] /\ c[k - 1] = a[k - 1] /\ k \in 0 .. m
      BY <1>1, <2>2
    <3>2. c[k] = a[k]
      BY <1>5, <1>7, <3>1, Zenon
    <3> QED
      BY <3>1, <3>2
  <2> HIDE DEF T
  <2> QED
    BY <1>1, <2>1, <2>2, Reaches
<1>9. \A k \in 0 .. n : k \in U
  <2>1. 0 \in U
    <3>1. m \in 0 .. m /\ m + 0 = m /\ 0 \in 0 .. n
      BY <1>1
    <3>2. c[m] = a[m] /\ a[m] \in Nat
      BY <1>5, <1>8, <3>1
    <3> QED
      BY <1>6, <3>1, <3>2
  <2>2. ASSUME NEW k \in 1 .. n, k - 1 \in U
        PROVE  k \in U
    <3>1. /\ m + k \in 1 .. m + n /\ (m + k) - 1 = m + (k - 1) /\ k \in 0 .. n
          /\ k - 1 \in 0 .. n /\ m \in 0 .. m
      BY <1>1
    <3>2. c[m + k] = c[m + (k - 1)] + t[k]
      BY <1>1, <1>7, <3>1, Zenon
    <3>3. c[m + (k - 1)] = a[m] + b[k - 1]
      BY <2>2
    <3>4. a[m] \in Nat /\ b[k - 1] \in Nat /\ b[k] \in Nat
      BY <1>5, <1>6, <3>1, Zenon
    <3>5. t[k] \in Nat
      BY ElementOfSeq DEF n
    <3> DEFINE x == t[k]
               y == b[k - 1]
               z == a[m]
    <3>6. b[k] = y + x
      BY <1>6, Zenon
    <3> HIDE DEF x, y, z
    <3>7. c[m + k] = (z + y) + x
      BY <3>2, <3>3, Zenon DEF x, y, z
    <3>8. (z + y) + x = z + (y + x)
      BY <3>4, <3>5 DEF x, y, z
    <3>9. c[m + k] = a[m] + b[k]
      BY <3>6, <3>7, <3>8, Zenon DEF z
    <3> QED
      BY <3>1, <3>9
  <2> HIDE DEF U
  <2> QED
    BY <1>1, <2>1, <2>2, Reaches
<1>10. c[m + n] = a[m] + b[n]
  BY <1>1, <1>9
<1>11. a[m] \in Nat /\ b[n] \in Nat
  BY <1>1, <1>5, <1>6
<1>12. Total(q) = Total(s) + Total(t)
  BY <1>1, <1>2, <1>3, <1>4, <1>10, Zenon
<1> QED
  BY <1>2, <1>3, <1>11, <1>12, Zenon DEF q

\* Of a single number, and of none.
LEMMA TotalOfOne ==
  ASSUME NEW x \in Nat
  PROVE  Total(<<x>>) = x
<1> DEFINE v == <<x>>
<1>1. v \in Seq(Nat) /\ Len(v) = 1 /\ v[1] = x
  OBVIOUS
<1> HIDE DEF v
<1>2. PICK a : Sums(v, a) /\ Total(v) = a[Len(v)]
  BY <1>1, TotalIs
<1>3. a[0] = 0 /\ a[1] = a[1 - 1] + v[1]
  BY <1>1, <1>2 DEF Sums
<1>4. Total(v) = x
  BY <1>1, <1>2, <1>3
<1> QED
  BY <1>4 DEF v

LEMMA TotalOfNone == Total(<<>>) = 0
<1> DEFINE v == <<>>
<1>1. v \in Seq(Nat) /\ Len(v) = 0
  OBVIOUS
<1> HIDE DEF v
<1>2. PICK a : Sums(v, a) /\ Total(v) = a[Len(v)]
  BY <1>1, TotalIs
<1>3. Total(v) = 0
  BY <1>1, <1>2 DEF Sums
<1> QED
  BY <1>3 DEF v

-----------------------------------------------------------------------------
(* Fragments, and the pbufs of them.                                       *)

\* An entry of the list.
DataEntry == [id : Datagram, timer : 0 .. IP_REASS_MAXAGE, p : Seq(Fragment), last : BOOLEAN]

\* The pbufs of each fragment, and of each entry.
Clens(p) == [i \in DOMAIN p |-> Clen(p[i])]
Loads(list) == [i \in DOMAIN list |-> Pbufs_of(list[i].p)]

\* The types of the fields.
LEMMA FragmentFields ==
  ASSUME NEW f \in Fragment
  PROVE  /\ f.start \in Nat /\ f.end \in Nat /\ f.start < f.end
         /\ Clen(f) \in Nat /\ Clen(f) >= 1
BY IpReassAssumption DEF Fragment, Clen, IpReassAssumption

LEMMA EntryFields ==
  ASSUME NEW r \in DataEntry
  PROVE  /\ r.id \in Datagram /\ r.timer \in 0 .. IP_REASS_MAXAGE
         /\ r.p \in Seq(Fragment) /\ r.last \in BOOLEAN
BY DEF DataEntry

\* Pbufs_of adds up a list of numbers.
LEMMA ClensAre ==
  ASSUME NEW p \in Seq(Fragment)
  PROVE  /\ Clens(p) \in Seq(Nat) /\ Len(Clens(p)) = Len(p)
         /\ \A i \in 1 .. Len(p) : Clens(p)[i] = Clen(p[i]) /\ Clen(p[i]) \in Nat
         /\ Pbufs_of(p) = Total(Clens(p))
<1>1. \A i \in 1 .. Len(p) : Clen(p[i]) \in Nat
  <2>1. ASSUME NEW i \in 1 .. Len(p) PROVE Clen(p[i]) \in Nat
    <3>1. p[i] \in Fragment
      OBVIOUS
    <3> QED
      BY <3>1, FragmentFields
  <2> QED
    BY <2>1
<1>2. DOMAIN p = 1 .. Len(p) /\ Len(p) \in Nat
  OBVIOUS
<1>3. Clens(p) = [i \in 1 .. Len(p) |-> Clen(p[i])]
  BY <1>2 DEF Clens
<1>4. Pbufs_of(p) = Total(Clens(p))
  BY Zenon DEF Pbufs_of, Clens
<1> QED
  BY <1>1, <1>2, <1>3, <1>4

\* The pbufs of two chains in a row.
LEMMA PbufsOfJoined ==
  ASSUME NEW p \in Seq(Fragment), NEW t \in Seq(Fragment)
  PROVE  Pbufs_of(p \o t) = Pbufs_of(p) + Pbufs_of(t) /\ Pbufs_of(p) \in Nat /\ Pbufs_of(t) \in Nat
<1> DEFINE q == p \o t
           a == Clens(p)
           b == Clens(t)
           c == Clens(q)
<1>1. /\ q \in Seq(Fragment) /\ Len(q) = Len(p) + Len(t) /\ Len(p) \in Nat /\ Len(t) \in Nat
      /\ \A i \in 1 .. Len(p) : q[i] = p[i]
      /\ \A i \in 1 .. Len(t) : q[Len(p) + i] = t[i]
  BY Joined
<1> HIDE DEF q
<1>2. /\ a \in Seq(Nat) /\ Len(a) = Len(p) /\ Pbufs_of(p) = Total(a)
      /\ \A i \in 1 .. Len(p) : a[i] = Clen(p[i])
  BY ClensAre
<1>3. /\ b \in Seq(Nat) /\ Len(b) = Len(t) /\ Pbufs_of(t) = Total(b)
      /\ \A i \in 1 .. Len(t) : b[i] = Clen(t[i])
  BY ClensAre
<1>4. /\ c \in Seq(Nat) /\ Len(c) = Len(q) /\ Pbufs_of(q) = Total(c)
      /\ \A i \in 1 .. Len(q) : c[i] = Clen(q[i])
  BY <1>1, ClensAre
<1> HIDE DEF a, b, c
<1>5. /\ a \o b \in Seq(Nat) /\ Len(a \o b) = Len(p) + Len(t)
      /\ \A i \in 1 .. Len(p) : (a \o b)[i] = a[i]
      /\ \A i \in 1 .. Len(t) : (a \o b)[Len(p) + i] = b[i]
  <2>1. a \in Seq(Nat) /\ b \in Seq(Nat)
    BY <1>2, <1>3, Zenon
  <2>2. /\ a \o b \in Seq(Nat) /\ Len(a \o b) = Len(a) + Len(b)
        /\ \A i \in 1 .. Len(a) : (a \o b)[i] = a[i]
        /\ \A i \in 1 .. Len(b) : (a \o b)[Len(a) + i] = b[i]
    BY <2>1, Joined
  <2> QED
    BY <1>2, <1>3, <2>2, Zenon
<1>6. ASSUME NEW i \in 1 .. Len(q) PROVE c[i] = (a \o b)[i]
  <2>1. CASE i <= Len(p)
    <3>1. i \in 1 .. Len(p)
      BY <1>1, <2>1
    <3> QED
      BY <1>1, <1>2, <1>4, <1>5, <3>1, Zenon
  <2>2. CASE ~(i <= Len(p))
    <3>1. i - Len(p) \in 1 .. Len(t) /\ Len(p) + (i - Len(p)) = i
      BY <1>1, <2>2
    <3>2. q[i] = t[i - Len(p)] /\ (a \o b)[i] = b[i - Len(p)]
      BY <1>1, <1>5, <3>1, Zenon
    <3> QED
      BY <1>3, <1>4, <3>1, <3>2, Zenon
  <2> QED
    BY <2>1, <2>2, Zenon
<1>7. c = a \o b
  <2>1. c \in Seq(Nat) /\ a \o b \in Seq(Nat) /\ Len(c) = Len(a \o b) /\ Len(c) = Len(q)
    BY <1>1, <1>4, <1>5, Zenon
  <2> QED
    BY <1>6, <2>1, SameList
<1>8. Total(a \o b) = Total(a) + Total(b) /\ Total(a) \in Nat /\ Total(b) \in Nat
  BY <1>2, <1>3, TotalJoined
<1> QED
  BY <1>2, <1>3, <1>4, <1>7, <1>8, Zenon DEF q

\* Of a single fragment.
LEMMA PbufsOfOne ==
  ASSUME NEW f \in Fragment
  PROVE  Pbufs_of(<<f>>) = Clen(f)
<1>1. Clens(<<f>>) = <<Clen(f)>>
  BY DEF Clens
<1>2. Total(<<Clen(f)>>) = Clen(f)
  BY FragmentFields, TotalOfOne
<1> QED
  BY <1>1, <1>2, Zenon DEF Pbufs_of, Clens

\* A chain with a fragment has a pbuf.
LEMMA PbufsOfSome ==
  ASSUME NEW p \in Seq(Fragment), p # <<>>
  PROVE  Pbufs_of(p) \in Nat /\ Pbufs_of(p) >= 1
<1> DEFINE s == SubSeq(p, 1, 1)
           t == SubSeq(p, 2, Len(p))
<1>1. 1 \in 0 .. Len(p) /\ 1 + 1 = 2 /\ p[1] \in Fragment
  OBVIOUS
<1>2. s \in Seq(Fragment) /\ t \in Seq(Fragment) /\ s \o t = p
  BY <1>1, CutAt, CutsJoin
<1>3. s = <<p[1]>>
  <2>1. s \in Seq(Fragment) /\ Len(s) = 1 /\ s[1] = p[1]
    BY <1>1, CutAt
  <2> DEFINE o == <<p[1]>>
  <2>2. o \in Seq(Fragment) /\ Len(o) = 1 /\ o[1] = p[1]
    BY <1>1
  <2> HIDE DEF s, o
  <2>3. s = o
    BY <2>1, <2>2, SameList
  <2> QED
    BY <2>3 DEF o
<1>4. Pbufs_of(s) = Clen(p[1]) /\ Clen(p[1]) \in Nat /\ Clen(p[1]) >= 1
  BY <1>1, <1>3, PbufsOfOne, FragmentFields
<1> HIDE DEF s, t
<1>5. Pbufs_of(s \o t) = Pbufs_of(s) + Pbufs_of(t) /\ Pbufs_of(t) \in Nat
  BY <1>2, PbufsOfJoined
<1> DEFINE a == Pbufs_of(s)
           b == Pbufs_of(t)
<1>6. Pbufs_of(p) = a + b /\ a \in Nat /\ a >= 1 /\ b \in Nat
  BY <1>2, <1>4, <1>5, Zenon
<1> HIDE DEF a, b
<1>7. a + b \in Nat /\ a + b >= 1
  BY <1>6
<1> QED
  BY <1>6, <1>7, Zenon

\* An empty one has none.
LEMMA PbufsOfNone == Pbufs_of(<<>>) = 0
<1>1. Clens(<<>>) = <<>>
  BY DEF Clens
<1> QED
  BY <1>1, TotalOfNone, Zenon DEF Pbufs_of, Clens

-----------------------------------------------------------------------------
(* The pbufs on a list of datagrams.                                       *)

\* A number for every entry.
LEMMA LoadOf ==
  ASSUME NEW r \in DataEntry
  PROVE  Pbufs_of(r.p) \in Nat
<1>1. r.p \in Seq(Fragment)
  BY EntryFields
<1> QED
  BY <1>1, PbufsOfJoined

\* PbufsQueued adds up a list of numbers.
LEMMA LoadsAre ==
  ASSUME NEW list \in Seq(DataEntry)
  PROVE  /\ Loads(list) \in Seq(Nat) /\ Len(Loads(list)) = Len(list)
         /\ \A i \in 1 .. Len(list) : Loads(list)[i] = Pbufs_of(list[i].p)
         /\ PbufsQueued(list) = Total(Loads(list))
<1>1. \A i \in 1 .. Len(list) : Pbufs_of(list[i].p) \in Nat
  <2>1. ASSUME NEW i \in 1 .. Len(list) PROVE Pbufs_of(list[i].p) \in Nat
    <3>1. list[i] \in DataEntry
      OBVIOUS
    <3> QED
      BY <3>1, LoadOf
  <2> QED
    BY <2>1
<1>2. DOMAIN list = 1 .. Len(list) /\ Len(list) \in Nat
  OBVIOUS
<1>3. Loads(list) = [i \in 1 .. Len(list) |-> Pbufs_of(list[i].p)]
  BY <1>2 DEF Loads
<1>4. PbufsQueued(list) = Total(Loads(list))
  BY Zenon DEF PbufsQueued, Loads
<1> QED
  BY <1>1, <1>2, <1>3, <1>4

\* The pbufs of two lists in a row.
LEMMA QueuedJoined ==
  ASSUME NEW p \in Seq(DataEntry), NEW t \in Seq(DataEntry)
  PROVE  /\ PbufsQueued(p \o t) = PbufsQueued(p) + PbufsQueued(t)
         /\ PbufsQueued(p) \in Nat /\ PbufsQueued(t) \in Nat
<1> DEFINE q == p \o t
           a == Loads(p)
           b == Loads(t)
           c == Loads(q)
<1>1. /\ q \in Seq(DataEntry) /\ Len(q) = Len(p) + Len(t) /\ Len(p) \in Nat /\ Len(t) \in Nat
      /\ \A i \in 1 .. Len(p) : q[i] = p[i]
      /\ \A i \in 1 .. Len(t) : q[Len(p) + i] = t[i]
  BY Joined
<1> HIDE DEF q
<1>2. /\ a \in Seq(Nat) /\ Len(a) = Len(p) /\ PbufsQueued(p) = Total(a)
      /\ \A i \in 1 .. Len(p) : a[i] = Pbufs_of(p[i].p)
  BY LoadsAre
<1>3. /\ b \in Seq(Nat) /\ Len(b) = Len(t) /\ PbufsQueued(t) = Total(b)
      /\ \A i \in 1 .. Len(t) : b[i] = Pbufs_of(t[i].p)
  BY LoadsAre
<1>4. /\ c \in Seq(Nat) /\ Len(c) = Len(q) /\ PbufsQueued(q) = Total(c)
      /\ \A i \in 1 .. Len(q) : c[i] = Pbufs_of(q[i].p)
  BY <1>1, LoadsAre
<1> HIDE DEF a, b, c
<1>5. /\ a \o b \in Seq(Nat) /\ Len(a \o b) = Len(p) + Len(t)
      /\ \A i \in 1 .. Len(p) : (a \o b)[i] = a[i]
      /\ \A i \in 1 .. Len(t) : (a \o b)[Len(p) + i] = b[i]
  <2>1. a \in Seq(Nat) /\ b \in Seq(Nat)
    BY <1>2, <1>3, Zenon
  <2>2. /\ a \o b \in Seq(Nat) /\ Len(a \o b) = Len(a) + Len(b)
        /\ \A i \in 1 .. Len(a) : (a \o b)[i] = a[i]
        /\ \A i \in 1 .. Len(b) : (a \o b)[Len(a) + i] = b[i]
    BY <2>1, Joined
  <2> QED
    BY <1>2, <1>3, <2>2, Zenon
<1>6. ASSUME NEW i \in 1 .. Len(q) PROVE c[i] = (a \o b)[i]
  <2>1. CASE i <= Len(p)
    <3>1. i \in 1 .. Len(p)
      BY <1>1, <2>1
    <3> QED
      BY <1>1, <1>2, <1>4, <1>5, <3>1, Zenon
  <2>2. CASE ~(i <= Len(p))
    <3>1. i - Len(p) \in 1 .. Len(t) /\ Len(p) + (i - Len(p)) = i
      BY <1>1, <2>2
    <3>2. q[i] = t[i - Len(p)] /\ (a \o b)[i] = b[i - Len(p)]
      BY <1>1, <1>5, <3>1, Zenon
    <3> QED
      BY <1>3, <1>4, <3>1, <3>2, Zenon
  <2> QED
    BY <2>1, <2>2, Zenon
<1>7. c = a \o b
  <2>1. c \in Seq(Nat) /\ a \o b \in Seq(Nat) /\ Len(c) = Len(a \o b) /\ Len(c) = Len(q)
    BY <1>1, <1>4, <1>5, Zenon
  <2> QED
    BY <1>6, <2>1, SameList
<1>8. Total(a \o b) = Total(a) + Total(b) /\ Total(a) \in Nat /\ Total(b) \in Nat
  BY <1>2, <1>3, TotalJoined
<1> QED
  BY <1>2, <1>3, <1>4, <1>7, <1>8, Zenon DEF q

\* Of a single entry, and of none.
LEMMA QueuedOfOne ==
  ASSUME NEW r \in DataEntry
  PROVE  PbufsQueued(<<r>>) = Pbufs_of(r.p)
<1>1. Loads(<<r>>) = <<Pbufs_of(r.p)>>
  BY DEF Loads
<1>2. Total(<<Pbufs_of(r.p)>>) = Pbufs_of(r.p)
  BY LoadOf, TotalOfOne
<1> QED
  BY <1>1, <1>2, Zenon DEF PbufsQueued, Loads

LEMMA QueuedOfNone == PbufsQueued(<<>>) = 0
<1>1. Loads(<<>>) = <<>>
  BY DEF Loads
<1> QED
  BY <1>1, TotalOfNone, Zenon DEF PbufsQueued, Loads

-----------------------------------------------------------------------------
(* An entry taken out of the list, or changed.                             *)

\* What Without computes.
LEMMA WithoutIs ==
  ASSUME NEW S, NEW list \in Seq(S), NEW i \in 1 .. Len(list)
  PROVE  /\ Without(list, i) \in Seq(S) /\ Len(Without(list, i)) = Len(list) - 1
         /\ \A k \in 1 .. Len(list) - 1 :
              Without(list, i)[k] = IF k < i THEN list[k] ELSE list[k + 1]
         /\ Len(list) \in Nat
<1> DEFINE s == SubSeq(list, 1, i - 1)
           t == SubSeq(list, i + 1, Len(list))
<1>1. i - 1 \in 0 .. Len(list) /\ i \in 0 .. Len(list) /\ Len(list) \in Nat
  OBVIOUS
<1>2. /\ s \in Seq(S) /\ Len(s) = i - 1
      /\ \A k \in 1 .. i - 1 : s[k] = list[k]
  BY <1>1, CutAt
<1>3. /\ t \in Seq(S) /\ Len(t) = Len(list) - i
      /\ \A k \in 1 .. Len(list) - i : t[k] = list[i + k]
  BY <1>1, CutAt
<1>4. Without(list, i) = s \o t
  BY Zenon DEF Without
<1> HIDE DEF s, t
<1>5. /\ s \o t \in Seq(S) /\ Len(s \o t) = Len(s) + Len(t)
      /\ \A k \in 1 .. Len(s) : (s \o t)[k] = s[k]
      /\ \A k \in 1 .. Len(t) : (s \o t)[Len(s) + k] = t[k]
  <2>1. s \in Seq(S) /\ t \in Seq(S)
    BY <1>2, <1>3, Zenon
  <2> QED
    BY <2>1, Joined
<1>6. Len(s \o t) = Len(list) - 1
  BY <1>1, <1>2, <1>3, <1>5
<1>7. ASSUME NEW k \in 1 .. Len(list) - 1
      PROVE  (s \o t)[k] = IF k < i THEN list[k] ELSE list[k + 1]
  <2>1. CASE k < i
    <3>1. k \in 1 .. i - 1
      BY <1>1, <2>1
    <3> QED
      BY <1>2, <1>5, <2>1, <3>1, Zenon
  <2>2. CASE ~(k < i)
    <3>1. k - (i - 1) \in 1 .. Len(list) - i /\ (i - 1) + (k - (i - 1)) = k
          /\ i + (k - (i - 1)) = k + 1
      BY <1>1, <2>2
    <3>2. t[k - (i - 1)] = list[k + 1]
      BY <1>3, <3>1, Zenon
    <3>3. (s \o t)[(i - 1) + (k - (i - 1))] = t[k - (i - 1)]
      <4> DEFINE m == k - (i - 1)
      <4>1. m \in 1 .. Len(t)
        BY <1>3, <3>1, Zenon
      <4> HIDE DEF m
      <4>2. (s \o t)[Len(s) + m] = t[m]
        BY <1>5, <4>1, Zenon
      <4>3. (s \o t)[(i - 1) + m] = t[m]
        BY <1>2, <4>2, Zenon
      <4> QED
        BY <4>3, Zenon DEF m
    <3>4. (s \o t)[k] = list[k + 1]
      BY <3>1, <3>2, <3>3, Zenon
    <3> QED
      BY <2>2, <3>4, Zenon
  <2> QED
    BY <2>1, <2>2, Zenon
<1> QED
  BY <1>1, <1>4, <1>5, <1>6, <1>7, Zenon

\* A list whose i-th entry is r and whose others are those of list.
LEMMA QueuedAround ==
  ASSUME NEW list \in Seq(DataEntry), NEW i \in 1 .. Len(list), NEW r \in DataEntry
  PROVE  /\ [list EXCEPT ![i] = r] \in Seq(DataEntry)
         /\ PbufsQueued([list EXCEPT ![i] = r]) = PbufsQueued(Without(list, i)) + Pbufs_of(r.p)
         /\ PbufsQueued(Without(list, i)) \in Nat /\ Pbufs_of(r.p) \in Nat
<1> DEFINE s == SubSeq(list, 1, i - 1)
           t == SubSeq(list, i + 1, Len(list))
           o == <<r>>
           new == [list EXCEPT ![i] = r]
<1>1. i - 1 \in 0 .. Len(list) /\ i \in 0 .. Len(list) /\ Len(list) \in Nat
  OBVIOUS
<1>2. /\ s \in Seq(DataEntry) /\ Len(s) = i - 1
      /\ \A k \in 1 .. i - 1 : s[k] = list[k]
  BY <1>1, CutAt
<1>3. /\ t \in Seq(DataEntry) /\ Len(t) = Len(list) - i
      /\ \A k \in 1 .. Len(list) - i : t[k] = list[i + k]
  BY <1>1, CutAt
<1>4. Without(list, i) = s \o t
  BY Zenon DEF Without
<1>5. o \in Seq(DataEntry) /\ Len(o) = 1 /\ o[1] = r
  OBVIOUS
<1>6. /\ new \in Seq(DataEntry) /\ Len(new) = Len(list) /\ new[i] = r
      /\ \A k \in 1 .. Len(list) : k # i => new[k] = list[k]
  OBVIOUS
<1> HIDE DEF s, t, o, new
<1> DEFINE so == s \o o
<1>7. /\ so \in Seq(DataEntry) /\ Len(so) = i
      /\ \A k \in 1 .. i - 1 : so[k] = list[k]
      /\ so[i] = r
  <2>1. s \in Seq(DataEntry) /\ o \in Seq(DataEntry)
    BY <1>2, <1>5, Zenon
  <2>2. /\ s \o o \in Seq(DataEntry) /\ Len(s \o o) = Len(s) + Len(o)
        /\ \A k \in 1 .. Len(s) : (s \o o)[k] = s[k]
        /\ \A k \in 1 .. Len(o) : (s \o o)[Len(s) + k] = o[k]
    BY <2>1, Joined
  <2>3. (i - 1) + 1 = i /\ 1 \in 1 .. 1
    OBVIOUS
  <2>4. so[i] = r
    BY <1>2, <1>5, <2>2, <2>3, Zenon
  <2>5. Len(so) = i
    BY <1>2, <1>5, <2>2, <2>3, Zenon
  <2> QED
    BY <1>2, <2>2, <2>4, <2>5, Zenon
<1> HIDE DEF so
<1>8. /\ so \o t \in Seq(DataEntry) /\ Len(so \o t) = i + (Len(list) - i)
      /\ \A k \in 1 .. i : (so \o t)[k] = so[k]
      /\ \A k \in 1 .. Len(list) - i : (so \o t)[i + k] = t[k]
  <2>1. so \in Seq(DataEntry) /\ t \in Seq(DataEntry)
    BY <1>3, <1>7, Zenon
  <2>2. /\ so \o t \in Seq(DataEntry) /\ Len(so \o t) = Len(so) + Len(t)
        /\ \A k \in 1 .. Len(so) : (so \o t)[k] = so[k]
        /\ \A k \in 1 .. Len(t) : (so \o t)[Len(so) + k] = t[k]
    BY <2>1, Joined
  <2> QED
    BY <1>3, <1>7, <2>2, Zenon
<1>9. new = so \o t
  <2>1. Len(so \o t) = Len(new)
    <3>1. i + (Len(list) - i) = Len(list)
      BY <1>1
    <3> QED
      BY <1>6, <1>8, <3>1, Zenon
  <2>2. ASSUME NEW k \in 1 .. Len(new) PROVE new[k] = (so \o t)[k]
    <3>1. CASE k = i
      <4>1. i \in 1 .. i
        BY <1>1
      <4> QED
        BY <1>6, <1>7, <1>8, <3>1, <4>1, Zenon
    <3>2. CASE k < i
      <4>1. k \in 1 .. i - 1 /\ k \in 1 .. i /\ k # i /\ k \in 1 .. Len(list)
        BY <1>1, <1>6, <3>2
      <4> QED
        BY <1>6, <1>7, <1>8, <4>1, Zenon
    <3>3. CASE k > i
      <4>1. k - i \in 1 .. Len(list) - i /\ i + (k - i) = k /\ k # i /\ k \in 1 .. Len(list)
        BY <1>1, <1>6, <3>3
      <4> QED
        BY <1>3, <1>6, <1>8, <4>1, Zenon
    <3>4. k = i \/ k < i \/ k > i
      OBVIOUS
    <3> QED
      BY <3>1, <3>2, <3>3, <3>4, Zenon
  <2>3. new \in Seq(DataEntry) /\ so \o t \in Seq(DataEntry)
    BY <1>6, <1>8, Zenon
  <2> QED
    BY <2>1, <2>2, <2>3, SameList
<1> DEFINE a == PbufsQueued(s)
           b == PbufsQueued(t)
           c == Pbufs_of(r.p)
<1>10. PbufsQueued(so) = a + c /\ a \in Nat /\ c \in Nat
  <2>1. PbufsQueued(o) = c /\ c \in Nat
    BY QueuedOfOne, LoadOf DEF o
  <2>2. s \in Seq(DataEntry) /\ o \in Seq(DataEntry)
    BY <1>2, <1>5, Zenon
  <2>3. PbufsQueued(s \o o) = PbufsQueued(s) + PbufsQueued(o) /\ PbufsQueued(s) \in Nat
    BY <2>2, QueuedJoined
  <2> QED
    BY <2>1, <2>3, Zenon DEF so
<1>11. PbufsQueued(so \o t) = PbufsQueued(so) + b /\ b \in Nat
  <2>1. so \in Seq(DataEntry) /\ t \in Seq(DataEntry)
    BY <1>3, <1>7, Zenon
  <2> QED
    BY <2>1, QueuedJoined
<1>12. PbufsQueued(s \o t) = a + b
  <2>1. s \in Seq(DataEntry) /\ t \in Seq(DataEntry)
    BY <1>2, <1>3, Zenon
  <2> QED
    BY <2>1, QueuedJoined
<1> HIDE DEF a, b, c
<1>13. (a + c) + b = (a + b) + c /\ a + b \in Nat
  BY <1>10, <1>11
<1>14. /\ PbufsQueued(new) = (a + b) + c /\ PbufsQueued(Without(list, i)) = a + b
  BY <1>4, <1>9, <1>10, <1>11, <1>12, <1>13, Zenon
<1> QED
  BY <1>6, <1>10, <1>13, <1>14, Zenon DEF new, c

\* The pbufs that an entry leaves.
LEMMA QueuedWithout ==
  ASSUME NEW list \in Seq(DataEntry), NEW i \in 1 .. Len(list)
  PROVE  /\ PbufsQueued(list) = PbufsQueued(Without(list, i)) + Pbufs_of(list[i].p)
         /\ PbufsQueued(Without(list, i)) \in Nat /\ Pbufs_of(list[i].p) \in Nat
         /\ PbufsQueued(list) \in Nat
<1>1. list[i] \in DataEntry /\ [list EXCEPT ![i] = list[i]] = list
  OBVIOUS
<1>2. /\ PbufsQueued([list EXCEPT ![i] = list[i]])
           = PbufsQueued(Without(list, i)) + Pbufs_of(list[i].p)
      /\ PbufsQueued(Without(list, i)) \in Nat /\ Pbufs_of(list[i].p) \in Nat
  BY <1>1, QueuedAround
<1>3. PbufsQueued(list) \in Nat
  BY QueuedJoined
<1> QED
  BY <1>1, <1>2, <1>3, Zenon

-----------------------------------------------------------------------------
(* A fragment put into a chain.                                            *)

\* The chain with the fragment in its place.
ChainWith(p, f) == Walked(p, f) \o <<f>> \o Beyond(p, f)

\* The walk stops somewhere on the chain.
LEMMA PassedIs ==
  ASSUME NEW p \in Seq(Fragment), NEW f \in Fragment
  PROVE  /\ Passed(p, f) \in 0 .. Len(p)
         /\ \A i \in 1 .. Passed(p, f) : p[i].start <= f.start
<1> DEFINE n == Len(p)
           Is(k) == /\ \A i \in 1 .. k : p[i].start <= f.start
                    /\ k < n => p[k + 1].start > f.start
           Out == {j \in 0 .. n : j < n => p[j + 1].start > f.start}
<1>1. n \in Nat /\ f.start \in Nat
  BY FragmentFields
<1>2. ASSUME NEW i \in 1 .. n PROVE p[i].start \in Nat
  <2>1. p[i] \in Fragment
    BY <1>2
  <2> QED
    BY <2>1, FragmentFields
<1>3. n \in Out /\ Out \in SUBSET Nat
  BY <1>1
<1>4. PICK k \in Out : \A m \in Out : k <= m
  <2> HIDE DEF Out
  <2>1. Out # {}
    BY <1>3
  <2> QED
    BY <1>3, <2>1, LowestExists
<1>5. k \in 0 .. n /\ Is(k)
  <2>1. k \in 0 .. n /\ (k < n => p[k + 1].start > f.start)
    BY <1>4
  <2>2. ASSUME NEW i \in 1 .. k PROVE p[i].start <= f.start
    <3>1. i - 1 \in 0 .. n /\ ~(k <= i - 1) /\ (i - 1) + 1 = i /\ i \in 1 .. n /\ i - 1 < n
      BY <1>1, <2>1
    <3>2. i - 1 \notin Out
      BY <1>4, <3>1, Zenon
    <3>3. ~(p[i].start > f.start)
      BY <3>1, <3>2
    <3> QED
      BY <1>1, <1>2, <3>1, <3>3
  <2> QED
    BY <2>1, <2>2
<1>6. Passed(p, f) = CHOOSE j \in 0 .. n : Is(j)
  BY Zenon DEF Passed
<1>7. Passed(p, f) \in 0 .. n /\ Is(Passed(p, f))
  <2> HIDE DEF Is, n
  <2> QED
    BY <1>5, <1>6, Zenon
<1> QED
  BY <1>7, Zenon

\* The chain with it, and the parts of it that the walk looks at.
ChainSplit(p, f, k, I) ==
  /\ k \in 0 .. Len(p) /\ Len(p) \in Nat
  /\ I \in Seq(Fragment) /\ Len(I) = Len(p) + 1
  /\ \A j \in 1 .. k : I[j] = p[j] /\ Walked(p, f)[j] = p[j]
  /\ I[k + 1] = f
  /\ \A j \in 1 .. Len(p) - k : I[k + 1 + j] = p[k + j] /\ Beyond(p, f)[j] = p[k + j]
  /\ Walked(p, f) \in Seq(Fragment) /\ Len(Walked(p, f)) = k
  /\ Beyond(p, f) \in Seq(Fragment) /\ Len(Beyond(p, f)) = Len(p) - k
  /\ Pbufs_of(I) = Pbufs_of(p) + Clen(f)

LEMMA InsertedIs ==
  ASSUME NEW p \in Seq(Fragment), NEW f \in Fragment
  PROVE  ChainSplit(p, f, Passed(p, f), ChainWith(p, f))
<1> DEFINE W == Walked(p, f)
           B == Beyond(p, f)
           n == Len(p)
           o == <<f>>
           k == Passed(p, f)
           I == ChainWith(p, f)
<1>1. k \in 0 .. n /\ n \in Nat
  BY PassedIs
<1>2. /\ W \in Seq(Fragment) /\ Len(W) = k /\ \A j \in 1 .. k : W[j] = p[j]
      /\ B \in Seq(Fragment) /\ Len(B) = n - k /\ \A j \in 1 .. n - k : B[j] = p[k + j]
      /\ W \o B = p
  <2>1. W = SubSeq(p, 1, k) /\ B = SubSeq(p, k + 1, Len(p))
    BY Zenon DEF Walked, Beyond
  <2> HIDE DEF W, B
  <2> QED
    BY <1>1, <2>1, CutAt, CutsJoin
<1>3. I = (W \o o) \o B
  BY Zenon DEF ChainWith
<1>4. o \in Seq(Fragment) /\ Len(o) = 1 /\ o[1] = f
  OBVIOUS
<1> HIDE DEF W, B, n, o, k, I
<1> DEFINE s == W \o o
<1>5. /\ s \in Seq(Fragment) /\ Len(s) = k + 1 /\ s[k + 1] = f
      /\ \A j \in 1 .. k : s[j] = W[j]
  <2>1. W \in Seq(Fragment) /\ o \in Seq(Fragment)
    BY <1>2, <1>4, Zenon
  <2>2. /\ W \o o \in Seq(Fragment) /\ Len(W \o o) = Len(W) + Len(o)
        /\ \A j \in 1 .. Len(W) : (W \o o)[j] = W[j]
        /\ \A j \in 1 .. Len(o) : (W \o o)[Len(W) + j] = o[j]
    BY <2>1, Joined
  <2>3. 1 \in 1 .. 1
    OBVIOUS
  <2> QED
    BY <1>2, <1>4, <2>2, <2>3, Zenon
<1>6. Pbufs_of(s) = Pbufs_of(W) + Clen(f) /\ Pbufs_of(W) \in Nat
  <2>1. W \in Seq(Fragment) /\ o \in Seq(Fragment)
    BY <1>2, <1>4, Zenon
  <2>2. Pbufs_of(W \o o) = Pbufs_of(W) + Pbufs_of(o) /\ Pbufs_of(W) \in Nat
    BY <2>1, PbufsOfJoined
  <2>3. Pbufs_of(o) = Clen(f)
    BY PbufsOfOne DEF o
  <2> QED
    BY <2>2, <2>3, Zenon
<1> HIDE DEF s
<1>7. /\ I \in Seq(Fragment) /\ Len(I) = (k + 1) + (n - k)
      /\ \A j \in 1 .. k + 1 : I[j] = s[j]
      /\ \A j \in 1 .. n - k : I[k + 1 + j] = B[j]
      /\ Pbufs_of(I) = Pbufs_of(s) + Pbufs_of(B) /\ Pbufs_of(B) \in Nat
  <2>1. s \in Seq(Fragment) /\ B \in Seq(Fragment)
    BY <1>2, <1>5, Zenon
  <2>2. /\ s \o B \in Seq(Fragment) /\ Len(s \o B) = Len(s) + Len(B)
        /\ \A j \in 1 .. Len(s) : (s \o B)[j] = s[j]
        /\ \A j \in 1 .. Len(B) : (s \o B)[Len(s) + j] = B[j]
    BY <2>1, Joined
  <2>3. Pbufs_of(s \o B) = Pbufs_of(s) + Pbufs_of(B) /\ Pbufs_of(B) \in Nat
    BY <2>1, PbufsOfJoined
  <2>4. I = s \o B
    BY <1>3, Zenon DEF s
  <2> QED
    BY <1>2, <1>5, <2>2, <2>3, <2>4, Zenon
<1>8. Pbufs_of(p) = Pbufs_of(W) + Pbufs_of(B)
  <2>1. W \in Seq(Fragment) /\ B \in Seq(Fragment)
    BY <1>2, Zenon
  <2>2. Pbufs_of(W \o B) = Pbufs_of(W) + Pbufs_of(B)
    BY <2>1, PbufsOfJoined
  <2> QED
    BY <1>2, <2>2, Zenon
<1>9. Pbufs_of(I) = Pbufs_of(p) + Clen(f)
  <2> DEFINE a == Pbufs_of(W)
             b == Pbufs_of(B)
             c == Clen(f)
  <2>1. /\ a \in Nat /\ b \in Nat /\ c \in Nat /\ Pbufs_of(I) = (a + c) + b
        /\ Pbufs_of(p) = a + b
    BY <1>6, <1>7, <1>8, FragmentFields, Zenon
  <2> HIDE DEF a, b, c
  <2>2. (a + c) + b = (a + b) + c
    BY <2>1
  <2> QED
    BY <2>1, <2>2, Zenon DEF c
<1>10. Len(I) = n + 1
  BY <1>1, <1>7
<1>11. \A j \in 1 .. k : I[j] = p[j]
  <2>1. ASSUME NEW j \in 1 .. k PROVE I[j] = p[j]
    <3>1. j \in 1 .. k + 1
      BY <1>1
    <3> QED
      BY <1>2, <1>5, <1>7, <3>1, Zenon
  <2> QED
    BY <2>1
<1>12. I[k + 1] = f
  <2>1. k + 1 \in 1 .. k + 1
    BY <1>1
  <2> QED
    BY <1>5, <1>7, <2>1, Zenon
<1>13. \A j \in 1 .. n - k : I[k + 1 + j] = p[k + j]
  BY <1>2, <1>7, Zenon
<1> QED
  BY <1>1, <1>2, <1>7, <1>9, <1>10, <1>11, <1>12, <1>13, Zenon DEF W, B, n, k, I, ChainSplit

\* The lists that Valid looks at are parts of the chain.
Parts(p, f, k, I) ==
  /\ Len(Append(Walked(p, f), f)) = k + 1 /\ Append(Walked(p, f), f) # <<>>
  /\ Append(Walked(p, f), f)[1] = I[1]
  /\ Len(<<f>> \o Beyond(p, f)) = Len(p) - k + 1
  /\ \A j \in 1 .. Len(p) - k + 1 : (<<f>> \o Beyond(p, f))[j] = I[k + j]
  /\ Beyond(p, f) = <<>> => /\ k = Len(p) /\ Len(Append(p, f)) = k + 1
                            /\ \A j \in 1 .. k + 1 : Append(p, f)[j] = I[j]

LEMMA PartsOfChain ==
  ASSUME NEW p \in Seq(Fragment), NEW f \in Fragment
  PROVE  Parts(p, f, Passed(p, f), ChainWith(p, f))
<1> DEFINE W == Walked(p, f)
           B == Beyond(p, f)
           n == Len(p)
           k == Passed(p, f)
           I == ChainWith(p, f)
<1>1. /\ k \in 0 .. n /\ n \in Nat /\ W \in Seq(Fragment) /\ Len(W) = k
      /\ B \in Seq(Fragment) /\ Len(B) = n - k
      /\ \A j \in 1 .. k : I[j] = p[j] /\ W[j] = p[j]
      /\ I[k + 1] = f
      /\ \A j \in 1 .. n - k : I[k + 1 + j] = p[k + j] /\ B[j] = p[k + j]
  <2>1. ChainSplit(p, f, k, I)
    BY InsertedIs
  <2> QED
    BY <2>1, Zenon DEF ChainSplit
<1> HIDE DEF W, B, k, I
<1>2. /\ Len(Append(W, f)) = k + 1 /\ Append(W, f) # <<>>
      /\ \A j \in 1 .. k : Append(W, f)[j] = W[j]
      /\ Append(W, f)[k + 1] = f
  <2>1. W \in Seq(Fragment) /\ Len(W) = k /\ k \in Nat
    BY <1>1
  <2> QED
    BY <2>1
<1>3. Append(W, f)[1] = I[1]
  <2>1. CASE k = 0
    <3>1. k + 1 = 1
      BY <2>1
    <3> QED
      BY <1>1, <1>2, <3>1, Zenon
  <2>2. CASE k # 0
    <3>1. 1 \in 1 .. k
      BY <1>1, <2>2
    <3> QED
      BY <1>1, <1>2, <3>1, Zenon
  <2> QED
    BY <2>1, <2>2, Zenon
<1> DEFINE o == <<f>>
<1>4. o \in Seq(Fragment) /\ Len(o) = 1 /\ o[1] = f
  OBVIOUS
<1> HIDE DEF o
<1>5. /\ Len(o \o B) = 1 + (n - k)
      /\ (o \o B)[1] = f
      /\ \A j \in 1 .. n - k : (o \o B)[1 + j] = B[j]
  <2>1. B \in Seq(Fragment) /\ o \in Seq(Fragment)
    BY <1>1, <1>4, Zenon
  <2>2. /\ o \o B \in Seq(Fragment) /\ Len(o \o B) = Len(o) + Len(B)
        /\ \A j \in 1 .. Len(o) : (o \o B)[j] = o[j]
        /\ \A j \in 1 .. Len(B) : (o \o B)[Len(o) + j] = B[j]
    BY <2>1, Joined
  <2>3. 1 \in 1 .. 1
    OBVIOUS
  <2> QED
    BY <1>1, <1>4, <2>2, <2>3, Zenon
<1>6. ASSUME NEW j \in 1 .. n - k + 1 PROVE (o \o B)[j] = I[k + j]
  <2>1. CASE j = 1
    BY <1>1, <1>5, <2>1, Zenon
  <2>2. CASE j # 1
    <3>1. j - 1 \in 1 .. n - k /\ 1 + (j - 1) = j /\ k + 1 + (j - 1) = k + j
      BY <1>1, <2>2
    <3>2. (o \o B)[1 + (j - 1)] = B[j - 1] /\ B[j - 1] = p[k + (j - 1)]
      BY <1>1, <1>5, <3>1, Zenon
    <3>3. I[k + 1 + (j - 1)] = p[k + (j - 1)]
      BY <1>1, <3>1, Zenon
    <3> QED
      BY <3>1, <3>2, <3>3, Zenon
  <2> QED
    BY <2>1, <2>2, Zenon
<1>7. Len(o \o B) = n - k + 1
  BY <1>1, <1>5
<1>8. ASSUME B = <<>>
      PROVE  k = n /\ Len(Append(p, f)) = k + 1 /\ \A j \in 1 .. k + 1 : Append(p, f)[j] = I[j]
  <2>1. k = n
    <3>1. Len(B) = 0
      BY <1>8
    <3> QED
      BY <1>1, <3>1
  <2>2. /\ Len(Append(p, f)) = n + 1 /\ Append(p, f)[n + 1] = f
        /\ \A j \in 1 .. n : Append(p, f)[j] = p[j]
    OBVIOUS
  <2>3. ASSUME NEW j \in 1 .. k + 1 PROVE Append(p, f)[j] = I[j]
    <3>1. j \in 1 .. k \/ j = k + 1
      BY <1>1
    <3> QED
      BY <1>1, <2>1, <2>2, <3>1, Zenon
  <2> QED
    BY <2>1, <2>2, <2>3, Zenon
<1> QED
  BY <1>2, <1>3, <1>6, <1>7, <1>8, Zenon DEF W, B, n, o, k, I, Parts

-----------------------------------------------------------------------------
(* What Valid says of the chain.                                           *)

\* A part of a chain without a hole has none.
LEMMA PartWithoutHole ==
  ASSUME NEW I, NEW q, NEW c \in Nat, NEW m \in Nat, NEW n \in Nat,
         Len(I) = m, Len(q) = n, c + n <= m,
         \A j \in 1 .. n : q[j] = I[c + j], NoHole(I)
  PROVE  NoHole(q)
<1>1. \A i \in 1 .. m - 1 : I[i].end = I[i + 1].start
  BY Zenon DEF NoHole
<1>2. ASSUME NEW i \in 1 .. n - 1 PROVE q[i].end = q[i + 1].start
  <2>1. i \in 1 .. n /\ i + 1 \in 1 .. n /\ c + i \in 1 .. m - 1 /\ (c + i) + 1 = c + (i + 1)
    OBVIOUS
  <2>2. I[c + i].end = I[(c + i) + 1].start
    BY <1>1, <2>1, Zenon
  <2>3. q[i] = I[c + i] /\ q[i + 1] = I[c + (i + 1)]
    BY <2>1, Zenon
  <2> QED
    BY <2>1, <2>2, <2>3, Zenon
<1> QED
  BY <1>2, Zenon DEF NoHole

\* The walk says "valid" of a chain that has become complete.
LEMMA CompleteIsValid ==
  ASSUME NEW p \in Seq(Fragment), NEW f \in Fragment, Complete(ChainWith(p, f))
  PROVE  Valid(p, f)
<1> DEFINE k == Passed(p, f)
           I == ChainWith(p, f)
           n == Len(p)
           W == Walked(p, f)
           B == Beyond(p, f)
           A == Append(p, f)
           V == Append(W, f)
           R == <<f>> \o B
<1>1. ChainSplit(p, f, k, I) /\ Parts(p, f, k, I)
  BY InsertedIs, PartsOfChain
<1> HIDE DEF k, I
<1>2. /\ k \in 0 .. n /\ n \in Nat /\ Len(I) = n + 1
      /\ \A j \in 1 .. k : I[j] = p[j] /\ W[j] = p[j]
      /\ Len(W) = k
  BY <1>1, Zenon DEF ChainSplit
<1>3. /\ Len(V) = k + 1 /\ V # <<>> /\ V[1] = I[1]
      /\ Len(R) = n - k + 1
      /\ \A j \in 1 .. n - k + 1 : R[j] = I[k + j]
      /\ B = <<>> => /\ k = n /\ Len(A) = k + 1
                     /\ \A j \in 1 .. k + 1 : A[j] = I[j]
  BY <1>1, Zenon DEF Parts
<1>4. I[1].start = 0 /\ NoHole(I)
  <2>1. Complete(I)
    BY Zenon DEF I
  <2> QED
    BY <2>1, Zenon DEF Complete
<1> HIDE DEF n, W, B, A, V, R
<1> DEFINE c == n + 1
           d == n - k + 1
           e == k + 1
<1>5. c \in Nat /\ d \in Nat /\ e \in Nat /\ k \in Nat /\ k + d = c /\ k <= c /\ e <= c /\ 0 \in Nat /\ 0 + e <= c /\ 0 + k <= c /\ k + d <= c
  BY <1>2
<1>6. NoHole(R)
  <2>1. Len(I) = c /\ Len(R) = d /\ \A j \in 1 .. d : R[j] = I[k + j]
    BY <1>2, <1>3, Zenon
  <2> HIDE DEF c, d, e
  <2> QED
    BY <1>4, <1>5, <2>1, PartWithoutHole
<1>7. NoHole(IF B = <<>> THEN A ELSE W)
  <2>1. CASE B = <<>>
    <3>1. Len(A) = e /\ \A j \in 1 .. e : A[j] = I[0 + j]
      <4>1. ASSUME NEW j \in 1 .. e PROVE A[j] = I[0 + j]
        <5>1. 0 + j = j
          BY <1>5
        <5>2. A[j] = I[j]
          BY <1>3, <2>1, Zenon
        <5> QED
          BY <5>1, <5>2, Zenon
      <4> QED
        BY <1>3, <2>1, <4>1, Zenon
    <3>2. Len(I) = c
      BY <1>2
    <3> HIDE DEF c, d, e
    <3>3. NoHole(A)
      BY <1>4, <1>5, <3>1, <3>2, PartWithoutHole
    <3> QED
      BY <2>1, <3>3, Zenon
  <2>2. CASE ~(B = <<>>)
    <3>1. Len(W) = k /\ \A j \in 1 .. k : W[j] = I[0 + j]
      <4>1. ASSUME NEW j \in 1 .. k PROVE W[j] = I[0 + j]
        <5>1. 0 + j = j
          BY <1>5
        <5> QED
          BY <1>2, <5>1, Zenon
      <4> QED
        BY <1>2, <4>1, Zenon
    <3>2. Len(I) = c
      BY <1>2
    <3> HIDE DEF c, d, e
    <3>3. NoHole(W)
      BY <1>4, <1>5, <3>1, <3>2, PartWithoutHole
    <3> QED
      BY <2>2, <3>3, Zenon
  <2> QED
    BY <2>1, <2>2, Zenon
<1>8. Head(V).start = 0
  <2>1. Head(V) = V[1]
    BY <1>3
  <2> QED
    BY <1>3, <1>4, <2>1, Zenon
<1> QED
  BY <1>6, <1>7, <1>8, Zenon DEF Valid, B, A, W, V, R

\* A chain that is passed up starts the datagram, and its fragments are in
\* order: the walk has compared neighbours, or the new one with all before it.
LEMMA ValidIsInOrder ==
  ASSUME NEW p \in Seq(Fragment), NEW f \in Fragment, Valid(p, f), ~ThrownAway(p, f)
  PROVE  /\ ChainWith(p, f)[1].start = 0
         /\ \A i \in 1 .. Len(ChainWith(p, f)) - 1 :
              ChainWith(p, f)[i].end <= ChainWith(p, f)[i + 1].start
<1> DEFINE k == Passed(p, f)
           I == ChainWith(p, f)
           n == Len(p)
           W == Walked(p, f)
           B == Beyond(p, f)
           A == Append(p, f)
           V == Append(W, f)
           R == <<f>> \o B
<1>1. ChainSplit(p, f, k, I) /\ Parts(p, f, k, I)
  BY InsertedIs, PartsOfChain
<1>0. /\ NoHole(IF B = <<>> THEN A ELSE W) /\ Head(V).start = 0 /\ NoHole(R)
      /\ \A i \in DOMAIN W : ~(f.start < p[i].end)
  BY Zenon DEF Valid, ThrownAway
<1> HIDE DEF k, I
<1>2. /\ k \in 0 .. n /\ n \in Nat /\ Len(I) = n + 1 /\ I \in Seq(Fragment)
      /\ \A j \in 1 .. k : I[j] = p[j] /\ W[j] = p[j]
      /\ Len(W) = k /\ I[k + 1] = f /\ W \in Seq(Fragment)
  BY <1>1, Zenon DEF ChainSplit
<1>3. /\ Len(V) = k + 1 /\ V # <<>> /\ V[1] = I[1]
      /\ Len(R) = n - k + 1
      /\ \A j \in 1 .. n - k + 1 : R[j] = I[k + j]
      /\ B = <<>> => /\ k = n /\ Len(A) = k + 1
                     /\ \A j \in 1 .. k + 1 : A[j] = I[j]
  BY <1>1, Zenon DEF Parts
<1>4. DOMAIN W = 1 .. k
  BY <1>2
<1> HIDE DEF n, W, B, A, V, R
<1>5. I[1].start = 0
  <2>1. Head(V) = V[1]
    BY <1>3
  <2> QED
    BY <1>0, <1>3, <2>1, Zenon
<1>6. ASSUME NEW i \in 1 .. n + 1 PROVE I[i].start \in Nat /\ I[i].end \in Nat
  <2>1. I[i] \in Fragment
    BY <1>2
  <2> QED
    BY <2>1, FragmentFields
<1>7. ASSUME NEW i \in 1 .. n PROVE I[i].end <= I[i + 1].start
  <2>0. i \in 1 .. n + 1 /\ i + 1 \in 1 .. n + 1
    BY <1>2
  <2>1. I[i].end \in Nat /\ I[i + 1].start \in Nat
    BY <1>6, <2>0
  <2>2. CASE i > k
    <3>1. i - k \in 1 .. (n - k + 1) - 1 /\ (i - k) + 1 \in 1 .. n - k + 1 /\ i - k \in 1 .. n - k + 1
          /\ k + (i - k) = i /\ k + ((i - k) + 1) = i + 1
      BY <1>2, <2>2
    <3>2. R[i - k].end = R[(i - k) + 1].start
      BY <1>0, <1>3, <3>1, Zenon DEF NoHole
    <3>3. R[i - k] = I[k + (i - k)] /\ R[(i - k) + 1] = I[k + ((i - k) + 1)]
      BY <1>3, <3>1, Zenon
    <3>4. I[i].end = I[i + 1].start
      BY <3>1, <3>2, <3>3, Zenon
    <3> QED
      BY <2>1, <3>4
  <2>3. CASE i = k
    <3>1. k \in DOMAIN W /\ k \in 1 .. k
      BY <1>2, <1>4, <2>3
    <3>2. ~(f.start < p[k].end)
      BY <1>0, <3>1, Zenon
    <3>3. I[i] = p[k] /\ I[i + 1] = f
      BY <1>2, <2>3, <3>1, Zenon
    <3>4. ~(I[i + 1].start < I[i].end)
      BY <3>2, <3>3, Zenon
    <3> QED
      BY <2>1, <3>4
  <2>4. CASE i < k
    <3>1. CASE B = <<>>
      <4>1. i \in 1 .. (k + 1) - 1 /\ i \in 1 .. k + 1 /\ i + 1 \in 1 .. k + 1
        BY <1>2, <2>4
      <4>2. NoHole(A)
        BY <1>0, <3>1, Zenon
      <4>3. A[i].end = A[i + 1].start
        BY <1>3, <3>1, <4>1, <4>2, Zenon DEF NoHole
      <4>4. A[i] = I[i] /\ A[i + 1] = I[i + 1]
        BY <1>3, <3>1, <4>1, Zenon
      <4>5. I[i].end = I[i + 1].start
        BY <4>3, <4>4, Zenon
      <4> QED
        BY <2>1, <4>5
    <3>2. CASE ~(B = <<>>)
      <4>1. i \in 1 .. k - 1 /\ i \in 1 .. k /\ i + 1 \in 1 .. k
        BY <1>2, <2>4
      <4>2. NoHole(W)
        BY <1>0, <3>2, Zenon
      <4>3. W[i].end = W[i + 1].start
        BY <1>2, <4>1, <4>2, Zenon DEF NoHole
      <4>4. W[i] = I[i] /\ W[i + 1] = I[i + 1]
        BY <1>2, <4>1, Zenon
      <4>5. I[i].end = I[i + 1].start
        BY <4>3, <4>4, Zenon
      <4> QED
        BY <2>1, <4>5
    <3> QED
      BY <3>1, <3>2, Zenon
  <2>5. i > k \/ i = k \/ i < k
    BY <1>2
  <2> QED
    BY <2>2, <2>3, <2>4, <2>5, Zenon
<1>8. Len(I) - 1 = n
  BY <1>2
<1>9. \A i \in 1 .. Len(I) - 1 : I[i].end <= I[i + 1].start
  BY <1>7, <1>8, Zenon
<1> QED
  BY <1>5, <1>9, Zenon DEF I

-----------------------------------------------------------------------------
(* What the list keeps.                                                    *)

\* An entry waits because a fragment is missing, and it knows of its last one.
StillWaits(r) == ~Complete(r.p) /\ \A j \in 1 .. Len(r.p) : r.p[j].end = Size => r.last

\* Every entry of the list is one of old's.
From(list, old) == \A i \in 1 .. Len(list) : \E j \in 1 .. Len(old) : list[i] = old[j]

\* No two entries are of the same datagram.
OncePerDatagram(list) == \A i, j \in 1 .. Len(list) : list[i].id = list[j].id => i = j

\* What the list keeps.
Listed(list) ==
  /\ list \in Seq(DataEntry) /\ OncePerDatagram(list)
  /\ \A i \in 1 .. Len(list) : StillWaits(list[i]) /\ list[i].p # <<>>

\* So does a part of it,
LEMMA ListedPart ==
  ASSUME NEW list, Listed(list), NEW part \in Seq(DataEntry), From(part, list), OncePerDatagram(part)
  PROVE  Listed(part)
<1>1. \A j \in 1 .. Len(list) : StillWaits(list[j]) /\ list[j].p # <<>>
  BY Zenon DEF Listed
<1>2. ASSUME NEW i \in 1 .. Len(part) PROVE StillWaits(part[i]) /\ part[i].p # <<>>
  <2>1. PICK j \in 1 .. Len(list) : part[i] = list[j]
    BY <1>2, Zenon DEF From
  <2> QED
    BY <1>1, <2>1, Zenon
<1> QED
  BY <1>2, Zenon DEF Listed

\* and a part of a part is a part.
LEMMA FromEach ==
  ASSUME NEW a, NEW b, NEW c, From(a, b), From(b, c)
  PROVE  From(a, c)
<1>1. ASSUME NEW i \in 1 .. Len(a) PROVE \E j \in 1 .. Len(c) : a[i] = c[j]
  <2>1. PICK k \in 1 .. Len(b) : a[i] = b[k]
    BY <1>1, Zenon DEF From
  <2>2. PICK j \in 1 .. Len(c) : b[k] = c[j]
    BY Zenon DEF From
  <2> QED
    BY <2>1, <2>2, Zenon
<1> QED
  BY <1>1, Zenon DEF From

LEMMA FromItself ==
  ASSUME NEW a
  PROVE  From(a, a)
BY Zenon DEF From

\* A list but for one of its entries.
ListedBut(list, i) ==
  /\ list \in Seq(DataEntry) /\ OncePerDatagram(list)
  /\ \A k \in 1 .. Len(list) : k # i => StillWaits(list[k]) /\ list[k].p # <<>>

\* An entry that is taken off leaves a list.
LEMMA WithoutListed ==
  ASSUME NEW list, NEW i \in 1 .. Len(list), ListedBut(list, i)
  PROVE  /\ Listed(Without(list, i)) /\ From(Without(list, i), list)
         /\ Len(Without(list, i)) = Len(list) - 1 /\ Len(list) \in Nat
<1> DEFINE W == Without(list, i)
           n == Len(list)
<1>1. /\ list \in Seq(DataEntry) /\ OncePerDatagram(list)
      /\ \A k \in 1 .. n : k # i => StillWaits(list[k]) /\ list[k].p # <<>>
  BY Zenon DEF ListedBut
<1>2. /\ W \in Seq(DataEntry) /\ Len(W) = n - 1 /\ n \in Nat
      /\ \A k \in 1 .. n - 1 : W[k] = IF k < i THEN list[k] ELSE list[k + 1]
  BY <1>1, WithoutIs
<1> HIDE DEF W, n
<1>3. ASSUME NEW k \in 1 .. n - 1
      PROVE  LET m == IF k < i THEN k ELSE k + 1 IN m \in 1 .. n /\ m # i /\ W[k] = list[m]
  <2>0. i \in 1 .. n
    BY DEF n
  <2>1. CASE k < i
    <3>1. k \in 1 .. n /\ k # i
      BY <1>2, <2>0, <2>1
    <3> QED
      BY <1>2, <2>1, <3>1, Zenon
  <2>2. CASE ~(k < i)
    <3>1. k + 1 \in 1 .. n /\ k + 1 # i
      BY <1>2, <2>0, <2>2
    <3> QED
      BY <1>2, <2>2, <3>1, Zenon
  <2> QED
    BY <2>1, <2>2, Zenon
<1>4. From(W, list)
  BY <1>2, <1>3, Zenon DEF From, n
<1>5. OncePerDatagram(W)
  <2>1. ASSUME NEW a \in 1 .. n - 1, NEW b \in 1 .. n - 1, W[a].id = W[b].id
        PROVE  a = b
    <3> DEFINE x == IF a < i THEN a ELSE a + 1
               y == IF b < i THEN b ELSE b + 1
    <3>1. x \in 1 .. n /\ y \in 1 .. n /\ list[x].id = list[y].id
      BY <1>3, <2>1, Zenon
    <3>2. x = y
      <4> HIDE DEF x, y
      <4> QED
        BY <1>1, <3>1, Zenon DEF OncePerDatagram, n
    <3>3. i \in Int
      BY DEF n
    <3> QED
      BY <1>2, <3>2, <3>3
  <2> QED
    BY <1>2, <2>1, Zenon DEF OncePerDatagram
<1>6. ASSUME NEW k \in 1 .. n - 1 PROVE StillWaits(W[k]) /\ W[k].p # <<>>
  <2> DEFINE m == IF k < i THEN k ELSE k + 1
  <2>1. m \in 1 .. n /\ m # i /\ W[k] = list[m]
    BY <1>3, Zenon
  <2> HIDE DEF m
  <2> QED
    BY <1>1, <2>1, Zenon
<1>7. Listed(W)
  BY <1>2, <1>5, <1>6, Zenon DEF Listed
<1> QED
  BY <1>2, <1>4, <1>7, Zenon DEF W, n

\* The pbufs go with it.
LEMMA ListedWithout ==
  ASSUME NEW list, Listed(list), NEW i \in 1 .. Len(list)
  PROVE  /\ Listed(Without(list, i)) /\ From(Without(list, i), list)
         /\ Len(Without(list, i)) = Len(list) - 1
         /\ PbufsQueued(Without(list, i)) = PbufsQueued(list) - Pbufs_of(list[i].p)
         /\ PbufsQueued(Without(list, i)) \in Nat /\ PbufsQueued(list) \in Nat
         /\ Pbufs_of(list[i].p) \in Nat /\ Pbufs_of(list[i].p) >= 1
<1> DEFINE W == Without(list, i)
<1>1. list \in Seq(DataEntry) /\ list[i].p # <<>> /\ ListedBut(list, i)
  BY Zenon DEF Listed, ListedBut
<1>2. Listed(W) /\ From(W, list) /\ Len(W) = Len(list) - 1
  BY <1>1, WithoutListed
<1>3. /\ PbufsQueued(list) = PbufsQueued(W) + Pbufs_of(list[i].p)
      /\ PbufsQueued(W) \in Nat /\ Pbufs_of(list[i].p) \in Nat
      /\ PbufsQueued(list) \in Nat
  BY <1>1, QueuedWithout, Zenon DEF W
<1>4. Pbufs_of(list[i].p) >= 1
  <2>1. list[i] \in DataEntry
    BY <1>1
  <2>2. list[i].p \in Seq(Fragment)
    BY <2>1, EntryFields
  <2> QED
    BY <1>1, <2>2, PbufsOfSome
<1>5. PbufsQueued(W) = PbufsQueued(list) - Pbufs_of(list[i].p)
  <2> DEFINE a == PbufsQueued(W)
             b == PbufsQueued(list)
             c == Pbufs_of(list[i].p)
  <2>1. b = a + c /\ a \in Nat /\ c \in Nat
    BY <1>3, Zenon
  <2> HIDE DEF a, b, c
  <2>2. a = b - c
    BY <2>1
  <2> QED
    BY <2>2, Zenon DEF a, b, c
<1> QED
  BY <1>2, <1>3, <1>4, <1>5, Zenon DEF W

\* The oldest of the others is one of them.
LEMMA OldestIs ==
  ASSUME NEW list \in Seq(DataEntry), NEW q, q.list = list, NEW S \in SUBSET (1 .. Len(list)), S # {}
  PROVE  OldestOther(q, S) \in S
<1> DEFINE n == Len(list)
           t(i) == q.list[i].timer
           Times == {t(i) : i \in S}
<1>1. n \in Nat /\ \A i \in 1 .. n : t(i) \in Nat
  <2>1. ASSUME NEW i \in 1 .. n PROVE t(i) \in Nat
    <3>1. list[i] \in DataEntry
      OBVIOUS
    <3>2. list[i].timer \in 0 .. IP_REASS_MAXAGE /\ IP_REASS_MAXAGE \in Nat
      BY <3>1, EntryFields, IpReassAssumption DEF IpReassAssumption
    <3>3. list[i].timer \in Nat
      BY <3>2
    <3> QED
      BY <3>3, Zenon
  <2> QED
    BY <2>1
<1> HIDE DEF t
<1>2. Times \in SUBSET Nat /\ Times # {}
  BY <1>1
<1>3. PICK x \in Times : \A y \in Times : x <= y
  <2> HIDE DEF Times
  <2> QED
    BY <1>2, LowestExists
<1> DEFINE Back == {n - i : i \in {j \in S : t(j) = x}}
<1>4. Back \in SUBSET Nat /\ Back # {}
  BY <1>1, <1>3
<1>5. PICK b \in Back : \A c \in Back : b <= c
  <2> HIDE DEF Back
  <2> QED
    BY <1>4, LowestExists
<1>6. PICK i \in S : t(i) = x /\ b = n - i
  BY <1>5
<1>7. ASSUME NEW j \in S PROVE t(i) < t(j) \/ (t(i) = t(j) /\ j <= i)
  <2>1. x <= t(j) /\ t(j) \in Nat /\ x \in Nat /\ i \in Int /\ j \in Int
    BY <1>1, <1>3, <1>6
  <2>2. CASE t(j) = x
    <3>1. n - j \in Back
      BY <2>2
    <3>2. n - i <= n - j
      BY <1>5, <1>6, <3>1
    <3> QED
      BY <1>1, <1>6, <2>1, <2>2, <3>2
  <2>3. CASE t(j) # x
    <3>1. x < t(j)
      BY <2>1, <2>3
    <3> QED
      BY <1>6, <3>1, Zenon
  <2> QED
    BY <2>2, <2>3
<1> DEFINE Is(k) == \A j \in S : t(k) < t(j) \/ (t(k) = t(j) /\ j <= k)
<1>8. Is(i)
  BY <1>7
<1>9. OldestOther(q, S) = CHOOSE k \in S : Is(k)
  BY DEF OldestOther, t
<1> HIDE DEF Is
<1> QED
  BY <1>6, <1>8, <1>9, Zenon

-----------------------------------------------------------------------------
(* ip_reass_remove_oldest_datagram.                                        *)

\* The records that the operators on the list work on.
Queue == [list : Seq(DataEntry), count : Int, freed : Nat, more : BOOLEAN, wrong : BOOLEAN]

\* What can be left of the queue o.
Rooms(o) ==
  {q \in Queue :
     /\ Listed(q.list) /\ From(q.list, o.list)
     /\ q.count = PbufsQueued(q.list) /\ q.count <= o.count
     /\ Len(q.list) <= Len(o.list)
     /\ q.freed > 0 => Len(q.list) < Len(o.list)}

\* The conditions one by one.
LEMMA RoomFields ==
  ASSUME NEW o, NEW q \in Rooms(o)
  PROVE  /\ q \in Queue
         /\ q.list \in Seq(DataEntry) /\ q.count \in Int /\ q.freed \in Nat
         /\ q.more \in BOOLEAN /\ q.wrong \in BOOLEAN
         /\ Listed(q.list) /\ From(q.list, o.list)
         /\ q.count = PbufsQueued(q.list) /\ q.count <= o.count
         /\ Len(q.list) <= Len(o.list)
         /\ q.freed > 0 => Len(q.list) < Len(o.list)
<1>1. q \in Queue
  BY DEF Rooms
<1>2. /\ q.list \in Seq(DataEntry) /\ q.count \in Int /\ q.freed \in Nat
      /\ q.more \in BOOLEAN /\ q.wrong \in BOOLEAN
  BY <1>1 DEF Queue
<1>3. /\ Listed(q.list) /\ From(q.list, o.list)
      /\ q.count = PbufsQueued(q.list) /\ q.count <= o.count
      /\ Len(q.list) <= Len(o.list)
      /\ q.freed > 0 => Len(q.list) < Len(o.list)
  BY Zenon DEF Rooms
<1> QED
  BY <1>1, <1>2, <1>3, Zenon

\* A queue with the same list is left, too.
LEMMA RoomAgain ==
  ASSUME NEW o, NEW q \in Rooms(o), NEW r \in Queue,
         r.list = q.list, r.count = q.count, r.freed > 0 => q.freed > 0
  PROVE  r \in Rooms(o)
<1>1. /\ Listed(q.list) /\ From(q.list, o.list)
      /\ q.count = PbufsQueued(q.list) /\ q.count <= o.count
      /\ Len(q.list) <= Len(o.list)
      /\ q.freed > 0 => Len(q.list) < Len(o.list)
  BY RoomFields, Zenon
<1> QED
  BY <1>1, Zenon DEF Rooms

\* An entry that is freed leaves room, or stays linked.
LEMMA FreeCompleteKeeps ==
  ASSUME NEW o, o.list \in Seq(DataEntry), o.count \in Int, NEW q \in Rooms(o), NEW i \in 1 .. Len(q.list), NEW prev
  PROVE  FreeComplete(q, i, prev) \in Rooms(o)
<1> DEFINE n == Pbufs_of(q.list[i].p)
           W == Without(q.list, i)
           a == q.count - n
           b == q.freed + n
           r == [q EXCEPT !.list = W, !.count = a, !.freed = b]
           s == [q EXCEPT !.wrong = TRUE]
<1>1. FreeComplete(q, i, prev) = IF i = 1 \/ prev = i - 1 THEN r ELSE s
  BY Zenon DEF FreeComplete
<1>2. /\ q \in Queue
      /\ q.list \in Seq(DataEntry) /\ q.count \in Int /\ q.freed \in Nat
      /\ q.more \in BOOLEAN /\ q.wrong \in BOOLEAN
      /\ Listed(q.list) /\ From(q.list, o.list)
      /\ q.count = PbufsQueued(q.list) /\ q.count <= o.count
      /\ Len(q.list) <= Len(o.list)
      /\ q.freed > 0 => Len(q.list) < Len(o.list)
  BY RoomFields, Zenon
<1>3. /\ Listed(W) /\ From(W, q.list) /\ Len(W) = Len(q.list) - 1
      /\ PbufsQueued(W) = PbufsQueued(q.list) - n
      /\ PbufsQueued(W) \in Nat /\ n \in Nat /\ n >= 1
  <2>1. Listed(q.list)
    BY <1>2, Zenon
  <2>2. /\ Listed(W) /\ From(W, q.list) /\ Len(W) = Len(q.list) - 1
        /\ PbufsQueued(W) = PbufsQueued(q.list) - n
        /\ PbufsQueued(W) \in Nat /\ PbufsQueued(q.list) \in Nat
        /\ n \in Nat /\ n >= 1
    BY <2>1, ListedWithout
  <2> QED
    BY <2>2, Zenon
<1>4. s \in Rooms(o)
  <2>1. /\ s \in Queue /\ s.list = q.list /\ s.count = q.count /\ s.freed = q.freed
    <3> HIDE DEF n, W, a, b
    <3> QED
      BY <1>2 DEF Queue
  <2>2. s.freed > 0 => q.freed > 0
    BY <2>1, Zenon
  <2> HIDE DEF s
  <2> QED
    BY <2>1, <2>2, RoomAgain
<1>5. r \in Rooms(o)
  <2>1. W \in Seq(DataEntry) /\ a \in Int /\ b \in Nat
    <3>1. W \in Seq(DataEntry)
      BY <1>3, Zenon DEF Listed
    <3>2. a \in Int /\ b \in Nat
      <4>1. q.count \in Int /\ q.freed \in Nat /\ n \in Nat
        BY <1>2, <1>3, Zenon
      <4> HIDE DEF n
      <4> QED
        BY <4>1
    <3> QED
      BY <3>1, <3>2, Zenon
  <2>2. a = PbufsQueued(W)
    BY <1>2, <1>3, Zenon
  <2>3. a <= o.count
    <3>1. q.count \in Int /\ q.count <= o.count /\ n \in Nat /\ o.count \in Int
      BY <1>2, <1>3, Zenon
    <3> HIDE DEF n
    <3> QED
      BY <3>1
  <2>4. Len(W) < Len(o.list)
    <3>1. Len(W) = Len(q.list) - 1 /\ Len(q.list) <= Len(o.list) /\ Len(q.list) \in Nat /\ Len(o.list) \in Nat
      <4>1. Len(q.list) \in Nat /\ Len(o.list) \in Nat
        BY <1>2
      <4> QED
        BY <1>2, <1>3, <4>1, Zenon
    <3> HIDE DEF W
    <3> QED
      BY <3>1
  <2>5. Len(W) <= Len(o.list)
    <3>1. Len(W) \in Nat /\ Len(o.list) \in Nat
      BY <2>1
    <3> HIDE DEF W
    <3> QED
      BY <2>4, <3>1
  <2>6. From(W, o.list)
    BY <1>2, <1>3, FromEach
  <2>7. /\ r \in Queue /\ r.list = W /\ r.count = a /\ r.freed = b
    <3> HIDE DEF W, a, b
    <3> QED
      BY <1>2, <2>1 DEF Queue
  <2> HIDE DEF r
  <2>8. /\ Listed(r.list) /\ From(r.list, o.list)
        /\ r.count = PbufsQueued(r.list) /\ r.count <= o.count
        /\ Len(r.list) <= Len(o.list)
        /\ r.freed > 0 => Len(r.list) < Len(o.list)
    BY <1>3, <2>2, <2>3, <2>4, <2>5, <2>6, <2>7, Zenon
  <2> QED
    BY <2>7, <2>8, Zenon DEF Rooms
<1> QED
  BY <1>1, <1>4, <1>5, Zenon

\* One round.
LEMMA FreeOldestKeeps ==
  ASSUME NEW o, o.list \in Seq(DataEntry), o.count \in Int, NEW q \in Rooms(o), NEW d
  PROVE  FreeOldest(q, d) \in Rooms(o)
<1> DEFINE S == Others(q, d)
           m == Cardinality(S) > 1
           r == [q EXCEPT !.more = m]
           x == OldestOther(q, S)
           prev == Len(q.list) - 1
<1>1. FreeOldest(q, d) = IF S = {} THEN r ELSE FreeComplete(r, x, prev)
  BY Zenon DEF FreeOldest
<1>2. q \in Queue /\ q.list \in Seq(DataEntry)
  BY RoomFields, Zenon
<1>3. S \in SUBSET (1 .. Len(q.list))
  BY <1>2 DEF Others
<1>4. r \in Queue /\ r.list = q.list /\ r.count = q.count /\ r.freed = q.freed
  <2>1. m \in BOOLEAN
    OBVIOUS
  <2> HIDE DEF m, S
  <2> QED
    BY <1>2, <2>1 DEF Queue
<1> HIDE DEF S, m, x, prev, r
<1>5. r \in Rooms(o)
  <2>1. r.freed > 0 => q.freed > 0
    BY <1>4, Zenon
  <2> QED
    BY <1>4, <2>1, RoomAgain
<1>6. CASE S = {}
  BY <1>1, <1>5, <1>6, Zenon
<1>7. CASE ~(S = {})
  <2>1. x \in S
    BY <1>2, <1>3, <1>7, OldestIs DEF x
  <2>2. x \in 1 .. Len(r.list)
    BY <1>3, <1>4, <2>1, Zenon
  <2>3. FreeComplete(r, x, prev) \in Rooms(o)
    BY <1>5, <2>2, FreeCompleteKeeps
  <2> QED
    BY <1>1, <1>7, <2>3, Zenon
<1> QED
  BY <1>6, <1>7, Zenon

\* All of them.
LEMMA RemoveOldestKeeps ==
  ASSUME NEW q \in Queue, Listed(q.list), q.count = PbufsQueued(q.list), NEW d, NEW need \in Nat
  PROVE  RemoveOldest(q, d, need) \in Rooms(q)
<1> DEFINE R == Rooms(q)
           base == [q EXCEPT !.freed = 0, !.more = TRUE]
           next(r) == IF r.freed < need /\ r.more /\ ~r.wrong THEN FreeOldest(r, d) ELSE r
           step == [k \in 1 .. need |-> [r \in R |-> next(r)]]
           Is(g) == g = [n \in 0 .. need |-> IF n = 0 THEN base ELSE next(g[n - 1])]
           round == CHOOSE g : Is(g)
<1>1. q.list \in Seq(DataEntry) /\ q.count \in Int
  BY DEF Queue
<1>2. base \in R
  <2>1. base \in Queue /\ base.list = q.list /\ base.count = q.count /\ base.freed = 0
    BY DEF Queue
  <2> HIDE DEF base
  <2>2. From(q.list, q.list) /\ q.count <= q.count /\ Len(q.list) <= Len(q.list)
    <3>1. q.count <= q.count /\ Len(q.list) <= Len(q.list)
      BY <1>1
    <3> QED
      BY <3>1, FromItself, Zenon
  <2>3. ~(base.freed > 0)
    BY <2>1
  <2> QED
    BY <2>1, <2>2, <2>3, Zenon DEF Rooms
<1>3. ASSUME NEW r \in R PROVE next(r) \in R
  <2>1. FreeOldest(r, d) \in R
    BY <1>1, FreeOldestKeeps
  <2> QED
    BY <2>1, Zenon
<1>4. step \in [1 .. need -> [R -> R]]
  <2> HIDE DEF R, next
  <2> QED
    BY <1>3
<1>5. PICK f \in [0 .. need -> R] : Follows(f, need, base, step)
  <2> HIDE DEF R, base, step
  <2> QED
    BY <1>2, <1>4, RecursionExists
<1>6. Is(f)
  <2>1. f[0] = base
    BY <1>5, Zenon DEF Follows
  <2>2. ASSUME NEW n \in 0 .. need PROVE f[n] = IF n = 0 THEN base ELSE next(f[n - 1])
    <3>1. CASE n = 0
      BY <2>1, <3>1, Zenon
    <3>2. CASE n # 0
      <4>1. n \in 1 .. need /\ n - 1 \in 0 .. need
        BY <3>2
      <4>2. f[n] = step[n][f[n - 1]]
        BY <1>5, <4>1, Zenon DEF Follows
      <4>3. f[n - 1] \in R
        <5> HIDE DEF R
        <5> QED
          BY <1>5, <4>1
      <4>4. step[n][f[n - 1]] = next(f[n - 1])
        <5> HIDE DEF R, next
        <5> QED
          BY <4>1, <4>3
      <4> QED
        BY <3>2, <4>2, <4>4, Zenon
    <3> QED
      BY <3>1, <3>2, Zenon
  <2> HIDE DEF R, base, next
  <2> QED
    BY <1>5, <2>2
<1>7. Is(round)
  <2> HIDE DEF Is
  <2> QED
    BY <1>6, Zenon
<1>8. RemoveOldest(q, d, need) = round[need]
  BY Zenon DEF RemoveOldest
<1> HIDE DEF round
<1>9. \A n \in 0 .. need : round[n] = IF n = 0 THEN base ELSE next(round[n - 1])
  <2>1. round = [n \in 0 .. need |-> IF n = 0 THEN base ELSE next(round[n - 1])]
    BY <1>7, Zenon
  <2> HIDE DEF base, next
  <2> QED
    BY <2>1
<1> DEFINE T == {n \in 0 .. need : round[n] \in R}
<1>10. \A n \in 0 .. need : n \in T
  <2>1. 0 \in T
    <3>1. 0 \in 0 .. need
      OBVIOUS
    <3> QED
      BY <1>2, <1>9, <3>1, Zenon
  <2>2. ASSUME NEW n \in 1 .. need, n - 1 \in T PROVE n \in T
    <3>1. n \in 0 .. need /\ n # 0
      OBVIOUS
    <3>2. round[n - 1] \in R
      BY <2>2, Zenon
    <3> HIDE DEF R, next
    <3>3. round[n] = next(round[n - 1])
      BY <1>9, <3>1, Zenon
    <3> QED
      BY <1>3, <3>1, <3>2, <3>3, Zenon
  <2> HIDE DEF T
  <2> QED
    BY <2>1, <2>2, Reaches
<1>11. need \in 0 .. need
  OBVIOUS
<1> QED
  BY <1>8, <1>10, <1>11, Zenon

-----------------------------------------------------------------------------
(* A fragment into its datagram.                                           *)

\* The invariant of the list and its count,
Holds(list, count) ==
  /\ Listed(list) /\ Len(list) <= REASSDATA
  /\ count = PbufsQueued(list) /\ count <= IP_REASS_MAX_PBUFS

\* and of the component.
ReassInv == Holds(reassdatagrams, ip_reass_pbufcount) /\ PassedUpInOrder

\* Only a fragment that comes after another can be thrown away.
LEMMA ThrownAwaySome ==
  ASSUME NEW p \in Seq(Fragment), NEW f \in Fragment, ThrownAway(p, f)
  PROVE  p # <<>>
<1>1. /\ Passed(p, f) \in 0 .. Len(p) /\ Len(p) \in Nat
      /\ Walked(p, f) \in Seq(Fragment) /\ Len(Walked(p, f)) = Passed(p, f)
  BY InsertedIs, Zenon DEF ChainSplit
<1>2. Walked(p, f) # <<>>
  <2>1. (\E i \in DOMAIN Walked(p, f) : f.start < p[i].end) \/ Walked(p, f) # <<>>
    BY Zenon DEF ThrownAway
  <2>2. CASE \E i \in DOMAIN Walked(p, f) : f.start < p[i].end
    <3>1. DOMAIN Walked(p, f) # {}
      BY <2>2, Zenon
    <3> DEFINE W == Walked(p, f)
    <3> HIDE DEF W
    <3>2. DOMAIN W # {} => W # <<>>
      OBVIOUS
    <3> QED
      BY <3>1, <3>2, Zenon DEF W
  <2> QED
    BY <2>1, <2>2, Zenon
<1>3. Len(Walked(p, f)) # 0
  <2> DEFINE W == Walked(p, f)
  <2>1. W \in Seq(Fragment) /\ W # <<>>
    BY <1>1, <1>2, Zenon
  <2> HIDE DEF W
  <2>2. Len(W) # 0
    BY <2>1, EmptySeq
  <2> QED
    BY <2>2, Zenon DEF W
<1>4. Len(p) # 0
  BY <1>1, <1>3
<1> QED
  BY <1>4

\* With a fragment more an entry still waits, unless it is passed up.
LEMMA WaitsStill ==
  ASSUME NEW p \in Seq(Fragment), NEW f \in Fragment, NEW r, NEW s, r.p = p, StillWaits(r),
         s.p = ChainWith(p, f), s.last = SeenLast(r, f), ~(s.last /\ Valid(p, f))
  PROVE  StillWaits(s)
<1> DEFINE k == Passed(p, f)
           I == ChainWith(p, f)
           n == Len(p)
<1>1. ChainSplit(p, f, k, I)
  BY InsertedIs
<1> HIDE DEF k, I
<1>2. /\ k \in 0 .. n /\ n \in Nat /\ I \in Seq(Fragment) /\ Len(I) = n + 1
      /\ \A j \in 1 .. k : I[j] = p[j]
      /\ I[k + 1] = f
      /\ \A j \in 1 .. n - k : I[k + 1 + j] = p[k + j]
  BY <1>1, Zenon DEF ChainSplit
<1>3. \A j \in 1 .. n : p[j].end = Size => r.last
  BY Zenon DEF StillWaits
<1> HIDE DEF n
<1>4. ASSUME NEW j \in 1 .. n + 1, I[j].end = Size PROVE s.last
  <2>0. s.last = (r.last \/ f.end = Size)
    BY Zenon DEF SeenLast
  <2>1. CASE j \in 1 .. k
    <3>1. j \in 1 .. n
      BY <1>2, <2>1
    <3>2. I[j] = p[j]
      BY <1>2, <2>1, Zenon
    <3> QED
      BY <1>3, <1>4, <2>0, <3>1, <3>2, Zenon
  <2>2. CASE j = k + 1
    BY <1>2, <1>4, <2>0, <2>2, Zenon
  <2>3. CASE ~(j \in 1 .. k) /\ j # k + 1
    <3>1. j - (k + 1) \in 1 .. n - k /\ k + 1 + (j - (k + 1)) = j /\ k + (j - (k + 1)) \in 1 .. n
      BY <1>2, <2>3
    <3>2. I[j] = p[k + (j - (k + 1))]
      BY <1>2, <3>1, Zenon
    <3> QED
      BY <1>3, <1>4, <2>0, <3>1, <3>2, Zenon
  <2> QED
    BY <2>1, <2>2, <2>3, Zenon
<1>5. ~Complete(I)
  <2> SUFFICES ASSUME Complete(I) PROVE FALSE
    OBVIOUS
  <2>1. Valid(p, f)
    BY CompleteIsValid DEF I
  <2>2. I[Len(I)].end = Size
    BY Zenon DEF Complete
  <2>3. Len(I) \in 1 .. n + 1
    BY <1>2
  <2> QED
    BY <1>4, <2>1, <2>2, <2>3, Zenon
<1>6. Len(s.p) = n + 1 /\ s.p = I
  BY <1>2, Zenon DEF I
<1> QED
  BY <1>4, <1>5, <1>6, Zenon DEF StillWaits

\* The entry i is put back.
LEMMA PutBack ==
  ASSUME NEW list, NEW i \in 1 .. Len(list), ListedBut(list, i), NEW r \in DataEntry,
         r.id = list[i].id, StillWaits(r), r.p # <<>>
  PROVE  Listed([list EXCEPT ![i] = r]) /\ Len([list EXCEPT ![i] = r]) = Len(list)
<1> DEFINE new == [list EXCEPT ![i] = r]
           n == Len(list)
<1>1. /\ list \in Seq(DataEntry) /\ OncePerDatagram(list)
      /\ \A k \in 1 .. n : k # i => StillWaits(list[k]) /\ list[k].p # <<>>
  BY Zenon DEF ListedBut
<1>2. /\ new \in Seq(DataEntry) /\ Len(new) = n
      /\ new[i] = r /\ \A k \in 1 .. n : k # i => new[k] = list[k]
  BY <1>1
<1> HIDE DEF new
<1>3. \A k \in 1 .. n : new[k].id = list[k].id
  BY <1>2, Zenon
<1>4. \A k \in 1 .. n : StillWaits(new[k]) /\ new[k].p # <<>>
  BY <1>1, <1>2, Zenon
<1>5. OncePerDatagram(new)
  BY <1>1, <1>2, <1>3, Zenon DEF OncePerDatagram
<1>6. Listed(new)
  BY <1>2, <1>4, <1>5, Zenon DEF Listed
<1> QED
  BY <1>2, <1>6, Zenon DEF new

\* Most steps pass nothing up.
LEMMA NothingPassedUp ==
  ASSUME passed_up' = NoDatagram
  PROVE  PassedUpInOrder'
BY Zenon DEF PassedUpInOrder

\* Whatever becomes of the fragment, the list keeps what it keeps.
LEMMA ChainKeeps ==
  ASSUME NEW q \in Queue, NEW i \in 1 .. Len(q.list), NEW f \in Fragment,
         ListedBut(q.list, i), StillWaits(q.list[i]), q.count = PbufsQueued(q.list),
         q.count + Clen(f) <= IP_REASS_MAX_PBUFS, Len(q.list) <= REASSDATA,
         Chain(q, i, f)
  PROVE  ReassInv'
<1> DEFINE list == q.list
           r == list[i]
           p == r.p
           I == ChainWith(p, f)
           v == SeenLast(r, f)
           s == [r EXCEPT !.last = v, !.p = I]
           t == [r EXCEPT !.last = v]
           W == Without(list, i)
           c == Clen(f)
           b == Pbufs_of(p)
           w == PbufsQueued(W)
           MAX == IP_REASS_MAX_PBUFS
<1>1. list \in Seq(DataEntry) /\ q.count \in Int
  BY DEF Queue
<1>2. r \in DataEntry
  BY <1>1
<1>3. p \in Seq(Fragment) /\ v \in BOOLEAN
  BY <1>2, EntryFields DEF SeenLast
<1>4. I \in Seq(Fragment) /\ Len(I) = Len(p) + 1 /\ Pbufs_of(I) = b + c
  BY <1>3, InsertedIs, Zenon DEF ChainSplit
<1>5. b \in Nat /\ c \in Nat /\ w \in Nat /\ PbufsQueued(list) = w + b /\ MAX \in Int
  <2>1. b \in Nat /\ w \in Nat /\ PbufsQueued(list) = w + b
    BY <1>1, QueuedWithout, Zenon
  <2>2. c \in Nat
    BY FragmentFields
  <2>3. MAX \in Int
    BY IpReassAssumption DEF IpReassAssumption
  <2> QED
    BY <2>1, <2>2, <2>3, Zenon
<1>6. /\ Listed(W) /\ Len(W) = Len(list) - 1 /\ Len(list) \in Nat
  BY WithoutListed, Zenon
<1>7. s \in DataEntry /\ s.id = r.id /\ s.p = I /\ s.last = v /\ t \in DataEntry /\ t.id = r.id /\ t.p = p /\ t.last = v
  <2> HIDE DEF r, I, v
  <2>1. r \in DataEntry /\ I \in Seq(Fragment) /\ v \in BOOLEAN
    BY <1>2, <1>3, <1>4, Zenon
  <2> QED
    BY <2>1 DEF DataEntry
<1>8. w <= MAX /\ w + b <= MAX /\ (w + b) + c <= MAX
  <2>1. (w + b) + c <= MAX
    BY <1>5, Zenon
  <2> HIDE DEF w, b, c, MAX
  <2> QED
    BY <1>5, <2>1
<1>9. \/ ThrownAway(p, f) /\ Keeps([q EXCEPT !.list[i].last = v])
      \/ /\ ~ThrownAway(p, f) /\ ~(v /\ Valid(p, f))
         /\ Keeps([q EXCEPT !.list[i] = s, !.count = @ + c])
      \/ /\ ~ThrownAway(p, f) /\ v /\ Valid(p, f)
         /\ reassdatagrams' = W
         /\ ip_reass_pbufcount' = q.count + c - Pbufs_of(I)
         /\ passed_up' = I
  <2>1. s = [r EXCEPT !.last = SeenLast(r, f), !.p = Walked(@, f) \o <<f>> \o Beyond(@, f)]
    BY Zenon DEF ChainWith
  <2> HIDE DEF v, I, W, c
  <2>2. s.last = v /\ s.p = I
    BY <1>7, Zenon
  <2> QED
    BY <2>1, <2>2, Zenon DEF Chain, v, I, W, c
<1>10. CASE ThrownAway(p, f) /\ Keeps([q EXCEPT !.list[i].last = v])
  <2> DEFINE new == [list EXCEPT ![i] = t]
  <2>1. [q EXCEPT !.list[i].last = v].list = new /\ [q EXCEPT !.list[i].last = v].count = q.count
    <3> HIDE DEF v
    <3> QED
      BY <1>1, <1>2 DEF Queue
  <2>2. reassdatagrams' = new /\ ip_reass_pbufcount' = q.count /\ passed_up' = NoDatagram
    BY <1>10, <2>1, Zenon DEF Keeps
  <2>3. StillWaits(t)
    <3>1. ~Complete(p) /\ \A j \in 1 .. Len(p) : p[j].end = Size => r.last
      BY Zenon DEF StillWaits
    <3>2. r.last => v
      BY Zenon DEF SeenLast
    <3> HIDE DEF t, v
    <3> QED
      BY <1>7, <3>1, <3>2, Zenon DEF StillWaits
  <2>4. t.p # <<>>
    BY <1>3, <1>7, <1>10, ThrownAwaySome, Zenon
  <2>5. Listed(new) /\ Len(new) = Len(list)
    <3> HIDE DEF t
    <3>1. t \in DataEntry /\ t.id = list[i].id
      BY <1>7, Zenon
    <3> QED
      BY <2>3, <2>4, <3>1, PutBack
  <2>6. PbufsQueued(new) = w + b
    <3> HIDE DEF t
    <3>1. t \in DataEntry
      BY <1>7, Zenon
    <3>2. PbufsQueued(new) = w + Pbufs_of(t.p)
      BY <1>1, <3>1, QueuedAround
    <3> QED
      BY <1>7, <3>2, Zenon
  <2> HIDE DEF new
  <2>7. Holds(new, q.count)
    BY <1>5, <1>8, <2>5, <2>6, Zenon DEF Holds
  <2> QED
    BY <2>2, <2>7, NothingPassedUp, Zenon DEF ReassInv, Holds
<1>11. CASE /\ ~ThrownAway(p, f) /\ ~(v /\ Valid(p, f))
            /\ Keeps([q EXCEPT !.list[i] = s, !.count = @ + c])
  <2> DEFINE new == [list EXCEPT ![i] = s]
  <2>1. /\ [q EXCEPT !.list[i] = s, !.count = @ + c].list = new
        /\ [q EXCEPT !.list[i] = s, !.count = @ + c].count = q.count + c
    <3> HIDE DEF s, c
    <3> QED
      BY <1>1 DEF Queue
  <2>2. reassdatagrams' = new /\ ip_reass_pbufcount' = q.count + c /\ passed_up' = NoDatagram
    BY <1>11, <2>1, Zenon DEF Keeps
  <2>3. StillWaits(s)
    <3> HIDE DEF s
    <3>1. s.p = ChainWith(p, f) /\ s.last = SeenLast(r, f) /\ ~(s.last /\ Valid(p, f))
      BY <1>7, <1>11, Zenon
    <3> HIDE DEF r
    <3>2. StillWaits(r)
      BY Zenon DEF r
    <3> QED
      BY <1>3, <3>1, <3>2, WaitsStill
  <2>4. s.p # <<>>
    <3>1. Len(I) # 0
      <4>1. Len(p) \in Nat
        BY <1>3
      <4> HIDE DEF I, p
      <4> QED
        BY <1>4, <4>1
    <3>2. I # <<>>
      <4> HIDE DEF I
      <4> QED
        BY <3>1
    <3> QED
      BY <1>7, <3>2, Zenon
  <2>5. Listed(new) /\ Len(new) = Len(list)
    <3> HIDE DEF s
    <3>1. s \in DataEntry /\ s.id = list[i].id
      BY <1>7, Zenon
    <3> QED
      BY <2>3, <2>4, <3>1, PutBack
  <2>6. PbufsQueued(new) = w + (b + c)
    <3> HIDE DEF s
    <3>1. s \in DataEntry
      BY <1>7, Zenon
    <3>2. PbufsQueued(new) = w + Pbufs_of(s.p)
      BY <1>1, <3>1, QueuedAround
    <3> QED
      BY <1>4, <1>7, <3>2, Zenon
  <2>7. PbufsQueued(new) = q.count + c
    <3> DEFINE x == PbufsQueued(new)
               y == q.count
    <3>1. x = w + (b + c) /\ y = w + b
      BY <1>5, <2>6, Zenon
    <3> HIDE DEF x, y, w, b, c
    <3>2. x = y + c
      BY <1>5, <3>1
    <3> QED
      BY <3>2, Zenon DEF x, y
  <2> HIDE DEF new
  <2>8. Holds(new, q.count + c)
    BY <2>5, <2>7, Zenon DEF Holds
  <2> QED
    BY <2>2, <2>8, NothingPassedUp, Zenon DEF ReassInv, Holds
<1>12. CASE /\ ~ThrownAway(p, f) /\ v /\ Valid(p, f)
            /\ reassdatagrams' = W
            /\ ip_reass_pbufcount' = q.count + c - Pbufs_of(I)
            /\ passed_up' = I
  <2>1. q.count + c - Pbufs_of(I) = w
    <3> DEFINE y == q.count
               x == Pbufs_of(I)
    <3>1. y = w + b /\ x = b + c
      BY <1>4, <1>5, Zenon
    <3> HIDE DEF x, y, w, b, c
    <3>2. y + c - x = w
      BY <1>5, <3>1
    <3> QED
      BY <3>2, Zenon DEF x, y
  <2>2. Len(W) <= REASSDATA
    <3>1. REASSDATA \in Int
      BY IpReassAssumption DEF IpReassAssumption
    <3> HIDE DEF W, list
    <3>2. Len(list) <= REASSDATA
      BY Zenon DEF list
    <3> QED
      BY <1>6, <3>1, <3>2
  <2>3. Holds(W, w)
    BY <1>6, <1>8, <2>2, Zenon DEF Holds
  <2>4. I[1].start = 0 /\ \A j \in 1 .. Len(I) - 1 : I[j].end <= I[j + 1].start
    BY <1>3, <1>12, ValidIsInOrder
  <2>5. PassedUpInOrder'
    <3> HIDE DEF I
    <3> QED
      BY <1>12, <2>4, Zenon DEF PassedUpInOrder
  <2>6. reassdatagrams' = W /\ ip_reass_pbufcount' = w
    BY <1>12, <2>1, Zenon
  <2> HIDE DEF W, w
  <2> QED
    BY <2>3, <2>5, <2>6, Zenon DEF ReassInv, Holds
<1> QED
  BY <1>9, <1>10, <1>11, <1>12, Zenon

\* A queue in order is kept.
LEMMA KeepsHolds ==
  ASSUME NEW q, Keeps(q), Holds(q.list, q.count)
  PROVE  ReassInv'
<1>1. reassdatagrams' = q.list /\ ip_reass_pbufcount' = q.count /\ passed_up' = NoDatagram
  BY Zenon DEF Keeps
<1> QED
  BY <1>1, NothingPassedUp, Zenon DEF ReassInv, Holds

\* What is left of a queue that was in order is.
LEMMA RoomHolds ==
  ASSUME NEW o \in Queue, Holds(o.list, o.count), NEW q \in Rooms(o)
  PROVE  Holds(q.list, q.count)
<1>1. /\ q.list \in Seq(DataEntry) /\ q.count \in Int
      /\ Listed(q.list) /\ q.count = PbufsQueued(q.list) /\ q.count <= o.count
      /\ Len(q.list) <= Len(o.list)
  BY RoomFields, Zenon
<1>2. Len(o.list) <= REASSDATA /\ o.count <= IP_REASS_MAX_PBUFS
  BY Zenon DEF Holds
<1>3. o.list \in Seq(DataEntry) /\ o.count \in Int
  BY DEF Queue
<1>4. REASSDATA \in Int /\ IP_REASS_MAX_PBUFS \in Int
  BY IpReassAssumption DEF IpReassAssumption
<1>5. Len(q.list) \in Int /\ Len(o.list) \in Int
  BY <1>1, <1>3
<1>6. q.count <= IP_REASS_MAX_PBUFS
  <2> DEFINE a == q.count
             b == o.count
  <2>1. a \in Int /\ b \in Int /\ a <= b /\ b <= IP_REASS_MAX_PBUFS
    BY <1>1, <1>2, <1>3, Zenon
  <2> HIDE DEF a, b
  <2>2. a <= IP_REASS_MAX_PBUFS
    BY <1>4, <2>1
  <2> QED
    BY <2>2, Zenon DEF a
<1>7. Len(q.list) <= REASSDATA
  <2> DEFINE a == Len(q.list)
             b == Len(o.list)
  <2>1. a \in Int /\ b \in Int /\ a <= b /\ b <= REASSDATA
    BY <1>1, <1>2, <1>5, Zenon
  <2> HIDE DEF a, b
  <2>2. a <= REASSDATA
    BY <1>4, <2>1
  <2> QED
    BY <2>2, Zenon DEF a
<1> QED
  BY <1>1, <1>6, <1>7, Zenon DEF Holds

\* A new entry in front.
LEMMA NewEntryFirst ==
  ASSUME NEW list, Listed(list), NEW d \in Datagram,
         \A i \in 1 .. Len(list) : list[i].id # d
  PROVE  LET new == <<NewData(d)>> \o list
         IN  /\ ListedBut(new, 1) /\ new \in Seq(DataEntry) /\ Len(new) = Len(list) + 1 /\ Len(list) \in Nat
             /\ new[1] = NewData(d) /\ StillWaits(new[1]) /\ 1 \in 1 .. Len(new)
             /\ PbufsQueued(new) = PbufsQueued(list)
<1> DEFINE r == NewData(d)
           o == <<r>>
           new == o \o list
           n == Len(list)
<1>1. /\ list \in Seq(DataEntry) /\ OncePerDatagram(list)
      /\ \A i \in 1 .. n : StillWaits(list[i]) /\ list[i].p # <<>>
  BY Zenon DEF Listed
<1>2. r \in DataEntry /\ r.p = <<>> /\ r.id = d
  BY IpReassAssumption DEF NewData, DataEntry, IpReassAssumption
<1> HIDE DEF r
<1>3. o \in Seq(DataEntry) /\ Len(o) = 1 /\ o[1] = r
  BY <1>2
<1>4. PbufsQueued(o) = 0
  BY <1>2, QueuedOfOne, PbufsOfNone
<1> HIDE DEF o
<1>5. /\ new \in Seq(DataEntry) /\ Len(new) = 1 + n /\ n \in Nat
      /\ new[1] = r
      /\ \A i \in 1 .. n : new[1 + i] = list[i]
  <2>1. list \in Seq(DataEntry) /\ o \in Seq(DataEntry)
    BY <1>1, <1>3, Zenon
  <2>2. /\ o \o list \in Seq(DataEntry) /\ Len(o \o list) = Len(o) + Len(list)
        /\ \A i \in 1 .. Len(o) : (o \o list)[i] = o[i]
        /\ \A i \in 1 .. Len(list) : (o \o list)[Len(o) + i] = list[i]
        /\ Len(list) \in Nat
    BY <2>1, Joined
  <2>3. 1 \in 1 .. 1
    OBVIOUS
  <2> QED
    BY <1>3, <2>2, <2>3, Zenon
<1>6. PbufsQueued(new) = PbufsQueued(list)
  <2>1. list \in Seq(DataEntry) /\ o \in Seq(DataEntry)
    BY <1>1, <1>3, Zenon
  <2>2. PbufsQueued(o \o list) = PbufsQueued(o) + PbufsQueued(list) /\ PbufsQueued(list) \in Nat
    BY <2>1, QueuedJoined
  <2> DEFINE x == PbufsQueued(list)
  <2>3. PbufsQueued(new) = 0 + x /\ x \in Nat
    BY <1>4, <2>2, Zenon
  <2> HIDE DEF x, new
  <2>4. 0 + x = x
    BY <2>3
  <2> QED
    BY <2>3, <2>4, Zenon DEF x
<1> HIDE DEF new, n
<1>7. ASSUME NEW i \in 1 .. 1 + n, i # 1 PROVE i - 1 \in 1 .. n /\ new[i] = list[i - 1]
  <2>1. i - 1 \in 1 .. n /\ 1 + (i - 1) = i
    BY <1>5, <1>7
  <2> QED
    BY <1>5, <2>1, Zenon
<1>8. OncePerDatagram(new)
  <2>0. \A i \in 1 .. n : list[i].id # d
    BY DEF n
  <2>1. ASSUME NEW i \in 1 .. 1 + n, NEW j \in 1 .. 1 + n, new[i].id = new[j].id
        PROVE  i = j
    <3>1. CASE i = 1 /\ j = 1
      BY <3>1, Zenon
    <3>2. CASE i = 1 /\ j # 1
      BY <1>2, <1>5, <1>7, <2>0, <2>1, <3>2, Zenon
    <3>3. CASE i # 1 /\ j = 1
      BY <1>2, <1>5, <1>7, <2>0, <2>1, <3>3, Zenon
    <3>4. CASE i # 1 /\ j # 1
      <4>1. i - 1 \in 1 .. n /\ j - 1 \in 1 .. n /\ list[i - 1].id = list[j - 1].id
        BY <1>7, <2>1, <3>4, Zenon
      <4>2. i - 1 = j - 1
        BY <1>1, <4>1, Zenon DEF OncePerDatagram, n
      <4> QED
        BY <4>2
    <3> QED
      BY <3>1, <3>2, <3>3, <3>4, Zenon
  <2> QED
    BY <1>5, <2>1, Zenon DEF OncePerDatagram
<1>9. ListedBut(new, 1)
  <2>1. \A i \in 1 .. Len(new) : i # 1 => StillWaits(new[i]) /\ new[i].p # <<>>
    BY <1>1, <1>5, <1>7, Zenon DEF n
  <2> QED
    BY <1>5, <1>8, <2>1, Zenon DEF ListedBut
<1>10. StillWaits(new[1])
  <2>1. ~Complete(r.p)
    BY <1>2, Zenon DEF Complete
  <2>2. \A j \in 1 .. Len(r.p) : r.p[j].end = Size => r.last
    <3>1. Len(r.p) = 0
      BY <1>2
    <3>2. \A j \in 1 .. 0 : FALSE
      OBVIOUS
    <3> QED
      BY <3>1, <3>2, Zenon
  <2> QED
    BY <1>5, <2>1, <2>2, Zenon DEF StillWaits
<1>11. Len(new) = n + 1 /\ 1 \in 1 .. Len(new)
  BY <1>5
<1> QED
  BY <1>5, <1>6, <1>9, <1>10, <1>11, Zenon DEF new, o, r, n

\* The first fragment of a datagram.
LEMMA EnqueueKeeps ==
  ASSUME NEW q \in Queue, Holds(q.list, q.count), NEW d \in Datagram, NEW f \in Fragment,
         IndexOf(q, d) = {}, ~Full(q, f), Enqueue(q, d, f)
  PROVE  ReassInv'
<1> DEFINE c == Clen(f)
           a == [q EXCEPT !.freed = c]
           b == RemoveOldest(q, d, c)
           room == IF Len(q.list) < REASSDATA THEN a ELSE b
           z == [room EXCEPT !.list = <<NewData(d)>> \o @]
<1>1. /\ q.list \in Seq(DataEntry) /\ q.count \in Int /\ q.freed \in Nat
      /\ Len(q.list) \in Int
  <2>1. /\ q.list \in Seq(DataEntry) /\ q.count \in Int /\ q.freed \in Nat
    BY DEF Queue
  <2> QED
    BY <2>1
<1>2. /\ Listed(q.list) /\ Len(q.list) <= REASSDATA
      /\ q.count = PbufsQueued(q.list) /\ q.count <= IP_REASS_MAX_PBUFS
  BY Zenon DEF Holds
<1>3. c \in Nat /\ c >= 1 /\ REASSDATA \in Int /\ IP_REASS_MAX_PBUFS \in Int
  BY FragmentFields, IpReassAssumption DEF IpReassAssumption
<1>4. IF room.wrong \/ room.freed < c THEN Keeps(room) ELSE Chain(z, 1, f)
  BY Zenon DEF Enqueue
<1> HIDE DEF c
<1>5. /\ room \in Queue /\ Listed(room.list) /\ From(room.list, q.list)
      /\ room.count = PbufsQueued(room.list) /\ room.count <= q.count
      /\ Len(room.list) <= Len(q.list)
      /\ ~(room.freed < c) => Len(room.list) < REASSDATA
  <2>1. CASE Len(q.list) < REASSDATA
    <3>1. a \in Queue /\ a.list = q.list /\ a.count = q.count
      BY <1>3 DEF Queue
    <3> HIDE DEF a, b
    <3>2. room = a
      BY <2>1, Zenon
    <3>3. q.count <= q.count /\ Len(q.list) <= Len(q.list)
      BY <1>1
    <3> QED
      BY <1>2, <2>1, <3>1, <3>2, <3>3, FromItself, Zenon
  <2>2. CASE ~(Len(q.list) < REASSDATA)
    <3>1. b \in Rooms(q)
      BY <1>2, <1>3, RemoveOldestKeeps
    <3> HIDE DEF a, b
    <3>2. room = b
      BY <2>2, Zenon
    <3>3. /\ b \in Queue /\ Listed(b.list) /\ From(b.list, q.list)
          /\ b.count = PbufsQueued(b.list) /\ b.count <= q.count
          /\ Len(b.list) <= Len(q.list)
          /\ b.freed > 0 => Len(b.list) < Len(q.list)
          /\ b.freed \in Nat /\ b.list \in Seq(DataEntry)
      BY <3>1, RoomFields, Zenon
    <3>4. ASSUME ~(b.freed < c) PROVE Len(b.list) < REASSDATA
      <4>1. b.freed > 0
        BY <1>3, <3>3, <3>4
      <4>2. Len(b.list) < Len(q.list)
        BY <3>3, <4>1, Zenon
      <4>3. Len(b.list) \in Int
        BY <3>3
      <4> QED
        BY <1>1, <1>2, <1>3, <4>2, <4>3
    <3> QED
      BY <3>2, <3>3, <3>4, Zenon
  <2> QED
    BY <2>1, <2>2, Zenon
<1> HIDE DEF room, a, b
<1>6. room.list \in Seq(DataEntry) /\ room.count \in Int /\ Len(room.list) \in Nat
  <2>1. room.list \in Seq(DataEntry) /\ room.count \in Int
    BY <1>5 DEF Queue
  <2> QED
    BY <2>1
<1>7. q.count + c <= IP_REASS_MAX_PBUFS
  BY <1>1, <1>3 DEF Full, c
<1>8. room.count + c <= IP_REASS_MAX_PBUFS /\ room.count <= IP_REASS_MAX_PBUFS
  <2> DEFINE x == room.count
             y == q.count
  <2>1. x \in Int /\ y \in Int /\ x <= y /\ y + c <= IP_REASS_MAX_PBUFS
    BY <1>1, <1>5, <1>6, <1>7, Zenon
  <2> HIDE DEF x, y
  <2>2. x + c <= IP_REASS_MAX_PBUFS /\ x <= IP_REASS_MAX_PBUFS
    BY <1>3, <2>1
  <2> QED
    BY <2>2, Zenon DEF x
<1>9. CASE room.wrong \/ room.freed < c
  <2>1. Len(room.list) <= REASSDATA
    BY <1>1, <1>2, <1>3, <1>5, <1>6
  <2>2. Holds(room.list, room.count)
    BY <1>5, <1>8, <2>1, Zenon DEF Holds
  <2>3. Keeps(room)
    BY <1>4, <1>9, Zenon
  <2> QED
    BY <2>2, <2>3, KeepsHolds
<1>10. CASE ~(room.wrong \/ room.freed < c)
  <2> DEFINE new == <<NewData(d)>> \o room.list
  <2>1. \A i \in 1 .. Len(room.list) : room.list[i].id # d
    <3>1. \A j \in 1 .. Len(q.list) : q.list[j].id # d
      BY <1>1 DEF IndexOf
    <3> QED
      BY <1>5, <3>1, Zenon DEF From
  <2>2. /\ ListedBut(new, 1) /\ new \in Seq(DataEntry) /\ Len(new) = Len(room.list) + 1
        /\ new[1] = NewData(d) /\ StillWaits(new[1]) /\ 1 \in 1 .. Len(new)
        /\ PbufsQueued(new) = PbufsQueued(room.list)
    <3>1. Listed(room.list)
      BY <1>5, Zenon
    <3> QED
      BY <2>1, <3>1, NewEntryFirst
  <2>3. z \in Queue /\ z.list = new /\ z.count = room.count
    <3>1. z = [room EXCEPT !.list = new]
      OBVIOUS
    <3> HIDE DEF z, new
    <3> QED
      BY <1>5, <2>2, <3>1 DEF Queue
  <2>4. Len(new) <= REASSDATA
    <3>1. Len(room.list) < REASSDATA
      BY <1>5, <1>10, Zenon
    <3> HIDE DEF new
    <3> QED
      BY <1>3, <1>6, <2>2, <3>1
  <2>5. Chain(z, 1, f)
    BY <1>4, <1>10, Zenon
  <2> HIDE DEF z, new
  <2>6. /\ z \in Queue /\ 1 \in 1 .. Len(z.list) /\ ListedBut(z.list, 1) /\ StillWaits(z.list[1])
        /\ z.count = PbufsQueued(z.list) /\ z.count + Clen(f) <= IP_REASS_MAX_PBUFS
        /\ Len(z.list) <= REASSDATA
    BY <1>5, <1>8, <2>2, <2>3, <2>4, Zenon DEF c
  <2> QED
    BY <2>5, <2>6, ChainKeeps
<1> QED
  BY <1>9, <1>10, Zenon

\* A call of ip_reass.
LEMMA IpFragmentKeeps ==
  ASSUME ReassInv, NEW d \in Datagram, NEW f \in Fragment, IpFragment(d, f)
  PROVE  ReassInv'
<1> DEFINE now == [list |-> reassdatagrams, count |-> ip_reass_pbufcount,
                   freed |-> 0, more |-> TRUE, wrong |-> FALSE]
           c == Clen(f)
           b == RemoveOldest(now, d, c)
           room == IF Full(now, f) THEN b ELSE now
<1>1. /\ Listed(reassdatagrams) /\ ip_reass_pbufcount = PbufsQueued(reassdatagrams)
      /\ Holds(reassdatagrams, ip_reass_pbufcount)
  BY Zenon DEF ReassInv, Holds
<1>2. reassdatagrams \in Seq(DataEntry) /\ ip_reass_pbufcount \in Int
  <2>1. reassdatagrams \in Seq(DataEntry)
    BY <1>1, Zenon DEF Listed
  <2>2. PbufsQueued(reassdatagrams) \in Nat
    BY <2>1, QueuedJoined
  <2> QED
    BY <1>1, <2>1, <2>2
<1>3. now \in Queue /\ now.list = reassdatagrams /\ now.count = ip_reass_pbufcount
  BY <1>2 DEF Queue
<1>4. \/ (room.wrong \/ Full(room, f)) /\ Keeps(room)
      \/ /\ ~room.wrong /\ ~Full(room, f) /\ IndexOf(room, d) = {}
         /\ Enqueue(room, d, f)
      \/ /\ ~room.wrong /\ ~Full(room, f)
         /\ \E i \in IndexOf(room, d) : Chain(room, i, f)
  BY Zenon DEF IpFragment
<1> HIDE DEF now
<1>5. c \in Nat
  BY FragmentFields
<1>6. room \in Queue /\ Holds(room.list, room.count)
  <2>1. CASE Full(now, f)
    <3>1. Listed(now.list) /\ now.count = PbufsQueued(now.list) /\ Holds(now.list, now.count)
      BY <1>1, <1>3, Zenon
    <3>2. b \in Rooms(now)
      <4> HIDE DEF c
      <4> QED
        BY <1>3, <1>5, <3>1, RemoveOldestKeeps
    <3> HIDE DEF b
    <3>3. b \in Queue
      BY <3>2, RoomFields, Zenon
    <3>4. Holds(b.list, b.count)
      BY <1>3, <3>1, <3>2, RoomHolds
    <3> QED
      BY <2>1, <3>3, <3>4, Zenon
  <2>2. CASE ~Full(now, f)
    <3> HIDE DEF b
    <3> QED
      BY <1>1, <1>3, <2>2, Zenon
  <2> QED
    BY <2>1, <2>2, Zenon
<1> HIDE DEF room, b
<1>7. CASE Keeps(room)
  BY <1>6, <1>7, KeepsHolds
<1>8. CASE ~Full(room, f) /\ IndexOf(room, d) = {} /\ Enqueue(room, d, f)
  BY <1>6, <1>8, EnqueueKeeps
<1>9. CASE ~Full(room, f) /\ \E i \in IndexOf(room, d) : Chain(room, i, f)
  <2>1. PICK i \in IndexOf(room, d) : Chain(room, i, f)
    BY <1>9, Zenon
  <2>2. room.list \in Seq(DataEntry) /\ room.count \in Int
    BY <1>6 DEF Queue
  <2>3. i \in 1 .. Len(room.list)
    BY <2>1, <2>2 DEF IndexOf
  <2>4. /\ Listed(room.list) /\ Len(room.list) <= REASSDATA
        /\ room.count = PbufsQueued(room.list)
    BY <1>6, Zenon DEF Holds
  <2>5. ListedBut(room.list, i) /\ StillWaits(room.list[i])
    BY <2>3, <2>4, Zenon DEF Listed, ListedBut
  <2>6. room.count + Clen(f) <= IP_REASS_MAX_PBUFS
    <3>1. ~(room.count + c > IP_REASS_MAX_PBUFS)
      BY <1>9, Zenon DEF Full
    <3>2. IP_REASS_MAX_PBUFS \in Int
      BY IpReassAssumption DEF IpReassAssumption
    <3> HIDE DEF c
    <3>3. room.count + c <= IP_REASS_MAX_PBUFS
      BY <1>5, <2>2, <3>1, <3>2
    <3> QED
      BY <3>3, Zenon DEF c
  <2> QED
    BY <1>6, <2>1, <2>3, <2>4, <2>5, <2>6, ChainKeeps
<1> QED
  BY <1>4, <1>7, <1>8, <1>9, Zenon

-----------------------------------------------------------------------------
(* ip_reass_tmr.                                                           *)

\* The entries that the timer has looked at.
First(list, n) == SubSeq(list, 1, n)

\* What Unexpired has kept of the first n.
KeptOf(kept, list, n) ==
  /\ kept \in Seq(DataEntry) /\ Len(kept) <= n /\ OncePerDatagram(kept)
  /\ \A i \in 1 .. Len(kept) : ~TimedOut(kept[i]) /\ \E j \in 1 .. n : kept[i] = list[j]
  /\ PbufsQueued(kept) <= PbufsQueued(First(list, n))

\* One more element at the end.
LEMMA QueuedAppended ==
  ASSUME NEW list \in Seq(DataEntry), NEW r \in DataEntry
  PROVE  /\ PbufsQueued(Append(list, r)) = PbufsQueued(list) + Pbufs_of(r.p)
         /\ PbufsQueued(list) \in Nat /\ Pbufs_of(r.p) \in Nat
<1> DEFINE o == <<r>>
<1>1. o \in Seq(DataEntry) /\ PbufsQueued(o) = Pbufs_of(r.p)
  BY QueuedOfOne
<1>2. Append(list, r) = list \o o
  OBVIOUS
<1> HIDE DEF o
<1>3. PbufsQueued(list \o o) = PbufsQueued(list) + PbufsQueued(o) /\ PbufsQueued(list) \in Nat
  BY <1>1, QueuedJoined
<1> QED
  BY <1>1, <1>2, <1>3, LoadOf, Zenon

\* One more of them.
LEMMA FirstGrows ==
  ASSUME NEW list \in Seq(DataEntry), NEW n \in 1 .. Len(list)
  PROVE  /\ First(list, n) = Append(First(list, n - 1), list[n])
         /\ First(list, n - 1) \in Seq(DataEntry) /\ list[n] \in DataEntry
<1> DEFINE a == SubSeq(list, 1, n - 1)
           b == SubSeq(list, 1, n)
           c == Append(a, list[n])
<1>1. n - 1 \in 0 .. Len(list) /\ n \in 0 .. Len(list) /\ list[n] \in DataEntry
  OBVIOUS
<1>2. /\ a \in Seq(DataEntry) /\ Len(a) = n - 1 /\ \A i \in 1 .. n - 1 : a[i] = list[i]
  BY <1>1, CutAt
<1>3. /\ b \in Seq(DataEntry) /\ Len(b) = n /\ \A i \in 1 .. n : b[i] = list[i]
  BY <1>1, CutAt
<1> HIDE DEF a, b
<1>4. /\ c \in Seq(DataEntry) /\ Len(c) = n /\ c[n] = list[n]
      /\ \A i \in 1 .. n - 1 : c[i] = a[i]
  BY <1>1, <1>2
<1> HIDE DEF c
<1>5. \A i \in 1 .. n : b[i] = c[i]
  <2>1. ASSUME NEW i \in 1 .. n PROVE b[i] = c[i]
    <3>1. i \in 1 .. n - 1 \/ i = n
      OBVIOUS
    <3> QED
      BY <1>2, <1>3, <1>4, <3>1, Zenon
  <2> QED
    BY <2>1
<1>6. b = c
  BY <1>3, <1>4, <1>5, SameList
<1> QED
  BY <1>1, <1>2, <1>6, Zenon DEF First, a, b, c

\* An element that is kept.
LEMMA KeptGrows ==
  ASSUME NEW list \in Seq(DataEntry), OncePerDatagram(list), NEW n \in 1 .. Len(list), NEW kept,
         KeptOf(kept, list, n - 1)
  PROVE  KeptOf(IF TimedOut(list[n]) THEN kept ELSE Append(kept, list[n]), list, n)
<1> DEFINE r == list[n]
           new == Append(kept, r)
           m == Len(kept)
           x == PbufsQueued(kept)
           y == PbufsQueued(First(list, n - 1))
           b == Pbufs_of(r.p)
<1>1. /\ kept \in Seq(DataEntry) /\ Len(kept) <= n - 1 /\ OncePerDatagram(kept)
      /\ \A i \in 1 .. Len(kept) : ~TimedOut(kept[i]) /\ \E j \in 1 .. n - 1 : kept[i] = list[j]
      /\ x <= y
  BY Zenon DEF KeptOf
<1>2. First(list, n) = Append(First(list, n - 1), r) /\ First(list, n - 1) \in Seq(DataEntry) /\ r \in DataEntry
  BY FirstGrows
<1>3. PbufsQueued(First(list, n)) = y + b /\ y \in Nat /\ b \in Nat
  BY <1>2, QueuedAppended
<1>4. PbufsQueued(new) = x + b /\ x \in Nat
  BY <1>1, <1>2, QueuedAppended
<1>5. m \in Nat /\ m <= n /\ m + 1 <= n
  BY <1>1
<1>6. ASSUME NEW j \in 1 .. n - 1 PROVE j \in 1 .. n
  OBVIOUS
<1>7. x <= y + b /\ x + b <= y + b
  <2> HIDE DEF x, y, b
  <2> QED
    BY <1>1, <1>3, <1>4
<1>8. CASE TimedOut(r)
  <2>1. KeptOf(kept, list, n)
    BY <1>1, <1>3, <1>5, <1>6, <1>7, Zenon DEF KeptOf
  <2> QED
    BY <1>8, <2>1, Zenon
<1>9. CASE ~TimedOut(r)
  <2>1. /\ new \in Seq(DataEntry) /\ Len(new) = m + 1 /\ new[m + 1] = r
        /\ \A i \in 1 .. m : new[i] = kept[i]
    BY <1>1, <1>2
  <2>2. n \in 1 .. n /\ n \in 1 .. Len(list)
    OBVIOUS
  <2> HIDE DEF new, r, x, y, b, m
  <2>3. \A i \in 1 .. m + 1 : i = m + 1 \/ i \in 1 .. m
    BY <1>5
  <2>4. \A i \in 1 .. m + 1 : ~TimedOut(new[i]) /\ \E j \in 1 .. n : new[i] = list[j]
    <3>1. ASSUME NEW i \in 1 .. m + 1 PROVE ~TimedOut(new[i]) /\ \E j \in 1 .. n : new[i] = list[j]
      <4>1. CASE i = m + 1
        BY <1>9, <2>1, <2>2, <4>1, Zenon DEF r
      <4>2. CASE i \in 1 .. m
        <5>1. new[i] = kept[i] /\ ~TimedOut(kept[i])
          BY <1>1, <2>1, <4>2, Zenon DEF m
        <5>2. PICK j \in 1 .. n - 1 : kept[i] = list[j]
          BY <1>1, <4>2, Zenon DEF m
        <5> QED
          BY <1>6, <5>1, <5>2, Zenon
      <4> QED
        BY <2>3, <4>1, <4>2, Zenon
    <3> QED
      BY <3>1
  <2>5. \A i \in 1 .. m : kept[i].id # r.id
    <3>1. ASSUME NEW i \in 1 .. m, kept[i].id = r.id PROVE FALSE
      <4>1. PICK j \in 1 .. n - 1 : kept[i] = list[j]
        BY <1>1, Zenon DEF m
      <4>2. list[j].id = list[n].id /\ j \in 1 .. Len(list)
        BY <3>1, <4>1 DEF r
      <4>3. j = n
        BY <2>2, <4>2, Zenon DEF OncePerDatagram
      <4> QED
        BY <4>3
    <3> QED
      BY <3>1, Zenon
  <2>6. OncePerDatagram(new)
    <3>1. ASSUME NEW i \in 1 .. m + 1, NEW j \in 1 .. m + 1, new[i].id = new[j].id
          PROVE  i = j
      <4>1. CASE i = m + 1 /\ j = m + 1
        BY <4>1, Zenon
      <4>2. CASE i = m + 1 /\ j \in 1 .. m
        BY <2>1, <2>5, <3>1, <4>2, Zenon
      <4>3. CASE i \in 1 .. m /\ j = m + 1
        BY <2>1, <2>5, <3>1, <4>3, Zenon
      <4>4. CASE i \in 1 .. m /\ j \in 1 .. m
        <5>1. kept[i].id = kept[j].id
          BY <2>1, <3>1, <4>4, Zenon
        <5> QED
          BY <1>1, <4>4, <5>1, Zenon DEF OncePerDatagram, m
      <4> QED
        BY <2>3, <4>1, <4>2, <4>3, <4>4, Zenon
    <3> QED
      BY <2>1, <3>1, Zenon DEF OncePerDatagram
  <2>7. PbufsQueued(new) <= PbufsQueued(First(list, n))
    BY <1>3, <1>4, <1>7, Zenon DEF new, x, y, b
  <2>8. KeptOf(new, list, n)
    BY <1>5, <2>1, <2>4, <2>6, <2>7, Zenon DEF KeptOf
  <2> QED
    BY <1>9, <2>8, Zenon DEF new, r
<1> QED
  BY <1>8, <1>9, Zenon

\* All those that are kept.
LEMMA UnexpiredIs ==
  ASSUME NEW list \in Seq(DataEntry), OncePerDatagram(list)
  PROVE  KeptOf(Unexpired(list), list, Len(list))
<1> DEFINE N == Len(list)
           S == Seq(DataEntry)
           next(n, s) == IF TimedOut(list[n]) THEN s ELSE Append(s, list[n])
           step == [n \in 1 .. N |-> [s \in S |-> next(n, s)]]
           Is(g) == g = [n \in 0 .. N |-> IF n = 0 THEN <<>> ELSE IF TimedOut(list[n]) THEN g[n - 1] ELSE Append(g[n - 1], list[n])]
           kept == CHOOSE g : Is(g)
<1>1. N \in Nat /\ <<>> \in S
  OBVIOUS
<1>2. ASSUME NEW n \in 1 .. N, NEW s \in S PROVE next(n, s) \in S
  <2>1. list[n] \in DataEntry
    OBVIOUS
  <2> QED
    BY <2>1
<1>3. step \in [1 .. N -> [S -> S]]
  <2> HIDE DEF S, next, N
  <2> QED
    BY <1>2
<1>4. PICK f \in [0 .. N -> S] : Follows(f, N, <<>>, step)
  <2> HIDE DEF S, step, N
  <2> QED
    BY <1>1, <1>3, RecursionExists
<1>5. Is(f)
  <2>1. f[0] = <<>>
    BY <1>4, Zenon DEF Follows
  <2>2. ASSUME NEW n \in 0 .. N
        PROVE  f[n] = IF n = 0 THEN <<>> ELSE IF TimedOut(list[n]) THEN f[n - 1] ELSE Append(f[n - 1], list[n])
    <3>1. CASE n = 0
      BY <2>1, <3>1, Zenon
    <3>2. CASE n # 0
      <4>1. n \in 1 .. N /\ n - 1 \in 0 .. N
        BY <1>1, <3>2
      <4>2. f[n] = step[n][f[n - 1]]
        BY <1>4, <4>1, Zenon DEF Follows
      <4>3. f[n - 1] \in S
        <5> HIDE DEF S
        <5> QED
          BY <1>4, <4>1
      <4>4. step[n][f[n - 1]] = next(n, f[n - 1])
        <5> HIDE DEF S, next, N
        <5> QED
          BY <4>1, <4>3
      <4> QED
        BY <3>2, <4>2, <4>4, Zenon
    <3> QED
      BY <3>1, <3>2, Zenon
  <2> HIDE DEF S, N
  <2> QED
    BY <1>4, <2>2
<1>6. Is(kept)
  <2> HIDE DEF Is
  <2> QED
    BY <1>5, Zenon
<1>7. Unexpired(list) = kept[N]
  BY Zenon DEF Unexpired
<1> HIDE DEF kept
<1>8. \A n \in 0 .. N : kept[n] = IF n = 0 THEN <<>> ELSE IF TimedOut(list[n]) THEN kept[n - 1] ELSE Append(kept[n - 1], list[n])
  <2>1. kept = [n \in 0 .. N |-> IF n = 0 THEN <<>> ELSE IF TimedOut(list[n]) THEN kept[n - 1] ELSE Append(kept[n - 1], list[n])]
    BY <1>6, Zenon
  <2> HIDE DEF N
  <2> QED
    BY <2>1
<1> DEFINE T == {n \in 0 .. N : KeptOf(kept[n], list, n)}
<1>9. \A n \in 0 .. N : n \in T
  <2>1. 0 \in T
    <3>1. 0 \in 0 .. N
      BY <1>1
    <3>2. kept[0] = <<>>
      BY <1>8, <3>1, Zenon
    <3>3. First(list, 0) = <<>>
      BY DEF First
    <3>4. KeptOf(<<>>, list, 0)
      <4>1. <<>> \in Seq(DataEntry) /\ Len(<<>>) = 0 /\ 0 <= 0 /\ \A i \in 1 .. 0 : FALSE
        OBVIOUS
      <4>2. PbufsQueued(<<>>) <= PbufsQueued(First(list, 0))
        BY <3>3, <4>1, QueuedOfNone, Zenon
      <4> QED
        BY <4>1, <4>2, Zenon DEF KeptOf, OncePerDatagram
    <3> QED
      BY <3>1, <3>2, <3>4, Zenon
  <2>2. ASSUME NEW n \in 1 .. N, n - 1 \in T PROVE n \in T
    <3>1. n \in 0 .. N /\ n # 0 /\ n \in 1 .. Len(list)
      BY <1>1
    <3>2. KeptOf(kept[n - 1], list, n - 1)
      BY <2>2, Zenon
    <3>3. KeptOf(IF TimedOut(list[n]) THEN kept[n - 1] ELSE Append(kept[n - 1], list[n]), list, n)
      BY <3>1, <3>2, KeptGrows
    <3>4. kept[n] = IF TimedOut(list[n]) THEN kept[n - 1] ELSE Append(kept[n - 1], list[n])
      BY <1>8, <3>1, Zenon
    <3>5. KeptOf(kept[n], list, n)
      BY <3>3, <3>4, Zenon
    <3> QED
      BY <3>1, <3>5, Zenon
  <2> HIDE DEF T, N
  <2> QED
    BY <1>1, <2>1, <2>2, Reaches
<1>10. N \in 0 .. N
  BY <1>1
<1> QED
  BY <1>7, <1>9, <1>10, Zenon

\* A tick: only the timers change, and none of those kept is at 0.
LEMMA OlderIs ==
  ASSUME NEW list, Listed(list), \A i \in 1 .. Len(list) : ~TimedOut(list[i])
  PROVE  /\ Listed(Older(list)) /\ Len(Older(list)) = Len(list)
         /\ PbufsQueued(Older(list)) = PbufsQueued(list)
<1> DEFINE new == Older(list)
           n == Len(list)
<1>1. /\ list \in Seq(DataEntry) /\ OncePerDatagram(list)
      /\ \A i \in 1 .. n : StillWaits(list[i]) /\ list[i].p # <<>>
  BY Zenon DEF Listed
<1>2. n \in Nat /\ DOMAIN list = 1 .. n
  BY <1>1
<1>3. ASSUME NEW i \in 1 .. n
      PROVE  /\ [list[i] EXCEPT !.timer = @ - 1] \in DataEntry
             /\ [list[i] EXCEPT !.timer = @ - 1].p = list[i].p
             /\ [list[i] EXCEPT !.timer = @ - 1].id = list[i].id
             /\ [list[i] EXCEPT !.timer = @ - 1].last = list[i].last
  <2> DEFINE r == list[i]
             t == r.timer - 1
  <2>1. r \in DataEntry
    BY <1>1
  <2>2. r.timer \in 0 .. IP_REASS_MAXAGE /\ IP_REASS_MAXAGE \in Nat
    BY <2>1, EntryFields, IpReassAssumption DEF IpReassAssumption
  <2>3. ~(r.timer = 0)
    BY Zenon DEF TimedOut
  <2>4. t \in 0 .. IP_REASS_MAXAGE
    BY <2>2, <2>3
  <2>5. [list[i] EXCEPT !.timer = @ - 1] = [r EXCEPT !.timer = t]
    OBVIOUS
  <2> HIDE DEF r, t
  <2>6. [r EXCEPT !.timer = t] \in DataEntry /\ [r EXCEPT !.timer = t].p = r.p
        /\ [r EXCEPT !.timer = t].id = r.id /\ [r EXCEPT !.timer = t].last = r.last
    BY <2>1, <2>4 DEF DataEntry
  <2> QED
    BY <2>5, <2>6, Zenon DEF r
<1> DEFINE g(i) == [list[i] EXCEPT !.timer = @ - 1]
<1>4. new = [i \in 1 .. n |-> g(i)]
  BY <1>2, Zenon DEF Older
<1>5. \A i \in 1 .. n : g(i) \in DataEntry /\ g(i).p = list[i].p /\ g(i).id = list[i].id /\ g(i).last = list[i].last
  BY <1>3, Zenon
<1> HIDE DEF g, new, n
<1>6. /\ new \in Seq(DataEntry) /\ Len(new) = n
      /\ \A i \in 1 .. n : new[i] = g(i)
  BY <1>2, <1>4, <1>5
<1>7. \A i \in 1 .. n : new[i].p = list[i].p /\ new[i].id = list[i].id /\ new[i].last = list[i].last
  BY <1>5, <1>6, Zenon
<1>8. OncePerDatagram(new)
  BY <1>1, <1>6, <1>7, Zenon DEF OncePerDatagram, n
<1>9. \A i \in 1 .. n : StillWaits(new[i]) /\ new[i].p # <<>>
  <2>1. ASSUME NEW i \in 1 .. n PROVE StillWaits(new[i]) /\ new[i].p # <<>>
    <3>1. StillWaits(list[i]) /\ list[i].p # <<>>
      BY <1>1, Zenon
    <3>2. new[i].p = list[i].p /\ new[i].last = list[i].last
      BY <1>7, Zenon
    <3> QED
      BY <3>1, <3>2, Zenon DEF StillWaits
  <2> QED
    BY <2>1, Zenon
<1>10. Listed(new)
  BY <1>6, <1>8, <1>9, Zenon DEF Listed
<1>11. Loads(new) = Loads(list)
  <2>1. DOMAIN new = 1 .. n
    BY <1>6
  <2>2. \A i \in 1 .. n : Pbufs_of(new[i].p) = Pbufs_of(list[i].p)
    BY <1>7, Zenon
  <2>3. [i \in 1 .. n |-> Pbufs_of(new[i].p)] = [i \in 1 .. n |-> Pbufs_of(list[i].p)]
    BY <2>2
  <2> QED
    BY <1>2, <2>1, <2>3, Zenon DEF Loads
<1>12. PbufsQueued(new) = PbufsQueued(list)
  <2>1. new \in Seq(DataEntry) /\ list \in Seq(DataEntry)
    BY <1>1, <1>6, Zenon
  <2>2. PbufsQueued(new) = Total(Loads(new)) /\ PbufsQueued(list) = Total(Loads(list))
    BY <2>1, LoadsAre
  <2> QED
    BY <1>11, <2>2, Zenon
<1> QED
  BY <1>6, <1>10, <1>12, Zenon DEF new, n

\* A call of ip_reass_tmr.
LEMMA IpReassTmrKeeps ==
  ASSUME ReassInv, IpReassTmr
  PROVE  ReassInv'
<1> DEFINE list == reassdatagrams
           kept == Unexpired(list)
           x == PbufsQueued(list)
           y == PbufsQueued(kept)
           n == Len(list)
           m == Len(kept)
<1>1. /\ Listed(list) /\ n <= REASSDATA /\ ip_reass_pbufcount = x /\ x <= IP_REASS_MAX_PBUFS
  BY Zenon DEF ReassInv, Holds
<1>2. list \in Seq(DataEntry) /\ OncePerDatagram(list)
  BY <1>1, Zenon DEF Listed
<1>3. /\ kept \in Seq(DataEntry) /\ m <= n /\ OncePerDatagram(kept)
      /\ \A i \in 1 .. m : ~TimedOut(kept[i]) /\ \E j \in 1 .. n : kept[i] = list[j]
      /\ y <= PbufsQueued(First(list, n))
  <2>1. KeptOf(kept, list, Len(list))
    BY <1>2, UnexpiredIs
  <2> QED
    BY <2>1, Zenon DEF KeptOf
<1>4. First(list, n) = list
  BY <1>2 DEF First
<1>5. x \in Nat /\ y \in Nat /\ n \in Nat /\ m \in Nat /\ REASSDATA \in Int /\ IP_REASS_MAX_PBUFS \in Int
  <2>1. x \in Nat
    BY <1>2, QueuedJoined
  <2>2. y \in Nat
    BY <1>3, QueuedJoined
  <2>3. n \in Nat /\ m \in Nat
    BY <1>2, <1>3
  <2>4. REASSDATA \in Int /\ IP_REASS_MAX_PBUFS \in Int
    BY IpReassAssumption DEF IpReassAssumption
  <2> QED
    BY <2>1, <2>2, <2>3, <2>4, Zenon
<1>6. /\ reassdatagrams' = Older(kept) /\ ip_reass_pbufcount' = ip_reass_pbufcount - (x - y)
      /\ passed_up' = NoDatagram
  BY Zenon DEF IpReassTmr
<1>7. y <= x
  BY <1>3, <1>4, Zenon
<1>8. From(kept, list)
  BY <1>3, Zenon DEF From
<1> HIDE DEF list, kept, x, y, n, m
<1>9. Listed(kept)
  BY <1>1, <1>3, <1>8, ListedPart
<1>10. /\ Listed(Older(kept)) /\ Len(Older(kept)) = Len(kept)
       /\ PbufsQueued(Older(kept)) = PbufsQueued(kept)
  <2>1. \A i \in 1 .. Len(kept) : ~TimedOut(kept[i])
    BY <1>3, Zenon DEF m
  <2> QED
    BY <1>9, <2>1, OlderIs
<1>11. x - (x - y) = y /\ y <= IP_REASS_MAX_PBUFS /\ m <= REASSDATA
  BY <1>1, <1>3, <1>5, <1>7
<1>12. Holds(Older(kept), y)
  BY <1>10, <1>11, Zenon DEF Holds, m, y
<1>13. ip_reass_pbufcount' = y
  BY <1>1, <1>6, <1>11, Zenon
<1> QED
  BY <1>6, <1>12, <1>13, NothingPassedUp, Zenon DEF ReassInv, Holds

\* The invariant holds at the start, it is enough, and every step keeps it.
LEMMA ReassInitHolds == IpReassInit => ReassInv
<1> SUFFICES ASSUME IpReassInit PROVE ReassInv
  OBVIOUS
<1>1. reassdatagrams = <<>> /\ ip_reass_pbufcount = 0 /\ passed_up = NoDatagram
  BY Zenon DEF IpReassInit
<1>2. Listed(<<>>) /\ Len(<<>>) = 0
  <2>1. <<>> \in Seq(DataEntry) /\ Len(<<>>) = 0 /\ \A i \in 1 .. 0 : FALSE
    OBVIOUS
  <2> QED
    BY <2>1, Zenon DEF Listed, OncePerDatagram
<1>3. 0 <= REASSDATA /\ 0 <= IP_REASS_MAX_PBUFS
  BY IpReassAssumption DEF IpReassAssumption
<1>4. Holds(<<>>, 0)
  BY <1>2, <1>3, QueuedOfNone, Zenon DEF Holds
<1> QED
  BY <1>1, <1>4, Zenon DEF ReassInv, PassedUpInOrder

LEMMA ReassInvSound == ReassInv => ReassSound
<1> SUFFICES ASSUME ReassInv PROVE ReassSound
  OBVIOUS
<1> DEFINE list == reassdatagrams
           n == Len(list)
<1>1. /\ Listed(list) /\ n <= REASSDATA /\ PassedUpInOrder
      /\ ip_reass_pbufcount = PbufsQueued(list) /\ ip_reass_pbufcount <= IP_REASS_MAX_PBUFS
  BY Zenon DEF ReassInv, Holds
<1>2. /\ list \in Seq(DataEntry) /\ OncePerDatagram(list)
      /\ \A i \in 1 .. n : StillWaits(list[i]) /\ list[i].p # <<>>
  BY <1>1, Zenon DEF Listed
<1>3. DOMAIN list = 1 .. n
  BY <1>2
<1>4. ip_reass_pbufcount \in 0 .. IP_REASS_MAX_PBUFS
  <2>1. PbufsQueued(list) \in Nat
    BY <1>2, QueuedJoined
  <2>2. IP_REASS_MAX_PBUFS \in Int
    BY IpReassAssumption DEF IpReassAssumption
  <2> HIDE DEF list
  <2> QED
    BY <1>1, <2>1, <2>2
<1>5. \A i \in 1 .. n :
        /\ list[i].id \in Datagram /\ list[i].timer \in 0 .. IP_REASS_MAXAGE
        /\ list[i].p \in Seq(Fragment) /\ list[i].last \in BOOLEAN
  <2>1. ASSUME NEW i \in 1 .. n
        PROVE  /\ list[i].id \in Datagram /\ list[i].timer \in 0 .. IP_REASS_MAXAGE
               /\ list[i].p \in Seq(Fragment) /\ list[i].last \in BOOLEAN
    <3>1. list[i] \in DataEntry
      BY <1>2
    <3> QED
      BY <3>1, EntryFields
  <2> QED
    BY <2>1, Zenon
<1>6. IpReassTypeOK
  BY <1>1, <1>3, <1>4, <1>5, Zenon DEF IpReassTypeOK
<1>7. OneEntryPerDatagram
  BY <1>2, <1>3, Zenon DEF OneEntryPerDatagram, OncePerDatagram
<1>8. NothingCompleteWaits
  BY <1>2, <1>3, Zenon DEF NothingCompleteWaits, StillWaits
<1> QED
  BY <1>1, <1>6, <1>7, <1>8, Zenon DEF ReassSound, PbufsCounted

LEMMA ReassStep == ReassInv /\ [IpReassNext]_ipReassVars => ReassInv'
<1> SUFFICES ASSUME ReassInv, [IpReassNext]_ipReassVars PROVE ReassInv'
  OBVIOUS
<1>1. CASE IpReassTmr
  BY <1>1, IpReassTmrKeeps
<1>2. ASSUME NEW d \in Datagram, NEW f \in Fragment, IpFragment(d, f) PROVE ReassInv'
  BY <1>2, IpFragmentKeeps
<1>3. CASE UNCHANGED ipReassVars
  <2>1. reassdatagrams' = reassdatagrams /\ ip_reass_pbufcount' = ip_reass_pbufcount /\ passed_up' = passed_up
    BY <1>3 DEF ipReassVars
  <2> QED
    BY <2>1, Zenon DEF ReassInv, Holds, PassedUpInOrder
<1> QED
  BY <1>1, <1>2, <1>3, Zenon DEF IpReassNext

\* ip_reass counts the pbufs it queues, keeps one entry for a datagram, lets
\* none wait that is complete and passes up fragments that are in order, however
\* many datagrams there are, whatever the routes cut and whatever its limits.
THEOREM ReassIsSound == IpReassSpec => []ReassSound
<1>1. ReassInv /\ [IpReassNext]_ipReassVars => ReassInv'
  BY ReassStep
<1> QED
  BY <1>1, ReassInitHolds, ReassInvSound, PTL DEF IpReassSpec
=============================================================================
