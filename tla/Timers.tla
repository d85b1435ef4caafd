------------------------------- MODULE Timers -------------------------------
(***************************************************************************)
(* lwIP's timeouts (timers.c): a list in which every entry has the time    *)
(* that it waits longer than the one before, walked by the main loop's     *)
(* sys_check_timeouts.  The reassembly and ARP timers re-arm themselves    *)
(* for ever, the TCP timer as long as there is a connection; a new one,    *)
(* which WK_UP's handler registers, starts it again.                       *)
(*                                                                         *)
(* Time is lwIP's clock, which stands still during a check.                *)
(***************************************************************************)
EXTENDS Integers, Sequences, FiniteSets

CONSTANTS
  TCP_TMR_INTERVAL, IP_TMR_INTERVAL, ARP_TMR_INTERVAL,
  Slots,        \* MEMP_NUM_SYS_TIMEOUT
  Gap,          \* bound: the longest time from one check to the next
  MaxPcbs       \* bound: connections

ASSUME TimersAssumption ==
  /\ {TCP_TMR_INTERVAL, IP_TMR_INTERVAL, ARP_TMR_INTERVAL} \subseteq Nat \ {0}
  /\ Slots \in Nat /\ Slots >= 3 /\ Gap \in Nat /\ MaxPcbs \in Nat

VARIABLES
  timeouts,   \* next_timeout and its successors, as <<handler, time>>
  sinceLast,  \* sys_now() - timeouts_last_time
  sinceCheck, \* time since the last check
  tcpip_tcp_timer_active,
  pcbs,       \* the connections active or in TIME-WAIT
  unseen,     \* was the last one opened while tcpip_tcp_timer, having found
              \* none, was about to clear the flag?  (history)
  checkAt,    \* where the main loop's sys_check_timeouts stands
  diff,       \* its local variable
  fired,      \* has it called a handler?
  age,        \* of every armed timer: time since it was armed,
  lag,        \* time its count had already run for when it was,
  loss        \* and time that checks have thrown away since

timersVars == <<timeouts, sinceLast, sinceCheck, tcpip_tcp_timer_active, pcbs,
                unseen, checkAt, diff, fired, age, lag, loss>>
listed == <<timeouts, tcpip_tcp_timer_active, pcbs, unseen>>
history == <<age, lag, loss>>

Handler == {"tcp", "ip_reass", "arp"}
Interval(h) == CASE h = "tcp" -> TCP_TMR_INTERVAL
                 [] h = "ip_reass" -> IP_TMR_INTERVAL
                 [] h = "arp" -> ARP_TMR_INTERVAL

\* The sums of the first times: what each entry still waits.
Waits(list) ==
  LET waits[k \in 0 .. Len(list)] == IF k = 0 THEN 0 ELSE waits[k - 1] + list[k][2]
  IN  waits
WaitOf(k) == Waits(timeouts)[k]
InList(h) == \E k \in 1 .. Len(timeouts) : timeouts[k][1] = h

\* Mutant: the successor's time is not reduced.
InsertedKeepsNext(list, h, t) ==
  LET k == Cardinality({j \in 1 .. Len(list) : Waits(list)[j] <= t})
      entry == <<h, t - Waits(list)[k]>>
  IN  SubSeq(list, 1, k) \o <<entry>> \o SubSeq(list, k + 1, Len(list))

\* sys_timeout: behind the entries that end no later than t, and the time of
\* the next one is reduced.  With the pool empty the call asserts.
Inserted(list, h, t) ==
  LET k == Cardinality({j \in 1 .. Len(list) : Waits(list)[j] <= t})
      entry == <<h, t - Waits(list)[k]>>
      rest == SubSeq(list, k + 1, Len(list))
  IN  SubSeq(list, 1, k) \o <<entry>>
      \o [j \in 1 .. Len(rest) |-> IF j = 1 THEN <<rest[1][1], rest[1][2] - entry[2]>>
                                   ELSE rest[j]]

\* The history of a timer that is armed now, its count having run for a while.
Arm(h, ran) ==
  /\ age' = [age EXCEPT ![h] = 0] /\ lag' = [lag EXCEPT ![h] = ran]
  /\ loss' = [loss EXCEPT ![h] = 0]

\* sys_timeouts_init.
TimersInit ==
  /\ timeouts = Inserted(<<<<"ip_reass", IP_TMR_INTERVAL>>>>, "arp", ARP_TMR_INTERVAL)
  /\ sinceLast = 0 /\ sinceCheck = 0 /\ tcpip_tcp_timer_active = FALSE /\ pcbs = 0
  /\ unseen = FALSE /\ checkAt = "idle" /\ diff = 0 /\ fired = FALSE
  /\ age = [h \in Handler |-> 0] /\ lag = age /\ loss = age

-----------------------------------------------------------------------------
\* lwIP's clock ticks; the main loop comes round to a check in time.
Tick ==
  /\ checkAt = "idle" /\ sinceCheck < Gap
  /\ sinceLast' = sinceLast + 1 /\ sinceCheck' = sinceCheck + 1
  /\ age' = [h \in Handler |-> IF InList(h) THEN age[h] + 1 ELSE age[h]]
  /\ UNCHANGED <<listed, checkAt, diff, fired, lag, loss>>

\* tcp_timer_needed, with a connection registered.
StartTcpTimer ==
  IF tcpip_tcp_timer_active THEN UNCHANGED <<timeouts, tcpip_tcp_timer_active, history>>
  ELSE /\ tcpip_tcp_timer_active' = TRUE
       /\ timeouts' = Inserted(timeouts, "tcp", TCP_TMR_INTERVAL)
       /\ Arm("tcp", IF checkAt = "idle" THEN sinceLast ELSE diff)

\* Mutant: tcp_timer_needed trusts a pending check to re-arm the timer.
ConnectTrusts ==
  /\ pcbs < MaxPcbs /\ pcbs' = pcbs + 1
  /\ unseen' = (checkAt = "disable")
  /\ IF checkAt # "idle" THEN UNCHANGED <<timeouts, tcpip_tcp_timer_active, history>>
     ELSE StartTcpTimer
  /\ UNCHANGED <<sinceLast, sinceCheck, checkAt, diff, fired>>

\* TCP_REG in WK_UP's handler, which interrupts a check anywhere.
Connect ==
  /\ pcbs < MaxPcbs /\ pcbs' = pcbs + 1
  /\ unseen' = (checkAt = "disable")
  /\ StartTcpTimer
  /\ UNCHANGED <<sinceLast, sinceCheck, checkAt, diff, fired>>

\* TCP_RMV while a segment is handled: the timer is left to find out.
Disconnect ==
  /\ checkAt = "idle" /\ pcbs > 0 /\ pcbs' = pcbs - 1
  /\ UNCHANGED <<timeouts, sinceLast, sinceCheck, tcpip_tcp_timer_active, unseen,
                 checkAt, diff, fired, history>>

-----------------------------------------------------------------------------
(* sys_check_timeouts.                                                     *)

Check ==
  /\ checkAt = "idle" /\ checkAt' = "loop"
  /\ diff' = sinceLast /\ fired' = FALSE /\ sinceCheck' = 0
  /\ UNCHANGED <<listed, sinceLast, history>>

Expired == timeouts # <<>> /\ timeouts[1][2] <= diff

\* The head has expired: it is taken off, and its handler called.
Expire ==
  /\ checkAt = "loop" /\ Expired
  /\ timeouts' = Tail(timeouts) /\ checkAt' = timeouts[1][1]
  /\ diff' = diff - timeouts[1][2] /\ sinceLast' = 0 /\ fired' = TRUE
  /\ UNCHANGED <<sinceCheck, tcpip_tcp_timer_active, pcbs, unseen, history>>

\* Mutant: the ARP timer does not.
PeriodicOnce(h) ==
  /\ checkAt = h /\ checkAt' = "loop"
  /\ IF h = "arp" THEN UNCHANGED <<timeouts, history>>
     ELSE timeouts' = Inserted(timeouts, h, Interval(h)) /\ Arm(h, diff)
  /\ UNCHANGED <<sinceLast, sinceCheck, tcpip_tcp_timer_active, pcbs, unseen, diff,
                 fired>>

\* ip_reass_timer and arp_timer re-arm themselves.
Periodic(h) ==
  /\ checkAt = h /\ checkAt' = "loop"
  /\ timeouts' = Inserted(timeouts, h, Interval(h)) /\ Arm(h, diff)
  /\ UNCHANGED <<sinceLast, sinceCheck, tcpip_tcp_timer_active, pcbs, unseen, diff,
                 fired>>

\* tcpip_tcp_timer: tcp_tmr may end connections; are there any left? ...
TcpTimer ==
  /\ checkAt = "tcp"
  /\ \E n \in 0 .. pcbs : pcbs' = n /\ checkAt' = IF n > 0 THEN "rearm" ELSE "disable"
  /\ UNCHANGED <<timeouts, sinceLast, sinceCheck, tcpip_tcp_timer_active, unseen, diff,
                 fired, history>>
\* ... then it is re-armed,
TcpRearm ==
  /\ checkAt = "rearm" /\ checkAt' = "loop"
  /\ timeouts' = Inserted(timeouts, "tcp", TCP_TMR_INTERVAL) /\ Arm("tcp", diff)
  /\ UNCHANGED <<sinceLast, sinceCheck, tcpip_tcp_timer_active, pcbs, unseen, diff,
                 fired>>
\* or the flag cleared.
TcpDisable ==
  /\ checkAt = "disable" /\ checkAt' = "loop" /\ tcpip_tcp_timer_active' = FALSE
  /\ UNCHANGED <<timeouts, pcbs, unseen, sinceLast, sinceCheck, diff, fired, history>>

\* Nothing has expired any more.  What is left of diff, after a handler was
\* called, is forgotten.
CheckEnds ==
  /\ checkAt = "loop" /\ ~Expired /\ checkAt' = "idle"
  /\ loss' = [h \in Handler |-> IF InList(h) /\ fired THEN loss[h] + diff ELSE loss[h]]
  /\ diff' = 0 /\ fired' = FALSE
  /\ UNCHANGED <<listed, sinceLast, sinceCheck, age, lag>>

CheckStep == \/ Check \/ Expire \/ Periodic("ip_reass") \/ Periodic("arp")
             \/ TcpTimer \/ TcpRearm \/ TcpDisable \/ CheckEnds
TimersNext == Tick \/ Connect \/ Disconnect \/ CheckStep
TimersSpec == TimersInit /\ [][TimersNext]_timersVars

-----------------------------------------------------------------------------
\* The types of the variables; the pool is large enough (the assertion of
\* sys_timeout), and no timer is in the list twice.
TimersTypeOK ==
  /\ timeouts \in Seq(Handler \X Nat) /\ Len(timeouts) <= Slots
  /\ \A j, k \in 1 .. Len(timeouts) : timeouts[j][1] = timeouts[k][1] => j = k
  /\ {sinceLast, diff} \subseteq Nat /\ sinceCheck \in 0 .. Gap
  /\ {tcpip_tcp_timer_active, unseen, fired} \subseteq BOOLEAN /\ pcbs \in 0 .. MaxPcbs
  /\ checkAt \in Handler \cup {"idle", "loop", "rearm", "disable"}
  /\ {age, lag, loss} \subseteq [Handler -> Nat]

\* Between two checks the TCP timer is armed when there is a connection, even
\* one that was opened during a check, unless it came between tcpip_tcp_timer's
\* test and its clear; and it is marked active exactly when it is armed.
TcpTimerArmed ==
  checkAt = "idle" => /\ pcbs > 0 /\ ~unseen => InList("tcp")
                      /\ tcpip_tcp_timer_active <=> InList("tcp")

\* The differences add up: whatever was inserted and taken off around it, a
\* timer has waited for its interval when it fires, less the time its count
\* had run for when it was armed, and more by what checks threw away.
TimeAccounted ==
  \A k \in 1 .. Len(timeouts) :
    LET h == timeouts[k][1]
        ran == IF checkAt = "idle" THEN sinceLast ELSE diff
    IN  age[h] + lag[h] = Interval(h) - WaitOf(k) + ran + loss[h]

\* The TCP timer is armed when it is needed, and every timer's time is its own.
TimersSound == TimersTypeOK /\ TcpTimerArmed /\ TimeAccounted

\* As long as time passes every timer fires, although others are armed before
\* it again and again.
TimersFire == \A h \in {"ip_reass", "arp"} : sinceLast > 0 ~> checkAt = h

-----------------------------------------------------------------------------
\* timers.c: "the reason is to have the TCP timer only running when there are
\* active (or time-wait) PCBs": with a connection it runs.  It does not hold:
\* tcp_timer_needed trusts the flag that tcpip_tcp_timer is about to clear.
TcpTimerServes == checkAt = "idle" /\ pcbs > 0 => InList("tcp")

\* timers.c: "time in milliseconds after that the timer should expire": no
\* timer fires before its interval is over.  It does not hold: a timer's count
\* starts at the last expiry, not at the call (lag).
NeverEarly ==
  [][checkAt = "loop" /\ checkAt' \in Handler => age[checkAt'] >= Interval(checkAt')]_timersVars
=============================================================================
