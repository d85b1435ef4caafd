------------------------------ MODULE Sampling ------------------------------
(***************************************************************************)
(* The two timer handlers: TIM2 every 100 ms (EnvirData.c) reads the       *)
(* temperature, on some ticks asks for the CO2 and on others for an        *)
(* upload; TIM3 every 10 ms (lwipcomm.c) advances lwIP's clock.  Both have *)
(* preemption priority 1: neither interrupts the other, and an update that *)
(* finds its pending bit set is lost.                                      *)
(*                                                                         *)
(* Time passes in periods of TIM3.  TIM2's handler polls the DHT11 (module *)
(* Dht11) and, for a command, the serial port: it lasts several periods.   *)
(***************************************************************************)
EXTENDS Naturals

CONSTANTS
  Periods,     \* periods of TIM3 in one of TIM2: 10
  MinLast, MaxLast, \* periods that TIM2's handler can last
  Horizon      \* bound: runs of TIM2's handler

\* The handler outlasts TIM3's period, and ends before its next update.
ASSUME SamplingAssumption ==
  /\ MinLast \in Nat /\ MaxLast \in Nat /\ Periods \in Nat /\ Horizon \in Nat
  /\ 2 <= MinLast /\ MinLast <= MaxLast /\ MaxLast < Periods

VARIABLES
  toUpdate,        \* periods until TIM2's next update
  pending2, pending3, \* the update flags of TIM2 and TIM3
  running, busy,   \* is TIM2's handler running, and for how many periods yet
  ticks,           \* the static counter timecnt
  lwip_localtime,  \* lwIP's clock, in periods of TIM3
  elapsed,         \* periods that have really passed
  handled,         \* runs of TIM2's handler
  missed2,         \* has an update of TIM2 found its flag set?
  co2At, uploadAt  \* when the last command and the last request were issued

samplingVars == <<toUpdate, pending2, pending3, running, busy, ticks, lwip_localtime,
                  elapsed, handled, missed2, co2At, uploadAt>>

SamplingInit ==
  /\ toUpdate = Periods
  /\ pending2 = FALSE /\ pending3 = FALSE /\ ticks = 0
  /\ running = FALSE /\ busy = 0
  /\ lwip_localtime = 0 /\ elapsed = 0 /\ handled = 0 /\ missed2 = FALSE
  /\ co2At = 0 /\ uploadAt = 0

\* A period of TIM3 goes by; nothing that can run is waiting.
Period ==
  /\ toUpdate > 0 /\ IF running THEN busy > 0 ELSE ~(pending2 \/ pending3)
  /\ elapsed' = elapsed + 1
  /\ pending3' = TRUE
  /\ toUpdate' = toUpdate - 1
  /\ busy' = IF running THEN busy - 1 ELSE 0
  /\ UNCHANGED <<pending2, running, ticks, lwip_localtime, handled, missed2,
                 co2At, uploadAt>>

\* TIM2's update, at any moment of the period it falls in.
Update2 ==
  /\ toUpdate = 0 /\ toUpdate' = Periods
  /\ pending2' = TRUE /\ missed2' = (missed2 \/ pending2)
  /\ UNCHANGED <<pending3, running, busy, ticks, lwip_localtime, elapsed, handled,
                 co2At, uploadAt>>

\* Mutant: the update flag is left set.
TIM3_IRQKeepsFlag ==
  /\ ~running /\ pending3 /\ ~pending2
  /\ lwip_localtime' = lwip_localtime + 1
  /\ UNCHANGED <<toUpdate, pending2, pending3, running, busy, ticks, elapsed, handled,
                 missed2, co2At, uploadAt>>

\* TIM3_IRQHandler: 10 ms more; TIM2 has the higher sub-priority.
TIM3_IRQHandler ==
  /\ ~running /\ pending3 /\ ~pending2
  /\ pending3' = FALSE
  /\ lwip_localtime' = lwip_localtime + 1
  /\ UNCHANGED <<toUpdate, pending2, running, busy, ticks, elapsed, handled, missed2,
                 co2At, uploadAt>>

\* TIM2_IRQHandler is entered, to poll the DHT11 for some periods.
TIM2_IRQEnter ==
  /\ ~running /\ pending2 /\ handled < Horizon
  /\ ticks' = ticks + 1
  /\ running' = TRUE /\ busy' \in MinLast .. MaxLast
  /\ handled' = handled + 1
  /\ UNCHANGED <<toUpdate, pending2, pending3, lwip_localtime, elapsed, missed2,
                 co2At, uploadAt>>

\* Mutant: the counter is reset at 10 only after it was incremented again.
TIM2_IRQLateReset ==
  /\ running /\ busy = 0 /\ running' = FALSE /\ pending2' = FALSE
  /\ co2At' = IF ticks % 4 = 0 THEN elapsed ELSE co2At
  /\ uploadAt' = IF ticks % 11 = 0 THEN elapsed ELSE uploadAt
  /\ ticks' = IF ticks = 11 THEN 0 ELSE ticks
  /\ UNCHANGED <<toUpdate, pending3, busy, lwip_localtime, elapsed, handled, missed2>>

\* The rest of the handler: the command on every fourth tick, the upload
\* request and the reset on the tenth, the update flag cleared at the end.
TIM2_IRQLeave ==
  /\ running /\ busy = 0 /\ running' = FALSE /\ pending2' = FALSE
  /\ co2At' = IF ticks % 4 = 0 THEN elapsed ELSE co2At
  /\ uploadAt' = IF ticks % 10 = 0 THEN elapsed ELSE uploadAt
  /\ ticks' = IF ticks % 10 = 0 THEN 0 ELSE ticks
  /\ UNCHANGED <<toUpdate, pending3, busy, lwip_localtime, elapsed, handled, missed2>>

SamplingNext == \/ Period \/ Update2
                \/ TIM3_IRQHandler \/ TIM2_IRQEnter \/ TIM2_IRQLeave
SamplingSpec == SamplingInit /\ [][SamplingNext]_samplingVars

-----------------------------------------------------------------------------
\* The types of the variables; timecnt stays far below its eight bits.
SamplingTypeOK ==
  /\ toUpdate \in 0 .. Periods
  /\ {pending2, pending3, running, missed2} \subseteq BOOLEAN
  /\ busy \in 0 .. MaxLast /\ ticks \in 0 .. 10
  /\ handled \in 0 .. Horizon
  /\ {lwip_localtime, elapsed, co2At, uploadAt} \subseteq Nat

\* How far a moment in the handler may be from the update that started it.
Jitter == MaxLast - MinLast

\* The sensors are read on every update of TIM2: none finds its flag set.
NoUpdateMissed == ~missed2

\* An upload is asked for every 10 updates, whatever the sensors do.
UploadSpacing ==
  [][uploadAt' # uploadAt =>
       uploadAt' - uploadAt <= 10 * Periods + Jitter + MaxLast
       /\ (uploadAt > 0 => uploadAt' - uploadAt >= 10 * Periods - Jitter)]_samplingVars

\* The CO2 sensor has at least 400 ms for an answer, also where the reset at
\* 10, which 4 does not divide, breaks the rhythm.
Co2Spacing ==
  [][co2At' # co2At =>
       co2At' - co2At <= 6 * Periods + Jitter + MaxLast
       /\ (co2At > 0 => co2At' - co2At >= 4 * Periods - Jitter)]_samplingVars

\* lwIP's clock is late by what TIM2's handlers held up: a run costs the
\* updates it spans, but for one if TIM3's flag was clear when it began.
ClockLoss ==
  /\ elapsed - lwip_localtime <= handled * MaxLast + 1
  /\ ~running => elapsed - lwip_localtime >= handled * (MinLast - 1)

\* TIM2's handler, however long it runs, is in time for its next update and
\* costs lwIP's clock what it should and no more.
TickSound == SamplingTypeOK /\ NoUpdateMissed /\ ClockLoss

\* The requests the handler makes of the main loop and of the CO2 sensor keep
\* their distance.
RequestSpacing == UploadSpacing /\ Co2Spacing

-----------------------------------------------------------------------------
\* sys.h, sys_now: "the current time in milliseconds"; lwipcomm.c: "get the
\* current time".  Between two updates lwIP's clock is right.  It does not hold:
\* updates are lost while TIM2's handler runs.
ClockKeepsTime == lwip_localtime + 1 >= elapsed
=============================================================================
