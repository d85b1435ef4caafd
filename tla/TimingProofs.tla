---------------------------- MODULE TimingProofs ----------------------------
(***************************************************************************)
(* Proofs about Delay, Dht11, Sampling and Keys.  A delay, for a counter of*)
(* any width and any requests; a reading of the DHT11, for any bounds of the*)
(* waits, and that no reading is made of a silent line; what the handler   *)
(* that takes it does to the two timers, for any periods; and how often a  *)
(* key acts, for any keys.                                                 *)
(***************************************************************************)
EXTENDS Delay, Dht11, Sampling, Keys, Integers, Recursion, FiniteSetTheorems, TLAPS

-----------------------------------------------------------------------------
(* The delays.                                                             *)

\* The assumption on the constants, less what only termination needs.
LEMMA Width == Wrap \in Nat \ {0} /\ Requests \subseteq Nat
BY DelayAssumption DEF DelayAssumption

\* What a request is cut to fits in the register and is no more than asked.
LEMMA Cut ==
  ASSUME NEW n \in Nat
  PROVE  n % Wrap \in 0 .. Wrap - 1 /\ n % Wrap <= n
BY Width, SMT

\* Requests are counts.
LEMMA AskedIsNat ==
  ASSUME DelayTypeOK, NEW l \in Level
  PROVE  asked[l] \in Nat /\ passed[l] \in Nat
<1>1. asked[l] \in Requests \cup {0} /\ passed[l] \in Nat
  BY DEF DelayTypeOK
<1>2. 0 \in Nat
  OBVIOUS
<1> QED
  BY <1>1, <1>2, Width, Zenon

-----------------------------------------------------------------------------
(* Types.                                                                  *)

LEMMA InitTypes == DelayInit => DelayTypeOK
<1> SUFFICES ASSUME DelayInit PROVE DelayTypeOK
  OBVIOUS
<1>1. 0 \in 0 .. Wrap - 1
  BY Width
<1>2. asked \in [Level -> Requests \cup {0}]
  BY Zenon DEF DelayInit
<1>3. at \in [Level -> DelayAt] /\ passed \in [Level -> Nat]
      /\ disturbed \in [Level -> BOOLEAN]
  BY DEF DelayInit, DelayAt
<1> QED
  BY <1>1, <1>2, <1>3, Zenon DEF DelayInit, DelayTypeOK

LEMMA CountTypes ==
  ASSUME DelayTypeOK, Count
  PROVE  DelayTypeOK'
<1>1. passed' \in [Level -> Nat]
  BY AskedIsNat DEF DelayTypeOK, Count
<1>2. VAL' \in 0 .. Wrap - 1 /\ COUNTFLAG' \in BOOLEAN
  <2>1. CASE VAL = 0
    BY <2>1 DEF DelayTypeOK, Count
  <2>2. CASE VAL # 0
    <3>1. VAL' = VAL - 1
      BY <2>2 DEF Count
    <3>2. VAL' \in 0 .. Wrap - 1
      BY <2>2, <3>1, Width DEF DelayTypeOK
    <3>3. COUNTFLAG' = (COUNTFLAG \/ VAL = 1)
      BY <2>2 DEF Count
    <3>4. COUNTFLAG' \in BOOLEAN
      BY <3>3, Zenon
    <3> QED
      BY <3>2, <3>4
  <2> QED
    BY <2>1, <2>2
<1> QED
  BY <1>1, <1>2 DEF DelayTypeOK, Count

LEMMA CallTypes ==
  ASSUME DelayTypeOK, NEW l \in Level, NEW n \in Requests, Call(l, n)
  PROVE  DelayTypeOK'
<1>1. disturbed' \in [Level -> BOOLEAN]
  BY DEF DelayTypeOK, Call
<1> QED
  BY <1>1, Width DEF DelayTypeOK, DelayAt, Call, MoveOn

LEMMA StepTypes ==
  ASSUME DelayTypeOK, NEW l \in Level, DelayStep(l)
  PROVE  DelayTypeOK'
<1>0. 0 \in 0 .. Wrap - 1
  BY Width
<1>1. CASE SetLoad(l)
  <2>1. LOAD' \in 0 .. Wrap - 1
    BY <1>1, Cut, AskedIsNat DEF SetLoad
  <2> QED
    BY <1>1, <2>1 DEF DelayTypeOK, DelayAt, SetLoad, MoveOn
<1>2. CASE ClearVal(l)
  BY <1>0, <1>2 DEF DelayTypeOK, DelayAt, ClearVal, MoveOn
<1>3. CASE Enable(l)
  BY <1>3 DEF DelayTypeOK, DelayAt, Enable, MoveOn
<1>4. CASE Poll(l)
  BY <1>4 DEF DelayTypeOK, DelayAt, Poll, MoveOn
<1>5. CASE Disable(l)
  BY <1>5 DEF DelayTypeOK, DelayAt, Disable, MoveOn
<1>6. CASE Return(l)
  BY <1>0, <1>6 DEF DelayTypeOK, DelayAt, Return, MoveOn
<1> QED
  BY <1>1, <1>2, <1>3, <1>4, <1>5, <1>6 DEF DelayStep

\* The variables keep their types; the counter keeps to its width.
THEOREM TypeCorrect == DelaySpec => []DelayTypeOK
<1>1. DelayTypeOK /\ [DelayNext]_delayVars => DelayTypeOK'
  <2> SUFFICES ASSUME DelayTypeOK, [DelayNext]_delayVars PROVE DelayTypeOK'
    OBVIOUS
  <2>1. CASE Count
    BY <2>1, CountTypes
  <2>2. ASSUME NEW l \in Level, DelayStep(l) PROVE DelayTypeOK'
    BY <2>2, StepTypes
  <2>3. ASSUME NEW l \in Level, NEW n \in Requests, Call(l, n) PROVE DelayTypeOK'
    BY <2>3, CallTypes
  <2>4. CASE UNCHANGED delayVars
    BY <2>4 DEF delayVars, DelayTypeOK
  <2> QED
    BY <2>1, <2>2, <2>3, <2>4 DEF DelayNext
<1> QED
  BY <1>1, InitTypes, PTL DEF DelaySpec

-----------------------------------------------------------------------------
(* The length of a delay.                                                  *)

\* A delay that is not the highest one has been disturbed, and no count goes
\* by for one before it cleared the counter.
Preempted ==
  /\ \A k, l \in Level : k < l /\ at[k] # "idle" /\ at[l] # "idle" => disturbed[k]
  /\ \A l \in Level : at[l] \in {"load", "val"} => passed[l] = 0

LEMMA PreemptedStep ==
  ASSUME DelayTypeOK, Preempted, [DelayNext]_delayVars
  PROVE  Preempted'
<1>1. CASE Count
  BY <1>1 DEF Count, Preempted, DelayTypeOK
<1>2. ASSUME NEW m \in Level, DelayStep(m) PROVE Preempted'
  <2>1. /\ UNCHANGED <<passed, disturbed>>
        /\ at[m] # "idle"
        /\ \E next \in DelayAt \ {"load"} :
             /\ at' = [at EXCEPT ![m] = next]
             /\ next = "val" => at[m] = "load"
    BY <1>2 DEF DelayStep, SetLoad, ClearVal, Enable, Poll, Disable, Return, Top,
                MoveOn, DelayAt
  <2> QED
    BY <2>1 DEF Preempted, DelayTypeOK
<1>3. ASSUME NEW m \in Level, NEW n \in Requests, Call(m, n) PROVE Preempted'
  <2>1. /\ \A l \in Level : l > m => at[l] = "idle"
        /\ at'[m] = "load" /\ passed'[m] = 0
        /\ \A l \in Level \ {m} :
             /\ at'[l] = at[l] /\ passed'[l] = passed[l]
             /\ at[l] # "idle" => disturbed'[l]
    <3>1. \A l \in Level : l > m => at[l] = "idle"
      BY <1>3 DEF Call, Free, Level
    <3>2. /\ at'[m] = "load" /\ passed'[m] = 0
          /\ \A l \in Level \ {m} : at'[l] = at[l] /\ passed'[l] = passed[l]
      BY <1>3 DEF Call, MoveOn, DelayTypeOK
    <3>3. \A l \in Level \ {m} : at[l] # "idle" => disturbed'[l]
      BY <1>3, Zenon DEF Call
    <3> QED
      BY <3>1, <3>2, <3>3
  <2>2. ASSUME NEW k \in Level, NEW l \in Level, k < l, at'[k] # "idle", at'[l] # "idle"
        PROVE  disturbed'[k]
    <3>1. k # m
      BY <2>1, <2>2 DEF Level
    <3> QED
      BY <2>1, <2>2, <3>1
  <2>3. \A l \in Level : at'[l] \in {"load", "val"} => passed'[l] = 0
    BY <2>1 DEF Preempted
  <2> QED
    BY <2>2, <2>3 DEF Preempted
<1>4. CASE UNCHANGED delayVars
  BY <1>4 DEF delayVars, Preempted
<1> QED
  BY <1>1, <1>2, <1>3, <1>4 DEF DelayNext

\* One level's part of DelayProgress.
Progress(l) ==
  ~disturbed[l] =>
    /\ at[l] \in {"val", "enable", "poll"} => LOAD = asked[l] % Wrap
    /\ at[l] \in {"enable", "poll"} =>
         /\ COUNTFLAG => passed[l] >= LOAD
         /\ ~COUNTFLAG => \/ VAL = 0 /\ (passed[l] = 0 \/ passed[l] >= LOAD)
                          \/ VAL > 0 /\ passed[l] + VAL > LOAD
    /\ at[l] = "poll" => enabled
    /\ at[l] = "disable" => passed[l] >= asked[l] % Wrap

LEMMA CountProgress ==
  ASSUME DelayTypeOK, Count, NEW l \in Level, Progress(l)
  PROVE  Progress(l)'
<1> SUFFICES ASSUME ~disturbed[l] PROVE Progress(l)'
  BY DEF Count, Progress
<1>1. asked[l] \in Nat /\ passed[l] \in Nat /\ asked[l] % Wrap <= asked[l]
  BY AskedIsNat, Cut
<1>2. LOAD \in Nat /\ VAL \in Nat
  BY Width DEF DelayTypeOK
<1>3. UNCHANGED <<at, asked, disturbed, LOAD, enabled>>
  BY DEF Count
<1>4. passed'[l] = IF at[l] \in {"enable", "poll"} /\ passed[l] < asked[l]
                   THEN passed[l] + 1 ELSE passed[l]
  BY DEF Count
<1>5. CASE at[l] \in {"enable", "poll"}
  <2>1. LOAD <= asked[l]
    BY <1>1, <1>5 DEF Progress
  <2>2. passed'[l] \in Nat /\ passed'[l] >= passed[l]
        /\ (passed[l] < asked[l] => passed'[l] = passed[l] + 1)
    BY <1>1, <1>4, <1>5
  <2>3. CASE VAL = 0
    <3>1. VAL' = LOAD /\ COUNTFLAG' = COUNTFLAG
      BY <2>3 DEF Count
    <3> QED
      BY <1>1, <1>2, <1>3, <1>5, <2>1, <2>2, <2>3, <3>1 DEF Progress
  <2>4. CASE VAL # 0
    <3>1. VAL' = VAL - 1 /\ (COUNTFLAG' <=> COUNTFLAG \/ VAL = 1)
      BY <2>4 DEF Count
    <3>2. COUNTFLAG' => passed'[l] >= LOAD
      BY <1>1, <1>2, <1>5, <2>2, <2>4, <3>1 DEF Progress
    <3>3. ~COUNTFLAG' => VAL' > 0 /\ passed'[l] + VAL' > LOAD
      <4>1. CASE passed[l] < asked[l]
        BY <1>1, <1>2, <1>5, <2>2, <2>4, <3>1, <4>1 DEF Progress
      <4>2. CASE passed[l] >= asked[l]
        BY <1>1, <1>2, <1>5, <2>1, <2>2, <2>4, <3>1, <4>2 DEF Progress
      <4> QED
        BY <1>1, <4>1, <4>2
    <3> QED
      BY <1>3, <1>5, <3>2, <3>3 DEF Progress
  <2> QED
    BY <2>3, <2>4
<1>6. CASE at[l] \notin {"enable", "poll"}
  BY <1>3, <1>4, <1>6 DEF Progress
<1> QED
  BY <1>5, <1>6

LEMMA CallProgress ==
  ASSUME DelayTypeOK, NEW m \in Level, NEW n \in Requests, Call(m, n),
         NEW l \in Level, Progress(l)
  PROVE  Progress(l)'
<1>1. CASE l = m
  BY <1>1 DEF Call, MoveOn, Progress, DelayTypeOK
<1>2. CASE l # m
  <2>1. at'[l] = at[l] /\ (at[l] = "idle" \/ disturbed'[l])
    BY <1>2 DEF Call, MoveOn, DelayTypeOK
  <2> QED
    BY <2>1 DEF Progress
<1> QED
  BY <1>1, <1>2

\* A step of the highest delay is one of a delay without others, as long as
\* that is undisturbed.
LEMMA StepProgress ==
  ASSUME DelayTypeOK, Preempted, NEW m \in Level, DelayStep(m),
         NEW l \in Level, Progress(l)
  PROVE  Progress(l)'
<1> SUFFICES ASSUME ~disturbed[l] PROVE Progress(l)'
  BY DEF DelayStep, SetLoad, ClearVal, Enable, Poll, Disable, Return, Progress
<1>0. asked[l] \in Nat /\ passed[l] \in Nat /\ asked[l] % Wrap \in Nat
      /\ LOAD \in Nat /\ VAL \in Nat
  BY AskedIsNat, Cut, Width DEF DelayTypeOK
<1>1. CASE l # m
  <2>1. Top(m)
    BY DEF DelayStep, SetLoad, ClearVal, Enable, Poll, Disable, Return
  <2>2. at[l] = "idle"
    BY <1>1, <2>1 DEF Top, Preempted, Level
  <2>3. at'[l] = at[l]
    BY <1>1 DEF DelayStep, SetLoad, ClearVal, Enable, Poll, Disable, Return, MoveOn,
                DelayTypeOK
  <2> QED
    BY <2>2, <2>3 DEF Progress
<1>2. CASE l = m
  <2>0. \A next : MoveOn(l, next) => at'[l] = next
    BY DEF MoveOn, DelayTypeOK
  <2>1. CASE SetLoad(l)
    BY <2>0, <2>1 DEF SetLoad, Progress
  <2>2. CASE ClearVal(l)
    BY <2>0, <2>2 DEF ClearVal, Progress, Preempted
  <2>3. CASE Enable(l)
    BY <1>0, <2>0, <2>3 DEF Enable, Progress
  <2>4. CASE Poll(l)
    <3>1. CASE enabled /\ ~COUNTFLAG
      BY <2>0, <2>4, <3>1 DEF Poll, Progress
    <3>2. CASE ~(enabled /\ ~COUNTFLAG)
      BY <2>0, <2>4, <3>2 DEF Poll, Progress
    <3> QED
      BY <3>1, <3>2
  <2>5. CASE Disable(l)
    BY <2>0, <2>5 DEF Disable, Progress
  <2>6. CASE Return(l)
    BY <2>0, <2>6 DEF Return, Progress
  <2> QED
    BY <1>2, <2>1, <2>2, <2>3, <2>4, <2>5, <2>6 DEF DelayStep
<1> QED
  BY <1>1, <1>2

LEMMA ProgressIsProgress == DelayProgress <=> \A l \in Level : Progress(l)
BY DEF DelayProgress, Progress

\* The invariant behind the length of a delay.
THEOREM ProgressInvariant == DelaySpec => []DelayProgress
<1>1. DelayInit => Preempted /\ DelayProgress
  BY DEF DelayInit, Preempted, DelayProgress
<1>2. DelayTypeOK /\ Preempted /\ [DelayNext]_delayVars => Preempted'
  BY PreemptedStep
<1>3. DelayTypeOK /\ Preempted /\ DelayProgress /\ [DelayNext]_delayVars => DelayProgress'
  <2> SUFFICES ASSUME DelayTypeOK, Preempted, DelayProgress, [DelayNext]_delayVars
               PROVE  DelayProgress'
    OBVIOUS
  <2> SUFFICES ASSUME NEW l \in Level PROVE Progress(l)'
    BY DEF DelayProgress, Progress
  <2>0. Progress(l)
    BY ProgressIsProgress
  <2>1. CASE Count
    BY <2>0, <2>1, CountProgress
  <2>2. ASSUME NEW m \in Level, DelayStep(m) PROVE Progress(l)'
    BY <2>0, <2>2, StepProgress
  <2>3. ASSUME NEW m \in Level, NEW n \in Requests, Call(m, n) PROVE Progress(l)'
    BY <2>0, <2>3, CallProgress
  <2>4. CASE UNCHANGED delayVars
    BY <2>0, <2>4 DEF delayVars, Progress
  <2> QED
    BY <2>1, <2>2, <2>3, <2>4 DEF DelayNext
<1> QED
  BY <1>1, <1>2, <1>3, TypeCorrect, PTL DEF DelaySpec

\* A delay no handler's delay interrupts lasts as long as it asked for, if that
\* fits in the register.
THEOREM UndisturbedDelaysLast == DelaySpec => []UndisturbedLasts
<1>1. DelayProgress => UndisturbedLasts
  BY DEF DelayProgress, UndisturbedLasts
<1> QED
  BY <1>1, ProgressInvariant, PTL

-----------------------------------------------------------------------------
(* What delays leave behind.                                               *)

\* The highest delay has stopped the counter when it is about to return, and
\* so has the last one that did.
Stopped ==
  /\ \A l \in Level : at[l] = "clear" /\ Top(l) => ~enabled
  /\ IdleStops

LEMMA StoppedStep ==
  ASSUME DelayTypeOK, Stopped, [DelayNext]_delayVars
  PROVE  Stopped'
<1>1. CASE Count
  BY <1>1 DEF Count, Stopped, IdleStops, Top
<1>2. ASSUME NEW m \in Level, DelayStep(m) PROVE Stopped'
  <2>0. Top(m) /\ \A next : MoveOn(m, next) =>
          at'[m] = next /\ \A l \in Level \ {m} : at'[l] = at[l]
    BY <1>2 DEF DelayStep, SetLoad, ClearVal, Enable, Poll, Disable, Return, MoveOn,
                DelayTypeOK
  <2>1. CASE Disable(m)
    BY <2>1 DEF Disable, Stopped, IdleStops
  <2>2. CASE Return(m)
    BY <2>2 DEF Return, Stopped, IdleStops
  <2>3. CASE SetLoad(m) \/ ClearVal(m) \/ Enable(m) \/ Poll(m)
    <3>1. at'[m] \notin {"idle", "clear"}
      BY <2>0, <2>3 DEF SetLoad, ClearVal, Enable, Poll
    <3>2. \A l \in Level : l > m => at'[l] = "idle"
      BY <2>0, <2>3 DEF SetLoad, ClearVal, Enable, Poll, Top, Level
    <3> QED
      BY <3>1, <3>2 DEF Stopped, IdleStops, Top, Level
  <2> QED
    BY <1>2, <2>1, <2>2, <2>3 DEF DelayStep
<1>3. ASSUME NEW m \in Level, NEW n \in Requests, Call(m, n) PROVE Stopped'
  <2>1. at'[m] = "load" /\ \A l \in Level : l > m => at'[l] = "idle"
    BY <1>3 DEF Call, Free, MoveOn, DelayTypeOK, Level
  <2> QED
    BY <2>1 DEF Stopped, IdleStops, Top, Level
<1>4. CASE UNCHANGED delayVars
  BY <1>4 DEF delayVars, Stopped, IdleStops, Top
<1> QED
  BY <1>1, <1>2, <1>3, <1>4 DEF DelayNext

\* With no delay in progress the counter is stopped, however they were nested.
THEOREM CounterStops == DelaySpec => []IdleStops
<1>1. DelayInit => Stopped
  BY DEF DelayInit, Stopped, IdleStops
<1>2. DelayTypeOK /\ Stopped /\ [DelayNext]_delayVars => Stopped'
  BY StoppedStep
<1>3. Stopped => IdleStops
  BY DEF Stopped
<1> QED
  BY <1>1, <1>2, <1>3, TypeCorrect, PTL DEF DelaySpec

\* What a delay may rely on, for any levels, requests and register width.
THEOREM DelayIsSound == DelaySpec => []DelaySound
<1>1. DelayTypeOK /\ UndisturbedLasts /\ IdleStops /\ DelayProgress => DelaySound
  BY DEF DelaySound
<1> QED
  BY <1>1, TypeCorrect, UndisturbedDelaysLast, CounterStops, ProgressInvariant, PTL

-----------------------------------------------------------------------------
(* A reading of the DHT11.                                                 *)

LEMMA ReadingConstants ==
  /\ Bits \in Nat \ {0} /\ Limit \in Nat \ {0} /\ Pulse \in Nat /\ Strobe \in Nat
  /\ NumBits \in Nat \ {0}
BY Dht11Assumption DEF Dht11Assumption, NumBits

\* What one bit costs at most, and the start and answer of a reading.
BitCost == 2 * Limit + Strobe
StartCost == Pulse + 2 * (Limit + 1)

LEMMA CostsAreNat == BitCost \in Nat /\ StartCost \in Nat
BY ReadingConstants DEF BitCost, StartCost

\* What n bits cost.
Cost(n) == n * BitCost

LEMMA CostIsNat ==
  ASSUME NEW n \in Nat
  PROVE  Cost(n) \in Nat
<1> DEFINE c == BitCost
<1> HIDE DEF c
<1>1. c \in Nat
  BY CostsAreNat DEF c
<1>2. n * c \in Nat
  BY <1>1
<1> QED
  BY <1>2 DEF c, Cost

\* One bit more costs one bit more, and never more than all of them.
LEMMA BitsCost ==
  ASSUME NEW n \in Nat, n < NumBits
  PROVE  Cost(n + 1) = Cost(n) + BitCost /\ Cost(n + 1) <= Cost(NumBits)
<1> DEFINE c == BitCost
<1> HIDE DEF c
<1>1. c \in Nat /\ NumBits \in Nat
  BY CostsAreNat, ReadingConstants DEF c
<1>2. (n + 1) * c = n * c + c
  BY <1>1
<1>3. (n + 1) * c <= NumBits * c
  BY <1>1
<1> QED
  BY <1>2, <1>3 DEF c, Cost

\* No bits have been read when a reading begins.
LEMMA NoBits == <<>> \in Seq({0, 1}) /\ Len(<<>>) = 0 /\ Cost(0) = 0
<1>1. Cost(0) = 0
  BY CostsAreNat DEF Cost
<1> QED
  BY <1>1

\* The time spent so far, at each place of a reading.
SpentBound ==
  /\ dhtAt = "high" => spent <= Pulse + delaytime
  /\ dhtAt = "low" => spent <= Pulse + Limit + delaytime
  /\ dhtAt = "bitHigh" => spent <= StartCost + Cost(Len(buf)) + delaytime
  /\ dhtAt = "bitLow" => spent <= StartCost + Cost(Len(buf)) + Limit + delaytime
  /\ dhtAt = "sample" => spent <= StartCost + Cost(Len(buf)) + 2 * Limit
  /\ dhtAt \in {"sum", "idle"} => spent <= StartCost + Cost(NumBits)

\* The inductive invariant of a reading.
ReadingInv ==
  /\ Dht11TypeOK /\ SpentBound
  /\ dhtAt \in {"bitHigh", "bitLow", "sample"} => Len(buf) < NumBits
  /\ dhtAt \in {"high", "low"} => buf = <<>>
  /\ dhtAt \in {"bitHigh", "bitLow"} => delaytime <= Limit
  /\ dhtAt \in {"sample", "sum"} => delaytime = 0

LEMMA ReadingInit == Dht11Init => ReadingInv
<1> SUFFICES ASSUME Dht11Init PROVE ReadingInv
  OBVIOUS
<1>0. buf \in Seq({0, 1}) /\ Len(buf) = 0
  BY NoBits, Zenon DEF Dht11Init
<1>1. Dht11TypeOK
  <2>1. dhtAt = "idle" /\ delaytime = 0 /\ spent = 0 /\ published \in BOOLEAN
    BY Zenon DEF Dht11Init
  <2> QED
    BY <1>0, <2>1, ReadingConstants DEF Dht11TypeOK, DhtAt
<1>2. Cost(NumBits) \in Nat
  BY CostIsNat, ReadingConstants
<1> QED
  BY <1>1, <1>2, CostsAreNat DEF Dht11Init, ReadingInv, SpentBound

\* Every wait counts a microsecond, and stops at the bound.
LEMMA WaitStep ==
  ASSUME ReadingInv, NEW l \in {"high", "low", "bitHigh", "bitLow"}, Wait(l),
         delaytime <= Limit, l \in {"bitHigh", "bitLow"} => delaytime < Limit
  PROVE  ReadingInv'
<1>1. Dht11TypeOK'
  BY ReadingConstants DEF ReadingInv, Dht11TypeOK, Wait
<1>2. SpentBound'
  <2>1. Cost(Len(buf)) \in Nat /\ StartCost \in Nat /\ Cost(NumBits) \in Nat
    BY CostIsNat, CostsAreNat, ReadingConstants DEF ReadingInv, Dht11TypeOK
  <2> QED
    BY <2>1, ReadingConstants DEF ReadingInv, Dht11TypeOK, SpentBound, Wait
<1> QED
  BY <1>1, <1>2, ReadingConstants DEF ReadingInv, Dht11TypeOK, Wait

LEMMA ReadingStep == ReadingInv /\ [Dht11Next]_dht11Vars => ReadingInv'
<1> SUFFICES ASSUME ReadingInv, [Dht11Next]_dht11Vars PROVE ReadingInv'
  OBVIOUS
<1>0. /\ Cost(NumBits) \in Nat /\ StartCost \in Nat /\ BitCost \in Nat
      /\ spent \in Nat /\ delaytime \in Nat /\ buf \in Seq({0, 1}) /\ Len(buf) \in Nat
  BY CostIsNat, CostsAreNat, ReadingConstants DEF ReadingInv, Dht11TypeOK
<1>1. CASE DHT11_Start
  <2>0. buf' \in Seq({0, 1}) /\ Len(buf') = 0
    BY <1>1, NoBits, Zenon DEF DHT11_Start
  <2>1. Dht11TypeOK'
    <3>1. dhtAt' = "high" /\ delaytime' = 0 /\ spent' = Pulse /\ published' \in BOOLEAN
      BY <1>1, Zenon DEF DHT11_Start
    <3> QED
      BY <2>0, <3>1, ReadingConstants DEF Dht11TypeOK, DhtAt
  <2> QED
    BY <1>1, <2>1, ReadingConstants DEF DHT11_Start, ReadingInv, SpentBound
<1>2. CASE AnswerWait
  BY <1>2, WaitStep DEF AnswerWait
<1>3. CASE BitWait
  BY <1>3, <1>0, WaitStep, ReadingConstants DEF BitWait
<1>4. CASE AnswerFails
  <2>1. Dht11TypeOK'
    BY <1>4, ReadingConstants DEF AnswerFails, Proceed, Dht11TypeOK, DhtAt, ReadingInv
  <2>2. spent <= StartCost
    BY <1>4, <1>0, ReadingConstants
       DEF AnswerFails, ReadingInv, Dht11TypeOK, SpentBound, StartCost
  <2> QED
    BY <1>4, <1>0, <2>1, <2>2 DEF AnswerFails, Proceed, ReadingInv, SpentBound
<1>5. CASE Answer
  <2>1. Dht11TypeOK'
    BY <1>5, ReadingConstants DEF Answer, Proceed, Dht11TypeOK, DhtAt, ReadingInv
  <2>2. CASE dhtAt = "high"
    BY <1>5, <1>0, <2>1, <2>2, ReadingConstants
       DEF Answer, Proceed, ReadingInv, SpentBound
  <2>3. CASE dhtAt = "low"
    <3>1. spent <= StartCost /\ dhtAt' = "bitHigh" /\ delaytime' = 0 /\ spent' = spent
      BY <1>5, <1>0, <2>3, ReadingConstants
         DEF Answer, Proceed, ReadingInv, SpentBound, StartCost
    <3>2. Len(buf') = 0
      BY <1>5, <2>3, NoBits, Zenon DEF Answer, Proceed, ReadingInv
    <3>3. Cost(Len(buf')) = 0
      BY <3>2, NoBits, Zenon
    <3> QED
      BY <1>0, <2>1, <3>1, <3>2, <3>3, ReadingConstants DEF ReadingInv, SpentBound
  <2> QED
    BY <1>5, <2>2, <2>3 DEF Answer
<1>6. CASE BitEdge
  <2>1. Dht11TypeOK'
    BY <1>6, ReadingConstants DEF BitEdge, Proceed, Dht11TypeOK, DhtAt, ReadingInv
  <2>2. Cost(Len(buf)) \in Nat
    BY <1>0, CostIsNat
  <2> QED
    BY <1>6, <1>0, <2>1, <2>2, ReadingConstants
       DEF BitEdge, Proceed, ReadingInv, SpentBound
<1>7. ASSUME NEW level \in {0, 1}, BitSample(level) PROVE ReadingInv'
  <2>1. buf' \in Seq({0, 1}) /\ Len(buf') = Len(buf) + 1 /\ Len(buf) < NumBits
    BY <1>7, <1>0 DEF BitSample, ReadingInv
  <2>2. Dht11TypeOK'
    BY <1>7, <2>1, <1>0, ReadingConstants
       DEF BitSample, Dht11TypeOK, DhtAt, ReadingInv
  <2>3. spent' <= StartCost + Cost(Len(buf) + 1)
    <3>1. Cost(Len(buf)) \in Nat
          /\ Cost(Len(buf) + 1) = Cost(Len(buf)) + BitCost
      BY <1>0, <2>1, BitsCost, CostIsNat
    <3>2. spent <= StartCost + Cost(Len(buf)) + 2 * Limit /\ spent' = spent + Strobe
      BY <1>7 DEF BitSample, ReadingInv, SpentBound
    <3>3. Cost(Len(buf) + 1) = Cost(Len(buf)) + 2 * Limit + Strobe
      BY <3>1, ReadingConstants DEF BitCost
    <3> QED
      BY <1>0, <3>1, <3>2, <3>3, ReadingConstants
  <2>4. CASE Len(buf) + 1 = NumBits
    BY <1>7, <1>0, <2>1, <2>2, <2>3, <2>4 DEF BitSample, ReadingInv, SpentBound
  <2>5. CASE Len(buf) + 1 # NumBits
    <3>1. delaytime' = delaytime /\ dhtAt' = "bitHigh" /\ Len(buf') < NumBits
      BY <1>7, <1>0, <2>1, <2>5, ReadingConstants DEF BitSample
    <3>2. delaytime = 0
      BY <1>7 DEF BitSample, ReadingInv
    <3>3. Cost(Len(buf')) = Cost(Len(buf) + 1)
      BY <2>1
    <3>4. SpentBound'
      <4>1. spent' <= StartCost + Cost(Len(buf')) + delaytime'
        <5>1. Cost(Len(buf')) \in Nat /\ delaytime' = 0
          BY <2>1, <3>1, <3>2, <1>0, CostIsNat
        <5> QED
          BY <2>3, <3>3, <5>1, <1>0
      <4> QED
        BY <3>1, <4>1 DEF SpentBound
    <3> QED
      BY <2>2, <3>1, <3>2, <3>4, ReadingConstants DEF ReadingInv
  <2> QED
    BY <2>4, <2>5
<1>8. CASE DHT11_Sum
  <2>1. published' \in BOOLEAN
    BY <1>8, Zenon DEF DHT11_Sum, SumMatches
  <2>2. Dht11TypeOK'
    BY <1>8, <2>1 DEF DHT11_Sum, Dht11TypeOK, DhtAt, ReadingInv
  <2> QED
    BY <1>8, <2>2 DEF DHT11_Sum, ReadingInv, SpentBound
<1>9. CASE UNCHANGED dht11Vars
  BY <1>9 DEF dht11Vars, ReadingInv, SpentBound, Dht11TypeOK
<1> QED
  BY <1>1, <1>2, <1>3, <1>4, <1>5, <1>6, <1>7, <1>8, <1>9 DEF Dht11Next, Dht11Step

\* Nothing that is spent is above the time of a whole reading.
LEMMA BoundFollows == ReadingInv => ReadingBounded
<1> SUFFICES ASSUME ReadingInv PROVE ReadingBounded
  OBVIOUS
<1>1. /\ Cost(NumBits) \in Nat /\ StartCost \in Nat /\ BitCost \in Nat
      /\ spent \in Nat /\ delaytime \in Nat /\ Len(buf) \in Nat
  BY CostIsNat, CostsAreNat, ReadingConstants DEF ReadingInv, Dht11TypeOK
<1>2. spent <= StartCost + Cost(NumBits)
  <2>1. CASE dhtAt \in {"high", "low"}
    BY <1>1, <2>1, ReadingConstants
       DEF ReadingInv, Dht11TypeOK, SpentBound, StartCost
  <2>2. CASE dhtAt \in {"sum", "idle"}
    BY <2>2 DEF ReadingInv, SpentBound
  <2>3. CASE dhtAt \in {"bitHigh", "bitLow", "sample"}
    <3>1. /\ Cost(Len(buf)) \in Nat /\ Cost(Len(buf) + 1) = Cost(Len(buf)) + BitCost
          /\ Cost(Len(buf) + 1) <= Cost(NumBits)
      BY <1>1, <2>3, BitsCost, CostIsNat DEF ReadingInv
    <3>2. spent <= StartCost + Cost(Len(buf)) + 2 * Limit
      BY <1>1, <2>3, <3>1, ReadingConstants DEF ReadingInv, SpentBound
    <3>3. 2 * Limit <= BitCost
      BY ReadingConstants DEF BitCost
    <3> QED
      BY <1>1, <3>1, <3>2, <3>3, ReadingConstants
  <2> QED
    BY <2>1, <2>2, <2>3 DEF ReadingInv, Dht11TypeOK, DhtAt
<1>3. StartCost + Cost(NumBits)
        = Pulse + 2 * (Limit + 1) + NumBits * (2 * Limit + Strobe)
  BY Zenon DEF StartCost, Cost, BitCost
<1> QED
  BY <1>2, <1>3 DEF ReadingBounded

\* The invariant holds in every reading.
THEOREM ReadingInvariant == Dht11Spec => []ReadingInv
<1> QED
  BY ReadingInit, ReadingStep, PTL DEF Dht11Spec

\* The counter of a wait is an unsigned char that counts to one more than its
\* bound and never wraps, and no reading has more than its forty bits.
THEOREM ReadingTypeCorrect == Dht11Spec => []Dht11TypeOK
<1>1. ReadingInv => Dht11TypeOK
  BY DEF ReadingInv
<1> QED
  BY <1>1, ReadingInvariant, PTL

\* Whatever levels the sensor shows and whenever it stops, a reading is over
\* within the time of its pulse, two waits and forty bits.
THEOREM ReadingsAreBounded == Dht11Spec => []ReadingBounded
<1> QED
  BY BoundFollows, ReadingInvariant, PTL

-----------------------------------------------------------------------------
(* The handlers of the two timers.                                         *)

LEMMA SamplingConstants ==
  /\ MinLast \in Nat /\ MaxLast \in Nat /\ Periods \in Nat /\ Horizon \in Nat
  /\ 2 <= MinLast /\ MinLast <= MaxLast /\ MaxLast < Periods
BY SamplingAssumption DEF SamplingAssumption

\* The types, one variable at a time.
TimersTyped ==
  /\ toUpdate \in 0 .. Periods
  /\ pending2 \in BOOLEAN /\ pending3 \in BOOLEAN
  /\ running \in BOOLEAN /\ missed2 \in BOOLEAN
  /\ busy \in 0 .. MaxLast /\ ticks \in 0 .. 10 /\ handled \in 0 .. Horizon
  /\ lwip_localtime \in Nat /\ elapsed \in Nat /\ co2At \in Nat /\ uploadAt \in Nat

\* TIM2's handler runs on a set flag, began right after the update, and has
\* as long to go as it lasts; a waiting flag was set just now.
HandlerPlace ==
  /\ running => pending2 /\ ticks >= 1
                /\ MinLast + toUpdate <= Periods + busy
                /\ Periods + busy <= MaxLast + toUpdate
  /\ ~running => busy = 0 /\ ticks <= 9
  /\ pending2 /\ ~running => toUpdate = Periods
  /\ ~missed2

SamplingInv == TimersTyped /\ HandlerPlace

LEMMA SamplingInitial == SamplingInit => SamplingInv
<1> SUFFICES ASSUME SamplingInit PROVE SamplingInv
  OBVIOUS
<1>1. /\ pending2 \in BOOLEAN /\ pending3 \in BOOLEAN /\ running \in BOOLEAN
      /\ missed2 \in BOOLEAN /\ ~pending2 /\ ~running /\ ~missed2
  BY Zenon DEF SamplingInit
<1>2. /\ toUpdate = Periods /\ busy = 0 /\ ticks = 0 /\ handled = 0
      /\ lwip_localtime = 0 /\ elapsed = 0 /\ co2At = 0 /\ uploadAt = 0
  BY Zenon DEF SamplingInit
<1>3. /\ toUpdate \in 0 .. Periods /\ busy \in 0 .. MaxLast /\ ticks \in 0 .. 10
      /\ handled \in 0 .. Horizon /\ lwip_localtime \in Nat /\ elapsed \in Nat
      /\ co2At \in Nat /\ uploadAt \in Nat /\ ticks <= 9
  BY <1>2, SamplingConstants
<1>4. TimersTyped
  BY <1>1, <1>3, Zenon DEF TimersTyped
<1>5. HandlerPlace
  BY <1>1, <1>2, <1>3, Zenon DEF HandlerPlace
<1> QED
  BY <1>4, <1>5, Zenon DEF SamplingInv

LEMMA SamplingStep == SamplingInv /\ [SamplingNext]_samplingVars => SamplingInv'
<1> SUFFICES ASSUME SamplingInv, [SamplingNext]_samplingVars PROVE SamplingInv'
  OBVIOUS
<1>1. CASE Period
  BY <1>1, SamplingConstants DEF Period, SamplingInv, TimersTyped, HandlerPlace
<1>2. CASE Update2
  BY <1>2, SamplingConstants DEF Update2, SamplingInv, TimersTyped, HandlerPlace
<1>3. CASE TIM3_IRQHandler
  <2>1. TimersTyped'
    <3>1. pending3' \in BOOLEAN
      BY <1>3, Zenon DEF TIM3_IRQHandler
    <3>2. lwip_localtime' \in Nat
      BY <1>3 DEF TIM3_IRQHandler, SamplingInv, TimersTyped
    <3> QED
      BY <1>3, <3>1, <3>2, Zenon DEF TIM3_IRQHandler, SamplingInv, TimersTyped
  <2>2. HandlerPlace'
    BY <1>3 DEF TIM3_IRQHandler, SamplingInv, HandlerPlace
  <2> QED
    BY <2>1, <2>2 DEF SamplingInv
<1>4. CASE TIM2_IRQEnter
  <2>1. /\ ~running /\ pending2 /\ running' = TRUE /\ pending2' = pending2
        /\ missed2' = missed2
    BY <1>4, Zenon DEF TIM2_IRQEnter
  <2>4. /\ ticks' = ticks + 1 /\ busy' \in MinLast .. MaxLast
        /\ handled < Horizon /\ handled' = handled + 1 /\ toUpdate' = toUpdate
    BY <1>4, Zenon DEF TIM2_IRQEnter
  <2>2. TimersTyped'
    <3>1. ticks <= 9
      BY <2>1, Zenon DEF SamplingInv, HandlerPlace
    <3>2. running' \in BOOLEAN /\ pending2' \in BOOLEAN /\ pending3' \in BOOLEAN
          /\ missed2' \in BOOLEAN
      BY <1>4, Zenon DEF TIM2_IRQEnter, SamplingInv, TimersTyped
    <3> QED
      BY <1>4, <2>4, <3>1, <3>2, SamplingConstants
         DEF TIM2_IRQEnter, SamplingInv, TimersTyped
  <2>3. HandlerPlace'
    <3>1. ~missed2
      BY <2>1, Zenon DEF SamplingInv, HandlerPlace
    <3>2. toUpdate = Periods
      BY <2>1, Zenon DEF SamplingInv, HandlerPlace
    <3>3. ticks \in Nat
      BY DEF SamplingInv, TimersTyped
    <3>4. ticks' >= 1
      BY <2>4, <3>3
    <3>5. MinLast + toUpdate' <= Periods + busy' /\ Periods + busy' <= MaxLast + toUpdate'
      <4>1. PICK b \in MinLast .. MaxLast : busy' = b
        BY <2>4
      <4>2. MinLast + Periods <= Periods + b /\ Periods + b <= MaxLast + Periods
        BY SamplingConstants
      <4>3. toUpdate' = Periods
        BY <2>4, <3>2, Zenon
      <4> QED
        BY <4>1, <4>2, <4>3, Zenon
    <3> QED
      BY <2>1, <2>4, <3>1, <3>2, <3>4, <3>5, Zenon DEF HandlerPlace
  <2> QED
    BY <2>2, <2>3 DEF SamplingInv
<1>5. CASE TIM2_IRQLeave
  <2>1. /\ running /\ busy = 0 /\ running' = FALSE /\ pending2' = FALSE
        /\ busy' = busy /\ missed2' = missed2 /\ pending3' = pending3
    BY <1>5, Zenon DEF TIM2_IRQLeave
  <2>2. ticks' \in 0 .. 9
    <3>1. ticks \in 1 .. 10
      BY <2>1 DEF SamplingInv, TimersTyped, HandlerPlace
    <3>2. ticks' = IF ticks % 10 = 0 THEN 0 ELSE ticks
      BY <1>5 DEF TIM2_IRQLeave
    <3> QED
      BY <3>1, <3>2
  <2>3. TimersTyped'
    <3>1. /\ running' \in BOOLEAN /\ pending2' \in BOOLEAN /\ pending3' \in BOOLEAN
          /\ missed2' \in BOOLEAN
      BY <2>1, Zenon DEF SamplingInv, TimersTyped
    <3>2. co2At' \in Nat /\ uploadAt' \in Nat
      BY <1>5 DEF TIM2_IRQLeave, SamplingInv, TimersTyped
    <3> QED
      BY <1>5, <2>2, <3>1, <3>2 DEF TIM2_IRQLeave, SamplingInv, TimersTyped
  <2>4. HandlerPlace'
    BY <2>1, <2>2 DEF SamplingInv, HandlerPlace
  <2> QED
    BY <2>3, <2>4 DEF SamplingInv
<1>6. CASE UNCHANGED samplingVars
  BY <1>6 DEF samplingVars, SamplingInv, TimersTyped, HandlerPlace
<1> QED
  BY <1>1, <1>2, <1>3, <1>4, <1>5, <1>6 DEF SamplingNext

\* The invariant holds for every duration of TIM2's handler below its period.
THEOREM SamplingInvariance == SamplingSpec => []SamplingInv
<1> QED
  BY SamplingInitial, SamplingStep, PTL DEF SamplingSpec

\* The types of the timers' state; timecnt never passes 10.
THEOREM SamplingTypeCorrect == SamplingSpec => []SamplingTypeOK
<1>1. SamplingInv => SamplingTypeOK
  <2> SUFFICES ASSUME SamplingInv PROVE SamplingTypeOK
    OBVIOUS
  <2>1. {pending2, pending3, running, missed2} \subseteq BOOLEAN
    BY Zenon DEF SamplingInv, TimersTyped
  <2>2. {lwip_localtime, elapsed, co2At, uploadAt} \subseteq Nat
    BY Zenon DEF SamplingInv, TimersTyped
  <2> QED
    BY <2>1, <2>2, Zenon DEF SamplingInv, TimersTyped, SamplingTypeOK
<1> QED
  BY <1>1, SamplingInvariance, PTL

\* No update of TIM2 finds its flag set: the sensors are read on every one.
THEOREM EveryUpdateHandled == SamplingSpec => []NoUpdateMissed
<1>1. SamplingInv => NoUpdateMissed
  BY Zenon DEF SamplingInv, HandlerPlace, NoUpdateMissed
<1> QED
  BY <1>1, SamplingInvariance, PTL

\* What n runs of TIM2's handler hold up, at least and at most.
Least(n) == n * (MinLast - 1)
Most(n) == n * MaxLast

LEMMA HeldUp ==
  ASSUME NEW n \in Nat
  PROVE  /\ Least(n) \in Nat /\ Most(n) \in Nat
         /\ Least(n + 1) = Least(n) + MinLast - 1 /\ Most(n + 1) = Most(n) + MaxLast
<1>1. PICK m \in Nat : MinLast = m + 1
  <2>1. MinLast - 1 \in Nat /\ MinLast = (MinLast - 1) + 1
    BY SamplingConstants
  <2> QED
    BY <2>1
<1>2. MaxLast \in Nat
  BY SamplingConstants
<1>3. n * m \in Nat /\ n * MaxLast \in Nat
  BY <1>1, <1>2
<1>4. (n + 1) * m = n * m + m /\ (n + 1) * MaxLast = n * MaxLast + MaxLast
  BY <1>1, <1>2
<1>5. MinLast - 1 = m
  BY <1>1
<1> QED
  BY <1>1, <1>3, <1>4, <1>5 DEF Least, Most

\* How late lwIP's clock is, counting what the running handler has yet to hold
\* up, and TIM3's flag.
ClockPlace ==
  /\ ~running =>
       /\ lwip_localtime + Least(handled) <= elapsed
       /\ elapsed <= lwip_localtime + Most(handled) + 1
       /\ pending3 => lwip_localtime + Least(handled) + 1 <= elapsed
       /\ ~pending3 => elapsed <= lwip_localtime + Most(handled)
  /\ running =>
       /\ lwip_localtime + Least(handled) + 1 <= elapsed + busy
       /\ elapsed + busy <= lwip_localtime + Most(handled) + 1
       /\ ~pending3 => elapsed + busy <= lwip_localtime + Most(handled)

LEMMA ClockInitial == SamplingInit => ClockPlace
<1> SUFFICES ASSUME SamplingInit PROVE ClockPlace
  OBVIOUS
<1>1. lwip_localtime = 0 /\ elapsed = 0 /\ handled = 0
  BY Zenon DEF SamplingInit
<1>2. ~running /\ ~pending3
  BY Zenon DEF SamplingInit
<1>3. Least(0) = 0 /\ Most(0) = 0
  BY SamplingConstants DEF Least, Most
<1>4. lwip_localtime + Least(handled) <= elapsed
      /\ elapsed <= lwip_localtime + Most(handled)
      /\ elapsed <= lwip_localtime + Most(handled) + 1
  BY <1>1, <1>3
<1> QED
  BY <1>2, <1>4, Zenon DEF ClockPlace

LEMMA ClockStep ==
  SamplingInv /\ ClockPlace /\ [SamplingNext]_samplingVars => ClockPlace'
<1> SUFFICES ASSUME SamplingInv, ClockPlace, [SamplingNext]_samplingVars PROVE ClockPlace'
  OBVIOUS
<1>0. /\ lwip_localtime \in Nat /\ elapsed \in Nat /\ busy \in Nat /\ handled \in Nat
      /\ toUpdate \in Nat
      /\ Least(handled) \in Nat /\ Most(handled) \in Nat
  BY HeldUp, SamplingConstants DEF SamplingInv, TimersTyped
<1>1. CASE Period
  <2>1. CASE running
    BY <1>0, <1>1, <2>1 DEF Period, ClockPlace
  <2>2. CASE ~running
    BY <1>0, <1>1, <2>2 DEF Period, ClockPlace
  <2> QED
    BY <2>1, <2>2
<1>2. CASE Update2
  BY <1>2 DEF Update2, ClockPlace
<1>3. CASE TIM3_IRQHandler
  BY <1>0, <1>3 DEF TIM3_IRQHandler, ClockPlace
<1>4. CASE TIM2_IRQEnter
  <2>1. PICK b \in MinLast .. MaxLast : busy' = b
    BY <1>4, Zenon DEF TIM2_IRQEnter
  <2>2. /\ running' = TRUE /\ handled' = handled + 1 /\ elapsed' = elapsed
        /\ lwip_localtime' = lwip_localtime /\ pending3' = pending3 /\ ~running
    BY <1>4, Zenon DEF TIM2_IRQEnter
  <2>3. /\ Least(handled + 1) = Least(handled) + MinLast - 1
        /\ Most(handled + 1) = Most(handled) + MaxLast
    BY <1>0, HeldUp
  <2>4. /\ lwip_localtime + Least(handled + 1) + 1 <= elapsed + b
        /\ elapsed + b <= lwip_localtime + Most(handled + 1) + 1
        /\ ~pending3 => elapsed + b <= lwip_localtime + Most(handled + 1)
    BY <1>0, <2>1, <2>2, <2>3, SamplingConstants DEF ClockPlace
  <2> QED
    BY <2>1, <2>2, <2>4, Zenon DEF ClockPlace
<1>5. CASE TIM2_IRQLeave
  <2>1. /\ running /\ busy = 0 /\ running' = FALSE /\ pending3' = pending3
        /\ handled' = handled /\ elapsed' = elapsed
        /\ lwip_localtime' = lwip_localtime
    BY <1>5, Zenon DEF TIM2_IRQLeave
  <2>2. /\ lwip_localtime + Least(handled) + 1 <= elapsed
        /\ elapsed <= lwip_localtime + Most(handled) + 1
        /\ ~pending3 => elapsed <= lwip_localtime + Most(handled)
        /\ lwip_localtime + Least(handled) <= elapsed
    BY <1>0, <2>1 DEF ClockPlace
  <2> QED
    BY <2>1, <2>2, Zenon DEF ClockPlace
<1>6. CASE UNCHANGED samplingVars
  BY <1>6 DEF samplingVars, ClockPlace
<1> QED
  BY <1>1, <1>2, <1>3, <1>4, <1>5, <1>6 DEF SamplingNext

\* The clock of lwIP is late by at least MinLast - 1 and at most MaxLast
\* periods for every run of TIM2's handler.
THEOREM ClockLateByHandlers == SamplingSpec => []ClockLoss
<1>1. SamplingInv /\ ClockPlace => ClockLoss
  <2> SUFFICES ASSUME SamplingInv, ClockPlace PROVE ClockLoss
    OBVIOUS
  <2>1. /\ lwip_localtime \in Nat /\ elapsed \in Nat /\ busy \in Nat /\ handled \in Nat
        /\ Least(handled) \in Nat /\ Most(handled) \in Nat
    BY HeldUp, SamplingConstants DEF SamplingInv, TimersTyped
  <2>2. elapsed - lwip_localtime <= Most(handled) + 1
    BY <2>1 DEF ClockPlace
  <2>3. ~running => elapsed - lwip_localtime >= Least(handled)
    BY <2>1 DEF ClockPlace
  <2> QED
    BY <2>2, <2>3, Zenon DEF ClockLoss, Least, Most
<1> QED
  BY <1>1, ClockInitial, ClockStep, SamplingInvariance, PTL DEF SamplingSpec

\* The periods from the update before the first of n updates to the one after
\* the last, and its values.
Span(n) == (n + 1) * Periods

LEMMA Spans ==
  /\ \A n \in 0 .. 11 : Span(n) \in Nat /\ Span(n + 1) = Span(n) + Periods
  /\ Span(0) = Periods /\ Span(10) = 11 * Periods
  /\ Span(4) = 5 * Periods /\ Span(8) = 9 * Periods
<1>1. \A n \in 0 .. 11 : Span(n) \in Nat /\ Span(n + 1) = Span(n) + Periods
  <2> SUFFICES ASSUME NEW n \in 0 .. 11
               PROVE  Span(n) \in Nat /\ Span(n + 1) = Span(n) + Periods
    OBVIOUS
  <2>1. Periods \in Nat
    BY SamplingConstants
  <2>2. (n + 1) * Periods \in Nat /\ (n + 1 + 1) * Periods = (n + 1) * Periods + Periods
    BY <2>1
  <2> QED
    BY <2>2 DEF Span
<1>2. /\ Span(0) = Periods /\ Span(10) = 11 * Periods
      /\ Span(4) = 5 * Periods /\ Span(8) = 9 * Periods
  BY SamplingConstants DEF Span
<1> QED
  BY <1>1, <1>2

\* A moment, in the handler of the update that n updates followed.
Moment(moment, n) ==
  /\ elapsed + toUpdate + MinLast <= moment + Span(n)
  /\ moment + Span(n) <= elapsed + toUpdate + MaxLast
\* No update but the n since the start.
FromStart(moment, n) == moment = 0 /\ Span(n) = elapsed + toUpdate

\* Where the last upload request stands among the updates.
UploadPlace(n) == Moment(uploadAt, n) \/ FromStart(uploadAt, n)
UploadInv ==
  /\ running => UploadPlace(ticks)
  /\ pending2 /\ ~running => UploadPlace(ticks + 1)
  /\ ~pending2 /\ ~running => UploadPlace(ticks)

\* The numbers of a state, for the arithmetic of the steps.
LEMMA SamplingNumbers ==
  ASSUME SamplingInv
  PROVE  /\ toUpdate \in Nat /\ toUpdate <= Periods /\ elapsed \in Nat
         /\ busy \in Nat /\ ticks \in Nat /\ ticks <= 10
         /\ uploadAt \in Nat /\ co2At \in Nat
         /\ Span(ticks) \in Nat /\ Span(ticks + 1) = Span(ticks) + Periods
<1>1. ticks \in 0 .. 10 /\ ticks \in 0 .. 11
  BY DEF SamplingInv, TimersTyped
<1>2. Span(ticks) \in Nat /\ Span(ticks + 1) = Span(ticks) + Periods
  BY <1>1, Spans
<1> QED
  BY <1>1, <1>2 DEF SamplingInv, TimersTyped

\* The handler that ends now began with the last update.
LEMMA LeaveMoment ==
  ASSUME SamplingInv, TIM2_IRQLeave
  PROVE  /\ MinLast + toUpdate <= Periods /\ Periods <= MaxLast + toUpdate
         /\ ticks >= 1
<1>1. running /\ busy = 0
  BY Zenon DEF TIM2_IRQLeave
<1>2. /\ MinLast + toUpdate <= Periods + busy /\ Periods + busy <= MaxLast + toUpdate
      /\ ticks >= 1
  BY <1>1, Zenon DEF SamplingInv, HandlerPlace
<1> QED
  BY <1>1, <1>2, SamplingNumbers, SamplingConstants

\* An update finds no handler waiting or running.
LEMMA UpdateAlone ==
  ASSUME SamplingInv, Update2
  PROVE  ~pending2 /\ ~running
<1>1. toUpdate = 0
  BY Zenon DEF Update2
<1>2. ~running
  <2> SUFFICES ASSUME running PROVE FALSE
    OBVIOUS
  <2>1. Periods + busy <= MaxLast + toUpdate
    BY Zenon DEF SamplingInv, HandlerPlace
  <2> QED
    BY <1>1, <2>1, SamplingNumbers, SamplingConstants
<1>3. ~pending2
  <2> SUFFICES ASSUME pending2 PROVE FALSE
    OBVIOUS
  <2>1. toUpdate = Periods
    BY <1>2, Zenon DEF SamplingInv, HandlerPlace
  <2> QED
    BY <1>1, <2>1, SamplingConstants
<1> QED
  BY <1>2, <1>3

\* Time goes by between two updates: no place changes.
LEMMA PeriodKeeps ==
  ASSUME SamplingInv, Period
  PROVE  /\ elapsed' + toUpdate' = elapsed + toUpdate
         /\ running' = running /\ pending2' = pending2 /\ ticks' = ticks
         /\ co2At' = co2At /\ uploadAt' = uploadAt
<1>1. /\ elapsed' = elapsed + 1 /\ toUpdate' = toUpdate - 1 /\ toUpdate > 0
      /\ running' = running /\ pending2' = pending2 /\ ticks' = ticks
      /\ co2At' = co2At /\ uploadAt' = uploadAt
  BY Zenon DEF Period
<1>2. (elapsed + 1) + (toUpdate - 1) = elapsed + toUpdate
  BY SamplingNumbers
<1> QED
  BY <1>1, <1>2, Zenon

LEMMA UploadInitial == SamplingInit => UploadInv
<1> SUFFICES ASSUME SamplingInit PROVE UploadInv
  OBVIOUS
<1>1. ~running /\ ~pending2 /\ uploadAt = 0 /\ ticks = 0
  BY Zenon DEF SamplingInit
<1>2. elapsed = 0 /\ toUpdate = Periods
  BY Zenon DEF SamplingInit
<1>3. Span(0) = elapsed + toUpdate
  BY <1>2, Spans, SamplingConstants
<1>4. UploadPlace(ticks)
  BY <1>1, <1>3, Zenon DEF UploadPlace, FromStart
<1> QED
  BY <1>1, <1>4, Zenon DEF UploadInv

LEMMA UploadStep ==
  SamplingInv /\ UploadInv /\ [SamplingNext]_samplingVars => UploadInv'
<1> SUFFICES ASSUME SamplingInv, UploadInv, [SamplingNext]_samplingVars PROVE UploadInv'
  OBVIOUS
<1>1. CASE Period
  <2>1. ASSUME NEW n, UploadPlace(n)
        PROVE  \/ /\ elapsed' + toUpdate' + MinLast <= uploadAt' + Span(n)
                  /\ uploadAt' + Span(n) <= elapsed' + toUpdate' + MaxLast
               \/ uploadAt' = 0 /\ Span(n) = elapsed' + toUpdate'
    BY <1>1, <2>1, PeriodKeeps, Zenon DEF UploadPlace, Moment, FromStart
  <2>2. running' = running /\ pending2' = pending2 /\ ticks' = ticks
    BY <1>1, PeriodKeeps
  <2>3. /\ UploadPlace(ticks) => UploadPlace(ticks)'
        /\ UploadPlace(ticks + 1) => UploadPlace(ticks + 1)'
    BY <2>1, <2>2, Zenon DEF UploadPlace, Moment, FromStart
  <2> QED
    BY <2>2, <2>3, Zenon DEF UploadInv
<1>2. CASE Update2
  <2>1. ~pending2 /\ ~running
    BY <1>2, UpdateAlone
  <2>2. /\ toUpdate = 0 /\ toUpdate' = Periods /\ elapsed' = elapsed
        /\ uploadAt' = uploadAt /\ ticks' = ticks /\ running' = running /\ pending2' = TRUE
    BY <1>2, Zenon DEF Update2
  <2>3. UploadPlace(ticks)
    BY <2>1, Zenon DEF UploadInv
  <2>4. \/ /\ elapsed + Periods + MinLast <= uploadAt + Span(ticks + 1)
           /\ uploadAt + Span(ticks + 1) <= elapsed + Periods + MaxLast
        \/ uploadAt = 0 /\ Span(ticks + 1) = elapsed + Periods
    <3>1. CASE Moment(uploadAt, ticks)
      BY <2>2, <3>1, SamplingNumbers, SamplingConstants DEF Moment
    <3>2. CASE FromStart(uploadAt, ticks)
      BY <2>2, <3>2, SamplingNumbers, SamplingConstants DEF FromStart
    <3> QED
      BY <2>3, <3>1, <3>2 DEF UploadPlace
  <2>5. UploadPlace(ticks + 1)'
    BY <2>2, <2>4, Zenon DEF UploadPlace, Moment, FromStart
  <2> QED
    BY <2>1, <2>2, <2>5, Zenon DEF UploadInv
<1>3. CASE TIM3_IRQHandler
  BY <1>3, Zenon DEF TIM3_IRQHandler, UploadInv, UploadPlace, Moment, FromStart
<1>4. CASE TIM2_IRQEnter
  <2>1. /\ ~running /\ pending2 /\ running' = TRUE /\ ticks' = ticks + 1
        /\ elapsed' = elapsed /\ toUpdate' = toUpdate /\ uploadAt' = uploadAt
    BY <1>4, Zenon DEF TIM2_IRQEnter
  <2>2. UploadPlace(ticks + 1)
    BY <2>1, Zenon DEF UploadInv
  <2>3. UploadPlace(ticks)'
    BY <2>1, <2>2, Zenon DEF UploadPlace, Moment, FromStart
  <2> QED
    BY <2>1, <2>3, Zenon DEF UploadInv
<1>5. CASE TIM2_IRQLeave
  <2>1. /\ running /\ running' = FALSE /\ pending2' = FALSE
        /\ elapsed' = elapsed /\ toUpdate' = toUpdate
        /\ uploadAt' = IF ticks % 10 = 0 THEN elapsed ELSE uploadAt
        /\ ticks' = IF ticks % 10 = 0 THEN 0 ELSE ticks
    BY <1>5, Zenon DEF TIM2_IRQLeave
  <2>2. CASE ticks % 10 = 0
    <3>1. uploadAt' = elapsed /\ ticks' = 0
      BY <2>1, <2>2, Zenon
    <3>2. /\ elapsed + toUpdate + MinLast <= elapsed + Span(0)
          /\ elapsed + Span(0) <= elapsed + toUpdate + MaxLast
      BY <1>5, LeaveMoment, SamplingNumbers, Spans, SamplingConstants
    <3>3. UploadPlace(0)'
      BY <2>1, <3>1, <3>2, Zenon DEF UploadPlace, Moment
    <3> QED
      BY <2>1, <3>1, <3>3, Zenon DEF UploadInv
  <2>3. CASE ticks % 10 # 0
    <3>1. uploadAt' = uploadAt /\ ticks' = ticks
      BY <2>1, <2>3, Zenon
    <3> QED
      BY <2>1, <3>1, Zenon DEF UploadInv, UploadPlace, Moment, FromStart
  <2> QED
    BY <2>2, <2>3
<1>6. CASE UNCHANGED samplingVars
  BY <1>6, Zenon DEF samplingVars, UploadInv, UploadPlace, Moment, FromStart
<1> QED
  BY <1>1, <1>2, <1>3, <1>4, <1>5, <1>6 DEF SamplingNext

\* Only the end of TIM2's handler issues a command or a request.
LEMMA OnlyLeaveIssues ==
  ASSUME [SamplingNext]_samplingVars, uploadAt' # uploadAt \/ co2At' # co2At
  PROVE  TIM2_IRQLeave
BY Zenon DEF SamplingNext, samplingVars, Period, Update2, TIM3_IRQHandler, TIM2_IRQEnter

\* Uploads are asked for every 10 updates, whatever the sensor does: no two
\* are further apart, or closer, than the durations of two handlers differ.
THEOREM UploadsSpaced == SamplingSpec => UploadSpacing
<1>1. ASSUME SamplingInv, UploadInv, [SamplingNext]_samplingVars, uploadAt' # uploadAt
      PROVE  /\ uploadAt' - uploadAt <= 10 * Periods + Jitter + MaxLast
             /\ uploadAt > 0 => uploadAt' - uploadAt >= 10 * Periods - Jitter
  <2>1. TIM2_IRQLeave
    BY <1>1, OnlyLeaveIssues
  <2>2. running /\ uploadAt' = IF ticks % 10 = 0 THEN elapsed ELSE uploadAt
    BY <2>1, Zenon DEF TIM2_IRQLeave
  <2>3. ticks % 10 = 0 /\ uploadAt' = elapsed
    BY <1>1, <2>2, Zenon
  <2>4. ticks = 10
    BY <1>1, <2>1, <2>3, LeaveMoment, SamplingNumbers
  <2>5. UploadPlace(10)
    BY <1>1, <2>2, <2>4, Zenon DEF UploadInv
  <2>6. /\ elapsed - uploadAt <= 10 * Periods + (MaxLast - MinLast) + MaxLast
        /\ uploadAt > 0 => elapsed - uploadAt >= 10 * Periods - (MaxLast - MinLast)
    <3>1. CASE Moment(uploadAt, 10)
      BY <1>1, <2>1, <3>1, LeaveMoment, SamplingNumbers, Spans, SamplingConstants
         DEF Moment
    <3>2. CASE FromStart(uploadAt, 10)
      BY <1>1, <2>1, <3>2, LeaveMoment, SamplingNumbers, Spans, SamplingConstants
         DEF FromStart
    <3> QED
      BY <2>5, <3>1, <3>2 DEF UploadPlace
  <2> QED
    BY <2>3, <2>6, Zenon DEF Jitter
<1> QED
  BY <1>1, UploadInitial, UploadStep, SamplingInvariance, PTL
     DEF SamplingSpec, UploadSpacing

\* Where the last command stands, before the handler of the d-th update after
\* the reset, n updates having followed the reset: it was issued on the 8th
\* update before the reset (two before it), on the 4th or on the 8th.
CommandAt(n, k) ==
  /\ elapsed + toUpdate + MinLast + 8 * Periods <= co2At + Span(n) + k * Periods
  /\ co2At + Span(n) + k * Periods <= elapsed + toUpdate + MaxLast + 8 * Periods
CommandPlace(n, d) ==
  /\ d <= 4 => CommandAt(n, 10) \/ FromStart(co2At, n)
  /\ 4 < d /\ d <= 8 => CommandAt(n, 4)
  /\ 8 < d => CommandAt(n, 0)
CommandInv ==
  /\ running => CommandPlace(ticks, ticks)
  /\ pending2 /\ ~running => CommandPlace(ticks + 1, ticks + 1)
  /\ ~pending2 /\ ~running => CommandPlace(ticks, ticks + 1)

LEMMA CommandInitial == SamplingInit => CommandInv
<1> SUFFICES ASSUME SamplingInit PROVE CommandInv
  OBVIOUS
<1>1. ~running /\ ~pending2 /\ co2At = 0 /\ ticks = 0
  BY Zenon DEF SamplingInit
<1>2. elapsed = 0 /\ toUpdate = Periods
  BY Zenon DEF SamplingInit
<1>3. Span(0) = elapsed + toUpdate
  BY <1>2, Spans, SamplingConstants
<1>4. FromStart(co2At, 0)
  BY <1>1, <1>3, Zenon DEF FromStart
<1>5. CommandPlace(0, 1)
  BY <1>4 DEF CommandPlace
<1>6. CommandPlace(ticks, ticks + 1)
  BY <1>1, <1>5
<1> QED
  BY <1>1, <1>6, Zenon DEF CommandInv

LEMMA CommandStep ==
  SamplingInv /\ CommandInv /\ [SamplingNext]_samplingVars => CommandInv'
<1> SUFFICES ASSUME SamplingInv, CommandInv, [SamplingNext]_samplingVars
             PROVE  CommandInv'
  OBVIOUS
<1>1. CASE Period
  <2>1. ASSUME NEW n, NEW d, CommandPlace(n, d)
        PROVE  /\ d <= 4 =>
                    \/ /\ elapsed' + toUpdate' + MinLast + 8 * Periods
                            <= co2At' + Span(n) + 10 * Periods
                       /\ co2At' + Span(n) + 10 * Periods
                            <= elapsed' + toUpdate' + MaxLast + 8 * Periods
                    \/ co2At' = 0 /\ Span(n) = elapsed' + toUpdate'
               /\ 4 < d /\ d <= 8 =>
                    /\ elapsed' + toUpdate' + MinLast + 8 * Periods
                         <= co2At' + Span(n) + 4 * Periods
                    /\ co2At' + Span(n) + 4 * Periods
                         <= elapsed' + toUpdate' + MaxLast + 8 * Periods
               /\ 8 < d =>
                    /\ elapsed' + toUpdate' + MinLast + 8 * Periods
                         <= co2At' + Span(n) + 0 * Periods
                    /\ co2At' + Span(n) + 0 * Periods
                         <= elapsed' + toUpdate' + MaxLast + 8 * Periods
    BY <1>1, <2>1, PeriodKeeps, Zenon DEF CommandPlace, CommandAt, FromStart
  <2>2. running' = running /\ pending2' = pending2 /\ ticks' = ticks
    BY <1>1, PeriodKeeps
  <2>3. /\ CommandPlace(ticks, ticks) => CommandPlace(ticks, ticks)'
        /\ CommandPlace(ticks + 1, ticks + 1) => CommandPlace(ticks + 1, ticks + 1)'
        /\ CommandPlace(ticks, ticks + 1) => CommandPlace(ticks, ticks + 1)'
    BY <2>1, <2>2, Zenon DEF CommandPlace, CommandAt, FromStart
  <2> QED
    BY <2>2, <2>3, Zenon DEF CommandInv
<1>2. CASE Update2
  <2>1. ~pending2 /\ ~running
    BY <1>2, UpdateAlone
  <2>2. /\ toUpdate = 0 /\ toUpdate' = Periods /\ elapsed' = elapsed
        /\ co2At' = co2At /\ ticks' = ticks /\ running' = running /\ pending2' = TRUE
    BY <1>2, Zenon DEF Update2
  <2>3. CommandPlace(ticks, ticks + 1)
    BY <2>1, Zenon DEF CommandInv
  <2>4. ASSUME NEW k \in {0, 4, 10}, CommandAt(ticks, k)
        PROVE  /\ elapsed + Periods + MinLast + 8 * Periods
                    <= co2At + Span(ticks + 1) + k * Periods
               /\ co2At + Span(ticks + 1) + k * Periods
                    <= elapsed + Periods + MaxLast + 8 * Periods
    <3>1. PICK j \in Nat : j = k * Periods
      BY SamplingConstants
    <3>2. /\ elapsed + toUpdate + MinLast + 8 * Periods <= co2At + Span(ticks) + j
          /\ co2At + Span(ticks) + j <= elapsed + toUpdate + MaxLast + 8 * Periods
      BY <2>4, <3>1, Zenon DEF CommandAt
    <3>3. /\ elapsed + Periods + MinLast + 8 * Periods <= co2At + Span(ticks + 1) + j
          /\ co2At + Span(ticks + 1) + j <= elapsed + Periods + MaxLast + 8 * Periods
      BY <2>2, <3>1, <3>2, SamplingNumbers, SamplingConstants
    <3> QED
      BY <3>1, <3>3, Zenon
  <2>5. FromStart(co2At, ticks) => co2At = 0 /\ Span(ticks + 1) = elapsed + Periods
    BY <2>2, SamplingNumbers, SamplingConstants DEF FromStart
  <2>6. 0 \in {0, 4, 10} /\ 4 \in {0, 4, 10} /\ 10 \in {0, 4, 10}
    BY Zenon
  <2>7. CommandPlace(ticks + 1, ticks + 1)'
    BY <2>2, <2>3, <2>4, <2>5, <2>6, Zenon DEF CommandPlace, CommandAt, FromStart
  <2> QED
    BY <2>1, <2>2, <2>7, Zenon DEF CommandInv
<1>3. CASE TIM3_IRQHandler
  BY <1>3, Zenon DEF TIM3_IRQHandler, CommandInv, CommandPlace, CommandAt, FromStart
<1>4. CASE TIM2_IRQEnter
  <2>1. /\ ~running /\ pending2 /\ running' = TRUE /\ ticks' = ticks + 1
        /\ elapsed' = elapsed /\ toUpdate' = toUpdate /\ co2At' = co2At
    BY <1>4, Zenon DEF TIM2_IRQEnter
  <2>2. CommandPlace(ticks + 1, ticks + 1)
    BY <2>1, Zenon DEF CommandInv
  <2>3. CommandPlace(ticks, ticks)'
    BY <2>1, <2>2, Zenon DEF CommandPlace, CommandAt, FromStart
  <2> QED
    BY <2>1, <2>3, Zenon DEF CommandInv
<1>5. CASE TIM2_IRQLeave
  <2>1. /\ running /\ running' = FALSE /\ pending2' = FALSE
        /\ elapsed' = elapsed /\ toUpdate' = toUpdate
        /\ co2At' = IF ticks % 4 = 0 THEN elapsed ELSE co2At
        /\ ticks' = IF ticks % 10 = 0 THEN 0 ELSE ticks
    BY <1>5, Zenon DEF TIM2_IRQLeave
  <2>2. CommandPlace(ticks, ticks)
    BY <2>1, Zenon DEF CommandInv
  <2>3. ticks \in 1 .. 10
    BY <1>5, LeaveMoment, SamplingNumbers
  <2>4. SUFFICES CommandPlace(ticks, ticks + 1)'
    BY <2>1, Zenon DEF CommandInv
  <2>5. CASE ticks % 4 = 0
    <3>1. ticks \in {4, 8} /\ ticks % 10 # 0
      BY <2>3, <2>5
    <3>2. co2At' = elapsed /\ ticks' = ticks
      BY <2>1, <2>5, <3>1, Zenon
    <3>3. CASE ticks = 4
      <4>1. /\ elapsed + toUpdate + MinLast + 8 * Periods <= elapsed + Span(4) + 4 * Periods
            /\ elapsed + Span(4) + 4 * Periods <= elapsed + toUpdate + MaxLast + 8 * Periods
        BY <1>5, LeaveMoment, SamplingNumbers, Spans, SamplingConstants
      <4>2. CommandAt(4, 4)'
        BY <2>1, <3>2, <4>1, Zenon DEF CommandAt
      <4>3. CommandPlace(4, 5)'
        BY <4>2 DEF CommandPlace
      <4> QED
        BY <3>2, <3>3, <4>3
    <3>4. CASE ticks = 8
      <4>1. /\ elapsed + toUpdate + MinLast + 8 * Periods <= elapsed + Span(8) + 0 * Periods
            /\ elapsed + Span(8) + 0 * Periods <= elapsed + toUpdate + MaxLast + 8 * Periods
        BY <1>5, LeaveMoment, SamplingNumbers, Spans, SamplingConstants
      <4>2. CommandAt(8, 0)'
        BY <2>1, <3>2, <4>1, Zenon DEF CommandAt
      <4>3. CommandPlace(8, 9)'
        BY <4>2 DEF CommandPlace
      <4> QED
        BY <3>2, <3>4, <4>3
    <3> QED
      BY <3>1, <3>3, <3>4
  <2>6. CASE ticks % 10 = 0
    <3>1. ticks = 10 /\ ticks % 4 # 0
      BY <2>3, <2>6
    <3>2. co2At' = co2At /\ ticks' = 0
      BY <2>1, <2>6, <3>1, Zenon
    <3>3. CommandAt(10, 0)
      BY <2>2, <3>1 DEF CommandPlace
    <3>4. /\ elapsed + toUpdate + MinLast + 8 * Periods <= co2At + Span(0) + 10 * Periods
          /\ co2At + Span(0) + 10 * Periods <= elapsed + toUpdate + MaxLast + 8 * Periods
      BY <3>3, SamplingNumbers, Spans, SamplingConstants DEF CommandAt
    <3>5. CommandAt(0, 10)'
      BY <2>1, <3>2, <3>4, Zenon DEF CommandAt
    <3>6. CommandPlace(0, 1)'
      BY <3>5 DEF CommandPlace
    <3> QED
      BY <3>2, <3>6
  <2>7. CASE ticks % 4 # 0 /\ ticks % 10 # 0
    <3>1. co2At' = co2At /\ ticks' = ticks
      BY <2>1, <2>7, Zenon
    <3>2. CommandPlace(ticks, ticks + 1)
      <4>1. /\ ticks + 1 <= 4 => ticks <= 4
            /\ 4 < ticks + 1 /\ ticks + 1 <= 8 => 4 < ticks /\ ticks <= 8
            /\ 8 < ticks + 1 => 8 < ticks
        BY <2>3, <2>7
      <4> QED
        BY <2>2, <4>1, Zenon DEF CommandPlace
    <3> QED
      BY <2>1, <3>1, <3>2, Zenon DEF CommandPlace, CommandAt, FromStart
  <2> QED
    BY <2>5, <2>6, <2>7
<1>6. CASE UNCHANGED samplingVars
  BY <1>6, Zenon DEF samplingVars, CommandInv, CommandPlace, CommandAt, FromStart
<1> QED
  BY <1>1, <1>2, <1>3, <1>4, <1>5, <1>6 DEF SamplingNext

\* The sensor has four updates for its answer, and waits for at most six, also
\* where the counter's reset breaks the rhythm of four.
THEOREM CommandsSpaced == SamplingSpec => Co2Spacing
<1>1. ASSUME SamplingInv, CommandInv, [SamplingNext]_samplingVars, co2At' # co2At
      PROVE  /\ co2At' - co2At <= 6 * Periods + Jitter + MaxLast
             /\ co2At > 0 => co2At' - co2At >= 4 * Periods - Jitter
  <2>1. TIM2_IRQLeave
    BY <1>1, OnlyLeaveIssues
  <2>2. running /\ co2At' = IF ticks % 4 = 0 THEN elapsed ELSE co2At
    BY <2>1, Zenon DEF TIM2_IRQLeave
  <2>3. ticks % 4 = 0 /\ co2At' = elapsed
    BY <1>1, <2>2, Zenon
  <2>4. ticks \in {4, 8}
    <3>1. ticks \in 1 .. 10
      BY <1>1, <2>1, LeaveMoment, SamplingNumbers
    <3> QED
      BY <2>3, <3>1
  <2>5. CommandPlace(ticks, ticks)
    BY <1>1, <2>2, Zenon DEF CommandInv
  <2>6. /\ elapsed - co2At <= 6 * Periods + (MaxLast - MinLast) + MaxLast
        /\ co2At > 0 => elapsed - co2At >= 4 * Periods - (MaxLast - MinLast)
    <3>1. CASE ticks = 4
      <4>1. CommandAt(4, 10) \/ FromStart(co2At, 4)
        BY <2>5, <3>1 DEF CommandPlace
      <4>2. CASE CommandAt(4, 10)
        BY <1>1, <2>1, <4>2, LeaveMoment, SamplingNumbers, Spans, SamplingConstants
           DEF CommandAt
      <4>3. CASE FromStart(co2At, 4)
        BY <1>1, <2>1, <4>3, LeaveMoment, SamplingNumbers, Spans, SamplingConstants
           DEF FromStart
      <4> QED
        BY <4>1, <4>2, <4>3
    <3>2. CASE ticks = 8
      <4>1. CommandAt(8, 4)
        BY <2>5, <3>2 DEF CommandPlace
      <4> QED
        BY <1>1, <2>1, <4>1, LeaveMoment, SamplingNumbers, Spans, SamplingConstants
           DEF CommandAt
    <3> QED
      BY <2>4, <3>1, <3>2
  <2> QED
    BY <2>3, <2>6, Zenon DEF Jitter
<1> QED
  BY <1>1, CommandInitial, CommandStep, SamplingInvariance, PTL
     DEF SamplingSpec, Co2Spacing

\* TIM2's handler is in time and costs the clock what it holds up.
THEOREM TickIsSound == SamplingSpec => []TickSound
<1>1. SamplingTypeOK /\ NoUpdateMissed /\ ClockLoss => TickSound
  BY DEF TickSound
<1> QED
  BY <1>1, SamplingTypeCorrect, EveryUpdateHandled, ClockLateByHandlers, PTL

\* The handler's requests keep their distance.
THEOREM RequestsAreSpaced == SamplingSpec => RequestSpacing
BY UploadsSpaced, CommandsSpaced DEF RequestSpacing

-----------------------------------------------------------------------------
(* What a silent sensor can be taken for.                                  *)

\* The places of the bits of byte i.
LEMMA BitPlaces ==
  ASSUME NEW i \in 0 .. 4, NEW k \in 1 .. Bits
  PROVE  i * Bits + k \in 1 .. NumBits
<1>1. Bits \in Nat \ {0} /\ k \in Nat
  BY ReadingConstants
<1>2. i = 0 \/ i = 1 \/ i = 2 \/ i = 3 \/ i = 4
  OBVIOUS
<1>3. /\ 0 * Bits = 0 /\ 1 * Bits = Bits
      /\ 2 * Bits = Bits + Bits /\ 3 * Bits = Bits + Bits + Bits
      /\ 4 * Bits = Bits + Bits + Bits + Bits
      /\ NumBits = Bits + Bits + Bits + Bits + Bits
  BY <1>1 DEF NumBits
<1>4. \A x \in {0, Bits, Bits + Bits, Bits + Bits + Bits, Bits + Bits + Bits + Bits} :
         x + k \in 1 .. Bits + Bits + Bits + Bits + Bits
  BY <1>1
<1>5. i * Bits \in {0, Bits, Bits + Bits, Bits + Bits + Bits, Bits + Bits + Bits + Bits}
  BY <1>2, <1>3, Zenon
<1> QED
  BY <1>3, <1>4, <1>5, Zenon

\* Bytes of ones are all the same number, and it is not zero.
LEMMA OnesAreEqual ==
  ASSUME \A j \in 1 .. NumBits : buf[j] = 1
  PROVE  \E v \in Nat \ {0} : \A i \in 0 .. 4 : ByteValue[i] = v
<1> DEFINE step == [k \in 1 .. Bits |-> [x \in Nat |-> 2 * x + 1]]
           Is(i, w) == w = [k \in 0 .. Bits |->
                              IF k = 0 THEN 0 ELSE 2 * w[k - 1] + buf[i * Bits + k]]
           value(i) == CHOOSE w : Is(i, w)
<1>1. Bits \in Nat \ {0}
  BY ReadingConstants
<1>2. PICK f \in [0 .. Bits -> Nat] : Follows(f, Bits, 0, step)
  <2>1. step \in [1 .. Bits -> [Nat -> Nat]] /\ 0 \in Nat /\ Bits \in Nat
    BY <1>1
  <2> HIDE DEF step
  <2> QED
    BY <2>1, RecursionExists, Zenon
<1>3. f[0] = 0 /\ \A k \in 1 .. Bits : f[k] = 2 * f[k - 1] + 1
  <2>1. f[0] = 0 /\ \A k \in 1 .. Bits : f[k] = step[k][f[k - 1]]
    BY <1>2, Zenon DEF Follows
  <2>2. ASSUME NEW k \in 1 .. Bits PROVE step[k][f[k - 1]] = 2 * f[k - 1] + 1
    <3>1. f[k - 1] \in Nat
      BY <1>1
    <3> QED
      BY <3>1
  <2> QED
    BY <2>1, <2>2, Zenon
<1> HIDE DEF step
<1>4. ASSUME NEW i \in 0 .. 4
      PROVE  ByteValue[i] = f[Bits]
  <2> DEFINE One(w) == w = [k \in 0 .. Bits |->
                             IF k = 0 THEN 0 ELSE 2 * w[k - 1] + buf[i * Bits + k]]
             w == CHOOSE v : One(v)
  <2>1. \A k \in 1 .. Bits : buf[i * Bits + k] = 1
    BY BitPlaces, Zenon
  <2>2. f = [k \in 0 .. Bits |-> f[k]]
    OBVIOUS
  <2>3. ASSUME NEW k \in 0 .. Bits
        PROVE  f[k] = IF k = 0 THEN 0 ELSE 2 * f[k - 1] + buf[i * Bits + k]
    <3>1. k = 0 \/ k \in 1 .. Bits
      BY <1>1
    <3> QED
      BY <1>3, <2>1, <3>1, Zenon
  <2>4. One(f)
    BY <2>2, <2>3, Zenon
  <2>5. One(w)
    <3> HIDE DEF One
    <3> QED
      BY <2>4, Zenon
  <2>6. ByteValue[i] = w[Bits]
    BY Zenon DEF ByteValue
  <2>7. w = [k \in 0 .. Bits |-> IF k = 0 THEN 0 ELSE 2 * w[k - 1] + buf[i * Bits + k]]
    BY <2>5
  <2> HIDE DEF w
  <2>8. ASSUME NEW k \in 0 .. Bits
        PROVE  w[k] = IF k = 0 THEN 0 ELSE 2 * w[k - 1] + buf[i * Bits + k]
    BY <2>7, Zenon
  <2>9. w[0] = 0
    <3>1. 0 \in 0 .. Bits
      BY <1>1
    <3> QED
      BY <2>8, <3>1, Zenon
  <2>10. ASSUME NEW k \in 1 .. Bits
         PROVE  w[k] = 2 * w[k - 1] + 1
    <3>1. k \in 0 .. Bits /\ k # 0
      BY <1>1
    <3> QED
      BY <2>1, <2>8, <3>1, Zenon
  <2> DEFINE T == {k \in 0 .. Bits : w[k] = f[k]}
  <2>11. 0 \in T
    <3>1. 0 \in 0 .. Bits /\ w[0] = f[0]
      BY <1>1, <1>3, <2>9
    <3> QED
      BY <3>1, Zenon
  <2>12. ASSUME NEW k \in 1 .. Bits, k - 1 \in T
         PROVE  k \in T
    <3>1. w[k - 1] = f[k - 1] /\ k \in 0 .. Bits
      BY <2>12
    <3>2. w[k] = f[k]
      BY <1>3, <2>10, <3>1, Zenon
    <3> QED
      BY <3>1, <3>2
  <2>13. \A k \in 0 .. Bits : k \in T
    <3> HIDE DEF T
    <3> QED
      BY <1>1, <2>11, <2>12, Reaches
  <2>14. Bits \in 0 .. Bits
    BY <1>1
  <2> QED
    BY <2>6, <2>13, <2>14
<1>6. f[Bits] \in Nat \ {0}
  <2>1. Bits \in 1 .. Bits /\ Bits - 1 \in 0 .. Bits
    BY <1>1
  <2>2. f[Bits - 1] \in Nat /\ f[Bits] = 2 * f[Bits - 1] + 1
    BY <1>3, <2>1
  <2> QED
    BY <2>2
<1>7. \A i \in 0 .. 4 : ByteValue[i] = f[Bits]
  BY <1>4, Zenon
<1> QED
  BY <1>6, <1>7, Zenon

\* What is published comes from a line that was low somewhere.
SilenceInv ==
  /\ dhtAt = "sum" => Len(buf) = NumBits
  /\ published => dhtAt = "idle" /\ \E i \in 1 .. Len(buf) : buf[i] = 0

\* A step keeps it.
LEMMA SilenceStep ==
  ASSUME ReadingInv, SilenceInv, [Dht11Next]_dht11Vars
  PROVE  SilenceInv'
<1>1. /\ buf \in Seq({0, 1}) /\ Len(buf) \in Nat /\ dhtAt \in DhtAt
      /\ published \in BOOLEAN
  BY DEF ReadingInv, Dht11TypeOK
<1>2. CASE DHT11_Sum
  <2>1. dhtAt = "sum" /\ dhtAt' = "idle" /\ buf' = buf /\ published' = SumMatches
    BY <1>2, Zenon DEF DHT11_Sum
  <2>2. ASSUME SumMatches PROVE \E i \in 1 .. Len(buf) : buf[i] = 0
    <3>1. SUFFICES ASSUME \A i \in 1 .. Len(buf) : buf[i] # 0 PROVE FALSE
      BY Zenon
    <3>2. Len(buf) = NumBits
      BY <2>1, Zenon DEF SilenceInv
    <3>3. \A i \in 1 .. Len(buf) : buf[i] \in {0, 1}
      BY <1>1
    <3>4. \A i \in 1 .. NumBits : buf[i] = 1
      BY <3>1, <3>2, <3>3, Zenon
    <3>5. PICK v \in Nat \ {0} : \A i \in 0 .. 4 : ByteValue[i] = v
      BY <3>4, OnesAreEqual
    <3>6. v + v + v + v = v
      <4>1. 0 \in 0 .. 4 /\ 1 \in 0 .. 4 /\ 2 \in 0 .. 4 /\ 3 \in 0 .. 4 /\ 4 \in 0 .. 4
        OBVIOUS
      <4>2. ByteValue[0] + ByteValue[1] + ByteValue[2] + ByteValue[3] = ByteValue[4]
        BY <2>2, Zenon DEF SumMatches
      <4> QED
        BY <3>5, <4>1, <4>2, Zenon
    <3> QED
      BY <3>6
  <2>3. "idle" # "sum"
    OBVIOUS
  <2> QED
    BY <2>1, <2>2, <2>3, Zenon DEF SilenceInv
<1>3. CASE DHT11_Start
  BY <1>3, Zenon DEF DHT11_Start, SilenceInv
<1>4. ASSUME NEW level \in {0, 1}, BitSample(level)
      PROVE  SilenceInv'
  <2>1. /\ dhtAt = "sample" /\ buf' = Append(buf, level) /\ published' = published
        /\ dhtAt' = IF Len(buf) + 1 = NumBits THEN "sum" ELSE "bitHigh"
    BY <1>4, Zenon DEF BitSample
  <2>2. Len(buf') = Len(buf) + 1
    BY <1>1, <2>1
  <2>3. "sample" # "idle" /\ "bitHigh" # "sum"
    OBVIOUS
  <2> QED
    BY <2>1, <2>2, <2>3, Zenon DEF SilenceInv
<1>5. CASE UNCHANGED dht11Vars
  BY <1>5, Zenon DEF dht11Vars, SilenceInv
<1>6. CASE dhtAt \notin {"idle", "sum"} /\ dhtAt' # "sum" /\ UNCHANGED <<buf, published>>
  BY <1>6, Zenon DEF SilenceInv
<1>7. ASSUME NEW l \in {"high", "low", "bitHigh", "bitLow"}, Wait(l)
      PROVE  SilenceInv'
  <2>1. dhtAt' # "sum" /\ dhtAt \notin {"idle", "sum"} /\ UNCHANGED <<buf, published>>
    BY <1>7 DEF Wait
  <2> QED
    BY <1>6, <2>1
<1>8. CASE AnswerWait \/ BitWait
  BY <1>7, <1>8 DEF AnswerWait, BitWait
<1>9. CASE AnswerFails \/ Answer \/ BitEdge
  <2>1. dhtAt' # "sum" /\ dhtAt \notin {"idle", "sum"} /\ UNCHANGED <<buf, published>>
    BY <1>9 DEF AnswerFails, Answer, BitEdge, Proceed
  <2> QED
    BY <1>6, <2>1
<1> QED
  BY <1>2, <1>3, <1>4, <1>5, <1>8, <1>9, Zenon DEF Dht11Next, Dht11Step

\* No reading is published of a line that stays high, however many bits a byte
\* has: the five bytes would be equal and not zero, and their sum cannot match.
THEOREM ReadingsAreSound == Dht11Spec => []ReadingSound
<1>1. Dht11Init => SilenceInv
  <2> SUFFICES ASSUME Dht11Init PROVE SilenceInv
    OBVIOUS
  <2>1. dhtAt = "idle" /\ published = FALSE /\ "idle" # "sum"
    BY DEF Dht11Init
  <2> QED
    BY <2>1, Zenon DEF SilenceInv
<1>2. ReadingInv /\ SilenceInv /\ [Dht11Next]_dht11Vars => SilenceInv'
  BY SilenceStep
<1>3. ReadingInv /\ SilenceInv => ReadingSound
  <2>1. ReadingInv => Dht11TypeOK
    BY Zenon DEF ReadingInv
  <2> QED
    BY <2>1, BoundFollows, Zenon DEF ReadingSound, SilenceInv, SilenceIgnored
<1> QED
  BY <1>1, <1>2, <1>3, ReadingInvariant, PTL DEF Dht11Spec

-----------------------------------------------------------------------------
(* The keys.                                                               *)

\* What of the handlers' time the current busy period has used.
Busy(S) == Cardinality(S) * MaxWait
             + IF serving = "none" THEN 0 ELSE MaxWait - waitMax

\* A contact that bounces does so for Settle at most, and a handler tests the
\* level when the finger has been at rest for as long as it waited.
KeysAgree ==
  /\ \A k \in Key : pressed[k] # finger[k] => since[k] <= Settle
  /\ serving # "none" => since[serving] + waitLeft >= MinWait

\* The handlers serve one key after the other without a pause: S are those
\* served since one of them was last idle.
BusyPeriod ==
  \E S \in SUBSET Key :
    /\ serving \notin S
    /\ \A k \in S : ~pending[k] /\ pressed[k] = finger[k] /\ since[k] >= Settle
    /\ \A k \in Key : k \in S \/ pending[k] => since[k] <= Settle + Busy(S)

\* A key that acts when it is let go: what its handler still has to do.
ReleaseCounted ==
  \A k \in OnRelease :
    /\ finger[k] => acted[k] = 0
    /\ ~finger[k] => acted[k] = IF pending[k] \/ pressed[k] THEN 0 ELSE 1
    /\ ~finger[k] /\ ~pending[k] /\ ~pressed[k] => since[k] >= Settle

\* The same for a key that acts when it is pressed.
PressCounted ==
  \A k \in OnPress :
    /\ acted[k] <= 1
    /\ finger[k] /\ acted[k] = 1 => ~pending[k] /\ pressed[k] /\ since[k] >= Settle

\* The inductive invariant.
KeysInv == KeysTypeOK /\ KeysAgree /\ BusyPeriod /\ ReleaseCounted /\ PressCounted

\* The assumption on the constants, in parts.
LEMMA KeysWidths ==
  /\ Settle \in Nat /\ MinWait \in Nat /\ MaxWait \in Nat /\ Hold \in Nat
  /\ Settle < MinWait /\ MinWait <= MaxWait
  /\ Cardinality(Key) \in Nat
  /\ Cardinality(Key) * MaxWait \in Nat
  /\ Settle + Cardinality(Key) * MaxWait < Hold
  /\ "none" \notin Key
<1>1. Cardinality(Key) \in Nat
  BY KeysAssumption, FS_CardinalityType DEF KeysAssumption
<1> QED
  BY <1>1, KeysAssumption DEF KeysAssumption

\* Two facts of arithmetic.
LEMMA TimesGrows ==
  ASSUME NEW a \in Nat, NEW b \in Nat, NEW m \in Nat, a <= b
  PROVE  a * m \in Nat /\ b * m \in Nat /\ a * m <= b * m
OBVIOUS

LEMMA OneMore ==
  ASSUME NEW a \in Nat, NEW m \in Nat
  PROVE  (a + 1) * m = a * m + m
OBVIOUS

\* A busy period is no longer than a wait for every key.
LEMMA BusyBounded ==
  ASSUME KeysTypeOK, NEW S \in SUBSET Key, serving \notin S
  PROVE  /\ IsFiniteSet(S) /\ Cardinality(S) \in Nat /\ Busy(S) \in Nat
         /\ Busy(S) <= Cardinality(Key) * MaxWait
<1>1. IsFiniteSet(S) /\ Cardinality(S) \in Nat /\ Cardinality(S) <= Cardinality(Key)
  BY KeysAssumption, FS_Subset, FS_CardinalityType DEF KeysAssumption
<1>2. waitMax \in 0 .. MaxWait
  BY DEF KeysTypeOK
<1>3. CASE serving = "none"
  BY <1>1, <1>3, KeysWidths, TimesGrows DEF Busy
<1>4. CASE serving # "none"
  <2>1. S \cup {serving} \in SUBSET Key
    BY <1>4 DEF KeysTypeOK
  <2>2. Cardinality(S \cup {serving}) = Cardinality(S) + 1
    BY <1>1, FS_AddElement
  <2>3. Cardinality(S) + 1 <= Cardinality(Key)
    BY <2>1, <2>2, KeysAssumption, FS_Subset DEF KeysAssumption
  <2>4. (Cardinality(S) + 1) * MaxWait <= Cardinality(Key) * MaxWait
    BY <1>1, <2>3, KeysWidths, TimesGrows
  <2>5. Cardinality(S) * MaxWait + MaxWait <= Cardinality(Key) * MaxWait
    BY <1>1, <2>4, KeysWidths, OneMore
  <2>6. Cardinality(S) * MaxWait \in Nat
    BY <1>1, KeysWidths, TimesGrows
  <2>7. Busy(S) = Cardinality(S) * MaxWait + (MaxWait - waitMax)
    BY <1>4 DEF Busy
  <2> HIDE DEF Busy
  <2> QED
    BY <1>1, <1>2, <2>5, <2>6, <2>7, KeysWidths
<1> QED
  BY <1>3, <1>4

\* Nobody is faster than the handlers: his finger rests while his key is
\* pending or has just been served.
LEMMA FingerRests ==
  ASSUME KeysTypeOK, NEW S \in SUBSET Key, serving \notin S,
         \A k \in Key : k \in S \/ pending[k] => since[k] <= Settle + Busy(S),
         NEW k \in Key, k \in S \/ pending[k]
  PROVE  since[k] < Hold
<1>1. Busy(S) \in Nat /\ Busy(S) <= Cardinality(Key) * MaxWait
  BY BusyBounded
<1>2. since[k] \in Nat /\ since[k] <= Settle + Busy(S)
  BY KeysWidths DEF KeysTypeOK
<1> QED
  BY <1>1, <1>2, KeysWidths

\* It holds at the start.
LEMMA KeysInitially == KeysInit => KeysInv
<1> SUFFICES ASSUME KeysInit PROVE KeysInv
  OBVIOUS
<1>1. KeysTypeOK
  BY KeysWidths DEF KeysInit, KeysTypeOK
<1>2. KeysAgree /\ ReleaseCounted /\ PressCounted
  BY KeysWidths DEF KeysInit, KeysAgree, ReleaseCounted, PressCounted, Key
<1>3. BusyPeriod
  <2>1. {} \in SUBSET Key /\ serving \notin {} /\ \A k \in Key : ~pending[k]
    BY DEF KeysInit
  <2> QED
    BY <2>1 DEF BusyPeriod
<1> QED
  BY <1>1, <1>2, <1>3 DEF KeysInv

\* A step keeps the types.
LEMMA KeysTypes ==
  ASSUME KeysInv, [KeysNext]_keysVars
  PROVE  KeysTypeOK'
<1> USE KeysWidths DEF KeysInv, KeysTypeOK
<1>1. CASE UNCHANGED keysVars
  BY <1>1 DEF keysVars
<1>2. CASE KeyTime
  <2>1. since' \in [Key -> 0 .. Hold]
    BY <1>2 DEF KeyTime
  <2>2. waitLeft' \in 0 .. MinWait /\ waitMax' \in 0 .. MaxWait
    BY <1>2 DEF KeyTime
  <2> QED
    BY <1>2, <2>1, <2>2 DEF KeyTime
<1>3. ASSUME NEW k \in Key, Move(k)
      PROVE  KeysTypeOK'
  <2>1. since' \in [Key -> 0 .. Hold] /\ finger' \in [Key -> BOOLEAN] /\ acted' \in [Key -> Nat]
    BY <1>3 DEF Move
  <2> QED
    BY <1>3, <2>1 DEF Move
<1>4. ASSUME NEW k \in Key, Contact(k)
      PROVE  KeysTypeOK'
  <2>1. pressed' \in [Key -> BOOLEAN] /\ pending' \in [Key -> BOOLEAN]
    BY <1>4 DEF Contact
  <2>2. serving' \in Key => pending'[serving']
    BY <1>4 DEF Contact
  <2> QED
    BY <1>4, <2>1, <2>2 DEF Contact
<1>5. ASSUME NEW k \in Key, EnterKey(k)
      PROVE  KeysTypeOK'
  BY <1>5 DEF EnterKey
<1>6. ASSUME NEW k \in Key, LeaveKey(k)
      PROVE  KeysTypeOK'
  <2>1. pending' \in [Key -> BOOLEAN]
    BY <1>6 DEF LeaveKey
  <2>2. acted' \in [Key -> Nat]
    BY <1>6 DEF LeaveKey
  <2> QED
    BY <1>6, <2>1, <2>2 DEF LeaveKey
<1> QED
  BY <1>1, <1>2, <1>3, <1>4, <1>5, <1>6 DEF KeysNext

-----------------------------------------------------------------------------
\* A key that is pending or being served has had its finger at rest for less
\* than Hold.
LEMMA PendingRests ==
  ASSUME KeysInv, NEW k \in Key, pending[k] \/ serving = k
  PROVE  since[k] < Hold
<1>1. pending[k]
  BY DEF KeysInv, KeysTypeOK
<1>2. PICK S \in SUBSET Key :
        /\ serving \notin S
        /\ \A j \in Key : j \in S \/ pending[j] => since[j] <= Settle + Busy(S)
  BY DEF KeysInv, BusyPeriod
<1> QED
  BY <1>1, <1>2, FingerRests DEF KeysInv

\* When a handler tests the level, its key's contact has settled.
LEMMA TestedSettled ==
  ASSUME KeysInv, NEW k \in Key, LeaveKey(k)
  PROVE  pressed[k] = finger[k] /\ since[k] > Settle /\ pending[k]
<1>1. since[k] \in Nat /\ since[k] + 0 >= MinWait /\ pending[k]
  BY KeysWidths DEF KeysInv, KeysAgree, KeysTypeOK, LeaveKey
<1>2. since[k] > Settle
  BY <1>1, KeysWidths
<1> QED
  BY <1>1, <1>2, KeysWidths DEF KeysInv, KeysAgree

\* And the other conjuncts.
LEMMA KeysAgreeStep ==
  ASSUME KeysInv, [KeysNext]_keysVars
  PROVE  KeysAgree'
<1> USE KeysWidths
<1> USE DEF KeysAgree
<1>t. KeysTypeOK /\ KeysAgree
  BY DEF KeysInv
<1>1. CASE UNCHANGED keysVars
  BY <1>1, <1>t DEF keysVars
<1>2. CASE KeyTime
  <2>1. \A k \in Key : pressed'[k] # finger'[k] => since'[k] <= Settle
    BY <1>2, <1>t DEF KeyTime, KeysTypeOK
  <2>2. ASSUME serving' # "none"
        PROVE  since'[serving'] + waitLeft' >= MinWait
    <3>1. serving' = serving /\ serving \in Key /\ pending[serving]
      BY <1>2, <1>t, <2>2 DEF KeyTime, KeysTypeOK
    <3>2. since[serving] < Hold
      BY <3>1, PendingRests
    <3>3. since'[serving] = since[serving] + 1
      BY <1>2, <3>1, <3>2 DEF KeyTime
    <3>4. since[serving] \in Nat /\ waitLeft \in Nat
      BY <1>t, <3>1 DEF KeysTypeOK
    <3>5. since[serving] + waitLeft >= MinWait
      BY <1>t, <2>2, <3>1
    <3>6. waitLeft' = IF waitLeft > 0 THEN waitLeft - 1 ELSE 0
      BY <1>2 DEF KeyTime
    <3> QED
      BY <3>1, <3>3, <3>4, <3>5, <3>6
  <2> QED
    BY <2>1, <2>2
<1>3. ASSUME NEW k \in Key, Move(k)
      PROVE  KeysAgree'
  <2>1. since[k] = Hold
    BY <1>3 DEF Move
  <2>2. serving # k /\ ~pending[k]
    BY <2>1, PendingRests
  <2>3. \A j \in Key : pressed'[j] # finger'[j] => since'[j] <= Settle
    BY <1>3, <1>t DEF Move, KeysTypeOK
  <2>4. ASSUME serving' # "none"
        PROVE  since'[serving'] + waitLeft' >= MinWait
    BY <1>3, <1>t, <2>2, <2>4 DEF Move, KeysTypeOK
  <2> QED
    BY <2>3, <2>4
<1>4. ASSUME NEW k \in Key, Contact(k)
      PROVE  KeysAgree'
  <2>1. \A j \in Key : pressed'[j] # finger'[j] => since'[j] <= Settle
    BY <1>4, <1>t DEF Contact, KeysTypeOK
  <2> QED
    BY <1>4, <1>t, <2>1 DEF Contact
<1>5. ASSUME NEW k \in Key, EnterKey(k)
      PROVE  KeysAgree'
  BY <1>5, <1>t DEF EnterKey, KeysTypeOK
<1>6. ASSUME NEW k \in Key, LeaveKey(k)
      PROVE  KeysAgree'
  BY <1>6, <1>t DEF LeaveKey
<1> QED
  BY <1>1, <1>2, <1>3, <1>4, <1>5, <1>6 DEF KeysNext

LEMMA BusyPeriodStep ==
  ASSUME KeysInv, [KeysNext]_keysVars
  PROVE  BusyPeriod'
<1>t. KeysTypeOK /\ KeysAgree
  BY DEF KeysInv
<1>s. PICK S \in SUBSET Key :
        /\ serving \notin S
        /\ \A k \in S : ~pending[k] /\ pressed[k] = finger[k] /\ since[k] >= Settle
        /\ \A k \in Key : k \in S \/ pending[k] => since[k] <= Settle + Busy(S)
  BY DEF KeysInv, BusyPeriod
<1>b. Cardinality(S) \in Nat /\ IsFiniteSet(S) /\ Busy(S) \in Nat
  BY <1>s, <1>t, BusyBounded
<1>m. Cardinality(S) * MaxWait \in Nat
  BY <1>b, KeysWidths, TimesGrows
<1>r. \A k \in Key : k \in S \/ pending[k] => since[k] < Hold
  BY <1>s, <1>t, FingerRests
<1>n. \A k \in Key : since[k] \in Nat
  BY <1>t, KeysWidths DEF KeysTypeOK
<1>1. CASE UNCHANGED keysVars
  BY <1>1, <1>s DEF keysVars, BusyPeriod, Busy
<1>2. CASE KeyTime
  <2>1. CASE serving = "none"
    <3>1. {} \in SUBSET Key /\ serving' \notin {} /\ \A k \in Key : ~pending'[k]
      BY <1>2, <2>1 DEF KeyTime
    <3> QED
      BY <3>1 DEF BusyPeriod
  <2>2. CASE serving # "none"
    <3>1. serving' = serving /\ pending' = pending /\ pressed' = pressed /\ finger' = finger
      BY <1>2 DEF KeyTime
    <3>2. \A k \in Key : k \in S \/ pending[k] => since'[k] = since[k] + 1
      BY <1>2, <1>r DEF KeyTime
    <3>3. waitMax' = waitMax - 1 /\ waitMax \in Nat
      BY <1>2, <1>t, <2>2, KeysWidths DEF KeyTime, KeysTypeOK
    <3>4. Busy(S)' = Cardinality(S) * MaxWait + (MaxWait - waitMax')
      BY <2>2, <3>1 DEF Busy
    <3>5. Busy(S) = Cardinality(S) * MaxWait + (MaxWait - waitMax)
      BY <2>2 DEF Busy
    <3>6. Busy(S)' = Busy(S) + 1
      BY <3>3, <3>4, <3>5, <1>m, KeysWidths
    <3>7. \A k \in Key : k \in S \/ pending'[k] => since'[k] <= Settle + Busy(S)'
      BY <3>1, <3>2, <3>6, <1>b, <1>n, <1>s, KeysWidths
    <3>8. \A k \in S : ~pending'[k] /\ pressed'[k] = finger'[k] /\ since'[k] >= Settle
      BY <3>1, <3>2, <1>n, <1>s, KeysWidths
    <3> QED
      BY <1>s, <3>1, <3>7, <3>8 DEF BusyPeriod
  <2> QED
    BY <2>1, <2>2
<1>3. ASSUME NEW k \in Key, Move(k)
      PROVE  BusyPeriod'
  <2>1. k \notin S /\ ~pending[k]
    BY <1>3, <1>r, KeysWidths DEF Move
  <2>2. \A j \in Key \ {k} : since'[j] = since[j] /\ finger'[j] = finger[j]
    BY <1>3, <1>t DEF Move, KeysTypeOK
  <2>3. serving' = serving /\ pending' = pending /\ pressed' = pressed /\ waitMax' = waitMax
    BY <1>3 DEF Move
  <2>4. Busy(S)' = Busy(S)
    BY <2>3 DEF Busy
  <2> QED
    BY <1>s, <2>1, <2>2, <2>3, <2>4 DEF BusyPeriod
<1>4. ASSUME NEW k \in Key, Contact(k)
      PROVE  BusyPeriod'
  <2>1. serving' = serving /\ since' = since /\ finger' = finger /\ waitMax' = waitMax
    BY <1>4 DEF Contact
  <2>2. Busy(S)' = Busy(S)
    BY <2>1 DEF Busy
  <2>3. k \notin S /\ since[k] <= Settle
    BY <1>4, <1>s, <1>t, <1>n, KeysWidths DEF Contact, KeysAgree
  <2>4. \A j \in Key \ {k} : pending'[j] = pending[j] /\ pressed'[j] = pressed[j]
    BY <1>4, <1>t DEF Contact, KeysTypeOK
  <2>5. since[k] <= Settle + Busy(S)
    BY <1>b, <1>n, <2>3, KeysWidths
  <2> QED
    BY <1>s, <2>1, <2>2, <2>3, <2>4, <2>5 DEF BusyPeriod
<1>5. ASSUME NEW k \in Key, EnterKey(k)
      PROVE  BusyPeriod'
  <2>1. /\ serving = "none" /\ serving' = k /\ waitMax' = MaxWait /\ pending[k]
        /\ since' = since /\ finger' = finger /\ pending' = pending /\ pressed' = pressed
    BY <1>5 DEF EnterKey
  <2>2. k \notin S /\ k # "none"
    BY <1>s, <2>1, KeysWidths
  <2>3. Busy(S) = Cardinality(S) * MaxWait + 0
    BY <2>1 DEF Busy
  <2>4. Busy(S)' = Cardinality(S) * MaxWait + (MaxWait - MaxWait)
    BY <2>1, <2>2 DEF Busy
  <2>5. Busy(S)' = Busy(S)
    BY <2>3, <2>4, <1>m, KeysWidths
  <2> QED
    BY <1>s, <2>1, <2>2, <2>5 DEF BusyPeriod
<1>6. ASSUME NEW k \in Key, LeaveKey(k)
      PROVE  BusyPeriod'
  <2> DEFINE T == S \cup {k}
  <2>1. /\ serving = k /\ serving' = "none"
        /\ since' = since /\ finger' = finger /\ pressed' = pressed
        /\ pending' = [pending EXCEPT ![k] = FALSE]
    BY <1>6 DEF LeaveKey
  <2>2. k \notin S /\ k # "none"
    BY <1>s, <2>1, KeysWidths
  <2>3. Cardinality(T) = Cardinality(S) + 1
    BY <1>b, <2>2, FS_AddElement
  <2>4. Busy(T)' = Cardinality(T) * MaxWait + 0
    BY <2>1 DEF Busy
  <2>5. Busy(T)' = Cardinality(S) * MaxWait + MaxWait
    BY <2>3, <2>4, <1>b, <1>m, OneMore, KeysWidths
  <2>6. Busy(S) = Cardinality(S) * MaxWait + (MaxWait - waitMax)
    BY <2>1, <2>2 DEF Busy
  <2>7. waitMax \in Nat
    BY <1>t DEF KeysTypeOK
  <2>8. Busy(T)' \in Nat /\ Busy(S) <= Busy(T)'
    BY <2>5, <2>6, <2>7, <1>m, KeysWidths
  <2>9. pressed[k] = finger[k] /\ since[k] > Settle /\ pending[k]
    BY <1>6, TestedSettled
  <2>10. \A j \in Key : pending'[j] => pending[j]
    BY <2>1, <1>t DEF KeysTypeOK
  <2>11. ~pending'[k]
    BY <2>1, <1>t DEF KeysTypeOK
  <2>12. \A j \in Key : j \in T \/ pending'[j] => since'[j] <= Settle + Busy(T)'
    <3>1. \A j \in Key : j \in T \/ pending'[j] => since[j] <= Settle + Busy(S)
      BY <1>s, <2>9, <2>10
    <3> HIDE DEF T
    <3> QED
      BY <3>1, <2>1, <2>8, <1>b, <1>n, KeysWidths
  <2>13. \A j \in T : ~pending'[j] /\ pressed'[j] = finger'[j] /\ since'[j] >= Settle
    <3>1. \A j \in S : ~pending'[j]
      BY <1>s, <2>10
    <3> QED
      BY <1>n, <1>s, <2>1, <2>9, <2>11, <3>1, KeysWidths
  <2>14. T \in SUBSET Key /\ serving' \notin T
    BY <2>1, KeysWidths
  <2> QED
    BY <2>12, <2>13, <2>14 DEF BusyPeriod
<1> QED
  BY <1>1, <1>2, <1>3, <1>4, <1>5, <1>6 DEF KeysNext

LEMMA ReleaseStep ==
  ASSUME KeysInv, [KeysNext]_keysVars
  PROVE  ReleaseCounted'
<1> USE DEF ReleaseCounted
<1>t. KeysTypeOK /\ KeysAgree /\ ReleaseCounted
  BY DEF KeysInv
<1>n. \A k \in Key : since[k] \in 0 .. Hold /\ acted[k] \in Nat
  BY <1>t DEF KeysTypeOK
<1>o. \A k \in OnRelease : k \in Key /\ k \notin OnPress
  BY KeysAssumption DEF Key, KeysAssumption
<1>1. CASE UNCHANGED keysVars
  BY <1>1, <1>t DEF keysVars
<1>2. CASE KeyTime
  <2>1. \A k \in Key : since[k] >= Settle => since'[k] >= Settle
    BY <1>2, <1>n, KeysWidths DEF KeyTime
  <2> QED
    BY <1>2, <1>t, <1>o, <2>1 DEF KeyTime
<1>3. ASSUME NEW k \in Key, Move(k)
      PROVE  ReleaseCounted'
  <2>1. ~pending[k] /\ since[k] = Hold /\ pressed[k] = finger[k]
    BY <1>3, <1>t, <1>n, PendingRests, KeysWidths DEF Move, KeysAgree
  <2>2. /\ finger'[k] = ~finger[k]
        /\ acted'[k] = IF finger[k] THEN acted[k] ELSE 0
        /\ pressed' = pressed /\ pending' = pending
    BY <1>3, <1>t DEF Move, KeysTypeOK
  <2>3. \A j \in Key \ {k} : finger'[j] = finger[j] /\ acted'[j] = acted[j] /\ since'[j] = since[j]
    BY <1>3, <1>t DEF Move, KeysTypeOK
  <2> QED
    BY <1>t, <1>o, <2>1, <2>2, <2>3
<1>4. ASSUME NEW k \in Key, Contact(k)
      PROVE  ReleaseCounted'
  <2>1. /\ pressed'[k] = ~pressed[k]
        /\ pending'[k] = (pending[k] \/ pressed[k])
        /\ finger' = finger /\ acted' = acted /\ since' = since
    BY <1>4, <1>t DEF Contact, KeysTypeOK
  <2>2. \A j \in Key \ {k} : pressed'[j] = pressed[j] /\ pending'[j] = pending[j]
    BY <1>4, <1>t DEF Contact, KeysTypeOK
  <2>3. pressed[k] = finger[k] => since[k] < Settle
    BY <1>4 DEF Contact
  <2>4. ASSUME k \in OnRelease, ~finger[k]
        PROVE  pending[k] \/ pressed[k]
    BY <1>t, <1>n, <2>3, <2>4, KeysWidths DEF KeysTypeOK
  <2>5. ASSUME NEW j \in OnRelease, j # k
        PROVE  /\ finger'[j] => acted'[j] = 0
               /\ ~finger'[j] => acted'[j] = IF pending'[j] \/ pressed'[j] THEN 0 ELSE 1
               /\ ~finger'[j] /\ ~pending'[j] /\ ~pressed'[j] => since'[j] >= Settle
    BY <1>t, <1>o, <2>1, <2>2, <2>5
  <2>6. ASSUME k \in OnRelease
        PROVE  /\ finger'[k] => acted'[k] = 0
               /\ ~finger'[k] => acted'[k] = IF pending'[k] \/ pressed'[k] THEN 0 ELSE 1
               /\ ~finger'[k] /\ ~pending'[k] /\ ~pressed'[k] => since'[k] >= Settle
    BY <1>t, <2>1, <2>4, <2>6
  <2> QED
    BY <2>5, <2>6
<1>5. ASSUME NEW k \in Key, EnterKey(k)
      PROVE  ReleaseCounted'
  BY <1>5, <1>t DEF EnterKey
<1>6. ASSUME NEW k \in Key, LeaveKey(k)
      PROVE  ReleaseCounted'
  <2>1. pressed[k] = finger[k] /\ since[k] > Settle /\ pending[k]
    BY <1>6, TestedSettled
  <2>2. /\ ~pending'[k]
        /\ acted'[k] = IF pressed[k] <=> k \in OnPress THEN acted[k] + 1 ELSE acted[k]
        /\ pressed' = pressed /\ finger' = finger /\ since' = since
    BY <1>6, <1>t DEF LeaveKey, KeysTypeOK
  <2>3. \A j \in Key \ {k} : acted'[j] = acted[j] /\ pending'[j] = pending[j]
    BY <1>6, <1>t DEF LeaveKey, KeysTypeOK
  <2>4. ASSUME k \in OnRelease
        PROVE  /\ finger'[k] => acted'[k] = 0
               /\ ~finger'[k] => acted'[k] = IF pending'[k] \/ pressed'[k] THEN 0 ELSE 1
               /\ ~finger'[k] /\ ~pending'[k] /\ ~pressed'[k] => since'[k] >= Settle
    <3>1. k \notin OnPress /\ since[k] >= Settle
      BY <1>n, <1>o, <2>1, <2>4, KeysWidths
    <3> QED
      BY <1>t, <2>1, <2>2, <2>4, <3>1
  <2> QED
    BY <1>t, <1>o, <2>2, <2>3, <2>4
<1> QED
  BY <1>1, <1>2, <1>3, <1>4, <1>5, <1>6 DEF KeysNext

LEMMA PressStep ==
  ASSUME KeysInv, [KeysNext]_keysVars
  PROVE  PressCounted'
<1> USE DEF PressCounted
<1>t. KeysTypeOK /\ KeysAgree /\ PressCounted
  BY DEF KeysInv
<1>n. \A k \in Key : since[k] \in 0 .. Hold /\ acted[k] \in Nat
  BY <1>t DEF KeysTypeOK
<1>o. \A k \in OnPress : k \in Key
  BY DEF Key
<1>1. CASE UNCHANGED keysVars
  BY <1>1, <1>t DEF keysVars
<1>2. CASE KeyTime
  <2>1. \A k \in Key : since[k] >= Settle => since'[k] >= Settle
    BY <1>2, <1>n, KeysWidths DEF KeyTime
  <2> QED
    BY <1>2, <1>t, <1>o, <2>1 DEF KeyTime
<1>3. ASSUME NEW k \in Key, Move(k)
      PROVE  PressCounted'
  <2>1. /\ finger'[k] = ~finger[k]
        /\ acted'[k] = IF finger[k] THEN acted[k] ELSE 0
        /\ pressed' = pressed /\ pending' = pending
    BY <1>3, <1>t DEF Move, KeysTypeOK
  <2>2. \A j \in Key \ {k} : finger'[j] = finger[j] /\ acted'[j] = acted[j] /\ since'[j] = since[j]
    BY <1>3, <1>t DEF Move, KeysTypeOK
  <2>3. finger[k] \in BOOLEAN
    BY <1>t DEF KeysTypeOK
  <2>4. ASSUME k \in OnPress
        PROVE  /\ acted'[k] <= 1
               /\ ~(finger'[k] /\ acted'[k] = 1)
    <3>1. CASE finger[k]
      BY <1>t, <2>1, <2>4, <3>1
    <3>2. CASE ~finger[k]
      <4>1. acted'[k] = 0
        BY <2>1, <3>2
      <4> QED
        BY <4>1
    <3> QED
      BY <3>1, <3>2
  <2> QED
    BY <1>t, <1>o, <2>1, <2>2, <2>4
<1>4. ASSUME NEW k \in Key, Contact(k)
      PROVE  PressCounted'
  <2>1. /\ finger' = finger /\ acted' = acted /\ since' = since
    BY <1>4 DEF Contact
  <2>2. \A j \in Key \ {k} : pressed'[j] = pressed[j] /\ pending'[j] = pending[j]
    BY <1>4, <1>t DEF Contact, KeysTypeOK
  <2>3. pressed[k] = finger[k] => since[k] < Settle
    BY <1>4 DEF Contact
  <2>4. ASSUME k \in OnPress
        PROVE  ~(finger[k] /\ acted[k] = 1)
    BY <1>t, <1>n, <1>o, <2>3, <2>4, KeysWidths DEF KeysTypeOK
  <2> QED
    BY <1>t, <1>o, <2>1, <2>2, <2>4
<1>5. ASSUME NEW k \in Key, EnterKey(k)
      PROVE  PressCounted'
  BY <1>5, <1>t DEF EnterKey
<1>6. ASSUME NEW k \in Key, LeaveKey(k)
      PROVE  PressCounted'
  <2>1. pressed[k] = finger[k] /\ since[k] > Settle /\ pending[k]
    BY <1>6, TestedSettled
  <2>2. /\ ~pending'[k]
        /\ acted'[k] = IF pressed[k] <=> k \in OnPress THEN acted[k] + 1 ELSE acted[k]
        /\ pressed' = pressed /\ finger' = finger /\ since' = since
    BY <1>6, <1>t DEF LeaveKey, KeysTypeOK
  <2>3. \A j \in Key \ {k} : acted'[j] = acted[j] /\ pending'[j] = pending[j]
    BY <1>6, <1>t DEF LeaveKey, KeysTypeOK
  <2>4. ASSUME k \in OnPress
        PROVE  /\ acted'[k] <= 1
               /\ finger'[k] /\ acted'[k] = 1 => ~pending'[k] /\ pressed'[k] /\ since'[k] >= Settle
    <3>1. since[k] >= Settle
      BY <1>n, <2>1, KeysWidths
    <3>2. pressed[k] => acted[k] = 0
      <4>1. acted[k] \in Nat /\ acted[k] <= 1
        BY <1>n, <1>o, <1>t, <2>4
      <4>2. finger[k] => acted[k] # 1
        BY <1>t, <2>1, <2>4
      <4> QED
        BY <2>1, <4>1, <4>2
    <3>3. CASE pressed[k]
      BY <1>n, <2>1, <2>2, <2>4, <3>1, <3>2, <3>3
    <3>4. CASE ~pressed[k]
      BY <1>n, <1>t, <2>1, <2>2, <2>4, <3>1, <3>4
    <3> QED
      BY <3>3, <3>4
  <2> QED
    BY <1>t, <1>o, <2>2, <2>3, <2>4
<1> QED
  BY <1>1, <1>2, <1>3, <1>4, <1>5, <1>6 DEF KeysNext

\* The invariant of the keys, for any set of keys and any times with which a
\* press outlasts all handlers (KEY.c).
THEOREM KeysInvariant == KeysSpec => []KeysInv
<1>1. KeysInv /\ [KeysNext]_keysVars => KeysInv'
  BY KeysTypes, KeysAgreeStep, BusyPeriodStep, ReleaseStep, PressStep DEF KeysInv
<1> QED
  BY <1>1, KeysInitially, PTL DEF KeysSpec

\* KEY1 and KEY2 act exactly once when they are let go, WK_UP and KEY0 at most
\* once when they are pressed, whatever the contacts' bouncing and however many
\* handlers wait for each other (KEY.c:118-188).
THEOREM KeysAreSound == KeysSpec => []KeysSound
<1>1. KeysInv => ReleasedActsOnce
  <2> SUFFICES ASSUME KeysInv, NEW k \in OnRelease, AtRest(k)
               PROVE  acted[k] = 1
    BY DEF ReleasedActsOnce
  <2> QED
    BY DEF KeysInv, ReleaseCounted, AtRest
<1>2. KeysInv => KeysSound
  BY <1>1 DEF KeysInv, KeysSound, PressCounted, PressedActsOnce
<1> QED
  BY <1>2, KeysInvariant, PTL
=============================================================================
