------------------------------- MODULE Dht11 -------------------------------
(***************************************************************************)
(* One reading of the temperature and humidity sensor (DHT11.c), which     *)
(* TIM2's handler takes on every tick: the start pulse, the answer, forty  *)
(* bits, each awaited with a bounded wait, and the sum.  The sensor is the *)
(* level a sample of the data line finds: any sequence of levels, so also  *)
(* a sensor that is absent, slow, or stops in the middle.                  *)
(***************************************************************************)
EXTENDS Naturals, Sequences

CONSTANTS
  Bits,      \* bits of a byte: 8
  Limit,     \* the bound of a wait, in calls of Delay_us(1): 100
  Pulse,     \* the start pulse, Delay_ms(20) and Delay_us(30), in us
  Strobe     \* from the rise of a bit to its sample: Delay_us(30)

ASSUME Dht11Assumption ==
  Bits \in Nat \ {0} /\ Limit \in Nat \ {0} /\ Pulse \in Nat /\ Strobe \in Nat

VARIABLES
  dhtAt,     \* where the reading stands
  delaytime, \* the counter of the wait in progress
  buf,       \* the bits of the five bytes read so far
  spent,     \* us spent in delays since the reading began
  published  \* has this reading changed Envir_collectedVlaue?

dht11Vars == <<dhtAt, delaytime, buf, spent, published>>

NumBits == 5 * Bits
DhtAt == {"idle", "high", "low", "bitHigh", "bitLow", "sample", "sum"}

Dht11Init ==
  /\ dhtAt = "idle" /\ delaytime = 0 /\ buf = <<>> /\ spent = 0
  /\ published = FALSE

\* DHT11_Start.
DHT11_Start ==
  /\ dhtAt = "idle" /\ dhtAt' = "high" /\ delaytime' = 0 /\ buf' = <<>>
  /\ spent' = Pulse /\ published' = FALSE

\* One turn of a wait for the line to leave a level: Delay_us(1) ...
Wait(l) ==
  /\ dhtAt = l /\ delaytime' = delaytime + 1 /\ spent' = spent + 1
  /\ UNCHANGED <<dhtAt, buf, published>>
\* ... and what follows when it is over.
Proceed(next) == dhtAt' = next /\ delaytime' = 0 /\ UNCHANGED <<buf, spent, published>>

\* DHT11_WaiteCheck: the line must fall and rise, each within the bound.
AnswerWait == \E l \in {"high", "low"} : delaytime <= Limit /\ Wait(l)
AnswerFails ==
  /\ dhtAt \in {"high", "low"} /\ delaytime > Limit
  /\ Proceed("idle")
Answer ==
  /\ dhtAt \in {"high", "low"} /\ delaytime <= Limit
  /\ Proceed(IF dhtAt = "high" THEN "low" ELSE "bitHigh")

\* DHT11_ReadBit: the same two waits, but one that runs out is not an error.
BitWait == \E l \in {"bitHigh", "bitLow"} : delaytime < Limit /\ Wait(l)

BitEdge ==
  /\ dhtAt \in {"bitHigh", "bitLow"}
  /\ Proceed(IF dhtAt = "bitHigh" THEN "bitLow" ELSE "sample")
BitSample(level) ==
  /\ dhtAt = "sample" /\ buf' = Append(buf, level) /\ spent' = spent + Strobe
  /\ dhtAt' = IF Len(buf) + 1 = NumBits THEN "sum" ELSE "bitHigh"
  /\ UNCHANGED <<delaytime, published>>

\* A byte of buf, its most significant bit first, and the sum of four: the
\* integer promotion keeps the carry.
ByteValue[i \in 0 .. 4] ==
  LET value[k \in 0 .. Bits] ==
        IF k = 0 THEN 0 ELSE 2 * value[k - 1] + buf[i * Bits + k]
  IN  value[Bits]

\* Mutant: three of the four terms are lost.
SumFirst == ByteValue[0] = ByteValue[4]

SumMatches ==
  ByteValue[0] + ByteValue[1] + ByteValue[2] + ByteValue[3] = ByteValue[4]

\* DHT11_ReadTempHum, after the last bit.
DHT11_Sum ==
  /\ dhtAt = "sum" /\ dhtAt' = "idle" /\ published' = SumMatches
  /\ UNCHANGED <<delaytime, buf, spent>>

Dht11Step == \/ AnswerWait \/ AnswerFails \/ Answer \/ BitWait \/ BitEdge
             \/ DHT11_Sum \/ \E level \in {0, 1} : BitSample(level)
Dht11Next == DHT11_Start \/ Dht11Step
Dht11Spec == Dht11Init /\ [][Dht11Next]_dht11Vars

-----------------------------------------------------------------------------
\* The types of the variables; the counter, an unsigned char, never wraps.
Dht11TypeOK ==
  /\ dhtAt \in DhtAt
  /\ delaytime \in 0 .. Limit + 1
  /\ buf \in Seq({0, 1}) /\ Len(buf) <= NumBits
  /\ spent \in Nat
  /\ published \in BOOLEAN

\* Whatever the sensor does, a reading is over within the time for its pulse,
\* two waits and forty bits: TIM2's handler cannot miss its next update.
ReadingBounded ==
  spent <= Pulse + 2 * (Limit + 1) + NumBits * (2 * Limit + Strobe)

\* A line that stays high (no sensor, or one that stops after its answer) is
\* not taken for a reading: published bits contain a low one.
SilenceIgnored == published => \E i \in 1 .. Len(buf) : buf[i] = 0

\* Any sensor, also none: a reading is over in time and only one that a sensor
\* has given is published.
ReadingSound == Dht11TypeOK /\ ReadingBounded /\ SilenceIgnored
=============================================================================
