------------------------------- MODULE Mhz14 -------------------------------
(***************************************************************************)
(* The receiver of the CO2 sensor: the handler of USART3 (MHZ14.c) puts    *)
(* the bytes of a frame together, tests its header and its checksum and    *)
(* publishes the concentration.  The handler has priority 2: while a key   *)
(* handler or TIM2's handler runs it waits, the one-byte data register     *)
(* overruns, and bytes are lost.                                           *)
(***************************************************************************)
EXTENDS Naturals, Sequences

CONSTANTS
  Reading,   \* concentrations the sensor sends, as pairs <<high, low>>
  FrameTail, \* bytes 4 to 7 of its frames
  MaxLost    \* bound: bytes lost in a run

\* The sensor's range ends far below 0xFF00.
ASSUME Mhz14Assumption ==
  /\ Reading \subseteq (0 .. 254) \X (0 .. 255)
  /\ FrameTail \in [1 .. 4 -> 0 .. 255] /\ MaxLost \in Nat

VARIABLES
  revcnt,    \* bytes of the current frame received
  MHZ14_RecvMeasureData, \* the buffer
  CO2,       \* Envir_collectedVlaue.CO2, as a pair
  sending,   \* the concentration of the frame on the line
  sent,      \* bytes of it on the line already
  DR,        \* the data register: empty, or the byte it holds
  lost,      \* bytes lost so far
  damaged,   \* what the properties ask of the losses (see Damage)
  intact     \* whole frames received since the last loss, up to 2

mhz14Vars == <<revcnt, MHZ14_RecvMeasureData, CO2, sending, sent, DR, lost,
               damaged, intact>>

FrameLen == 9
\* The two's complement of the sum of bytes 1 to 7, as an unsigned char.
Checksum(f) ==
  LET sum == f[2] + f[3] + f[4] + f[5] + f[6] + f[7] + f[8]
  IN  (256 - (sum % 256)) % 256
Frame(r) ==
  LET body == <<255, 134, r[1], r[2]>> \o FrameTail IN body \o <<Checksum(body \o <<0>>)>>

Mhz14Init ==
  /\ revcnt = 0 /\ MHZ14_RecvMeasureData = [i \in 1 .. FrameLen |-> 0]
  /\ CO2 = <<0, 0>>
  /\ sending \in Reading /\ sent = 0 /\ DR = <<>>
  /\ lost = 0 /\ intact = 0
  /\ damaged = [frame |-> 0, before |-> 0, byte255 |-> FALSE]

\* The buffer after one more byte, and the number of bytes it then counts.
Stored(b) == [MHZ14_RecvMeasureData EXCEPT ![revcnt + 1] = b]
BadHeader(buf) == buf[1] # 255 \/ buf[2] # 134

\* Mutant: the checksum is not tested.
AcceptUntested(buf) == buf[1] = 255

Accept(buf) == Checksum(buf) = buf[9]

\* Mutant: a bad header is dropped, but the count goes on.
HandlerKeepsCount ==
  /\ DR # <<>> /\ DR' = <<>>
  /\ LET buf == Stored(DR[1]) IN
       /\ MHZ14_RecvMeasureData' = buf
       /\ revcnt' = (revcnt + 1) % FrameLen
       /\ CO2' = IF revcnt + 1 = FrameLen /\ Accept(buf)
                 THEN <<buf[3], buf[4]>> ELSE CO2
  /\ UNCHANGED <<sending, sent, lost, damaged, intact>>

\* One run of the handler, for one byte.
USART3_IRQHandler ==
  /\ DR # <<>> /\ DR' = <<>>
  /\ LET buf == Stored(DR[1])
         n   == revcnt + 1
         bad == n = 2 /\ BadHeader(buf)
     IN  /\ revcnt' = IF bad \/ n = FrameLen THEN 0 ELSE n
         /\ MHZ14_RecvMeasureData' = IF bad THEN [i \in 1 .. FrameLen |-> 0] ELSE buf
         /\ CO2' = IF n = FrameLen /\ Accept(buf) THEN <<buf[3], buf[4]>> ELSE CO2
  /\ UNCHANGED <<sending, sent, lost, damaged, intact>>

\* What is remembered of a loss: how many bytes of this frame and of the one
\* before are lost, and whether a data byte 0xFF ever was.
Damage(b) == [damaged EXCEPT !.frame = @ + 1,
                             !.byte255 = @ \/ (b = 255 /\ sent # 0)]

\* The sensor's next byte.  With the last byte still in DR it is lost.
SensorByte ==
  /\ sent < FrameLen /\ sent' = sent + 1
  /\ LET b == Frame(sending)[sent + 1] IN
     IF DR = <<>>
     THEN DR' = <<b>> /\ UNCHANGED <<lost, damaged, intact>>
     ELSE /\ lost < MaxLost /\ lost' = lost + 1
          /\ damaged' = Damage(b) /\ intact' = 0 /\ UNCHANGED DR
  /\ UNCHANGED <<revcnt, MHZ14_RecvMeasureData, CO2, sending>>

\* The answer to the next measure command, at least 400 ms later.
SensorFrame(r) ==
  /\ sent = FrameLen /\ DR = <<>> /\ sent' = 0 /\ sending' = r
  /\ damaged' = [damaged EXCEPT !.before = damaged.frame, !.frame = 0]
  /\ intact' = IF damaged.frame = 0 /\ intact < 2 THEN intact + 1 ELSE intact
  /\ UNCHANGED <<revcnt, MHZ14_RecvMeasureData, CO2, DR, lost>>

Mhz14Step == USART3_IRQHandler \/ SensorByte \/ \E r \in Reading : SensorFrame(r)
Mhz14Spec == Mhz14Init /\ [][Mhz14Step]_mhz14Vars

-----------------------------------------------------------------------------
\* The types of the variables; the buffer is never written past its end.
Mhz14TypeOK ==
  /\ revcnt \in 0 .. FrameLen - 1
  /\ MHZ14_RecvMeasureData \in [1 .. FrameLen -> 0 .. 255]
  /\ CO2 \in (0 .. 255) \X (0 .. 255)
  /\ sending \in Reading /\ sent \in 0 .. FrameLen
  /\ DR \in {<<>>} \cup {<<b>> : b \in 0 .. 255}
  /\ lost \in 0 .. MaxLost /\ intact \in 0 .. 2
  /\ damaged \in [frame : 0 .. MaxLost, before : 0 .. MaxLost, byte255 : BOOLEAN]

\* No mixture of two frames passes for one: as long as frames lose at most
\* one byte, and no data byte 0xFF, only concentrations that were sent are
\* published.  (A lost 0xFF is made up for by the 0xFF the next frame starts
\* with: then the checksum of the mixture is right.)
PublishedWasSent ==
  [][CO2' # CO2 /\ ~damaged.byte255 /\ damaged.frame <= 1 /\ damaged.before <= 1
       => CO2' \in Reading]_mhz14Vars

\* However many bytes were lost, and where: of the frames that arrive whole
\* afterwards at most two are missed, then every one is published.
Resynchronises ==
  intact = 2 /\ damaged.frame = 0 /\ sent = FrameLen /\ DR = <<>> => CO2 = sending

\* The receiver stays inside its frame and finds back to the sensor's.
ReceiverSound == Mhz14TypeOK /\ Resynchronises
=============================================================================
