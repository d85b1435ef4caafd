---------------------------- MODULE SerialProofs ----------------------------
(***************************************************************************)
(* Proofs about the serial lines: Usart1, Mhz14 and Oled.  For any buffer  *)
(* and any frames, neither receiver writes past the end of its buffer,     *)
(* whatever arrives and whatever is lost; a line that the debug port takes *)
(* for complete is what was received; and the sensor's receiver is in step *)
(* again two frames after a loss, and publishes no mixture of two frames.  *)
(* For a screen of any size, a refresh shows the whole memory wherever the *)
(* one before was cut off.                                                 *)
(***************************************************************************)
EXTENDS Usart1, Mhz14, Oled, Integers, SequenceTheorems, FiniteSetTheorems, TLAPS

-----------------------------------------------------------------------------
(* The debug port.                                                         *)

LEMMA LineConstants == MAXLEN \in Nat \ {0} /\ "CR" \notin Byte
BY Usart1Assumption DEF Usart1Assumption

Data == Byte \cup {"CR", "LF"}

\* The inductive invariant of the line.
LineInv ==
  /\ count \in 0 .. MAXLEN - 1
  /\ gotCR \in BOOLEAN /\ complete \in BOOLEAN
  /\ USART1_RX_BUFF \in [0 .. MAXLEN - 1 -> Data]
  /\ line \in Seq(Data) /\ Len(line) = count
  /\ \A i \in 1 .. count : USART1_RX_BUFF[i - 1] = line[i] /\ line[i] # "CR"
  /\ complete => gotCR

LEMMA LineInitial == Usart1Init => LineInv
<1> SUFFICES ASSUME Usart1Init PROVE LineInv
  OBVIOUS
<1>1. /\ count = 0 /\ gotCR \in BOOLEAN /\ complete \in BOOLEAN /\ line = <<>>
      /\ USART1_RX_BUFF = [i \in 0 .. MAXLEN - 1 |-> "LF"] /\ ~complete
  BY Zenon DEF Usart1Init
<1>2. line \in Seq(Data) /\ Len(line) = count
  <2>1. <<>> \in Seq(Data) /\ Len(<<>>) = 0
    OBVIOUS
  <2> QED
    BY <1>1, <2>1, Zenon
<1>3. count \in 0 .. MAXLEN - 1 /\ \A i \in 1 .. count : FALSE
  <2>1. 0 \in 0 .. MAXLEN - 1 /\ \A i \in 1 .. 0 : FALSE
    BY LineConstants
  <2> QED
    BY <1>1, <2>1, Zenon
<1>4. USART1_RX_BUFF \in [0 .. MAXLEN - 1 -> Data]
  BY <1>1, Zenon DEF Data
<1> QED
  BY <1>1, <1>2, <1>3, <1>4, Zenon DEF LineInv

\* After a restart the line is empty.
LEMMA RestartKeeps ==
  ASSUME LineInv, Restart, USART1_RX_BUFF' \in [0 .. MAXLEN - 1 -> Data]
  PROVE  LineInv'
<1>1. count' = 0 /\ gotCR' = FALSE /\ complete' = FALSE /\ line' = <<>>
  BY Zenon DEF Restart
<1>2. /\ <<>> \in Seq(Data) /\ Len(<<>>) = 0
      /\ 0 \in 0 .. MAXLEN - 1 /\ \A i \in 1 .. 0 : FALSE
  BY LineConstants
<1> QED
  BY <1>1, <1>2, Zenon DEF LineInv

LEMMA StoreKeeps ==
  ASSUME LineInv, NEW b \in Data, b # "CR", Store(b)
  PROVE  LineInv'
<1>1. /\ USART1_RX_BUFF' = [USART1_RX_BUFF EXCEPT ![count] = b]
      /\ count \in 0 .. MAXLEN - 1 /\ USART1_RX_BUFF \in [0 .. MAXLEN - 1 -> Data]
  BY Zenon DEF Store, LineInv
<1>2. /\ USART1_RX_BUFF' \in [0 .. MAXLEN - 1 -> Data] /\ USART1_RX_BUFF'[count] = b
      /\ \A i \in 0 .. MAXLEN - 1 : i # count => USART1_RX_BUFF'[i] = USART1_RX_BUFF[i]
  BY <1>1
<1>3. CASE MAXLEN - 1 < count + 1
  <2>1. Restart
    BY <1>3, Zenon DEF Store
  <2> QED
    BY <1>2, <2>1, RestartKeeps
<1>4. CASE ~(MAXLEN - 1 < count + 1)
  <2>1. /\ count' = count + 1 /\ line' = Append(line, b)
        /\ gotCR' = gotCR /\ complete' = complete
    BY <1>4, Zenon DEF Store
  <2>2. line \in Seq(Data) /\ Len(line) = count /\ count \in Nat
    BY <1>1 DEF LineInv
  <2>3. /\ line' \in Seq(Data) /\ Len(line') = count + 1 /\ line'[count + 1] = b
        /\ \A i \in 1 .. count : line'[i] = line[i]
    BY <2>1, <2>2
  <2>4. count + 1 \in 0 .. MAXLEN - 1
    BY <1>1, <1>4, LineConstants
  <2>5. ASSUME NEW i \in 1 .. count + 1
        PROVE  USART1_RX_BUFF'[i - 1] = line'[i] /\ line'[i] # "CR"
    <3>1. CASE i = count + 1
      <4>1. i - 1 = count
        BY <2>2, <3>1
      <4> QED
        BY <1>2, <2>3, <3>1, <4>1, Zenon
    <3>2. CASE i # count + 1
      <4>1. i \in 1 .. count /\ i - 1 \in 0 .. MAXLEN - 1 /\ i - 1 # count
        BY <1>1, <2>2, <3>2, LineConstants
      <4>2. USART1_RX_BUFF[i - 1] = line[i] /\ line[i] # "CR"
        BY <4>1, Zenon DEF LineInv
      <4> QED
        BY <1>2, <2>3, <4>1, <4>2, Zenon
    <3> QED
      BY <3>1, <3>2
  <2> QED
    BY <1>2, <2>1, <2>3, <2>4, <2>5, Zenon DEF LineInv
<1> QED
  BY <1>3, <1>4

LEMMA LineStep == LineInv /\ [Usart1Next]_usart1Vars => LineInv'
<1> SUFFICES ASSUME LineInv, [Usart1Next]_usart1Vars PROVE LineInv'
  OBVIOUS
<1>1. CASE Usart1Next
  <2>1. PICK b \in Data : USART1_IRQHandler(b)
    BY <1>1, Zenon DEF Usart1Next, Data
  <2>2. CASE gotCR
    <3>1. AfterCR(b)
      BY <2>1, <2>2, Zenon DEF USART1_IRQHandler
    <3>2. CASE b = "LF"
      BY <2>2, <3>1, <3>2, Zenon DEF AfterCR, LineInv
    <3>3. CASE b # "LF"
      <4>1. Restart /\ USART1_RX_BUFF' \in [0 .. MAXLEN - 1 -> Data]
        BY <3>1, <3>3, Zenon DEF AfterCR, LineInv
      <4> QED
        BY <4>1, RestartKeeps
    <3> QED
      BY <3>2, <3>3
  <2>3. CASE ~gotCR /\ b = "CR"
    BY <2>1, <2>3, Zenon DEF USART1_IRQHandler, LineInv
  <2>4. CASE ~gotCR /\ b # "CR"
    <3>1. Store(b)
      BY <2>1, <2>4, Zenon DEF USART1_IRQHandler
    <3> QED
      BY <2>4, <3>1, StoreKeeps
  <2> QED
    BY <2>2, <2>3, <2>4
<1>2. CASE UNCHANGED usart1Vars
  BY <1>2, Zenon DEF usart1Vars, LineInv
<1> QED
  BY <1>1, <1>2

\* The invariant holds for every length of the buffer.
THEOREM LineInvariance == Usart1Spec => []LineInv
<1> QED
  BY LineInitial, LineStep, PTL DEF Usart1Spec

\* The count never passes the end of the buffer.
THEOREM LineTypeCorrect == Usart1Spec => []Usart1TypeOK
<1>1. LineInv => Usart1TypeOK
  BY Zenon DEF LineInv, Usart1TypeOK, Data
<1> QED
  BY <1>1, LineInvariance, PTL

\* A complete line is what was received, whole, in order and without a CR.
THEOREM LinesAreWhole == Usart1Spec => []LineWhole
<1>1. LineInv => LineWhole
  BY Zenon DEF LineInv, LineWhole
<1> QED
  BY <1>1, LineInvariance, PTL

-----------------------------------------------------------------------------
(* The CO2 sensor.                                                         *)

Byte8 == 0 .. 255

LEMMA SensorConstants ==
  /\ Reading \subseteq (0 .. 254) \X Byte8 /\ MaxLost \in Nat
  /\ FrameTail \in [1 .. 4 -> Byte8]
BY Mhz14Assumption DEF Mhz14Assumption, Byte8

\* A checksum is a byte.
LEMMA ChecksumIsByte ==
  ASSUME NEW f, \A i \in 2 .. 8 : f[i] \in Byte8
  PROVE  Checksum(f) \in Byte8
<1>1. /\ f[2] \in Byte8 /\ f[3] \in Byte8 /\ f[4] \in Byte8 /\ f[5] \in Byte8
      /\ f[6] \in Byte8 /\ f[7] \in Byte8 /\ f[8] \in Byte8
  <2>1. /\ 2 \in 2 .. 8 /\ 3 \in 2 .. 8 /\ 4 \in 2 .. 8 /\ 5 \in 2 .. 8
        /\ 6 \in 2 .. 8 /\ 7 \in 2 .. 8 /\ 8 \in 2 .. 8
    OBVIOUS
  <2> QED
    BY <2>1, Zenon
<1> DEFINE s3 == f[2] + f[3]
           s4 == s3 + f[4]
           s5 == s4 + f[5]
           s6 == s5 + f[6]
           s7 == s6 + f[7]
           s8 == s7 + f[8]
<1>2. \A x \in Nat, y \in Byte8 : x + y \in Nat
  BY DEF Byte8
<1>3. f[2] \in Nat
  BY <1>1 DEF Byte8
<1>4. s3 \in Nat
  BY <1>1, <1>2, <1>3, Zenon
<1>5. s4 \in Nat
  BY <1>1, <1>2, <1>4, Zenon
<1>6. s5 \in Nat
  BY <1>1, <1>2, <1>5, Zenon
<1>7. s6 \in Nat
  BY <1>1, <1>2, <1>6, Zenon
<1>8. s7 \in Nat
  BY <1>1, <1>2, <1>7, Zenon
<1>9. s8 \in Nat
  BY <1>1, <1>2, <1>8, Zenon
<1>10. Checksum(f) = (256 - (s8 % 256)) % 256
  BY Zenon DEF Checksum
<1> HIDE DEF s8
<1> QED
  BY <1>9, <1>10 DEF Byte8

\* A frame and a last byte.
LEMMA NineBytes ==
  ASSUME NEW S, NEW h \in Seq(S), NEW t \in Seq(S), NEW c \in S,
         Len(h) = 4, Len(t) = 4
  PROVE  \A i \in 1 .. 9 : (h \o t \o <<c>>)[i] \in S
<1> DEFINE body == h \o t
           last == <<c>>
<1>1. body \in Seq(S) /\ Len(body) = Len(h) + Len(t)
  BY ConcatProperties
<1>2. Len(body) = 8
  BY <1>1
<1>3. last \in Seq(S) /\ Len(last) = 1
  OBVIOUS
<1> HIDE DEF body, last
<1>4. body \o last \in Seq(S) /\ Len(body \o last) = Len(body) + Len(last)
  BY <1>1, <1>3, ConcatProperties
<1>5. Len(body \o last) = 9
  BY <1>2, <1>3, <1>4
<1>6. \A i \in 1 .. 9 : (body \o last)[i] \in S
  BY <1>4, <1>5, ElementOfSeq, Zenon
<1> QED
  BY <1>6 DEF body, last

\* The tail as a sequence.
LEMMA FourInSequence == FrameTail \in Seq(Byte8) /\ Len(FrameTail) = 4
<1>1. 4 \in Nat
  OBVIOUS
<1>2. FrameTail \in Seq(Byte8)
  <2>1. Seq(Byte8) = UNION {[1 .. n -> Byte8] : n \in Nat}
    BY SeqDef, Zenon
  <2>2. FrameTail \in [1 .. 4 -> Byte8]
    BY SensorConstants
  <2>3. [1 .. 4 -> Byte8] \in {[1 .. n -> Byte8] : n \in Nat}
    BY <1>1, Zenon
  <2>4. \A c : c \in {[1 .. n -> Byte8] : n \in Nat} => c \subseteq Seq(Byte8)
    BY <2>1, Zenon
  <2> QED
    BY <2>2, <2>3, <2>4, Zenon
<1>3. DOMAIN FrameTail = 1 .. Len(FrameTail) /\ Len(FrameTail) \in Nat
  BY <1>2, LenProperties
<1>4. DOMAIN FrameTail = 1 .. 4
  BY SensorConstants, Zenon
<1>5. ASSUME NEW n \in Nat, 1 .. n = 1 .. 4 PROVE n = 4
  <2>1. 4 \in 1 .. n /\ (n \in 1 .. n \/ n = 0)
    BY <1>5
  <2>2. n \in 1 .. 4 \/ n = 0
    BY <1>5, <2>1, Zenon
  <2> QED
    BY <2>1, <2>2
<1> QED
  BY <1>2, <1>3, <1>4, <1>5, Zenon

\* The sensor's frames are nine bytes.
LEMMA FrameIsBytes ==
  ASSUME NEW r \in Reading
  PROVE  \A i \in 1 .. FrameLen : Frame(r)[i] \in Byte8
<1> DEFINE head == <<255, 134, r[1], r[2]>>
<1>1. r[1] \in Byte8 /\ r[2] \in Byte8 /\ 255 \in Byte8 /\ 134 \in Byte8 /\ 0 \in Byte8
  BY SensorConstants DEF Byte8
<1>2. head \in Seq(Byte8) /\ Len(head) = 4
  BY <1>1
<1>3. FrameTail \in Seq(Byte8) /\ Len(FrameTail) = 4
  BY FourInSequence, Zenon
<1> HIDE DEF head
<1>4. \A i \in 1 .. 9 : (head \o FrameTail \o <<0>>)[i] \in Byte8
  BY <1>1, <1>2, <1>3, NineBytes
<1>5. \A i \in 2 .. 8 : i \in 1 .. 9
  OBVIOUS
<1> DEFINE c == Checksum(head \o FrameTail \o <<0>>)
<1>6. c \in Byte8
  BY <1>4, <1>5, ChecksumIsByte, Zenon
<1> HIDE DEF c
<1>7. \A i \in 1 .. 9 : (head \o FrameTail \o <<c>>)[i] \in Byte8
  BY <1>2, <1>3, <1>6, NineBytes
<1>8. Frame(r) = head \o FrameTail \o <<c>>
  BY Zenon DEF Frame, head, c
<1> QED
  BY <1>7, <1>8 DEF FrameLen

\* The inductive invariant: the losses counted in the last two frames are
\* among all losses.
SensorInv ==
  /\ revcnt \in 0 .. 8
  /\ MHZ14_RecvMeasureData \in [1 .. 9 -> Byte8]
  /\ CO2 \in Byte8 \X Byte8
  /\ sending \in Reading /\ sent \in 0 .. 9
  /\ DR = <<>> \/ \E b \in Byte8 : DR = <<b>>
  /\ lost \in 0 .. MaxLost /\ intact \in 0 .. 2
  /\ damaged \in [frame : Nat, before : Nat, byte255 : BOOLEAN]
  /\ damaged.frame + damaged.before <= lost

LEMMA SensorInitial == Mhz14Init => SensorInv
<1> SUFFICES ASSUME Mhz14Init PROVE SensorInv
  OBVIOUS
<1>1. /\ revcnt = 0 /\ sent = 0 /\ lost = 0 /\ intact = 0 /\ sending \in Reading
      /\ MHZ14_RecvMeasureData = [i \in 1 .. 9 |-> 0] /\ CO2 = <<0, 0>> /\ DR = <<>>
      /\ damaged = [frame |-> 0, before |-> 0, byte255 |-> FALSE]
  BY Zenon DEF Mhz14Init, FrameLen
<1>2. 0 \in Byte8 /\ 0 \in 0 .. 8 /\ 0 \in 0 .. 9 /\ 0 \in 0 .. MaxLost /\ 0 \in 0 .. 2
      /\ 0 \in Nat
  BY SensorConstants DEF Byte8
<1>3. damaged \in [frame : Nat, before : Nat, byte255 : BOOLEAN]
  BY <1>1, <1>2, Zenon
<1>4. damaged.frame + damaged.before <= lost
  <2>1. damaged.frame = 0 /\ damaged.before = 0
    BY <1>1
  <2>2. 0 + 0 <= 0
    OBVIOUS
  <2> QED
    BY <1>1, <2>1, <2>2, Zenon
<1> QED
  BY <1>1, <1>2, <1>3, <1>4, Zenon DEF SensorInv

LEMMA HandlerKeeps == SensorInv /\ USART3_IRQHandler => SensorInv'
<1> SUFFICES ASSUME SensorInv, USART3_IRQHandler PROVE SensorInv'
  OBVIOUS
<1> DEFINE buf == Stored(DR[1])
           n   == revcnt + 1
           bad == n = 2 /\ BadHeader(buf)
<1>1. /\ DR # <<>> /\ DR' = <<>>
      /\ revcnt' = IF bad \/ n = FrameLen THEN 0 ELSE n
      /\ MHZ14_RecvMeasureData' = IF bad THEN [i \in 1 .. FrameLen |-> 0] ELSE buf
      /\ CO2' = IF n = FrameLen /\ Accept(buf) THEN <<buf[3], buf[4]>> ELSE CO2
      /\ UNCHANGED <<sending, sent, lost, damaged, intact>>
  BY Zenon DEF USART3_IRQHandler
<1>2. PICK b \in Byte8 : DR = <<b>>
  BY <1>1, Zenon DEF SensorInv
<1>3. DR[1] = b
  BY <1>2
<1>4. buf \in [1 .. 9 -> Byte8]
  <2>1. MHZ14_RecvMeasureData \in [1 .. 9 -> Byte8]
    BY Zenon DEF SensorInv
  <2>2. [MHZ14_RecvMeasureData EXCEPT ![revcnt + 1] = b] \in [1 .. 9 -> Byte8]
    BY <2>1
  <2> QED
    BY <1>3, <2>2, Zenon DEF Stored
<1> HIDE DEF buf
<1>5. revcnt' \in 0 .. 8
  BY <1>1 DEF SensorInv, FrameLen
<1>6. 0 \in Byte8
  BY DEF Byte8
<1>7. MHZ14_RecvMeasureData' \in [1 .. 9 -> Byte8]
  BY <1>1, <1>4, <1>6, Zenon DEF FrameLen
<1>8. CO2' \in Byte8 \X Byte8
  <2>1. buf[3] \in Byte8 /\ buf[4] \in Byte8
    BY <1>4
  <2> QED
    BY <1>1, <2>1, Zenon DEF SensorInv
<1> QED
  BY <1>1, <1>5, <1>7, <1>8, Zenon DEF SensorInv

LEMMA ByteKeeps == SensorInv /\ SensorByte => SensorInv'
<1> SUFFICES ASSUME SensorInv, SensorByte PROVE SensorInv'
  OBVIOUS
<1> DEFINE b == Frame(sending)[sent + 1]
<1>1. /\ sent < 9 /\ sent' = sent + 1
      /\ UNCHANGED <<revcnt, MHZ14_RecvMeasureData, CO2, sending>>
  BY Zenon DEF SensorByte, FrameLen
<1>2. sent' \in 0 .. 9 /\ sent + 1 \in 1 .. FrameLen
  BY <1>1 DEF SensorInv, FrameLen
<1>3. b \in Byte8
  BY <1>2, FrameIsBytes, Zenon DEF SensorInv
<1>4. CASE DR = <<>>
  <2>1. DR' = <<b>> /\ UNCHANGED <<lost, damaged, intact>>
    BY <1>4, Zenon DEF SensorByte
  <2> HIDE DEF b
  <2> QED
    BY <1>1, <1>2, <1>3, <2>1, Zenon DEF SensorInv
<1>5. CASE DR # <<>>
  <2>1. /\ lost < MaxLost /\ lost' = lost + 1 /\ damaged' = Damage(b)
        /\ intact' = 0 /\ DR' = DR
    BY <1>5, Zenon DEF SensorByte
  <2> HIDE DEF b
  <2>2. lost' \in 0 .. MaxLost /\ 0 \in 0 .. 2
    BY <2>1, SensorConstants DEF SensorInv
  <2> DEFINE v == damaged.byte255 \/ (b = 255 /\ sent # 0)
             d == [damaged EXCEPT !.frame = @ + 1]
             e == [d EXCEPT !.byte255 = v]
  <2>3. damaged \in [frame : Nat, before : Nat, byte255 : BOOLEAN]
        /\ damaged.frame + damaged.before <= lost
    BY Zenon DEF SensorInv
  <2>4. d \in [frame : Nat, before : Nat, byte255 : BOOLEAN]
        /\ d.frame = damaged.frame + 1 /\ d.before = damaged.before
        /\ d.byte255 = damaged.byte255
    BY <2>3
  <2>5. damaged' = e
    BY <2>1, <2>4, Zenon DEF Damage
  <2> HIDE DEF d
  <2>6. v \in BOOLEAN
    BY Zenon
  <2> HIDE DEF v
  <2>7. e \in [frame : Nat, before : Nat, byte255 : BOOLEAN]
        /\ e.frame = d.frame /\ e.before = d.before
    BY <2>4, <2>6
  <2> HIDE DEF e
  <2>8. e.frame + e.before <= lost + 1
    <3> DEFINE x == damaged.frame
               y == damaged.before
    <3> HIDE DEF x, y
    <3>1. x \in Nat /\ y \in Nat /\ lost \in Nat /\ x + y <= lost
      BY <2>3 DEF SensorInv, x, y
    <3>2. (x + 1) + y <= lost + 1
      BY <3>1
    <3>3. e.frame = x + 1 /\ e.before = y
      BY <2>4, <2>7, Zenon DEF x, y
    <3> QED
      BY <3>2, <3>3, Zenon
  <2> QED
    BY <1>1, <1>2, <2>1, <2>2, <2>5, <2>7, <2>8, Zenon DEF SensorInv
<1> QED
  BY <1>4, <1>5

LEMMA FrameKeeps ==
  ASSUME SensorInv, NEW r \in Reading, SensorFrame(r)
  PROVE  SensorInv'
<1> DEFINE d == [damaged EXCEPT !.before = damaged.frame]
           e == [d EXCEPT !.frame = 0]
<1>1. /\ sent' = 0 /\ sending' = r /\ damaged' = e
      /\ intact' = IF damaged.frame = 0 /\ intact < 2 THEN intact + 1 ELSE intact
      /\ UNCHANGED <<revcnt, MHZ14_RecvMeasureData, CO2, DR, lost>>
  BY Zenon DEF SensorFrame
<1>2. damaged \in [frame : Nat, before : Nat, byte255 : BOOLEAN]
      /\ damaged.frame + damaged.before <= lost /\ lost \in 0 .. MaxLost
  BY Zenon DEF SensorInv
<1>3. d \in [frame : Nat, before : Nat, byte255 : BOOLEAN] /\ d.before = damaged.frame
  BY <1>2
<1> HIDE DEF d
<1>4. e \in [frame : Nat, before : Nat, byte255 : BOOLEAN]
      /\ e.frame = 0 /\ e.before = d.before
  BY <1>3
<1> HIDE DEF e
<1>5. e.frame + e.before <= lost
  <2> DEFINE x == damaged.frame
             y == damaged.before
  <2> HIDE DEF x, y
  <2>1. x \in Nat /\ y \in Nat /\ lost \in Nat /\ x + y <= lost
    BY <1>2, SensorConstants DEF x, y
  <2>2. 0 + x <= lost
    BY <2>1
  <2>3. e.frame = 0 /\ e.before = x
    BY <1>3, <1>4, Zenon DEF x
  <2> QED
    BY <2>2, <2>3, Zenon
<1>6. intact' \in 0 .. 2
  BY <1>1 DEF SensorInv
<1>7. 0 \in 0 .. 9
  OBVIOUS
<1> QED
  BY <1>1, <1>4, <1>5, <1>6, <1>7, Zenon DEF SensorInv

LEMMA SensorStep == SensorInv /\ [Mhz14Step]_mhz14Vars => SensorInv'
<1> SUFFICES ASSUME SensorInv, [Mhz14Step]_mhz14Vars PROVE SensorInv'
  OBVIOUS
<1>1. CASE UNCHANGED mhz14Vars
  BY <1>1, Zenon DEF mhz14Vars, SensorInv
<1>2. ASSUME NEW r \in Reading, SensorFrame(r) PROVE SensorInv'
  BY <1>2, FrameKeeps
<1> QED
  BY <1>1, <1>2, HandlerKeeps, ByteKeeps, Zenon DEF Mhz14Step

\* Whatever the sensor sends and however many bytes are lost, the count stays
\* within the nine bytes of the buffer and what is published is two bytes.
THEOREM SensorTypeCorrect == Mhz14Spec => []Mhz14TypeOK
<1>1. SensorInv => Mhz14TypeOK
  <2> SUFFICES ASSUME SensorInv PROVE Mhz14TypeOK
    OBVIOUS
  <2>1. revcnt \in 0 .. FrameLen - 1
    BY DEF SensorInv, FrameLen
  <2>2. DR \in {<<>>} \cup {<<b>> : b \in 0 .. 255}
    BY Zenon DEF SensorInv, Byte8
  <2>3. damaged \in [frame : 0 .. MaxLost, before : 0 .. MaxLost, byte255 : BOOLEAN]
    <3>1. damaged \in [frame : Nat, before : Nat, byte255 : BOOLEAN]
          /\ damaged.frame + damaged.before <= lost /\ lost \in 0 .. MaxLost
      BY Zenon DEF SensorInv
    <3>2. damaged.frame \in 0 .. MaxLost /\ damaged.before \in 0 .. MaxLost
      BY <3>1, SensorConstants
    <3> QED
      BY <3>1, <3>2
  <2>4. MHZ14_RecvMeasureData \in [1 .. FrameLen -> 0 .. 255] /\ sent \in 0 .. FrameLen
    BY Zenon DEF SensorInv, FrameLen, Byte8
  <2> QED
    BY <2>1, <2>2, <2>3, <2>4, Zenon DEF SensorInv, Mhz14TypeOK, Byte8
<1> QED
  BY <1>1, SensorInitial, SensorStep, PTL DEF Mhz14Spec

\* The run's invariant, for a buffer of any length and any bytes.
THEOREM LineIsSound == Usart1Spec => []LineSound
<1>1. Usart1TypeOK /\ LineWhole => LineSound
  BY DEF LineSound
<1> QED
  BY <1>1, LineTypeCorrect, LinesAreWhole, PTL

-----------------------------------------------------------------------------
(* How the sensor's receiver finds back into step.                         *)

\* The bytes of a header, a tail and a last byte.
NineAre(h, t, c, whole) ==
  /\ \A i \in 1 .. 4 : whole[i] = h[i]
  /\ \A i \in 5 .. 8 : whole[i] = t[i - 4]
  /\ whole[9] = c

LEMMA NineParts ==
  ASSUME NEW S, NEW h \in Seq(S), NEW t \in Seq(S), NEW c \in S,
         Len(h) = 4, Len(t) = 4
  PROVE  NineAre(h, t, c, h \o t \o <<c>>)
<1> DEFINE body == h \o t
           last == <<c>>
<1>1. /\ body \in Seq(S) /\ Len(body) = Len(h) + Len(t)
      /\ \A i \in 1 .. Len(h) + Len(t) :
            body[i] = IF i <= Len(h) THEN h[i] ELSE t[i - Len(h)]
  BY ConcatProperties
<1>2. last \in Seq(S) /\ Len(last) = 1 /\ last[1] = c
  OBVIOUS
<1> HIDE DEF body, last
<1>3. /\ Len(body) = 8
      /\ \A i \in 1 .. 4 : body[i] = h[i]
      /\ \A i \in 5 .. 8 : body[i] = t[i - 4]
  BY <1>1
<1>4. \A i \in 1 .. Len(body) + Len(last) :
         (body \o last)[i] = IF i <= Len(body) THEN body[i] ELSE last[i - Len(body)]
  <2>1. body \in Seq(S) /\ last \in Seq(S)
    BY <1>1, <1>2
  <2> QED
    BY <2>1, ConcatProperties
<1>5. \A i \in 1 .. 9 : (body \o last)[i] = IF i <= 8 THEN body[i] ELSE last[i - 8]
  <2>1. Len(body) = 8 /\ Len(last) = 1 /\ 8 + 1 = 9
    BY <1>2, <1>3
  <2> QED
    BY <1>4, <2>1, Zenon
<1>6. /\ \A i \in 1 .. 4 : (body \o last)[i] = body[i]
      /\ \A i \in 5 .. 8 : (body \o last)[i] = body[i]
      /\ (body \o last)[9] = last[1]
  <2> DEFINE whole == body \o last
  <2>1. \A i \in 1 .. 9 : whole[i] = IF i <= 8 THEN body[i] ELSE last[i - 8]
    BY <1>5
  <2> HIDE DEF whole
  <2>2. /\ \A i \in 1 .. 4 : whole[i] = body[i]
        /\ \A i \in 5 .. 8 : whole[i] = body[i]
        /\ whole[9] = last[1]
    BY <2>1
  <2> QED
    BY <2>2, Zenon DEF whole
<1>7. /\ \A i \in 1 .. 4 : (body \o last)[i] = h[i]
      /\ \A i \in 5 .. 8 : (body \o last)[i] = t[i - 4]
      /\ (body \o last)[9] = c
  BY <1>2, <1>3, <1>6, Zenon
<1> QED
  BY <1>7, Zenon DEF body, last, NineAre

\* A checksum is that of bytes 1 to 7.
LEMMA ChecksumOfBytes ==
  ASSUME NEW f, NEW g, \A i \in 2 .. 8 : f[i] = g[i]
  PROVE  Checksum(f) = Checksum(g)
<1>1. /\ 2 \in 2 .. 8 /\ 3 \in 2 .. 8 /\ 4 \in 2 .. 8 /\ 5 \in 2 .. 8
      /\ 6 \in 2 .. 8 /\ 7 \in 2 .. 8 /\ 8 \in 2 .. 8
  OBVIOUS
<1>2. /\ f[2] = g[2] /\ f[3] = g[3] /\ f[4] = g[4] /\ f[5] = g[5]
      /\ f[6] = g[6] /\ f[7] = g[7] /\ f[8] = g[8]
  BY <1>1, Zenon
<1> QED
  BY <1>2, Zenon DEF Checksum

\* The frame byte by byte.
LEMMA FrameParts ==
  ASSUME NEW r \in Reading
  PROVE  /\ Frame(r)[1] = 255 /\ Frame(r)[2] = 134
         /\ Frame(r)[3] = r[1] /\ Frame(r)[4] = r[2]
         /\ \A i \in 5 .. 8 : Frame(r)[i] = FrameTail[i - 4]
         /\ Frame(r)[9] = Checksum(Frame(r))
<1> DEFINE head == <<255, 134, r[1], r[2]>>
<1>1. r[1] \in Byte8 /\ r[2] \in Byte8 /\ 255 \in Byte8 /\ 134 \in Byte8 /\ 0 \in Byte8
  BY SensorConstants DEF Byte8
<1>2. /\ head \in Seq(Byte8) /\ Len(head) = 4
      /\ head[1] = 255 /\ head[2] = 134 /\ head[3] = r[1] /\ head[4] = r[2]
  BY <1>1
<1>3. FrameTail \in Seq(Byte8) /\ Len(FrameTail) = 4
  BY FourInSequence, Zenon
<1> HIDE DEF head
<1> DEFINE P(x) == head \o FrameTail \o <<x>>
<1>4. ASSUME NEW x \in Byte8
      PROVE  /\ \A i \in 1 .. 9 : P(x)[i] \in Byte8
             /\ \A i \in 1 .. 4 : P(x)[i] = head[i]
             /\ \A i \in 5 .. 8 : P(x)[i] = FrameTail[i - 4]
             /\ P(x)[9] = x
  <2>0. head \in Seq(Byte8) /\ Len(head) = 4 /\ x \in Byte8
    BY <1>2
  <2>1. NineAre(head, FrameTail, x, head \o FrameTail \o <<x>>)
    BY <1>3, <2>0, NineParts, Zenon
  <2>2. \A i \in 1 .. 9 : (head \o FrameTail \o <<x>>)[i] \in Byte8
    BY <1>3, <2>0, NineBytes
  <2> QED
    BY <2>1, <2>2, Zenon DEF NineAre
<1> HIDE DEF P
<1> DEFINE zero == P(0)
           c == Checksum(zero)
           whole == P(c)
<1>5. Frame(r) = whole
  BY Zenon DEF Frame, P, head
<1>6. c \in Byte8
  <2>1. \A i \in 1 .. 9 : zero[i] \in Byte8
    BY <1>1, <1>4, Zenon
  <2>2. \A i \in 2 .. 8 : i \in 1 .. 9
    OBVIOUS
  <2> HIDE DEF zero
  <2> QED
    BY <2>1, <2>2, ChecksumIsByte, Zenon
<1> HIDE DEF c
<1>7. /\ \A i \in 1 .. 4 : whole[i] = head[i] /\ zero[i] = head[i]
      /\ \A i \in 5 .. 8 : whole[i] = FrameTail[i - 4] /\ zero[i] = FrameTail[i - 4]
      /\ whole[9] = c
  BY <1>1, <1>4, <1>6, Zenon
<1> HIDE DEF zero, whole
<1>8. \A i \in 2 .. 8 : zero[i] = whole[i]
  BY <1>7
<1>9. c = Checksum(whole)
  BY <1>8, ChecksumOfBytes, Zenon DEF c
<1> QED
  BY <1>2, <1>5, <1>7, <1>9

\* No byte of the tail can be taken for the start of a header.
TailNeverHeads == FrameTail[1] # 134 /\ \A i \in 1 .. 4 : FrameTail[i] # 255

\* Inside a frame no two bytes look like a header.
LEMMA NoHeaderInside ==
  ASSUME TailNeverHeads, NEW r \in Reading, NEW k \in 2 .. 8
  PROVE  Frame(r)[k] # 255 \/ Frame(r)[k + 1] # 134
<1>1. /\ Frame(r)[2] = 134 /\ Frame(r)[3] = r[1]
      /\ \A i \in 5 .. 8 : Frame(r)[i] = FrameTail[i - 4]
  BY FrameParts
<1> DEFINE f == Frame(r)
<1> HIDE DEF f
<1>2. CASE k = 2
  BY <1>1, <1>2 DEF f
<1>3. CASE k = 3
  <2>1. r[1] # 255
    BY SensorConstants
  <2> QED
    BY <1>1, <1>3, <2>1, Zenon
<1>4. CASE k = 4
  <2>1. 4 + 1 \in 5 .. 8 /\ 4 + 1 - 4 = 1
    OBVIOUS
  <2>2. f[4 + 1] = FrameTail[1]
    BY <1>1, <2>1 DEF f
  <2> QED
    BY <1>4, <2>2, Zenon DEF f, TailNeverHeads
<1>5. CASE k \in 5 .. 8
  <2>1. k - 4 \in 1 .. 4
    BY <1>5
  <2>2. f[k] = FrameTail[k - 4]
    BY <1>1, <1>5, Zenon DEF f
  <2>3. FrameTail[k - 4] # 255
    <3>1. \A i \in 1 .. 4 : FrameTail[i] # 255
      BY Zenon DEF TailNeverHeads
    <3> QED
      BY <2>1, <3>1
  <2> QED
    BY <2>2, <2>3 DEF f
<1> QED
  BY <1>2, <1>3, <1>4, <1>5

\* The bytes of the present frame the handler has seen.
Handled == IF DR = <<>> THEN sent ELSE sent - 1
\* The bytes of that frame.
Byte1(k) == Frame(sending)[k]

\* The receiver counts with the sensor.
Aligned(r) ==
  /\ revcnt = IF r = 9 THEN 0 ELSE r
  /\ r < 9 => \A i \in 1 .. r : MHZ14_RecvMeasureData[i] = Byte1(i)

\* It drops the bytes in pairs, none of which is a header.
Pairs(r) ==
  /\ r >= 1 /\ revcnt \in {0, 1}
  /\ revcnt = 1 => r >= 2 /\ MHZ14_RecvMeasureData[1] = Byte1(r)

\* Where it can be after r bytes of a frame that arrives whole: in the first
\* such frame anywhere ahead of the sensor too, in the second off by one at
\* most, from the third on only in step.
InStep(r) ==
  \/ Aligned(r) /\ (intact = 2 /\ r = 9 => CO2 = sending)
  \/ intact < 2 /\ Pairs(r) /\ (intact = 1 => revcnt = (r - 1) % 2)
  \/ intact = 0 /\ revcnt > r
  \/ intact = 1 /\ r = 0 /\ revcnt = 1

\* The inductive invariant.
SyncInv ==
  /\ DR # <<>> => sent >= 1 /\ (damaged.frame = 0 => DR[1] = Byte1(sent))
  /\ damaged.frame > 0 => intact = 0
  /\ damaged.frame = 0 => InStep(Handled)

\* It holds at the start.
LEMMA SyncInitial == Mhz14Init => SyncInv
<1> SUFFICES ASSUME Mhz14Init PROVE SyncInv
  OBVIOUS
<1>1. /\ revcnt = 0 /\ sent = 0 /\ intact = 0 /\ DR = <<>>
      /\ damaged = [frame |-> 0, before |-> 0, byte255 |-> FALSE]
  BY Zenon DEF Mhz14Init
<1>2. damaged.frame = 0 /\ Handled = 0
  BY <1>1 DEF Handled
<1>3. Aligned(0)
  BY <1>1 DEF Aligned
<1>4. InStep(0)
  BY <1>1, <1>3, Zenon DEF InStep
<1>5. ~(0 > 0)
  OBVIOUS
<1> QED
  BY <1>1, <1>2, <1>4, <1>5, Zenon DEF SyncInv

\* What one run of the handler does with byte r + 1 of a whole frame.
LEMMA HandlerInStep ==
  ASSUME TailNeverHeads, SensorInv, USART3_IRQHandler,
         NEW r \in 0 .. 8, NEW m \in 1 .. 9, m = r + 1,
         DR[1] = Byte1(m), InStep(r)
  PROVE  InStep(m)'
<1> DEFINE b == DR[1]
           buf == Stored(DR[1])
           n   == revcnt + 1
           bad == n = 2 /\ BadHeader(buf)
<1>1. /\ revcnt' = IF bad \/ n = 9 THEN 0 ELSE n
      /\ MHZ14_RecvMeasureData' = IF bad THEN [i \in 1 .. 9 |-> 0] ELSE buf
      /\ CO2' = IF n = 9 /\ Accept(buf) THEN <<buf[3], buf[4]>> ELSE CO2
      /\ sending' = sending /\ intact' = intact
  BY Zenon DEF USART3_IRQHandler, FrameLen
<1>2. /\ revcnt \in 0 .. 8 /\ MHZ14_RecvMeasureData \in [1 .. 9 -> Byte8]
      /\ sending \in Reading /\ intact \in 0 .. 2
  BY Zenon DEF SensorInv
<1>3. /\ \A i \in 1 .. 9 : i # n => buf[i] = MHZ14_RecvMeasureData[i]
      /\ buf[n] = b
  BY <1>2 DEF Stored
<1> DEFINE F == Frame(sending)
<1>4. b = F[m]
  BY Zenon DEF Byte1
<1>5. /\ F[1] = 255 /\ F[2] = 134 /\ F[3] = sending[1] /\ F[4] = sending[2]
      /\ F[9] = Checksum(F)
  BY <1>2, FrameParts
<1> DEFINE F2 == Frame(sending)'
<1>6. F2 = F
  BY <1>1, Zenon
<1>7. BadHeader(buf) <=> buf[1] # 255 \/ buf[2] # 134
  BY Zenon DEF BadHeader
<1> HIDE DEF buf, b, F
<1>8. CASE Aligned(r) /\ revcnt = r
  <2>1. \A i \in 1 .. r : MHZ14_RecvMeasureData[i] = F[i]
    BY <1>8, r < 9 DEF Aligned, Byte1, F
  <2>2. \A i \in 1 .. m : buf[i] = F[i]
    BY <1>3, <1>4, <1>8, <2>1
  <2>3. ~bad
    <3>1. CASE n = 2
      <4>1. buf[1] = 255 /\ buf[2] = 134
        BY <1>5, <1>8, <2>2, <3>1
      <4> QED
        BY <1>7, <4>1, Zenon
    <3> QED
      BY <3>1, Zenon
  <2>4. CASE r = 8
    <3>1. \A i \in 1 .. 9 : buf[i] = F[i]
      BY <2>2, <2>4
    <3>2. \A i \in 2 .. 8 : buf[i] = F[i]
      BY <3>1
    <3>3. Checksum(buf) = Checksum(F)
      BY <3>2, ChecksumOfBytes, Zenon
    <3>4. 9 \in 1 .. 9 /\ 3 \in 1 .. 9 /\ 4 \in 1 .. 9
      OBVIOUS
    <3>5. Accept(buf)
      BY <1>5, <3>1, <3>3, <3>4, Zenon DEF Accept
    <3>6. CO2' = <<sending[1], sending[2]>>
      <4>1. n = 9
        BY <1>8, <2>4
      <4> QED
        BY <1>1, <1>5, <3>1, <3>4, <3>5, <4>1, Zenon
    <3>7. sending = <<sending[1], sending[2]>>
      BY <1>2, SensorConstants
    <3>8. CO2' = sending'
      BY <1>1, <3>6, <3>7, Zenon
    <3>9. revcnt' = 0 /\ m = 9
      BY <1>1, <1>8, <2>4
    <3>10. Aligned(m)'
      BY <3>9 DEF Aligned
    <3> QED
      BY <3>8, <3>10, Zenon DEF InStep
  <2>5. CASE r # 8
    <3>1. revcnt' = m /\ m # 9 /\ MHZ14_RecvMeasureData' = buf
      BY <1>1, <1>8, <2>3, <2>5
    <3>2. \A i \in 1 .. m : MHZ14_RecvMeasureData'[i] = F2[i]
      BY <1>6, <2>2, <3>1, Zenon
    <3>3. Aligned(m)'
      BY <3>1, <3>2, Zenon DEF Aligned, Byte1
    <3> QED
      BY <3>1, <3>3, Zenon DEF InStep
  <2> QED
    BY <2>4, <2>5
<1>9. CASE intact < 2 /\ Pairs(r) /\ (intact = 1 => revcnt = (r - 1) % 2)
  <2>1. r >= 1 /\ revcnt \in {0, 1}
        /\ (revcnt = 1 => r >= 2 /\ MHZ14_RecvMeasureData[1] = F[r])
    BY <1>9, Zenon DEF Pairs, Byte1, F
  <2>2. CASE revcnt = 0
    <3>1. n = 1 /\ ~bad /\ revcnt' = 1 /\ MHZ14_RecvMeasureData' = buf
      BY <1>1, <2>2
    <3>2. MHZ14_RecvMeasureData'[1] = F2[m]
      BY <1>3, <1>4, <1>6, <3>1, Zenon
    <3>3. m >= 1 /\ m >= 2 /\ 1 \in {0, 1}
      BY <2>1
    <3>4. Pairs(m)'
      BY <3>1, <3>2, <3>3, Zenon DEF Pairs, Byte1
    <3>5. intact' = 1 => revcnt' = (m - 1) % 2
      BY <1>1, <1>9, <2>2, <3>1
    <3> QED
      BY <1>1, <1>9, <3>1, <3>4, <3>5, Zenon DEF InStep
  <2>3. CASE revcnt = 1
    <3>1. r \in 2 .. 8
      BY <2>1, <2>3
    <3>2. buf[1] = F[r] /\ buf[2] = F[m]
      BY <1>3, <1>4, <2>1, <2>3
    <3>3. bad
      <4>1. F[r] # 255 \/ F[r + 1] # 134
        BY <1>2, <3>1, NoHeaderInside DEF F
      <4>2. n = 2
        BY <2>3
      <4> QED
        BY <1>7, <3>2, <4>1, <4>2
    <3>4. revcnt' = 0
      BY <1>1, <3>3, Zenon
    <3>5. m >= 1 /\ 0 \in {0, 1} /\ 0 # 1
      BY <2>1
    <3>6. Pairs(m)'
      BY <3>4, <3>5, Zenon DEF Pairs
    <3>7. intact' = 1 => revcnt' = (m - 1) % 2
      BY <1>1, <1>9, <2>3, <3>4
    <3> QED
      BY <1>1, <1>9, <3>4, <3>6, <3>7, Zenon DEF InStep
  <2> QED
    BY <2>1, <2>2, <2>3, Zenon
<1>10. CASE intact \in {0, 1} /\ r = 0 /\ revcnt = 1
  <2>1. buf[2] = 255 /\ n = 2
    BY <1>3, <1>4, <1>5, <1>10
  <2>2. bad
    <3>1. buf[2] # 134
      BY <2>1
    <3> QED
      BY <1>7, <2>1, <3>1
  <2>3. revcnt' = 0
    BY <1>1, <2>2, Zenon
  <2>4. m >= 1 /\ 0 \in {0, 1} /\ 0 # 1 /\ (m - 1) % 2 = 0 /\ intact < 2
    BY <1>10
  <2>5. Pairs(m)'
    BY <2>3, <2>4, Zenon DEF Pairs
  <2> QED
    BY <1>1, <2>3, <2>4, <2>5, Zenon DEF InStep
<1>11. CASE intact = 0 /\ revcnt > r /\ ~(r = 0 /\ revcnt = 1)
  <2>1. CASE n = 9
    <3>1. revcnt' = 0
      BY <1>1, <2>1, Zenon
    <3>2. m >= 1 /\ 0 \in {0, 1} /\ 0 # 1 /\ 0 < 2
      OBVIOUS
    <3>3. Pairs(m)'
      BY <3>1, <3>2, Zenon DEF Pairs
    <3> QED
      BY <1>1, <1>11, <3>2, <3>3, Zenon DEF InStep
  <2>2. CASE n # 9
    <3>1. n # 2
      BY <1>2, <1>11
    <3>2. revcnt' > m
      BY <1>1, <1>2, <1>11, <2>2, <3>1
    <3> QED
      BY <1>1, <1>11, <3>2, Zenon DEF InStep
  <2> QED
    BY <2>1, <2>2
<1>12. r # 9
  OBVIOUS
<1>13. (Aligned(r) => revcnt = r) /\ (intact = 0 => intact \in {0, 1})
       /\ (intact = 1 => intact \in {0, 1})
  BY <1>12, Zenon DEF Aligned
<1> QED
  BY <1>8, <1>9, <1>10, <1>11, <1>13, Zenon DEF InStep

\* A step keeps it.
LEMMA SyncStep ==
  ASSUME TailNeverHeads, SensorInv, SyncInv, [Mhz14Step]_mhz14Vars
  PROVE  SyncInv'
<1> DEFINE d == damaged.frame
<1>1. /\ damaged \in [frame : Nat, before : Nat, byte255 : BOOLEAN]
      /\ sent \in 0 .. 9 /\ (DR = <<>> \/ \E b \in Byte8 : DR = <<b>>)
      /\ intact \in 0 .. 2 /\ revcnt \in 0 .. 8
  BY Zenon DEF SensorInv
<1>2. d \in Nat
  BY <1>1
<1>3. /\ DR # <<>> => sent >= 1 /\ (d = 0 => DR[1] = Byte1(sent))
      /\ d > 0 => intact = 0
      /\ d = 0 => InStep(Handled)
  BY Zenon DEF SyncInv
<1>4. CASE UNCHANGED mhz14Vars
  <2>1. UNCHANGED <<revcnt, MHZ14_RecvMeasureData, CO2, sending, sent, DR, damaged, intact>>
    BY <1>4, Zenon DEF mhz14Vars
  <2> QED
    BY <2>1, Zenon DEF SyncInv, InStep, Aligned, Pairs, Handled, Byte1
<1>5. CASE USART3_IRQHandler
  <2>1. DR # <<>> /\ DR' = <<>> /\ UNCHANGED <<sending, sent, lost, damaged, intact>>
    BY <1>5, Zenon DEF USART3_IRQHandler
  <2>2. PICK r \in 0 .. 8 : sent = r + 1 /\ sent - 1 = r
    <3>1. sent - 1 \in 0 .. 8 /\ sent = (sent - 1) + 1
      BY <1>1, <1>3, <2>1
    <3> QED
      BY <3>1, Zenon
  <2> DEFINE m == r + 1
  <2>3. Handled = r /\ Handled' = m
    BY <2>1, <2>2, Zenon DEF Handled
  <2> HIDE DEF m
  <2>4. CASE d = 0
    <3>1. InStep(r) /\ DR[1] = Byte1(m)
      BY <1>3, <2>1, <2>2, <2>3, <2>4, Zenon DEF m
    <3>2. m \in 1 .. 9 /\ m = r + 1
      BY DEF m
    <3>5. \A k \in 1 .. 9 : k = r + 1 /\ DR[1] = Byte1(k) => InStep(k)'
      BY <1>5, <3>1, HandlerInStep, Zenon
    <3>3. ~(0 > 0)
      OBVIOUS
    <3>4. InStep(Handled)'
      <4>1. PICK k \in 1 .. 9 : k = m
        BY <3>2, Zenon
      <4>2. InStep(k)'
        BY <3>1, <3>2, <3>5, <4>1, Zenon
      <4> QED
        BY <2>3, <4>1, <4>2, Zenon DEF InStep, Aligned, Pairs, Byte1
    <3> QED
      BY <2>1, <2>4, <3>3, <3>4, Zenon DEF SyncInv
  <2>5. CASE d # 0
    BY <1>2, <1>3, <2>1, <2>5, Zenon DEF SyncInv
  <2> QED
    BY <2>4, <2>5
<1>6. CASE SensorByte
  <2>1. /\ sent < 9 /\ sent' = sent + 1
        /\ UNCHANGED <<revcnt, MHZ14_RecvMeasureData, CO2, sending>>
    BY <1>6, Zenon DEF SensorByte, FrameLen
  <2>2. sent' >= 1 /\ sent' - 1 = sent
    BY <1>1, <2>1
  <2>3. CASE DR = <<>>
    <3>1. DR' = <<Frame(sending)[sent + 1]>> /\ UNCHANGED <<lost, damaged, intact>>
      BY <1>6, <2>3, Zenon DEF SensorByte
    <3> DEFINE b == Frame(sending)[sent + 1]
    <3> HIDE DEF b
    <3>2. DR' = <<b>>
      BY <3>1 DEF b
    <3>3. DR' # <<>> /\ DR'[1] = b
      BY <3>2
    <3>4. DR'[1] = Byte1(sent)'
      BY <2>1, <3>3, Zenon DEF Byte1, b
    <3>5. Handled' = Handled
      BY <2>2, <2>3, <3>3, Zenon DEF Handled
    <3>6. InStep(Handled) => InStep(Handled)'
      BY <2>1, <3>1, <3>5, Zenon DEF InStep, Aligned, Pairs, Byte1
    <3> QED
      BY <1>3, <2>2, <3>1, <3>4, <3>6, Zenon DEF SyncInv
  <2>4. CASE DR # <<>>
    <3>1. damaged' = Damage(Frame(sending)[sent + 1]) /\ intact' = 0 /\ DR' = DR
      BY <1>6, <2>4, Zenon DEF SensorByte
    <3>2. damaged'.frame = d + 1
      BY <1>1, <3>1 DEF Damage
    <3>3. damaged'.frame # 0
      BY <1>2, <3>2
    <3> QED
      BY <2>2, <3>1, <3>3, Zenon DEF SyncInv
  <2> QED
    BY <2>3, <2>4
<1>7. ASSUME NEW s \in Reading, SensorFrame(s)
      PROVE  SyncInv'
  <2>1. /\ sent = 9 /\ DR = <<>> /\ sent' = 0 /\ DR' = <<>> /\ sending' = s
        /\ damaged' = [damaged EXCEPT !.before = damaged.frame, !.frame = 0]
        /\ intact' = IF d = 0 /\ intact < 2 THEN intact + 1 ELSE intact
        /\ UNCHANGED <<revcnt, MHZ14_RecvMeasureData, CO2>>
    BY <1>7, Zenon DEF SensorFrame, FrameLen
  <2>2. damaged'.frame = 0
    BY <1>1, <2>1
  <2>3. Handled = 9 /\ Handled' = 0
    BY <2>1, Zenon DEF Handled
  <2>4. CASE revcnt = 0
    <3>1. Aligned(0)'
      <4>1. 0 # 9 /\ \A i \in 1 .. 0 : FALSE
        OBVIOUS
      <4> QED
        BY <2>1, <2>4, <4>1, Zenon DEF Aligned
    <3>2. InStep(0)'
      <4>1. 0 # 9
        OBVIOUS
      <4> QED
        BY <3>1, <4>1, Zenon DEF InStep
    <3>3. InStep(Handled)'
      BY <2>3, <3>2, Zenon DEF InStep, Aligned, Pairs, Byte1
    <3>4. ~(0 > 0)
      OBVIOUS
    <3> QED
      BY <2>1, <2>2, <3>3, <3>4, Zenon DEF SyncInv
  <2>5. CASE revcnt # 0
    <3>1. (intact' = 0 /\ revcnt' > 0) \/ (intact' = 1 /\ revcnt' = 1)
      <4>1. CASE d # 0
        BY <1>1, <1>2, <1>3, <2>1, <2>5, <4>1
      <4>2. CASE d = 0
        <5>1. InStep(9)
          BY <1>3, <2>3, <4>2, Zenon
        <5>2. ~Aligned(9)
          BY <2>5, Zenon DEF Aligned
        <5>3. ~(revcnt > 9)
          BY <1>1
        <5>4. (9 - 1) % 2 = 0 /\ 9 # 0
          OBVIOUS
        <5>5. intact < 2 /\ Pairs(9) /\ (intact = 1 => revcnt = 0)
          BY <5>1, <5>2, <5>3, <5>4, Zenon DEF InStep
        <5>6. revcnt = 1
          BY <2>5, <5>5, Zenon DEF Pairs
        <5>7. intact = 0
          BY <1>1, <5>5, <2>5
        <5> QED
          BY <2>1, <4>2, <5>6, <5>7
      <4> QED
        BY <4>1, <4>2
    <3>2. InStep(0)'
      BY <3>1, Zenon DEF InStep
    <3>3. InStep(Handled)'
      BY <2>3, <3>2, Zenon DEF InStep, Aligned, Pairs, Byte1
    <3>4. ~(0 > 0)
      OBVIOUS
    <3> QED
      BY <2>1, <2>2, <3>3, <3>4, Zenon DEF SyncInv
  <2> QED
    BY <2>4, <2>5
<1> QED
  BY <1>4, <1>5, <1>6, <1>7, Zenon DEF Mhz14Step

\* Two whole frames after a loss the receiver is in step with the sensor again
\* and publishes what the sensor sent, as long as nothing in a tail looks like
\* the start of a header (usart3.c:91).
THEOREM SensorResynchronises ==
  TailNeverHeads => (Mhz14Spec => []ReceiverSound)
<1> SUFFICES ASSUME TailNeverHeads PROVE Mhz14Spec => []ReceiverSound
  OBVIOUS
<1>1. SensorInv /\ SyncInv /\ [Mhz14Step]_mhz14Vars => (SensorInv /\ SyncInv)'
  BY SensorStep, SyncStep
<1>2. SensorInv /\ SyncInv => Resynchronises
  <2> SUFFICES ASSUME SensorInv, SyncInv, intact = 2, damaged.frame = 0,
                      sent = FrameLen, DR = <<>>
               PROVE  CO2 = sending
    BY Zenon DEF Resynchronises
  <2>1. Handled = 9 /\ InStep(Handled)
    BY Zenon DEF Handled, SyncInv, FrameLen
  <2>2. ~(intact < 2) /\ intact # 0 /\ intact # 1
    OBVIOUS
  <2> QED
    BY <2>1, <2>2, Zenon DEF InStep
<1>3. Mhz14Spec => []Mhz14TypeOK
  BY SensorTypeCorrect
<1>4. Mhz14TypeOK /\ Resynchronises => ReceiverSound
  BY Zenon DEF ReceiverSound
<1> QED
  BY <1>1, <1>2, <1>3, <1>4, SensorInitial, SyncInitial, PTL DEF Mhz14Spec

-----------------------------------------------------------------------------
(* What the sensor's receiver publishes.                                   *)

\* No byte of the tail is one of the header's.
TailPlain == \A i \in 1 .. 4 : FrameTail[i] # 134 /\ FrameTail[i] # 255

\* The j-th byte to arrive of a frame that loses its l-th, or none (l = 0).
Arrived(r, l, j) == Frame(r)[IF l = 0 \/ j < l THEN j ELSE j + 1]

\* Neither do two bytes look like a header when the one between them is lost.
LEMMA NoHeaderArrives ==
  ASSUME TailPlain, NEW r \in Reading, NEW l \in {0} \cup 2 .. 9,
         NEW j \in 2 .. 8, NEW m \in 3 .. 9, m = j + 1, l # 0 => m <= 8
  PROVE  Arrived(r, l, j) # 255 \/ Arrived(r, l, m) # 134
<1> DEFINE a == IF l = 0 \/ j < l THEN j ELSE j + 1
           b == IF l = 0 \/ m < l THEN m ELSE m + 1
           f == Frame(r)
<1>1. /\ f[2] = 134 /\ f[3] = r[1] /\ \A k \in 5 .. 8 : f[k] = FrameTail[k - 4]
  BY FrameParts
<1>2. Arrived(r, l, j) = f[a] /\ Arrived(r, l, m) = f[b]
  BY Zenon DEF Arrived
<1>3. a \in 2 .. 8 /\ (a = 4 => b \in 5 .. 6)
  OBVIOUS
<1> HIDE DEF a, b, f
<1>4. \A k \in 5 .. 8 : f[k] # 134 /\ f[k] # 255
  <2>1. ASSUME NEW k \in 5 .. 8 PROVE f[k] # 134 /\ f[k] # 255
    <3>1. k - 4 \in 1 .. 4
      OBVIOUS
    <3> QED
      BY <1>1, <3>1 DEF TailPlain
  <2> QED
    BY <2>1
<1>5. r[1] # 255
  BY SensorConstants
<1>6. CASE a = 4
  <2>1. b \in 5 .. 8
    BY <1>3, <1>6
  <2> QED
    BY <1>2, <1>4, <2>1
<1>7. CASE a # 4
  <2>1. f[a] # 255
    BY <1>1, <1>3, <1>4, <1>5, <1>7
  <2> QED
    BY <1>2, <2>1
<1> QED
  BY <1>6, <1>7

\* A sum that is whole without its x, and x.
LEMMA LastByteMissing ==
  ASSUME NEW A \in Nat, NEW x \in Byte8, NEW S \in Nat,
         S + x = A + ((256 - (A % 256)) % 256),
         (256 - (S % 256)) % 256 = 255
  PROVE  x = 255
BY DEF Byte8

\* The first byte of the next frame stands for the lost one only if it is that.
LEMMA ShortIsRefused ==
  ASSUME NEW buf, NEW r \in Reading, NEW m \in 2 .. 9,
         \A j \in 1 .. 8 : buf[j] = Arrived(r, m, j), buf[9] = 255, Accept(buf)
  PROVE  Frame(r)[m] = 255
<1> DEFINE f == Frame(r)
           g(j) == IF j < m THEN f[j] ELSE f[j + 1]
           A == f[2] + f[3] + f[4] + f[5] + f[6] + f[7] + f[8]
           S == buf[2] + buf[3] + buf[4] + buf[5] + buf[6] + buf[7] + buf[8]
<1>1. \A k \in 1 .. 9 : f[k] \in Byte8
  BY FrameIsBytes DEF FrameLen
<1>2. f[9] = (256 - (A % 256)) % 256
  BY FrameParts, Zenon DEF Checksum
<1>3. (256 - (S % 256)) % 256 = 255
  BY Zenon DEF Accept, Checksum
<1>4. \A j \in 2 .. 8 : buf[j] = g(j)
  <2>1. ASSUME NEW j \in 2 .. 8 PROVE buf[j] = g(j)
    <3>1. j \in 1 .. 8 /\ m # 0
      OBVIOUS
    <3> QED
      BY <3>1, Zenon DEF Arrived
  <2> QED
    BY <2>1
<1> HIDE DEF f
<1>5. /\ buf[2] = g(2) /\ buf[3] = g(3) /\ buf[4] = g(4) /\ buf[5] = g(5)
      /\ buf[6] = g(6) /\ buf[7] = g(7) /\ buf[8] = g(8)
  <2> HIDE DEF g
  <2> QED
    BY <1>4
<1>6. /\ f[2] \in Nat /\ f[3] \in Nat /\ f[4] \in Nat /\ f[5] \in Nat /\ f[6] \in Nat
      /\ f[7] \in Nat /\ f[8] \in Nat /\ f[9] \in Nat /\ f[m] \in Byte8
  <2>1. ASSUME NEW k \in 1 .. 9 PROVE f[k] \in Nat
    <3>1. f[k] \in Byte8
      BY <1>1
    <3>2. f[k] \in Nat
      BY <3>1 DEF Byte8
    <3> QED
      BY <3>2
  <2>2. f[m] \in Byte8
    BY <1>1
  <2> QED
    BY <2>1, <2>2
<1>7. S \in Nat /\ A \in Nat /\ S + f[m] = A + f[9]
  <2>1. /\ g(2) = IF 2 < m THEN f[2] ELSE f[3]
        /\ g(3) = IF 3 < m THEN f[3] ELSE f[4]
        /\ g(4) = IF 4 < m THEN f[4] ELSE f[5]
        /\ g(5) = IF 5 < m THEN f[5] ELSE f[6]
        /\ g(6) = IF 6 < m THEN f[6] ELSE f[7]
        /\ g(7) = IF 7 < m THEN f[7] ELSE f[8]
        /\ g(8) = IF 8 < m THEN f[8] ELSE f[9]
    OBVIOUS
  <2> HIDE DEF g
  <2>2. CASE m = 2
    <3>1. S = f[3] + f[4] + f[5] + f[6] + f[7] + f[8] + f[9]
      BY <1>5, <2>1, <2>2
    <3> HIDE DEF S
    <3> QED
      BY <1>6, <2>2, <3>1
  <2>3. CASE m = 3
    <3>1. S = f[2] + f[4] + f[5] + f[6] + f[7] + f[8] + f[9]
      BY <1>5, <2>1, <2>3
    <3> HIDE DEF S
    <3> QED
      BY <1>6, <2>3, <3>1
  <2>4. CASE m = 4
    <3>1. S = f[2] + f[3] + f[5] + f[6] + f[7] + f[8] + f[9]
      BY <1>5, <2>1, <2>4
    <3> HIDE DEF S
    <3> QED
      BY <1>6, <2>4, <3>1
  <2>5. CASE m = 5
    <3>1. S = f[2] + f[3] + f[4] + f[6] + f[7] + f[8] + f[9]
      BY <1>5, <2>1, <2>5
    <3> HIDE DEF S
    <3> QED
      BY <1>6, <2>5, <3>1
  <2>6. CASE m = 6
    <3>1. S = f[2] + f[3] + f[4] + f[5] + f[7] + f[8] + f[9]
      BY <1>5, <2>1, <2>6
    <3> HIDE DEF S
    <3> QED
      BY <1>6, <2>6, <3>1
  <2>7. CASE m = 7
    <3>1. S = f[2] + f[3] + f[4] + f[5] + f[6] + f[8] + f[9]
      BY <1>5, <2>1, <2>7
    <3> HIDE DEF S
    <3> QED
      BY <1>6, <2>7, <3>1
  <2>8. CASE m = 8
    <3>1. S = f[2] + f[3] + f[4] + f[5] + f[6] + f[7] + f[9]
      BY <1>5, <2>1, <2>8
    <3> HIDE DEF S
    <3> QED
      BY <1>6, <2>8, <3>1
  <2>9. CASE m = 9
    <3>1. S = f[2] + f[3] + f[4] + f[5] + f[6] + f[7] + f[8]
      BY <1>5, <2>1, <2>9
    <3> HIDE DEF S
    <3> QED
      BY <1>6, <2>9, <3>1
  <2>10. m \in {2, 3, 4, 5, 6, 7, 8, 9}
    OBVIOUS
  <2> QED
    BY <2>2, <2>3, <2>4, <2>5, <2>6, <2>7, <2>8, <2>9, <2>10
<1> HIDE DEF S, A
<1>8. S + f[m] = A + ((256 - (A % 256)) % 256)
  BY <1>2, <1>7
<1>9. f[m] = 255
  BY <1>3, <1>6, <1>7, <1>8, LastByteMissing
<1> QED
  BY <1>9 DEF f

\* Whether a byte is still in the data register.
Pending == IF DR = <<>> THEN 0 ELSE 1

\* The buffer is a frame of which one byte is missing, none that is 0xFF.
ShortFrame ==
  \E r \in Reading, m \in 2 .. 9 :
    /\ \A j \in 1 .. 8 : MHZ14_RecvMeasureData[j] = Arrived(r, m, j)
    /\ damaged.byte255 \/ Frame(r)[m] # 255

\* Where the receiver can be after g bytes of a frame that loses at most its
\* l-th: at the g-th byte itself; dropping the bytes in pairs; or ahead of the
\* sensor, with bytes of older frames in the buffer.
OnFrame(g, l) ==
  revcnt = g /\ \A j \in 1 .. g : MHZ14_RecvMeasureData[j] = Arrived(sending, l, j)
OffFrame(g, l) ==
  /\ g >= 1 /\ revcnt \in {0, 1}
  /\ revcnt = 1 => g >= 2 /\ MHZ14_RecvMeasureData[1] = Arrived(sending, l, g)
Ahead(g) ==
  /\ revcnt > g
  /\ damaged.before <= 1 => g = 0 /\ (revcnt = 1 \/ (revcnt = 8 /\ ShortFrame))

\* The g bytes that were handled of the sensor's frame, one that is lost, and
\* the one in the data register are those sent.
Course(g, l) ==
  /\ sent = g + damaged.frame + Pending
  /\ (l = 0 <=> damaged.frame = 0) /\ l <= sent
  /\ \A m \in 1 .. 9 : m = g + 1 /\ DR # <<>> => DR[1] = Arrived(sending, l, m)
  /\ l # 0 => damaged.byte255 \/ Frame(sending)[l] # 255
  /\ OnFrame(g, l) \/ OffFrame(g, l) \/ Ahead(g)

\* The inductive invariant: so it is in any frame that loses one byte at most.
SentInv ==
  /\ sent = 0 => DR = <<>>
  /\ damaged.frame <= 1 => \E g \in 0 .. 9, l \in {0} \cup 2 .. 9 : Course(g, l)

\* It holds at the start.
LEMMA SentInitial == Mhz14Init => SentInv
<1> SUFFICES ASSUME Mhz14Init PROVE SentInv
  OBVIOUS
<1>1. /\ revcnt = 0 /\ sent = 0 /\ DR = <<>> /\ damaged.frame = 0
  BY DEF Mhz14Init
<1>2. OnFrame(0, 0)
  BY <1>1 DEF OnFrame
<1>3. Pending = 0 /\ sent = 0 + damaged.frame + Pending
  BY <1>1 DEF Pending
<1>4. Course(0, 0)
  <2> HIDE DEF OnFrame
  <2> QED
    BY <1>1, <1>2, <1>3 DEF Course
<1>5. 0 \in 0 .. 9 /\ 0 \in {0} \cup 2 .. 9
  OBVIOUS
<1> QED
  BY <1>1, <1>4, <1>5, Zenon DEF SentInv

\* What the handler makes of its byte.
LEMMA HandlerIs ==
  ASSUME SensorInv, USART3_IRQHandler
  PROVE  /\ DR # <<>> /\ DR' = <<>>
         /\ revcnt \in 0 .. 8 /\ MHZ14_RecvMeasureData \in [1 .. 9 -> Byte8]
         /\ sending \in Reading /\ sent \in 0 .. 9
         /\ damaged.frame \in Nat /\ damaged.before \in Nat
         /\ sending' = sending /\ sent' = sent /\ damaged' = damaged
         /\ \E buf \in [1 .. 9 -> Byte8], n \in 1 .. 9 :
              /\ n = revcnt + 1 /\ buf[n] = DR[1]
              /\ \A j \in 1 .. 9 : j # n => buf[j] = MHZ14_RecvMeasureData[j]
              /\ \/ /\ n = 2 /\ (buf[1] # 255 \/ buf[2] # 134)
                    /\ revcnt' = 0
                 \/ /\ n = 9 /\ revcnt' = 0
                 \/ /\ n # 9 /\ (n = 2 => buf[1] = 255 /\ buf[2] = 134)
                    /\ revcnt' = n /\ MHZ14_RecvMeasureData' = buf
              /\ CO2' # CO2 => n = 9 /\ Accept(buf) /\ CO2' = <<buf[3], buf[4]>>
<1> DEFINE buf == Stored(DR[1])
           n   == revcnt + 1
           bad == n = 2 /\ BadHeader(buf)
<1>1. /\ DR # <<>> /\ DR' = <<>>
      /\ revcnt' = IF bad \/ n = 9 THEN 0 ELSE n
      /\ MHZ14_RecvMeasureData' = IF bad THEN [j \in 1 .. 9 |-> 0] ELSE buf
      /\ CO2' = IF n = 9 /\ Accept(buf) THEN <<buf[3], buf[4]>> ELSE CO2
      /\ sending' = sending /\ sent' = sent /\ damaged' = damaged
  BY Zenon DEF USART3_IRQHandler, FrameLen
<1>2. /\ revcnt \in 0 .. 8 /\ MHZ14_RecvMeasureData \in [1 .. 9 -> Byte8]
      /\ sending \in Reading /\ sent \in 0 .. 9
      /\ damaged \in [frame : Nat, before : Nat, byte255 : BOOLEAN]
      /\ (DR = <<>> \/ \E b \in Byte8 : DR = <<b>>)
  BY Zenon DEF SensorInv
<1>3. DR[1] \in Byte8
  BY <1>1, <1>2
<1>4. n \in 1 .. 9
  BY <1>2
<1>5. /\ buf \in [1 .. 9 -> Byte8] /\ buf[n] = DR[1]
      /\ \A j \in 1 .. 9 : j # n => buf[j] = MHZ14_RecvMeasureData[j]
  BY <1>2, <1>3 DEF Stored
<1>6. BadHeader(buf) <=> buf[1] # 255 \/ buf[2] # 134
  BY Zenon DEF BadHeader
<1>7. damaged.frame \in Nat /\ damaged.before \in Nat
  BY <1>2
<1>8. n = revcnt + 1
  OBVIOUS
<1> HIDE DEF buf, n
<1>9. \/ n = 2 /\ (buf[1] # 255 \/ buf[2] # 134) /\ revcnt' = 0
      \/ n = 9 /\ revcnt' = 0
      \/ /\ n # 9 /\ (n = 2 => buf[1] = 255 /\ buf[2] = 134)
         /\ revcnt' = n /\ MHZ14_RecvMeasureData' = buf
  BY <1>1, <1>6, Zenon
<1>10. CO2' # CO2 => n = 9 /\ Accept(buf) /\ CO2' = <<buf[3], buf[4]>>
  BY <1>1, Zenon
<1> DEFINE P(u, k) ==
              /\ k = revcnt + 1 /\ u[k] = DR[1]
              /\ \A j \in 1 .. 9 : j # k => u[j] = MHZ14_RecvMeasureData[j]
              /\ \/ /\ k = 2 /\ (u[1] # 255 \/ u[2] # 134)
                    /\ revcnt' = 0
                 \/ /\ k = 9 /\ revcnt' = 0
                 \/ /\ k # 9 /\ (k = 2 => u[1] = 255 /\ u[2] = 134)
                    /\ revcnt' = k /\ MHZ14_RecvMeasureData' = u
              /\ CO2' # CO2 => k = 9 /\ Accept(u) /\ CO2' = <<u[3], u[4]>>
<1>11. P(buf, n)
  BY <1>5, <1>8, <1>9, <1>10, Zenon
<1>12. \E u \in [1 .. 9 -> Byte8], k \in 1 .. 9 : P(u, k)
  <2> HIDE DEF P
  <2> QED
    BY <1>4, <1>5, <1>11, Zenon
<1> QED
  BY <1>1, <1>2, <1>7, <1>12

\* The first byte of a frame is the header's.
LEMMA FirstArrives ==
  ASSUME NEW r \in Reading, NEW l \in {0} \cup 2 .. 9
  PROVE  Arrived(r, l, 1) = 255
<1>1. Frame(r)[1] = 255
  BY FrameParts
<1>2. l = 0 \/ 1 < l
  OBVIOUS
<1> QED
  BY <1>1, <1>2, Zenon DEF Arrived

\* The handler keeps to its course.
LEMMA HandlerOnCourse ==
  ASSUME TailPlain, SensorInv, USART3_IRQHandler, damaged.frame <= 1,
         NEW g \in 0 .. 9, NEW l \in {0} \cup 2 .. 9, Course(g, l)
  PROVE  \E m \in 1 .. 9 : Course(m, l)'
<1> DEFINE m == g + 1
           f == damaged.frame
<1>1. /\ DR # <<>> /\ DR' = <<>>
      /\ revcnt \in 0 .. 8 /\ MHZ14_RecvMeasureData \in [1 .. 9 -> Byte8]
      /\ sending \in Reading /\ sent \in 0 .. 9
      /\ damaged.frame \in Nat /\ damaged.before \in Nat
      /\ sending' = sending /\ sent' = sent /\ damaged' = damaged
  BY HandlerIs
<1>2. PICK buf \in [1 .. 9 -> Byte8], n \in 1 .. 9 :
        /\ n = revcnt + 1 /\ buf[n] = DR[1]
        /\ \A j \in 1 .. 9 : j # n => buf[j] = MHZ14_RecvMeasureData[j]
        /\ \/ /\ n = 2 /\ (buf[1] # 255 \/ buf[2] # 134)
              /\ revcnt' = 0
           \/ /\ n = 9 /\ revcnt' = 0
           \/ /\ n # 9 /\ (n = 2 => buf[1] = 255 /\ buf[2] = 134)
              /\ revcnt' = n /\ MHZ14_RecvMeasureData' = buf
  BY HandlerIs
<1>3. /\ sent = g + f + Pending /\ (l = 0 <=> f = 0) /\ l <= sent
      /\ \A k \in 1 .. 9 : k = g + 1 /\ DR # <<>> => DR[1] = Arrived(sending, l, k)
      /\ (l # 0 => damaged.byte255 \/ Frame(sending)[l] # 255)
      /\ OnFrame(g, l) \/ OffFrame(g, l) \/ Ahead(g)
  BY Zenon DEF Course
<1>4. Pending = 1 /\ Pending' = 0
  BY <1>1 DEF Pending
<1>5. m \in 1 .. 9 /\ (l # 0 => m <= 8) /\ m = g + 1 /\ sent = m + f + 0
  <2>1. /\ f \in Nat /\ f <= 1 /\ sent \in 0 .. 9 /\ sent = g + f + 1
        /\ (l = 0 <=> f = 0)
    BY <1>1, <1>3, <1>4
  <2> HIDE DEF f
  <2> QED
    BY <2>1
<1>6. buf[n] = Arrived(sending, l, m)
  BY <1>1, <1>2, <1>3, <1>5
<1>7. \A k \in 1 .. 9 : k = m => buf[n] = Arrived(sending, l, k)
  BY <1>6
<1>8. m = 1 => buf[n] = 255
  BY <1>1, <1>6, FirstArrives
<1> HIDE DEF m
<1>9. \/ revcnt' = 0
      \/ revcnt' = m /\ \A j \in 1 .. m : MHZ14_RecvMeasureData'[j] = Arrived(sending, l, j)
      \/ revcnt' = 1 /\ m >= 2 /\ MHZ14_RecvMeasureData'[1] = Arrived(sending, l, m)
      \/ revcnt' > m /\ ~(damaged.before <= 1)
  <2>1. CASE OnFrame(g, l)
    <3>1. n = m /\ \A j \in 1 .. g : MHZ14_RecvMeasureData[j] = Arrived(sending, l, j)
      BY <1>2, <1>5, <2>1 DEF OnFrame
    <3>2. \A j \in 1 .. m : buf[j] = Arrived(sending, l, j)
      BY <1>2, <1>5, <1>6, <3>1
    <3> QED
      BY <1>2, <3>1, <3>2
  <2>2. CASE OffFrame(g, l)
    <3>1. /\ g >= 1 /\ revcnt \in {0, 1}
          /\ revcnt = 1 => g >= 2 /\ MHZ14_RecvMeasureData[1] = Arrived(sending, l, g)
      BY <2>2 DEF OffFrame
    <3>2. CASE revcnt = 0
      <4>1. n = 1 /\ m >= 2
        BY <1>2, <1>5, <3>1, <3>2
      <4> QED
        BY <1>2, <1>6, <4>1
    <3>3. CASE revcnt = 1
      <4>1. n = 2 /\ g \in 2 .. 8 /\ m \in 3 .. 9
        BY <1>2, <1>5, <3>1, <3>3
      <4>2. buf[1] = Arrived(sending, l, g)
        BY <1>2, <3>1, <3>3, <4>1
      <4>3. Arrived(sending, l, g) # 255 \/ Arrived(sending, l, m) # 134
        <5>1. sending \in Reading /\ g \in 2 .. 8 /\ m \in 3 .. 9 /\ m = g + 1
          BY <1>1, <1>5, <4>1
        <5>2. l # 0 => m <= 8
          BY <1>5
        <5> QED
          BY <5>1, <5>2, NoHeaderArrives
      <4>4. buf[1] # 255 \/ buf[2] # 134
        BY <1>6, <4>1, <4>2, <4>3
      <4> QED
        BY <1>2, <4>1, <4>4
    <3> QED
      BY <3>1, <3>2, <3>3
  <2>3. CASE Ahead(g)
    <3>1. /\ revcnt > g
          /\ damaged.before <= 1 => g = 0 /\ (revcnt = 1 \/ revcnt = 8)
      BY <2>3, Zenon DEF Ahead
    <3>2. CASE damaged.before <= 1
      <4>1. m = 1 /\ (n = 2 \/ n = 9) /\ buf[n] # 134
        BY <1>2, <1>5, <1>8, <3>1, <3>2
      <4> QED
        BY <1>2, <4>1
    <3>3. CASE ~(damaged.before <= 1)
      <4>1. n > m
        BY <1>1, <1>2, <1>5, <3>1
      <4> QED
        BY <1>2, <3>3, <4>1
    <3> QED
      BY <3>2, <3>3
  <2> QED
    BY <1>3, <2>1, <2>2, <2>3
<1>10. OnFrame(m, l)' \/ OffFrame(m, l)' \/ Ahead(m)'
  <2>1. CASE revcnt' = 0 \/ (revcnt' = 1 /\ m >= 2 /\ MHZ14_RecvMeasureData'[1] = Arrived(sending, l, m))
    <3>1. m >= 1
      BY <1>5
    <3>3. /\ revcnt' \in {0, 1}
          /\ (revcnt' = 1 => m >= 2 /\ MHZ14_RecvMeasureData'[1] = Arrived(sending, l, m))
      BY <2>1
    <3>4. Arrived(sending, l, m)' = Arrived(sending, l, m)
      BY <1>1, Zenon
    <3>2. OffFrame(m, l)'
      BY <3>1, <3>3, <3>4, Zenon DEF OffFrame
    <3> QED
      BY <3>2
  <2>2. CASE revcnt' = m /\ \A j \in 1 .. m : MHZ14_RecvMeasureData'[j] = Arrived(sending, l, j)
    <3>1. OnFrame(m, l)'
      BY <1>1, <2>2, Zenon DEF OnFrame
    <3> QED
      BY <3>1
  <2>3. CASE revcnt' > m /\ ~(damaged.before <= 1)
    <3>1. Ahead(m)'
      BY <1>1, <2>3, Zenon DEF Ahead
    <3> QED
      BY <3>1
  <2> QED
    BY <1>9, <2>1, <2>2, <2>3
<1>11. Course(m, l)'
  <2>1. sent' = m + damaged'.frame + Pending'
    BY <1>1, <1>4, <1>5
  <2> QED
    BY <1>1, <1>3, <1>10, <2>1, Zenon DEF Course
<1> QED
  BY <1>5, <1>11

\* Only the marks of a loss change in the record of losses.
LEMMA DamageIs ==
  ASSUME SensorInv, NEW b
  PROVE  /\ Damage(b).frame = damaged.frame + 1 /\ Damage(b).before = damaged.before
         /\ Damage(b).byte255 <=> damaged.byte255 \/ (b = 255 /\ sent # 0)
<1> DEFINE v == damaged.byte255 \/ (b = 255 /\ sent # 0)
           d == [damaged EXCEPT !.frame = @ + 1]
           e == [d EXCEPT !.byte255 = v]
<1>1. damaged \in [frame : Nat, before : Nat, byte255 : BOOLEAN]
  BY Zenon DEF SensorInv
<1>2. d \in [frame : Nat, before : Nat, byte255 : BOOLEAN]
      /\ d.frame = damaged.frame + 1 /\ d.before = damaged.before
      /\ d.byte255 = damaged.byte255
  BY <1>1
<1>3. Damage(b) = e
  BY <1>1, <1>2, Zenon DEF Damage
<1> HIDE DEF d
<1>4. v \in BOOLEAN
  BY Zenon
<1> HIDE DEF v
<1>5. e.frame = d.frame /\ e.before = d.before /\ e.byte255 = v
  BY <1>2, <1>4
<1> HIDE DEF e
<1> QED
  BY <1>2, <1>3, <1>5, Zenon DEF v

\* A buffer that is short of one byte stays so while it is left alone.
LEMMA ShortKept ==
  ASSUME MHZ14_RecvMeasureData' = MHZ14_RecvMeasureData,
         damaged.byte255 => damaged'.byte255
  PROVE  ShortFrame => ShortFrame'
<1> SUFFICES ASSUME ShortFrame PROVE ShortFrame'
  OBVIOUS
<1>1. PICK r \in Reading, m \in 2 .. 9 :
        /\ \A j \in 1 .. 8 : MHZ14_RecvMeasureData[j] = Arrived(r, m, j)
        /\ damaged.byte255 \/ Frame(r)[m] # 255
  BY Zenon DEF ShortFrame
<1>2. \A j \in 1 .. 8 : MHZ14_RecvMeasureData'[j] = Arrived(r, m, j)
  BY <1>1, Zenon
<1>3. damaged'.byte255 \/ Frame(r)[m] # 255
  BY <1>1, Zenon
<1> QED
  BY <1>2, <1>3, Zenon DEF ShortFrame

\* A byte of a frame that is not lost, or the first one that is.
LEMMA ByteOnCourse ==
  ASSUME SensorInv, SentInv, SensorByte
  PROVE  SentInv'
<1> DEFINE b == Frame(sending)[sent + 1]
<1>1. /\ sent < 9 /\ sent' = sent + 1 /\ sending' = sending /\ revcnt' = revcnt
      /\ MHZ14_RecvMeasureData' = MHZ14_RecvMeasureData
  BY Zenon DEF SensorByte, FrameLen
<1>2. /\ sent \in 0 .. 9 /\ revcnt \in 0 .. 8 /\ sending \in Reading
      /\ damaged \in [frame : Nat, before : Nat, byte255 : BOOLEAN]
  BY Zenon DEF SensorInv
<1>3. damaged.frame \in Nat /\ damaged.before \in Nat /\ sent' # 0
  BY <1>1, <1>2
<1>4. SentInv
  OBVIOUS
<1>5. CASE DR = <<>>
  <2>1. DR' = <<b>> /\ damaged' = damaged
    BY <1>5, Zenon DEF SensorByte
  <2>2. Pending = 0 /\ Pending' = 1 /\ DR'[1] = b
    BY <1>5, <2>1 DEF Pending
  <2>3. ASSUME damaged.frame <= 1, NEW g \in 0 .. 9, NEW l \in {0} \cup 2 .. 9, Course(g, l)
        PROVE  Course(g, l)'
    <3>1. /\ sent = g + damaged.frame + Pending
          /\ (l = 0 <=> damaged.frame = 0) /\ l <= sent
          /\ (l # 0 => damaged.byte255 \/ Frame(sending)[l] # 255)
          /\ OnFrame(g, l) \/ OffFrame(g, l) \/ Ahead(g)
      BY <2>3, Zenon DEF Course
    <3>2. sent' = g + damaged'.frame + Pending'
      <4> DEFINE f == damaged.frame
      <4>1. f \in Nat /\ sent = g + f + 0 /\ sent' = sent + 1 /\ damaged'.frame = f
            /\ Pending' = 1
        BY <1>1, <1>3, <2>1, <2>2, <3>1
      <4> HIDE DEF f
      <4> QED
        BY <4>1
    <3>3. ASSUME NEW m \in 1 .. 9, m = g + 1 PROVE DR'[1] = Arrived(sending, l, m)
      <4> DEFINE f == damaged.frame
      <4>1. f \in Nat /\ f <= 1 /\ sent = g + f /\ (l = 0 <=> f = 0) /\ l <= sent /\ sent \in Nat
        BY <1>2, <1>3, <2>2, <2>3, <3>1
      <4> HIDE DEF f
      <4>2. (IF l = 0 \/ m < l THEN m ELSE m + 1) = sent + 1
        BY <3>3, <4>1
      <4> QED
        BY <2>2, <4>2, Zenon DEF Arrived
    <3>4. OnFrame(g, l)' \/ OffFrame(g, l)' \/ Ahead(g)'
      <4>1. OnFrame(g, l) => OnFrame(g, l)'
        BY <1>1, Zenon DEF OnFrame
      <4>2. OffFrame(g, l) => OffFrame(g, l)'
        BY <1>1, Zenon DEF OffFrame
      <4>3. ShortFrame => ShortFrame'
        BY <1>1, <2>1, ShortKept
      <4>4. Ahead(g) => Ahead(g)'
        BY <1>1, <2>1, <4>3, Zenon DEF Ahead
      <4> QED
        BY <3>1, <4>1, <4>2, <4>4
    <3>5. l <= sent'
      BY <1>1, <1>2, <3>1
    <3>6. \A m \in 1 .. 9 : m = g + 1 /\ DR' # <<>> => DR'[1] = Arrived(sending', l, m)
      BY <1>1, <3>3, Zenon
    <3>7. /\ l = 0 <=> damaged'.frame = 0
          /\ l # 0 => damaged'.byte255 \/ Frame(sending')[l] # 255
      BY <1>1, <2>1, <3>1, Zenon
    <3> QED
      BY <3>2, <3>4, <3>5, <3>6, <3>7, Zenon DEF Course
  <2>4. damaged'.frame <= 1 => \E g \in 0 .. 9, l \in {0} \cup 2 .. 9 : Course(g, l)'
    <3> HIDE DEF Course
    <3> QED
      BY <1>4, <2>1, <2>3, Zenon DEF SentInv
  <2> QED
    BY <1>3, <2>4, Zenon DEF SentInv
<1>6. CASE DR # <<>>
  <2>1. DR' = DR /\ damaged' = Damage(b)
    BY <1>6, Zenon DEF SensorByte
  <2>2. Pending = 1 /\ Pending' = 1 /\ sent # 0
    BY <1>4, <1>6, <2>1, Zenon DEF Pending, SentInv
  <2>3. /\ damaged'.frame = damaged.frame + 1 /\ damaged'.before = damaged.before
        /\ damaged'.byte255 <=> damaged.byte255 \/ b = 255
    BY <2>1, <2>2, DamageIs
  <2>4. ASSUME damaged'.frame <= 1
        PROVE  \E g \in 0 .. 9, l \in {0} \cup 2 .. 9 : Course(g, l)'
    <3>1. damaged.frame = 0
      BY <1>3, <2>3, <2>4
    <3>2. PICK g \in 0 .. 9, k \in {0} \cup 2 .. 9 : Course(g, k)
      <4>1. damaged.frame <= 1
        BY <3>1
      <4> QED
        BY <1>4, <4>1, Zenon DEF SentInv
    <3>3. /\ sent = g + damaged.frame + Pending /\ k = 0
          /\ \A m \in 1 .. 9 : m = g + 1 /\ DR # <<>> => DR[1] = Arrived(sending, k, m)
          /\ OnFrame(g, k) \/ OffFrame(g, k) \/ Ahead(g)
      BY <3>1, <3>2, Zenon DEF Course
    <3>4. sent = g + 1 /\ sent \in 1 .. 8
      BY <1>1, <1>2, <2>2, <3>1, <3>3
    <3> DEFINE l == sent + 1
    <3>5. PICK l1 \in 2 .. 9 : l1 = sent + 1
      BY <3>4
    <3>6. ASSUME NEW m \in 1 .. 9, m <= g + 1 PROVE Arrived(sending, k, m) = Arrived(sending, l1, m)
      <4>1. m < l1
        BY <3>4, <3>5, <3>6
      <4> QED
        BY <3>3, <4>1, Zenon DEF Arrived
    <3>7. Arrived(sending, l1, g)' = Arrived(sending, l1, g)
          /\ \A m \in 1 .. 9 : Arrived(sending, l1, m)' = Arrived(sending, l1, m)
      BY <1>1, Zenon DEF Arrived
    <3>8. OnFrame(g, l1)' \/ OffFrame(g, l1)' \/ Ahead(g)'
      <4>1. CASE OnFrame(g, k)
        <5>1. ASSUME NEW j \in 1 .. g PROVE MHZ14_RecvMeasureData[j] = Arrived(sending, l1, j)
          <6>1. j \in 1 .. 9 /\ j <= g + 1
            OBVIOUS
          <6> QED
            BY <3>6, <4>1, <6>1 DEF OnFrame
        <5> QED
          BY <1>1, <4>1, <5>1, Zenon DEF OnFrame
      <4>2. CASE OffFrame(g, k)
        <5>1. g \in 1 .. 9 /\ g <= g + 1
          BY <4>2 DEF OffFrame
        <5>2. Arrived(sending, k, g) = Arrived(sending, l1, g)
          BY <3>6, <5>1
        <5> QED
          BY <1>1, <3>7, <4>2, <5>2, Zenon DEF OffFrame
      <4>3. CASE Ahead(g)
        <5>1. ShortFrame => ShortFrame'
          BY <1>1, <2>3, ShortKept
        <5> QED
          BY <1>1, <2>3, <4>3, <5>1, Zenon DEF Ahead
      <4> QED
        BY <3>3, <4>1, <4>2, <4>3
    <3>9. sent' = g + damaged'.frame + Pending'
      BY <1>1, <2>2, <2>3, <3>1, <3>4
    <3>10. \A m \in 1 .. 9 : m = g + 1 /\ DR' # <<>> => DR'[1] = Arrived(sending', l1, m)
      <4>1. ASSUME NEW m \in 1 .. 9, m = g + 1, DR' # <<>>
            PROVE  DR'[1] = Arrived(sending', l1, m)
        <5>1. m <= g + 1
          BY <4>1
        <5>2. DR[1] = Arrived(sending, k, m)
          BY <1>6, <3>3, <4>1
        <5> QED
          BY <1>1, <2>1, <3>6, <5>1, <5>2, Zenon
      <4> QED
        BY <4>1
    <3>11. /\ ~(l1 = 0) /\ ~(damaged'.frame = 0) /\ l1 <= sent'
      BY <1>1, <2>3, <3>1, <3>5, <1>2
    <3>12. damaged'.byte255 \/ Frame(sending')[l1] # 255
      BY <1>1, <2>3, <3>5, Zenon
    <3>13. Course(g, l1)'
      BY <3>8, <3>9, <3>10, <3>11, <3>12, Zenon DEF Course
    <3>14. l1 \in {0} \cup 2 .. 9
      OBVIOUS
    <3> QED
      BY <3>13, <3>14
  <2> QED
    BY <1>3, <2>4, Zenon DEF SentInv
<1> QED
  BY <1>5, <1>6

\* The next frame.
LEMMA FrameOnCourse ==
  ASSUME SensorInv, SentInv, NEW r \in Reading, SensorFrame(r)
  PROVE  SentInv'
<1> DEFINE d == [damaged EXCEPT !.before = damaged.frame]
           e == [d EXCEPT !.frame = 0]
<1>1. /\ sent = 9 /\ DR = <<>> /\ sent' = 0 /\ sending' = r /\ damaged' = e
      /\ revcnt' = revcnt /\ MHZ14_RecvMeasureData' = MHZ14_RecvMeasureData /\ DR' = DR
  BY Zenon DEF SensorFrame, FrameLen
<1>2. /\ damaged \in [frame : Nat, before : Nat, byte255 : BOOLEAN] /\ revcnt \in 0 .. 8
      /\ sending \in Reading
  BY Zenon DEF SensorInv
<1>3. d \in [frame : Nat, before : Nat, byte255 : BOOLEAN] /\ d.before = damaged.frame
      /\ d.byte255 = damaged.byte255
  BY <1>2
<1> HIDE DEF d
<1>4. e.frame = 0 /\ e.before = d.before /\ e.byte255 = d.byte255
  BY <1>3
<1> HIDE DEF e
<1>5. damaged'.frame = 0 /\ damaged'.before = damaged.frame
      /\ damaged'.byte255 = damaged.byte255 /\ damaged.frame \in Nat
  BY <1>1, <1>2, <1>3, <1>4
<1>6. ASSUME revcnt = 0 PROVE OnFrame(0, 0)'
  BY <1>1, <1>6 DEF OnFrame
<1>7. ASSUME revcnt # 0 PROVE Ahead(0)'
  <2>1. revcnt' > 0
    BY <1>1, <1>2, <1>7
  <2>2. ASSUME damaged.frame <= 1
        PROVE  revcnt = 1 \/ (revcnt = 8 /\ ShortFrame')
    <3>1. PICK g \in 0 .. 9, l \in {0} \cup 2 .. 9 : Course(g, l)
      BY <2>2, Zenon DEF SentInv
    <3>2. /\ sent = g + damaged.frame + Pending
          /\ (l = 0 <=> damaged.frame = 0)
          /\ (l # 0 => damaged.byte255 \/ Frame(sending)[l] # 255)
          /\ OnFrame(g, l) \/ OffFrame(g, l) \/ Ahead(g)
      BY <3>1, Zenon DEF Course
    <3>3. Pending = 0
      BY <1>1 DEF Pending
    <3>4. g \in 8 .. 9 /\ (g = 8 => l # 0)
      BY <1>1, <1>5, <2>2, <3>2, <3>3
    <3>5. CASE OnFrame(g, l)
      <4>1. revcnt = 8 /\ g = 8 /\ l \in 2 .. 9
        BY <1>2, <3>4, <3>5 DEF OnFrame
      <4>2. \A j \in 1 .. 8 : MHZ14_RecvMeasureData[j] = Arrived(sending, l, j)
        BY <3>5, <4>1 DEF OnFrame
      <4>3. damaged.byte255 \/ Frame(sending)[l] # 255
        BY <3>2, <3>4, <4>1
      <4>4. ShortFrame
        <5> DEFINE Short(u, m) ==
                     /\ \A j \in 1 .. 8 : MHZ14_RecvMeasureData[j] = Arrived(u, m, j)
                     /\ damaged.byte255 \/ Frame(u)[m] # 255
        <5>1. Short(sending, l)
          BY <4>2, <4>3, Zenon
        <5>2. \E q \in Reading, m \in 2 .. 9 : Short(q, m)
          <6> HIDE DEF Short
          <6> QED
            BY <1>2, <4>1, <5>1, Zenon
        <5> QED
          BY <5>2, Zenon DEF ShortFrame
      <4>5. ShortFrame'
        BY <1>1, <1>5, <4>4, ShortKept
      <4> QED
        BY <4>1, <4>5
    <3>6. CASE OffFrame(g, l)
      BY <1>7, <3>6 DEF OffFrame
    <3>7. CASE Ahead(g)
      BY <1>2, <3>4, <3>7 DEF Ahead
    <3> QED
      BY <3>2, <3>5, <3>6, <3>7
  <2>3. Ahead(0)'
    BY <1>1, <1>5, <2>1, <2>2, Zenon DEF Ahead
  <2> QED
    BY <2>3
<1>8. Pending' = 0
  BY <1>1 DEF Pending
<1>9. sent' = 0 + damaged'.frame + Pending' /\ 0 <= sent'
  BY <1>1, <1>5, <1>8
<1>10. OnFrame(0, 0)' \/ OffFrame(0, 0)' \/ Ahead(0)'
  BY <1>6, <1>7
<1>11. Course(0, 0)'
  BY <1>1, <1>5, <1>9, <1>10, Zenon DEF Course
<1>12. 0 \in 0 .. 9 /\ 0 \in {0} \cup 2 .. 9
  OBVIOUS
<1> QED
  BY <1>1, <1>11, <1>12, Zenon DEF SentInv

\* A step keeps it.
LEMMA SentStep ==
  TailPlain /\ SensorInv /\ SentInv /\ [Mhz14Step]_mhz14Vars => SentInv'
<1> SUFFICES ASSUME TailPlain, SensorInv, SentInv, [Mhz14Step]_mhz14Vars PROVE SentInv'
  OBVIOUS
<1>1. CASE USART3_IRQHandler
  <2>1. DR' = <<>> /\ damaged' = damaged
    BY <1>1, HandlerIs
  <2>2. ASSUME damaged.frame <= 1 PROVE \E g \in 0 .. 9, l \in {0} \cup 2 .. 9 : Course(g, l)'
    <3>1. PICK g \in 0 .. 9, l \in {0} \cup 2 .. 9 : Course(g, l)
      BY <2>2, Zenon DEF SentInv
    <3>2. PICK m \in 1 .. 9 : Course(m, l)'
      BY <1>1, <2>2, <3>1, HandlerOnCourse
    <3>3. m \in 0 .. 9
      OBVIOUS
    <3> QED
      BY <3>2, <3>3
  <2> QED
    BY <2>1, <2>2, Zenon DEF SentInv
<1>2. ASSUME NEW r \in Reading, SensorFrame(r) PROVE SentInv'
  BY <1>2, FrameOnCourse
<1>3. CASE UNCHANGED mhz14Vars
  <2>1. /\ revcnt' = revcnt /\ MHZ14_RecvMeasureData' = MHZ14_RecvMeasureData
        /\ sending' = sending /\ sent' = sent /\ DR' = DR /\ damaged' = damaged
    BY <1>3, Zenon DEF mhz14Vars
  <2>2. Pending' = Pending
    BY <2>1, Zenon DEF Pending
  <2>3. ASSUME NEW g \in 0 .. 9, NEW l \in {0} \cup 2 .. 9, Course(g, l) PROVE Course(g, l)'
    <3>1. OnFrame(g, l) => OnFrame(g, l)'
      BY <2>1, Zenon DEF OnFrame
    <3>2. OffFrame(g, l) => OffFrame(g, l)'
      BY <2>1, Zenon DEF OffFrame
    <3>3. ShortFrame => ShortFrame'
      BY <2>1, ShortKept
    <3>4. Ahead(g) => Ahead(g)'
      BY <2>1, <3>3, Zenon DEF Ahead
    <3> QED
      BY <2>1, <2>2, <2>3, <3>1, <3>2, <3>4, Zenon DEF Course
  <2>4. damaged.frame <= 1 => \E g \in 0 .. 9, l \in {0} \cup 2 .. 9 : Course(g, l)'
    BY <2>3, Zenon DEF SentInv
  <2> QED
    BY <2>1, <2>4, Zenon DEF SentInv
<1> QED
  BY <1>1, <1>2, <1>3, ByteOnCourse, Zenon DEF Mhz14Step

\* What such a receiver publishes.
LEMMA PublishesSent ==
  TailPlain /\ SensorInv /\ SentInv /\ [Mhz14Step]_mhz14Vars =>
    [CO2' # CO2 /\ ~damaged.byte255 /\ damaged.frame <= 1 /\ damaged.before <= 1
       => CO2' \in Reading]_mhz14Vars
<1> SUFFICES ASSUME TailPlain, SensorInv, SentInv, [Mhz14Step]_mhz14Vars,
                    CO2' # CO2, ~damaged.byte255, damaged.frame <= 1, damaged.before <= 1
             PROVE  CO2' \in Reading
  OBVIOUS
<1>1. USART3_IRQHandler
  <2>1. SensorByte => CO2' = CO2
    BY Zenon DEF SensorByte
  <2>2. \A r \in Reading : SensorFrame(r) => CO2' = CO2
    BY Zenon DEF SensorFrame
  <2>3. UNCHANGED mhz14Vars => CO2' = CO2
    BY Zenon DEF mhz14Vars
  <2> QED
    BY <2>1, <2>2, <2>3, Zenon DEF Mhz14Step
<1>2. PICK buf \in [1 .. 9 -> Byte8], n \in 1 .. 9 :
        /\ n = revcnt + 1 /\ buf[n] = DR[1]
        /\ \A j \in 1 .. 9 : j # n => buf[j] = MHZ14_RecvMeasureData[j]
        /\ CO2' # CO2 => n = 9 /\ Accept(buf) /\ CO2' = <<buf[3], buf[4]>>
  BY <1>1, HandlerIs
<1>3. /\ DR # <<>> /\ sending \in Reading /\ sent \in 0 .. 9 /\ revcnt \in 0 .. 8
      /\ damaged.frame \in Nat
  BY <1>1, HandlerIs
<1>4. n = 9 /\ revcnt = 8 /\ Accept(buf) /\ CO2' = <<buf[3], buf[4]>>
  BY <1>2, <1>3
<1>5. PICK g \in 0 .. 9, l \in {0} \cup 2 .. 9 : Course(g, l)
  BY Zenon DEF SentInv
<1>6. /\ sent = g + damaged.frame + Pending /\ (l = 0 <=> damaged.frame = 0)
      /\ \A m \in 1 .. 9 : m = g + 1 /\ DR # <<>> => DR[1] = Arrived(sending, l, m)
      /\ OnFrame(g, l) \/ OffFrame(g, l) \/ Ahead(g)
  BY <1>5, Zenon DEF Course
<1>7. \A j \in 1 .. 8 : buf[j] = MHZ14_RecvMeasureData[j]
  BY <1>2, <1>4
<1>8. CASE OnFrame(g, l)
  <2>1. g = 8 /\ \A j \in 1 .. 8 : buf[j] = Arrived(sending, l, j)
    BY <1>4, <1>7, <1>8 DEF OnFrame
  <2>2. l = 0
    <3>1. Pending = 1
      BY <1>3 DEF Pending
    <3> DEFINE f == damaged.frame
    <3>2. f \in Nat /\ sent = 8 + f + 1 /\ sent \in 0 .. 9 /\ (l = 0 <=> f = 0)
      BY <1>3, <1>6, <2>1, <3>1
    <3> HIDE DEF f
    <3> QED
      BY <3>2
  <2>3. buf[3] = Frame(sending)[3] /\ buf[4] = Frame(sending)[4]
    <3>1. 3 \in 1 .. 8 /\ 4 \in 1 .. 8
      OBVIOUS
    <3> QED
      BY <2>1, <2>2, <3>1, Zenon DEF Arrived
  <2>4. CO2' = <<sending[1], sending[2]>>
    BY <1>3, <1>4, <2>3, FrameParts, Zenon
  <2>5. sending = <<sending[1], sending[2]>>
    BY <1>3, SensorConstants
  <2> QED
    BY <1>3, <2>4, <2>5, Zenon
<1>9. CASE OffFrame(g, l)
  BY <1>4, <1>9 DEF OffFrame
<1>10. CASE Ahead(g)
  <2>1. g = 0 /\ ShortFrame
    BY <1>4, <1>10 DEF Ahead
  <2>2. PICK r \in Reading, m \in 2 .. 9 :
          /\ \A j \in 1 .. 8 : MHZ14_RecvMeasureData[j] = Arrived(r, m, j)
          /\ damaged.byte255 \/ Frame(r)[m] # 255
    BY <2>1, Zenon DEF ShortFrame
  <2>3. \A j \in 1 .. 8 : buf[j] = Arrived(r, m, j)
    BY <1>7, <2>2, Zenon
  <2>4. buf[9] = 255
    <3>1. 1 \in 1 .. 9 /\ 1 = g + 1
      BY <2>1
    <3>2. DR[1] = Arrived(sending, l, 1)
      BY <1>3, <1>6, <3>1, Zenon
    <3> QED
      BY <1>2, <1>3, <1>4, <3>2, FirstArrives
  <2>5. Frame(r)[m] = 255
    BY <1>4, <2>3, <2>4, ShortIsRefused
  <2> QED
    BY <2>2, <2>5, Zenon
<1> QED
  BY <1>6, <1>8, <1>9, <1>10

\* As long as no frame loses more than one byte, none a data byte 0xFF, only
\* concentrations that the sensor sent are published, whatever was lost
\* before, for every tail without a byte of the header (MHZ14.c:78).
THEOREM PublishedIsSent ==
  TailPlain => (Mhz14Spec => PublishedWasSent)
<1> SUFFICES ASSUME TailPlain PROVE Mhz14Spec => PublishedWasSent
  OBVIOUS
<1>1. SensorInv /\ SentInv /\ [Mhz14Step]_mhz14Vars => (SensorInv /\ SentInv)'
  BY SensorStep, SentStep
<1>2. Mhz14Init => SensorInv /\ SentInv
  BY SensorInitial, SentInitial
<1>3. SensorInv /\ SentInv /\ [Mhz14Step]_mhz14Vars =>
        [CO2' # CO2 /\ ~damaged.byte255 /\ damaged.frame <= 1 /\ damaged.before <= 1
           => CO2' \in Reading]_mhz14Vars
  BY PublishesSent
<1> QED
  BY <1>1, <1>2, <1>3, PTL DEF Mhz14Spec, PublishedWasSent

-----------------------------------------------------------------------------
(* The display.                                                            *)

-----------------------------------------------------------------------------
(* Columns and their nibbles.                                              *)

\* A number is a multiple and the rest of it.
LEMMA Parted ==
  ASSUME NEW x \in Int, NEW N \in Nat, N > 0
  PROVE  x \div N \in Int /\ x % N \in 0 .. N - 1 /\ x = N * (x \div N) + (x % N)
<1>1. x \div N \in Int
  OBVIOUS
<1>2. x % N \in 0 .. N - 1
  OBVIOUS
<1>3. x = N * (x \div N) + (x % N)
  BY SMTT(30)
<1> QED
  BY <1>1, <1>2, <1>3

\* What clearing the low bits of a column leaves, and what clearing the high
\* bits leaves.
LEMMA NibbleCleared ==
  ASSUME NEW x \in Nat, NEW N \in Nat, N > 0
  PROVE  /\ (x \div N) * N \in Nat /\ (x \div N) * N <= x /\ ((x \div N) * N) % N = 0
         /\ x % N \in Nat /\ x % N <= x
<1> DEFINE q == x \div N
           r == x % N
           y == q * N
           d == y \div N
           m == y % N
<1>1. q \in Int /\ r \in 0 .. N - 1 /\ x = N * q + r
  BY Parted
<1>2. q >= 0
  OBVIOUS
<1>3. r <= x
  OBVIOUS
<1> HIDE DEF q, r
<1>4. y \in Nat /\ y = N * q
  BY <1>1, <1>2
<1>5. y <= x
  <2> HIDE DEF y
  <2> QED
    BY <1>1, <1>4
<1>6. d \in Int /\ m \in 0 .. N - 1 /\ y = N * d + m
  <2> HIDE DEF y
  <2> QED
    BY <1>4, Parted
<1> HIDE DEF d, m, y
<1>7. N * (q - d) = m
  BY <1>1, <1>4, <1>6
<1>8. CASE q - d >= 1
  <2>1. N * (q - d) >= N
    BY <1>1, <1>6, <1>8
  <2> QED
    BY <1>6, <1>7, <2>1
<1>9. CASE q - d <= -1
  <2>1. N * (q - d) <= -N
    BY <1>1, <1>6, <1>9
  <2> QED
    BY <1>6, <1>7, <2>1
<1>10. CASE q - d = 0
  <2>1. m = 0
    BY <1>7, <1>10
  <2> QED
    BY <1>1, <1>3, <1>4, <1>5, <2>1 DEF m, y, q, r
<1> QED
  BY <1>1, <1>6, <1>8, <1>9, <1>10

\* The next column.
LEMMA ColumnAfter ==
  ASSUME NEW C \in Nat, C > 0, NEW x \in 0 .. C - 1
  PROVE  /\ (x + 1) % C = IF x + 1 < C THEN x + 1 ELSE 0
         /\ (x + 1) % C \in 0 .. C - 1
<1>1. CASE x + 1 < C
  BY <1>1
<1>2. CASE ~(x + 1 < C)
  <2>1. x + 1 = C
    BY <1>2
  <2>2. C % C = 0
    <3>1. C % C \in 0 .. C - 1 /\ C \div C \in Int /\ C = C * (C \div C) + (C % C)
      BY Parted
    <3> DEFINE d == C \div C
               m == C % C
    <3>2. d \in Int /\ m \in 0 .. C - 1 /\ C * (1 - d) = m
      <4>1. d \in Int /\ m \in 0 .. C - 1 /\ C = C * d + m
        BY <3>1
      <4> HIDE DEF d, m
      <4> QED
        BY <4>1
    <3> HIDE DEF d, m
    <3>3. CASE 1 - d >= 1
      <4>1. C * (1 - d) >= C
        BY <3>2, <3>3
      <4> QED
        BY <3>2, <4>1
    <3>4. CASE 1 - d <= -1
      <4>1. C * (1 - d) <= -C
        BY <3>2, <3>4
      <4> QED
        BY <3>2, <4>1
    <3>5. CASE 1 - d = 0
      <4>1. m = 0
        BY <3>2, <3>5
      <4> QED
        BY <4>1 DEF m
    <3> QED
      BY <3>2, <3>3, <3>4, <3>5
  <2> QED
    BY <1>2, <2>1, <2>2
<1> QED
  BY <1>1, <1>2

-----------------------------------------------------------------------------
(* Types.                                                                  *)

\* The assumption on the constants, in parts.
LEMMA OledConstants ==
  /\ Pages \in Nat /\ Pages > 0 /\ Columns \in Nat /\ Columns > 0
  /\ Nibble \in Nat /\ Nibble > 0 /\ ByteBits \in Nat /\ ByteBits > 0
  /\ DrawCells \subseteq Cell
  /\ PageBytes = Columns + 3 /\ EndPhase = ByteBits + 3
BY OledAssumption DEF OledAssumption, Cell, PageBytes, EndPhase

\* A cell is a page and a column.
LEMMA CellIs ==
  ASSUME NEW c
  PROVE  c \in Cell <=> /\ c = <<c[1], c[2]>>
                        /\ c[1] \in 0 .. Pages - 1 /\ c[2] \in 0 .. Columns - 1
BY DEF Cell

\* What the type invariant says of one of the two.
LEMMA ActorTypes ==
  ASSUME OledTypeOK, NEW a \in Actor
  PROVE  /\ byte[a] = <<byte[a][1], byte[a][2]>>
         /\ byte[a][1] \in 0 .. Pages - 1 /\ byte[a][2] \in 0 .. PageBytes - 1
         /\ phase[a] \in 0 .. EndPhase
         /\ pos = <<pos[1], pos[2]>> /\ pos \in Cell
         /\ pos[1] \in 0 .. Pages - 1 /\ pos[2] \in 0 .. Columns - 1
         /\ bus.DC \in 0 .. 1 /\ bus.CS \in 0 .. 1
<1>1. byte[a] \in (0 .. Pages - 1) \X (0 .. PageBytes - 1)
  BY DEF OledTypeOK
<1>2. pos \in Cell
  BY Zenon DEF OledTypeOK
<1>3. /\ byte[a] = <<byte[a][1], byte[a][2]>>
      /\ byte[a][1] \in 0 .. Pages - 1 /\ byte[a][2] \in 0 .. PageBytes - 1
  BY <1>1
<1>4. phase[a] \in 0 .. EndPhase
  BY DEF OledTypeOK
<1>5. bus.DC \in 0 .. 1 /\ bus.CS \in 0 .. 1
  BY DEF OledTypeOK
<1>6. pos = <<pos[1], pos[2]>> /\ pos[1] \in 0 .. Pages - 1 /\ pos[2] \in 0 .. Columns - 1
  BY <1>2, CellIs
<1> QED
  BY <1>2, <1>3, <1>4, <1>5, <1>6, Zenon

\* DC is low only where a command of the running refresh is being sent.
DcInv ==
  bus.DC = 0 =>
    IF task["key"] = "idle"
    THEN task["main"] = "refresh" /\ phase["main"] >= 1 /\ IsCommand(byte["main"])
    ELSE phase["key"] >= 1 => IsCommand(byte["key"])

\* A command leaves the pointers on the screen.
LEMMA CommandTypes ==
  ASSUME NEW n, n[1] \in 0 .. Pages - 1, n[2] \in {0, 1, 2},
         NEW p \in Cell
  PROVE  Command(n, p) \in Cell
<1>1. p[1] \in 0 .. Pages - 1 /\ p[2] \in 0 .. Columns - 1
  BY CellIs
<1>2. p[2] \in Nat /\ Nibble \in Nat /\ Nibble > 0 /\ Columns \in Nat
  BY <1>1, OledConstants
<1> DEFINE high == (p[2] \div Nibble) * Nibble
           low == p[2] % Nibble
<1>3. high \in Nat /\ high <= p[2] /\ low \in Nat /\ low <= p[2]
  BY <1>2, NibbleCleared
<1> HIDE DEF high, low
<1>4. high \in 0 .. Columns - 1 /\ low \in 0 .. Columns - 1
  BY <1>1, <1>2, <1>3
<1>5. CASE n[2] = 0
  BY <1>1, <1>5 DEF Command, PageCommand, Cell
<1>6. CASE n[2] = 1
  <2>1. Command(n, p) = <<p[1], high>>
    BY <1>6 DEF Command, high
  <2> QED
    BY <1>1, <1>4, <2>1 DEF Cell
<1>7. CASE n[2] = 2
  <2>1. Command(n, p) = <<p[1], low>>
    BY <1>7 DEF Command, low
  <2> QED
    BY <1>1, <1>4, <2>1 DEF Cell
<1> QED
  BY <1>5, <1>6, <1>7

\* The next column of the same page is on the screen.
LEMMA ColumnTypes ==
  ASSUME NEW p \in Cell
  PROVE  <<p[1], (p[2] + 1) % Columns>> \in Cell
<1>1. p[1] \in 0 .. Pages - 1 /\ p[2] \in 0 .. Columns - 1
  BY CellIs
<1>2. (p[2] + 1) % Columns \in 0 .. Columns - 1
  BY <1>1, OledConstants, ColumnAfter
<1> QED
  BY <1>1, <1>2 DEF Cell

\* The cell that a data byte is for.
LEMMA CellOfByte ==
  ASSUME OledTypeOK, NEW a \in Actor, ~IsCommand(byte[a])
  PROVE  CellOf(byte[a]) \in Cell
<1>1. byte[a][1] \in 0 .. Pages - 1 /\ byte[a][2] \in 0 .. PageBytes - 1
  BY ActorTypes
<1>2. byte[a][2] - 3 \in 0 .. Columns - 1
  BY <1>1, OledConstants DEF IsCommand
<1> QED
  BY <1>1, <1>2 DEF CellOf, Cell

\* A byte latched leaves the pointers and the screen well typed.
LEMMA LatchTypes ==
  ASSUME OledTypeOK, NEW a \in Actor, Latch(a), bus.DC = 0 => IsCommand(byte[a])
  PROVE  pos' \in Cell /\ screen' \in [Cell -> Pixels]
<1>1. pos \in Cell /\ screen \in [Cell -> Pixels] /\ OLED_GRAM \in [Cell -> Pixels]
  BY DEF OledTypeOK
<1>2. CASE pos' = pos /\ screen' = screen
  BY <1>1, <1>2
<1>3. CASE bus.DC = 0 /\ pos' = Command(byte[a], pos) /\ screen' = screen
  <2>1. byte[a][1] \in 0 .. Pages - 1 /\ byte[a][2] \in {0, 1, 2}
    BY <1>3, ActorTypes, OledConstants DEF IsCommand
  <2> QED
    BY <1>1, <1>3, <2>1, CommandTypes, Zenon
<1>4. CASE /\ screen' = [screen EXCEPT ![pos] = Pattern(byte[a])]
           /\ pos' = <<pos[1], (pos[2] + 1) % Columns>>
  <2>1. Pattern(byte[a]) \in Pixels
    <3>1. CASE IsCommand(byte[a])
      BY <3>1 DEF Pattern, Pixels
    <3>2. CASE ~IsCommand(byte[a])
      <4>1. CellOf(byte[a]) \in Cell
        BY <3>2, CellOfByte
      <4> QED
        BY <1>1, <3>2, <4>1 DEF Pattern
    <3> QED
      BY <3>1, <3>2
  <2>2. pos' \in Cell
    BY <1>1, <1>4, ColumnTypes, Zenon
  <2> HIDE DEF Pattern
  <2> QED
    BY <1>1, <1>4, <2>1, <2>2
<1> QED
  BY <1>2, <1>3, <1>4, Zenon DEF Latch

\* A step of a byte keeps the types, and DC low only for a command.
LEMMA SendTypes ==
  ASSUME OledTypeOK, DcInv, NEW a \in Actor, SendStep(a)
  PROVE  OledTypeOK' /\ DcInv'
<1>1. /\ UNCHANGED <<OLED_GRAM, drawing, filled, task, byte, cut>>
      /\ phase[a] < EndPhase /\ phase' = [phase EXCEPT ![a] = @ + 1] /\ Sending(a)
  BY DEF SendStep
<1>2. phase \in [Actor -> 0 .. EndPhase] /\ EndPhase \in Nat /\ phase[a] \in 0 .. EndPhase
  <2>1. EndPhase \in Nat
    BY OledConstants
  <2>2. phase[a] \in 0 .. EndPhase
    BY ActorTypes
  <2> QED
    BY <2>1, <2>2 DEF OledTypeOK
<1>3. phase' \in [Actor -> 0 .. EndPhase] /\ phase'[a] = phase[a] + 1
      /\ \A b \in Actor : phase'[b] >= phase[b]
  <2>1. \A b \in Actor : phase[b] \in 0 .. EndPhase
    BY <1>2
  <2> QED
    BY <1>1, <1>2, <2>1
<1>4. bus.DC = 0 /\ phase[a] >= 1 => IsCommand(byte[a])
  BY <1>1 DEF DcInv, Sending, Running, Actor
<1>5. bus \in [DC : 0 .. 1, CS : 0 .. 1] /\ pos \in Cell /\ screen \in [Cell -> Pixels]
  BY DEF OledTypeOK
<1>6. /\ bus' \in [DC : 0 .. 1, CS : 0 .. 1] /\ pos' \in Cell /\ screen' \in [Cell -> Pixels]
      /\ bus'.DC = 0 => IsCommand(byte[a])
  <2>1. CASE SetDC(a)
    BY <1>5, <2>1 DEF SetDC
  <2>2. CASE ClearCS(a)
    BY <1>4, <1>5, <2>2 DEF ClearCS
  <2>3. CASE SendBit(a)
    <3>1. bus' = bus /\ phase[a] >= 1
      BY <1>2, <2>3 DEF SendBit
    <3>2. bus'.DC = 0 => IsCommand(byte[a])
      BY <1>4, <3>1
    <3>3. CASE UNCHANGED <<pos, screen>>
      BY <1>5, <3>1, <3>2, <3>3
    <3>4. CASE Latch(a)
      <4>1. pos' \in Cell /\ screen' \in [Cell -> Pixels]
        BY <1>4, <3>1, <3>4, LatchTypes
      <4> QED
        BY <1>5, <3>1, <3>2, <4>1
    <3> QED
      BY <2>3, <3>3, <3>4 DEF SendBit
  <2>4. CASE SetCS(a)
    <3>1. phase[a] >= 1
      BY <2>4, OledConstants DEF SetCS
    <3> QED
      BY <1>4, <1>5, <2>4, <3>1 DEF SetCS
  <2> QED
    BY <2>1, <2>2, <2>3, <2>4 DEF SendStep
<1>7. OledTypeOK'
  BY <1>1, <1>3, <1>6 DEF OledTypeOK
<1>8. DcInv'
  <2>1. /\ task' = task /\ byte' = byte /\ phase'[a] >= 1
    BY <1>1, <1>2, <1>3
  <2>2. CASE a = "main"
    <3>1. task["key"] = "idle" /\ task["main"] = "refresh"
      BY <1>1, <2>2 DEF Sending, Running, OledTypeOK
    <3> QED
      BY <1>6, <2>1, <2>2, <3>1 DEF DcInv, IsCommand
  <2>3. CASE a = "key"
    <3>1. task["key"] # "idle"
      BY <1>1, <2>3 DEF Sending, Running
    <3> QED
      BY <1>6, <2>1, <2>3, <3>1 DEF DcInv, IsCommand
  <2> QED
    BY <2>2, <2>3 DEF Actor
<1> QED
  BY <1>7, <1>8

\* Main draws only between refreshes, and a refresh that is interrupted is cut.
TurnInv ==
  /\ drawing # <<>> => task["main"] = "draw"
  /\ task["main"] = "refresh" /\ task["key"] # "idle" => cut

\* Once the memory has been cleared, the old frame is left in one cell at most:
\* the one that main holds a copy of.
GhostInv ==
  filled => \E x \in Cell : /\ \A c \in Cell : "old" \in OLED_GRAM[c] => c = x
                            /\ drawing # <<>> /\ "old" \in drawing[2] => drawing[1] = x

\* What the next byte is.
LEMMA NextOfTypes ==
  ASSUME OledTypeOK, NEW a \in Actor, byte[a] # LastByte
  PROVE  /\ NextOf(byte[a]) \in (0 .. Pages - 1) \X (0 .. PageBytes - 1)
         /\ NextOf(byte[a]) = IF byte[a][2] < PageBytes - 1
                              THEN <<byte[a][1], byte[a][2] + 1>> ELSE <<byte[a][1] + 1, 0>>
<1>1. /\ byte[a] = <<byte[a][1], byte[a][2]>>
      /\ byte[a][1] \in 0 .. Pages - 1 /\ byte[a][2] \in 0 .. PageBytes - 1
  BY ActorTypes
<1> DEFINE p == byte[a][1]
           k == byte[a][2]
<1>2. ~(p = Pages - 1 /\ k = PageBytes - 1)
  BY <1>1 DEF LastByte
<1>3. p \in 0 .. Pages - 1 /\ k \in 0 .. PageBytes - 1
  BY <1>1
<1> HIDE DEF p, k
<1>4. Pages \in Nat /\ PageBytes \in Nat /\ PageBytes > 0
  BY OledConstants
<1>5. CASE k < PageBytes - 1
  BY <1>3, <1>4, <1>5 DEF NextOf, p, k
<1>6. CASE ~(k < PageBytes - 1)
  <2>1. p + 1 \in 0 .. Pages - 1
    BY <1>2, <1>3, <1>4, <1>6
  <2> QED
    BY <1>4, <1>6, <2>1 DEF NextOf, p, k
<1> QED
  BY <1>5, <1>6

\* Types, turns and ghosts, action by action.
LEMMA NextByteBasic ==
  ASSUME OledTypeOK, DcInv, NEW a \in Actor, NextByte(a)
  PROVE  OledTypeOK' /\ DcInv'
<1>1. /\ UNCHANGED <<OLED_GRAM, drawing, task, pos, screen>>
      /\ bus' = [bus EXCEPT !.DC = 1] /\ byte[a] # LastByte
      /\ byte' = [byte EXCEPT ![a] = NextOf(@)] /\ phase' = [phase EXCEPT ![a] = 0]
  BY DEF NextByte
<1>2. NextOf(byte[a]) \in (0 .. Pages - 1) \X (0 .. PageBytes - 1)
  BY <1>1, NextOfTypes
<1>3. byte' \in [Actor -> (0 .. Pages - 1) \X (0 .. PageBytes - 1)]
  <2> HIDE DEF NextOf
  <2> QED
    BY <1>1, <1>2 DEF OledTypeOK
<1>4. phase' \in [Actor -> 0 .. EndPhase]
  <2>1. phase \in [Actor -> 0 .. EndPhase] /\ EndPhase \in Nat
    BY OledConstants DEF OledTypeOK
  <2> QED
    BY <1>1, <2>1
<1>5. bus' \in [DC : 0 .. 1, CS : 0 .. 1] /\ bus'.DC = 1
  <2>1. bus \in [DC : 0 .. 1, CS : 0 .. 1]
    BY DEF OledTypeOK
  <2> QED
    BY <1>1, <2>1
<1>6. OledTypeOK'
  BY <1>1, <1>3, <1>4, <1>5 DEF OledTypeOK
<1>7. DcInv'
  BY <1>5 DEF DcInv
<1> QED
  BY <1>6, <1>7

\* A refresh begins with the first byte.
LEMMA FirstByteTypes ==
  ASSUME OledTypeOK, NEW a \in Actor, Refresh(a)
  PROVE  /\ byte' \in [Actor -> (0 .. Pages - 1) \X (0 .. PageBytes - 1)]
         /\ phase' \in [Actor -> 0 .. EndPhase]
         /\ byte'[a] = <<0, 0>> /\ phase'[a] = 0
         /\ \A b \in Actor : b # a => byte'[b] = byte[b] /\ phase'[b] = phase[b]
<1>1. FirstByte \in (0 .. Pages - 1) \X (0 .. PageBytes - 1)
  BY OledConstants DEF FirstByte
<1>2. /\ byte \in [Actor -> (0 .. Pages - 1) \X (0 .. PageBytes - 1)]
      /\ phase \in [Actor -> 0 .. EndPhase] /\ EndPhase \in Nat
  BY OledConstants DEF OledTypeOK
<1>3. byte' = [byte EXCEPT ![a] = FirstByte] /\ phase' = [phase EXCEPT ![a] = 0]
  BY DEF Refresh
<1>4. FirstByte = <<0, 0>>
  BY DEF FirstByte
<1> HIDE DEF FirstByte
<1> QED
  BY <1>1, <1>2, <1>3, <1>4

LEMMA KeyFillBasic ==
  ASSUME OledTypeOK, DcInv, TurnInv, KeyFill
  PROVE  OledTypeOK' /\ DcInv' /\ TurnInv' /\ GhostInv'
<1>1. /\ task["key"] = "idle" /\ task' = [task EXCEPT !["key"] = "fill"]
      /\ Refresh("key") /\ OLED_GRAM' = [c \in Cell |-> {}]
      /\ cut' = (cut \/ task["main"] = "refresh")
      /\ UNCHANGED <<drawing, bus, shift, pos, screen, garbled>>
  BY DEF KeyFill
<1>2. /\ byte' \in [Actor -> (0 .. Pages - 1) \X (0 .. PageBytes - 1)]
      /\ phase' \in [Actor -> 0 .. EndPhase] /\ phase'["key"] = 0
  BY <1>1, FirstByteTypes DEF Actor
<1>3. OLED_GRAM' \in [Cell -> Pixels]
  BY <1>1 DEF Pixels
<1>4. /\ task' \in [Actor -> {"draw", "refresh", "idle", "fill", "frame"}]
      /\ task'["main"] = task["main"] /\ task'["key"] = "fill"
  BY <1>1 DEF OledTypeOK, Actor
<1>5. OledTypeOK'
  BY <1>1, <1>2, <1>3, <1>4 DEF OledTypeOK
<1>6. DcInv'
  BY <1>2, <1>4 DEF DcInv
<1>7. TurnInv'
  BY <1>1, <1>4 DEF TurnInv
<1>8. GhostInv'
  <2>1. <<0, 0>> \in Cell
    BY OledConstants DEF Cell
  <2>2. \A c \in Cell : ~("old" \in OLED_GRAM'[c])
    BY <1>1
  <2>3. CASE drawing = <<>>
    BY <1>1, <2>1, <2>2, <2>3 DEF GhostInv
  <2>4. CASE drawing # <<>>
    <3>1. drawing[1] \in Cell
      BY <2>4 DEF OledTypeOK
    <3> QED
      BY <1>1, <2>2, <3>1 DEF GhostInv
  <2> QED
    BY <2>3, <2>4
<1> QED
  BY <1>5, <1>6, <1>7, <1>8

LEMMA EndRefreshBasic ==
  ASSUME OledTypeOK, DcInv, TurnInv, GhostInv, NEW a \in Actor, EndRefresh(a)
  PROVE  OledTypeOK' /\ DcInv' /\ TurnInv' /\ GhostInv'
<1>1. /\ Sending(a) /\ bus' = [bus EXCEPT !.DC = 1] /\ Refresh(a)
      /\ UNCHANGED <<drawing, filled, cut, shift, pos, screen, garbled>>
      /\ \/ /\ task[a] = "fill" /\ task' = [task EXCEPT ![a] = "frame"]
            /\ OLED_GRAM' = KeyFrame
         \/ /\ task[a] # "fill" /\ UNCHANGED OLED_GRAM
            /\ task' = [task EXCEPT ![a] = IF a = "main" THEN "draw" ELSE "idle"]
  BY DEF EndRefresh, Refresh
<1>2. /\ byte' \in [Actor -> (0 .. Pages - 1) \X (0 .. PageBytes - 1)]
      /\ phase' \in [Actor -> 0 .. EndPhase]
  BY <1>1, FirstByteTypes
<1>3. bus' \in [DC : 0 .. 1, CS : 0 .. 1] /\ bus'.DC = 1
  <2>1. bus \in [DC : 0 .. 1, CS : 0 .. 1]
    BY DEF OledTypeOK
  <2> QED
    BY <1>1, <2>1
<1>4. /\ OLED_GRAM' \in [Cell -> Pixels]
      /\ \A c \in Cell : "old" \in OLED_GRAM'[c] => "old" \in OLED_GRAM[c]
  <2>1. OLED_GRAM \in [Cell -> Pixels]
    BY DEF OledTypeOK
  <2>2. KeyFrame \in [Cell -> Pixels]
        /\ \A c \in Cell : "old" \in KeyFrame[c] => "old" \in OLED_GRAM[c]
    BY <2>1 DEF KeyFrame, Pixels
  <2> QED
    BY <1>1, <2>1, <2>2
<1>5. /\ task' \in [Actor -> {"draw", "refresh", "idle", "fill", "frame"}]
      /\ task'["main"] \in {"draw", "refresh"} /\ task'["key"] \in {"idle", "fill", "frame"}
      /\ task'["main"] # task["main"] => task'["main"] = "draw"
      /\ task'["key"] # "idle" => task["key"] # "idle"
  BY <1>1 DEF OledTypeOK, Actor, Sending, Running
<1>6. OledTypeOK'
  BY <1>1, <1>2, <1>3, <1>4, <1>5 DEF OledTypeOK
<1>7. DcInv'
  BY <1>3 DEF DcInv
<1>8. TurnInv'
  BY <1>1, <1>5 DEF TurnInv, OledTypeOK
<1>9. GhostInv'
  BY <1>1, <1>4 DEF GhostInv
<1> QED
  BY <1>6, <1>7, <1>8, <1>9

LEMMA MainRefreshBasic ==
  ASSUME OledTypeOK, DcInv, TurnInv, GhostInv, MainRefresh
  PROVE  OledTypeOK' /\ DcInv' /\ TurnInv' /\ GhostInv'
<1>1. /\ task["key"] = "idle" /\ task["main"] = "draw" /\ drawing = <<>>
      /\ task' = [task EXCEPT !["main"] = "refresh"] /\ Refresh("main")
      /\ UNCHANGED <<OLED_GRAM, drawing, filled, bus, shift, pos, screen, garbled>>
  BY DEF MainRefresh, Running
<1>2. /\ byte' \in [Actor -> (0 .. Pages - 1) \X (0 .. PageBytes - 1)]
      /\ phase' \in [Actor -> 0 .. EndPhase]
  BY <1>1, FirstByteTypes DEF Actor
<1>3. /\ task' \in [Actor -> {"draw", "refresh", "idle", "fill", "frame"}]
      /\ task'["main"] = "refresh" /\ task'["key"] = "idle"
  BY <1>1 DEF OledTypeOK, Actor
<1>4. OledTypeOK'
  BY <1>1, <1>2, <1>3 DEF OledTypeOK
<1>5. bus.DC # 0
  BY <1>1 DEF DcInv
<1>6. DcInv'
  BY <1>1, <1>5 DEF DcInv
<1>7. TurnInv'
  BY <1>1, <1>3 DEF TurnInv
<1>8. GhostInv'
  BY <1>1 DEF GhostInv
<1> QED
  BY <1>4, <1>6, <1>7, <1>8

LEMMA DrawBasic ==
  ASSUME OledTypeOK, DcInv, TurnInv, GhostInv,
         DrawStore \/ \E c \in DrawCells : DrawLoad(c)
  PROVE  OledTypeOK' /\ DcInv' /\ TurnInv' /\ GhostInv'
<1>1. OLED_GRAM \in [Cell -> Pixels]
  BY DEF OledTypeOK
<1>2. CASE \E c \in DrawCells : DrawLoad(c)
  <2>1. PICK c \in DrawCells : DrawLoad(c)
    BY <1>2
  <2>2. /\ drawing' = <<c, OLED_GRAM[c]>> /\ task["main"] = "draw" /\ drawing = <<>>
        /\ UNCHANGED <<OLED_GRAM, filled, task, byte, phase, cut, bus, shift, pos, screen,
                       garbled>>
    BY <2>1 DEF DrawLoad
  <2>3. c \in Cell /\ OLED_GRAM[c] \in Pixels
    BY <1>1, OledConstants
  <2>4. drawing' \in Cell \X Pixels /\ drawing'[1] = c /\ drawing'[2] = OLED_GRAM[c]
    BY <2>2, <2>3
  <2>5. OledTypeOK'
    BY <2>2, <2>4 DEF OledTypeOK
  <2>6. DcInv' /\ TurnInv'
    BY <2>2 DEF DcInv, TurnInv
  <2>7. GhostInv'
    BY <2>2, <2>3, <2>4 DEF GhostInv
  <2> QED
    BY <2>5, <2>6, <2>7
<1>3. CASE DrawStore
  <2>1. /\ drawing # <<>> /\ drawing' = <<>>
        /\ OLED_GRAM' = [OLED_GRAM EXCEPT ![drawing[1]] = drawing[2] \cup {"data"}]
        /\ UNCHANGED <<filled, task, byte, phase, cut, bus, shift, pos, screen, garbled>>
    BY <1>3 DEF DrawStore
  <2>2. drawing \in Cell \X Pixels
    BY <2>1 DEF OledTypeOK
  <2>3. drawing[1] \in Cell /\ drawing[2] \in Pixels
    BY <2>2
  <2>4. drawing[2] \cup {"data"} \in Pixels
    BY <2>3 DEF Pixels
  <2>5. OLED_GRAM' \in [Cell -> Pixels]
    BY <1>1, <2>1, <2>3, <2>4
  <2>6. OledTypeOK'
    BY <2>1, <2>5 DEF OledTypeOK
  <2>7. DcInv' /\ TurnInv'
    BY <2>1 DEF DcInv, TurnInv
  <2>8. \A c \in Cell : "old" \in OLED_GRAM'[c] =>
          "old" \in OLED_GRAM[c] \/ (c = drawing[1] /\ "old" \in drawing[2])
    BY <1>1, <2>1, <2>3
  <2>9. GhostInv'
    BY <2>1, <2>8 DEF GhostInv
  <2> QED
    BY <2>6, <2>7, <2>9
<1> QED
  BY <1>2, <1>3

-----------------------------------------------------------------------------
(* The bus.                                                                *)

\* Bits of the other's are in the shift register.
Alien(a) == \E i \in DOMAIN shift : shift[i] # a

ShiftInv == shift \in Seq(Actor) /\ Len(shift) < ByteBits

\* While a is sending, the bits in the register are those it has sent of its
\* byte, and more of them only when some are alien.
LinesInv(a) ==
  /\ phase[a] < 2 => Alien(a) \/ shift = <<>>
  /\ bus.CS = 0 /\ phase[a] \in 2 .. ByteBits + 1 =>
       IF Alien(a) THEN Len(shift) > phase[a] - 2 ELSE Len(shift) = phase[a] - 2
  /\ bus.CS = 1 /\ phase[a] >= 2 => shift = <<>>
  /\ phase[a] > ByteBits + 1 => shift = <<>>
  /\ phase[a] = EndPhase => bus.CS = 1

\* What latching a's own byte does.
OwnLatch(a) ==
  /\ bus.DC = 0 => pos' = Command(byte[a], pos) /\ screen' = screen
  /\ bus.DC # 0 => /\ screen' = [screen EXCEPT ![pos] = Pattern(byte[a])]
                   /\ pos' = <<pos[1], (pos[2] + 1) % Columns>>

\* A bit appended to the register.
LEMMA BitAppended ==
  ASSUME ShiftInv, NEW a \in Actor, shift' = Append(shift, a)
  PROVE  /\ shift' \in Seq(Actor) /\ Len(shift') = Len(shift) + 1 /\ Len(shift) \in Nat
         /\ Alien(a)' <=> Alien(a)
<1>1. /\ shift \in Seq(Actor) /\ Len(shift) \in Nat
      /\ Append(shift, a) \in Seq(Actor) /\ Len(Append(shift, a)) = Len(shift) + 1
  BY DEF ShiftInv
<1>2. \A i \in DOMAIN shift : Append(shift, a)[i] = shift[i]
  BY <1>1
<1>3. /\ DOMAIN Append(shift, a) = 1 .. Len(shift) + 1 /\ DOMAIN shift = 1 .. Len(shift)
      /\ Append(shift, a)[Len(shift) + 1] = a
  BY <1>1
<1>4. \A i \in DOMAIN Append(shift, a) : i \in DOMAIN shift \/ i = Len(shift) + 1
  BY <1>1, <1>3
<1>5. DOMAIN shift \subseteq DOMAIN Append(shift, a)
  BY <1>1, <1>3
<1>6. Alien(a)' <=> Alien(a)
  BY <1>2, <1>3, <1>4, <1>5, Zenon DEF Alien
<1> QED
  BY <1>1, <1>6

\* An empty register holds nobody's bits.
LEMMA EmptyShift ==
  /\ <<>> \in Seq(Actor) /\ Len(<<>>) = 0
  /\ \A a \in Actor : shift = <<>> => ~Alien(a)
  /\ \A a \in Actor : shift' = <<>> => ~Alien(a)'
BY DEF Alien

\* A step of a byte keeps the lines; the byte is latched with its last bit, or
\* never, when the chip is not selected, or else it was garbled.
LEMMA SendLines ==
  ASSUME OledTypeOK, ShiftInv, NEW a \in Actor, LinesInv(a), SendStep(a), ~garbled'
  PROVE  /\ ShiftInv' /\ LinesInv(a)' /\ (~Alien(a) => ~Alien(a)')
         /\ IF phase[a] = ByteBits + 1 /\ bus.CS = 0
            THEN OwnLatch(a) ELSE UNCHANGED <<pos, screen>>
<1>1. /\ phase[a] \in 0 .. ByteBits + 2 /\ ByteBits \in Nat /\ ByteBits > 0
      /\ EndPhase = ByteBits + 3 /\ phase'[a] = phase[a] + 1 /\ bus.CS \in 0 .. 1
  <2>1. phase[a] \in 0 .. EndPhase /\ phase[a] < EndPhase /\ bus.CS \in 0 .. 1
    BY ActorTypes DEF SendStep
  <2>2. phase'[a] = phase[a] + 1
    BY DEF SendStep, OledTypeOK
  <2> QED
    BY <2>1, <2>2, OledConstants
<1>2. ShiftInv /\ Len(shift) \in Nat /\ Len(shift) < ByteBits
  BY DEF ShiftInv
<1>3. CASE SetDC(a)
  <2>1. phase[a] = 0 /\ UNCHANGED <<shift, pos, screen>>
    BY <1>3 DEF SetDC
  <2>2. (Alien(a) \/ shift = <<>>) /\ (Alien(a)' <=> Alien(a))
    BY <1>1, <2>1 DEF LinesInv, Alien
  <2>3. phase'[a] = 1
    BY <1>1, <2>1
  <2>4. LinesInv(a)'
    BY <1>1, <2>1, <2>2, <2>3 DEF LinesInv
  <2> QED
    BY <1>1, <2>1, <2>2, <2>4 DEF ShiftInv
<1>4. CASE ClearCS(a)
  <2>1. phase[a] = 1 /\ UNCHANGED <<shift, pos, screen>>
    BY <1>4 DEF ClearCS
  <2>2. (Alien(a) \/ shift = <<>>) /\ (Alien(a)' <=> Alien(a))
    BY <1>1, <2>1 DEF LinesInv, Alien
  <2>3. Alien(a) => Len(shift) > 0
    <3>1. shift \in Seq(Actor) /\ DOMAIN shift = 1 .. Len(shift)
      BY DEF ShiftInv
    <3>2. Alien(a) => \E i \in 1 .. Len(shift) : TRUE
      BY <3>1 DEF Alien
    <3> QED
      BY <1>2, <3>2
  <2>4. shift = <<>> => Len(shift) = 0 /\ ~Alien(a)
    BY EmptyShift
  <2>5. phase'[a] = 2
    BY <1>1, <2>1
  <2>6. IF Alien(a)' THEN Len(shift') > phase'[a] - 2 ELSE Len(shift') = phase'[a] - 2
    BY <1>2, <2>1, <2>2, <2>3, <2>4, <2>5
  <2>7. bus'.CS = 0
    BY <1>4 DEF ClearCS, OledTypeOK
  <2>8. LinesInv(a)'
    BY <1>1, <2>5, <2>6, <2>7 DEF LinesInv
  <2> QED
    BY <1>1, <2>1, <2>2, <2>8 DEF ShiftInv
<1>5. CASE SendBit(a)
  <2>1. phase[a] \in 2 .. ByteBits + 1 /\ bus' = bus
    BY <1>5 DEF SendBit
  <2>2. CASE bus.CS = 1
    <3>1. UNCHANGED <<shift, pos, screen>>
      BY <1>5, <2>2 DEF SendBit
    <3>2. (Alien(a)' <=> Alien(a)) /\ bus'.CS = 1
      BY <2>1, <2>2, <3>1 DEF Alien
    <3>3. shift = <<>>
      BY <1>1, <2>1, <2>2 DEF LinesInv
    <3>4. LinesInv(a)'
      BY <1>1, <2>1, <3>1, <3>2, <3>3 DEF LinesInv
    <3> QED
      BY <2>2, <3>1, <3>2, <3>4 DEF ShiftInv
  <2>3. CASE bus.CS = 0 /\ Len(shift) + 1 < ByteBits
    <3>1. shift' = Append(shift, a) /\ UNCHANGED <<pos, screen>>
      BY <1>5, <2>3 DEF SendBit
    <3>2. /\ shift' \in Seq(Actor) /\ Len(shift') = Len(shift) + 1
          /\ Alien(a)' <=> Alien(a)
      BY <3>1, BitAppended, Zenon
    <3>3. IF Alien(a) THEN Len(shift) > phase[a] - 2 ELSE Len(shift) = phase[a] - 2
      BY <2>1, <2>3 DEF LinesInv
    <3>4. phase[a] < ByteBits + 1
      BY <1>1, <1>2, <2>1, <2>3, <3>3
    <3>5. IF Alien(a)' THEN Len(shift') > phase'[a] - 2 ELSE Len(shift') = phase'[a] - 2
      BY <1>1, <1>2, <3>2, <3>3
    <3>6. phase'[a] >= 2 /\ ~(phase'[a] > ByteBits + 1) /\ phase'[a] # EndPhase
      BY <1>1, <2>1, <3>4
    <3>7. LinesInv(a)'
      BY <1>1, <2>1, <2>3, <3>5, <3>6 DEF LinesInv
    <3>8. ShiftInv'
      BY <2>3, <3>2 DEF ShiftInv
    <3>9. phase[a] # ByteBits + 1
      BY <1>1, <3>4
    <3> QED
      BY <3>1, <3>2, <3>7, <3>8, <3>9
  <2>4. CASE bus.CS = 0 /\ ~(Len(shift) + 1 < ByteBits)
    <3>1. shift' = <<>> /\ Latch(a)
      BY <1>5, <2>4 DEF SendBit
    <3>2. ~Alien(a)
      BY <3>1 DEF Latch, Alien
    <3>3. OwnLatch(a)
      BY <3>1, <3>2 DEF Latch, OwnLatch, Alien
    <3>4. Len(shift) = phase[a] - 2
      BY <2>1, <2>4, <3>2 DEF LinesInv
    <3>5. phase[a] = ByteBits + 1
      BY <1>1, <1>2, <2>1, <2>4, <3>4
    <3>6. phase'[a] = ByteBits + 2
      BY <1>1, <3>5
    <3>7. LinesInv(a)'
      BY <1>1, <3>1, <3>6 DEF LinesInv
    <3>8. ShiftInv' /\ ~Alien(a)'
      BY <1>1, <3>1, EmptyShift DEF ShiftInv
    <3> QED
      BY <2>4, <3>3, <3>5, <3>7, <3>8
  <2> QED
    BY <1>1, <2>2, <2>3, <2>4
<1>6. CASE SetCS(a)
  <2>1. /\ phase[a] = ByteBits + 2 /\ bus'.CS = 1 /\ shift' = <<>>
        /\ UNCHANGED <<pos, screen>>
    BY <1>6 DEF SetCS, OledTypeOK
  <2>2. phase'[a] = ByteBits + 3
    BY <1>1, <2>1
  <2>3. LinesInv(a)'
    BY <1>1, <2>1, <2>2 DEF LinesInv
  <2>4. ShiftInv' /\ ~Alien(a)'
    BY <1>1, <2>1, EmptyShift DEF ShiftInv
  <2> QED
    BY <1>1, <2>1, <2>3, <2>4
<1> QED
  BY <1>3, <1>4, <1>5, <1>6 DEF SendStep

-----------------------------------------------------------------------------
(* The pointers and the screen.                                            *)

\* The bytes of its page that a has got through.
Latched(a) == IF phase[a] > ByteBits + 1 THEN byte[a][2] + 1 ELSE byte[a][2]

\* The lines and the pointers are where a's refresh has left them.
OnCourse(a) ==
  /\ phase[a] >= 1 => bus.DC = IF IsCommand(byte[a]) THEN 0 ELSE 1
  /\ phase[a] \in 2 .. ByteBits + 2 => bus.CS = 0
  /\ Latched(a) >= 1 => pos[1] = byte[a][1]
  /\ Latched(a) = 2 => pos[2] % Nibble = 0
  /\ Latched(a) >= 3 => pos[2] = IF Latched(a) - 3 < Columns THEN Latched(a) - 3 ELSE 0

\* The cells whose bytes a has got through, and those that show the memory.
SentBy(a, c) == c[1] < byte[a][1] \/ (c[1] = byte[a][1] /\ c[2] + 3 < Latched(a))
Shown(c) == screen[c] = OLED_GRAM[c]

\* A byte in step puts its own cell of the memory into that cell of the screen,
\* and leaves the rest of the screen alone.
LEMMA LatchInStep ==
  ASSUME OledTypeOK, NEW a \in Actor, OnCourse(a), phase[a] = ByteBits + 1, OwnLatch(a)
  PROVE  /\ pos'[1] = byte[a][1]
         /\ byte[a][2] = 1 => pos'[2] % Nibble = 0
         /\ byte[a][2] >= 2 =>
              pos'[2] = IF byte[a][2] - 2 < Columns THEN byte[a][2] - 2 ELSE 0
         /\ IF IsCommand(byte[a]) THEN screen' = screen
            ELSE screen' = [screen EXCEPT ![CellOf(byte[a])] = OLED_GRAM[CellOf(byte[a])]]
<1>1. /\ byte[a][1] \in 0 .. Pages - 1 /\ byte[a][2] \in 0 .. PageBytes - 1
      /\ pos = <<pos[1], pos[2]>> /\ pos[1] \in 0 .. Pages - 1 /\ pos[2] \in 0 .. Columns - 1
  BY ActorTypes
<1> DEFINE k == byte[a][2]
<1>2. /\ ByteBits \in Nat /\ ByteBits > 0 /\ Columns \in Nat /\ Columns > 0 /\ k \in Nat
      /\ k < Columns + 3
  BY <1>1, OledConstants
<1>3. Latched(a) = k
  BY <1>2 DEF Latched
<1>4. /\ bus.DC = IF IsCommand(byte[a]) THEN 0 ELSE 1
      /\ k >= 1 => pos[1] = byte[a][1]
      /\ k = 2 => pos[2] % Nibble = 0
      /\ k >= 3 => pos[2] = IF k - 3 < Columns THEN k - 3 ELSE 0
  BY <1>2, <1>3 DEF OnCourse
<1>5. IsCommand(byte[a]) <=> k < 3
  BY DEF IsCommand
<1> HIDE DEF k
<1>6. CASE k = 0
  <2>1. pos' = <<byte[a][1], pos[2]>> /\ screen' = screen
    BY <1>2, <1>4, <1>5, <1>6 DEF OwnLatch, Command, PageCommand, k
  <2> QED
    BY <1>5, <1>6, <2>1 DEF k
<1>7. CASE k = 1
  <2>1. pos' = <<pos[1], (pos[2] \div Nibble) * Nibble>> /\ screen' = screen
    BY <1>2, <1>4, <1>5, <1>7 DEF OwnLatch, Command, k
  <2>2. ((pos[2] \div Nibble) * Nibble) % Nibble = 0
    <3>1. pos[2] \in Nat /\ Nibble \in Nat /\ Nibble > 0
      BY <1>1, OledConstants
    <3> QED
      BY <3>1, NibbleCleared
  <2>3. pos'[1] = byte[a][1] /\ pos'[2] % Nibble = 0
    BY <1>4, <1>7, <2>1, <2>2
  <2> QED
    BY <1>5, <1>7, <2>1, <2>3 DEF k
<1>8. CASE k = 2
  <2>1. pos' = <<pos[1], pos[2] % Nibble>> /\ screen' = screen
    BY <1>2, <1>4, <1>5, <1>8 DEF OwnLatch, Command, k
  <2>2. pos'[1] = byte[a][1] /\ pos'[2] = 0
    BY <1>4, <1>8, <2>1
  <2> QED
    BY <1>2, <1>5, <1>8, <2>1, <2>2 DEF k
<1>9. CASE k >= 3
  <2>1. pos[1] = byte[a][1] /\ pos[2] = k - 3 /\ ~IsCommand(byte[a])
    BY <1>2, <1>4, <1>5, <1>9
  <2>2. pos = CellOf(byte[a])
    BY <1>1, <2>1 DEF CellOf, k
  <2>3. /\ screen' = [screen EXCEPT ![pos] = OLED_GRAM[CellOf(byte[a])]]
        /\ pos' = <<pos[1], (pos[2] + 1) % Columns>>
    BY <1>4, <2>1 DEF OwnLatch, Pattern
  <2>4. (pos[2] + 1) % Columns = IF pos[2] + 1 < Columns THEN pos[2] + 1 ELSE 0
    BY <1>1, <1>2, ColumnAfter
  <2>5. pos'[1] = byte[a][1] /\ pos'[2] = IF k - 2 < Columns THEN k - 2 ELSE 0
    BY <1>2, <2>1, <2>3, <2>4
  <2> QED
    BY <1>2, <1>9, <2>1, <2>2, <2>3, <2>5 DEF k
<1> QED
  BY <1>2, <1>6, <1>7, <1>8, <1>9

\* A step in step stays in step; it shows one cell more or none.
LEMMA SendInStep ==
  ASSUME OledTypeOK, NEW a \in Actor, OnCourse(a), SendStep(a),
         IF phase[a] = ByteBits + 1 /\ bus.CS = 0
         THEN OwnLatch(a) ELSE UNCHANGED <<pos, screen>>
  PROVE  /\ OnCourse(a)'
         /\ \A c \in Cell : Shown(c) => Shown(c)'
         /\ \A c \in Cell : SentBy(a, c)' => SentBy(a, c) \/ Shown(c)'
<1>1. /\ byte' = byte /\ OLED_GRAM' = OLED_GRAM /\ screen \in [Cell -> Pixels]
      /\ phase[a] \in 0 .. ByteBits + 2 /\ ByteBits \in Nat /\ ByteBits > 0
      /\ phase'[a] = phase[a] + 1 /\ byte[a][2] \in Nat
  <2>1. phase[a] \in 0 .. EndPhase /\ phase[a] < EndPhase /\ byte[a][2] \in 0 .. PageBytes - 1
    BY ActorTypes DEF SendStep
  <2>2. /\ phase'[a] = phase[a] + 1 /\ byte' = byte /\ OLED_GRAM' = OLED_GRAM
        /\ screen \in [Cell -> Pixels]
    BY DEF SendStep, OledTypeOK
  <2> QED
    BY <2>1, <2>2, OledConstants
<1>2. /\ phase[a] = 0 => /\ bus'.DC = IF IsCommand(byte[a]) THEN 0 ELSE 1
                         /\ bus'.CS = bus.CS
      /\ phase[a] = 1 => bus'.DC = bus.DC /\ bus'.CS = 0
      /\ phase[a] \in 2 .. ByteBits + 1 => bus' = bus
      /\ phase[a] = ByteBits + 2 => bus'.DC = bus.DC
  <2>1. bus \in [DC : 0 .. 1, CS : 0 .. 1]
    BY DEF OledTypeOK
  <2>2. SetDC(a) \/ ClearCS(a) \/ SendBit(a) \/ SetCS(a)
    BY DEF SendStep
  <2>3. CASE SetDC(a)
    BY <1>1, <2>1, <2>3 DEF SetDC
  <2>4. CASE ClearCS(a)
    BY <1>1, <2>1, <2>4 DEF ClearCS
  <2>5. CASE SendBit(a)
    BY <1>1, <2>1, <2>5 DEF SendBit
  <2>6. CASE SetCS(a)
    BY <1>1, <2>1, <2>6 DEF SetCS
  <2> QED
    BY <2>2, <2>3, <2>4, <2>5, <2>6
<1>3. /\ phase'[a] >= 1 => bus'.DC = IF IsCommand(byte'[a]) THEN 0 ELSE 1
      /\ phase'[a] \in 2 .. ByteBits + 2 => bus'.CS = 0
  <2>1. CASE phase[a] = 0
    BY <1>1, <1>2, <2>1
  <2>2. CASE phase[a] = 1
    BY <1>1, <1>2, <2>2 DEF OnCourse
  <2>3. CASE phase[a] \in 2 .. ByteBits + 1
    BY <1>1, <1>2, <2>3 DEF OnCourse
  <2>4. CASE phase[a] = ByteBits + 2
    BY <1>1, <1>2, <2>4 DEF OnCourse
  <2> QED
    BY <1>1, <2>1, <2>2, <2>3, <2>4
<1>4. CASE phase[a] = ByteBits + 1
  <2>1. OwnLatch(a)
    BY <1>1, <1>4 DEF OnCourse
  <2>2. Latched(a) = byte[a][2] /\ Latched(a)' = byte[a][2] + 1
    BY <1>1, <1>4 DEF Latched
  <2>3. /\ pos'[1] = byte[a][1]
        /\ byte[a][2] = 1 => pos'[2] % Nibble = 0
        /\ byte[a][2] >= 2 =>
             pos'[2] = IF byte[a][2] - 2 < Columns THEN byte[a][2] - 2 ELSE 0
        /\ IF IsCommand(byte[a]) THEN screen' = screen
           ELSE screen' = [screen EXCEPT ![CellOf(byte[a])] = OLED_GRAM[CellOf(byte[a])]]
    BY <1>4, <2>1, LatchInStep, Zenon
  <2>4. OnCourse(a)'
    <3>1. /\ Latched(a)' = 2 => byte[a][2] = 1
          /\ Latched(a)' >= 3 => byte[a][2] >= 2 /\ Latched(a)' - 3 = byte[a][2] - 2
      BY <1>1, <2>2
    <3> QED
      BY <1>1, <1>3, <2>3, <3>1 DEF OnCourse
  <2>5. \A c \in Cell : Shown(c) => Shown(c)'
    BY <1>1, <2>3 DEF Shown
  <2>6. ASSUME NEW c \in Cell, SentBy(a, c)', ~SentBy(a, c)
        PROVE  Shown(c)'
    <3>1. c = <<c[1], c[2]>> /\ c[1] \in Nat /\ c[2] \in Nat
      BY CellIs, OledConstants
    <3>2. c[1] = byte[a][1] /\ c[2] + 3 = byte[a][2]
      BY <1>1, <2>2, <2>6, <3>1 DEF SentBy
    <3>3. ~IsCommand(byte[a]) /\ CellOf(byte[a]) = c
      BY <1>1, <3>1, <3>2 DEF IsCommand, CellOf
    <3> QED
      BY <1>1, <2>3, <3>3 DEF Shown
  <2> QED
    BY <2>4, <2>5, <2>6
<1>5. CASE phase[a] # ByteBits + 1
  <2>1. UNCHANGED <<pos, screen>>
    BY <1>5
  <2>2. Latched(a)' = Latched(a)
    BY <1>1, <1>5 DEF Latched
  <2>3. OnCourse(a)'
    BY <1>1, <1>3, <2>1, <2>2 DEF OnCourse
  <2>4. \A c \in Cell : Shown(c) => Shown(c)'
    BY <1>1, <2>1 DEF Shown
  <2>5. \A c \in Cell : SentBy(a, c)' => SentBy(a, c)
    BY <1>1, <2>2 DEF SentBy
  <2> QED
    BY <2>3, <2>4, <2>5
<1> QED
  BY <1>4, <1>5

\* A refresh out of step with its pointers in the last page comes into step with
\* its next page command, and writes in the last page only until then.
LEMMA SendLost ==
  ASSUME OledTypeOK, DcInv, NEW a \in Actor, pos[1] = Pages - 1, SendStep(a),
         IF phase[a] = ByteBits + 1 /\ bus.CS = 0
         THEN OwnLatch(a) ELSE UNCHANGED <<pos, screen>>
  PROVE  /\ OnCourse(a)' \/ pos'[1] = Pages - 1
         /\ \A c \in Cell : c[1] < Pages - 1 /\ Shown(c) => Shown(c)'
<1>1. /\ byte' = byte /\ OLED_GRAM' = OLED_GRAM /\ screen \in [Cell -> Pixels]
      /\ phase'[a] = phase[a] + 1 /\ pos \in Cell
  BY DEF SendStep, OledTypeOK
<1>2. CASE ~(phase[a] = ByteBits + 1 /\ bus.CS = 0)
  BY <1>1, <1>2 DEF Shown
<1>3. CASE phase[a] = ByteBits + 1 /\ bus.CS = 0
  <2>1. OwnLatch(a) /\ ByteBits \in Nat /\ ByteBits > 0 /\ Pages \in Nat
        /\ byte[a][2] \in 0 .. PageBytes - 1 /\ PageBytes \in Nat
    BY <1>3, ActorTypes, OledConstants
  <2>2. bus' = bus
    BY <1>3, <2>1 DEF SendStep, SetDC, ClearCS, SendBit, SetCS
  <2>3. CASE bus.DC = 0
    <3>1. IsCommand(byte[a])
      <4>1. task["key"] = "idle" \/ a = "key"
        BY DEF SendStep, Sending, Running, Actor
      <4>2. a = "key" => task["key"] # "idle"
        BY DEF SendStep, Sending, Running
      <4> QED
        BY <1>3, <2>1, <2>3, <4>1, <4>2 DEF DcInv, Actor
    <3>2. pos' = Command(byte[a], pos) /\ screen' = screen
      BY <2>1, <2>3 DEF OwnLatch
    <3>3. \A c \in Cell : Shown(c) => Shown(c)'
      BY <1>1, <3>2 DEF Shown
    <3>4. CASE byte[a][2] = 0
      <4>1. pos' = <<byte[a][1], pos[2]>>
        BY <3>2, <3>4 DEF Command, PageCommand
      <4>2. Latched(a)' = 1 /\ phase'[a] = ByteBits + 2 /\ pos'[1] = byte'[a][1]
        BY <1>1, <1>3, <2>1, <3>4, <4>1 DEF Latched
      <4>3. OnCourse(a)'
        BY <1>1, <1>3, <2>1, <2>2, <2>3, <3>1, <4>2 DEF OnCourse
      <4> QED
        BY <3>3, <4>3
    <3>5. CASE byte[a][2] \in {1, 2}
      <4>1. pos'[1] = pos[1]
        BY <3>2, <3>5 DEF Command
      <4> QED
        BY <3>3, <4>1
    <3>6. byte[a][2] \in {0, 1, 2}
      BY <2>1, <3>1 DEF IsCommand
    <3> QED
      BY <3>4, <3>5, <3>6
  <2>4. CASE bus.DC # 0
    <3>1. /\ screen' = [screen EXCEPT ![pos] = Pattern(byte[a])]
          /\ pos' = <<pos[1], (pos[2] + 1) % Columns>>
      BY <2>1, <2>4 DEF OwnLatch
    <3>2. pos'[1] = Pages - 1
      BY <3>1
    <3>3. \A c \in Cell : c[1] < Pages - 1 => c # pos
      BY <2>1
    <3>4. \A c \in Cell : c # pos => screen'[c] = screen[c]
      <4> HIDE DEF Pattern
      <4> QED
        BY <1>1, <3>1
    <3> QED
      BY <1>1, <3>2, <3>3, <3>4 DEF Shown
  <2> QED
    BY <2>3, <2>4
<1> QED
  BY <1>2, <1>3

\* While main runs, no bits but its own are in the register, and the chip is
\* selected only in the middle of one of its bytes.
MainLines ==
  /\ ~Alien("main")
  /\ bus.CS = 1 => shift = <<>>
  /\ bus.CS = 0 => task["main"] = "refresh" /\ phase["main"] \in 2 .. ByteBits + 2

\* What main's refresh has shown: all it has sent, or, once it was cut, all pages
\* but the last one.
MainShows ==
  task["main"] = "refresh" =>
    \/ /\ ~cut /\ OnCourse("main")
       /\ \A c \in Cell : SentBy("main", c) => Shown(c)
    \/ /\ cut /\ (OnCourse("main") \/ pos[1] = Pages - 1)
       /\ \A c \in Cell : c[1] < Pages - 1 => Shown(c)

\* The handler's refresh has shown all it has sent.
KeyShows == OnCourse("key") /\ \A c \in Cell : SentBy("key", c) => Shown(c)

\* The bus and the screen, seen by whichever of the two is running.
RefreshInv ==
  /\ ShiftInv
  /\ task["key"] = "idle" => LinesInv("main") /\ MainLines /\ MainShows
  /\ task["key"] # "idle" => LinesInv("key") /\ KeyShows

\* A refresh in step that is done has shown every cell.
LEMMA AllSent ==
  ASSUME OledTypeOK, NEW a \in Actor, OnCourse(a), phase[a] = EndPhase, byte[a] = LastByte
  PROVE  pos[1] = Pages - 1 /\ \A c \in Cell : SentBy(a, c)
<1>1. /\ byte[a][1] = Pages - 1 /\ byte[a][2] = PageBytes - 1
      /\ ByteBits \in Nat /\ phase[a] = ByteBits + 3 /\ PageBytes = Columns + 3
      /\ Pages \in Nat /\ Columns \in Nat /\ Columns > 0
  BY OledConstants DEF LastByte
<1>2. Latched(a) = Columns + 3
  BY <1>1 DEF Latched
<1>3. pos[1] = Pages - 1
  BY <1>1, <1>2 DEF OnCourse
<1>4. ASSUME NEW c \in Cell PROVE SentBy(a, c)
  <2>1. c[1] \in 0 .. Pages - 1 /\ c[2] \in 0 .. Columns - 1
    BY CellIs
  <2> QED
    BY <1>1, <1>2, <2>1 DEF SentBy
<1> QED
  BY <1>3, <1>4

\* A refresh that begins has sent nothing and is in step.
LEMMA BeginInStep ==
  ASSUME OledTypeOK, NEW a \in Actor, Refresh(a)
  PROVE  OnCourse(a)' /\ \A c \in Cell : ~SentBy(a, c)'
<1>1. byte'[a] = <<0, 0>> /\ phase'[a] = 0 /\ ByteBits \in Nat
  BY FirstByteTypes, OledConstants
<1>2. Latched(a)' = 0 /\ byte'[a][1] = 0
  BY <1>1 DEF Latched
<1>3. OnCourse(a)'
  BY <1>1, <1>2 DEF OnCourse
<1>4. ASSUME NEW c \in Cell PROVE ~SentBy(a, c)'
  <2>1. c[1] \in Nat /\ c[2] \in Nat
    BY CellIs, OledConstants
  <2> QED
    BY <1>2, <2>1 DEF SentBy
<1> QED
  BY <1>3, <1>4

\* The next byte begins in step, with the register empty.
LEMMA NextInStep ==
  ASSUME OledTypeOK, NEW a \in Actor, NextByte(a), LinesInv(a)
  PROVE  /\ LinesInv(a)' /\ shift' = <<>> /\ bus'.CS = 1 /\ pos' = pos /\ ~Alien(a)'
         /\ OnCourse(a) => OnCourse(a)' /\ \A c \in Cell : SentBy(a, c)' => SentBy(a, c)
         /\ \A c \in Cell : Shown(c)' <=> Shown(c)
<1>1. /\ phase[a] = EndPhase /\ byte[a] # LastByte
      /\ bus' = [bus EXCEPT !.DC = 1] /\ UNCHANGED <<OLED_GRAM, shift, pos, screen>>
      /\ byte' = [byte EXCEPT ![a] = NextOf(@)] /\ phase' = [phase EXCEPT ![a] = 0]
  BY DEF NextByte
<1>2. /\ ByteBits \in Nat /\ ByteBits > 0 /\ phase[a] = ByteBits + 3
      /\ PageBytes = Columns + 3 /\ Columns \in Nat /\ Pages \in Nat
  BY <1>1, OledConstants
<1>3. phase'[a] = 0 /\ byte'[a] = NextOf(byte[a])
  <2> HIDE DEF NextOf
  <2> QED
    BY <1>1 DEF OledTypeOK
<1>4. shift = <<>> /\ bus.CS = 1
  BY <1>1, <1>2 DEF LinesInv
<1>5. bus'.CS = 1 /\ shift' = <<>>
  BY <1>1, <1>4 DEF OledTypeOK
<1>6. LinesInv(a)' /\ ~Alien(a)'
  BY <1>2, <1>3, <1>5, EmptyShift DEF LinesInv
<1>7. Latched(a) = byte[a][2] + 1
  BY <1>2 DEF Latched
<1>8. Latched(a)' = byte'[a][2]
  BY <1>2, <1>3 DEF Latched
<1>9. /\ byte[a][1] \in 0 .. Pages - 1 /\ byte[a][2] \in 0 .. PageBytes - 1
      /\ byte'[a] = IF byte[a][2] < PageBytes - 1
                    THEN <<byte[a][1], byte[a][2] + 1>> ELSE <<byte[a][1] + 1, 0>>
  BY <1>1, <1>3, ActorTypes, NextOfTypes
<1> HIDE DEF Latched
<1>10. CASE byte[a][2] < PageBytes - 1
  <2>1. byte'[a][1] = byte[a][1] /\ Latched(a)' = Latched(a)
    BY <1>7, <1>8, <1>9, <1>10
  <2>2. OnCourse(a) => OnCourse(a)'
    BY <1>1, <1>2, <1>3, <2>1 DEF OnCourse
  <2>3. \A c \in Cell : SentBy(a, c)' => SentBy(a, c)
    BY <2>1 DEF SentBy
  <2> QED
    BY <1>1, <1>5, <1>6, <2>2, <2>3 DEF Shown
<1>11. CASE ~(byte[a][2] < PageBytes - 1)
  <2>1. /\ byte'[a][1] = byte[a][1] + 1 /\ Latched(a)' = 0 /\ Latched(a) = Columns + 3
    BY <1>2, <1>7, <1>8, <1>9, <1>11
  <2>2. OnCourse(a)'
    BY <1>2, <1>3, <2>1 DEF OnCourse
  <2>3. ASSUME NEW c \in Cell, SentBy(a, c)' PROVE SentBy(a, c)
    <3>1. c[1] \in Nat /\ c[2] \in Nat /\ c[2] < Columns
      BY CellIs, OledConstants
    <3> QED
      BY <1>2, <1>9, <2>1, <2>3, <3>1 DEF SentBy
  <2> QED
    BY <1>1, <1>5, <1>6, <2>2, <2>3 DEF Shown
<1> QED
  BY <1>10, <1>11

\* The bus and the screen, action by action.
LEMMA RefreshSend ==
  ASSUME OledTypeOK, DcInv, TurnInv, ShiftInv, NEW a \in Actor, SendStep(a), RefreshInv,
         ~garbled'
  PROVE  RefreshInv'
<1>1. /\ UNCHANGED <<OLED_GRAM, task, byte, cut>> /\ Sending(a)
      /\ phase' = [phase EXCEPT ![a] = @ + 1]
  BY DEF SendStep
<1>2. CASE a = "main"
  <2>1. /\ task["key"] = "idle" /\ task'["key"] = "idle" /\ task["main"] = "refresh"
        /\ task' = task
    BY <1>1, <1>2 DEF Sending, Running, OledTypeOK
  <2>2. LinesInv("main") /\ MainLines /\ MainShows
    BY <2>1 DEF RefreshInv
  <2>3. /\ ShiftInv' /\ LinesInv("main")' /\ ~Alien("main")'
        /\ IF phase["main"] = ByteBits + 1 /\ bus.CS = 0
           THEN OwnLatch("main") ELSE UNCHANGED <<pos, screen>>
    BY <1>2, <2>2, SendLines, Zenon DEF MainLines
  <2>4. MainLines'
    <3>1. /\ phase["main"] \in 0 .. ByteBits + 2 /\ phase'["main"] = phase["main"] + 1
          /\ bus \in [DC : 0 .. 1, CS : 0 .. 1] /\ ByteBits \in Nat
      <4>1. phase["main"] \in 0 .. EndPhase /\ phase["main"] < EndPhase
        BY <1>2, ActorTypes DEF SendStep
      <4>2. phase'["main"] = phase["main"] + 1 /\ bus \in [DC : 0 .. 1, CS : 0 .. 1]
        BY <1>1, <1>2 DEF OledTypeOK
      <4> QED
        BY <4>1, <4>2, OledConstants
    <3>2. SetDC("main") \/ ClearCS("main") \/ SendBit("main") \/ SetCS("main")
      BY <1>2 DEF SendStep
    <3>3. CASE SetDC("main")
      <4>1. phase["main"] = 0 /\ bus'.CS = bus.CS /\ shift' = shift
        BY <3>1, <3>3 DEF SetDC
      <4> QED
        BY <2>1, <2>2, <2>3, <3>1, <4>1 DEF MainLines
    <3>4. CASE ClearCS("main")
      <4>1. phase["main"] = 1 /\ bus'.CS = 0
        BY <3>1, <3>4 DEF ClearCS
      <4> QED
        BY <2>1, <2>3, <3>1, <4>1, OledConstants DEF MainLines
    <3>5. CASE SendBit("main")
      <4>1. phase["main"] \in 2 .. ByteBits + 1 /\ bus' = bus
        BY <3>5 DEF SendBit
      <4>2. bus.CS = 1 => shift' = <<>>
        BY <2>2, <3>5 DEF MainLines, SendBit
      <4> QED
        BY <2>1, <2>3, <3>1, <4>1, <4>2 DEF MainLines
    <3>6. CASE SetCS("main")
      <4>1. bus'.CS = 1 /\ shift' = <<>>
        BY <3>1, <3>6 DEF SetCS
      <4> QED
        BY <2>3, <4>1 DEF MainLines
    <3> QED
      BY <3>2, <3>3, <3>4, <3>5, <3>6
  <2>5. MainShows'
    <3>1. CASE ~cut /\ OnCourse("main") /\ \A c \in Cell : SentBy("main", c) => Shown(c)
      <4>1. /\ OnCourse("main")'
            /\ \A c \in Cell : Shown(c) => Shown(c)'
            /\ \A c \in Cell : SentBy("main", c)' => SentBy("main", c) \/ Shown(c)'
        BY <1>2, <2>3, <3>1, SendInStep, Zenon
      <4> QED
        BY <1>1, <3>1, <4>1 DEF MainShows
    <3>2. CASE cut /\ OnCourse("main") /\ \A c \in Cell : c[1] < Pages - 1 => Shown(c)
      <4>1. OnCourse("main")' /\ \A c \in Cell : Shown(c) => Shown(c)'
        BY <1>2, <2>3, <3>2, SendInStep, Zenon
      <4> QED
        BY <1>1, <3>2, <4>1 DEF MainShows
    <3>3. CASE cut /\ pos[1] = Pages - 1 /\ \A c \in Cell : c[1] < Pages - 1 => Shown(c)
      <4>1. /\ OnCourse("main")' \/ pos'[1] = Pages - 1
            /\ \A c \in Cell : c[1] < Pages - 1 /\ Shown(c) => Shown(c)'
        BY <1>2, <2>3, <3>3, SendLost, Zenon
      <4> QED
        BY <1>1, <3>3, <4>1 DEF MainShows
    <3> QED
      BY <2>1, <2>2, <3>1, <3>2, <3>3 DEF MainShows
  <2> QED
    BY <2>1, <2>3, <2>4, <2>5 DEF RefreshInv
<1>3. CASE a = "key"
  <2>1. task["key"] # "idle" /\ task'["key"] # "idle"
    BY <1>1, <1>3 DEF Sending, Running
  <2>2. LinesInv("key") /\ KeyShows
    BY <2>1 DEF RefreshInv
  <2>3. /\ ShiftInv' /\ LinesInv("key")'
        /\ IF phase["key"] = ByteBits + 1 /\ bus.CS = 0
           THEN OwnLatch("key") ELSE UNCHANGED <<pos, screen>>
    BY <1>3, <2>2, SendLines, Zenon
  <2>4. KeyShows'
    <3>1. /\ OnCourse("key")'
          /\ \A c \in Cell : Shown(c) => Shown(c)'
          /\ \A c \in Cell : SentBy("key", c)' => SentBy("key", c) \/ Shown(c)'
      BY <1>3, <2>2, <2>3, SendInStep, Zenon DEF KeyShows
    <3> QED
      BY <2>2, <3>1 DEF KeyShows
  <2> QED
    BY <2>1, <2>3, <2>4 DEF RefreshInv
<1> QED
  BY <1>2, <1>3 DEF Actor

LEMMA RefreshNext ==
  ASSUME OledTypeOK, TurnInv, NEW a \in Actor, NextByte(a), RefreshInv
  PROVE  RefreshInv'
<1>1. UNCHANGED <<OLED_GRAM, task, cut, screen, shift>> /\ Sending(a)
  BY DEF NextByte
<1>2. CASE a = "main"
  <2>1. task["key"] = "idle" /\ task' = task /\ task["main"] = "refresh"
    BY <1>1, <1>2 DEF Sending, Running, OledTypeOK
  <2>2. LinesInv("main") /\ MainLines /\ MainShows
    BY <2>1 DEF RefreshInv
  <2>3. /\ LinesInv("main")' /\ shift' = <<>> /\ bus'.CS = 1 /\ pos' = pos
        /\ ~Alien("main")'
        /\ OnCourse("main") => /\ OnCourse("main")'
                             /\ \A c \in Cell : SentBy("main", c)' => SentBy("main", c)
        /\ \A c \in Cell : Shown(c)' <=> Shown(c)
    BY <1>2, <2>2, NextInStep, Zenon
  <2>4. MainLines'
    BY <2>3 DEF MainLines
  <2>5. MainShows'
    BY <1>1, <2>1, <2>2, <2>3, Zenon DEF MainShows
  <2> QED
    BY <1>1, <2>1, <2>3, <2>4, <2>5 DEF RefreshInv, ShiftInv
<1>3. CASE a = "key"
  <2>1. task["key"] # "idle" /\ task' = task
    BY <1>1, <1>3 DEF Sending, Running
  <2>2. LinesInv("key") /\ KeyShows
    BY <2>1 DEF RefreshInv
  <2>3. /\ LinesInv("key")'
        /\ OnCourse("key") => /\ OnCourse("key")'
                            /\ \A c \in Cell : SentBy("key", c)' => SentBy("key", c)
        /\ \A c \in Cell : Shown(c)' <=> Shown(c)
    BY <1>3, <2>2, NextInStep, Zenon
  <2>4. KeyShows'
    BY <2>2, <2>3, Zenon DEF KeyShows
  <2> QED
    BY <1>1, <2>1, <2>3, <2>4 DEF RefreshInv, ShiftInv
<1> QED
  BY <1>2, <1>3 DEF Actor

LEMMA RefreshEnd ==
  ASSUME OledTypeOK, TurnInv, NEW a \in Actor, EndRefresh(a), RefreshInv
  PROVE  RefreshInv'
<1>1. /\ Sending(a) /\ phase[a] = EndPhase /\ byte[a] = LastByte /\ Refresh(a)
      /\ bus' = [bus EXCEPT !.DC = 1] /\ UNCHANGED <<cut, shift, pos, screen>>
      /\ \/ task[a] = "fill" /\ task' = [task EXCEPT ![a] = "frame"]
         \/ /\ task[a] # "fill" /\ UNCHANGED OLED_GRAM
            /\ task' = [task EXCEPT ![a] = IF a = "main" THEN "draw" ELSE "idle"]
  BY DEF EndRefresh, Refresh
<1>2. byte'[a] = <<0, 0>> /\ phase'[a] = 0
      /\ \A b \in Actor : b # a => byte'[b] = byte[b] /\ phase'[b] = phase[b]
  BY <1>1, FirstByteTypes
<1>3. LinesInv(a)
  BY <1>1 DEF RefreshInv, Sending, Running, Actor
<1>4. shift = <<>> /\ bus.CS = 1
  BY <1>1, <1>3, OledConstants DEF LinesInv
<1>5. shift' = <<>> /\ bus'.CS = 1
  BY <1>1, <1>4 DEF OledTypeOK
<1>6. ShiftInv' /\ \A b \in Actor : ~Alien(b)' /\ LinesInv(b)'
  <2>1. \A b \in Actor : ~Alien(b)'
    BY <1>5, EmptyShift
  <2>2. ASSUME NEW b \in Actor PROVE LinesInv(b)'
    BY <1>5 DEF LinesInv
  <2> QED
    BY <1>1, <2>1, <2>2 DEF RefreshInv, ShiftInv
<1>7. MainLines'
  BY <1>5, <1>6 DEF MainLines, Actor
<1>8. CASE a = "main"
  <2>1. task["key"] = "idle" /\ task'["main"] = "draw" /\ task'["key"] = "idle"
    BY <1>1, <1>8 DEF Sending, Running, OledTypeOK, Actor
  <2>2. MainShows'
    BY <2>1 DEF MainShows
  <2> QED
    BY <1>6, <1>7, <2>1, <2>2 DEF RefreshInv, Actor
<1>9. CASE a = "key"
  <2>1. task["key"] # "idle" /\ OnCourse("key") /\ \A c \in Cell : SentBy("key", c) => Shown(c)
    BY <1>1, <1>9 DEF Sending, Running, RefreshInv, KeyShows
  <2>2. pos[1] = Pages - 1 /\ \A c \in Cell : Shown(c)
    BY <1>1, <1>9, <2>1, AllSent
  <2>3. CASE task["key"] = "fill" /\ task' = [task EXCEPT !["key"] = "frame"]
    <3>1. task'["key"] = "frame"
      BY <2>3 DEF OledTypeOK, Actor
    <3>2. KeyShows'
      BY <1>1, <1>9, BeginInStep DEF KeyShows
    <3> QED
      BY <1>6, <3>1, <3>2 DEF RefreshInv, Actor
  <2>4. CASE /\ task["key"] # "fill" /\ UNCHANGED OLED_GRAM
             /\ task' = [task EXCEPT !["key"] = "idle"]
    <3>1. task'["key"] = "idle" /\ task'["main"] = task["main"]
      BY <2>4 DEF OledTypeOK, Actor
    <3>2. task["main"] = "refresh" => cut
      BY <2>1 DEF TurnInv
    <3>3. \A c \in Cell : Shown(c)'
      BY <1>1, <2>2, <2>4 DEF Shown
    <3>4. MainShows'
      BY <1>1, <2>2, <3>1, <3>2, <3>3 DEF MainShows
    <3> QED
      BY <1>6, <1>7, <3>1, <3>4 DEF RefreshInv, Actor
  <2> QED
    BY <1>1, <1>9, <2>3, <2>4
<1> QED
  BY <1>8, <1>9 DEF Actor

LEMMA RefreshOthers ==
  ASSUME OledTypeOK, TurnInv, RefreshInv,
         DrawStore \/ MainRefresh \/ KeyFill \/ \E c \in DrawCells : DrawLoad(c)
  PROVE  RefreshInv'
<1>1. CASE DrawStore \/ \E c \in DrawCells : DrawLoad(c)
  <2>1. UNCHANGED <<task, byte, phase, cut, bus, shift, pos, screen>>
    BY <1>1 DEF DrawStore, DrawLoad
  <2>2. task["key"] = "idle" /\ task["main"] = "draw"
    BY <1>1 DEF DrawStore, DrawLoad, Running, TurnInv
  <2>3. LinesInv("main") /\ MainLines
    BY <2>2 DEF RefreshInv
  <2>4. LinesInv("main")' /\ MainLines'
    BY <2>1, <2>3 DEF LinesInv, MainLines, Alien
  <2>5. MainShows'
    BY <2>1, <2>2 DEF MainShows
  <2> QED
    BY <2>1, <2>2, <2>4, <2>5 DEF RefreshInv, ShiftInv
<1>2. CASE MainRefresh
  <2>1. /\ task["key"] = "idle" /\ task["main"] = "draw" /\ Refresh("main") /\ cut' = FALSE
        /\ task' = [task EXCEPT !["main"] = "refresh"]
        /\ UNCHANGED <<OLED_GRAM, bus, shift, pos, screen>>
    BY <1>2 DEF MainRefresh, Running
  <2>2. LinesInv("main") /\ MainLines
    BY <2>1 DEF RefreshInv
  <2>3. bus.CS = 1 /\ shift = <<>> /\ task'["key"] = "idle"
    BY <2>1, <2>2 DEF MainLines, OledTypeOK, Actor
  <2>4. LinesInv("main")' /\ MainLines' /\ ShiftInv'
    <3>1. shift' = <<>> /\ bus'.CS = 1 /\ ~Alien("main")'
      BY <2>1, <2>3, EmptyShift DEF Actor
    <3> QED
      BY <2>1, <3>1 DEF LinesInv, MainLines, ShiftInv, RefreshInv
  <2>5. MainShows'
    BY <2>1, BeginInStep DEF MainShows, Actor
  <2> QED
    BY <2>3, <2>4, <2>5 DEF RefreshInv
<1>3. CASE KeyFill
  <2>1. /\ task["key"] = "idle" /\ task' = [task EXCEPT !["key"] = "fill"] /\ Refresh("key")
        /\ UNCHANGED <<bus, shift, pos, screen>>
    BY <1>3 DEF KeyFill
  <2>2. MainLines /\ ShiftInv
    BY <2>1 DEF RefreshInv
  <2>3. phase'["key"] = 0 /\ ByteBits \in Nat /\ EndPhase = ByteBits + 3
    BY <2>1, FirstByteTypes, OledConstants DEF Actor
  <2>4. Alien("key")' \/ shift' = <<>>
    <3>1. shift \in Seq(Actor) /\ \A i \in DOMAIN shift : shift[i] = "main"
      BY <2>2 DEF MainLines, ShiftInv, Alien
    <3>2. CASE shift # <<>>
      <4>1. 1 \in DOMAIN shift
        BY <3>1, <3>2
      <4> QED
        BY <2>1, <3>1, <4>1 DEF Alien
    <3> QED
      BY <2>1, <3>2
  <2>5. LinesInv("key")'
    BY <2>3, <2>4 DEF LinesInv
  <2>6. KeyShows'
    BY <2>1, BeginInStep DEF KeyShows, Actor
  <2>7. task'["key"] = "fill"
    BY <2>1 DEF OledTypeOK, Actor
  <2> QED
    BY <2>1, <2>2, <2>5, <2>6, <2>7 DEF RefreshInv, ShiftInv
<1> QED
  BY <1>1, <1>2, <1>3

-----------------------------------------------------------------------------
(* The picture.                                                            *)

\* The inductive invariant.
OledInv ==
  /\ OledTypeOK /\ DcInv /\ TurnInv /\ GhostInv
  /\ ~garbled => RefreshInv

\* It holds at the start ...
LEMMA OledInvInit == OledInit => OledInv
<1> SUFFICES ASSUME OledInit PROVE OledInv
  OBVIOUS
<1>1. /\ OLED_GRAM = [c \in Cell |-> {"old"}] /\ drawing = <<>> /\ filled = FALSE
      /\ task = [a \in Actor |-> IF a = "main" THEN "draw" ELSE "idle"]
      /\ byte = [a \in Actor |-> <<0, 0>>] /\ phase = [a \in Actor |-> 0]
      /\ cut = FALSE /\ bus = [DC |-> 1, CS |-> 1] /\ shift = <<>>
      /\ pos = <<0, 0>> /\ screen = OLED_GRAM
  BY DEF OledInit, FirstByte
<1>2. /\ <<0, 0>> \in Cell /\ <<0, 0>> \in (0 .. Pages - 1) \X (0 .. PageBytes - 1)
      /\ 0 \in 0 .. EndPhase /\ ByteBits \in Nat /\ ByteBits > 0 /\ EndPhase = ByteBits + 3
  BY OledConstants DEF Cell
<1>3. /\ task["main"] = "draw" /\ task["key"] = "idle" /\ phase["main"] = 0
      /\ bus.DC = 1 /\ bus.CS = 1
  BY <1>1 DEF Actor
<1>4. OledTypeOK
  <2>1. OLED_GRAM \in [Cell -> Pixels] /\ screen \in [Cell -> Pixels]
    BY <1>1 DEF Pixels
  <2>2. task \in [Actor -> {"draw", "refresh", "idle", "fill", "frame"}]
    BY <1>1
  <2>3. /\ byte \in [Actor -> (0 .. Pages - 1) \X (0 .. PageBytes - 1)]
        /\ phase \in [Actor -> 0 .. EndPhase]
    BY <1>1, <1>2
  <2>4. bus \in [DC : 0 .. 1, CS : 0 .. 1]
    BY <1>1
  <2> QED
    BY <1>1, <1>2, <1>3, <2>1, <2>2, <2>3, <2>4 DEF OledTypeOK
<1>5. DcInv /\ TurnInv /\ GhostInv
  BY <1>1, <1>3 DEF DcInv, TurnInv, GhostInv
<1>6. RefreshInv
  <2>1. ShiftInv /\ ~Alien("main")
    BY <1>1, <1>2, EmptyShift DEF ShiftInv, Actor
  <2>2. LinesInv("main") /\ MainLines /\ MainShows
    BY <1>1, <1>2, <1>3, <2>1 DEF LinesInv, MainLines, MainShows
  <2> QED
    BY <1>3, <2>1, <2>2 DEF RefreshInv
<1> QED
  BY <1>4, <1>5, <1>6 DEF OledInv

\* ... is kept by every step ...
LEMMA OledInvNext == OledInv /\ [OledNext]_oledVars => OledInv'
<1> SUFFICES ASSUME OledInv, [OledNext]_oledVars PROVE OledInv'
  OBVIOUS
<1>1. OledTypeOK /\ DcInv /\ TurnInv /\ GhostInv /\ (~garbled => RefreshInv)
  BY DEF OledInv
<1>2. ASSUME DrawStore \/ MainRefresh \/ KeyFill \/ \E c \in DrawCells : DrawLoad(c)
      PROVE  OledInv'
  <2>1. garbled' = garbled
    BY <1>2 DEF DrawStore, MainRefresh, KeyFill, DrawLoad
  <2>2. OledTypeOK' /\ DcInv' /\ TurnInv' /\ GhostInv'
    BY <1>1, <1>2, DrawBasic, MainRefreshBasic, KeyFillBasic, Zenon
  <2>3. ~garbled' => RefreshInv'
    BY <1>1, <1>2, <2>1, RefreshOthers, Zenon
  <2> QED
    BY <2>2, <2>3 DEF OledInv
<1>3. ASSUME NEW a \in Actor, SendStep(a) PROVE OledInv'
  <2>1. OledTypeOK' /\ DcInv'
    BY <1>1, <1>3, SendTypes, Zenon
  <2>2. TurnInv' /\ GhostInv'
    BY <1>1, <1>3 DEF SendStep, TurnInv, GhostInv
  <2>3. ~garbled' => ~garbled
    BY <1>3 DEF SendStep, SetDC, ClearCS, SendBit, SetCS, Latch
  <2>4. ~garbled' => RefreshInv'
    BY <1>1, <1>3, <2>3, RefreshSend, Zenon DEF RefreshInv
  <2> QED
    BY <2>1, <2>2, <2>4 DEF OledInv
<1>4. ASSUME NEW a \in Actor, NextByte(a) PROVE OledInv'
  <2>1. OledTypeOK' /\ DcInv'
    BY <1>1, <1>4, NextByteBasic, Zenon
  <2>2. TurnInv' /\ GhostInv' /\ garbled' = garbled
    BY <1>1, <1>4 DEF NextByte, TurnInv, GhostInv
  <2>3. ~garbled' => RefreshInv'
    BY <1>1, <1>4, <2>2, RefreshNext, Zenon
  <2> QED
    BY <2>1, <2>2, <2>3 DEF OledInv
<1>5. ASSUME NEW a \in Actor, EndRefresh(a) PROVE OledInv'
  <2>1. OledTypeOK' /\ DcInv' /\ TurnInv' /\ GhostInv'
    BY <1>1, <1>5, EndRefreshBasic, Zenon
  <2>2. garbled' = garbled
    BY <1>5 DEF EndRefresh
  <2>3. ~garbled' => RefreshInv'
    BY <1>1, <1>5, <2>2, RefreshEnd, Zenon
  <2> QED
    BY <2>1, <2>3 DEF OledInv
<1>6. ASSUME UNCHANGED oledVars PROVE OledInv'
  <2>1. /\ UNCHANGED <<OLED_GRAM, drawing, filled, task, byte, phase>>
        /\ UNCHANGED <<cut, bus, shift, pos, screen, garbled>>
    BY <1>6 DEF oledVars
  <2>2. OledTypeOK' /\ DcInv' /\ TurnInv' /\ GhostInv'
    BY <1>1, <2>1 DEF OledTypeOK, DcInv, TurnInv, GhostInv
  <2>3. RefreshInv => RefreshInv'
    <3>1. \A a \in Actor : /\ Alien(a)' <=> Alien(a)
                           /\ LinesInv(a)' <=> LinesInv(a)
                           /\ Latched(a)' = Latched(a)
      BY <2>1 DEF Alien, LinesInv, Latched
    <3>2. \A a \in Actor : /\ OnCourse(a)' <=> OnCourse(a)
                           /\ \A c \in Cell : SentBy(a, c)' <=> SentBy(a, c)
      BY <2>1, <3>1 DEF OnCourse, SentBy
    <3>3. \A c \in Cell : Shown(c)' <=> Shown(c)
      BY <2>1 DEF Shown
    <3>4. /\ MainLines' <=> MainLines
          /\ ShiftInv' <=> ShiftInv
      BY <2>1, <3>1 DEF MainLines, ShiftInv, Actor
    <3>5. /\ MainShows' <=> MainShows
          /\ KeyShows' <=> KeyShows
      BY <2>1, <3>2, <3>3 DEF MainShows, KeyShows, Actor
    <3> QED
      BY <2>1, <3>1, <3>4, <3>5 DEF RefreshInv, Actor
  <2> QED
    BY <1>1, <2>1, <2>2, <2>3 DEF OledInv
<1> QED
  BY <1>2, <1>3, <1>4, <1>5, <1>6, Zenon DEF OledNext

\* The old frame's pixels in one cell at most.
LEMMA OneGhost ==
  ASSUME GhostInv PROVE GhostsInOneCell
<1> SUFFICES ASSUME filled
             PROVE  Cardinality({c \in Cell : "old" \in OLED_GRAM[c]}) <= 1
  BY DEF GhostsInOneCell
<1> DEFINE Ghosts == {c \in Cell : "old" \in OLED_GRAM[c]}
<1>1. PICK x \in Cell : \A c \in Cell : "old" \in OLED_GRAM[c] => c = x
  BY DEF GhostInv
<1>2. Ghosts \subseteq {x}
  BY <1>1
<1>3. IsFiniteSet({x}) /\ Cardinality({x}) = 1
  BY FS_Singleton
<1> HIDE DEF Ghosts
<1>4. Cardinality(Ghosts) <= Cardinality({x})
  BY <1>2, <1>3, FS_Subset
<1>5. Cardinality(Ghosts) <= 1
  BY <1>3, <1>4
<1> QED
  BY <1>5 DEF Ghosts

\* ... and says what the picture is.
LEMMA OledInvPicture == OledInv => PictureSound
<1> SUFFICES ASSUME OledInv PROVE PictureSound
  OBVIOUS
<1>1. OledTypeOK /\ TurnInv /\ GhostInv /\ (~garbled => RefreshInv)
  BY DEF OledInv
<1>2. OLED_GRAM \in [Cell -> Pixels] /\ screen \in [Cell -> Pixels]
  BY <1>1 DEF OledTypeOK
<1>3. GhostsInOneCell
  BY <1>1, OneGhost
<1>4. ASSUME NEW a \in Actor, RefreshDone(a), ~garbled, a = "main" => ~cut
      PROVE  screen = OLED_GRAM
  <2>1. phase[a] = EndPhase /\ byte[a] = LastByte /\ Running(a)
        /\ task[a] \in {"refresh", "fill", "frame"}
    BY <1>4 DEF RefreshDone, Sending
  <2>2. OnCourse(a) /\ \A c \in Cell : SentBy(a, c) => Shown(c)
    <3>1. CASE a = "main"
      BY <1>1, <1>4, <2>1, <3>1 DEF Running, OledTypeOK, RefreshInv, MainShows
    <3>2. CASE a = "key"
      BY <1>1, <1>4, <2>1, <3>2 DEF Running, RefreshInv, KeyShows
    <3> QED
      BY <3>1, <3>2 DEF Actor
  <2>3. \A c \in Cell : Shown(c)
    BY <1>1, <2>1, <2>2, AllSent
  <2> QED
    BY <1>2, <2>3 DEF Shown
<1>5. RefreshShowsAll
  BY <1>4 DEF RefreshShowsAll
<1>6. CutRefreshBounded
  <2> SUFFICES ASSUME RefreshDone("main"), ~garbled
               PROVE  \A c \in Cell : c[1] < Pages - 1 => Shown(c)
    BY DEF CutRefreshBounded, Shown
  <2>1. task["key"] = "idle" /\ task["main"] = "refresh" /\ "main" \in Actor
        /\ phase["main"] = EndPhase /\ byte["main"] = LastByte
    BY <1>1 DEF RefreshDone, Sending, Running, OledTypeOK, Actor
  <2>2. MainShows
    BY <1>1, <2>1 DEF RefreshInv
  <2>3. CASE cut /\ \A c \in Cell : c[1] < Pages - 1 => Shown(c)
    BY <2>3
  <2>4. CASE OnCourse("main") /\ \A c \in Cell : SentBy("main", c) => Shown(c)
    BY <1>1, <2>1, <2>4, AllSent
  <2> QED
    BY <2>1, <2>2, <2>3, <2>4 DEF MainShows
<1> QED
  BY <1>1, <1>3, <1>5, <1>6 DEF PictureSound

\* What is on the screen when a refresh ends, whoever cut into it.
THEOREM PictureIsSound == OledSpec => []PictureSound
<1>1. OledSpec => []OledInv
  BY OledInvInit, OledInvNext, PTL DEF OledSpec
<1> QED
  BY <1>1, OledInvPicture, PTL
=============================================================================
