---------------------------- MODULE Dm9000Proofs ----------------------------
(***************************************************************************)
(* What holds of Dm9000 for packets of any length and any receive memory:  *)
(* the send of WK_UP's handler is safe, whatever it interrupts, and so are  *)
(* all accesses of the main loop until that send comes inside one of its.  *)
(***************************************************************************)
EXTENDS Dm9000, SequenceTheorems, TLAPS

USE WordsAssumption, MaxRxAssumption, FlagAssumption
USE DEF Threads, Irqs, imr_all, SendPc, RecvPc, Header, chipVars, threadVars,
        isrVars, vars

\* The places of a send at which the controller's interrupts are off.
MaskedPc == SendPc \ {"mask"}

\* The register t has selected is selected, or will be when EXTI9_5 returns.
Held(t) == (at[t] # "idle" /\ sel[t]) =>
             IF isr = "ack" THEN last_io = Port[at[t]] ELSE REG = Port[at[t]]

\* While t sends, nothing makes EXTI9_5 acknowledge a status.
Masked(t) == at[t] \in MaskedPc => imr = {} /\ isr # "ack"

KeyInv  == TypeOK /\ Held("key") /\ Masked("key") /\ KeyPtsToCome

\* WK_UP's handler sends while the main loop does not.
Apart == at["key"] = "idle" \/ at["main"] = "idle"

\* The words of the packet that t copies are in the transmit memory.
WrOf(t) ==
  /\ at[t] = "data" => cnt[t] < Words
  /\ Len(wr) = IF at[t] = "data" THEN cnt[t]
               ELSE IF at[t] \in {"length", "go"} THEN Words ELSE 0
  /\ \A n \in 1 .. Len(wr) : wr[n] = t

\* The one that sends, if any does.
WrInv == IF at["key"] = "idle" THEN WrOf("main") ELSE WrOf("key")

\* The read pointer follows the copy loop.
RdInv ==
  /\ at["main"] = "frame" => rx > 0 /\ rd = cnt["main"]
  /\ at["main"] \notin {"frame", "drain"} => rd = 0
  /\ at["main"] \notin {"stop", "cut"} /\ rcr

\* What the main loop needs, as long as nothing is sent inside its accesses.
Calm == /\ Apart /\ Held("main") /\ Masked("main") /\ PtsToCome("main")
        /\ WrInv /\ RdInv

MainInv == KeyInv /\ (~nested => Calm)

\* The places a thread can be at, and the registers that matter below.
LEMMA PortFacts ==
  /\ DOMAIN Port = {"mask", "data", "length", "go", "poll", "clear", "unmask",
                    "peek", "frame", "drain", "stop", "cut", "none", "on"}
  /\ Port["mask"] = "IMR" /\ Port["poll"] = "ISR" /\ Port["frame"] = Port["drain"]
BY DEF Port

\* TypeOK in two halves: the processor's side and the controller's.
ProcOK == /\ REG \in {Port[l] : l \in DOMAIN Port}
          /\ at \in [Threads -> DOMAIN Port \cup {"idle"}]
          /\ sel \in [Threads -> BOOLEAN]
          /\ cnt \in [Threads -> 0 .. Header + Words - 1] /\ nested \in BOOLEAN
          /\ isr \in {"idle", "test", "ack"}
          /\ last_io \in {Port[l] : l \in DOMAIN Port} /\ seen \subseteq Irqs
ChipOK == /\ imr \subseteq Irqs /\ status \subseteq Irqs
          /\ tx \in 0 .. 2 /\ rcr \in BOOLEAN
          /\ rx \in 0 .. MaxRx /\ rd \in 0 .. Header + Words - 1
          /\ wr \in Seq(Threads) /\ Len(wr) <= Words + 1 /\ intp \in BOOLEAN

\* The halves make the whole, in every state and the next.
LEMMA TypeHalves == (TypeOK <=> ProcOK /\ ChipOK) /\ (TypeOK' <=> ProcOK' /\ ChipOK')
BY DEF TypeOK, ProcOK, ChipOK

\* The initial values are typed.
LEMMA InitTypeOK == Init => TypeOK
<1> SUFFICES ASSUME Init PROVE ProcOK /\ ChipOK
  BY TypeHalves
<1>1. ProcOK
  <2>1. at \in [Threads -> DOMAIN Port \cup {"idle"}] /\ sel \in [Threads -> BOOLEAN]
        /\ cnt \in [Threads -> 0 .. Header + Words - 1]
    BY DEF Init
  <2>2. REG \in {Port[l] : l \in DOMAIN Port} /\ last_io \in {Port[l] : l \in DOMAIN Port}
    BY PortFacts DEF Init
  <2>3. nested \in BOOLEAN /\ isr \in {"idle", "test", "ack"} /\ seen \subseteq Irqs
    BY DEF Init
  <2> QED
    BY <2>1, <2>2, <2>3, Zenon DEF ProcOK
<1>2. wr \in Seq(Threads) /\ Len(wr) <= Words + 1
  BY DEF Init
<1>3. imr \subseteq Irqs /\ status \subseteq Irqs /\ intp \in BOOLEAN
  BY DEF Init
<1>4. tx \in 0 .. 2 /\ rcr \in BOOLEAN /\ rx \in 0 .. MaxRx
      /\ rd \in 0 .. Header + Words - 1
  BY DEF Init
<1>5. ChipOK
  BY <1>2, <1>3, <1>4, Zenon DEF ChipOK
<1> QED
  BY <1>1, <1>5

\* A thread that begins a send or a reception stays typed.
LEMMA BeginProc ==
  ASSUME ProcOK, NEW t \in Threads, NEW l \in DOMAIN Port, Begin(t, l)
  PROVE  ProcOK'
BY DEF ProcOK, Begin

\* An access to the data port and its successor are typed.
LEMMA AccessProc ==
  ASSUME ProcOK, NEW t \in Threads, NEW l, NEW next \in DOMAIN Port \cup {"idle"},
         Access(t, l, next)
  PROVE  ProcOK'
BY DEF ProcOK, Access

\* So is one more word, if the loop has not seen the last one.
LEMMA AgainProc ==
  ASSUME ProcOK, NEW t \in Threads, NEW l, Again(t, l),
         cnt[t] + 1 < Header + Words
  PROVE  ProcOK'
BY DEF ProcOK, Again

\* What reaches IMR is a set of interrupts.
LEMMA ToImrChip ==
  ASSUME ChipOK, NEW v \in SUBSET Irqs, ToImr(v)
  PROVE  ChipOK'
BY DEF ChipOK, ToImr, Edge, Low

\* Clearing status bits leaves status bits.
LEMMA ClearChip ==
  ASSUME ChipOK, NEW bits, Clear(bits)
  PROVE  ChipOK'
BY DEF ChipOK, Clear, Edge, Low

\* A read of the receive memory keeps the pointer inside a packet.
LEMMA ReadWordChip ==
  ASSUME ChipOK, ReadWord
  PROVE  ChipOK'
BY DEF ChipOK, ReadWord

\* A chip that is left alone stays typed.
LEMMA UnchangedChip ==
  ASSUME ChipOK, UNCHANGED chipVars
  PROVE  ChipOK'
BY DEF ChipOK

\* Every step keeps the types: no copy loop and no read pointer leaves a packet.
LEMMA NextTypeOK == TypeOK /\ [Next]_vars => TypeOK'
<1> SUFFICES ASSUME ProcOK, ChipOK, [Next]_vars PROVE ProcOK' /\ ChipOK'
  BY TypeHalves
<1> USE PortFacts
<1>1. CASE DM9000_SendPacket \/ DM9000_Receive_Packet \/ EXTI0_IRQHandler
  <2>1. ProcOK'
    BY <1>1, BeginProc DEF DM9000_SendPacket, DM9000_Receive_Packet, EXTI0_IRQHandler
  <2>2. ChipOK'
    BY <1>1, UnchangedChip DEF DM9000_SendPacket, DM9000_Receive_Packet, EXTI0_IRQHandler, Begin
  <2> QED
    BY <2>1, <2>2
<1>2. CASE RxArrive \/ TxDone
  <2>1. ProcOK'
    BY <1>2 DEF RxArrive, TxDone, ProcOK
  <2>2. rx' \in 0 .. MaxRx /\ rd' \in 0 .. Header + Words - 1 /\ tx' \in 0 .. 2
    BY <1>2 DEF RxArrive, TxDone, ChipOK
  <2>3. imr' \subseteq Irqs /\ status' \subseteq Irqs /\ intp' \in BOOLEAN /\ rcr' \in BOOLEAN
    BY <1>2 DEF RxArrive, TxDone, Edge, Low, ChipOK
  <2>4. wr' \in Seq(Threads) /\ Len(wr') <= Words + 1
    BY <1>2 DEF RxArrive, TxDone, ChipOK
  <2> QED
    BY <2>1, <2>2, <2>3, <2>4 DEF ChipOK
<1>3. CASE EXTI9_5_IRQHandler
  BY <1>3 DEF EXTI9_5_IRQHandler, ProcOK, ChipOK
<1>4. CASE IsrTest
  <2>1. ProcOK'
    BY <1>4 DEF IsrTest, TestFor, Low, ProcOK, ChipOK
  <2> QED
    BY <2>1, <1>4, UnchangedChip DEF IsrTest, TestFor
<1>5. CASE IsrAck
  <2>1. ProcOK'
    BY <1>5 DEF IsrAck, Acknowledge, ProcOK
  <2> QED
    BY <2>1, <1>5, ClearChip DEF IsrAck, Acknowledge
<1>6. CASE Peek
  <2>1. ProcOK'
    BY <1>6, AccessProc DEF Peek, PeekAs
  <2> QED
    BY <2>1, <1>6, UnchangedChip DEF Peek, PeekAs
<1>7. CASE ReadFrame
  <2>1. ChipOK'
    BY <1>7, ReadWordChip DEF ReadFrame, FrameOf
  <2>2. CASE cnt["main"] + 1 < Header + Words /\ Again("main", "frame")
    BY <2>2, <2>1, AgainProc
  <2>3. CASE Access("main", "frame", "idle") \/ Access("main", "frame", "peek")
    BY <2>3, <2>1, AccessProc
  <2>4. CASE at' = [at EXCEPT !["main"] = "drain"] /\ UNCHANGED <<REG, sel, cnt, nested, isrVars>>
    <3>1. ProcOK'
      BY <2>4 DEF ProcOK
    <3> QED
      BY <3>1, <2>1
  <2> QED
    BY <1>7, <2>2, <2>3, <2>4 DEF ReadFrame, FrameOf
<1>8. CASE Drain
  <2>1. ProcOK'
    BY <1>8 DEF Drain, ProcOK
  <2> QED
    BY <2>1, <1>8, ReadWordChip DEF Drain
<1>9. CASE WriteStop
  <2>1. ProcOK'
    BY <1>9, AccessProc DEF WriteStop
  <2>2. ChipOK'
    BY <1>9, ToImrChip DEF WriteStop, ChipOK
  <2> QED
    BY <2>1, <2>2
<1>10. CASE WriteCut
  <2>1. ProcOK'
    BY <1>10, AccessProc DEF WriteCut
  <2> QED
    BY <2>1, <1>10, ToImrChip, UnchangedChip DEF WriteCut
<1>11. CASE WriteNone
  <2>1. ProcOK'
    BY <1>11, AccessProc DEF WriteNone, WritePts
  <2> QED
    BY <2>1, <1>11, ToImrChip, ClearChip DEF WriteNone, WritePts
<1>12. CASE WriteOn
  <2>1. ProcOK'
    BY <1>12, AccessProc DEF WriteOn
  <2> QED
    BY <2>1, <1>12, ToImrChip DEF WriteOn
<1>13. ASSUME NEW t \in Threads, Select(t) PROVE ProcOK' /\ ChipOK'
  <2>1. ProcOK'
    BY <1>13 DEF Select, ProcOK
  <2> QED
    BY <2>1, <1>13, UnchangedChip DEF Select
<1>14. ASSUME NEW t \in Threads, WriteMask(t) \/ WriteUnmask(t) PROVE ProcOK' /\ ChipOK'
  <2>1. ProcOK'
    BY <1>14, AccessProc DEF WriteMask, WriteUnmask
  <2> QED
    BY <2>1, <1>14, ToImrChip DEF WriteMask, WriteUnmask
<1>15. ASSUME NEW t \in Threads, WriteData(t) PROVE ProcOK' /\ ChipOK'
  <2>1. ProcOK'
    <3>1. CASE cnt[t] + 1 < Words /\ Again(t, "data")
      <4>1. cnt[t] + 1 < Header + Words
        BY <3>1 DEF ProcOK
      <4> QED
        BY <3>1, <4>1, AgainProc
    <3>2. CASE Access(t, "data", "length")
      BY <3>2, AccessProc
    <3> QED
      BY <1>15, <3>1, <3>2 DEF WriteData, Copy
  <2>2. CASE wr' = Stored(t) /\ UNCHANGED <<imr, status, tx, rcr, rx, rd, intp>>
    <3>1. Stored(t) \in Seq(Threads) /\ Len(Stored(t)) <= Words + 1
      BY DEF Stored, ChipOK
    <3> QED
      BY <2>1, <2>2, <3>1 DEF ChipOK
  <2>3. CASE \E v \in SUBSET Irqs : ToImr(v)
    BY <2>1, <2>3, ToImrChip
  <2> QED
    BY <1>15, <2>2, <2>3 DEF WriteData, Copy
<1>16. ASSUME NEW t \in Threads, WriteLength(t) PROVE ProcOK' /\ ChipOK'
  <2>1. ProcOK'
    BY <1>16, AccessProc DEF WriteLength
  <2> QED
    BY <2>1, <1>16, ToImrChip, UnchangedChip DEF WriteLength
<1>17. ASSUME NEW t \in Threads, WriteGo(t) PROVE ProcOK' /\ ChipOK'
  <2>1. ProcOK'
    BY <1>17, AccessProc DEF WriteGo
  <2>2. CASE Right(t)
    <3>1. wr' \in Seq(Threads) /\ Len(wr') <= Words + 1
      BY <1>17, <2>2 DEF WriteGo
    <3>2. tx' \in 0 .. 2
      BY <1>17, <2>2 DEF WriteGo, ChipOK
    <3> QED
      BY <2>1, <1>17, <2>2, <3>1, <3>2 DEF WriteGo, ChipOK
  <2>3. CASE ~Right(t)
    BY <2>1, <1>17, <2>3, ToImrChip DEF WriteGo
  <2> QED
    BY <2>2, <2>3
<1>18. ASSUME NEW t \in Threads, PollPts(t) PROVE ProcOK' /\ ChipOK'
  <2>1. ProcOK'
    BY <1>18, AccessProc DEF PollPts
  <2> QED
    BY <2>1, <1>18, UnchangedChip DEF PollPts
<1>19. ASSUME NEW t \in Threads, WriteClear(t) PROVE ProcOK' /\ ChipOK'
  <2>1. ProcOK'
    BY <1>19, AccessProc DEF WriteClear, WritePts
  <2> QED
    BY <2>1, <1>19, ToImrChip, ClearChip DEF WriteClear, WritePts
<1>20. CASE UNCHANGED vars
  BY <1>20 DEF ProcOK, ChipOK
<1> QED
  BY <1>1, <1>2, <1>3, <1>4, <1>5, <1>6, <1>7, <1>8, <1>9, <1>10, <1>11,
     <1>12, <1>13, <1>14, <1>15, <1>16, <1>17, <1>18, <1>19, <1>20
     DEF Next, Main, Key, Isr, Receive, Send

\* The types hold always.
THEOREM TypeCorrect == Spec => []TypeOK
<1> QED
  BY InitTypeOK, NextTypeOK, PTL DEF Spec

-----------------------------------------------------------------------------
(* The send of WK_UP's handler.                                            *)

\* The main loop runs only while WK_UP's handler does not, and leaves it so.
LEMMA MainKeepsKey == ProcOK /\ Main => at["key"] = "idle" /\ at'["key"] = "idle"
<1> SUFFICES ASSUME ProcOK, Main PROVE at["key"] = "idle" /\ at'["key"] = "idle"
  OBVIOUS
<1> USE DEF ProcOK, Turn
<1>1. ASSUME NEW l, NEW next, Access("main", l, next) PROVE at["key"] = "idle" /\ at'["key"] = "idle"
  BY <1>1 DEF Access
<1>2. ASSUME NEW l, Again("main", l) \/ Begin("main", l) PROVE at["key"] = "idle" /\ at'["key"] = "idle"
  BY <1>2 DEF Again, Begin
<1>3. CASE Select("main") \/ Drain
  BY <1>3 DEF Select, Drain
<1>4. CASE ReadFrame
  <2>1. CASE Turn("main") /\ at' = [at EXCEPT !["main"] = "drain"]
    BY <2>1
  <2> QED
    BY <1>4, <1>1, <1>2, <2>1 DEF ReadFrame, FrameOf
<1>5. CASE Peek \/ WriteStop \/ WriteCut \/ WriteNone \/ WriteOn
  BY <1>5, <1>1 DEF Peek, PeekAs, WriteStop, WriteCut, WriteNone, WritePts, WriteOn
<1>6. CASE Send("main")
  BY <1>6, <1>1, <1>2 DEF Send, WriteMask, WriteData, Copy, WriteLength, WriteGo,
     PollPts, WriteClear, WritePts, WriteUnmask
<1> QED
  BY <1>2, <1>3, <1>4, <1>5, <1>6 DEF Main, Receive, DM9000_SendPacket, DM9000_Receive_Packet

\* A thread that is idle has nothing selected, masked or awaited.
LEMMA IdleKey == ASSUME at["key"] = "idle"
                 PROVE  Held("key") /\ Masked("key") /\ KeyPtsToCome
BY DEF Held, Masked, MaskedPc, KeyPtsToCome, PtsToCome

\* Nothing a thread does between two accesses disturbs the key's send: REG is
\* restored, and with its interrupts off the controller's status is left alone.
LEMMA NextKeyInv == KeyInv /\ [Next]_vars => KeyInv'
<1> SUFFICES ASSUME KeyInv, [Next]_vars
             PROVE  Held("key")' /\ Masked("key")' /\ KeyPtsToCome'
  BY NextTypeOK DEF KeyInv
<1> USE PortFacts
<1>0. ProcOK /\ ChipOK
  BY TypeHalves DEF KeyInv
<1>1. CASE at'["key"] = "idle"
  BY <1>1 DEF Held, Masked, MaskedPc, KeyPtsToCome, PtsToCome
<1>2. CASE Main
  BY <1>2, <1>0, <1>1, MainKeepsKey
<1> USE DEF KeyInv, Held, Masked, MaskedPc, KeyPtsToCome, PtsToCome
<1>3. CASE EXTI0_IRQHandler
  BY <1>3, <1>0 DEF EXTI0_IRQHandler, Begin, ProcOK
<1>4. CASE Select("key")
  BY <1>4, <1>0 DEF Select, ProcOK, Turn
<1>5. CASE Send("key")
  <2>1. sel["key"] /\ at["key"] # "idle" /\ isr = "idle" /\ isr' = "idle" /\ Right("key")
    BY <1>5 DEF Send, WriteMask, WriteData, Copy, WriteLength, WriteGo, PollPts,
       WriteClear, WritePts, WriteUnmask, Access, Again, Turn, Right
  <2> USE <1>0, <2>1
  <2>2. CASE WriteMask("key")
    BY <2>2 DEF WriteMask, Access, ToImr, ProcOK
  <2>3. CASE WriteData("key")
    BY <2>3 DEF WriteData, Copy, Access, Again, Right, ProcOK
  <2>4. CASE WriteLength("key")
    BY <2>4 DEF WriteLength, Access, ProcOK
  <2>5. CASE WriteGo("key")
    <3>1. tx' > 0 /\ imr' = imr
      BY <2>5 DEF WriteGo, ChipOK
    <3>2. at'["key"] = "poll" /\ sel'["key"] = FALSE
      BY <2>5 DEF WriteGo, Access, ProcOK
    <3>3. at["key"] = "go"
      BY <2>5 DEF WriteGo, Access
    <3> QED
      BY <3>1, <3>2, <3>3
  <2>6. CASE PollPts("key")
    BY <2>6 DEF PollPts, Access, ProcOK
  <2>7. CASE WriteClear("key")
    BY <2>7 DEF WriteClear, WritePts, Access, Clear, ProcOK
  <2>8. CASE WriteUnmask("key")
    BY <2>8, <1>1 DEF WriteUnmask, Access, ProcOK
  <2> QED
    BY <1>5, <2>2, <2>3, <2>4, <2>5, <2>6, <2>7, <2>8 DEF Send
<1>6. CASE EXTI9_5_IRQHandler
  BY <1>6 DEF EXTI9_5_IRQHandler
<1>7. CASE IsrTest
  BY <1>7 DEF IsrTest, TestFor, Low
<1>8. CASE IsrAck
  BY <1>8 DEF IsrAck, Acknowledge, Clear
<1>9. CASE RxArrive
  BY <1>9 DEF RxArrive
<1>10. CASE TxDone
  BY <1>10, <1>0 DEF TxDone, ChipOK
<1>11. CASE UNCHANGED vars
  BY <1>11
<1> QED
  BY <1>2, <1>3, <1>4, <1>5, <1>6, <1>7, <1>8, <1>9, <1>10, <1>11
     DEF Next, Key, Isr

\* What WK_UP's handler needs holds always.
THEOREM KeyInvariance == Spec => []KeyInv
<1>1. Init => KeyInv
  <2> SUFFICES ASSUME Init PROVE KeyInv
    OBVIOUS
  <2>1. at["key"] = "idle"
    BY DEF Init
  <2> QED
    BY <2>1, InitTypeOK, IdleKey DEF KeyInv
<1> QED
  BY <1>1, NextKeyInv, PTL DEF Spec

\* Every access of the handler's send reaches the register it is meant for.
THEOREM KeyIsUndisturbed == Spec => []KeyUndisturbed
<1>1. KeyInv => KeyUndisturbed
  BY DEF KeyInv, KeyUndisturbed, Undisturbed, Held, Turn, Right
<1> QED
  BY <1>1, KeyInvariance, PTL

\* The completion the handler polls for is under way or set.
THEOREM KeyPtsComes == Spec => []KeyPtsToCome
<1>1. KeyInv => KeyPtsToCome
  BY DEF KeyInv
<1> QED
  BY <1>1, KeyInvariance, PTL

-----------------------------------------------------------------------------
(* The interrupt line.                                                     *)

\* Whatever becomes of the enabled interrupts and the status, a line that goes
\* low leaves an edge behind.
LEMMA EdgeNotices ==
  ASSUME IntNoticed, Edge(imr', status'), isr' = isr \/ isr' # "idle"
  PROVE  IntNoticed'
BY DEF IntNoticed, Edge, Low

\* A step that touches neither leaves the line as it is.
LEMMA QuietNotices ==
  ASSUME IntNoticed, UNCHANGED <<imr, status, intp>>, isr' = isr \/ isr' # "idle"
  PROVE  IntNoticed'
BY DEF IntNoticed, Low

\* Each access of a thread is one of the two.
LEMMA NextIntNoticed == IntNoticed /\ [Next]_vars => IntNoticed'
<1> SUFFICES ASSUME IntNoticed, [Next]_vars PROVE IntNoticed'
  OBVIOUS
<1>1. ASSUME NEW v, ToImr(v), isr' = isr PROVE IntNoticed'
  BY <1>1, EdgeNotices DEF ToImr
<1>2. ASSUME NEW bits, Clear(bits), isr' = isr \/ isr' # "idle" PROVE IntNoticed'
  BY <1>2, EdgeNotices DEF Clear
<1>3. CASE DM9000_SendPacket \/ DM9000_Receive_Packet \/ EXTI0_IRQHandler
  BY <1>3, QuietNotices DEF DM9000_SendPacket, DM9000_Receive_Packet, EXTI0_IRQHandler, Begin
<1>4. CASE RxArrive \/ TxDone
  BY <1>4, EdgeNotices DEF RxArrive, TxDone
<1>5. CASE EXTI9_5_IRQHandler
  BY <1>5 DEF EXTI9_5_IRQHandler, IntNoticed
<1>6. CASE IsrTest
  BY <1>6 DEF IsrTest, TestFor, IntNoticed, Low
<1>7. CASE IsrAck
  BY <1>7, <1>2 DEF IsrAck, Acknowledge
<1>8. CASE Peek \/ ReadFrame \/ Drain
  BY <1>8, QuietNotices DEF Peek, PeekAs, ReadFrame, FrameOf, ReadWord, Drain, Access, Again
<1>9. CASE WriteStop \/ WriteCut \/ WriteNone \/ WriteOn
  BY <1>9, <1>1, <1>2, QuietNotices DEF WriteStop, WriteCut, WriteNone, WritePts, WriteOn, Access
<1>10. ASSUME NEW t \in Threads, Select(t) PROVE IntNoticed'
  BY <1>10, QuietNotices DEF Select
<1>11. ASSUME NEW t \in Threads, Send(t) PROVE IntNoticed'
  <2>1. isr' = isr
    BY <1>11 DEF Send, WriteMask, WriteData, Copy, WriteLength, WriteGo, PollPts,
       WriteClear, WritePts, WriteUnmask, Access, Again
  <2>2. CASE \E v : ToImr(v)
    BY <2>1, <2>2, <1>1
  <2>3. CASE \E bits : Clear(bits)
    BY <2>1, <2>3, <1>2
  <2>4. CASE UNCHANGED <<imr, status, intp>>
    BY <2>1, <2>4, QuietNotices
  <2> QED
    BY <1>11, <2>2, <2>3, <2>4 DEF Send, WriteMask, WriteData, Copy, WriteLength,
       WriteGo, PollPts, WriteClear, WritePts, WriteUnmask
<1>12. CASE UNCHANGED vars
  BY <1>12, QuietNotices
<1> QED
  BY <1>3, <1>4, <1>5, <1>6, <1>7, <1>8, <1>9, <1>10, <1>11, <1>12
     DEF Next, Main, Key, Isr, Receive, Send

\* No low level of the line goes unserved.
THEOREM InterruptIsNoticed == Spec => []IntNoticed
<1>1. Init => IntNoticed
  BY DEF Init, IntNoticed, Low
<1> QED
  BY <1>1, NextIntNoticed, PTL DEF Spec

-----------------------------------------------------------------------------
(* The main loop, until WK_UP's handler sends inside one of its accesses.  *)

\* The initial state: nothing begun, nothing in the controller.
LEMMA InitCalm == Init => Calm
BY DEF Init, Calm, Apart, Held, Masked, MaskedPc, PtsToCome, WrInv, WrOf, RdInv

\* A send of either thread keeps the account of its words.
LEMMA SendKeepsWr ==
  ASSUME ProcOK, ChipOK, NEW t \in Threads, WrOf(t), Right(t), Send(t)
  PROVE  WrOf(t)'
<1> USE PortFacts DEF WrOf
<1>1. CASE WriteData(t)
  <2>1. at[t] = "data" /\ wr' = Append(wr, t)
    BY <1>1 DEF WriteData, Copy, Stored, Access, Again, ChipOK
  <2>2. Len(wr') = cnt[t] + 1 /\ \A n \in 1 .. Len(wr') : wr'[n] = t
    BY <2>1 DEF ChipOK
  <2>3. IF cnt[t] + 1 < Words THEN at'[t] = "data" /\ cnt'[t] = cnt[t] + 1
        ELSE at'[t] = "length" /\ cnt[t] + 1 = Words
    BY <1>1, <2>1 DEF WriteData, Copy, Access, Again, ProcOK
  <2> QED
    BY <2>2, <2>3
<1>2. CASE WriteGo(t)
  <2>1. wr' = <<>> /\ at'[t] = "poll"
    BY <1>2 DEF WriteGo, Access, ProcOK
  <2> QED
    BY <2>1
<1>3. CASE WriteMask(t) \/ WriteUnmask(t)
  <2>1. wr' = wr /\ at[t] \in {"mask", "unmask"}
    BY <1>3 DEF WriteMask, WriteUnmask, Access, ToImr
  <2>2. at'[t] = "idle" \/ (at'[t] = "data" /\ cnt'[t] = 0)
    BY <1>3 DEF WriteMask, WriteUnmask, Access, ProcOK
  <2> QED
    BY <2>1, <2>2
<1>4. CASE WriteLength(t) \/ PollPts(t) \/ WriteClear(t)
  <2>1. wr' = wr
    BY <1>4 DEF WriteLength, PollPts, WriteClear, WritePts, Clear
  <2>2. IF at[t] = "length" THEN at'[t] = "go" ELSE at[t] # "go" /\ at'[t] \in {"poll", "clear", "unmask"} /\ at[t] # "data"
    BY <1>4 DEF WriteLength, PollPts, WriteClear, WritePts, Access, ProcOK
  <2> QED
    BY <2>1, <2>2
<1> QED
  BY <1>1, <1>2, <1>3, <1>4 DEF Send

\* Every step of the main loop keeps what it needs.
LEMMA MainCalm ==
  ASSUME ProcOK, ChipOK, Calm, Main
  PROVE  Calm'
<1> USE PortFacts
<1>0. at["key"] = "idle" /\ at'["key"] = "idle"
  BY MainKeepsKey
<1> USE <1>0 DEF Calm, Apart, Held, Masked, MaskedPc, PtsToCome, WrInv, RdInv
<1>1. CASE DM9000_SendPacket \/ DM9000_Receive_Packet
  BY <1>1 DEF DM9000_SendPacket, DM9000_Receive_Packet, Begin, ProcOK, Turn, WrOf
<1>2. CASE Select("main")
  BY <1>2 DEF Select, ProcOK, Turn, WrOf
<1>3. CASE Receive
  <2>1. at["main"] \in {"peek", "frame", "drain", "none", "on"} /\ isr = "idle" /\ isr' = "idle"
    BY <1>3 DEF Receive, Peek, PeekAs, ReadFrame, FrameOf, Drain, WriteStop, WriteCut,
       WriteNone, WritePts, WriteOn, Access, Again, Turn
  <2> USE <2>1
  <2>2. wr' = wr /\ at'["main"] \in {"idle", "peek", "frame", "drain", "none", "on", "stop", "cut"}
    BY <1>3 DEF Receive, Peek, PeekAs, ReadFrame, FrameOf, ReadWord, Drain, WriteStop,
       WriteCut, WriteNone, WritePts, WriteOn, Access, Again, ToImr, Clear, ProcOK
  <2>3. WrInv'
    BY <1>0, <2>2 DEF WrOf
  <2>4. Apart' /\ PtsToCome("main")'
    BY <1>0, <2>2
  <2> HIDE DEF WrInv, Apart
  <2>5. CASE Peek
    <3>1. REG = Port[at["main"]]
      BY <2>5 DEF Peek, PeekAs, Access
    <3> QED
      BY <2>3, <2>4, <2>5, <3>1 DEF Peek, PeekAs, RxFlag, Access, Right, ProcOK, ChipOK
  <2>6. CASE ReadFrame
    <3>1. at["main"] = "frame" /\ sel["main"] /\ REG = Port[at["main"]]
      BY <2>6 DEF ReadFrame, FrameOf, Access, Again
    <3>2. IF cnt["main"] + 1 < Header + Words
          THEN at'["main"] = "frame" /\ cnt'["main"] = cnt["main"] + 1
          ELSE at'["main"] \in {"idle", "peek", "drain"}
      BY <2>6 DEF ReadFrame, FrameOf, Access, Again, ProcOK
    <3>3. IF cnt["main"] + 1 < Header + Words
          THEN rd' = cnt["main"] + 1 /\ rx' > 0 ELSE rd' = 0
      BY <2>6, <3>1 DEF ReadFrame, FrameOf, ReadWord, Right, ProcOK, ChipOK
    <3>4. rcr' = rcr
      BY <2>6 DEF ReadFrame, FrameOf, ReadWord
    <3>5. Held("main")'
      <4>1. CASE Again("main", "frame")
        BY <3>1, <4>1 DEF Again
      <4>2. CASE sel'["main"] = FALSE
        BY <4>2
      <4>3. CASE at'["main"] = "drain" /\ UNCHANGED <<REG, isrVars>>
        BY <3>1, <4>3
      <4> QED
        BY <2>6, <4>1, <4>2, <4>3 DEF ReadFrame, FrameOf, Access, ProcOK
    <3>6. RdInv'
      BY <3>1, <3>2, <3>3, <3>4
    <3>7. Masked("main")'
      BY <2>2
    <3> QED
      BY <2>3, <2>4, <3>5, <3>6, <3>7
  <2>7. CASE Drain
    BY <2>3, <2>4, <2>7 DEF Drain, ReadWord
  <2>8. CASE WriteNone
    BY <2>3, <2>4, <2>8 DEF WriteNone, WritePts, Access, Clear, Right, ProcOK
  <2>9. CASE WriteOn
    BY <2>3, <2>4, <2>9 DEF WriteOn, Access, ToImr, ProcOK
  <2> QED
    BY <1>3, <2>5, <2>6, <2>7, <2>8, <2>9 DEF Receive, WriteStop, WriteCut, Access
<1>4. CASE Send("main")
  <2>1. /\ sel["main"] /\ at["main"] \in SendPc /\ isr = "idle" /\ isr' = "idle"
        /\ Right("main")
    BY <1>4 DEF Send, WriteMask, WriteData, Copy, WriteLength, WriteGo, PollPts,
       WriteClear, WritePts, WriteUnmask, Access, Again, Turn, Right
  <2>2. WrOf("main")'
    BY <1>4, <2>1, SendKeepsWr DEF WrInv
  <2> USE <2>1
  <2>3. CASE WriteMask("main")
    BY <2>2, <2>3 DEF WriteMask, Access, ToImr, ProcOK
  <2>4. CASE WriteData("main")
    <3>1. at["main"] = "data"
      BY <2>4 DEF WriteData, Copy, Access, Again
    <3>2. IF cnt["main"] + 1 < Words THEN at'["main"] = "data" /\ REG' = REG
          ELSE at'["main"] = "length" /\ sel'["main"] = FALSE
      BY <2>4, <3>1 DEF WriteData, Copy, Access, Again, ProcOK
    <3>3. UNCHANGED <<imr, rx, rd, rcr>>
      BY <2>4 DEF WriteData, Copy
    <3> QED
      BY <2>2, <3>1, <3>2, <3>3
  <2>5. CASE WriteLength("main")
    BY <2>2, <2>5 DEF WriteLength, Access, ProcOK
  <2>6. CASE WriteGo("main")
    <3>1. tx' > 0 /\ UNCHANGED <<imr, rx, rd, rcr>>
      BY <2>6 DEF WriteGo, ChipOK
    <3>2. at["main"] = "go" /\ at'["main"] = "poll" /\ sel'["main"] = FALSE
      BY <2>6 DEF WriteGo, Access, ProcOK
    <3> QED
      BY <2>2, <3>1, <3>2
  <2>7. CASE PollPts("main")
    BY <2>2, <2>7 DEF PollPts, Access, ProcOK
  <2>8. CASE WriteClear("main")
    BY <2>2, <2>8 DEF WriteClear, WritePts, Access, Clear, ProcOK
  <2>9. CASE WriteUnmask("main")
    BY <2>2, <2>9 DEF WriteUnmask, Access, ToImr, ProcOK
  <2> QED
    BY <1>4, <2>3, <2>4, <2>5, <2>6, <2>7, <2>8, <2>9 DEF Send
<1> QED
  BY <1>1, <1>2, <1>3, <1>4 DEF Main

\* A send of WK_UP's handler that begins between them keeps it too.
LEMMA KeyCalm ==
  ASSUME ProcOK, ChipOK, Held("key"), Calm, Key, ~nested'
  PROVE  Calm'
<1> USE PortFacts
<1>1. at["main"] = "idle" /\ at'["main"] = "idle"
  <2>1. CASE EXTI0_IRQHandler
    BY <2>1 DEF EXTI0_IRQHandler, Begin, ProcOK
  <2>2. CASE Select("key") \/ Send("key")
    <3>1. at["key"] # "idle"
      BY <2>2 DEF Select, Send, WriteMask, WriteData, Copy, WriteLength, WriteGo, PollPts,
         WriteClear, WritePts, WriteUnmask, Access, Again
    <3>2. at'["main"] = at["main"]
      BY <2>2 DEF ProcOK, Select, Send, WriteMask, WriteData, Copy, WriteLength, WriteGo,
         PollPts, WriteClear, WritePts, WriteUnmask, Access, Again
    <3> QED
      BY <3>1, <3>2 DEF Calm, Apart
  <2> QED
    BY <2>1, <2>2 DEF Key
<1>2. UNCHANGED <<rx, rd, rcr>>
  <2>1. CASE EXTI0_IRQHandler \/ Select("key")
    BY <2>1 DEF EXTI0_IRQHandler, Begin, Select
  <2>2. CASE Send("key")
    <3>1. Right("key")
      BY <2>2 DEF Held, Send, WriteMask, WriteData, Copy, WriteLength, WriteGo, PollPts,
         WriteClear, WritePts, WriteUnmask, Access, Again, Turn, Right
    <3> QED
      BY <2>2, <3>1 DEF Send, WriteMask, WriteData, Copy, WriteLength, WriteGo, PollPts,
         WriteClear, WritePts, WriteUnmask, ToImr, Clear
  <2> QED
    BY <2>1, <2>2 DEF Key
<1>3. WrInv'
  <2>1. CASE EXTI0_IRQHandler
    <3>1. at["key"] = "idle" /\ at'["key"] = "mask" /\ wr' = wr
      BY <2>1 DEF EXTI0_IRQHandler, Begin, ProcOK
    <3> QED
      BY <1>1, <3>1 DEF Calm, WrInv, WrOf
  <2>2. CASE Select("key")
    BY <2>2 DEF Select, Calm, WrInv, WrOf
  <2>3. CASE Send("key")
    <3>1. Right("key") /\ at["key"] # "idle"
      BY <2>3 DEF Held, Send, WriteMask, WriteData, Copy, WriteLength, WriteGo, PollPts,
         WriteClear, WritePts, WriteUnmask, Access, Again, Turn, Right
    <3>2. WrOf("key")'
      BY <2>3, <3>1, SendKeepsWr DEF Calm, WrInv
    <3> QED
      BY <1>1, <3>2 DEF WrInv, WrOf
  <2> QED
    BY <2>1, <2>2, <2>3 DEF Key
<1> QED
  BY <1>1, <1>2, <1>3 DEF Calm, Apart, Held, Masked, MaskedPc, PtsToCome, RdInv

\* And so does the controller with its own handler.
LEMMA ChipCalm ==
  ASSUME ProcOK, ChipOK, Calm, Isr \/ RxArrive \/ TxDone \/ UNCHANGED vars
  PROVE  Calm'
<1>1. UNCHANGED <<at, sel, cnt, wr, rd, rcr>>
  BY DEF Isr, EXTI9_5_IRQHandler, IsrTest, TestFor, IsrAck, Acknowledge, Clear, RxArrive, TxDone
<1>2. Apart' /\ WrInv'
  BY <1>1 DEF Calm, Apart, WrInv, WrOf
<1>3. RdInv'
  <2>1. rx > 0 => rx' > 0
    BY DEF Isr, EXTI9_5_IRQHandler, IsrTest, TestFor, IsrAck, Acknowledge, Clear, RxArrive,
       TxDone, ChipOK
  <2> QED
    BY <1>1, <2>1 DEF Calm, RdInv
<1> USE PortFacts DEF Calm, Held, Masked, MaskedPc, PtsToCome
<1>4. Held("main")' /\ Masked("main")' /\ PtsToCome("main")'
  <2>1. CASE EXTI9_5_IRQHandler
    BY <2>1 DEF EXTI9_5_IRQHandler
  <2>2. CASE IsrTest
    BY <2>2 DEF IsrTest, TestFor, Low
  <2>3. CASE IsrAck
    BY <2>3 DEF IsrAck, Acknowledge, Clear
  <2>4. CASE RxArrive
    BY <2>4 DEF RxArrive
  <2>5. CASE TxDone
    BY <2>5 DEF TxDone, ChipOK
  <2>6. CASE UNCHANGED vars
    BY <2>6
  <2> QED
    BY <2>1, <2>2, <2>3, <2>4, <2>5, <2>6 DEF Isr
<1> QED
  BY <1>2, <1>3, <1>4

\* What has been sent inside an access stays so.
LEMMA NestedStays == [Next]_vars /\ nested => nested'
<1>1. ASSUME NEW t \in Threads, Send(t), nested PROVE nested'
  BY <1>1 DEF Send, WriteMask, WriteData, Copy, WriteLength, WriteGo, PollPts, WriteClear,
     WritePts, WriteUnmask, Access, Again
<1>2. CASE Receive /\ nested
  BY <1>2 DEF Receive, Peek, PeekAs, ReadFrame, FrameOf, Drain, WriteStop, WriteCut,
     WriteNone, WritePts, WriteOn, Access, Again
<1>3. ASSUME NEW t \in Threads, Select(t), nested PROVE nested'
  BY <1>3 DEF Select
<1>4. CASE Isr /\ nested
  BY <1>4 DEF Isr, EXTI9_5_IRQHandler, IsrTest, TestFor, IsrAck, Acknowledge
<1>5. CASE (DM9000_SendPacket \/ DM9000_Receive_Packet \/ EXTI0_IRQHandler) /\ nested
  BY <1>5 DEF DM9000_SendPacket, DM9000_Receive_Packet, EXTI0_IRQHandler, Begin
<1>6. CASE (RxArrive \/ TxDone \/ UNCHANGED vars) /\ nested
  BY <1>6 DEF RxArrive, TxDone
<1> QED
  BY <1>1, <1>2, <1>3, <1>4, <1>5, <1>6 DEF Next, Main, Key

\* What the main loop needs holds always, until a send comes inside.
THEOREM MainInvariance == Spec => []MainInv
<1>1. Init => MainInv
  <2> SUFFICES ASSUME Init PROVE MainInv
    OBVIOUS
  <2>1. at["key"] = "idle"
    BY DEF Init
  <2> QED
    BY <2>1, InitTypeOK, IdleKey, InitCalm DEF KeyInv, MainInv
<1>2. MainInv /\ [Next]_vars => MainInv'
  <2> SUFFICES ASSUME MainInv, [Next]_vars, ~nested' PROVE Calm'
    BY NextKeyInv DEF MainInv
  <2>1. ProcOK /\ ChipOK /\ Held("key")
    BY TypeHalves DEF MainInv, KeyInv
  <2>2. Calm
    BY NestedStays DEF MainInv
  <2> QED
    BY <2>1, <2>2, MainCalm, KeyCalm, ChipCalm DEF Next
<1> QED
  BY <1>1, <1>2, PTL DEF Spec

\* Until then no access of the main loop is torn.
THEOREM MainIsUndisturbed == Spec => []MainUndisturbed
<1>1. MainInv => MainUndisturbed
  BY DEF MainInv, Calm, MainUndisturbed, Undisturbed, Held, Turn, Right
<1> QED
  BY <1>1, MainInvariance, PTL

\* Until then the packets of both senders go out whole.
THEOREM PacketsAreWhole == Spec => []PacketsWhole
<1>1. MainInv => PacketsWhole
  <2> SUFFICES ASSUME MainInv, ~nested, NEW t \in Threads, at[t] = "go"
               PROVE  wr = [n \in 1 .. Words |-> t]
    BY DEF PacketsWhole
  <2>1. WrOf(t)
    BY DEF MainInv, Calm, Apart, WrInv
  <2>2. wr \in Seq(Threads) /\ Len(wr) = Words /\ \A n \in 1 .. Words : wr[n] = t
    BY <2>1 DEF MainInv, KeyInv, WrOf, TypeOK
  <2>3. wr \in [1 .. Words -> Threads]
    BY <2>2, LenProperties
  <2> QED
    BY <2>2, <2>3
<1> QED
  BY <1>1, MainInvariance, PTL

\* Until then a received packet is read to its end and no further.
THEOREM ReceptionIsAligned == Spec => []RxAligned
<1>1. MainInv => RxAligned
  BY DEF MainInv, Calm, RdInv, RxAligned
<1> QED
  BY <1>1, MainInvariance, PTL

\* Until then the completion the main loop polls for is under way or set.
THEOREM MainPtsComes == Spec => []MainPtsToCome
<1>1. MainInv => MainPtsToCome
  BY DEF MainInv, Calm, MainPtsToCome
<1> QED
  BY <1>1, MainInvariance, PTL

\* Until then the receiver is never switched off.
THEOREM ReceiverIsOn == Spec => []ReceiverStaysOn
<1>1. MainInv => ReceiverStaysOn
  BY DEF MainInv, Calm, RdInv, ReceiverStaysOn
<1> QED
  BY <1>1, MainInvariance, PTL

\* The main loop finds what its accesses rely on, until WK_UP's handler sends
\* inside one of them.
THEOREM MainIsSound == Spec => []MainSound
<1>1. TypeOK /\ MainUndisturbed /\ MainPtsToCome /\ ReceiverStaysOn => MainSound
  BY DEF MainSound
<1> QED
  BY <1>1, TypeCorrect, MainIsUndisturbed, MainPtsComes, ReceiverIsOn, PTL

\* WK_UP's handler finds it always.
THEOREM KeyIsSound == Spec => []KeySound
<1>1. TypeOK /\ KeyUndisturbed /\ KeyPtsToCome => KeySound
  BY DEF KeySound
<1> QED
  BY <1>1, TypeCorrect, KeyIsUndisturbed, KeyPtsComes, PTL
=============================================================================
