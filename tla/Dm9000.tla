------------------------------- MODULE Dm9000 -------------------------------
(***************************************************************************)
(* DM9000.c: the Ethernet controller behind one register-select port (REG) *)
(* and one data port (DATA).  The main loop receives and sends; the WK_UP  *)
(* handler (EXTI0, priority 2) sends the first packet of a connection; the *)
(* controller's own handler (EXTI9_5, priority 1) reads and clears its     *)
(* status.  A step is one access to REG or DATA.                           *)
(***************************************************************************)
EXTENDS Naturals, Sequences

CONSTANTS
  Words,     \* 16-bit words of a packet
  MaxRx,     \* packets the receive memory can hold (a bound)
  PbufFails  \* may pbuf_alloc fail?

ASSUME WordsAssumption == Words \in Nat \ {0}
ASSUME MaxRxAssumption == MaxRx \in Nat
ASSUME FlagAssumption == PbufFails \in BOOLEAN

VARIABLES
  REG,     \* the selected register
  imr,     \* the enabled interrupts
  status,  \* the status bits of ISR
  tx,      \* transmissions under way
  rcr,     \* is the receiver on?
  rx,      \* packets in the receive memory
  rd,      \* words read of the first one, its status and length included
  wr,      \* who wrote each word waiting in the transmit memory
  intp,    \* EXTI line 6 pending
  at,      \* per thread, the register access it is at
  sel,     \* per thread, has it written REG for that access?
  cnt,     \* per thread, words moved in the running copy loop
  nested,  \* has WK_UP's handler sent inside a send or a reception of the
           \* main loop? (history)
  isr,     \* the EXTI9_5 handler: where it stands
  last_io, \* the selection it saved
  seen     \* the status it read

chipVars   == <<imr, status, tx, rcr, rx, rd, wr, intp>>
threadVars == <<at, sel, cnt, nested>>
isrVars    == <<isr, last_io, seen>>
vars       == <<REG, chipVars, threadVars, isrVars>>

Threads == {"main", "key"}
Irqs    == {"PRS", "PTS"}
imr_all == {"PRS"}

\* The register each access is meant for.
Port == [mask |-> "IMR", data |-> "MWCMD", length |-> "TXPL", go |-> "TCR",
         poll |-> "ISR", clear |-> "ISR", unmask |-> "IMR",
         peek |-> "MRCMDX", frame |-> "MRCMD", drain |-> "MRCMD",
         stop |-> "RCR", cut |-> "ISR", none |-> "ISR", on |-> "IMR"]
SendPc == {"mask", "data", "length", "go", "poll", "clear", "unmask"}
RecvPc == DOMAIN Port \ SendPc
Header == 2    \* rx_status and rx_length

Init ==
  /\ REG = "IMR" /\ imr = imr_all /\ status = {} /\ tx = 0
  /\ rcr = TRUE /\ rx = 0 /\ rd = 0 /\ wr = <<>> /\ intp = FALSE
  /\ at = [t \in Threads |-> "idle"]
  /\ sel = [t \in Threads |-> FALSE] /\ cnt = [t \in Threads |-> 0]
  /\ nested = FALSE /\ isr = "idle" /\ last_io = "IMR" /\ seen = {}

-----------------------------------------------------------------------------
(* The controller.                                                         *)

\* The interrupt line is low; its falling edge makes EXTI line 6 pending.
Low == imr \cap status # {}
Edge(i, s) == intp' = (intp \/ (~Low /\ i \cap s # {}))

RxArrive ==
  /\ rcr /\ rx < MaxRx
  /\ rx' = rx + 1 /\ status' = status \cup {"PRS"} /\ Edge(imr, status')
  /\ UNCHANGED <<REG, imr, tx, rcr, rd, wr, threadVars, isrVars>>

TxDone ==
  /\ tx > 0
  /\ tx' = tx - 1 /\ status' = status \cup {"PTS"} /\ Edge(imr, status')
  /\ UNCHANGED <<REG, imr, rcr, rx, rd, wr, threadVars, isrVars>>

-----------------------------------------------------------------------------
(* The threads.                                                            *)

Turn(t)  == isr = "idle" /\ (t = "main" => at["key"] = "idle")
Right(t) == REG = Port[at[t]]

Begin(t, l) ==
  /\ Turn(t) /\ at[t] = "idle"
  /\ at' = [at EXCEPT ![t] = l] /\ sel' = [sel EXCEPT ![t] = FALSE]
  /\ cnt' = [cnt EXCEPT ![t] = 0]
  /\ nested' = (nested \/ (t = "key" /\ at["main"] # "idle"))
  /\ UNCHANGED <<REG, chipVars, isrVars>>

\* lwIP has a packet to send; lwip_pkt_handle looks for one; WK_UP connects
\* when there is no client.
DM9000_SendPacket     == Begin("main", "mask")
DM9000_Receive_Packet == Begin("main", "peek")
EXTI0_IRQHandler      == Begin("key", "mask")

\* DM9000->REG = reg
Select(t) ==
  /\ Turn(t) /\ at[t] # "idle" /\ ~sel[t]
  /\ REG' = Port[at[t]] /\ sel' = [sel EXCEPT ![t] = TRUE]
  /\ UNCHANGED <<chipVars, at, cnt, nested, isrVars>>

\* An access to DATA at label l, after which t goes on to next.
Access(t, l, next) ==
  /\ Turn(t) /\ at[t] = l /\ sel[t]
  /\ at' = [at EXCEPT ![t] = next] /\ sel' = [sel EXCEPT ![t] = FALSE]
  /\ cnt' = [cnt EXCEPT ![t] = 0]
  /\ UNCHANGED <<REG, nested, isrVars>>

\* One more word at the same label.
Again(t, l) ==
  /\ Turn(t) /\ at[t] = l /\ sel[t]
  /\ cnt' = [cnt EXCEPT ![t] = @ + 1]
  /\ UNCHANGED <<REG, at, sel, nested, isrVars>>

\* The value goes to IMR, whatever register it was meant for.
ToImr(v) == imr' = v /\ Edge(v, status) /\ UNCHANGED <<status, tx, rcr, rx, rd, wr>>

\* A value meant for the register selected, or one that lands in IMR with
\* bits v: after the key's packet REG is IMR.
WriteMaskRxOn(t) == Access(t, "mask", "data") /\ ToImr(imr_all)    \* mutant
WriteMask(t)   == Access(t, "mask", "data") /\ ToImr({})
WriteUnmask(t) == Access(t, "unmask", "idle") /\ ToImr(imr_all)

\* One word into the transmit memory; what lies beyond a packet and one word
\* more is not told apart.
Stored(t) == IF Len(wr) <= Words THEN Append(wr, t) ELSE wr

Copy(t, words) ==
  /\ IF cnt[t] + 1 < words THEN Again(t, "data") ELSE Access(t, "data", "length")
  /\ IF Right(t) THEN wr' = Stored(t) /\ UNCHANGED <<imr, status, tx, rcr, rx, rd, intp>>
                 ELSE \E v \in SUBSET Irqs : ToImr(v)
WriteDataNoOddByte(t) == Copy(t, Words - 1)    \* mutant
WriteData(t) == Copy(t, Words)

WriteLength(t) ==
  /\ Access(t, "length", "go")
  /\ IF Right(t) THEN UNCHANGED chipVars ELSE \E v \in SUBSET Irqs : ToImr(v)

WriteGo(t) ==
  /\ Access(t, "go", "poll")
  /\ IF Right(t)
     THEN /\ tx' = IF tx < 2 THEN tx + 1 ELSE tx    \* two transmit buffers
          /\ wr' = <<>> /\ UNCHANGED <<imr, status, rcr, rx, rd, intp>>
     ELSE ToImr({"PRS"})

\* while((DM9000_ReadReg(DM9000_ISR)&0X02)==0); when the key has left IMR
\* selected it has just set it to imr_all, where that bit is 0.
PollPts(t) ==
  /\ Access(t, "poll", IF Right(t) /\ "PTS" \in status THEN "clear" ELSE "poll")
  /\ UNCHANGED chipVars

\* ISR bits are cleared by writing ones.
Clear(bits) == status' = status \ bits /\ Edge(imr, status') /\ UNCHANGED <<imr, tx, rcr, rx, rd, wr>>

WritePts(t, l, next) ==
  /\ Access(t, l, next)
  /\ IF Right(t) THEN Clear({"PTS"}) ELSE ToImr({"PTS"})

WriteClear(t) == WritePts(t, "clear", "unmask")

\* The two reads of MRCMDX: 0, 1, or in the middle of a packet anything; IMR
\* reads as 0x80 or more.
PeekAs(Reads(_)) ==
  /\ at["main"] = "peek"
  /\ \E rxbyte \in 0 .. 2 :
       /\ IF Right("main") THEN Reads(rxbyte) ELSE rxbyte = 2
       /\ Access("main", "peek", IF rxbyte = 0 THEN "none"
                                 ELSE IF rxbyte = 1 THEN "frame" ELSE "stop")
  /\ UNCHANGED chipVars
RxFlag(b) == rd = 0 => b = (IF rx > 0 THEN 1 ELSE 0)
Stale(b)  == TRUE
Peek == PeekAs(RxFlag)

\* The read pointer moves on by one word, past the end to the next packet.
ReadWord ==
  /\ IF ~Right("main") \/ rx = 0 THEN UNCHANGED <<rx, rd>>
     ELSE IF rd + 1 < Header + Words THEN rd' = rd + 1 /\ UNCHANGED rx
     ELSE rd' = 0 /\ rx' = rx - 1
  /\ UNCHANGED <<imr, status, tx, rcr, wr, intp>>

\* Status, length and the words, into a pbuf or into a dummy; a packet with
\* an error is dropped and the next one looked at.  Dropping without a pbuf a
\* packet of odd length never ends: len steps over zero.
FrameOf(words) ==
  /\ \/ cnt["main"] + 1 < words /\ Again("main", "frame")
     \/ cnt["main"] + 1 = words
        /\ \/ Access("main", "frame", "idle")
           \/ Access("main", "frame", "peek")
           \/ /\ PbufFails /\ Turn("main") /\ at["main"] = "frame" /\ sel["main"]
              /\ at' = [at EXCEPT !["main"] = "drain"]
              /\ UNCHANGED <<REG, sel, cnt, nested, isrVars>>
  /\ ReadWord
ReadFrameShort == FrameOf(Header + Words - 1)    \* mutant
ReadFrame == FrameOf(Header + Words)

Drain ==
  /\ Turn("main") /\ at["main"] = "drain" /\ ReadWord
  /\ UNCHANGED <<REG, threadVars, isrVars>>

WriteStop ==
  /\ Access("main", "stop", "cut")
  /\ IF Right("main")
     THEN rcr' = FALSE /\ UNCHANGED <<imr, status, tx, rx, rd, wr, intp>>
     ELSE ToImr({})
WriteCut == Access("main", "cut", "idle")
            /\ IF Right("main") THEN UNCHANGED chipVars ELSE ToImr({})

WriteNone == WritePts("main", "none", "on")
WriteOn   == Access("main", "on", "idle") /\ ToImr(imr_all)

-----------------------------------------------------------------------------
(* EXTI9_5: nothing preempts it but the controller.                        *)

EXTI9_5_IRQHandler ==
  /\ isr = "idle" /\ intp
  /\ intp' = FALSE /\ isr' = "test"
  /\ UNCHANGED <<REG, imr, status, tx, rcr, rx, rd, wr, threadVars, last_io, seen>>

\* while(DM9000_INT == 0): save REG and read the status, or leave.
TestFor(line) ==
  /\ isr = "test"
  /\ IF line THEN isr' = "ack" /\ last_io' = REG /\ REG' = "ISR" /\ seen' = status
            ELSE isr' = "idle" /\ UNCHANGED <<REG, last_io, seen>>
  /\ UNCHANGED <<chipVars, threadVars>>
IsrTestHigh == TestFor(~Low)    \* mutant
IsrTest == TestFor(Low)

\* Clear what was read and restore REG; the locals are gone.
Acknowledge(bits, reg) ==
  /\ isr = "ack" /\ isr' = "test"
  /\ Clear(bits) /\ REG' = reg
  /\ last_io' = "IMR" /\ seen' = {}
  /\ UNCHANGED threadVars
IsrAckRegLost == Acknowledge(seen, "ISR")    \* mutant
IsrAck == Acknowledge(seen, last_io)

-----------------------------------------------------------------------------
Send(t) == \/ WriteMask(t) \/ WriteData(t) \/ WriteLength(t) \/ WriteGo(t)
           \/ PollPts(t) \/ WriteClear(t) \/ WriteUnmask(t)
Receive == Peek \/ ReadFrame \/ Drain \/ WriteStop \/ WriteCut \/ WriteNone \/ WriteOn
Main    == DM9000_SendPacket \/ DM9000_Receive_Packet \/ Receive \/ Send("main") \/ Select("main")
Key     == EXTI0_IRQHandler \/ Send("key") \/ Select("key")
Isr     == EXTI9_5_IRQHandler \/ IsrTest \/ IsrAck
Next    == Main \/ Key \/ Isr \/ RxArrive \/ TxDone

Spec == Init /\ [][Next]_vars

(* The processor runs each level whenever the levels above let it, and the  *)
(* controller transmits what it has been told to.                           *)
FairSpec == /\ Spec
            /\ SF_vars(Main) /\ SF_vars(Send("key") \/ Select("key"))
            /\ WF_vars(Isr) /\ WF_vars(TxDone)

-----------------------------------------------------------------------------
TypeOK ==
  /\ REG \in {Port[l] : l \in DOMAIN Port}
  /\ imr \subseteq Irqs /\ status \subseteq Irqs
  /\ tx \in 0 .. 2 /\ rcr \in BOOLEAN
  /\ rx \in 0 .. MaxRx /\ rd \in 0 .. Header + Words - 1
  /\ wr \in Seq(Threads) /\ Len(wr) <= Words + 1 /\ intp \in BOOLEAN
  /\ at \in [Threads -> DOMAIN Port \cup {"idle"}]
  /\ sel \in [Threads -> BOOLEAN]
  /\ cnt \in [Threads -> 0 .. Header + Words - 1] /\ nested \in BOOLEAN
  /\ isr \in {"idle", "test", "ack"} /\ last_io \in {Port[l] : l \in DOMAIN Port}
  /\ seen \subseteq Irqs

\* A thread that may go on after writing REG finds its register selected.
Undisturbed(t) == (sel[t] /\ Turn(t) /\ at[t] # "idle") => Right(t)
\* WK_UP's handler: EXTI9_5 restores REG after interrupting it.
KeyUndisturbed  == Undisturbed("key")
\* The main loop: so does whatever interrupts it between REG and DATA, unless
\* WK_UP's handler sent there.
MainUndisturbed == ~nested => Undisturbed("main")

\* A packet goes out as the words of one sender, all of them: the handler that
\* sends between two packets of the main loop leaves the memory empty for it.
PacketsWhole ==
  ~nested => \A t \in Threads :
    (at[t] = "go" /\ sel[t] /\ Right(t)) => wr = [n \in 1 .. Words |-> t]

\* When DM9000_Receive_Packet is not copying, the read pointer stands at the
\* start of a packet: the copy took neither too few words nor too many.
RxAligned == ~nested /\ at["main"] \in SendPc \cup {"idle", "peek"} => rd = 0

\* A thread that waits for its packet has its completion before it.
PtsToCome(t) == at[t] = "poll" => tx > 0 \/ "PTS" \in status
\* WK_UP's handler: no one it interrupts or that interrupts it clears its PTS.
KeyPtsToCome  == PtsToCome("key")
\* The main loop: no one that interrupts its poll clears its PTS, unless WK_UP's
\* handler sends there.
MainPtsToCome == ~nested => PtsToCome("main")

\* The interrupt is edge-triggered, the line level: while it is low, the
\* handler runs or is going to, so that no later edge is needed.
IntNoticed == Low => intp \/ isr # "idle"

\* rxbyte > 1 means erroneous data: with a sound controller, whose reads are of
\* the register they are meant for, the receiver is never stopped.
ReceiverStaysOn == ~nested => rcr

\* What the main loop's accesses rely on: its register selected, its completion
\* to come, the receiver on, however EXTI9_5 interrupts them, and WK_UP's send
\* comes before and after them, but not inside.
MainSound == TypeOK /\ MainUndisturbed /\ MainPtsToCome /\ ReceiverStaysOn

\* The same for WK_UP's handler, whatever it interrupts.
KeySound == TypeOK /\ KeyUndisturbed /\ KeyPtsToCome

\* A packet is sent and the sender returns.
SendEnds(t) == at[t] \in SendPc ~> at[t] \notin SendPc
\* The send of WK_UP's handler, inside an interrupt, ends.
KeySendEnds  == SendEnds("key")
\* The send of the main loop ends, unless WK_UP's handler sends inside one.
UntornSendEnds ==
  at["main"] \in SendPc ~> at["main"] \notin SendPc \/ nested

-----------------------------------------------------------------------------
\* DM9000.c, DM9000_SendPacket "wait for the transmission to finish": the send
\* of the main loop ends.  It does not hold: the one inside takes its PTS.
MainSendEnds == SendEnds("main")
=============================================================================
