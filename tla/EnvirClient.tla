---------------------------- MODULE EnvirClient ----------------------------
(***************************************************************************)
(* The upload client of the environment monitor: the main loop (main.c),   *)
(* the raw-API TCP client (tcp_client.c) with the lwIP control blocks it   *)
(* owns, and the interrupt handlers that share state with them: TIM2       *)
(* (EnvirData.c), KEY1/EXTI3 and WK_UP/EXTI0 (KEY.c).                      *)
(*                                                                         *)
(* Granularity.  A step is the code between two accesses to the variables  *)
(* that a preempting handler shares with the preempted code:               *)
(* tcp_client_flag and client_pcb.  A read-modify-write of the flag byte   *)
(* (LDRB / ORR or BIC / STRB) is a load step and a store step.  The        *)
(* handler of TIM2 has preemption priority 1 and is one step; the handlers *)
(* of EXTI0 and EXTI3 have priority 2, exclude each other and the main     *)
(* loop, and can be preempted by TIM2.                                     *)
(***************************************************************************)
EXTENDS Naturals

CONSTANTS
  Pcb,       \* slots of lwIP's MEMP_TCP_PCB pool
  Es,        \* blocks mem_malloc can return for a struct _tcp_client_data
  NULL,      \* the null pointer
  MemFails   \* may mem_malloc, pbuf_alloc and tcp_connect run out of memory?

ASSUME NullAssumption == NULL \notin Pcb \cup Es
ASSUME MemFailsAssumption == MemFails \in BOOLEAN

VARIABLES
  pc,                 \* where the main loop stands
  tcp_client_flag,    \* the shared flag byte, as the set of its bits
  reg,                \* the copy a main-loop read-modify-write holds
  tcp_client_revdata, \* what the last received command says
  client_pcb,         \* the global pointer, possibly to a freed block
  state,              \* pcb->state, "FREE" for a slot in the pool
  callback_arg,       \* pcb->callback_arg
  es_state,           \* es->state, "FREE" for a block of the heap
  close_es,           \* the es argument of the running connect_close
  isr,                \* the priority-2 handler in progress
  isr_reg,            \* the copy the EXTI3 handler's read-modify-write holds
  timecnt             \* the static counter of the TIM2 handler

mainVars == <<pc, reg>>
flagVars == <<tcp_client_flag, tcp_client_revdata>>
tcpVars  == <<client_pcb, state, callback_arg, es_state, close_es>>
isrVars  == <<isr, isr_reg>>
vars     == <<mainVars, flagVars, tcpVars, isrVars, timecnt>>

Bits     == {"START", "CONNECT", "REVC", "SEND"}
Commands == {"none", "start", "other"}
PcbState == {"FREE", "CLOSED", "SYN_SENT", "ESTABLISHED", "CLOSE_WAIT",
             "LAST_ACK"}
EsState  == {"FREE", "CONNECTED", "CLOSING"}
BootPc   == {"boot", "netif"}
LoopPc   == {"show", "check", "send", "send_load", "send_store", "revc",
             "start_load", "start_store", "revc_load", "revc_store",
             "timeouts", "pkt", "conn_load", "conn_store", "recv_load",
             "recv_store", "free_es", "reset_flag", "reset_pcb"}
StopPc   == {"halt", "fault"}
UploadTicks == 10    \* ten ticks of 100 ms

Live(p)  == state[p] # "FREE"
Active   == {p \in Pcb : Live(p) /\ state[p] # "CLOSED"}  \* tcp_active_pcbs

Init ==
  /\ pc = "boot"
  /\ tcp_client_flag = {} /\ reg = {}
  /\ tcp_client_revdata = "none"
  /\ client_pcb = NULL
  /\ state = [p \in Pcb |-> "FREE"]
  /\ callback_arg = [p \in Pcb |-> NULL]
  /\ es_state = [e \in Es |-> "FREE"]
  /\ close_es = NULL
  /\ isr = "none" /\ isr_reg = {}
  /\ timecnt = 0

-----------------------------------------------------------------------------
(* The main loop runs only while no priority-2 handler is active.          *)

MainAt(l)  == isr = "none" /\ pc = l
Goto(l)    == pc' = l /\ UNCHANGED reg

\* One read-modify-write of the flag byte: the load at label l ...
LoadFlag(l, next, f) ==
  /\ MainAt(l) /\ pc' = next /\ reg' = f
  /\ UNCHANGED <<flagVars, tcpVars, isrVars, timecnt>>
\* ... and the store at label l, whatever happened to the flag meanwhile.
StoreFlag(l) ==
  /\ MainAt(l) /\ tcp_client_flag' = reg /\ reg' = {}
  /\ UNCHANGED <<tcp_client_revdata, isrVars, timecnt>>

\* HardWare_Init up to and including lwip_init(); the keys already interrupt.
BootLwip ==
  /\ MainAt("boot") /\ Goto("netif")
  /\ UNCHANGED <<flagVars, tcpVars, isrVars, timecnt>>

\* netif_add, netif_set_up, the sensors, TIM2 started: the loop begins.
BootNetif ==
  /\ MainAt("netif") /\ Goto("show")
  /\ UNCHANGED <<flagVars, tcpVars, isrVars, timecnt>>

\* OLED_ShowInterfaceData reads the flag and, connected, *client_pcb.
ShowInterface ==
  /\ MainAt("show") /\ Goto("check")
  /\ UNCHANGED <<flagVars, tcpVars, isrVars, timecnt>>

CheckSend ==
  /\ MainAt("check")
  /\ Goto(IF {"SEND", "START"} \subseteq tcp_client_flag THEN "send" ELSE "revc")
  /\ UNCHANGED <<flagVars, tcpVars, isrVars, timecnt>>

\* Send_EnvirPacketData: without memory for senddata the code spins; without
\* a pbuf it writes through a null pointer, which faults or goes unnoticed.
SendPacket ==
  /\ MainAt("send")
  /\ \/ Goto("send_load")
     \/ MemFails /\ Goto("halt")
     \/ MemFails /\ Goto("fault")
  /\ UNCHANGED <<flagVars, tcpVars, isrVars, timecnt>>

SendLoad  == LoadFlag("send_load", "send_store", tcp_client_flag \ {"SEND"})
SendStore == StoreFlag("send_store") /\ pc' = "revc" /\ UNCHANGED tcpVars

\* Mutant: strcmp() taken for a truth value.
CheckRevcInverted ==
  /\ MainAt("revc")
  /\ Goto(IF "REVC" \notin tcp_client_flag THEN "timeouts"
          ELSE IF tcp_client_revdata # "start" THEN "start_load"
          ELSE "revc_load")
  /\ UNCHANGED <<flagVars, tcpVars, isrVars, timecnt>>

\* Mutant: the REVC bit is cleared only for a known command.
CheckRevcKeepsUnknown ==
  /\ MainAt("revc")
  /\ Goto(IF "REVC" \in tcp_client_flag /\ tcp_client_revdata = "start"
          THEN "start_load" ELSE "timeouts")
  /\ UNCHANGED <<flagVars, tcpVars, isrVars, timecnt>>

CheckRevc ==
  /\ MainAt("revc")
  /\ Goto(IF "REVC" \notin tcp_client_flag THEN "timeouts"
          ELSE IF tcp_client_revdata = "start" THEN "start_load"
          ELSE "revc_load")
  /\ UNCHANGED <<flagVars, tcpVars, isrVars, timecnt>>

StartLoad  == LoadFlag("start_load", "start_store", tcp_client_flag \cup {"START"})
StartStore == StoreFlag("start_store") /\ pc' = "revc_load" /\ UNCHANGED tcpVars
RevcLoad   == LoadFlag("revc_load", "revc_store", tcp_client_flag \ {"REVC"})
RevcStore  == StoreFlag("revc_store") /\ pc' = "timeouts" /\ UNCHANGED tcpVars

-----------------------------------------------------------------------------
(* lwIP: sys_check_timeouts runs tcp_slowtmr, lwip_pkt_handle one received *)
(* segment.  The client registers recv, poll, sent and err together, with  *)
(* its es as callback_arg: a control block has them iff the arg is set.    *)

\* Mutant: tcp_err_client forgets to free its argument.
RemovePcbKeepsEs(p) ==
  /\ state' = [state EXCEPT ![p] = "FREE"]
  /\ UNCHANGED es_state

\* Remove p, return it to the pool, then errf(callback_arg): tcp_err_client
\* returns the es to the heap and touches neither client_pcb nor the flags.
RemovePcb(p) ==
  /\ state' = [state EXCEPT ![p] = "FREE"]
  /\ es_state' = IF callback_arg[p] = NULL THEN es_state
                 ELSE [es_state EXCEPT ![callback_arg[p]] = "FREE"]

\* An incoming RST; in LAST_ACK also the acknowledgement of our FIN.
PktRemove(p) ==
  /\ MainAt("pkt") /\ p \in Active
  /\ RemovePcb(p) /\ Goto("show")
  /\ UNCHANGED <<flagVars, client_pcb, callback_arg, close_es, isrVars, timecnt>>

\* tcp_slowtmr gives up: SYN or data retransmitted too often, LAST_ACK over.
SlowTmrRemove(p) ==
  /\ MainAt("timeouts") /\ p \in Active
  /\ state[p] \in {"SYN_SENT", "LAST_ACK"} \/ callback_arg[p] # NULL
  /\ RemovePcb(p) /\ Goto("pkt")
  /\ UNCHANGED <<flagVars, client_pcb, callback_arg, close_es, isrVars, timecnt>>

\* SYN+ACK: tcp_connect_client allocates and registers es, or silently gives up.
PktSynAck(p) ==
  /\ MainAt("pkt") /\ state[p] = "SYN_SENT"
  /\ state' = [state EXCEPT ![p] = "ESTABLISHED"]
  /\ \/ \E e \in Es :
          /\ es_state[e] = "FREE"
          /\ es_state' = [es_state EXCEPT ![e] = "CONNECTED"]
          /\ callback_arg' = [callback_arg EXCEPT ![p] = e]
          /\ Goto("conn_load")
     \/ MemFails /\ Goto("show") /\ UNCHANGED <<es_state, callback_arg>>
  /\ UNCHANGED <<flagVars, client_pcb, close_es, isrVars, timecnt>>

ConnLoad  == LoadFlag("conn_load", "conn_store", tcp_client_flag \cup {"CONNECT"})
ConnStore == StoreFlag("conn_store") /\ pc' = "show" /\ UNCHANGED tcpVars

\* A data segment, perhaps with FIN: tcp_recv_client copies it to the command
\* buffer; the FIN is delivered after the data callback has returned.
PktData(p, cmd, fin) ==
  /\ MainAt("pkt") /\ state[p] = "ESTABLISHED" /\ callback_arg[p] # NULL
  /\ state' = [state EXCEPT ![p] = IF fin THEN "CLOSE_WAIT" ELSE @]
  /\ IF es_state[callback_arg[p]] = "CONNECTED"
     THEN tcp_client_revdata' = cmd /\ Goto("recv_load")
     ELSE UNCHANGED tcp_client_revdata /\ Goto("show")
  /\ UNCHANGED <<tcp_client_flag, client_pcb, callback_arg, es_state, close_es,
                 isrVars, timecnt>>

RecvLoad == LoadFlag("recv_load", "recv_store", tcp_client_flag \cup {"REVC"})

\* The blocks for which the closed event of this segment is still to come.
GotFin == {p \in Pcb : /\ state[p] = "CLOSE_WAIT" /\ callback_arg[p] # NULL
                       /\ es_state[callback_arg[p]] = "CONNECTED"}
RecvStore ==
  /\ StoreFlag("recv_store") /\ pc' = "show"
  /\ es_state' = [e \in Es |-> IF \E p \in GotFin : callback_arg[p] = e
                               THEN "CLOSING" ELSE es_state[e]]
  /\ UNCHANGED <<client_pcb, state, callback_arg, close_es>>

\* tcp_recv_null closes a block without es: tcp_send_fin moves it on to
\* LAST_ACK, or finds no memory for the FIN; then nobody tries again.
NullCloses(p) ==
  /\ \/ state' = [state EXCEPT ![p] = "LAST_ACK"]
     \/ MemFails /\ state' = [state EXCEPT ![p] = "CLOSE_WAIT"]
  /\ UNCHANGED es_state

\* Mutant: the closed event does not mark es.
PktFinUnmarked(p) ==
  /\ MainAt("pkt") /\ state[p] = "ESTABLISHED" /\ Goto("show")
  /\ \/ /\ callback_arg[p] # NULL /\ UNCHANGED es_state
        /\ state' = [state EXCEPT ![p] = "CLOSE_WAIT"]
     \/ callback_arg[p] = NULL /\ NullCloses(p)
  /\ UNCHANGED <<flagVars, client_pcb, callback_arg, close_es, isrVars, timecnt>>

\* A FIN alone: tcp_recv_client marks es, and tcp_poll_client will close; a
\* block without es is closed at once, or never.
PktFin(p) ==
  /\ MainAt("pkt") /\ state[p] = "ESTABLISHED" /\ Goto("show")
  /\ \/ /\ callback_arg[p] # NULL
        /\ state' = [state EXCEPT ![p] = "CLOSE_WAIT"]
        /\ es_state' = [es_state EXCEPT ![callback_arg[p]] = "CLOSING"]
     \/ callback_arg[p] = NULL /\ NullCloses(p)
  /\ UNCHANGED <<flagVars, client_pcb, callback_arg, close_es, isrVars, timecnt>>

\* No frame, or one that changes nothing here (ARP, an ACK, a duplicate).
PktNothing ==
  /\ MainAt("pkt") /\ Goto("show")
  /\ UNCHANGED <<flagVars, tcpVars, isrVars, timecnt>>

\* No timer due, or tcp_poll_client on a connection that is not closing.
TimeoutsNothing ==
  /\ MainAt("timeouts") /\ Goto("pkt")
  /\ UNCHANGED <<flagVars, tcpVars, isrVars, timecnt>>

\* tcp_poll_client on a closing es, into tcp_client_connect_close: tcp_close
\* sends FIN, tcp_abort removes the block and calls tcp_err_client on es.
PollClose(p) ==
  /\ MainAt("timeouts") /\ p \in Active /\ callback_arg[p] # NULL
  /\ es_state[callback_arg[p]] = "CLOSING"
  /\ RemovePcb(p) /\ Goto("free_es")
  /\ callback_arg' = [callback_arg EXCEPT ![p] = NULL]
  /\ close_es' = callback_arg[p]
  /\ UNCHANGED <<flagVars, client_pcb, isrVars, timecnt>>

\* if(es) mem_free(es), for the second time.
CloseFreeEs ==
  /\ MainAt("free_es") /\ Goto("reset_flag")
  /\ es_state' = [es_state EXCEPT ![close_es] = "FREE"]
  /\ close_es' = NULL
  /\ UNCHANGED <<flagVars, client_pcb, state, callback_arg, isrVars, timecnt>>

CloseResetFlag ==
  /\ MainAt("reset_flag") /\ Goto("reset_pcb")
  /\ tcp_client_flag' = {}
  /\ UNCHANGED <<tcp_client_revdata, tcpVars, isrVars, timecnt>>

CloseResetPcb ==
  /\ MainAt("reset_pcb") /\ Goto("pkt")
  /\ client_pcb' = NULL
  /\ UNCHANGED <<flagVars, state, callback_arg, es_state, close_es, isrVars, timecnt>>

-----------------------------------------------------------------------------
(* The interrupt handlers.                                                 *)

\* Mutant: bit 6 instead of bit 7.
Tim2TickWrongBit ==
  /\ pc \notin BootPc \cup {"fault"}
  /\ timecnt' = (timecnt + 1) % UploadTicks
  /\ tcp_client_flag' = IF timecnt + 1 = UploadTicks
                        THEN tcp_client_flag \cup {"REVC"} ELSE tcp_client_flag
  /\ UNCHANGED <<mainVars, tcp_client_revdata, tcpVars, isrVars>>

\* TIM2, every 100 ms once the loop runs: the tenth tick requests an upload.
Tim2Tick ==
  /\ pc \notin BootPc \cup {"fault"}
  /\ timecnt' = (timecnt + 1) % UploadTicks
  /\ tcp_client_flag' = IF timecnt + 1 = UploadTicks
                        THEN tcp_client_flag \cup {"SEND"} ELSE tcp_client_flag
  /\ UNCHANGED <<mainVars, tcp_client_revdata, tcpVars, isrVars>>

\* Mutant: the flag byte is zeroed instead of masked.
PauseClearsAll ==
  /\ isr = "none" /\ pc # "fault"
  /\ isr' = "pause" /\ isr_reg' = {}
  /\ UNCHANGED <<mainVars, flagVars, tcpVars, timecnt>>

\* KEY1: the handler of EXTI3 clears START, in a load and a store.
PauseLoad ==
  /\ isr = "none" /\ pc # "fault"
  /\ isr' = "pause" /\ isr_reg' = tcp_client_flag \ {"START"}
  /\ UNCHANGED <<mainVars, flagVars, tcpVars, timecnt>>

PauseStore ==
  /\ isr = "pause" /\ isr' = "none" /\ isr_reg' = {}
  /\ tcp_client_flag' = isr_reg
  /\ UNCHANGED <<mainVars, tcp_client_revdata, tcpVars, timecnt>>

\* WK_UP: the handler of EXTI0 connects when there is no client.  Before
\* lwip_init tcp_new finds no pool and ASSERT_ERROR spins; before netif_set_up,
\* or without memory for the SYN, tcp_connect leaves the block CLOSED.
WakeUp ==
  /\ isr = "none" /\ pc # "fault" /\ client_pcb = NULL
  /\ IF pc = "boot"
     THEN isr' = "spin" /\ UNCHANGED <<client_pcb, state, callback_arg>>
     ELSE /\ UNCHANGED isr
          /\ \E p \in Pcb :
               /\ state[p] = "FREE" /\ client_pcb' = p
               /\ callback_arg' = [callback_arg EXCEPT ![p] = NULL]
               /\ \/ /\ pc # "netif"
                     /\ state' = [state EXCEPT ![p] = "SYN_SENT"]
                  \/ /\ pc = "netif" \/ MemFails
                     /\ state' = [state EXCEPT ![p] = "CLOSED"]
  /\ UNCHANGED <<mainVars, flagVars, es_state, close_es, isr_reg, timecnt>>

-----------------------------------------------------------------------------
MainLoop == \/ BootLwip \/ BootNetif \/ ShowInterface \/ CheckSend \/ SendPacket
            \/ SendLoad \/ SendStore \/ CheckRevc \/ StartLoad \/ StartStore
            \/ RevcLoad \/ RevcStore
Timeouts == \/ TimeoutsNothing \/ CloseFreeEs \/ CloseResetFlag \/ CloseResetPcb
            \/ \E p \in Pcb : SlowTmrRemove(p) \/ PollClose(p)
Packet   == \/ PktNothing \/ ConnLoad \/ ConnStore \/ RecvLoad \/ RecvStore
            \/ \E p \in Pcb : \/ PktRemove(p) \/ PktSynAck(p) \/ PktFin(p)
                              \/ \E cmd \in {"start", "other"}, fin \in BOOLEAN :
                                   PktData(p, cmd, fin)
Main     == MainLoop \/ Timeouts \/ Packet
Next     == Main \/ Tim2Tick \/ PauseLoad \/ PauseStore \/ WakeUp

Spec == Init /\ [][Next]_vars

(* The processor runs: a handler entered leaves, and the main loop advances *)
(* between interrupts however many there are; the slow timer keeps polling. *)
Fairness == /\ SF_vars(Main)
            /\ WF_vars(PauseStore)
            /\ SF_vars(\E p \in Pcb : PollClose(p))
FairSpec == Spec /\ Fairness

-----------------------------------------------------------------------------
(* What a user sees of the connection (module Session).                     *)
session ==
  IF client_pcb = NULL \/ pc = "reset_pcb" THEN "idle"
  ELSE IF "CONNECT" \notin tcp_client_flag THEN "connecting"
  ELSE IF "START" \notin tcp_client_flag THEN "connected" ELSE "uploading"
Abstract == INSTANCE Session WITH session <- session

\* The flag byte and client_pcb move together as a session does: no step
\* skips a stage, and only the closing of a connection makes one idle again.
RefinesSession == Abstract!Spec

-----------------------------------------------------------------------------
(* Properties that hold.                                                   *)

\* The types of the variables; reg and isr_reg are copies of the flag byte.
TypeOK ==
  /\ pc \in BootPc \cup LoopPc \cup StopPc
  /\ tcp_client_flag \subseteq Bits /\ reg \subseteq Bits
  /\ tcp_client_revdata \in Commands
  /\ client_pcb \in Pcb \cup {NULL}
  /\ state \in [Pcb -> PcbState]
  /\ callback_arg \in [Pcb -> Es \cup {NULL}]
  /\ es_state \in [Es -> EsState]
  /\ close_es \in Es \cup {NULL}
  /\ isr \in {"none", "pause", "spin"} /\ isr_reg \subseteq Bits
  /\ timecnt \in 0 .. UploadTicks - 1

\* No control block leaks: one that is allocated is the one client_pcb names,
\* so there is at most one, whatever keys are pressed (KEY.c tests for NULL).
OneClient == \A p \in Pcb : Live(p) => client_pcb = p

\* No callback of a connection gets a freed es, and no es outlives its
\* connection: the blocks in the heap are the args of the active connections.
EsOwned ==
  /\ \A p \in Active : callback_arg[p] # NULL => es_state[callback_arg[p]] # "FREE"
  /\ \A e \in Es : es_state[e] # "FREE" => \E p \in Active : callback_arg[p] = e

\* A connection starts from a clean flag byte: without a client there is no
\* command pending, no connection shown and no upload allowed.
FreshSession == client_pcb = NULL => tcp_client_flag \subseteq {"SEND"}

\* Send_EnvirPacketData and OLED_ShowInterfaceData dereference client_pcb
\* without a test: they are reached only on a connection, never with NULL.
NeverNullClient ==
  (pc = "send" \/ "CONNECT" \in tcp_client_flag) /\ pc # "reset_pcb"
    => client_pcb # NULL /\ "CONNECT" \in tcp_client_flag

\* tcp_client_revdata holds one command: the main loop has consumed it before
\* a segment overwrites it, although nothing refuses data meanwhile.
CommandNotOverwritten == pc = "recv_load" => "REVC" \notin tcp_client_flag

\* No stale copy of the flag byte brings CONNECT or REVC back: they appear
\* only when tcp_connect_client or tcp_recv_client sets them.
NoResurrection ==
  [][\A b \in {"CONNECT", "REVC"} :
       b \in tcp_client_flag' \ tcp_client_flag
         => pc = (IF b = "CONNECT" THEN "conn_store" ELSE "recv_store")]_vars

\* A server that closes its side of a connection with an es is answered: the
\* poll callback gives the connection back (see NoHalfOpenLeft for the others).
ClosingCloses ==
  \A p \in Pcb : (state[p] = "CLOSE_WAIT" /\ callback_arg[p] # NULL)
                   ~> (state[p] = "FREE" \/ pc \in StopPc)

\* A received "start" switches uploading on, whatever interrupts arrive.
StartTakesEffect ==
  (pc = "recv_store" /\ tcp_client_revdata = "start")
    ~> ("START" \in tcp_client_flag \/ pc \in StopPc)

-----------------------------------------------------------------------------
(* The inductive invariant behind the safety properties (EnvirClientProofs).*)

CloseTail  == {"free_es", "reset_flag", "reset_pcb"}
OnConnPc   == {"send", "send_load", "start_load", "revc_load", "recv_load",
               "free_es", "reset_flag"}
NoRevcPc   == BootPc \cup CloseTail
              \cup {"timeouts", "pkt", "conn_load", "conn_store", "recv_load"}

\* Before the connection is up and after it is closed no block is registered;
\* a half-closed one is, unless memory has failed its es and its FIN.
ArgInv ==
  \A p \in Pcb :
    /\ state[p] \in {"CLOSED", "SYN_SENT", "LAST_ACK"} => callback_arg[p] = NULL
    /\ state[p] = "CLOSE_WAIT" => callback_arg[p] # NULL \/ MemFails

\* An unregistered connection has a clean flag byte, a registered one CONNECT.
ConnInv ==
  \A p \in Pcb : Live(p) =>
    IF callback_arg[p] = NULL THEN tcp_client_flag \subseteq {"SEND"}
    ELSE "CONNECT" \in tcp_client_flag \/ pc \in {"conn_load", "conn_store"}

\* START and REVC come after CONNECT.
FlagInv == tcp_client_flag \cap {"START", "REVC"} # {} => "CONNECT" \in tcp_client_flag

\* A copy of the flag byte is stale only in START and SEND.
CopyInv ==
  /\ isr = "pause" => isr_reg \ {"SEND"} = tcp_client_flag \ {"START", "SEND"}
  /\ pc \in {"send_store", "start_store", "revc_store", "recv_store"}
       => "CONNECT" \in reg \cap tcp_client_flag
  /\ pc \in {"send_store", "start_store"}
       => ("REVC" \in reg <=> "REVC" \in tcp_client_flag)
  /\ pc = "revc_store" => "REVC" \notin reg
  /\ pc = "conn_store" => reg \ {"SEND"} = {"CONNECT"}

\* What is known at each place of the main loop.
PcInv ==
  /\ pc \in OnConnPc => "CONNECT" \in tcp_client_flag
  /\ pc \in NoRevcPc => "REVC" \notin tcp_client_flag
  /\ pc \in {"conn_load", "conn_store", "reset_pcb"} =>
       tcp_client_flag \subseteq {"SEND"} /\ client_pcb # NULL
  /\ pc \in {"conn_load", "conn_store"} =>
       \A p \in Pcb : Live(p) => callback_arg[p] # NULL
  /\ pc \in CloseTail => \A p \in Pcb : ~Live(p)
  /\ pc = "free_es" => close_es \in Es
  /\ pc = "boot" => client_pcb = NULL

\* Ownership, clean sessions and the stale copies, together inductive.
IInv == /\ TypeOK /\ OneClient /\ EsOwned /\ FreshSession
        /\ ArgInv /\ ConnInv /\ FlagInv /\ CopyInv /\ PcInv

\* The client's state is consistent at every step: at most one client, es owned
\* by exactly the one who will free it, every session fresh, no null pointer
\* used, and the strengthening of these that is inductive.
OwnershipSound == IInv /\ NeverNullClient

-----------------------------------------------------------------------------
(* What comments and assertions say, and the code does not do.             *)

\* KEY.c "pause the upload": only a start command allows uploading again.
PauseHonoured ==
  [][("START" \in tcp_client_flag' \ tcp_client_flag) => pc = "start_store"]_vars

\* EnvirData.c "upload every 1 s": a request goes only by being served or
\* with the connection.  It does not hold, by the race of PauseHonoured.
RequestKept ==
  [][("SEND" \in tcp_client_flag \ tcp_client_flag')
       => pc \in {"send_store", "reset_flag"}]_vars

\* tcp.h, tcp_err_fn: the block is already freed when err is called, so the
\* main loop must not use client_pcb afterwards.
NoDeadPcbUse ==
  (pc = "send" \/ (pc = "show" /\ "CONNECT" \in tcp_client_flag))
    => client_pcb \in Pcb /\ Live(client_pcb)

\* mem.c: LWIP_ASSERT("mem_free: mem->used", mem->used).  It does not hold:
\* tcp_abort has called tcp_err_client, which freed es.
NoDoubleFree == pc = "free_es" => es_state[close_es] # "FREE"

\* tcp.c: tcp_close "closes the connection held by the PCB".  It does not hold:
\* without memory for es and then for the FIN, a block stays half-closed with
\* no poll callback to close it, and only an RST of the server removes it.
NoHalfOpenLeft ==
  \A p \in Pcb : state[p] = "CLOSE_WAIT" ~> (state[p] = "FREE" \/ pc \in StopPc)

\* KEY.c, WK_UP "set up the client": once a connection is gone, the key works.
ReconnectPossible == (Active = {} /\ client_pcb # NULL) ~> client_pcb = NULL

\* tcp_client.c: ASSERT_ERROR("tcp_new").  It does not hold before lwip_init.
TcpNewSucceeds == isr # "spin"
=============================================================================
