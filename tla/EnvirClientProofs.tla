------------------------- MODULE EnvirClientProofs -------------------------
(***************************************************************************)
(* The safety properties of EnvirClient, for any pools of control blocks   *)
(* and heap blocks: the invariant IInv is inductive, each checked          *)
(* invariant follows from it, and the client implements Session.           *)
(***************************************************************************)
EXTENDS EnvirClient, TLAPS

USE NullAssumption, MemFailsAssumption
USE DEF Bits, Commands, PcbState, EsState, BootPc, LoopPc, StopPc, CloseTail,
        UploadTicks, mainVars, flagVars, tcpVars, isrVars, vars

\* The boot state satisfies the invariant: nothing is allocated or flagged.
LEMMA InitIInv == Init => IInv
<1> SUFFICES ASSUME Init PROVE IInv
  OBVIOUS
<1> USE DEF Init
<1>1. TypeOK
  BY DEF TypeOK
<1>2. OneClient /\ EsOwned /\ FreshSession
  BY DEF OneClient, EsOwned, FreshSession, Live, Active
<1>3. ArgInv /\ ConnInv /\ FlagInv /\ CopyInv /\ PcInv
  BY DEF ArgInv, ConnInv, FlagInv, CopyInv, PcInv, Live, OnConnPc, NoRevcPc
<1> QED BY <1>1, <1>2, <1>3 DEF IInv

\* Every step of the main loop, of lwIP and of a handler keeps it.
LEMMA NextIInv == IInv /\ [Next]_vars => IInv'
<1> SUFFICES ASSUME IInv, [Next]_vars PROVE IInv'
  OBVIOUS
<1> USE DEF IInv, TypeOK, OneClient, EsOwned, FreshSession, ArgInv, ConnInv,
            FlagInv, CopyInv, PcInv, Live, Active, OnConnPc, NoRevcPc
<1>1. CASE BootLwip
  BY <1>1 DEF BootLwip, MainAt, Goto
<1>2. CASE BootNetif
  BY <1>2 DEF BootNetif, MainAt, Goto
<1>3. CASE ShowInterface
  BY <1>3 DEF ShowInterface, MainAt, Goto
<1>4. CASE CheckSend
  BY <1>4 DEF CheckSend, MainAt, Goto
<1>5. CASE SendPacket
  BY <1>5 DEF SendPacket, MainAt, Goto
<1>6. CASE SendLoad
  BY <1>6 DEF SendLoad, MainAt, LoadFlag
<1>7. CASE SendStore
  BY <1>7 DEF SendStore, MainAt, StoreFlag
<1>8. CASE CheckRevc
  BY <1>8 DEF CheckRevc, MainAt, Goto
<1>9. CASE StartLoad
  BY <1>9 DEF StartLoad, MainAt, LoadFlag
<1>10. CASE StartStore
  BY <1>10 DEF StartStore, MainAt, StoreFlag
<1>11. CASE RevcLoad
  BY <1>11 DEF RevcLoad, MainAt, LoadFlag
<1>12. CASE RevcStore
  BY <1>12 DEF RevcStore, MainAt, StoreFlag
<1>13. CASE TimeoutsNothing
  BY <1>13 DEF TimeoutsNothing, MainAt, Goto
<1>14. CASE CloseFreeEs
  BY <1>14 DEF CloseFreeEs, MainAt, Goto
<1>15. CASE CloseResetFlag
  BY <1>15 DEF CloseResetFlag, MainAt, Goto
<1>16. CASE CloseResetPcb
  BY <1>16 DEF CloseResetPcb, MainAt, Goto
<1>17. ASSUME NEW p \in Pcb, SlowTmrRemove(p) PROVE IInv'
  BY <1>17 DEF SlowTmrRemove, MainAt, Goto, RemovePcb
<1>18. ASSUME NEW p \in Pcb, PollClose(p) PROVE IInv'
  BY <1>18 DEF PollClose, MainAt, Goto, RemovePcb
<1>19. CASE PktNothing
  BY <1>19 DEF PktNothing, MainAt, Goto
<1>20. CASE ConnLoad
  BY <1>20 DEF ConnLoad, MainAt, LoadFlag
<1>21. CASE ConnStore
  <2> USE <1>21 DEF ConnStore, MainAt, StoreFlag
  <2>1. TypeOK'
    OBVIOUS
  <2>2. OneClient' /\ EsOwned'
    OBVIOUS
  <2>3. FreshSession' /\ FlagInv' /\ CopyInv'
    OBVIOUS
  <2>4. ArgInv' /\ ConnInv'
    OBVIOUS
  <2>5. PcInv'
    OBVIOUS
  <2> QED BY <2>1, <2>2, <2>3, <2>4, <2>5
<1>22. CASE RecvLoad
  BY <1>22 DEF RecvLoad, MainAt, LoadFlag
<1>23. CASE RecvStore
  BY <1>23 DEF RecvStore, MainAt, StoreFlag, GotFin
<1>24. ASSUME NEW p \in Pcb, PktRemove(p) PROVE IInv'
  BY <1>24 DEF PktRemove, MainAt, Goto, RemovePcb
<1>25. ASSUME NEW p \in Pcb, PktSynAck(p) PROVE IInv'
  <2> USE <1>25 DEF PktSynAck, MainAt, Goto
  <2>1. TypeOK'
    <3>1. state' \in [Pcb -> PcbState]
      OBVIOUS
    <3>2. es_state' \in [Es -> EsState] /\ callback_arg' \in [Pcb -> Es \cup {NULL}]
      OBVIOUS
    <3>3. pc' \in LoopPc /\ reg' = reg
      OBVIOUS
    <3> QED BY <3>1, <3>2, <3>3
  <2>2. OneClient' /\ EsOwned'
    OBVIOUS
  <2>3. FreshSession' /\ FlagInv' /\ CopyInv'
    OBVIOUS
  <2>4. ArgInv' /\ ConnInv'
    OBVIOUS
  <2>5. PcInv'
    OBVIOUS
  <2> QED BY <2>1, <2>2, <2>3, <2>4, <2>5
<1>26. ASSUME NEW p \in Pcb, PktFin(p) PROVE IInv'
  <2> USE <1>26 DEF PktFin, NullCloses, MainAt, Goto
  <2>1. TypeOK'
    OBVIOUS
  <2>2. OneClient' /\ EsOwned'
    OBVIOUS
  <2>3. FreshSession' /\ FlagInv' /\ CopyInv'
    OBVIOUS
  <2>4. ArgInv' /\ ConnInv'
    OBVIOUS
  <2>5. PcInv'
    OBVIOUS
  <2> QED BY <2>1, <2>2, <2>3, <2>4, <2>5
<1>27. ASSUME NEW p \in Pcb, NEW cmd \in {"start", "other"}, NEW fin \in BOOLEAN, PktData(p, cmd, fin) PROVE IInv'
  <2> USE <1>27 DEF PktData, MainAt, Goto
  <2>1. TypeOK'
    OBVIOUS
  <2>2. OneClient' /\ EsOwned'
    OBVIOUS
  <2>3. FreshSession' /\ FlagInv' /\ CopyInv'
    OBVIOUS
  <2>4. ArgInv' /\ ConnInv'
    OBVIOUS
  <2>5. PcInv'
    OBVIOUS
  <2> QED BY <2>1, <2>2, <2>3, <2>4, <2>5
<1>28. CASE Tim2Tick
  BY <1>28 DEF Tim2Tick
<1>29. CASE PauseLoad
  BY <1>29 DEF PauseLoad
<1>30. CASE PauseStore
  BY <1>30 DEF PauseStore
<1>31. CASE WakeUp
  BY <1>31 DEF WakeUp
<1>32. CASE UNCHANGED vars
  BY <1>32 DEF vars
<1> HIDE DEF IInv, TypeOK, OneClient, EsOwned, FreshSession, ArgInv, ConnInv,
             FlagInv, CopyInv, PcInv, Live, Active, OnConnPc, NoRevcPc
<1> QED
  BY <1>1, <1>2, <1>3, <1>4, <1>5, <1>6, <1>7, <1>8, <1>9, <1>10, <1>11, <1>12, <1>13, <1>14, <1>15, <1>16, <1>17, <1>18, <1>19, <1>20, <1>21, <1>22, <1>23, <1>24, <1>25, <1>26, <1>27, <1>28, <1>29, <1>30, <1>31, <1>32
     DEF Next, Main, MainLoop, Timeouts, Packet

\* The invariant holds in every reachable state, for all pools and memory sizes.
THEOREM Invariance == Spec => []IInv
<1>1. Init => IInv
  BY InitIInv
<1>2. IInv /\ [Next]_vars => IInv'
  BY NextIInv
<1> QED BY <1>1, <1>2, PTL DEF Spec

\* Every variable keeps its type; the tick counter never reaches ten.
THEOREM TypeCorrect == Spec => []TypeOK
<1>1. IInv => TypeOK
  BY DEF IInv
<1> QED BY <1>1, Invariance, PTL

\* tcp_client.c and KEY.c together allocate one control block at a time and
\* never lose it while lwIP has it.
THEOREM AtMostOneClient == Spec => []OneClient
<1>1. IInv => OneClient
  BY DEF IInv
<1> QED BY <1>1, Invariance, PTL

\* The callbacks never see a freed es, and tcp_err_client and connect_close
\* together return every es to the heap.
THEOREM EsIsOwned == Spec => []EsOwned
<1>1. IInv => EsOwned
  BY DEF IInv
<1> QED BY <1>1, Invariance, PTL

\* connect_close leaves nothing of a session to the next one, although three
\* other contexts may hold a copy of the flag byte while it clears it.
THEOREM SessionsAreFresh == Spec => []FreshSession
<1>1. IInv => FreshSession
  BY DEF IInv
<1> QED BY <1>1, Invariance, PTL

\* The main loop never goes through client_pcb when it is NULL.
THEOREM ClientNeverNull == Spec => []NeverNullClient
<1>1. IInv => NeverNullClient
  <2> SUFFICES ASSUME IInv, pc = "send" \/ "CONNECT" \in tcp_client_flag,
                      pc # "reset_pcb"
               PROVE  client_pcb # NULL /\ "CONNECT" \in tcp_client_flag
    BY DEF NeverNullClient
  <2>1. "CONNECT" \in tcp_client_flag
    BY DEF IInv, PcInv, OnConnPc
  <2>2. client_pcb # NULL
    BY <2>1 DEF IInv, FreshSession
  <2> QED BY <2>1, <2>2
<1> QED BY <1>1, Invariance, PTL

\* tcp_recv_client never overwrites a command the main loop has not read.
THEOREM CommandsAreRead == Spec => []CommandNotOverwritten
<1>1. IInv => CommandNotOverwritten
  BY DEF IInv, PcInv, NoRevcPc, CommandNotOverwritten
<1> QED BY <1>1, Invariance, PTL

\* CONNECT and REVC may only be set by the store of the callback concerned.
CallbackSets ==
  \A b \in {"CONNECT", "REVC"} :
    b \in tcp_client_flag' \ tcp_client_flag
      => pc = (IF b = "CONNECT" THEN "conn_store" ELSE "recv_store")

\* No step of any context brings CONNECT or REVC back from a stale copy.
LEMMA NextCallbackSets == IInv /\ [Next]_vars => CallbackSets
<1> SUFFICES ASSUME IInv, [Next]_vars PROVE CallbackSets
  OBVIOUS
<1> USE DEF IInv, TypeOK, CopyInv, CallbackSets
<1>1. CASE BootLwip
  BY <1>1 DEF BootLwip, MainAt, Goto
<1>2. CASE BootNetif
  BY <1>2 DEF BootNetif, MainAt, Goto
<1>3. CASE ShowInterface
  BY <1>3 DEF ShowInterface, MainAt, Goto
<1>4. CASE CheckSend
  BY <1>4 DEF CheckSend, MainAt, Goto
<1>5. CASE SendPacket
  BY <1>5 DEF SendPacket, MainAt, Goto
<1>6. CASE SendLoad
  BY <1>6 DEF SendLoad, MainAt, LoadFlag
<1>7. CASE SendStore
  BY <1>7 DEF SendStore, MainAt, StoreFlag
<1>8. CASE CheckRevc
  BY <1>8 DEF CheckRevc, MainAt, Goto
<1>9. CASE StartLoad
  BY <1>9 DEF StartLoad, MainAt, LoadFlag
<1>10. CASE StartStore
  BY <1>10 DEF StartStore, MainAt, StoreFlag
<1>11. CASE RevcLoad
  BY <1>11 DEF RevcLoad, MainAt, LoadFlag
<1>12. CASE RevcStore
  BY <1>12 DEF RevcStore, MainAt, StoreFlag
<1>13. CASE TimeoutsNothing
  BY <1>13 DEF TimeoutsNothing, MainAt, Goto
<1>14. CASE CloseFreeEs
  BY <1>14 DEF CloseFreeEs, MainAt, Goto
<1>15. CASE CloseResetFlag
  BY <1>15 DEF CloseResetFlag, MainAt, Goto
<1>16. CASE CloseResetPcb
  BY <1>16 DEF CloseResetPcb, MainAt, Goto
<1>17. ASSUME NEW p \in Pcb, SlowTmrRemove(p) PROVE CallbackSets
  BY <1>17 DEF SlowTmrRemove, MainAt, Goto, RemovePcb
<1>18. ASSUME NEW p \in Pcb, PollClose(p) PROVE CallbackSets
  BY <1>18 DEF PollClose, MainAt, Goto, RemovePcb
<1>19. CASE PktNothing
  BY <1>19 DEF PktNothing, MainAt, Goto
<1>20. CASE ConnLoad
  BY <1>20 DEF ConnLoad, MainAt, LoadFlag
<1>21. CASE ConnStore
  BY <1>21 DEF ConnStore, MainAt, StoreFlag
<1>22. CASE RecvLoad
  BY <1>22 DEF RecvLoad, MainAt, LoadFlag
<1>23. CASE RecvStore
  BY <1>23 DEF RecvStore, MainAt, StoreFlag, GotFin
<1>24. ASSUME NEW p \in Pcb, PktRemove(p) PROVE CallbackSets
  BY <1>24 DEF PktRemove, MainAt, Goto, RemovePcb
<1>25. ASSUME NEW p \in Pcb, PktSynAck(p) PROVE CallbackSets
  BY <1>25 DEF PktSynAck, MainAt, Goto
<1>26. ASSUME NEW p \in Pcb, PktFin(p) PROVE CallbackSets
  BY <1>26 DEF PktFin, NullCloses, MainAt, Goto
<1>27. ASSUME NEW p \in Pcb, NEW cmd \in {"start", "other"}, NEW fin \in BOOLEAN, PktData(p, cmd, fin) PROVE CallbackSets
  BY <1>27 DEF PktData, MainAt, Goto
<1>28. CASE Tim2Tick
  BY <1>28 DEF Tim2Tick
<1>29. CASE PauseLoad
  BY <1>29 DEF PauseLoad
<1>30. CASE PauseStore
  BY <1>30 DEF PauseStore
<1>31. CASE WakeUp
  BY <1>31 DEF WakeUp
<1>32. CASE UNCHANGED vars
  BY <1>32
<1> QED
  BY <1>1, <1>2, <1>3, <1>4, <1>5, <1>6, <1>7, <1>8, <1>9, <1>10, <1>11, <1>12, <1>13, <1>14, <1>15, <1>16, <1>17, <1>18, <1>19, <1>20, <1>21, <1>22, <1>23, <1>24, <1>25, <1>26, <1>27, <1>28, <1>29, <1>30, <1>31, <1>32
     DEF Next, Main, MainLoop, Timeouts, Packet

\* The stale copies of the flag byte never resurrect CONNECT or REVC.
THEOREM NothingResurrects == Spec => NoResurrection
<1>1. IInv /\ [Next]_vars => [CallbackSets]_vars
  BY NextCallbackSets
<1> QED BY <1>1, Invariance, PTL DEF Spec, NoResurrection, CallbackSets

\* A step of the client is a step of its session, or none that a user sees.
LEMMA NextSession == IInv /\ IInv' /\ [Next]_vars => [Abstract!Next]_session
<1> SUFFICES ASSUME IInv, IInv', [Next]_vars PROVE [Abstract!Next]_session
  OBVIOUS
<1> USE DEF IInv, TypeOK, OneClient, FreshSession, FlagInv, CopyInv, PcInv, ConnInv, ArgInv, Live, Active,
            OnConnPc, NoRevcPc, session, Abstract!Next, Abstract!Connect,
            Abstract!Establish, Abstract!Start, Abstract!Pause, Abstract!Close
<1>1. CASE BootLwip
  BY <1>1 DEF BootLwip, MainAt, Goto
<1>2. CASE BootNetif
  BY <1>2 DEF BootNetif, MainAt, Goto
<1>3. CASE ShowInterface
  BY <1>3 DEF ShowInterface, MainAt, Goto
<1>4. CASE CheckSend
  BY <1>4 DEF CheckSend, MainAt, Goto
<1>5. CASE SendPacket
  BY <1>5 DEF SendPacket, MainAt, Goto
<1>6. CASE SendLoad
  BY <1>6 DEF SendLoad, MainAt, LoadFlag
<1>7. CASE SendStore
  BY <1>7 DEF SendStore, MainAt, StoreFlag
<1>8. CASE CheckRevc
  BY <1>8 DEF CheckRevc, MainAt, Goto
<1>9. CASE StartLoad
  BY <1>9 DEF StartLoad, MainAt, LoadFlag
<1>10. CASE StartStore
  BY <1>10 DEF StartStore, MainAt, StoreFlag
<1>11. CASE RevcLoad
  BY <1>11 DEF RevcLoad, MainAt, LoadFlag
<1>12. CASE RevcStore
  BY <1>12 DEF RevcStore, MainAt, StoreFlag
<1>13. CASE TimeoutsNothing
  BY <1>13 DEF TimeoutsNothing, MainAt, Goto
<1>14. CASE CloseFreeEs
  BY <1>14 DEF CloseFreeEs, MainAt, Goto
<1>15. CASE CloseResetFlag
  BY <1>15 DEF CloseResetFlag, MainAt, Goto
<1>16. CASE CloseResetPcb
  BY <1>16 DEF CloseResetPcb, MainAt, Goto
<1>17. ASSUME NEW p \in Pcb, SlowTmrRemove(p) PROVE [Abstract!Next]_session
  BY <1>17 DEF SlowTmrRemove, MainAt, Goto, RemovePcb
<1>18. ASSUME NEW p \in Pcb, PollClose(p) PROVE [Abstract!Next]_session
  BY <1>18 DEF PollClose, MainAt, Goto, RemovePcb
<1>19. CASE PktNothing
  BY <1>19 DEF PktNothing, MainAt, Goto
<1>20. CASE ConnLoad
  BY <1>20 DEF ConnLoad, MainAt, LoadFlag
<1>21. CASE ConnStore
  BY <1>21 DEF ConnStore, MainAt, StoreFlag
<1>22. CASE RecvLoad
  BY <1>22 DEF RecvLoad, MainAt, LoadFlag
<1>23. CASE RecvStore
  BY <1>23 DEF RecvStore, MainAt, StoreFlag, GotFin
<1>24. ASSUME NEW p \in Pcb, PktRemove(p) PROVE [Abstract!Next]_session
  BY <1>24 DEF PktRemove, MainAt, Goto, RemovePcb
<1>25. ASSUME NEW p \in Pcb, PktSynAck(p) PROVE [Abstract!Next]_session
  BY <1>25 DEF PktSynAck, MainAt, Goto
<1>26. ASSUME NEW p \in Pcb, PktFin(p) PROVE [Abstract!Next]_session
  BY <1>26 DEF PktFin, NullCloses, MainAt, Goto
<1>27. ASSUME NEW p \in Pcb, NEW cmd \in {"start", "other"}, NEW fin \in BOOLEAN, PktData(p, cmd, fin) PROVE [Abstract!Next]_session
  BY <1>27 DEF PktData, MainAt, Goto
<1>28. CASE Tim2Tick
  BY <1>28 DEF Tim2Tick
<1>29. CASE PauseLoad
  BY <1>29 DEF PauseLoad
<1>30. CASE PauseStore
  BY <1>30 DEF PauseStore
<1>31. CASE WakeUp
  BY <1>31 DEF WakeUp
<1>32. CASE UNCHANGED vars
  BY <1>32
<1> QED
  BY <1>1, <1>2, <1>3, <1>4, <1>5, <1>6, <1>7, <1>8, <1>9, <1>10, <1>11, <1>12, <1>13, <1>14, <1>15, <1>16, <1>17, <1>18, <1>19, <1>20, <1>21, <1>22, <1>23, <1>24, <1>25, <1>26, <1>27, <1>28, <1>29, <1>30, <1>31, <1>32
     DEF Next, Main, MainLoop, Timeouts, Packet

\* The client implements the session its user is promised.
THEOREM ImplementsSession == Spec => RefinesSession
<1>1. Init => Abstract!Init
  BY DEF Init, session, Abstract!Init
<1>2. IInv /\ IInv' /\ [Next]_vars => [Abstract!Next]_session
  BY NextSession
<1> QED BY <1>1, <1>2, Invariance, PTL DEF Spec, RefinesSession, Abstract!Spec

\* The run's invariant, for every set of events and every memory failure.
THEOREM ClientIsSound == Spec => []OwnershipSound
<1>1. IInv /\ NeverNullClient => OwnershipSound
  BY DEF OwnershipSound
<1> QED
  BY <1>1, Invariance, ClientNeverNull, PTL
=============================================================================
