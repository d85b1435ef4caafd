------------------------------ MODULE MCParts ------------------------------
(***************************************************************************)
(* The parts of the firmware for TLC, in one run.  Their modules share no  *)
(* variable, so a behaviour of this specification is one of the module     *)
(* that part names, the others standing still: every part is explored on   *)
(* its own, and the state space is the sum of theirs, not the product.     *)
(* What one part promises another is a constant there: ReadingBounded of   *)
(* Dht11, with the two delays of UndisturbedLasts, is MaxLast of Sampling. *)
(***************************************************************************)
EXTENDS Malloc, Delay, Mhz14, Sampling, Dht11, Keys, Display, Oled, Usart1,
        Heap, Timers, Arp, Transfer, IpReass, Pbuf

CONSTANTS
  v, w,                      \* two measurements
  gw, h1, h2, m1, m2, m3, m4, \* hosts of the subnet, hardware addresses
  Part                       \* the parts of a run, among Name
VARIABLE part   \* the part under examination

Name == {"malloc", "delay", "mhz14", "sampling", "dht11", "keys", "display",
         "oled", "usart1", "heap", "timers", "arp", "transfer",
         "ipreass", "pbuf"}
ASSUME PartAssumption == Part \subseteq Name

MCSizes     == 0 .. 12
MCReading   == {<<1, 144>>, <<4, 255>>, <<3, 134>>}
MCFrameTail == <<0, 0, 0, 0>>
MCClimate   == {<<v, w>>, <<w, v>>}
MCDrawCells == {<<0, 0>>, <<1, 1>>}
\* The gateway may change its adapter.
MCAnnounce2 == {<<gw, m1>>, <<gw, m2>>, <<h1, m3>>}
MCAnnounce3 == MCAnnounce2 \cup {<<h2, m4>>}

PartsInit ==
  /\ part \in Part
  /\ Init /\ DelayInit /\ Mhz14Init /\ SamplingInit /\ Dht11Init /\ KeysInit
  /\ DisplayInit /\ OledInit /\ Usart1Init
  /\ HeapInit /\ TimersInit /\ ArpInit /\ TransferInit
  /\ IpReassInit /\ PbufInit
  \* one state to stand still in
  /\ part # "malloc" => memmap = [c \in Idx |-> 0]
  /\ part # "mhz14" => sending = <<1, 144>>

Still(p, x) == IF part = p THEN TRUE ELSE UNCHANGED x
Only(p) ==
  /\ part = p /\ UNCHANGED part
  /\ Still("malloc", vars) /\ Still("delay", delayVars) /\ Still("mhz14", mhz14Vars)
  /\ Still("sampling", samplingVars) /\ Still("dht11", dht11Vars)
  /\ Still("keys", keysVars) /\ Still("display", displayVars)
  /\ Still("oled", oledVars) /\ Still("usart1", usart1Vars)
  /\ Still("heap", heapVars) /\ Still("timers", timersVars)
  /\ Still("arp", arpVars) /\ Still("transfer", transferVars)
  /\ Still("ipreass", ipReassVars) /\ Still("pbuf", pbufVars)

PartsNext ==
  \/ Only("malloc") /\ Next
  \/ Only("delay") /\ DelayNext
  \/ Only("mhz14") /\ Mhz14Step
  \/ Only("sampling") /\ SamplingNext
  \/ Only("dht11") /\ Dht11Next
  \/ Only("keys") /\ KeysNext
  \/ Only("display") /\ DisplayNext
  \/ Only("oled") /\ OledNext
  \/ Only("usart1") /\ Usart1Next
  \/ Only("heap") /\ HeapNext
  \/ Only("timers") /\ TimersNext
  \/ Only("arp") /\ ArpNext
  \/ Only("transfer") /\ TransferNext
  \/ Only("ipreass") /\ IpReassNext
  \/ Only("pbuf") /\ PbufNext

partsVars == <<part, vars, delayVars, mhz14Vars, samplingVars, dht11Vars, keysVars,
               displayVars, oledVars, usart1Vars, heapVars, timersVars, arpVars,
               transferVars, ipReassVars, pbufVars>>

PartsSpec == PartsInit /\ [][PartsNext]_partsVars

-----------------------------------------------------------------------------
\* The counter counts while it is enabled.  The code of every level runs
\* whenever no higher one does, and handlers leave it the processor again and
\* again: strong fairness, for a delay that handlers keep interrupting.  The
\* main loop runs, both sensors go on measuring, and the allocator's loops run.
DevicesFairSpec ==
  /\ PartsSpec
  /\ WF_delayVars(part = "delay" /\ Count)
  /\ \A l \in Level : SF_delayVars(part = "delay" /\ DelayStep(l))
  /\ WF_displayVars(part = "display" /\ ShowStep)
  /\ WF_displayVars(part = "display" /\ PublishCO2)
  /\ WF_displayVars(part = "display" /\ PublishTempHum)
  /\ WF_vars(part = "malloc" /\ Loops)

\* TIM3 ticks between the checks the main loop makes of lwIP's timers, the ARP
\* and reassembly timers among them; for the rest see Transfer.
NetworkFairSpec ==
  /\ PartsSpec
  /\ SF_timersVars(part = "timers" /\ Tick)
  /\ WF_timersVars(part = "timers" /\ CheckStep)
  /\ WF_arpVars(part = "arp" /\ ArpTmr)
  /\ WF_ipReassVars(part = "ipreass" /\ IpReassTmr)
  /\ part = "transfer" => TransferFairness
=============================================================================
