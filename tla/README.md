# Verification of the environment monitor (EnvirMontir_STM32)

The program runs on an STM32F103 without an operating system. It samples CO2
(MH-Z14 on USART3) and temperature and humidity (DHT11), shows them on an OLED,
and uploads them once a second over TCP (lwIP 1.4.1, raw API, DM9000
controller) to a server that has sent `start`. Everything happens in one main
loop and in the interrupt handlers that preempt it.

This directory holds TLA+ models of that code, TLC configurations that check
them on small instances, and theorems with proofs checked by TLAPS.

## 1. The system

### Who preempts whom

`NVIC_PriorityGroup_2` gives two bits of preemption priority; a handler is
preempted only by one with a smaller number.

| priority | handlers | preempts |
|---|---|---|
| 1 | TIM2 (sampling), TIM3 (lwIP clock), USART1, EXTI9_5 (DM9000) | main loop and priority 2 |
| 2 | EXTI0 (WK_UP), EXTI2 (KEY2), EXTI3 (KEY1), EXTI4 (KEY0), USART3 | main loop |
| - | `main`, with `sys_check_timeouts` and `lwip_pkt_handle`, hence every lwIP callback | nothing |

No section of the code disables interrupts, and `SYS_LIGHTWEIGHT_PROT` is 0:
every variable two of these levels share is a race. Where the application and
its drivers share one (the flag byte, the SysTick counter, the display's memory
and bus, the DM9000 port) the models give each load and each store its step, and
so they do for lwIP's heap between its find and its mark, and for the flag of
the TCP timer. Inside lwIP this stops at the call: the timer list is changed in
one step, as are the ARP table and the packet buffers, and what WK_UP's
`tcp_connect` may do to those in the middle of a walk is not in the models.

### Components

| component | state | operations | interacts with | correct when | module |
|---|---|---|---|---|---|
| main loop, `main.c`; TCP client, `tcp_client.c` | `tcp_client_flag`, `tcp_client_revdata`, `client_pcb`, one `es` per connection | upload, command, connect, the lwIP callbacks, close | TIM2, KEY1 and WK_UP write the same byte and pointer | one connection at a time, nothing leaked, flags describe the connection | `EnvirClient`, `Session` |
| sampling and clock, `EnvirData.c`, `lwipcomm.c` | `timecnt`, `lwip_localtime` | TIM2 and TIM3 handlers | sensors, flag byte, lwIP's timers | 400 ms and 1 s periods, bounded clock loss | `Sampling` |
| CO2 receiver, `MHZ14.c` | `revcnt`, nine-byte buffer | USART3 handler | display | publishes what was sent, resynchronises after lost bytes | `Mhz14` |
| DHT11, `DHT11.c` | - | bit-banged read inside TIM2 | `Delay_us`, display | every wait bounded, silence is not data | `Dht11` |
| delays, `SysTick.c` | the one SysTick counter | `Delay_us`, `Delay_ms` | main loop and handlers | an undisturbed delay is long enough, every delay ends | `Delay` |
| keys, `KEY.c` | edges, pending bits, levels | four handlers | flag byte, `client_pcb`, display | a release acts exactly once (KEY1, KEY2), a press at most once (WK_UP, KEY0) | `Keys` |
| screen contents, `main.c` | static copies of what is shown | `OLED_ShowInterfaceData` | sensors' ready flags, KEY0, KEY1 | comes to show the truth | `Display` |
| OLED driver, `OLED.c` | `OLED_GRAM`, the bus | draw, refresh | main loop, KEY0 | a refresh shows the memory | `Oled` |
| debug port, `USART.c` | `USART1_RX_STA`, buffer | receive handler | - | lines whole, inside the buffer | `Usart1` |
| block allocator, `malloc.c` | table of `u16` per bank | malloc, free, realloc, usage | called at boot for lwIP's pools | blocks disjoint, table exact, fails only when full | `Malloc`, `BlockPool` |
| DM9000 driver, `DM9000.c`, `ethernetif.c` | register select, `imr_all` | send, receive, interrupt | main loop, EXTI0 (through `tcp_connect`), EXTI9_5 | register accesses not torn, receive queue drained | `Dm9000` |
| lwIP heap, `mem.c` | list of areas, `lfree` | malloc, free, trim | main loop, WK_UP | areas apart, no memory overlooked | `Heap`, `HeapPool` |
| lwIP packet buffers, `pbuf.c` | reference counts, lengths, links | alloc, free, ref, cat, chain, dechain, realloc, header | everything that carries a packet | counts and lengths exact | `Pbuf` |
| lwIP timeouts, `timers.c` | relative list | `sys_timeout`, `sys_check_timeouts` | main loop, WK_UP | armed when needed, times add up | `Timers` |
| lwIP ARP, `etharp.c` | table, cached entry | input, output, query, ageing | every packet sent | packets go where the next hop is | `Arp` |
| lwIP reassembly, `ip_frag.c` | list of datagrams, pbuf count | fragment, timer | every fragment received | counted, ends, in order | `IpReass` |
| lwIP TCP sender, `tcp_out.c`, `tcp_in.c`, `tcp.c` | unsent and unacked queues, windows | write, output, acknowledgement, slow timer | the upload; the network | every byte once, data gets through | `Transfer` |

Not modelled: see section 6.

### Behaviours that are hard to test

The full list, each at its line, is `hazards` in `PROJECT.json`. The main ones:

* the flag byte is updated by read-modify-write at nine places on three
  preemption levels; `client_pcb` outlives the block it names, since the error
  callback gets only `es`;
* the SysTick counter, the OLED bus, the DM9000 port and lwIP's heap are each
  used by the main loop and by a handler that preempts it, without a lock;
* TIM2's handler polls the DHT11 for milliseconds: lwIP's clock, the CO2
  receiver's bytes and the keys all feel it;
* an allocator whose table is the only record of the length of a block, and a
  heap whose lowest free area must survive splitting, merging and trimming;
* the sender's queues under losses, repetitions and reordering, with a window
  that closes, opens and narrows;
* tables at their limits: ARP entries recycled with a packet waiting on them,
  datagrams dropped for others, the buffer pool empty in the middle of a chain.

## 2. Modules

One module per component, named in the table above. Every one has its own
variables, `Init`, one action per handler, call or access, `Next` and a
specification; those that `MCParts` combines prefix these names (`DelayInit`,
`DelayNext`, `DelaySpec`, ...). A step is the code between two accesses to state
that a preempting handler shares; where nothing preempts, a step is a call. A
handler of higher priority runs to its end before what it interrupted goes on.

`Session`, `BlockPool` and `HeapPool` are abstract specifications;
`EnvirClient`, `Malloc` and `Heap` implement them through a refinement mapping
(`RefinesSession`, `RefinesPool`, `RefinesHeapPool`).

### EnvirClient

| variable | code |
|---|---|
| `pc` | position in `main` and in the lwIP callbacks it runs |
| `tcp_client_flag`, `reg`, `isr_reg` | the flag byte (as its set of bits) and the register copies held by the main loop and by EXTI3 |
| `tcp_client_revdata` | whether the last command is `start` or another text |
| `client_pcb`, `state`, `callback_arg` | the global pointer, `pcb->state` (FREE for a slot in the pool), `pcb->callback_arg` |
| `es_state`, `close_es` | `es->state` (FREE for a heap block), the argument of the running close |
| `isr` | the priority-2 handler in progress |
| `timecnt` | the static counter of TIM2 |

`x |= m` is two steps, `...Load` and `...Store`. TIM2 is one step, since
nothing that shares the byte preempts it. EXTI0 writes `client_pcb` and creates
a block, and acts only when `client_pcb` is NULL; it is one step. A handler of
priority 2 suspends the main loop (`MainAt` requires `isr = "none"`).

Each main-loop action is a segment of `main`: `ShowInterface`, `CheckSend`,
`SendPacket`, `SendLoad`/`SendStore`, `CheckRevc`, `StartLoad`/`StartStore`,
`RevcLoad`/`RevcStore`. At `timeouts` one timer event happens or none
(`SlowTmrRemove`, `PollClose`, `TimeoutsNothing`), at `pkt` one segment or none
(`PktRemove`, `PktSynAck`, `PktData`, `PktFin`, `PktNothing`), in any order the
network may choose; duplicates and lost segments are those choices repeated or
never made. `RemovePcb` is removal from lwIP's list followed by
`tcp_err_client`. A connection for which `mem_malloc` failed has no callbacks: its
FIN is lwIP's own affair (`NullCloses`), and when `tcp_send_fin` finds no memory
either, the block stays in CLOSE_WAIT with nobody to try again. `ClosingCloses`
therefore speaks of the blocks that have an `es`, and `ArgInv` knows the others. The close is `PollClose` (with `tcp_close` and `tcp_abort`),
`CloseFreeEs`, `CloseResetFlag`, `CloseResetPcb`. A failed allocation in
`Send_EnvirPacketData` ends in `halt` (the `while(1)`) or `fault` (the write
through a null `p`; on a part without an MPU the write may also go unnoticed,
which is the successful branch).

Abstractions: sequence numbers, windows and retransmission are choices (they are
`Transfer`'s subject); at most one event per call of `sys_check_timeouts` and
`lwip_pkt_handle` (further events happen one loop later); giving up on an
established connection is not tied to data in flight; the uninitialised return
value of `tcp_connect_client` after a failed `mem_malloc` only decides whether
`tcp_output` runs for that segment, which changes nothing modelled; the write of
`tcp_arg(tpcb, NULL)` into the freed block is modelled, the other registrations
follow `callback_arg`.

### Malloc

One bank of `N` cells of `BlockSize` bytes. `Request` is the head of
`my_mem_malloc` (for `mymalloc`, or for `myrealloc` of a held block), `Scan` one
iteration of the search from the last cell down, `ScanFails` its end, `Mark` one
iteration of the marking loop, `MarkDone` the return (and, in `myrealloc`, the
start of freeing the old block), `myfree`, `Clear` and `ClearDone` the freeing.
`held` is the set of blocks the caller owns. Initially the table is arbitrary:
the external bank lies in memory that no start-up code clears. Callers free only
what they were given, as `lwipcomm.c` does; `my_mem_init` is called while
nothing is held, as in `HardWare_Init`.

### Dm9000

A step is one write of the register select (`Select`) or one access to the data
port; `at[t]` is the access thread `t` is at, `Port` the register it is meant
for. `main` sends (`DM9000_SendPacket`) and receives (`DM9000_Receive_Packet`),
`key` is the send inside `EXTI0_IRQHandler` (through `tcp_connect`), and
`EXTI9_5_IRQHandler`, `IsrTest`, `IsrAck` are the controller's handler. `Turn`
is the preemption table of section 1. The controller is external: `RxArrive`,
`TxDone`, a read pointer `rd`, the words `wr` in the transmit memory with the
thread that wrote each, and a line (`Low`) whose falling edge sets `intp`. A
value written while another register is selected goes to that register, which
is always IMR, the last one `DM9000_SendPacket` selects. Abstractions: all
packets have `Words` words, of a length within limits; the two halves of the
length are one access, as are the two reads of MRCMDX; a length read from the
wrong register only changes how long the copy takes and is not modelled; the
`printf` and the buffers are left out. A packet of odd length that finds no pbuf
is `Drain`, which never ends: `len` steps over zero (line 430).

### The sensors and timers: Delay, Mhz14, Dht11, Sampling

`Delay` has three levels, the main loop, the key handlers and TIM2's, on the one
counter; each step is one access to `LOAD`, `VAL` or `CTRL`, and reading or
writing `CTRL` clears `COUNTFLAG`. `Count` is the hardware. A product that
exceeds the reload register is cut to its width (`% Wrap`): `InitWaits` shows
that `DHT11_Init`'s 2000 ms do not last.

`Mhz14` takes the bytes one by one. `SensorByte` finds `DR` full when the handler
was held up, and the byte is lost; what is remembered of the losses (`damaged`,
`intact`) is read by the properties only.

`Dht11` is one reading: every sample of the line finds any level, so the sensor
may be absent, slow or stop in the middle. `Sampling` is time itself: ten
periods of TIM3 in one of TIM2, a handler of TIM2 that lasts as long as a DHT11
reading may (`ReadingBounded` is what bounds `MaxLast`), flags that are set once
however many updates came. The reset of `timecnt` at 10, which 4 does not
divide, is in `TIM2_IRQLeave`.

### The keys and the screen: Keys, Display, Oled

`Keys` has the finger, the contact with its bounce, the pending bit, and the
handler's wait and level test. `Display` cuts `OLED_ShowInterfaceData` where a
handler can change what it reads next; drawing a row is one step. `Oled` is
below it: pixels are drawn by a load and a store of a byte of `OLED_GRAM`, a
byte is sent bit by bit, and the controller (external) latches eight bits
whoever sent them, as command or data according to DC at the last one. A pixel
is abstracted to who drew it.

`Usart1` splits `USART1_RX_STA` into its count and two flags.

### lwIP: Heap, Pbuf, Timers, Arp, IpReass, Transfer

`Heap` keeps the headers' offsets, `next`, `prev`, marks and `lfree`. `mem_free`
is the clearing of the mark and the joining of holes, `mem_malloc` the find and
the taking, since WK_UP's handler may come between (`NestedMalloc`).

`Pbuf` has one action per call. The loops of `pbuf.c` that walk a chain are the
least set that the walk does not leave (`Reached`), those that carry a length
along are recursive functions. Callers keep to what the file's comments demand.

`Timers` keeps the relative times. `Connect` is `TCP_REG` in WK_UP's handler, at
rest or between any two steps of a check; `Expire` takes the head off and the
handlers' steps re-arm it. `tcpip_tcp_timer` is three of those: the call of
`tcp_tmr`, the test for connections, and arming the timer again or clearing the
flag. `age`, `lag`, `loss` are history, and so is `unseen`: the last connection was
opened between that test and that clear, where `tcp_timer_needed` trusts the flag.
The walk of `sys_timeout` itself is one step.

`Arp` is the table with one packet waiting per pending entry. `out` is the frame
just sent and `heard`, `silent`, `reasked` are history. `IpReass` keeps the
chain of each datagram; a route cuts the datagram at its own points, so that
fragments of two routes overlap. An entry that is unlinked from the wrong
predecessor stays linked after it is freed; the model stops there
(`unlinked_wrong`), since what follows is undefined.

`Transfer` is the sending half of an established connection with a server and a
network that loses, repeats and reorders. `pcb` is a record of the control
block's fields; `Segmented` is `tcp_write`, `Output` `tcp_output`, `Window`,
`Duplicate`, `Acked` and `AckedUnsent` the parts of `tcp_receive`, `Rto` and
`Probe` what the slow timer does. How long a timeout takes is open.

### MCParts

The bench that checks fifteen of these modules in one run. They share no
variable, so `part` names the one that moves and the others stand still: the
state space is the sum of theirs. What one promises another is a constant there.
`EnvirClient` and `Dm9000` are compositions of threads already and have runs of
their own. Composing the parts in one product would show nothing more: none of
them reads another's variables, and where two components do share state (the
flag byte, the heap, the timer list, the register port) the sharing threads are
in one module.

## 3. What the runs check

| run | result | about |
|---|---|---|
| `EnvirClient` | passes, 52,639 states | the client: `OwnershipSound` (the inductive invariant with `OneClient`, `EsOwned`, `FreshSession`; no null `client_pcb` is used), `CommandNotOverwritten`, `NoResurrection`, `RefinesSession`, `ClosingCloses`, `StartTakesEffect` |
| `Parts_safety` | passes, 821,181 states | the invariants, action properties and `RefinesPool` of the parts |
| `Devices_live` | passes, 164,297 states | `DelayReturns`, `ScreenConverges`, `Returns` |
| `Network_live` | passes, 26,689 states | `RefinesHeapPool`, `TimersFire`, `PendingEnds`, `Delivered`, `ReassEnds` |
| `Dm9000` | passes, 476,612 states | main loop, WK_UP's packets and EXTI9_5: `MainSound`, `PacketsWhole`, `RxAligned`, `UntornSendEnds`, `KeySound`, `IntNoticed`, `KeySendEnds` |
| `EnvirClient_PauseHonoured` | violated | KEY1's pause is undone by a stale store of the flag byte (`KEY.c:163`) |
| `EnvirClient_NoDeadPcbUse` | violated | after a reset or timeout the main loop uses the freed block (`tcp.h:103`) |
| `Dm9000_MainSendEnds` | violated | WK_UP's packet takes the completion the main loop polls for (`DM9000.c:377`) |
| `Heap_GivenOnce` | violated | WK_UP's handler is given the area the main loop has found and not yet marked (`mem.c:522`) |
| `Transfer_UpdateLossSurvived` | violated | a lost update of a narrow window stops the upload for good (`tcp_out.c:1406`) |
| `IpReass_PassedUpWhole` | violated | a datagram with a hole is passed up (`ip_frag.c:384`) |
| `Timers_TcpTimerServes` | violated | a connection opened while `tcpip_tcp_timer` switches itself off is left without the TCP timer (`timers.c:97`) |

A violated run states one sentence of a comment of the repository, and TLC finds
a behaviour of the code that breaks it.

The invariants of `Parts_safety` are conjunctions; their parts are defined, and
explained, one by one in the modules:

| invariant | parts besides the types |
|---|---|
| `AllocatorSound` | `Disjoint`, `TableDescribes`, the loops' invariants, `LoopsStayInside`, `UsageExact` |
| `DelaySound` | `UndisturbedLasts`, `IdleStops`, `DelayProgress` |
| `ReceiverSound` | `Resynchronises` |
| `TickSound` | `NoUpdateMissed`, `ClockLoss` |
| `ReadingSound` | `ReadingBounded`, `SilenceIgnored` |
| `KeysSound` | `ReleasedActsOnce`, `PressedActsOnce` |
| `PictureSound` | `RefreshShowsAll`, `CutRefreshBounded`, `GhostsInOneCell` |
| `LineSound` | `LineWhole` |
| `HeapSound` | `AreasTile`, `BackLinks`, `HolesPlugged`, `LfreeLowest`, `GivenOnce`, `NullMeansFull` |
| `TimersSound` | `TcpTimerArmed`, `TimeAccounted` |
| `TableSound` | `OneEntryPerHost`, `WaitOnPending`, `NoPacketLeaks`, `NoFlood` |
| `QueuesSound` | `EveryByteQueued`, `BufferAccounted`, `OversizeIsThere`, `SentIsTimed` |
| `ReassSound` | `PbufsCounted`, `OneEntryPerDatagram`, `NothingCompleteWaits`, `PassedUpInOrder` |
| `PbufsSound` | `RefsExact`, `TotLenExact`, `ChainsEnd` |

Besides: `SentWhereHeard` (an ARP entry recycled, expired or moved misdirects
nothing), `NoOverrun` (nothing is sent that the server has no room for),
`PublishedWasSent` (no mixture of two CO2 frames passes for one) and
`RequestSpacing` (uploads and CO2 commands keep their distance).

Three of them hold up to an event that the model has and that a violated run
shows the effect of. `HeapSound` is checked without `NestedMalloc`. What `Dm9000`
says of the main loop holds until `nested`: WK_UP's handler has sent inside a send
or a reception of the main loop; whenever it sends elsewhere nothing is lost.
`TcpTimerArmed` holds unless the last connection was `unseen`. `ReassSound` and
`ReassEnds` hold until an entry was unlinked from the wrong predecessor.

The modules end with statements of the code's comments and assertions that do
**not** hold, each with the reason. No run repeats these: `RequestKept`,
`NoDoubleFree`, `NoHalfOpenLeft`, `ReconnectPossible`, `TcpNewSucceeds`
(`EnvirClient`), `InitWaits` (`Delay`), `ClockKeepsTime` (`Sampling`), `PressActs`
(`Keys`), `NoForeignData` (`Display`), `NeverEarly` (`Timers`), `UnlinkedRight`
(`IpReass`), `RetransmissionsBounded` (`Transfer`).

What no property catches, although the hazard is real:

* the `while(1)` and the write through a null pbuf in `Send_EnvirPacketData`
  (`EnvirData.c:56`, `66`): steps of `EnvirClient` (`halt`, `fault`), and ends of
  the claims about it; `HeapSound` says only that the heap is then full;
* an upload request lost between a load and a store of the flag byte
  (`RequestKept`); `RequestSpacing` is about the requests made;
* a byte added to a CO2 frame, rather than lost;
* a byte of the display that two senders mixed: `PictureSound` ends there
  (`garbled`); and the row that KEY0 blanked, which `ScreenConverges` leaves out
  until its value changes;
* odd lengths below the level of words: `PacketsWhole` and `RxAligned` count
  words, and an odd buffer in a chain is a word like any other;
* the retransmission count that passes its limit (`tcp.c:827`): `Delivered` does
  not depend on it.

### Bounds

* `EnvirClient`: two control blocks and two heap blocks: `OneClient` shows that
  one block is ever in use, so a second is needed only to show that nothing
  takes it; a stale `es` and a fresh one can coexist. `MemFails = TRUE` lets each
  allocation fail. `timecnt` runs over its real range. Nothing else is unbounded.
* `Malloc`: five cells of two bytes and requests of 0 to 12 bytes: nothing, odd
  and even sizes, the whole bank and more, every fragmentation of five cells
  (four cells for `Returns`).
* `Dm9000`: packets of two words, so that a copy loop has a first, a middle and a
  last word; two received packets waiting, and WK_UP pressed any number of times.
* `Delay`: a reload register of three values and requests within and beyond it.
  `Mhz14`: the real frame and checksum, three lost bytes anywhere, three
  concentrations, one with a data byte 0xFF. `Sampling`: the real ratio of the
  timers, handlers of two or three periods, 21 runs of TIM2's handler, two full
  cycles of `timecnt`. `Dht11`: bytes of one bit and a limit of two: all five bits
  and both waits can time out; the carry of the sum appears with one bit already.
  `Keys`: one key of each kind; `Display`: two values.
* `Oled`: three pages of three columns, a nibble of two, bytes of two bits: a
  last page to be disturbed, others not to be, and a byte that can be cut in two.
* `Usart1`: a buffer of four bytes, filled and overrun by two distinct bytes.
* `Heap`: 20 units, headers of two, four sizes: up to five areas, all splits and
  joins. `Pbuf`: a pool of three buffers and packets longer than the pool.
  `Timers`: intervals 2, 5 and 7, checks up to two ticks apart, one connection
  that comes and goes, opened during checks as well (two for the violated run). `Arp`: two slots, three hosts and a gateway that changes
  its adapter, so that entries are recycled; one slot for `PendingEnds`.
  `IpReass`: three datagrams of four units by two routes, three entries and four
  pbufs: the list and the pbufs run out; for `ReassEnds` three
  datagrams of three units by one route, with three entries and six pbufs, enough
  for the unlinking from the wrong predecessor to happen; one datagram for the
  violated run.
* `Transfer`: two packets of three bytes, segments of two, a window of four, one
  segment and two answers on the way (one answer for liveness): the window closes,
  narrows and opens, segments are filled up and chained, answers overtake.
  `TCP_MAXRTX` is 1, `RtxWidth` 3.

`CHECK_DEADLOCK FALSE` in the `EnvirClient` runs is for the real stops, the fault
and the handler spinning in `ASSERT_ERROR`; in the `MCParts` runs for the bounds
(`Horizon`, `StreamMax`) and for what really ends: `Usart1` takes nothing after
a complete line, which no code consumes.

### Fairness

* `EnvirClient`: `SF(Main)`: the handlers are short against their periods, so the
  main loop advances between interrupts, however many arrive, unless it spins;
  `WF(PauseStore)`: a handler that has started ends; `SF(PollClose)`: `tcp_slowtmr`
  polls a registered connection every 500 ms, so it cannot be passed over for ever
  although each loop iteration may find no timer due. Nothing is assumed of keys,
  segments or memory.
* `Dm9000`: each level runs as long as those above it leave it time, `SF(Main)` and
  `SF` of the key's accesses (not of its presses), `WF(Isr)`, and the controller
  transmits what it was told to, `WF(TxDone)`.
* `DevicesFairSpec`: the counter counts while it is enabled; each level's delay has
  `SF`, since handlers interrupt it again and again and leave it the processor
  again and again; the main loop runs and both sensors go on measuring; malloc.c's
  loops run (straight-line code).
* `NetworkFairSpec`: TIM3 ticks
  between checks, `SF(Tick)`, since a check disables it for the time it takes;
  the main loop checks the timers, and with them runs the ARP and reassembly
  timers.
* `TransferFairness`: the timers run and the server's application reads. Of the
  network: segments that are sent again and again do arrive some time, among them
  one the server waits for, and so does an answer that tells where the server
  stands. Nothing is assumed of duplicates, order or losses otherwise.

`Delivered` leaves out one situation, `Narrow`: the violated run
`Transfer_UpdateLossSurvived` is that situation, with the same fairness.

## 4. What is proved

The theorems hold for every value of the constants; the assumptions on
constants are the named `ASSUME`s of the modules (NULL is not a block; a bank
has a cell; no caller asks for a delay of a multiple of the counter's width;
TIM2's handler ends before its next update; ...). The model checker evaluates
them on each run.

**EnvirClientProofs.** `Invariance`: `Spec => []IInv`. None of the properties is
inductive alone. `OneClient` and `FreshSession` need to know what a stale
register copy can contain (`CopyInv`: a copy differs from the byte in START and
SEND only, because CONNECT and REVC are written by the main loop alone), which
bits a registered and an unregistered connection have (`ConnInv`, `FlagInv`),
which blocks have callbacks (`ArgInv`), and what holds at each place of the loop
(`PcInv`). From it: `ClientIsSound` (the run's `OwnershipSound`),
`CommandsAreRead`, the action property `NothingResurrects`, and the refinement
`ImplementsSession`.

**AllocatorProofs.** `Malloc`: `Invariance`, one lemma per action. The search invariant
`ScanInv` says that `seri` counts the free cells right above `offset`, that the
cell above those is used or the end of the bank, and that no run that starts
above `offset` is free. It is what makes the refused request truly unsatisfiable
and the block found the highest. `MarkInv` and `ClearInv` keep the running loop
apart from every held block. From it: `AllocatorIsSound`, with `UsageIsExact` (a
cardinality argument over the cells of disjoint blocks), and the refinement
`ImplementsPool`, which linearises a call at the end of its marking loop or of
its failed search.
`Heap`: a list of areas as such, `Tiled`, with two lemmas, `Joined` and
`Divided`, of which every change mem.c makes to its list is composed:
`mem_malloc` divides, `plug_holes` joins once or twice, `mem_trim` joins and
divides. `HeapInv` adds to `HeapSound` what holds within a call: two neighbours
are free only around the area that is being freed (`HolesAtFreed`), and what
`mem_malloc` has found is still free (`CallInv`), which is where
`~NestedMalloc` is needed. Hence `HeapIsSound`, with `NullMeansFull`: a gap long
enough begins in a free area at or above `lfree`; and `ImplementsHeapPool`.
`Pbuf`: `PoolInv(s, h, x)` says of a pool `s` that the callers hold `h` of that
its links make chains, cleared buffers are spare, payloads fit, and each `ref` is
the number of pointers and holders, one more for the buffer `x` that the code in
hand has a reference to. Every call is a change of links under which it holds for
some `x`, followed by `pbuf_free` of `x`: `FreedKeeps` shows once that this gives
back what only `x` held, and nothing else. `CatKeeps` and `CutKeeps` do the
lengths of joining and cutting; `TailInv`, by recursion over the rounds of the
loop, the packet that `pbuf_alloc` is building, with `rem_len` bytes missing
behind its last buffer, until it is complete or all of it is freed. Hence
`PbufsAreSound`.

**Dm9000Proofs.** Two invariants. `KeyInv`, for every use of WK_UP: the register
the handler has selected is selected or saved by EXTI9_5 (`Held`), and while it
sends, nothing is acknowledged (`Masked`); hence `KeyIsSound`.
`InterruptIsNoticed` is inductive by itself. `MainInv` says that until `nested` the
two never send at once (`Apart`), and `Calm`: the same as `KeyInv` for the main
loop, whoever sends, with the words of the packet being copied (`WrInv`) and
the read pointer that follows the copy (`RdInv`); hence `MainIsSound`,
`PacketsAreWhole`, `ReceptionIsAligned`. What a packet of WK_UP's does
inside one of the main loop's, the run `Dm9000_MainSendEnds` shows.

**TimingProofs.** `Delay`: `DelayProgress` is the strengthening: for an undisturbed delay,
what it still has to wait follows from the counter, the flag and the reload
value. A step of one level leaves the undisturbed delays of the others alone,
because a level that steps is above all active ones. Hence `DelayIsSound`.
`Sampling`: a strengthening that relates the periods until TIM2's next update,
the handler's remaining time and the history of both requests; hence
`TickIsSound` and the action property `RequestsAreSpaced`, for every period and
handler length. `Dht11`: what each phase of a reading has left of its time-outs
(`ReadingInv`), and what a line that nobody pulls low has put into the bytes
(`SilenceInv`); hence `ReadingsAreSound`. `Keys`: `KeysInv` is about the busy
period. The handlers serve one key after the other without a pause, each key
once, so a handler starts late by at most one wait for every other key
(`BusyPeriod`, a sum over the set of keys), which is less than any press lasts;
`ReleaseCounted` and `PressCounted` say what each key still owes. Hence
`KeysAreSound`.

**NetworkProofs.** `Arp`: `ArpInv`, an entry's age bounds the silence of the
host it names and its address is the one heard last; hence
`PacketsGoWhereHeard`. `NoCopyLeaks` counts the waiting packets through every
replacement. Together `TableIsSound`, for any table size, hosts and addresses.
`Timers`: the list holds differences, so that one timer's time is a sum over the
list. `InsertAccounted` and `TailAccounted` say what `sys_timeout` and the head's
expiry do to every other timer's sum; with them `TimesAreAccounted`, nested or
not, and `TimersAreSound`: nothing but the step between its handler's test and
clear (`unseen`) leaves a connection without the TCP timer.
`IpReass`: the strengthening (`ReassInv`) is that an entry that waits knows
whether its last fragment has come, and that the count is exact even after an
entry was unlinked wrongly. `CompleteIsValid`: a chain that a new fragment makes
complete has no hole where the walk looks for one, so it is passed up and does
not wait. `ValidIsInOrder` is the other half, and weaker, as the run
`IpReass_PassedUpWhole` shows: what is passed up starts the datagram and its
fragments do not overlap, because the walk has compared neighbours, or the new
fragment with all before it. `RemoveOldestKeeps` goes along the rounds that drop
datagrams, each of which frees a pbuf. Hence `ReassIsSound`.

**SerialProofs.** `Usart1`: `LineIsSound`. `Mhz14`: `SensorTypeCorrect`, that
the frame counter never leaves the buffer, whatever is lost, and
`SensorResynchronises`. Its invariant `SyncInv` follows the bytes handled since
the last damage: as long as they do not make up a frame, the receiver's state
is one of those that the definition of the damage allows, and from the first
header that stands where the sensor put it the counter is the byte's place.
`PublishedIsSent` takes up what happens before that, frame by frame: in a frame
that loses at most one byte the receiver counts the bytes of that frame
(`OnFrame`), drops them in pairs (`OffFrame`), or is ahead of the sensor
(`Ahead`), and after two such frames in a row it is ahead by one byte or holds
eight bytes of the frame before, of which one is missing. That frame is then
completed by the 0xFF the next one starts with, and `ShortIsRefused` says that
the checksum is right only if 0xFF is what was missing: the sum differs by the
missing byte, whichever it is. The theorem needs a tail without 0x86 and 0xFF
(`TailPlain`): TLC finds a mixture that is published when the tail holds 0x86.
`Oled`: of the two refreshes one is running, and `RefreshInv` says of that one
what the bits in the register are (`LinesInv`) and where the pointers stand:
`OnCourse`, where its own bytes have put them, or, for a refresh that was cut,
somewhere in the last page, where the handler's refresh has left them, until its
next page command. A bit that the handler adds to main's is noticed, because the
register is full before the handler's byte is out (`SendLines`). `OledInv` puts
that under `~garbled` and adds the types, which need to know that DC is low for
commands only (`DcInv`), and the one cell that main may be holding a copy of
(`GhostInv`). Hence `PictureIsSound`, for a screen, a nibble and a byte of any
size.

**TransferProofs.** `TransferInv` speaks of one list, the unacknowledged and the
unsent segments in a row. That list covers the bytes from `lastack` to `snd_lbb`
without a gap (`Covering`), and the accounts are those of it (`Counted`); every
operation is shown to keep it: `tcp_write` makes it longer (`SegmentedSound`),
`tcp_output` and a timeout move the border in it (`OutputSound`, `RtoSound`), an
acknowledgement cuts it, on both sides of the border (`AckedKeeps`). A fast
retransmission takes the first segment from one list to the other, so that in
the middle of a handler the list in order is another one (`Turned`, `FastInv`);
`tcp_output`, which ends the handler, sends that segment before all others and
puts it back. The other half is the window: its edge is one that the server
announced, and of two answers the newer reaches as far (`AcksInv`,
`Announced`), so an old answer that `tcp_receive` takes the window from cannot
open it too far. Hence `QueuesAreSound` and `NothingOverruns`, for any segment
size, buffers, queue length, retransmission limit and width of its count, and
any network.

**Recursion.** The library's induction rules take a formula as a parameter, which
no installed prover can instantiate. `LowestExists` follows from the
well-founded order of the numbers, with a set in the formula's place, and from
it what the other proofs need of recursively defined functions: `Reaches` (a set
with 0 and every successor holds all places), `SumsExist` (a sum over places
exists) and the like. That is how the sums of `Timers`, `Keys`, `Transfer` and
`IpReass` are proved of lists of every length.

**Only model-checked.** All liveness properties (liveness under fairness is
outside the prover's reach, as is ENABLED): `ClosingCloses`, `StartTakesEffect`,
`Returns`, `UntornSendEnds`, `KeySendEnds`, `DelayReturns`, `ScreenConverges`,
`TimersFire`, `PendingEnds`, `Delivered`, `ReassEnds`. Every invariant and every
action property that a passing run checks is a theorem.

## 5. How to run

In this directory: `tlc -workers 2 -config X.cfg M` with the module and
configuration of a run from `PROJECT.json`, and `tlapm M.tla` for a proof module.
The longest run, `Network_live`, takes about three minutes.

## 6. What is not modelled, and what could follow

* `tcp_server.c`: compiled, but nothing calls it.
* LEDs, I2C, external SRAM, fault handlers: register output with no state the
  rest of the program reads; the I2C driver has no caller.
* Fonts, number formatting and the OLED controller's set-up; the set-up of the
  serial ports, and their `printf`.
* `DM9000_Init`, the PHY, and the reset for an oversized packet.
* Of lwIP: receiving data (the server sends one short command, which
  `EnvirClient` delivers), RTT estimation, listening and TIME-WAIT blocks, pbufs
  that lie in the heap, sending fragments, and everything the program does not
  configure or call: DHCP, DNS, UDP applications, SNMP, PPP, the socket and
  netconn layers. They are most of the repository's lines.
* ST's firmware library and CMSIS: the peripherals' behaviour is modelled where
  the firmware relies on it.

Worth doing next, in this order: the reset path of the DM9000; received data and
TIME-WAIT in `Transfer`.
