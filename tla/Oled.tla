-------------------------------- MODULE Oled --------------------------------
(***************************************************************************)
(* The OLED driver (OLED.c): the graphics memory OLED_GRAM, the            *)
(* bit-banged serial bus, and the controller behind it.  The main loop     *)
(* draws pixels and refreshes the screen; KEY0's handler interrupts it     *)
(* between any two writes to the bus, clears the memory, draws another     *)
(* frame and refreshes the screen twice.  Nothing guards the bus.          *)
(***************************************************************************)
EXTENDS Naturals, Sequences, FiniteSets

CONSTANTS
  Pages, Columns,  \* the screen: 8 and 128
  Nibble,          \* a column command sets four of its bits: 16
  ByteBits,        \* bits of a byte: 8
  DrawCells        \* cells of the memory the main loop draws in

ASSUME OledAssumption ==
  /\ {Pages, Columns, Nibble, ByteBits} \subseteq Nat \ {0}
  /\ DrawCells \subseteq (0 .. Pages - 1) \X (0 .. Columns - 1)

VARIABLES
  OLED_GRAM,   \* the pixels of each cell: the old frame's, the frame's, the data's
  drawing,     \* main's DrawPiont: the cell and the copy it holds, or <<>>
  filled,      \* has the handler ever cleared the memory?
  task,        \* what the main loop and the handler are doing
  byte,        \* the byte that each is sending: the page, and which of its bytes
  phase,       \* and how far OLED_WR_Byte has got with it
  cut,         \* has the handler interrupted main's refresh?
  bus,         \* the lines DC and CS
  shift,       \* the controller's shift register: whose bits, in order
  pos,         \* its page and column pointers
  screen,      \* its memory
  garbled      \* has it latched a byte that nobody sent?

oledVars == <<OLED_GRAM, drawing, filled, task, byte, phase, cut, bus, shift,
              pos, screen, garbled>>

Actor  == {"main", "key"}
Cell   == (0 .. Pages - 1) \X (0 .. Columns - 1)
Pixels == SUBSET {"old", "frame", "data"}
PageBytes == 3 + Columns   \* three commands, then the cells

FirstByte == <<0, 0>>
LastByte  == <<Pages - 1, PageBytes - 1>>

OledInit ==
  /\ OLED_GRAM = [c \in Cell |-> {"old"}] /\ drawing = <<>> /\ filled = FALSE
  /\ task = [a \in Actor |-> IF a = "main" THEN "draw" ELSE "idle"]
  /\ byte = [a \in Actor |-> FirstByte] /\ phase = [a \in Actor |-> 0]
  /\ cut = FALSE
  /\ bus = [DC |-> 1, CS |-> 1] /\ shift = <<>>
  /\ pos = <<0, 0>> /\ screen = OLED_GRAM /\ garbled = FALSE

\* The handler runs to its end before main goes on.
Running(a) == IF a = "main" THEN task["key"] = "idle" ELSE task["key"] # "idle"

-----------------------------------------------------------------------------
(* Drawing.                                                                *)

\* OLED_DrawPiont: |= is a load ...
DrawLoad(c) ==
  /\ Running("main") /\ task["main"] = "draw" /\ drawing = <<>>
  /\ drawing' = <<c, OLED_GRAM[c]>>
  /\ UNCHANGED <<OLED_GRAM, filled, task, byte, phase, cut, bus, shift, pos,
                 screen, garbled>>

\* ... and a store of the byte.
DrawStore ==
  /\ Running("main") /\ drawing # <<>> /\ drawing' = <<>>
  /\ OLED_GRAM' = [OLED_GRAM EXCEPT ![drawing[1]] = drawing[2] \cup {"data"}]
  /\ UNCHANGED <<filled, task, byte, phase, cut, bus, shift, pos, screen, garbled>>

\* OLED_RefreshGram is called.
Refresh(a) ==
  /\ byte' = [byte EXCEPT ![a] = FirstByte] /\ phase' = [phase EXCEPT ![a] = 0]
MainRefresh ==
  /\ Running("main") /\ task["main"] = "draw" /\ drawing = <<>>
  /\ task' = [task EXCEPT !["main"] = "refresh"] /\ Refresh("main") /\ cut' = FALSE
  /\ UNCHANGED <<OLED_GRAM, drawing, filled, bus, shift, pos, screen, garbled>>

\* KEY0's handler, OLED_ShowInterfaceFrame: OLED_Fill, which refreshes ...
KeyFill ==
  /\ task["key"] = "idle"
  /\ task' = [task EXCEPT !["key"] = "fill"] /\ Refresh("key")
  /\ OLED_GRAM' = [c \in Cell |-> {}] /\ filled' = TRUE
  /\ cut' = (cut \/ task["main"] = "refresh")
  /\ UNCHANGED <<drawing, bus, shift, pos, screen, garbled>>

\* ... then the frame's texts and OLED_RefreshGram.
KeyFrame == [c \in Cell |-> OLED_GRAM[c] \cup {"frame"}]

-----------------------------------------------------------------------------
(* The bus: OLED_WR_Byte, one line write or one bit at a time.             *)

IsCommand(n) == n[2] < 3
CellOf(n)    == <<n[1], n[2] - 3>>
NextOf(n)    == IF n[2] < PageBytes - 1 THEN <<n[1], n[2] + 1>> ELSE <<n[1] + 1, 0>>

\* Mutant: the pages are counted from 1.
PageCommandNext(n, p) == <<(n[1] + 1) % Pages, p[2]>>

PageCommand(n, p) == <<n[1], p[2]>>

\* What a command does to the pointers: page, low and high bits of the column.
Command(n, p) ==
  CASE n[2] = 0 -> PageCommand(n, p)
    [] n[2] = 1 -> <<p[1], (p[2] \div Nibble) * Nibble>>
    [] n[2] = 2 -> <<p[1], p[2] % Nibble>>

\* The bytes of a refresh as the controller sees them: a command byte taken
\* for data is some pattern of pixels.
Pattern(n) == IF IsCommand(n) THEN {"frame", "old"} ELSE OLED_GRAM[CellOf(n)]

\* The controller latches a whole byte, by the level of DC at its last bit.
Latch(a) ==
  IF \E i \in DOMAIN shift : shift[i] # a
  THEN garbled' = TRUE /\ UNCHANGED <<pos, screen>>
  ELSE /\ UNCHANGED garbled
       /\ IF bus.DC = 0
          THEN pos' = Command(byte[a], pos) /\ UNCHANGED screen
          ELSE /\ screen' = [screen EXCEPT ![pos] = Pattern(byte[a])]
               /\ pos' = <<pos[1], (pos[2] + 1) % Columns>>

SetDC(a) ==
  /\ phase[a] = 0 /\ bus' = [bus EXCEPT !.DC = IF IsCommand(byte[a]) THEN 0 ELSE 1]
  /\ UNCHANGED <<shift, pos, screen, garbled>>
ClearCS(a) ==
  /\ phase[a] = 1 /\ bus' = [bus EXCEPT !.CS = 0]
  /\ UNCHANGED <<shift, pos, screen, garbled>>
SendBit(a) ==
  /\ phase[a] \in 2 .. ByteBits + 1 /\ UNCHANGED bus
  /\ IF bus.CS = 1 THEN UNCHANGED <<shift, pos, screen, garbled>>
     ELSE IF Len(shift) + 1 < ByteBits
     THEN shift' = Append(shift, a) /\ UNCHANGED <<pos, screen, garbled>>
     ELSE shift' = <<>> /\ Latch(a)
SetCS(a) ==
  /\ phase[a] = ByteBits + 2
  /\ bus' = [bus EXCEPT !.CS = 1] /\ shift' = <<>>
  /\ UNCHANGED <<pos, screen, garbled>>

Sending(a) == Running(a) /\ task[a] \in {"refresh", "fill", "frame"}
EndPhase   == ByteBits + 3

\* One step of the byte that a is sending.
SendStep(a) ==
  /\ Sending(a) /\ phase[a] < EndPhase
  /\ SetDC(a) \/ ClearCS(a) \/ SendBit(a) \/ SetCS(a)
  /\ phase' = [phase EXCEPT ![a] = @ + 1]
  /\ UNCHANGED <<OLED_GRAM, drawing, filled, task, byte, cut>>

\* OLED_DC_Set, and on to the next byte.
NextByte(a) ==
  /\ Sending(a) /\ phase[a] = EndPhase /\ byte[a] # LastByte
  /\ bus' = [bus EXCEPT !.DC = 1]
  /\ byte' = [byte EXCEPT ![a] = NextOf(@)] /\ phase' = [phase EXCEPT ![a] = 0]
  /\ UNCHANGED <<OLED_GRAM, drawing, filled, task, cut, shift, pos, screen, garbled>>

\* The last byte is out: main draws again, the handler draws or returns.
EndRefresh(a) ==
  /\ Sending(a) /\ phase[a] = EndPhase /\ byte[a] = LastByte
  /\ bus' = [bus EXCEPT !.DC = 1]
  /\ byte' = [byte EXCEPT ![a] = FirstByte] /\ phase' = [phase EXCEPT ![a] = 0]
  /\ IF task[a] = "fill"
     THEN task' = [task EXCEPT ![a] = "frame"] /\ OLED_GRAM' = KeyFrame
     ELSE /\ task' = [task EXCEPT ![a] = IF a = "main" THEN "draw" ELSE "idle"]
          /\ UNCHANGED OLED_GRAM
  /\ UNCHANGED <<drawing, filled, cut, shift, pos, screen, garbled>>

OledNext == \/ \E c \in DrawCells : DrawLoad(c)
            \/ DrawStore \/ MainRefresh \/ KeyFill
            \/ \E a \in Actor : SendStep(a) \/ NextByte(a) \/ EndRefresh(a)
OledSpec == OledInit /\ [][OledNext]_oledVars

-----------------------------------------------------------------------------
\* The types of the variables; the pointers stay on the screen.
OledTypeOK ==
  /\ OLED_GRAM \in [Cell -> Pixels] /\ screen \in [Cell -> Pixels]
  /\ drawing = <<>> \/ drawing \in Cell \X Pixels
  /\ task \in [Actor -> {"draw", "refresh", "idle", "fill", "frame"}]
  /\ task["main"] \in {"draw", "refresh"} /\ task["key"] \in {"idle", "fill", "frame"}
  /\ byte \in [Actor -> (0 .. Pages - 1) \X (0 .. PageBytes - 1)]
  /\ phase \in [Actor -> 0 .. EndPhase]
  /\ pos \in Cell /\ bus \in [DC : 0 .. 1, CS : 0 .. 1]

\* The end of a refresh, before DC is set for the last time.
RefreshDone(a) == Sending(a) /\ phase[a] = EndPhase /\ byte[a] = LastByte

\* A refresh nobody interrupts puts the whole memory on the screen, wherever
\* the one it interrupted or follows was cut off, unless a byte was cut in two.
RefreshShowsAll ==
  \A a \in Actor :
    RefreshDone(a) /\ ~garbled /\ (a = "main" => ~cut) => screen = OLED_GRAM

\* A refresh the handler does interrupt, between any two bytes or line writes,
\* goes on to write into the last page only: the other pages are right.
CutRefreshBounded ==
  RefreshDone("main") /\ ~garbled =>
    \A c \in Cell : c[1] < Pages - 1 => screen[c] = OLED_GRAM[c]

\* No pixel of the old frame comes back after the handler has cleared it,
\* but for the one cell that main was drawing in.
GhostsInOneCell ==
  filled => Cardinality({c \in Cell : "old" \in OLED_GRAM[c]}) <= 1

\* What is on the screen when a refresh ends, whoever cut into it.
PictureSound ==
  OledTypeOK /\ RefreshShowsAll /\ CutRefreshBounded /\ GhostsInOneCell
=============================================================================
