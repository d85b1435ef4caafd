------------------------------- MODULE Usart1 -------------------------------
(***************************************************************************)
(* The receiver of the debug port: the handler of USART1 (USART.c) gathers *)
(* a line that ends with 0x0D 0x0A.  USART1_RX_STA is a count with two     *)
(* flags in its upper bits; nothing in the program consumes a line.        *)
(***************************************************************************)
EXTENDS Naturals, Sequences

CONSTANTS MAXLEN,   \* USART1RX_MAXLEN
          Byte      \* bytes other than CR and LF

ASSUME Usart1Assumption ==
  MAXLEN \in Nat \ {0} /\ {"CR", "LF"} \cap Byte = {}

VARIABLES
  count,     \* USART1_RX_STA & 0x3FFF
  gotCR,     \* USART1_RX_STA & 0x4000
  complete,  \* USART1_RX_STA & 0x8000
  USART1_RX_BUFF,
  line       \* bytes received since the count was last reset

usart1Vars == <<count, gotCR, complete, USART1_RX_BUFF, line>>

Usart1Init ==
  /\ count = 0 /\ gotCR = FALSE /\ complete = FALSE /\ line = <<>>
  /\ USART1_RX_BUFF = [i \in 0 .. MAXLEN - 1 |-> "LF"]

Restart == count' = 0 /\ gotCR' = FALSE /\ complete' = FALSE /\ line' = <<>>

\* After a CR only LF completes the line; anything else starts again.
AfterCR(b) ==
  /\ UNCHANGED USART1_RX_BUFF
  /\ IF b = "LF" THEN complete' = TRUE /\ UNCHANGED <<count, gotCR, line>>
     ELSE Restart

\* Mutant: the byte is stored behind the incremented count.
StoreAhead(b) ==
  /\ USART1_RX_BUFF' = [USART1_RX_BUFF EXCEPT ![(count + 1) % MAXLEN] = b]
  /\ IF MAXLEN - 1 < count + 1 THEN Restart
     ELSE count' = count + 1 /\ line' = Append(line, b) /\ UNCHANGED <<gotCR, complete>>

\* A byte of the line; one too many starts again.
Store(b) ==
  /\ USART1_RX_BUFF' = [USART1_RX_BUFF EXCEPT ![count] = b]
  /\ IF MAXLEN - 1 < count + 1 THEN Restart
     ELSE count' = count + 1 /\ line' = Append(line, b) /\ UNCHANGED <<gotCR, complete>>

\* USART1_IRQHandler, for one byte; a complete line is kept for good.
USART1_IRQHandler(b) ==
  /\ ~complete
  /\ IF gotCR THEN AfterCR(b)
     ELSE IF b = "CR"
     THEN gotCR' = TRUE /\ UNCHANGED <<count, complete, USART1_RX_BUFF, line>>
     ELSE Store(b)

Usart1Next == \E b \in Byte \cup {"CR", "LF"} : USART1_IRQHandler(b)
Usart1Spec == Usart1Init /\ [][Usart1Next]_usart1Vars

-----------------------------------------------------------------------------
\* The types of the variables; no byte is stored past the end of the buffer.
Usart1TypeOK ==
  /\ count \in 0 .. MAXLEN - 1
  /\ gotCR \in BOOLEAN /\ complete \in BOOLEAN
  /\ USART1_RX_BUFF \in [0 .. MAXLEN - 1 -> Byte \cup {"CR", "LF"}]

\* A complete line is what was received since the last restart, whole and in
\* order, and a CR that no LF followed is not in the middle of it.
LineWhole ==
  /\ count = Len(line)
  /\ \A i \in 1 .. Len(line) : USART1_RX_BUFF[i - 1] = line[i] /\ line[i] # "CR"
  /\ complete => gotCR

\* A line is received whole, and inside the buffer.
LineSound == Usart1TypeOK /\ LineWhole
=============================================================================
