-------------------------------- MODULE Keys --------------------------------
(***************************************************************************)
(* The keys and their interrupts (KEY.c).  All interrupt on the edge of    *)
(* the release: KEY0, KEY1 and KEY2 are low while pressed and trigger on   *)
(* the rising edge, WK_UP is high while pressed and triggers on the        *)
(* falling one.  A handler waits for the contacts to settle, tests the     *)
(* level, acts, and clears the pending bit at its very end.                *)
(*                                                                         *)
(* The handlers share preemption priority 2, so one key's handler delays   *)
(* another's; TIM2's handler can cut the wait off (module Delay), but then *)
(* has itself lasted 20 ms.                                                *)
(***************************************************************************)
EXTENDS Naturals, FiniteSets

CONSTANTS
  OnPress,      \* keys whose handler wants the key pressed: KEY0, WK_UP
  OnRelease,    \* keys whose handler wants it released: KEY1, KEY2
  Settle,       \* longest bounce of a contact
  MinWait, MaxWait, \* how long a handler waits before its test
  Hold          \* how long a finger stays, at least, on the key or off it

Key == OnPress \cup OnRelease

\* Contacts settle while the handler waits, and nobody is faster than all
\* the handlers that may run before the one of his key.
ASSUME KeysAssumption ==
  /\ OnPress \cap OnRelease = {} /\ IsFiniteSet(Key) /\ "none" \notin Key
  /\ {Settle, MinWait, MaxWait, Hold} \subseteq Nat
  /\ Settle < MinWait /\ MinWait <= MaxWait
  /\ Hold > Settle + Cardinality(Key) * MaxWait

VARIABLES
  finger,    \* is the finger on the key?
  since,     \* time since it last moved, up to Hold
  pressed,   \* the level of the contact
  pending,   \* the pending bit of the key's EXTI line
  serving,   \* the key whose handler runs, or "none"
  waitLeft,  \* what is left of its wait, at least, and
  waitMax,   \* at most
  acted      \* how often the handlers acted since the last press

keysVars == <<finger, since, pressed, pending, serving, waitLeft, waitMax, acted>>

KeysInit ==
  /\ finger = [k \in Key |-> FALSE] /\ pressed = [k \in Key |-> FALSE]
  /\ since = [k \in Key |-> Hold]
  /\ pending = [k \in Key |-> FALSE]
  /\ serving = "none" /\ waitLeft = 0 /\ waitMax = 0
  /\ acted = [k \in Key |-> 1]

\* The finger comes or goes.
Move(k) ==
  /\ since[k] = Hold
  /\ finger' = [finger EXCEPT ![k] = ~@]
  /\ since' = [since EXCEPT ![k] = 0]
  /\ acted' = [acted EXCEPT ![k] = IF finger[k] THEN @ ELSE 0]
  /\ UNCHANGED <<pressed, pending, serving, waitLeft, waitMax>>

\* The contact follows, and bounces until it has settled: EXTI_Trigger_Rising
\* (KEY0 to 2) and EXTI_Trigger_Falling (WK_UP) are the edge of the release.
Contact(k) ==
  /\ IF pressed[k] = finger[k] THEN since[k] < Settle ELSE TRUE
  /\ pressed' = [pressed EXCEPT ![k] = ~@]
  /\ pending' = [pending EXCEPT ![k] = @ \/ pressed[k]]
  /\ UNCHANGED <<finger, since, serving, waitLeft, waitMax, acted>>

\* EXTI0, EXTI2, EXTI3 or EXTI4 enters its handler, into Delay_ms.
EnterKey(k) ==
  /\ serving = "none" /\ pending[k]
  /\ serving' = k /\ waitLeft' = MinWait /\ waitMax' = MaxWait
  /\ UNCHANGED <<finger, since, pressed, pending, acted>>

\* Mutant: the level is not tested.
LeaveKeyUntested(k) ==
  /\ serving = k /\ waitLeft = 0
  /\ serving' = "none" /\ waitMax' = 0
  /\ pending' = [pending EXCEPT ![k] = FALSE]
  /\ acted' = [acted EXCEPT ![k] = @ + 1]
  /\ UNCHANGED <<finger, since, pressed, waitLeft>>

\* The test after the wait, the action, and EXTI_ClearITPendingBit.
LeaveKey(k) ==
  /\ serving = k /\ waitLeft = 0
  /\ serving' = "none" /\ waitMax' = 0
  /\ pending' = [pending EXCEPT ![k] = FALSE]
  /\ acted' = [acted EXCEPT ![k] = IF pressed[k] <=> k \in OnPress THEN @ + 1 ELSE @]
  /\ UNCHANGED <<finger, since, pressed, waitLeft>>

\* Time passes: contacts settle, handlers wait no longer than they may, and a
\* pending handler that can run does.
KeyTime ==
  /\ \A k \in Key : since[k] >= Settle => pressed[k] = finger[k]
  /\ IF serving = "none" THEN \A k \in Key : ~pending[k] ELSE waitMax > 0
  /\ since' = [k \in Key |-> IF since[k] < Hold THEN since[k] + 1 ELSE Hold]
  /\ waitLeft' = IF waitLeft > 0 THEN waitLeft - 1 ELSE 0
  /\ waitMax' = IF waitMax > 0 THEN waitMax - 1 ELSE 0
  /\ UNCHANGED <<finger, pressed, pending, serving, acted>>

KeysNext == \/ KeyTime
            \/ \E k \in Key : Move(k) \/ Contact(k) \/ EnterKey(k) \/ LeaveKey(k)
KeysSpec == KeysInit /\ [][KeysNext]_keysVars

-----------------------------------------------------------------------------
\* The types of the variables; a handler runs to its end with its pending bit
\* set, so an edge of its key meanwhile starts nothing of its own.
KeysTypeOK ==
  /\ finger \in [Key -> BOOLEAN] /\ pressed \in [Key -> BOOLEAN]
  /\ since \in [Key -> 0 .. Hold] /\ pending \in [Key -> BOOLEAN]
  /\ serving \in Key \cup {"none"}
  /\ waitLeft \in 0 .. MinWait /\ waitMax \in 0 .. MaxWait
  /\ acted \in [Key -> Nat]
  /\ serving \in Key => pending[serving]

\* A key is at rest: the finger is off, and nothing is left to be handled.
AtRest(k) == ~finger[k] /\ ~pressed[k] /\ since[k] = Hold
             /\ ~pending[k] /\ serving # k

\* KEY1 and KEY2 act exactly once for every press, although the edges of a
\* bounce during the handler are discarded and those before it interrupt.
ReleasedActsOnce == \A k \in OnRelease : AtRest(k) => acted[k] = 1

\* KEY0 and WK_UP act at most once for a press.
PressedActsOnce == \A k \in OnPress : acted[k] <= 1

\* Bouncing contacts and handlers that block each other: no press acts twice,
\* and one of KEY1 or KEY2 not less than once.
KeysSound == KeysTypeOK /\ ReleasedActsOnce /\ PressedActsOnce

-----------------------------------------------------------------------------
\* KEY.c, "WK_UP: set up the client", "KEY0: update the screen": a press acts.
\* It does not hold: only a contact that bounces is noticed.
PressActs == \A k \in OnPress : AtRest(k) => acted[k] = 1
=============================================================================
