------------------------------- MODULE Delay -------------------------------
(***************************************************************************)
(* Delay_us and Delay_ms (SysTick.c): a delay programs the one SysTick     *)
(* counter and polls it.  The main loop (level 0), the key handlers of     *)
(* priority 2 (level 1) and the handler of TIM2, priority 1 (level 2) all  *)
(* call them, so a delay can be interrupted, between any two accesses to   *)
(* the counter, by a handler that runs a delay of its own.                 *)
(*                                                                         *)
(* A request is the product us * usBaseCnt or ms * msBaseCnt, in counts.   *)
(***************************************************************************)
EXTENDS Naturals

CONSTANTS
  Wrap,      \* LOAD has 24 bits: 2^24
  Requests   \* the counts callers ask for

\* No caller asks for a multiple of 2^24, which would never end.
ASSUME DelayAssumption ==
  Wrap \in Nat \ {0} /\ Requests \subseteq Nat
  /\ \A r \in Requests : r % Wrap # 0

VARIABLES
  at,        \* where the delay of each level stands, "idle" without one
  asked,     \* what it asks for
  passed,    \* counts since it cleared the counter, up to what it asks for
  disturbed, \* has a handler's delay interrupted it? (for the properties)
  LOAD, VAL, enabled, COUNTFLAG  \* the registers of SysTick

delayVars == <<at, asked, passed, disturbed, LOAD, VAL, enabled, COUNTFLAG>>

Level == 0 .. 2
DelayAt == {"idle", "load", "val", "enable", "poll", "disable", "clear"}
MaxRequest == CHOOSE r \in Requests : \A q \in Requests : q <= r

\* The code of the highest active level runs; a handler preempts lower ones.
Top(l)  == at[l] # "idle" /\ \A k \in Level : k > l => at[k] = "idle"
Free(l) == \A k \in Level : k >= l => at[k] = "idle"
MoveOn(l, next) == at' = [at EXCEPT ![l] = next]

DelayInit ==
  /\ at = [l \in Level |-> "idle"]
  /\ asked = [l \in Level |-> 0] /\ passed = [l \in Level |-> 0]
  /\ disturbed = [l \in Level |-> FALSE]
  /\ LOAD = 0 /\ VAL = 0 /\ enabled = FALSE /\ COUNTFLAG = FALSE

\* A call, at any instant at which the level can run.
Call(l, n) ==
  /\ Free(l) /\ MoveOn(l, "load")
  /\ asked' = [asked EXCEPT ![l] = n]
  /\ passed' = [passed EXCEPT ![l] = 0]
  /\ disturbed' = [k \in Level |-> IF k = l THEN FALSE
                                   ELSE disturbed[k] \/ at[k] # "idle"]
  /\ UNCHANGED <<LOAD, VAL, enabled, COUNTFLAG>>

SetLoad(l) ==
  /\ Top(l) /\ at[l] = "load" /\ MoveOn(l, "val")
  /\ LOAD' = asked[l] % Wrap
  /\ UNCHANGED <<asked, passed, disturbed, VAL, enabled, COUNTFLAG>>

\* Mutant: the counter is not cleared, and goes on from where it stood.
KeepVal(l) ==
  /\ Top(l) /\ at[l] = "val" /\ MoveOn(l, "enable")
  /\ UNCHANGED <<asked, passed, disturbed, LOAD, VAL, enabled, COUNTFLAG>>

\* A write to VAL clears the counter and COUNTFLAG.
ClearVal(l) ==
  /\ Top(l) /\ at[l] = "val" /\ MoveOn(l, "enable")
  /\ VAL' = 0 /\ COUNTFLAG' = FALSE
  /\ UNCHANGED <<asked, passed, disturbed, LOAD, enabled>>

Enable(l) ==
  /\ Top(l) /\ at[l] = "enable" /\ MoveOn(l, "poll")
  /\ enabled' = TRUE /\ COUNTFLAG' = FALSE \* |= reads CTRL, which clears it
  /\ UNCHANGED <<asked, passed, disturbed, LOAD, VAL>>

\* Mutant: the loop looks at COUNTFLAG alone.
PollFlagOnly(l) ==
  /\ Top(l) /\ at[l] = "poll" /\ COUNTFLAG' = FALSE
  /\ MoveOn(l, IF ~COUNTFLAG THEN "poll" ELSE "disable")
  /\ UNCHANGED <<asked, passed, disturbed, LOAD, VAL, enabled>>

\* One reading of CTRL, which clears COUNTFLAG.
Poll(l) ==
  /\ Top(l) /\ at[l] = "poll" /\ COUNTFLAG' = FALSE
  /\ MoveOn(l, IF enabled /\ ~COUNTFLAG THEN "poll" ELSE "disable")
  /\ UNCHANGED <<asked, passed, disturbed, LOAD, VAL, enabled>>

Disable(l) ==
  /\ Top(l) /\ at[l] = "disable" /\ MoveOn(l, "clear")
  /\ enabled' = FALSE /\ COUNTFLAG' = FALSE
  /\ UNCHANGED <<asked, passed, disturbed, LOAD, VAL>>

Return(l) ==
  /\ Top(l) /\ at[l] = "clear" /\ MoveOn(l, "idle")
  /\ VAL' = 0 /\ COUNTFLAG' = FALSE
  /\ UNCHANGED <<asked, passed, disturbed, LOAD, enabled>>

\* The clock of the counter: from 0 it reloads, on reaching 0 it flags.
Count ==
  /\ enabled
  /\ IF VAL = 0 THEN VAL' = LOAD /\ UNCHANGED COUNTFLAG
     ELSE VAL' = VAL - 1 /\ COUNTFLAG' = (COUNTFLAG \/ VAL = 1)
  /\ passed' = [l \in Level |->
                 IF at[l] \in {"enable", "poll"} /\ passed[l] < asked[l]
                 THEN passed[l] + 1 ELSE passed[l]]
  /\ UNCHANGED <<at, asked, disturbed, LOAD, enabled>>

DelayStep(l) == \/ SetLoad(l) \/ ClearVal(l) \/ Enable(l) \/ Poll(l)
                \/ Disable(l) \/ Return(l)
DelayNext == \/ Count
             \/ \E l \in Level : DelayStep(l) \/ \E n \in Requests : Call(l, n)

DelaySpec == DelayInit /\ [][DelayNext]_delayVars

-----------------------------------------------------------------------------
\* The types of the variables: the counter never exceeds its width.
DelayTypeOK ==
  /\ at \in [Level -> DelayAt]
  /\ asked \in [Level -> Requests \cup {0}]
  /\ passed \in [Level -> Nat]
  /\ disturbed \in [Level -> BOOLEAN]
  /\ LOAD \in 0 .. Wrap - 1 /\ VAL \in 0 .. Wrap - 1
  /\ enabled \in BOOLEAN /\ COUNTFLAG \in BOOLEAN

\* A delay that no handler's delay interrupted lasts as long as it asked for,
\* if that fits in the register; whatever delay was cut off before it, at
\* whatever access.  TIM2's is never interrupted: DHT11's start pulse is whole.
UndisturbedLasts ==
  \A l \in Level : at[l] = "disable" /\ ~disturbed[l]
                     => passed[l] >= asked[l] % Wrap

\* The last delay to return leaves the counter stopped, although an
\* interrupted one may re-enable it after the handler stopped it.
IdleStops == (\A l \in Level : at[l] = "idle") => ~enabled

\* Every delay returns, also one whose counter a handler has stopped.
DelayReturns == \A l \in Level : at[l] # "idle" ~> at[l] = "idle"

-----------------------------------------------------------------------------
(* The invariant behind UndisturbedLasts (DelayProofs).                    *)

\* How much an undisturbed delay, past its load, still has to wait.
DelayProgress ==
  \A l \in Level : ~disturbed[l] =>
    /\ at[l] \in {"val", "enable", "poll"} => LOAD = asked[l] % Wrap
    /\ at[l] \in {"enable", "poll"} =>
         /\ COUNTFLAG => passed[l] >= LOAD
         /\ ~COUNTFLAG => \/ VAL = 0 /\ (passed[l] = 0 \/ passed[l] >= LOAD)
                          \/ VAL > 0 /\ passed[l] + VAL > LOAD
    /\ at[l] = "poll" => enabled
    /\ at[l] = "disable" => passed[l] >= asked[l] % Wrap

\* What a delay may rely on, however handlers' delays cut into it.
DelaySound == DelayTypeOK /\ UndisturbedLasts /\ IdleStops /\ DelayProgress

-----------------------------------------------------------------------------
\* DHT11_Init "waits 2 s": main's delay, undisturbed, lasts what it asked for.
\* It does not hold beyond the reload register's range.
InitWaits == at[0] = "disable" /\ ~disturbed[0] => passed[0] >= asked[0]
=============================================================================
