---------------------------- MODULE TimeoutSpike ----------------------------
(***************************************************************************)
(* The timeout_spike signal of internal/server/server.go                   *)
(* (noteTimeoutForScaling, recordTimeoutSpike, timeoutSpikeActive): a      *)
(* count of timeouts in a window that opens with the first timeout after   *)
(* the one before it has ended.  Both functions run under one lock.        *)
(*                                                                         *)
(* A minute is Minute ticks.  The module keeps, beside the code's state,   *)
(* what a rolling minute would count, to compare the two.                  *)
(***************************************************************************)
EXTENDS Integers, FiniteSets

CONSTANTS
  Minute,     \* ticks in a minute
  Threshold,  \* minTimeoutsPerMinuteForSpike
  MaxBurst    \* bound on the timeouts noted in one tick

ASSUME SpikeAssumption ==
  /\ Minute \in Nat \ {0}
  /\ Threshold \in Nat \ {0}
  /\ MaxBurst \in Nat \ {0}

VARIABLES
  opened,     \* ticks since timeoutSpikeWin, Minute + 1 when more than a minute
  count,      \* timeoutSpikeCnt
  recent,     \* recent[a]: the timeouts noted a ticks ago
  quiet       \* ticks since the signal last was on, up to Minute + 1

spikeVars == <<opened, count, recent, quiet>>

Ages == 0 .. Minute

SpikeTypeOK ==
  /\ opened \in 0 .. Minute + 1
  /\ count \in 0 .. (Minute + 1) * MaxBurst
  /\ recent \in [Ages -> 0 .. MaxBurst]
  /\ quiet \in 0 .. Minute + 1

(* The zero time.Time opened the first window long ago. *)
SpikeInit ==
  /\ opened = Minute + 1
  /\ count = 0
  /\ recent = [a \in Ages |-> 0]
  /\ quiet = Minute + 1

Over(age) == age > Minute

(* timeoutSpikeActive, of a window's age and count. *)
Active(age, n) == ~Over(age) /\ n >= Threshold

(* recordTimeoutSpike. *)
NoteSlides ==
  /\ recent[0] < MaxBurst
  /\ opened' = 0
  /\ count' = IF opened > 0 THEN 1 ELSE count + 1
  /\ recent' = [recent EXCEPT ![0] = @ + 1]
  /\ quiet' = IF Active(opened', count') THEN 0 ELSE quiet
Note ==
  /\ recent[0] < MaxBurst
  /\ opened' = IF Over(opened) THEN 0 ELSE opened
  /\ count' = IF Over(opened) THEN 1 ELSE count + 1
  /\ recent' = [recent EXCEPT ![0] = @ + 1]
  /\ quiet' = IF Active(opened', count') THEN 0 ELSE quiet

SpikeTick ==
  /\ opened' = IF Over(opened) THEN opened ELSE opened + 1
  /\ recent' = [a \in Ages |-> IF a = 0 THEN 0 ELSE recent[a - 1]]
  /\ quiet' = CASE Active(opened', count) -> 0
                [] ~Active(opened', count) /\ quiet > Minute -> quiet
                [] OTHER -> quiet + 1
  /\ UNCHANGED count

SpikeNext == Note \/ SpikeTick

SpikeSpec == SpikeInit /\ [][SpikeNext]_spikeVars

-----------------------------------------------------------------------------

On == Active(opened, count)

(* The timeouts of the ages of A, as pairs <<age, number>>, when n[a] were  *)
(* noted a ticks ago; and how many the last minute holds.                   *)
Noted(n, A) == {p \in A \X (1 .. MaxBurst) : p[2] <= n[p[1]]}
Rolling == Cardinality(Noted(recent, Ages))

(* The signal against a rolling minute ("rolling" is what                   *)
(* docs/observability.md:11 calls it).  It never cries wolf: when it is on, *)
(* the minute holds at least Threshold timeouts.  And the window may split  *)
(* a burst in two, but not hide it for long: when the minute holds twice    *)
(* the threshold, less one, the signal is on or was within that minute.     *)
SignalMatchesMinute ==
  /\ On => Rolling >= Threshold
  /\ Rolling >= 2 * Threshold - 1 => quiet <= Minute
=============================================================================
