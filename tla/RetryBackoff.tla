---------------------------- MODULE RetryBackoff ----------------------------
(***************************************************************************)
(* internal/domain/delay: ExponentialBackoffMinutes. What is drawn, by     *)
(* hashing the account and the attempt or at random, is one of Spread + 1  *)
(* equidistant numbers; percentages are whole. Nothing in the repository   *)
(* calls it: a released row is retried by the next tick.                   *)
(***************************************************************************)
EXTENDS Integers, Loops

(* Bound: how finely the jitter is divided. *)
Spread == 4

BackoffDefaults == [throttle   |-> [base |->  5, max |->  360],
                    transient  |-> [base |->  5, max |->  240],
                    rate_limit |-> [base |-> 60, max |-> 1440]]

Preset(opts) == BackoffDefaults[IF opts.kind \in DOMAIN BackoffDefaults THEN opts.kind ELSE "transient"]

(* Zero stands for the preset. *)
BaseMinutes(opts) == IF opts.base > 0 THEN opts.base ELSE Preset(opts).base
MaxMinutes(opts) == IF opts.max > 0 THEN opts.max ELSE Preset(opts).max
JitterPct(opts) == IF opts.jitter # 0 THEN opts.jitter ELSE 20

(* Twice as long for each attempt before it. *)
Doubled(attempt, opts) ==
  After([minutes \in Nat |-> 2 * minutes], BaseMinutes(opts))[IF attempt < 0 THEN 0 ELSE attempt]

(* A plausible bug: nothing bounds the doubling. *)
ExpMinutesUncapped(attempt, opts) == Doubled(attempt, opts)

ExpMinutes(attempt, opts) ==
  LET doubled == Doubled(attempt, opts)
  IN IF doubled > MaxMinutes(opts) THEN MaxMinutes(opts) ELSE doubled

(* The jitter comes after the cap: the delay may exceed the maximum by it. *)
BackoffMinutes(attempt, opts, draw) ==
  LET factor == 100 * Spread + (2 * draw - Spread) * JitterPct(opts)
      minutes == (ExpMinutes(attempt, opts) * factor) \div (100 * Spread)
  IN IF minutes < 1 THEN 1 ELSE minutes
=============================================================================
