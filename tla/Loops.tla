-------------------------------- MODULE Loops --------------------------------
(***************************************************************************)
(* A loop that does the same in every round.                               *)
(***************************************************************************)
EXTENDS Integers

(* What t has become after each number of rounds.                          *)
After(step, t) == LET round[n \in Nat] == IF n = 0 THEN t ELSE step[round[n - 1]] IN round
=============================================================================
