----------------------------- MODULE MCTraining -----------------------------
(***************************************************************************)
(* A model-checking instance of Training.  Eleven rows without a repeated  *)
(* prompt are the fewest that train and test; fourteen have a row without  *)
(* a prompt and a repeated one.                                            *)
(***************************************************************************)
EXTENDS Training

MCRows == <<1, 2, 3, 4, 5, 6, 7, 8, 9, 10, 11, 0, 1, 12>>
MCAttempts == [i \in 1 .. 33 |-> 20 + ((i * i) % 29)]
MCPermutation(n) == [i \in 1 .. n |-> n + 1 - i]
MCConfigs == {[preset |-> "hub", max_samples |-> 11, width |-> 1],
              [preset |-> "hub", max_samples |-> 14, width |-> 1],
              [preset |-> "synthetic", max_samples |-> 11, width |-> 2],
              [preset |-> "unknown", max_samples |-> 11, width |-> 1]}

=============================================================================
