------------------------------- MODULE Dataset -------------------------------
(***************************************************************************)
(* python/predictor/dataset.py: where the training samples come from and   *)
(* how they are divided.  A sample is its prompt: the features and the     *)
(* output length are functions of the row the prompt comes from.           *)
(***************************************************************************)
EXTENDS Places, Functions

CONSTANTS
  Rows,           \* the prompts of the dataset on the hub, in order
  Attempts,       \* the prompts generate_synthetic's seeded generator makes
  NoPrompt,       \* the empty prompt
  Permutation(_)  \* rng.permutation(n) for the configured seed

(* numpy's contract, for as many samples as there can be. *)
ASSUME PermutationAssumption ==
  \A n \in 0 .. Len(Rows) + Len(Attempts) : Permutation(n) \in Bijection(1 .. n, 1 .. n)
ASSUME DataAssumption == Rows \in Seq(Range(Rows)) /\ Attempts \in Seq(Range(Attempts))

(* The first n, or all if there are fewer. *)
First(n, s) == SubSeq(s, 1, IF n < Len(s) THEN n ELSE Len(s))

(* _from_records keeps the records that have a prompt. *)
from_records(rows) == Keep(rows, {i \in DOMAIN rows : rows[i] # NoPrompt})

(* The records from_huggingface reads off the first max_samples rows. *)
Records(max_samples) == from_records(First(max_samples, Rows))

(* What is in a cache file of that many lines. *)
from_jsonl(lines, records) == from_records(First(lines, records))

(* Fault: nothing is dropped. *)
KeepDuplicates(samples) == samples

(* The first sample of each prompt, in order. *)
deduplicate(samples) ==
  Keep(samples, {i \in DOMAIN samples : \A j \in 1 .. i - 1 : samples[j] # samples[i]})

(* At most 3 n attempts, n new prompts if they come. *)
generate_synthetic(n) == First(n, deduplicate(First(3 * n, Attempts)))

(***************************************************************************)
(* split(): ratios in tenths.  The parts are slices of one permutation;    *)
(* feature_mean and feature_std are functions of the training part.        *)
(***************************************************************************)
split(samples, train_ratio, val_ratio) ==
  LET n == Len(samples)
      indices == Permutation(n)
      n_train == (n * train_ratio) \div 10
      n_val == (n * val_ratio) \div 10
      Slice(a, b) == [i \in 1 .. b - a + 1 |-> samples[indices[a + i - 1]]]
  IN [train |-> Slice(1, n_train),
      val |-> Slice(n_train + 1, n_train + n_val),
      test |-> Slice(n_train + n_val + 1, n)]

=============================================================================
