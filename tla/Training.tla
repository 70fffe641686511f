------------------------------- MODULE Training -------------------------------
(***************************************************************************)
(* The jobs that make the output-length predictor and the files they leave *)
(* behind: python/training/{train,evaluate,prepare_dataset}.py over        *)
(* python/predictor/{dataset,trainer,export}.py, and the loading of what   *)
(* they exported by python/predictor/{predictor,inference}.py and the      *)
(* gateway.  One job runs at a time; it may be killed, or a call in it may *)
(* raise, at any point.  Servers load while jobs run.                      *)
(*                                                                         *)
(* Files outlive jobs.  Writing one takes two steps, because open() and    *)
(* torch.save() truncate it first.  Weights are known by the run and epoch *)
(* that made them, their validation loss, the width of the layers and the  *)
(* training samples whose mean and deviation normalised their input.       *)
(***************************************************************************)
EXTENDS Dataset

CONSTANTS
  Configs,                   \* configuration files: preset, max_samples, hidden_dim
  TrainRatio, ValRatio,      \* dataset.train_ratio and val_ratio, in tenths
  Epochs, Patience,          \* training.epochs and patience
  DefaultWidth,              \* ModelConfig.hidden_dim
  Losses, Inf, NaN,          \* validation losses: finite ones, inf and nan
  MaxRuns                    \* bound: jobs started

ASSUME LossAssumption ==
  /\ Inf \in Nat \ {0} /\ Losses \subseteq 0 .. Inf - 1
  /\ NaN \notin Nat
ASSUME SizeAssumption ==
  /\ \A c \in Configs : c.max_samples \in Nat
  /\ TrainRatio \in Nat /\ ValRatio \in Nat /\ TrainRatio + ValRatio <= 10
ASSUME EpochAssumption == Epochs \in Nat \ {0} /\ Patience \in Nat \ {0}

VARIABLES
  job,      \* the script, its configuration, and where it is
  samples,  \* the samples it works on
  history, best_val, best_epoch, patience_counter,  \* locals of Trainer.train
  run,      \* history: jobs started
  files,    \* best.pt and resume_base.pt, the exported files, the reports
  cache,    \* the dataset cache, one file per max_samples
  export,   \* history: how the last export went
  loader,   \* a server that has read one of the two files it needs
  served    \* the predictor a server has loaded

tvars == <<history, best_val, best_epoch, patience_counter>>
vars == <<job, samples, tvars, run, files, cache, export, loader, served>>

Artifacts == {"pt", "ts", "onnx", "meta"}
Names == Artifacts \cup {"best", "resume_base", "evaluation", "dataset", "splits_meta"}

(* Contents of a file; of metadata.json only `stats' matters. *)
Content(state, r, epoch, loss, width, stats) ==
  [state |-> state, run |-> r, epoch |-> epoch, loss |-> loss, width |-> width, stats |-> stats]
Absent == Content("absent", 0, 0, 0, 0, {})
Torn == Content("torn", 0, 0, 0, 0, {})

Idle == [kind |-> "none", at |-> "idle", writing |-> FALSE,
         preset |-> "none", max_samples |-> 0, width |-> 0]
Unloaded == [backend |-> "none", file |-> Absent, quiet |-> FALSE]
Unserved == [weights |-> Absent, stats |-> {}, quiet |-> FALSE]

Init ==
  /\ job = Idle /\ samples = <<>> /\ run = 0
  /\ history = <<>> /\ best_val = Inf /\ best_epoch = 0 /\ patience_counter = 0
  /\ files = [n \in Names |-> Absent]
  /\ cache = [c \in {c.max_samples : c \in Configs} |-> [state |-> "absent", lines |-> 0]]
  /\ export = "none" /\ loader = Unloaded /\ served = Unserved

At(at, writing) ==
  [kind |-> job.kind, at |-> at, writing |-> writing,
   preset |-> job.preset, max_samples |-> job.max_samples, width |-> job.width]
Goto(at) == job' = IF at = "idle" THEN Idle ELSE At(at, FALSE)
Raise == Goto("idle")

(* train.py and prepare_dataset.py pass the configured ratios, evaluate.py *)
(* does not.                                                               *)
splits ==
  IF job.kind = "evaluate" THEN split(samples, 8, 1) ELSE split(samples, TrainRatio, ValRatio)
Stats == Range(splits.train)

(* torch.load() into a model of that width. *)
Loadable(file, width) == file.state = "whole" /\ file.width = width

(* Trainer.train() up to its loop.  The locals belong to one job. *)
begin_training ==
  history' = <<>> /\ best_val' = Inf /\ best_epoch' = 0 /\ patience_counter' = 0

start(kind, c) ==
  /\ job = Idle /\ run < MaxRuns
  /\ run' = run + 1
  /\ job' = [kind |-> kind, at |-> "load", writing |-> FALSE,
             preset |-> c.preset, max_samples |-> c.max_samples, width |-> c.width]
  /\ samples' = <<>>
  /\ begin_training
  /\ UNCHANGED <<files, cache, export, loader, served>>

(* Fault: resume() does not keep the checkpoint it was given. *)
LoadedForgetful ==
  CASE job.kind \in {"train", "resume"} -> "train"
    [] job.kind = "prepare" -> "dataset"
    [] job.kind = "evaluate" -> "evaluation"

(* The script's next stop once it has its samples. *)
Loaded ==
  CASE job.kind = "train" -> "train"
    [] job.kind = "resume" -> "resume_base"
    [] job.kind = "prepare" -> "dataset"
    [] job.kind = "evaluate" -> "evaluation"

Take(s) ==
  /\ samples' = IF job.kind = "evaluate" THEN s ELSE deduplicate(s)
  /\ Goto(Loaded)

(***************************************************************************)
(* load_preset().  The cache is trusted as soon as it exists; a torn line  *)
(* in it makes json.loads() raise.                                         *)
(***************************************************************************)
load_preset ==
  LET file == cache[job.max_samples] IN
  /\ job.at = "load"
  /\ \/ job.preset = "unknown" /\ Raise /\ UNCHANGED <<samples, cache>>
     \/ job.preset = "synthetic" /\ Take(generate_synthetic(job.max_samples)) /\ UNCHANGED cache
     \/ /\ job.preset = "hub" /\ file.state = "absent"
        /\ cache' = [cache EXCEPT ![job.max_samples] = [state |-> "lines", lines |-> 0]]
        /\ Goto("cache") /\ UNCHANGED samples
     \/ job.preset = "hub" /\ file.state = "torn" /\ Raise /\ UNCHANGED <<samples, cache>>
     \/ /\ job.preset = "hub" /\ file.state = "lines"
        /\ Take(from_jsonl(file.lines, Records(job.max_samples))) /\ UNCHANGED cache
  /\ UNCHANGED <<tvars, run, files, export, loader, served>>

(* _write_jsonl() reaches its end. *)
write_jsonl ==
  LET records == Records(job.max_samples) IN
  /\ job.at = "cache"
  /\ cache' = [cache EXCEPT ![job.max_samples].lines = Len(records)]
  /\ Take(records)
  /\ UNCHANGED <<tvars, run, files, export, loader, served>>

(* Trainer.train() without validation samples: _make_loaders() raises. *)
make_loaders ==
  /\ job.at = "train" /\ splits.val = <<>>
  /\ Raise
  /\ UNCHANGED <<samples, tvars, run, files, cache, export, loader, served>>

(* Fault: an epoch as good as the best one counts. *)
NotWorse(loss, best) == loss # NaN /\ loss <= best

(* Fault: so does a worse one. *)
Differs(loss, best) == loss # NaN /\ loss # best

(* val_loss < best_val; nan is less than nothing. *)
Improves(loss, best) == loss # NaN /\ loss < best

(* Fault: the counter has to pass the patience. *)
PastPatience(counter) == counter > Patience

(* patience_counter >= cfg.patience *)
OutOfPatience(counter) == counter >= Patience

(* _eval_epoch() *)
EvalLosses == Losses \cup {Inf, NaN}

(* One epoch, up to saving best.pt. *)
epoch(loss) ==
  /\ job.at = "train" /\ splits.val # <<>>
  /\ history' = Append(history, loss)
  /\ IF Improves(loss, best_val)
     THEN /\ best_val' = loss /\ best_epoch' = Len(history')
          /\ patience_counter' = 0
          /\ Goto("best")
     ELSE /\ patience_counter' = patience_counter + 1
          /\ Goto(IF OutOfPatience(patience_counter') \/ Len(history') = Epochs
                  THEN "result" ELSE "train")
          /\ UNCHANGED <<best_val, best_epoch>>
  /\ UNCHANGED <<samples, run, files, cache, export, loader, served>>

(* pearsonr() wants two samples. *)
Tested == Len(splits.test) >= 2

(* Fault: the model evaluated has the configured width. *)
ConfiguredWidth == job.width

(* OutputLengthMLP() *)
EvaluatedWidth == DefaultWidth

(***************************************************************************)
(* train() has returned.  train.py loads best.pt, whoever wrote it, into a *)
(* model of the default width and evaluates it.                            *)
(***************************************************************************)
evaluate_test ==
  /\ job.at = "result"
  /\ Goto(IF job.kind = "train" /\ Loadable(files["best"], EvaluatedWidth) /\ Tested
          THEN "pt" ELSE "idle")
  /\ UNCHANGED <<samples, tvars, run, files, cache, export, loader, served>>

(* What export_model(), resume() and evaluate.py load before they write. *)
Ready ==
  CASE job.at = "pt" -> Loadable(files["best"], job.width)
    [] job.at = "resume_base" -> Loadable(files["best"], DefaultWidth)
    [] job.at = "evaluation" -> Loadable(files["pt"], DefaultWidth) /\ Tested
    [] OTHER -> TRUE

(* A file is opened, and loses what it held ... *)
open_file ==
  /\ job.at \in Names /\ ~job.writing
  /\ IF Ready
     THEN /\ job' = At(job.at, TRUE)
          /\ files' = [files EXCEPT ![job.at] = Torn]
          /\ export' = IF job.at = "pt" THEN "partial" ELSE export
          /\ loader' = IF job.at # "pt" THEN loader
                       ELSE [backend |-> loader.backend, file |-> loader.file, quiet |-> FALSE]
     ELSE Raise /\ UNCHANGED <<files, export, loader>>
  /\ UNCHANGED <<samples, tvars, run, cache, served>>

Trained == Content("whole", run, best_epoch, best_val, job.width, Stats)
Report == Content("whole", 0, 0, 0, 0, {})

(* Fault: mean and deviation of all samples. *)
Overall == Range(samples)

(* split.feature_mean and split.feature_std, passed on to export_model(). *)
Normalisation == Stats

Written ==
  CASE job.at = "best" -> Trained
    [] job.at \in {"pt", "ts", "onnx", "resume_base"} -> files["best"]
    [] job.at = "meta" -> Content("whole", 0, 0, 0, 0, Normalisation)
    [] OTHER -> Report

(* The files in the order in which the scripts write them; resume() goes   *)
(* on to train(), which begins with a new model.                           *)
export_model == [pt |-> "ts", ts |-> "onnx", onnx |-> "meta", meta |-> "idle"]
resume == [resume_base |-> "train"]
prepare_dataset == [dataset |-> "splits_meta", splits_meta |-> "idle"]
evaluate == [evaluation |-> "idle"]

AfterWriting ==
  CASE job.at = "best" -> IF Len(history) = Epochs THEN "result" ELSE "train"
    [] job.at \in DOMAIN export_model -> export_model[job.at]
    [] job.at \in DOMAIN resume -> resume[job.at]
    [] job.at \in DOMAIN prepare_dataset -> prepare_dataset[job.at]
    [] OTHER -> evaluate[job.at]

(* ... and is complete. *)
close_file ==
  /\ job.writing
  /\ files' = [files EXCEPT ![job.at] = Written]
  /\ Goto(AfterWriting)
  /\ export' = IF job.at # "meta" THEN export
               ELSE IF best_epoch > 0 THEN "clean" ELSE "stale"
  /\ UNCHANGED <<samples, tvars, run, cache, loader, served>>

(* The process dies, or something in it raises.  Of a cache being written  *)
(* any prefix may have reached the disk.                                   *)
abort ==
  /\ job.at # "idle"
  /\ job' = Idle
  /\ IF job.at = "cache"
     THEN \/ \E k \in 0 .. Len(Records(job.max_samples)) :
               cache' = [cache EXCEPT ![job.max_samples].lines = k]
          \/ cache' = [cache EXCEPT ![job.max_samples].state = "torn"]
     ELSE UNCHANGED cache
  /\ UNCHANGED <<samples, tvars, run, files, export, loader, served>>

(* Where each backend keeps its weights; pytorch reads the metadata first. *)
Weights(backend) ==
  CASE backend = "pytorch" -> "pt" [] backend = "torchscript" -> "ts" [] OTHER -> "onnx"
ReadFirst(backend) == IF backend = "pytorch" THEN "meta" ELSE Weights(backend)

load_first(backend) ==
  /\ loader = Unloaded /\ files[Weights(backend)].state # "absent"
  /\ files[ReadFirst(backend)].state # "torn"
  /\ loader' = [backend |-> backend, file |-> files[ReadFirst(backend)],
                quiet |-> export = "clean"]
  /\ UNCHANGED <<job, samples, tvars, run, files, cache, export, served>>

(* Fault: the metadata is not looked at. *)
Unnormalised(meta) == {}

(* mean and std of the metadata; without it nothing is normalised. *)
Normaliser(meta) == meta.stats

(* The other file. *)
load_second ==
  LET pytorch == loader.backend = "pytorch"
      weights == IF pytorch THEN files["pt"] ELSE loader.file
      meta == IF pytorch THEN loader.file ELSE files["meta"]
  IN
  /\ loader # Unloaded /\ loader' = Unloaded
  /\ served' = IF meta.state # "torn" /\ weights.state = "whole"
                  /\ (pytorch => Loadable(weights, DefaultWidth))
               THEN [weights |-> weights, stats |-> Normaliser(meta), quiet |-> loader.quiet]
               ELSE served
  /\ UNCHANGED <<job, samples, tvars, run, files, cache, export>>

Next ==
  \/ \E kind \in {"train", "resume", "prepare", "evaluate"}, c \in Configs : start(kind, c)
  \/ load_preset \/ write_jsonl \/ make_loaders
  \/ \E loss \in EvalLosses : epoch(loss)
  \/ evaluate_test \/ open_file \/ close_file \/ abort
  \/ \E backend \in {"pytorch", "torchscript", "onnx"} : load_first(backend)
  \/ load_second

Spec == Init /\ [][Next]_vars

-----------------------------------------------------------------------------
(* Types. *)
TypeOK ==
  /\ job.at \in Names \cup {"idle", "load", "cache", "train", "result"}
  /\ job.writing => job.at \in Names
  /\ Len(history) <= Epochs /\ patience_counter \in 0 .. Patience
  /\ best_val \in Losses \cup {Inf} /\ best_epoch \in 0 .. Len(history)
  /\ \A n \in Names : files[n].state \in {"absent", "torn", "whole"}
  /\ export \in {"none", "partial", "clean", "stale"}

Training == job.at \in {"train", "result"} \cup Artifacts

(* When train.py saves no epoch at the moment, best.pt holds the weights   *)
(* of this run's first epoch with the smallest validation loss, and        *)
(* best_val is that loss; if no epoch had a loss below infinity (inf or    *)
(* nan all along), best.pt is not of this run.                             *)
CheckpointIsBest ==
  Training /\ job.kind = "train" =>
    IF best_epoch = 0
    THEN files["best"].run < run /\ Range(history) \subseteq {Inf, NaN}
    ELSE /\ files["best"] = Trained
         /\ history[best_epoch] = best_val
         /\ \A e \in 1 .. Len(history) :
              history[e] = NaN \/ history[e] > best_val
                \/ (history[e] = best_val /\ e >= best_epoch)

(* While a resumed run trains, and overwrites best.pt, the weights it was  *)
(* to resume from are still on disk, in resume_base.pt, whole and of an    *)
(* earlier run: resume() loses no model.                                   *)
ResumeBaseKept ==
  Training /\ job.kind = "resume" =>
    Loadable(files["resume_base"], DefaultWidth) /\ files["resume_base"].run < run

(* Training ends after the last epoch, or `patience' epochs after the best *)
(* one, and not before.                                                    *)
EarlyStopping ==
  /\ Training => Len(history) = best_epoch + patience_counter
  /\ job.at = "train" => Len(history) < Epochs /\ patience_counter < Patience
  /\ job.at \in {"result"} \cup Artifacts =>
       Len(history) = Epochs \/ patience_counter = Patience

(* No weights of an epoch whose validation loss was infinite or nan are    *)
(* kept, exported or served.                                               *)
FiniteWeights ==
  \A f \in {files[n] : n \in Names} \cup {served.weights} :
    f.state = "whole" => f.loss # NaN /\ f.loss < Inf

(* After an export that was not cut short, of a run that had a best epoch, *)
(* the three forms of the model are the same weights, and metadata.json    *)
(* has the normalisation they were trained with.                           *)
ArtifactsAgree ==
  export = "clean" =>
    /\ files["pt"].state = "whole" /\ files["meta"].state = "whole"
    /\ files["ts"] = files["pt"] /\ files["onnx"] = files["pt"]
    /\ files["meta"].stats = files["pt"].stats

(* A server that loads after such an export, and during no other, divides  *)
(* and shifts its features the way its weights expect.                     *)
ServedAgrees == served.quiet => served.stats = served.weights.stats

(* What is exported has the default width, the only one from_checkpoint()  *)
(* loads: other widths fail in train.py before the export.                 *)
DeployedWidth ==
  \A a \in {"pt", "ts", "onnx"} : files[a].state = "whole" => files[a].width = DefaultWidth

(* No prompt of the training part is in the validation or the test part,   *)
(* and every sample is in one of them.                                     *)
HeldOut ==
  Training =>
    /\ Stats \cap Range(splits.val \o splits.test) = {}
    /\ Range(splits.train \o splits.val \o splits.test) = Range(samples)

=============================================================================
