---------------------------- MODULE TrainingProofs ----------------------------
(***************************************************************************)
(* Proofs about Training, for any data set, any configurations, any number *)
(* of epochs and jobs, and jobs killed at any point.                       *)
(***************************************************************************)
EXTENDS Training, PlacesProofs

USE SMTT(30), ZenonT(30)

-----------------------------------------------------------------------------
(* Where a job can be. *)
Stops == Names \cup {"idle", "load", "cache", "train", "result"}

JobOK ==
  /\ job.at \in Stops /\ job.writing \in BOOLEAN
  /\ job.writing = TRUE => job.at \in Names
  /\ job.at # "idle" => job.kind \in {"train", "resume", "prepare", "evaluate"}
  /\ run \in Nat

LEMMA GotoAt ==
  ASSUME NEW at, Goto(at)
  PROVE  /\ job'.at = at /\ job'.writing = FALSE
         /\ at # "idle" => job'.kind = job.kind /\ job'.width = job.width
BY DEF Goto, Idle, At

LEMMA AfterWritingAt ==
  ASSUME job.at \in Names
  PROVE  /\ job.at = "best" => AfterWriting = IF Len(history) = Epochs THEN "result" ELSE "train"
         /\ job.at = "pt" => AfterWriting = "ts"
         /\ job.at = "ts" => AfterWriting = "onnx"
         /\ job.at = "onnx" => AfterWriting = "meta"
         /\ job.at = "meta" => AfterWriting = "idle"
         /\ job.at = "resume_base" => AfterWriting = "train"
         /\ job.at = "dataset" => AfterWriting = "splits_meta"
         /\ job.at \in {"splits_meta", "evaluation"} => AfterWriting = "idle"
BY DEF AfterWriting, export_model, resume, prepare_dataset, evaluate, Names, Artifacts

LEMMA LoadedAt ==
  ASSUME job.kind \in {"train", "resume", "prepare", "evaluate"}
  PROVE  Loaded \in {"train", "resume_base", "dataset", "evaluation"}
BY DEF Loaded

(* Where each action takes the job.  All but start, epoch and close_file   *)
(* leave locals and files as they are, and open_file tears one.            *)
LEMMA LoadGoes ==
  ASSUME JobOK, load_preset \/ write_jsonl
  PROVE  /\ UNCHANGED <<tvars, run, files, export, loader, served>>
         /\ job.at \in {"load", "cache"}
         /\ job'.writing = FALSE
         /\ job'.at \in {"idle", "cache", "train", "resume_base", "dataset", "evaluation"}
         /\ job'.at # "idle" => job'.kind = job.kind
<1>1. job.at \in {"load", "cache"} /\ UNCHANGED <<tvars, run, files, export, loader, served>>
  BY DEF load_preset, write_jsonl
<1>2. Loaded \in {"train", "resume_base", "dataset", "evaluation"}
  BY <1>1, LoadedAt DEF JobOK
<1>3. Goto("idle") \/ Goto("cache") \/ Goto(Loaded)
  BY DEF load_preset, write_jsonl, Take, Raise
<1> QED
  BY Zenon, <1>1, <1>2, <1>3, GotoAt

LEMMA OpenGoes ==
  ASSUME open_file
  PROVE  /\ UNCHANGED <<samples, tvars, run, served>>
         /\ job.at \in Names /\ job.writing # TRUE
         /\ \/ /\ job' = Idle /\ UNCHANGED <<files, export, loader>>
            \/ /\ Ready /\ job' = At(job.at, TRUE)
               /\ files' = [files EXCEPT ![job.at] = Torn]
               /\ export' = IF job.at = "pt" THEN "partial" ELSE export
               /\ loader' = IF job.at # "pt" THEN loader
                            ELSE [backend |-> loader.backend, file |-> loader.file, quiet |-> FALSE]
BY Zenon DEF open_file, Raise, Goto

LEMMA NextJobOK == JobOK /\ [Next]_vars => JobOK'
<1> SUFFICES ASSUME JobOK, [Next]_vars PROVE JobOK'
  OBVIOUS
<1>1. ASSUME NEW k \in {"train", "resume", "prepare", "evaluate"}, NEW c \in Configs, start(k, c)
      PROVE  JobOK'
  BY <1>1 DEF start, JobOK, Stops
<1>2. CASE load_preset \/ write_jsonl
  <2>1. (job'.at \in Stops /\ job'.kind = job.kind) \/ job'.at = "idle"
    BY Zenon, <1>2, LoadGoes DEF Stops, Names
  <2> QED
    BY Zenon, <1>2, <2>1, LoadGoes DEF JobOK, Stops, Names
<1>3. ASSUME NEW at \in Stops, Goto(at), UNCHANGED run, job.at # "idle" PROVE JobOK'
  BY Zenon, <1>3, GotoAt DEF JobOK
<1>4. CASE make_loaders \/ evaluate_test
  <2>1. \E at \in Stops : Goto(at)
    BY <1>4 DEF make_loaders, evaluate_test, Raise, Stops, Names, Artifacts
  <2> QED
    BY <1>3, <1>4, <2>1 DEF make_loaders, evaluate_test
<1>5. ASSUME NEW loss \in EvalLosses, epoch(loss) PROVE JobOK'
  <2>1. \E at \in Stops : Goto(at)
    BY <1>5 DEF epoch, Stops, Names
  <2> QED
    BY <1>3, <1>5, <2>1 DEF epoch
<1>6. CASE open_file
  <2>1. CASE job' = Idle
    BY <1>6, <2>1, OpenGoes DEF JobOK, Idle, Stops
  <2>2. CASE job' = At(job.at, TRUE)
    <3>1. job'.at = job.at /\ job'.writing = TRUE /\ job'.kind = job.kind
      BY <2>2 DEF At
    <3> QED
      BY Zenon, <1>6, <3>1, OpenGoes DEF JobOK
  <2> QED
    BY Zenon, <1>6, <2>1, <2>2, OpenGoes
<1>7. CASE close_file
  <2>1. AfterWriting \in Stops /\ job.at # "idle"
    BY <1>7, AfterWritingAt DEF close_file, JobOK, Stops, Names, Artifacts
  <2> QED
    BY <1>3, <1>7, <2>1 DEF close_file
<1>8. CASE abort
  BY <1>8 DEF abort, JobOK, Idle, Stops
<1>9. CASE load_second \/ \E b \in {"pytorch", "torchscript", "onnx"} : load_first(b)
  BY <1>9 DEF load_first, load_second, JobOK
<1>10. CASE UNCHANGED vars
  BY <1>10 DEF vars, JobOK
<1> QED
  BY <1>1, <1>2, <1>4, <1>5, <1>6, <1>7, <1>8, <1>9, <1>10 DEF Next

-----------------------------------------------------------------------------
(* The locals of train(): best_val is the first smallest loss so far. *)
LocalsOK ==
  /\ history \in Seq(EvalLosses) /\ best_val \in Losses \cup {Inf}
  /\ best_epoch \in Nat /\ patience_counter \in Nat
  /\ best_epoch <= Len(history) /\ Len(history) <= Epochs /\ patience_counter <= Patience
  /\ best_epoch = 0 =>
       best_val = Inf /\ \A e \in 1 .. Len(history) : history[e] \in {Inf, NaN}
  /\ best_epoch > 0 =>
       /\ best_val \in Losses /\ history[best_epoch] = best_val
       /\ \A e \in 1 .. Len(history) :
            history[e] = NaN \/ history[e] > best_val \/ (history[e] = best_val /\ e >= best_epoch)

(* The counters, while train() runs and its result is used. *)
CountersOK ==
  /\ job.at \in {"load", "cache", "resume_base"} =>
       history = <<>> /\ best_epoch = 0 /\ patience_counter = 0
  /\ Training \/ job.at = "best" => Len(history) = best_epoch + patience_counter
  /\ job.at = "train" => Len(history) < Epochs /\ patience_counter < Patience
  /\ job.at = "best" => best_epoch = Len(history) /\ patience_counter = 0 /\ best_epoch > 0
  /\ job.at \in {"result"} \cup Artifacts => Len(history) = Epochs \/ patience_counter = Patience

TrainInv == JobOK /\ LocalsOK /\ CountersOK

LEMMA EpochKeeps ==
  ASSUME TrainInv, NEW loss \in EvalLosses, epoch(loss)
  PROVE  LocalsOK' /\ CountersOK'
<1>0. /\ history \in Seq(EvalLosses) /\ Len(history) \in Nat /\ Epochs \in Nat /\ Patience \in Nat
      /\ best_epoch \in Nat /\ patience_counter \in Nat /\ best_epoch <= Len(history)
      /\ Len(history) < Epochs /\ patience_counter < Patience
      /\ Len(history) = best_epoch + patience_counter
      /\ job.at = "train"
  BY EpochAssumption DEF TrainInv, LocalsOK, CountersOK, epoch, Training
<1>1. /\ history' = Append(history, loss) /\ history' \in Seq(EvalLosses)
      /\ Len(history') = Len(history) + 1 /\ history'[Len(history) + 1] = loss
      /\ \A e \in 1 .. Len(history) : history'[e] = history[e]
  BY <1>0 DEF epoch
<1>2. /\ Inf \in Nat /\ NaN \notin Nat /\ Losses \subseteq Nat /\ \A l \in Losses : l < Inf
      /\ loss \in Losses \cup {Inf, NaN} /\ best_val \in Losses \cup {Inf}
      /\ \A e \in 1 .. Len(history) : history[e] \in Losses \cup {Inf, NaN}
  BY <1>0, LossAssumption DEF TrainInv, LocalsOK, EvalLosses
<1>3. CASE Improves(loss, best_val)
  <2>1. best_val' = loss /\ best_epoch' = Len(history) + 1 /\ patience_counter' = 0 /\ Goto("best")
    BY <1>1, <1>3 DEF epoch
  <2>2. loss \in Losses /\ loss < best_val
    BY <1>2, <1>3 DEF Improves
  <2>3. \A e \in 1 .. Len(history) : history[e] = NaN \/ history[e] > loss
    <3> SUFFICES ASSUME NEW e \in 1 .. Len(history), history[e] # NaN PROVE history[e] > loss
      OBVIOUS
    <3>1. CASE best_epoch = 0
      BY <1>2, <2>2, <3>1 DEF TrainInv, LocalsOK
    <3>2. CASE best_epoch > 0
      <4>1. history[e] > best_val \/ history[e] = best_val
        BY <3>2 DEF TrainInv, LocalsOK
      <4>2. best_val \in Nat /\ loss \in Nat
        BY <1>2, <2>2
      <4>3. history[e] \in Losses \cup {Inf}
        BY <1>2
      <4>4. history[e] \in Nat
        BY Zenon, <1>2, <4>3
      <4> QED
        BY <2>2, <4>1, <4>2, <4>4
    <3> QED
      BY <1>0, <3>1, <3>2
  <2>4. LocalsOK'
    BY <1>0, <1>1, <1>2, <2>1, <2>2, <2>3 DEF LocalsOK
  <2>5. job'.at = "best"
    BY Zenon, <2>1, GotoAt
  <2> QED
    BY <1>0, <1>1, <2>1, <2>4, <2>5 DEF CountersOK, Training, Artifacts
<1>4. CASE ~Improves(loss, best_val)
  <2>1. /\ UNCHANGED <<best_val, best_epoch>> /\ patience_counter' = patience_counter + 1
        /\ Goto(IF patience_counter' >= Patience \/ Len(history') = Epochs THEN "result" ELSE "train")
    BY <1>4 DEF epoch, OutOfPatience
  <2>2. loss = NaN \/ loss >= best_val
    BY <1>2, <1>4 DEF Improves
  <2>3. LocalsOK'
    <3>1. CASE best_epoch = 0
      BY <1>0, <1>1, <1>2, <2>1, <2>2, <3>1 DEF TrainInv, LocalsOK
    <3>2. CASE best_epoch > 0
      BY <1>0, <1>1, <1>2, <2>1, <2>2, <3>2 DEF TrainInv, LocalsOK
    <3> QED
      BY <1>0, <3>1, <3>2
  <2>4. job'.at = IF patience_counter' >= Patience \/ Len(history') = Epochs THEN "result" ELSE "train"
    BY ZenonT(30), <2>1, GotoAt
  <2> QED
    BY <1>0, <1>1, <2>1, <2>3, <2>4 DEF CountersOK, Training, Artifacts
<1> QED
  BY <1>3, <1>4

LEMMA NextTrainInv == TrainInv /\ [Next]_vars => TrainInv'
<1> SUFFICES ASSUME TrainInv, [Next]_vars PROVE LocalsOK' /\ CountersOK'
  BY NextJobOK DEF TrainInv
<1> USE DEF TrainInv
<1>1. CASE UNCHANGED tvars
  <2>1. LocalsOK'
    BY <1>1 DEF LocalsOK, tvars
  <2> USE <1>1 DEF tvars, CountersOK, Training, Artifacts
  <2>2. CASE load_preset \/ write_jsonl
    <3>1. /\ history = <<>> /\ best_epoch = 0 /\ patience_counter = 0
          /\ job'.at \in {"idle", "cache", "train", "resume_base", "dataset", "evaluation"}
      BY Zenon, <2>2, LoadGoes
    <3> QED
      BY <2>1, <3>1, EpochAssumption
  <2>3. CASE make_loaders \/ abort
    <3>1. job'.at = "idle"
      BY <2>3 DEF make_loaders, abort, Raise, Goto, Idle
    <3> QED
      BY <2>1, <3>1
  <2>4. CASE evaluate_test
    <3>1. job.at = "result" /\ job'.at \in {"pt", "idle"}
      BY ZenonT(30), <2>4, GotoAt DEF evaluate_test
    <3> QED
      BY <2>1, <3>1
  <2>5. CASE open_file
    <3>1. job'.at \in {job.at, "idle"}
      BY <2>5, OpenGoes DEF Idle, At
    <3> QED
      BY <2>1, <3>1
  <2>6. CASE close_file
    <3>1. job.at \in Names /\ job'.at = AfterWriting
      BY ZenonT(30), <2>6, GotoAt DEF close_file, JobOK
    <3> QED
      BY <2>1, <3>1, AfterWritingAt, EpochAssumption DEF LocalsOK, Names
  <2>7. CASE load_second \/ \E b \in {"pytorch", "torchscript", "onnx"} : load_first(b)
    BY <2>1, <2>7 DEF load_first, load_second
  <2>8. CASE UNCHANGED vars
    BY <2>1, <2>8 DEF vars
  <2>9. ASSUME NEW k \in {"train", "resume", "prepare", "evaluate"}, NEW c \in Configs, start(k, c)
        PROVE  CountersOK'
    BY <2>9 DEF start, begin_training
  <2>10. ASSUME NEW loss \in EvalLosses, epoch(loss) PROVE CountersOK'
    BY <2>10, EpochKeeps
  <2> QED
    BY ZenonT(30), <2>1, <2>2, <2>3, <2>4, <2>5, <2>6, <2>7, <2>8, <2>9, <2>10 DEF Next
<1>2. ASSUME NEW loss \in EvalLosses, epoch(loss) PROVE LocalsOK' /\ CountersOK'
  BY <1>2, EpochKeeps
<1>3. ASSUME NEW k \in {"train", "resume", "prepare", "evaluate"}, NEW c \in Configs, start(k, c)
      PROVE  LocalsOK' /\ CountersOK'
  BY <1>3, EpochAssumption DEF start, begin_training, LocalsOK, CountersOK, Training, Artifacts
<1>4. CASE UNCHANGED tvars \/ (\E loss \in EvalLosses : epoch(loss))
           \/ \E k \in {"train", "resume", "prepare", "evaluate"}, c \in Configs : start(k, c)
  BY <1>1, <1>2, <1>3, <1>4
<1>5. \/ UNCHANGED tvars \/ \E loss \in EvalLosses : epoch(loss)
      \/ \E k \in {"train", "resume", "prepare", "evaluate"}, c \in Configs : start(k, c)
  BY Zenon DEF Next, vars, load_preset, write_jsonl, make_loaders, evaluate_test, open_file, close_file,
         abort, load_first, load_second
<1> QED
  BY <1>4, <1>5

LEMMA InitTrainInv == Init => TrainInv
BY EpochAssumption
   DEF Init, TrainInv, JobOK, LocalsOK, CountersOK, Idle, Stops, Training, Artifacts

(* Trainer.train() stops after the last epoch, or when `patience' epochs   *)
(* have passed since the best one, and not before.                         *)
THEOREM StopsInTime == Spec => []EarlyStopping
<1>1. TrainInv => EarlyStopping
  BY DEF TrainInv, CountersOK, EarlyStopping
<1> QED
  BY <1>1, InitTrainInv, NextTrainInv, PTL DEF Spec

-----------------------------------------------------------------------------
(* The files, whatever the job does, and what it knows of them. *)
FileOK(f) ==
  /\ f.state \in {"absent", "torn", "whole"}
  /\ f.state = "whole" => f.loss \in 0 .. Inf - 1

FilesOK ==
  /\ files = [n \in Names |-> files[n]]
  /\ \A n \in Names : FileOK(files[n])
  /\ export \in {"none", "partial", "clean", "stale"}
  /\ DeployedWidth /\ ArtifactsAgree

BestKnown ==
  /\ files["best"].run \in Nat /\ files["best"].run <= run
  /\ job.at # "idle" /\ best_epoch = 0 => files["best"].run < run
  /\ Training /\ best_epoch > 0 => files["best"] = Trained
  /\ job.at \in Artifacts => Loadable(files["best"], DefaultWidth)

Exporting == job.at \in {"ts", "onnx", "meta"} \/ (job.at = "pt" /\ job.writing = TRUE)

ExportKnown ==
  /\ Exporting => export = "partial"
  /\ job.at \in {"ts", "onnx", "meta"} => files["pt"] = files["best"]
  /\ job.at \in {"onnx", "meta"} => files["ts"] = files["best"]
  /\ job.at = "meta" => files["onnx"] = files["best"]

FilesInv == TrainInv /\ FilesOK /\ BestKnown /\ ExportKnown

LEMMA InitFilesInv == Init => FilesInv
<1> SUFFICES ASSUME Init PROVE FilesInv
  OBVIOUS
<1>1. /\ \A n \in Names : files[n] = Absent
      /\ files = [n \in Names |-> files[n]] /\ files["best"] = Absent
  BY DEF Init, Names
<1>2. Absent.state = "absent" /\ Absent.run = 0
  BY DEF Absent, Content
<1>3. job.at = "idle" /\ job.writing = FALSE /\ run = 0 /\ export = "none"
  BY DEF Init, Idle
<1>4. FilesOK
  BY <1>1, <1>2, <1>3 DEF FilesOK, FileOK, DeployedWidth, ArtifactsAgree, Names, Artifacts
<1> QED
  BY <1>1, <1>2, <1>3, <1>4, InitTrainInv
     DEF FilesInv, BestKnown, ExportKnown, Exporting, Training, Artifacts

(* Steps that touch no file and no local. *)
LEMMA ElsewhereKeeps ==
  ASSUME FilesInv, UNCHANGED <<tvars, run, files, export>>,
         \/ job'.at \in {"idle", "cache", "resume_base", "dataset", "evaluation"} /\ job.at # "idle"
         \/ job'.at = "train" /\ job.at \in {"load", "cache"}
         \/ UNCHANGED <<job, samples>>
         \/ /\ job.at = "result" /\ job'.at = "pt" /\ job'.writing = FALSE
            /\ job'.kind = job.kind /\ job'.width = job.width /\ UNCHANGED samples
            /\ Loadable(files["best"], DefaultWidth)
  PROVE  FilesOK' /\ BestKnown' /\ ExportKnown'
<1>1. FilesOK'
  BY DEF FilesInv, FilesOK, DeployedWidth, ArtifactsAgree
<1>2. ExportKnown'
  BY DEF FilesInv, ExportKnown, Exporting
<1>3. BestKnown'
  <2>1. CASE job'.at \in {"idle", "cache", "resume_base", "dataset", "evaluation"} /\ job.at # "idle"
    BY <2>1 DEF FilesInv, BestKnown, Training, Artifacts, tvars
  <2>2. CASE job'.at = "train" /\ job.at \in {"load", "cache"}
    BY <2>2 DEF FilesInv, TrainInv, CountersOK, BestKnown, Training, Artifacts, tvars
  <2>3. CASE UNCHANGED <<job, samples>>
    BY <2>3 DEF FilesInv, BestKnown, Training, Trained, Stats, splits, tvars, Loadable
  <2>4. CASE /\ job.at = "result" /\ job'.at = "pt" /\ job'.kind = job.kind
             /\ job'.width = job.width /\ UNCHANGED samples
             /\ Loadable(files["best"], DefaultWidth)
    <3>1. Trained' = Trained
      BY <2>4 DEF Trained, Stats, splits, tvars
    <3> QED
      BY <2>4, <3>1 DEF FilesInv, BestKnown, Training, Artifacts, tvars, Loadable
  <2> QED
    BY <2>1, <2>2, <2>3, <2>4
<1> QED
  BY <1>1, <1>2, <1>3

LEMMA StartKeeps ==
  ASSUME FilesInv, NEW k \in {"train", "resume", "prepare", "evaluate"}, NEW c \in Configs, start(k, c)
  PROVE  FilesOK' /\ BestKnown' /\ ExportKnown'
<1>1. /\ job'.at = "load" /\ run' = run + 1 /\ best_epoch' = 0 /\ UNCHANGED <<files, export>>
      /\ run \in Nat
  BY DEF start, begin_training, FilesInv, TrainInv, JobOK
<1> QED
  BY <1>1 DEF FilesInv, FilesOK, DeployedWidth, ArtifactsAgree, BestKnown, ExportKnown, Exporting,
              Training, Artifacts

LEMMA EpochKeepsFiles ==
  ASSUME FilesInv, NEW loss \in EvalLosses, epoch(loss)
  PROVE  FilesOK' /\ BestKnown' /\ ExportKnown'
<1>1. job.at = "train" /\ UNCHANGED <<samples, run, files, export>>
  BY DEF epoch
<1>2. FilesOK'
  BY <1>1 DEF FilesInv, FilesOK, DeployedWidth, ArtifactsAgree
<1>3. job'.at \in {"best", "result", "train"} /\ job'.kind = job.kind /\ job'.width = job.width
  BY ZenonT(30), GotoAt DEF epoch
<1>4. ExportKnown'
  BY <1>3 DEF ExportKnown, Exporting
<1>5. CASE job'.at = "best"
  <2>1. best_epoch' > 0
    BY <1>5, EpochKeeps DEF FilesInv, CountersOK
  <2> QED
    BY <1>1, <1>2, <1>4, <1>5, <2>1 DEF FilesInv, BestKnown, Training, Artifacts
<1>6. CASE job'.at # "best"
  <2>1. UNCHANGED <<best_val, best_epoch>>
    BY Zenon, <1>6, GotoAt DEF epoch
  <2>2. Trained' = Trained
    BY <1>1, <1>3, <2>1 DEF Trained, Stats, splits
  <2> QED
    BY <1>1, <1>2, <1>3, <1>4, <2>1, <2>2 DEF FilesInv, BestKnown, Training, Artifacts
<1> QED
  BY <1>5, <1>6

(* A file loses what it held: the exported ones only while `export' says   *)
(* so, and best.pt only after an epoch that was an improvement.            *)
LEMMA OpenKeeps ==
  ASSUME FilesInv, open_file
  PROVE  FilesOK' /\ BestKnown' /\ ExportKnown'
<1>1. CASE job' = Idle /\ UNCHANGED <<files, export>>
  <2>1. job'.at = "idle" /\ job.at # "idle"
    BY <1>1, OpenGoes DEF Idle, Names, Artifacts
  <2> QED
    BY <1>1, <2>1, OpenGoes, ElsewhereKeeps
<1>2. CASE /\ job' = At(job.at, TRUE) /\ files' = [files EXCEPT ![job.at] = Torn]
           /\ export' = IF job.at = "pt" THEN "partial" ELSE export
  <2>1. /\ job'.at = job.at /\ job'.kind = job.kind /\ job'.width = job.width
        /\ job.at \in Names /\ UNCHANGED <<samples, tvars, run>>
    BY <1>2, OpenGoes DEF At
  <2>2. \A n \in Names : files'[n] = IF n = job.at THEN Torn ELSE files[n]
    BY <1>2 DEF FilesInv, FilesOK
  <2>3. Torn.state = "torn" /\ Torn.run = 0
    BY DEF Torn, Content
  <2>4. job.at \in Artifacts => export' = "partial"
    BY <1>2, <2>1 DEF FilesInv, ExportKnown, Exporting, Artifacts
  <2>5. FilesOK'
    <3>1. files' = [n \in Names |-> files'[n]] /\ \A n \in Names : FileOK(files'[n])
      BY <1>2, <2>2, <2>3 DEF FilesInv, FilesOK, FileOK
    <3>2. DeployedWidth'
      BY <2>2, <2>3 DEF FilesInv, FilesOK, DeployedWidth, Names, Artifacts
    <3>3. ArtifactsAgree'
      <4>1. CASE job.at \in Artifacts
        BY <2>4, <4>1 DEF ArtifactsAgree
      <4>2. CASE job.at \notin Artifacts
        <5>1. export' = export /\ \A n \in Artifacts : files'[n] = files[n]
          BY <1>2, <2>2, <4>2 DEF Names, Artifacts
        <5> QED
          BY <5>1 DEF FilesInv, FilesOK, ArtifactsAgree, Artifacts
      <4> QED
        BY <4>1, <4>2
    <3> QED
      BY <1>2, <3>1, <3>2, <3>3 DEF FilesInv, FilesOK
  <2>6. ExportKnown'
    BY <2>1, <2>2, <2>4 DEF FilesInv, ExportKnown, Exporting, Names, Artifacts
  <2>7. CASE job.at = "best"
    <3>1. files'["best"].run = 0 /\ best_epoch' > 0 /\ run' \in Nat
      BY <2>1, <2>2, <2>3, <2>7 DEF FilesInv, TrainInv, CountersOK, JobOK, Names, tvars
    <3> QED
      BY <2>1, <2>5, <2>6, <2>7, <3>1 DEF BestKnown, Training, Artifacts
  <2>8. CASE job.at # "best"
    <3>1. files'["best"] = files["best"]
      BY <2>2, <2>8 DEF Names
    <3>2. Trained' = Trained
      BY <2>1 DEF Trained, Stats, splits, tvars
    <3>3. BestKnown'
      BY <2>1, <3>1, <3>2 DEF FilesInv, BestKnown, Training, Artifacts, tvars, Loadable
    <3> QED
      BY <2>5, <2>6, <3>3
  <2> QED
    BY <2>7, <2>8
<1> QED
  BY ZenonT(30), <1>1, <1>2, OpenGoes

(* What is written: weights of a finite loss, or a report. *)
LEMMA WrittenIs ==
  ASSUME FilesInv, job.at \in Names
  PROVE  /\ FileOK(Written)
         /\ job.at = "best" => Written = Trained
         /\ job.at \in {"pt", "ts", "onnx", "resume_base"} => Written = files["best"]
         /\ job.at = "meta" => Written.state = "whole" /\ Written.stats = Stats
<1>1. CASE job.at = "best"
  <2>1. Written = Trained
    BY <1>1 DEF Written
  <2>2. best_val \in Losses
    BY <1>1 DEF FilesInv, TrainInv, CountersOK, LocalsOK
  <2>3. Trained.state = "whole" /\ Trained.loss = best_val
    BY DEF Trained, Content
  <2> QED
    BY <1>1, <2>1, <2>2, <2>3, LossAssumption DEF FileOK
<1>2. CASE job.at \in {"pt", "ts", "onnx", "resume_base"}
  <2>1. Written = files["best"]
    BY <1>2 DEF Written
  <2> QED
    BY <1>2, <2>1 DEF FilesInv, FilesOK, Names
<1>3. CASE job.at \notin {"best", "pt", "ts", "onnx", "resume_base"}
  <2>1. /\ Written.state = "whole" /\ Written.loss = 0
        /\ job.at = "meta" => Written.stats = Stats
    BY <1>3 DEF Written, Report, Content, Normalisation
  <2> QED
    BY <1>3, <2>1, LossAssumption DEF FileOK
<1> QED
  BY <1>1, <1>2, <1>3

LEMMA CloseKeeps ==
  ASSUME FilesInv, close_file
  PROVE  FilesOK' /\ BestKnown' /\ ExportKnown'
<1>1. /\ job.at \in Names /\ job.writing = TRUE /\ UNCHANGED <<samples, tvars, run>>
      /\ job'.at = AfterWriting /\ job'.writing = FALSE
      /\ job'.at # "idle" => job'.kind = job.kind /\ job'.width = job.width
  <2>1. job.writing = TRUE
    BY DEF FilesInv, TrainInv, JobOK, close_file
  <2>2. job.at \in Names /\ UNCHANGED <<samples, tvars, run>> /\ Goto(AfterWriting)
    BY <2>1 DEF FilesInv, TrainInv, JobOK, close_file
  <2> QED
    BY Zenon, <2>1, <2>2, GotoAt
<1>2. /\ files' = [files EXCEPT ![job.at] = Written]
      /\ \A n \in Names : files'[n] = IF n = job.at THEN Written ELSE files[n]
  BY DEF close_file, FilesInv, FilesOK
<1>3. /\ job.at # "meta" => export' = export
      /\ job.at = "meta" => export' = IF best_epoch > 0 THEN "clean" ELSE "stale"
  BY DEF close_file
<1>4. job'.at # "idle" => Trained' = Trained
  BY <1>1 DEF Trained, Stats, splits, tvars
<1>5. FilesOK'
  <2>1. files' = [n \in Names |-> files'[n]] /\ \A n \in Names : FileOK(files'[n])
    BY <1>1, <1>2, WrittenIs DEF FilesInv, FilesOK
  <2>2. DeployedWidth'
    BY <1>1, <1>2, WrittenIs
       DEF FilesInv, FilesOK, BestKnown, Loadable, DeployedWidth, Names, Artifacts
  <2>3. ArtifactsAgree'
    <3>1. CASE job.at = "meta" /\ best_epoch > 0
      <4>1. /\ files["best"] = Trained /\ files["best"].state = "whole"
            /\ files["pt"] = files["best"] /\ files["ts"] = files["best"] /\ files["onnx"] = files["best"]
        BY <3>1 DEF FilesInv, BestKnown, ExportKnown, Training, Artifacts, Loadable
      <4>2. Trained.stats = Stats
        BY DEF Trained, Content
      <4>3. files'["meta"] = Written /\ \A n \in {"pt", "ts", "onnx"} : files'[n] = files[n]
        BY <1>2, <3>1 DEF Names, Artifacts
      <4> QED
        BY <1>1, <3>1, <4>1, <4>2, <4>3, WrittenIs DEF ArtifactsAgree
    <3>2. CASE job.at = "meta" /\ ~(best_epoch > 0)
      BY <1>3, <3>2 DEF ArtifactsAgree
    <3>3. CASE job.at \in {"pt", "ts", "onnx"}
      BY <1>1, <1>3, <3>3 DEF FilesInv, ExportKnown, Exporting, ArtifactsAgree
    <3>4. CASE job.at \notin Artifacts
      <4>1. export' = export /\ \A n \in Artifacts : files'[n] = files[n]
        BY <1>2, <1>3, <3>4 DEF Names, Artifacts
      <4> QED
        BY <4>1 DEF FilesInv, FilesOK, ArtifactsAgree, Artifacts
    <3> QED
      BY <3>1, <3>2, <3>3, <3>4 DEF Artifacts
  <2> QED
    BY <1>3, <2>1, <2>2, <2>3 DEF FilesInv, FilesOK
<1>6. ExportKnown'
  <2>1. CASE job.at \in {"pt", "ts", "onnx"}
    <3>1. /\ export' = "partial" /\ files'[job.at] = files["best"] /\ files'["best"] = files["best"]
          /\ \A n \in {"pt", "ts", "onnx"} : n # job.at => files'[n] = files[n]
      BY ZenonT(30), <1>1, <1>2, <1>3, <2>1, WrittenIs DEF FilesInv, ExportKnown, Exporting, Names, Artifacts
    <3> QED
      BY <1>1, <2>1, <3>1, AfterWritingAt DEF FilesInv, ExportKnown, Exporting
  <2>2. CASE job.at \notin {"pt", "ts", "onnx"}
    <3>1. job'.at \in {"result", "train", "idle", "splits_meta"}
      BY <1>1, <2>2, AfterWritingAt DEF Names, Artifacts
    <3> QED
      BY <3>1 DEF ExportKnown, Exporting
  <2> QED
    BY <2>1, <2>2
<1>7. BestKnown'
  <2>1. CASE job.at = "best"
    <3>1. job'.at \in {"result", "train"} /\ files'["best"] = Trained /\ best_epoch > 0
      BY <1>1, <1>2, <2>1, AfterWritingAt, WrittenIs DEF FilesInv, TrainInv, CountersOK, Names
    <3>2. Trained.run = run /\ run \in Nat
      BY DEF Trained, Content, FilesInv, TrainInv, JobOK
    <3> QED
      BY <1>1, <1>4, <3>1, <3>2 DEF BestKnown, Training, Artifacts, tvars
  <2>2. CASE job.at \in {"pt", "ts", "onnx", "meta"}
    <3>1. files'["best"] = files["best"] /\ job'.at \in {"ts", "onnx", "meta", "idle"}
      BY <1>1, <1>2, <2>2, AfterWritingAt DEF Names, Artifacts
    <3> QED
      BY <1>1, <1>4, <2>2, <3>1 DEF FilesInv, BestKnown, Training, Artifacts, tvars, Loadable
  <2>3. CASE job.at \notin {"best", "pt", "ts", "onnx", "meta"}
    <3>1. /\ files'["best"] = files["best"] /\ job'.at \in {"train", "splits_meta", "idle"}
          /\ job'.at = "train" => job.at = "resume_base"
      BY <1>1, <1>2, <2>3, AfterWritingAt DEF Names, Artifacts
    <3>2. job'.at = "train" => best_epoch = 0
      BY <3>1 DEF FilesInv, TrainInv, CountersOK
    <3>3. job.at # "idle"
      BY <1>1 DEF Names, Artifacts
    <3> QED
      BY <1>1, <3>1, <3>2, <3>3 DEF FilesInv, BestKnown, Training, Artifacts, tvars
  <2> QED
    BY <2>1, <2>2, <2>3
<1> QED
  BY <1>5, <1>6, <1>7

LEMMA NextFilesInv == FilesInv /\ [Next]_vars => FilesInv'
<1> SUFFICES ASSUME FilesInv, [Next]_vars PROVE FilesOK' /\ BestKnown' /\ ExportKnown'
  BY NextTrainInv DEF FilesInv
<1>1. ASSUME NEW k \in {"train", "resume", "prepare", "evaluate"}, NEW c \in Configs, start(k, c)
      PROVE  FilesOK' /\ BestKnown' /\ ExportKnown'
  BY <1>1, StartKeeps
<1>2. CASE load_preset \/ write_jsonl
  <2>1. /\ UNCHANGED <<tvars, run, files, export>> /\ job.at \in {"load", "cache"}
        /\ job'.at \in {"idle", "cache", "train", "resume_base", "dataset", "evaluation"}
    BY ZenonT(30), <1>2, LoadGoes DEF FilesInv, TrainInv
  <2> QED
    BY Zenon, <2>1, ElsewhereKeeps
<1>3. CASE make_loaders \/ abort
  <2>1. UNCHANGED <<tvars, run, files, export>> /\ job.at # "idle" /\ job'.at = "idle"
    BY <1>3 DEF make_loaders, abort, Raise, Goto, Idle
  <2> QED
    BY <2>1, ElsewhereKeeps
<1>4. ASSUME NEW loss \in EvalLosses, epoch(loss) PROVE FilesOK' /\ BestKnown' /\ ExportKnown'
  BY <1>4, EpochKeepsFiles
<1>5. CASE evaluate_test
  <2>1. UNCHANGED <<samples, tvars, run, files, export>> /\ job.at = "result"
    BY <1>5 DEF evaluate_test
  <2>2. CASE job.kind = "train" /\ Loadable(files["best"], EvaluatedWidth) /\ Tested
    <3>1. Goto("pt")
      BY <1>5, <2>2 DEF evaluate_test
    <3> QED
      BY Zenon, <2>1, <2>2, <3>1, GotoAt, ElsewhereKeeps DEF EvaluatedWidth
  <2>3. CASE ~(job.kind = "train" /\ Loadable(files["best"], EvaluatedWidth) /\ Tested)
    <3>1. Goto("idle")
      BY <1>5, <2>3 DEF evaluate_test
    <3> QED
      BY ZenonT(30), <2>1, <3>1, GotoAt, ElsewhereKeeps
  <2> QED
    BY <2>2, <2>3
<1>6. CASE load_second \/ \E b \in {"pytorch", "torchscript", "onnx"} : load_first(b)
  <2>1. UNCHANGED <<job, samples, tvars, run, files, export>>
    BY <1>6 DEF load_first, load_second
  <2> QED
    BY <2>1, ElsewhereKeeps
<1>7. CASE UNCHANGED vars
  BY <1>7, ElsewhereKeeps DEF vars
<1> QED
  BY <1>1, <1>2, <1>3, <1>4, <1>5, <1>6, <1>7, OpenKeeps, CloseKeeps DEF Next

(* The variables of a job, of train() and of the files keep their types. *)
THEOREM TrainingTypes == Spec => []TypeOK
<1>1. FilesInv => TypeOK
  BY DEF FilesInv, TrainInv, JobOK, LocalsOK, FilesOK, FileOK, TypeOK, Stops
<1> QED
  BY <1>1, InitFilesInv, NextFilesInv, PTL DEF Spec

(* Between two saves of train.py best.pt is the first epoch with the       *)
(* smallest validation loss of the run, or not of this run at all.         *)
THEOREM BestIsKept == Spec => []CheckpointIsBest
<1>1. FilesInv => CheckpointIsBest
  <2> SUFFICES ASSUME FilesInv, Training PROVE CheckpointIsBest
    BY DEF CheckpointIsBest
  <2>1. job.at # "idle"
    BY DEF Training, Artifacts
  <2>2. CASE best_epoch = 0
    <3>1. Range(history) \subseteq {Inf, NaN}
      BY <2>2 DEF FilesInv, TrainInv, LocalsOK, Range
    <3> QED
      BY <2>1, <2>2, <3>1 DEF FilesInv, BestKnown, CheckpointIsBest
  <2>3. CASE best_epoch # 0
    <3>1. best_epoch > 0
      BY <2>3 DEF FilesInv, TrainInv, LocalsOK
    <3> QED
      BY <3>1 DEF FilesInv, TrainInv, LocalsOK, BestKnown, CheckpointIsBest
  <2> QED
    BY <2>2, <2>3
<1> QED
  BY <1>1, InitFilesInv, NextFilesInv, PTL DEF Spec

(* What a resumed run knows of the checkpoint it copies. *)
ResumeKnown ==
  /\ job.at = "resume_base" /\ job.writing = TRUE => Loadable(files["best"], DefaultWidth)
  /\ job.kind = "resume" /\ (Training \/ job.at = "best") =>
       Loadable(files["resume_base"], DefaultWidth) /\ files["resume_base"].run < run

LEMMA NextResumeKnown == FilesInv /\ ResumeKnown /\ [Next]_vars => ResumeKnown'
<1> SUFFICES ASSUME FilesInv, ResumeKnown, [Next]_vars PROVE ResumeKnown'
  OBVIOUS
<1>0. JobOK /\ files = [n \in Names |-> files[n]]
  BY DEF FilesInv, TrainInv, FilesOK
<1>1. CASE UNCHANGED <<job, run, files>>
  BY <1>1 DEF ResumeKnown, Training, Loadable
<1>2. CASE job'.at \notin {"train", "best", "result", "resume_base"} \cup Artifacts
  BY <1>2 DEF ResumeKnown, Training
<1>3. CASE /\ UNCHANGED <<run, files>> /\ job'.kind = job.kind /\ job'.writing = FALSE
           /\ job.at \in {"train", "result"}
  BY <1>3 DEF ResumeKnown, Training, Loadable
<1>4. ASSUME NEW k \in {"train", "resume", "prepare", "evaluate"}, NEW c \in Configs, start(k, c)
      PROVE  ResumeKnown'
  BY <1>2, <1>4 DEF start, Artifacts
<1>5. CASE load_preset \/ write_jsonl
  <2>1. /\ job.at \in {"load", "cache"} /\ job'.writing = FALSE
        /\ job'.at # "idle" => job'.kind = job.kind
    BY Zenon, <1>0, <1>5, LoadGoes
  <2>2. Goto("idle") \/ Goto("cache") \/ Goto(Loaded)
    BY <1>5 DEF load_preset, write_jsonl, Take, Raise
  <2>3. job'.at \in {"idle", "cache", Loaded}
    BY ZenonT(30), <2>2, GotoAt
  <2>4. job.kind = "resume" => Loaded = "resume_base"
    BY DEF Loaded
  <2>5. job.kind \in {"train", "resume", "prepare", "evaluate"}
    BY <1>0, <2>1 DEF JobOK
  <2> QED
    BY <2>1, <2>3, <2>4, <2>5 DEF ResumeKnown, Training, Artifacts, Loaded
<1>6. CASE make_loaders \/ abort
  <2>1. job'.at = "idle"
    BY <1>6 DEF make_loaders, abort, Raise, Goto, Idle
  <2> QED
    BY <1>2, <2>1 DEF Artifacts
<1>7. ASSUME NEW loss \in EvalLosses, epoch(loss) PROVE ResumeKnown'
  <2>1. job.at = "train" /\ UNCHANGED <<run, files>>
    BY <1>7 DEF epoch
  <2>2. job'.kind = job.kind /\ job'.writing = FALSE
    BY ZenonT(30), <1>7, GotoAt DEF epoch
  <2> QED
    BY ZenonT(30), <1>3, <2>1, <2>2
<1>8. CASE evaluate_test
  <2>1. job.at = "result" /\ UNCHANGED <<run, files>>
    BY <1>8 DEF evaluate_test
  <2>2. job'.at = "idle" \/ (job'.kind = job.kind /\ job'.writing = FALSE)
    BY ZenonT(30), <1>8, GotoAt DEF evaluate_test
  <2> QED
    BY ZenonT(30), <1>2, <1>3, <2>1, <2>2 DEF Artifacts
<1>9. CASE open_file
  <2>1. CASE job' = Idle
    BY <1>2, <2>1 DEF Idle, Artifacts
  <2>2. CASE Ready /\ job' = At(job.at, TRUE) /\ files' = [files EXCEPT ![job.at] = Torn]
    <3>1. job'.at = job.at /\ job'.kind = job.kind /\ job.at \in Names /\ run' = run
      BY <1>9, <2>2, OpenGoes DEF At
    <3>2. \A n \in Names : n # job.at => files'[n] = files[n]
      BY <1>0, <2>2
    <3>3. CASE job.at = "resume_base"
      <4>1. Loadable(files["best"], DefaultWidth)
        BY <2>2, <3>3 DEF Ready
      <4> QED
        BY <3>1, <3>2, <3>3, <4>1 DEF ResumeKnown, Training, Artifacts, Loadable, Names
    <3>4. CASE job.at # "resume_base"
      BY <3>1, <3>2, <3>4 DEF ResumeKnown, Training, Artifacts, Loadable, Names
    <3> QED
      BY <3>3, <3>4
  <2> QED
    BY Zenon, <1>9, <2>1, <2>2, OpenGoes
<1>10. CASE close_file
  <2>1. /\ job.writing = TRUE /\ job.at \in Names /\ run' = run
        /\ files' = [files EXCEPT ![job.at] = Written] /\ Goto(AfterWriting)
    BY <1>0, <1>10 DEF close_file, JobOK
  <2>2. /\ job'.at = AfterWriting /\ job'.writing = FALSE
        /\ AfterWriting # "idle" => job'.kind = job.kind
    BY ZenonT(30), <2>1, GotoAt
  <2>3. \A n \in Names : n # job.at => files'[n] = files[n]
    BY <1>0, <2>1
  <2>4. CASE job.at = "resume_base"
    <3>1. files'["resume_base"] = files["best"]
      BY <1>0, <2>1, <2>4 DEF Written, Names
    <3>2. Loadable(files["best"], DefaultWidth)
      BY <2>1, <2>4 DEF ResumeKnown
    <3>3. files["best"].run < run
      BY <2>4 DEF FilesInv, TrainInv, CountersOK, BestKnown
    <3> QED
      BY <2>1, <2>2, <3>1, <3>2, <3>3 DEF ResumeKnown, Loadable
  <2>5. CASE job.at # "resume_base"
    <3>1. files'["resume_base"] = files["resume_base"]
      BY <2>3, <2>5 DEF Names
    <3>2. AfterWriting \in {"train", "result", "best"} \cup Artifacts =>
            job.at = "best" \/ job.at \in Artifacts
      BY <2>1, <2>5, AfterWritingAt DEF Names, Artifacts
    <3>3. Training \/ job.at = "best" \/ AfterWriting \notin {"train", "best", "result"} \cup Artifacts
      BY <3>2 DEF Training
    <3>4. AfterWriting # "idle" => job'.kind = job.kind
      BY <2>2
    <3> QED
      BY <2>1, <2>2, <3>1, <3>3, <3>4 DEF ResumeKnown, Training, Artifacts, Loadable
  <2> QED
    BY <2>4, <2>5
<1>11. CASE load_second \/ \E b \in {"pytorch", "torchscript", "onnx"} : load_first(b)
  BY <1>1, <1>11 DEF load_first, load_second
<1>12. CASE UNCHANGED vars
  BY <1>1, <1>12 DEF vars
<1> QED
  BY <1>4, <1>5, <1>6, <1>7, <1>8, <1>9, <1>10, <1>11, <1>12 DEF Next

(* Resuming loses no model: the checkpoint a run resumes from survives in  *)
(* resume_base.pt while that run overwrites best.pt, for any sequence of   *)
(* jobs, wherever they are killed.                                         *)
THEOREM ResumeLosesNothing == Spec => []ResumeBaseKept
<1>1. Init => ResumeKnown
  BY DEF Init, Idle, ResumeKnown, Training, Artifacts
<1>2. ResumeKnown => ResumeBaseKept
  BY DEF ResumeKnown, ResumeBaseKept
<1> QED
  BY <1>1, <1>2, InitFilesInv, NextFilesInv, NextResumeKnown, PTL DEF Spec

(* An export that was not cut short leaves one set of weights, in three    *)
(* forms, and the normalisation they were trained with.                    *)
THEOREM ExportsAgree == Spec => []ArtifactsAgree
<1>1. FilesInv => ArtifactsAgree
  BY DEF FilesInv, FilesOK
<1> QED
  BY <1>1, InitFilesInv, NextFilesInv, PTL DEF Spec

(* Whatever width is configured, what is exported has the default one. *)
THEOREM OneWidth == Spec => []DeployedWidth
<1>1. FilesInv => DeployedWidth
  BY DEF FilesInv, FilesOK
<1> QED
  BY <1>1, InitFilesInv, NextFilesInv, PTL DEF Spec

-----------------------------------------------------------------------------
(* A server that is loading: as long as no export has begun since, the     *)
(* file it has read is still the one on disk.                              *)
LoaderOK ==
  /\ FileOK(loader.file) /\ FileOK(served.weights)
  /\ loader.quiet \in BOOLEAN /\ served.quiet \in BOOLEAN
  /\ loader.quiet = TRUE =>
       /\ export = "clean" /\ loader.backend \in {"pytorch", "torchscript", "onnx"}
       /\ loader.file = files[ReadFirst(loader.backend)]
  /\ served.quiet = TRUE => served.stats = served.weights.stats

LoadInv == FilesInv /\ LoaderOK

LEMMA InitLoaderOK == Init => LoaderOK
BY DEF Init, LoaderOK, FileOK, Unloaded, Unserved, Absent, Content

LEMMA ReadArtifact ==
  \A b : ReadFirst(b) \in {"meta", "ts", "onnx"} /\ (b # "pytorch" => ReadFirst(b) \in {"ts", "onnx"})
BY DEF ReadFirst, Weights

LEMMA NextLoadInv == LoadInv /\ [Next]_vars => LoadInv'
<1> SUFFICES ASSUME LoadInv, [Next]_vars PROVE LoaderOK'
  BY NextFilesInv DEF LoadInv
<1> USE DEF LoadInv
<1>1. CASE UNCHANGED <<files, export, loader, served>>
  BY <1>1 DEF LoaderOK
<1>2. CASE open_file
  <2>1. /\ job.at \in Names /\ UNCHANGED served
        /\ \/ UNCHANGED <<files, export, loader>>
           \/ /\ files' = [files EXCEPT ![job.at] = Torn]
              /\ export' = IF job.at = "pt" THEN "partial" ELSE export
              /\ loader' = IF job.at # "pt" THEN loader
                           ELSE [backend |-> loader.backend, file |-> loader.file, quiet |-> FALSE]
    BY Zenon, <1>2, OpenGoes
  <2>2. CASE loader' = [backend |-> loader.backend, file |-> loader.file, quiet |-> FALSE]
    <3>1. loader'.file = loader.file /\ loader'.quiet = FALSE
      BY <2>2
    <3> QED
      BY ZenonT(30), <2>1, <3>1 DEF LoaderOK
  <2>3. CASE files' = [files EXCEPT ![job.at] = Torn] /\ UNCHANGED <<export, loader>> /\ job.at # "pt"
    <3>1. loader.quiet = TRUE => job.at \notin Artifacts
      BY <2>3 DEF LoaderOK, FilesInv, ExportKnown, Exporting, Artifacts
    <3>2. loader.quiet = TRUE => files'[ReadFirst(loader.backend)] = files[ReadFirst(loader.backend)]
      BY <2>3, <3>1, ReadArtifact DEF FilesInv, FilesOK, Names, Artifacts
    <3> QED
      BY <2>1, <2>3, <3>2 DEF LoaderOK
  <2> QED
    BY <1>1, <2>1, <2>2, <2>3
<1>3. CASE close_file
  <2>1. /\ UNCHANGED <<loader, served>> /\ files' = [files EXCEPT ![job.at] = Written]
        /\ job.at # "meta" => export' = export
        /\ job.writing = TRUE
    BY <1>3 DEF close_file, FilesInv, TrainInv, JobOK
  <2>2. loader.quiet = TRUE => job.at \notin Artifacts
    BY <2>1 DEF LoaderOK, FilesInv, ExportKnown, Exporting, Artifacts
  <2>3. loader.quiet = TRUE =>
          export' = export /\ files'[ReadFirst(loader.backend)] = files[ReadFirst(loader.backend)]
    BY <2>1, <2>2, ReadArtifact DEF FilesInv, FilesOK, Names, Artifacts
  <2> QED
    BY <2>1, <2>3 DEF LoaderOK
<1>4. ASSUME NEW b \in {"pytorch", "torchscript", "onnx"}, load_first(b) PROVE LoaderOK'
  <2>1. /\ UNCHANGED <<files, export, served>> /\ loader'.backend = b
        /\ loader'.file = files[ReadFirst(b)] /\ loader'.quiet = (export = "clean")
    BY <1>4 DEF load_first
  <2>2. FileOK(files[ReadFirst(b)])
    BY ReadArtifact DEF FilesInv, FilesOK, Names, Artifacts
  <2> QED
    BY <2>1, <2>2 DEF LoaderOK
<1>5. CASE load_second
  <2> DEFINE pytorch == loader.backend = "pytorch"
             weights == IF pytorch THEN files["pt"] ELSE loader.file
             meta == IF pytorch THEN loader.file ELSE files["meta"]
  <2>1. /\ UNCHANGED <<files, export>> /\ loader' = Unloaded
        /\ \/ served' = served
           \/ served' = [weights |-> weights, stats |-> meta.stats, quiet |-> loader.quiet]
    BY <1>5 DEF load_second, Normaliser
  <2>2. FileOK(weights)
    BY DEF FilesInv, FilesOK, LoaderOK, Names, Artifacts
  <2>3. loader.quiet = TRUE => meta.stats = weights.stats
    BY ReadArtifact DEF LoaderOK, FilesInv, FilesOK, ArtifactsAgree, ReadFirst
  <2>4. FileOK(Unloaded.file) /\ Unloaded.quiet = FALSE
    BY DEF Unloaded, FileOK, Absent, Content
  <2> HIDE DEF weights, meta
  <2>5. CASE served' = served
    BY Zenon, <2>1, <2>4, <2>5 DEF LoaderOK
  <2>6. CASE served' = [weights |-> weights, stats |-> meta.stats, quiet |-> loader.quiet]
    <3>1. served'.weights = weights /\ served'.stats = meta.stats /\ served'.quiet = loader.quiet
      BY <2>6
    <3>2. loader'.file = Unloaded.file /\ loader'.quiet = FALSE
      BY <2>1, <2>4
    <3> QED
      BY ZenonT(30), <2>2, <2>3, <2>4, <3>1, <3>2 DEF LoaderOK
  <2> QED
    BY <2>1, <2>5, <2>6
<1> QED
  BY <1>1, <1>2, <1>3, <1>4, <1>5
     DEF Next, vars, start, load_preset, write_jsonl, make_loaders, epoch, evaluate_test, abort

(* A server that loads between two exports, the last one complete, scales  *)
(* its features the way its weights were trained.                          *)
THEOREM ServersAgree == Spec => []ServedAgrees
<1>1. LoadInv => ServedAgrees
  BY DEF LoadInv, LoaderOK, ServedAgrees
<1>2. Init => LoadInv
  BY InitFilesInv, InitLoaderOK DEF LoadInv
<1> QED
  BY <1>1, <1>2, NextLoadInv, PTL DEF Spec

(* No file and no server has weights of an epoch whose validation loss was *)
(* infinite or nan.                                                        *)
THEOREM WeightsAreFinite == Spec => []FiniteWeights
<1>1. LoadInv => FiniteWeights
  <2> SUFFICES ASSUME LoadInv, NEW f \in {files[n] : n \in Names} \cup {served.weights},
                      f.state = "whole"
               PROVE  f.loss # NaN /\ f.loss < Inf
    BY DEF FiniteWeights
  <2>1. FileOK(f)
    BY DEF LoadInv, LoaderOK, FilesInv, FilesOK
  <2> QED
    BY <2>1, LossAssumption DEF FileOK
<1>2. Init => LoadInv
  BY InitFilesInv, InitLoaderOK DEF LoadInv
<1> QED
  BY <1>1, <1>2, NextLoadInv, PTL DEF Spec

-----------------------------------------------------------------------------
(***************************************************************************)
(* The data set.                                                           *)
(***************************************************************************)
(* The first n of a sequence. *)
LEMMA FirstIs ==
  ASSUME NEW X, NEW s \in Seq(X), NEW n \in Nat
  PROVE  First(n, s) \in Seq(X) /\ Len(First(n, s)) \in 0 .. Len(s)
BY DEF First

(* No sample occurs twice. *)
Distinct(s) == \A i, j \in DOMAIN s : i # j => s[i] # s[j]

(* deduplicate() leaves each prompt once. *)
LEMMA DeduplicateIs ==
  ASSUME NEW X, NEW s \in Seq(X)
  PROVE  /\ deduplicate(s) \in Seq(X) /\ Len(deduplicate(s)) \in 0 .. Len(s)
         /\ Distinct(deduplicate(s))
<1> DEFINE S == {i \in DOMAIN s : \A j \in 1 .. i - 1 : s[j] # s[i]}
<1>1. S \in SUBSET DOMAIN s /\ deduplicate(s) = Keep(s, S)
  BY DEF deduplicate
<1>2. \A i, j \in S : i # j => s[i] # s[j]
  <2> SUFFICES ASSUME NEW i \in S, NEW j \in S, i < j PROVE s[i] # s[j]
    OBVIOUS
  <2>1. i \in 1 .. j - 1
    OBVIOUS
  <2> QED
    BY <2>1
<1> HIDE DEF S
<1>3. deduplicate(s) \in Seq(X) /\ Len(deduplicate(s)) \in 0 .. Len(s)
  BY <1>1, KeepIs
<1>4. ASSUME NEW k \in DOMAIN deduplicate(s), NEW l \in DOMAIN deduplicate(s), k # l
      PROVE  deduplicate(s)[k] # deduplicate(s)[l]
  <2>1. PICK i \in S, j \in S :
          i # j /\ deduplicate(s)[k] = s[i] /\ deduplicate(s)[l] = s[j]
    BY <1>1, <1>4, KeepDistinct
  <2> QED
    BY <1>2, <2>1
<1> QED
  BY <1>3, <1>4 DEF Distinct

(* What is in two sequences put together. *)
LEMMA ConcatSet ==
  ASSUME NEW X, NEW s \in Seq(X), NEW t \in Seq(X)
  PROVE  s \o t \in Seq(X) /\ Range(s \o t) = Range(s) \cup Range(t)
<1>1. /\ s \o t \in Seq(X) /\ Len(s \o t) = Len(s) + Len(t)
      /\ Len(s) \in Nat /\ Len(t) \in Nat
      /\ DOMAIN s = 1 .. Len(s) /\ DOMAIN t = 1 .. Len(t) /\ DOMAIN (s \o t) = 1 .. Len(s) + Len(t)
  OBVIOUS
<1>2. \A i \in 1 .. Len(s) : (s \o t)[i] = s[i] /\ i \in DOMAIN (s \o t)
  BY <1>1
<1>3. \A i \in 1 .. Len(t) : (s \o t)[Len(s) + i] = t[i] /\ Len(s) + i \in DOMAIN (s \o t)
  BY <1>1
<1>4. \A i \in DOMAIN (s \o t) :
        i \in 1 .. Len(s) \/ (i - Len(s) \in 1 .. Len(t) /\ i = Len(s) + (i - Len(s)))
  BY <1>1
<1>5. Range(s) \cup Range(t) \subseteq Range(s \o t)
  BY ZenonT(30), <1>1, <1>2, <1>3 DEF Range
<1>6. Range(s \o t) \subseteq Range(s) \cup Range(t)
  <2> SUFFICES ASSUME NEW i \in DOMAIN (s \o t) PROVE (s \o t)[i] \in Range(s) \cup Range(t)
    BY DEF Range
  <2>1. CASE i \in 1 .. Len(s)
    BY <1>1, <1>2, <2>1 DEF Range
  <2>2. CASE i - Len(s) \in 1 .. Len(t) /\ i = Len(s) + (i - Len(s))
    BY <1>1, <1>3, <2>2 DEF Range
  <2> QED
    BY <1>4, <2>1, <2>2
<1> QED
  BY <1>1, <1>5, <1>6

(* The training and the validation part leave room for each other. *)
LEMMA Shares ==
  ASSUME NEW n \in Nat, NEW t \in Nat, NEW v \in Nat, t + v <= 10
  PROVE  /\ (n * t) \div 10 \in Nat /\ (n * v) \div 10 \in Nat
         /\ ((n * t) \div 10) + ((n * v) \div 10) <= n
<1>1. n * (t + v) = n * t + n * v /\ n * (t + v) <= n * 10
  OBVIOUS
<1>2. PICK x \in Nat, y \in Nat : x = n * t /\ y = n * v
  OBVIOUS
<1>3. x + y <= n * 10
  BY <1>1, <1>2
<1>4. x \div 10 \in Nat /\ y \div 10 \in Nat /\ x \div 10 + y \div 10 <= n
  BY <1>3
<1> QED
  BY <1>2, <1>4

(* A slice of the permuted samples. *)
Cut(g, a, b) == [i \in 1 .. b |-> g[a + i]]
Between(g, lo, hi) == {g[i] : i \in lo .. hi}

LEMMA CutIs ==
  ASSUME NEW X, NEW n \in Nat, NEW g \in [1 .. n -> X], NEW a \in Nat, NEW b \in Nat, a + b <= n
  PROVE  /\ Cut(g, a, b) \in Seq(X)
         /\ Range(Cut(g, a, b)) = Between(g, a + 1, a + b)
<1>1. \A i \in 1 .. b : a + i \in 1 .. n /\ a + i \in a + 1 .. a + b
  OBVIOUS
<1>2. \A i \in a + 1 .. a + b : i - a \in 1 .. b /\ a + (i - a) = i
  OBVIOUS
<1>3. Cut(g, a, b) \in Seq(X)
  BY <1>1 DEF Cut
<1> QED
  BY ZenonT(30), <1>1, <1>2, <1>3 DEF Range, Cut, Between

(* split() of distinct samples separates them. *)
LEMMA SplitIs ==
  ASSUME NEW X, NEW s \in Seq(X), Len(s) <= Len(Rows) + Len(Attempts), Distinct(s),
         NEW t \in Nat, NEW v \in Nat, t + v <= 10
  PROVE  /\ Range(split(s, t, v).train) \cap Range(split(s, t, v).val \o split(s, t, v).test) = {}
         /\ Range(split(s, t, v).train \o split(s, t, v).val \o split(s, t, v).test) = Range(s)
<1> DEFINE n == Len(s)
           p == Permutation(n)
           a == (n * t) \div 10
           b == (n * v) \div 10
           c == n - (a + b)
           g == [i \in 1 .. n |-> s[p[i]]]
           train == Cut(g, 0, a)
           val == Cut(g, a, b)
           test == Cut(g, a + b, c)
<1>1. n \in Nat /\ s \in [1 .. n -> X] /\ DOMAIN s = 1 .. n
  OBVIOUS
<1>2. a \in Nat /\ b \in Nat /\ a + b <= n
  BY <1>1, Shares
<1>3. c \in Nat /\ a + b \in Nat /\ (a + b) + c = n /\ a <= n /\ 0 + a = a
  BY <1>1, <1>2
<1>4. p \in [1 .. n -> 1 .. n] /\ (\A i, j \in 1 .. n : p[i] = p[j] => i = j)
      /\ \A i \in 1 .. n : \E j \in 1 .. n : p[j] = i
  <2>1. n \in 0 .. Len(Rows) + Len(Attempts)
    BY <1>1, DataAssumption
  <2>2. p \in Bijection(1 .. n, 1 .. n)
    BY <2>1, PermutationAssumption
  <2> HIDE DEF n, p
  <2> QED
    BY <2>2 DEF Bijection, Injection, Surjection, IsInjective
<1>5. g \in [1 .. n -> X]
  BY <1>1, <1>4
<1>6. \A i, j \in 1 .. n : i # j => g[i] # g[j]
  BY ZenonT(30), <1>1, <1>4 DEF Distinct
<1>7. Range(s) = {g[i] : i \in 1 .. n}
  BY <1>1, <1>4 DEF Range
<1>8. split(s, t, v).train = train /\ split(s, t, v).val = val /\ split(s, t, v).test = test
  <2>1. \A i \in 1 .. a : 1 + i - 1 = i /\ i \in 1 .. n /\ 0 + i = i
    BY <1>2, <1>1
  <2>2. \A i \in 1 .. b : a + 1 + i - 1 = a + i /\ a + i \in 1 .. n
    BY <1>2, <1>1
  <2>3. \A i \in 1 .. c : a + b + 1 + i - 1 = a + b + i /\ a + b + i \in 1 .. n
    BY <1>2, <1>1
  <2>4. a - 1 + 1 = a /\ a + b - (a + 1) + 1 = b /\ n - (a + b + 1) + 1 = c
    BY <1>2, <1>1
  <2>5. split(s, t, v) =
          [train |-> [i \in 1 .. a - 1 + 1 |-> s[p[1 + i - 1]]],
           val |-> [i \in 1 .. a + b - (a + 1) + 1 |-> s[p[a + 1 + i - 1]]],
           test |-> [i \in 1 .. n - (a + b + 1) + 1 |-> s[p[a + b + 1 + i - 1]]]]
    BY DEF split
  <2> HIDE DEF a, b, c, n, p
  <2> QED
    BY <2>1, <2>2, <2>3, <2>4, <2>5 DEF Cut
<1> HIDE DEF n, p, a, b, c, g
<1>9. /\ train \in Seq(X) /\ Range(train) = Between(g, 1, a)
      /\ val \in Seq(X) /\ Range(val) = Between(g, a + 1, a + b)
      /\ test \in Seq(X) /\ Range(test) = Between(g, a + b + 1, n)
  <2>1. train \in Seq(X) /\ Range(train) = Between(g, 0 + 1, 0 + a)
    BY <1>1, <1>2, <1>3, <1>5, CutIs
  <2>2. val \in Seq(X) /\ Range(val) = Between(g, a + 1, a + b)
    BY <1>1, <1>2, <1>3, <1>5, CutIs
  <2>3. PICK m \in Nat : m = a + b
    BY <1>3
  <2>4. Cut(g, m, c) \in Seq(X) /\ Range(Cut(g, m, c)) = Between(g, m + 1, m + c)
    BY <1>1, <1>3, <1>5, <2>3, CutIs
  <2>5. 0 + 1 = 1 /\ 0 + a = a /\ m + c = n
    BY <1>3, <2>3
  <2> QED
    BY <2>1, <2>2, <2>3, <2>4, <2>5
<1> HIDE DEF train, val, test
<1>10. Range(val \o test) = Range(val) \cup Range(test)
  BY <1>9, ConcatSet
<1>11. Range(train \o val \o test) = Range(train) \cup Range(val) \cup Range(test)
  <2>0. train \o val \in Seq(X) /\ Range(train \o val) = Range(train) \cup Range(val)
    BY <1>9, ConcatSet
  <2>1. PICK u \in Seq(X) : u = train \o val /\ Range(u) = Range(train) \cup Range(val)
    BY Zenon, <2>0
  <2>2. Range(u \o test) = Range(u) \cup Range(test)
    BY <1>9, ConcatSet
  <2> QED
    BY <2>1, <2>2
<1>12. /\ 1 .. a \subseteq 1 .. n /\ a + 1 .. a + b \subseteq 1 .. n /\ a + b + 1 .. n \subseteq 1 .. n
       /\ \A i \in 1 .. a : i \notin a + 1 .. a + b /\ i \notin a + b + 1 .. n
       /\ \A i \in 1 .. n : i \in 1 .. a \/ i \in a + 1 .. a + b \/ i \in a + b + 1 .. n
  BY <1>1, <1>2, <1>3
<1>13. Range(train) \cap Range(val \o test) = {}
  BY Zenon, <1>6, <1>9, <1>10, <1>12 DEF Between
<1>14. Range(train \o val \o test) = Range(s)
  BY Zenon, <1>7, <1>9, <1>11, <1>12 DEF Between
<1> QED
  BY <1>8, <1>13, <1>14

-----------------------------------------------------------------------------
(* Where samples come from, and how many there can be. *)
Prompts == Range(Rows) \cup Range(Attempts)
Source(s) == s \in Seq(Prompts) /\ Len(s) <= Len(Rows) + Len(Attempts)

(* What a job has in memory, once it is past loading, is without repeats;  *)
(* evaluate.py, which does not deduplicate, never gets to train.           *)
DataInv ==
  /\ JobOK
  /\ job.max_samples \in Nat
  /\ cache \in [{c.max_samples : c \in Configs} -> [state : {"absent", "lines", "torn"}, lines : Nat]]
  /\ job.at \in {"load", "cache"} => job.max_samples \in {c.max_samples : c \in Configs}
  /\ job.kind = "evaluate" => job.at \in {"load", "cache", "evaluation"}
  /\ job.at \notin {"idle", "load", "cache"} /\ job.kind # "evaluate" =>
       Source(samples) /\ Distinct(samples)

LEMMA Widen ==
  ASSUME NEW s, s \in Seq(Range(Rows)) \/ s \in Seq(Range(Attempts))
  PROVE  s \in Seq(Prompts)
BY DEF Prompts

LEMMA RecordsIs ==
  ASSUME NEW m \in Nat
  PROVE  Source(Records(m)) /\ Records(m) \in Seq(Range(Rows)) /\ Len(Records(m)) \in 0 .. Len(Rows)
<1> DEFINE f == First(m, Rows)
           S == {i \in DOMAIN f : f[i] # NoPrompt}
<1>1. f \in Seq(Range(Rows)) /\ Len(f) \in 0 .. Len(Rows)
  BY DataAssumption, FirstIs
<1>2. Records(m) = Keep(f, S) /\ S \in SUBSET DOMAIN f
  BY DEF Records, from_records
<1> HIDE DEF f, S
<1>3. Records(m) \in Seq(Range(Rows)) /\ Len(Records(m)) \in 0 .. Len(f)
  BY <1>1, <1>2, KeepIs
<1>4. Len(Records(m)) \in 0 .. Len(Rows) /\ Len(Attempts) \in Nat
  BY <1>1, <1>3, DataAssumption
<1> QED
  BY <1>3, <1>4, Widen, DataAssumption DEF Source

LEMMA FromJsonlIs ==
  ASSUME NEW m \in Nat, NEW l \in Nat
  PROVE  Source(from_jsonl(l, Records(m)))
<1> DEFINE f == First(l, Records(m))
           S == {i \in DOMAIN f : f[i] # NoPrompt}
<1>1. f \in Seq(Range(Rows)) /\ Len(f) \in 0 .. Len(Records(m))
  BY RecordsIs, FirstIs
<1>2. from_jsonl(l, Records(m)) = Keep(f, S) /\ S \in SUBSET DOMAIN f
  BY DEF from_jsonl, from_records
<1> HIDE DEF f, S
<1>3. /\ from_jsonl(l, Records(m)) \in Seq(Range(Rows))
      /\ Len(from_jsonl(l, Records(m))) \in 0 .. Len(f)
  BY <1>1, <1>2, KeepIs
<1>4. Len(Attempts) \in Nat /\ Len(Rows) \in Nat
  BY DataAssumption
<1>5. Len(Records(m)) \in 0 .. Len(Rows)
  BY RecordsIs
<1> QED
  BY <1>1, <1>3, <1>4, <1>5, Widen DEF Source

LEMMA SyntheticIs ==
  ASSUME NEW m \in Nat
  PROVE  Source(generate_synthetic(m))
<1> DEFINE f == First(3 * m, Attempts)
           d == deduplicate(f)
<1>1. f \in Seq(Range(Attempts)) /\ Len(f) \in 0 .. Len(Attempts)
  <2>1. 3 * m \in Nat
    OBVIOUS
  <2> QED
    BY <2>1, DataAssumption, FirstIs
<1> HIDE DEF f
<1>2. d \in Seq(Range(Attempts)) /\ Len(d) \in 0 .. Len(f)
  BY <1>1, DeduplicateIs
<1> HIDE DEF d
<1>3. First(m, d) \in Seq(Range(Attempts)) /\ Len(First(m, d)) \in 0 .. Len(d)
  BY <1>2, FirstIs
<1>4. generate_synthetic(m) = First(m, d)
  BY Zenon DEF generate_synthetic, f, d
<1>5. Len(Attempts) \in Nat /\ Len(Rows) \in Nat
  BY DataAssumption
<1> QED
  BY <1>1, <1>2, <1>3, <1>4, <1>5, Widen DEF Source

LEMMA TakeIs ==
  ASSUME NEW s, Source(s), Take(s), job.kind \in {"train", "resume", "prepare", "evaluate"}
  PROVE  /\ job'.kind = job.kind /\ job'.max_samples = job.max_samples
         /\ job'.at \in {"train", "resume_base", "dataset", "evaluation"}
         /\ job.kind = "evaluate" => job'.at = "evaluation"
         /\ job.kind # "evaluate" => Source(samples') /\ Distinct(samples')
<1>1. Loaded \in {"train", "resume_base", "dataset", "evaluation"}
      /\ (job.kind = "evaluate" => Loaded = "evaluation")
  BY DEF Loaded
<1>2. job' = At(Loaded, FALSE)
  BY ZenonT(30), <1>1 DEF Take, Goto
<1>3. ASSUME job.kind # "evaluate" PROVE Source(samples') /\ Distinct(samples')
  <2>1. samples' = deduplicate(s)
    BY <1>3 DEF Take
  <2>2. s \in Seq(Prompts) /\ Len(s) <= Len(Rows) + Len(Attempts) /\ Len(s) \in Nat
    BY DEF Source
  <2>3. /\ deduplicate(s) \in Seq(Prompts) /\ Len(deduplicate(s)) \in 0 .. Len(s)
        /\ Distinct(deduplicate(s))
    BY <2>2, DeduplicateIs
  <2>4. Len(deduplicate(s)) <= Len(Rows) + Len(Attempts)
    BY <2>2, <2>3, DataAssumption
  <2> QED
    BY <2>1, <2>3, <2>4 DEF Source
<1>4. job'.kind = job.kind /\ job'.max_samples = job.max_samples /\ job'.at = Loaded
  BY <1>2 DEF At
<1> QED
  BY <1>1, <1>3, <1>4

(* A job that goes on keeps its samples, or ends. *)
LEMMA GoOn ==
  ASSUME DataInv, JobOK', UNCHANGED <<samples, cache>>, job.at \notin {"idle", "load", "cache"},
         \/ job' = Idle
         \/ /\ job'.kind = job.kind /\ job'.max_samples = job.max_samples
            /\ job'.at \notin {"load", "cache"}
            /\ job.kind = "evaluate" => job'.at = "evaluation"
  PROVE  DataInv'
<1>1. CASE job' = Idle
  BY <1>1 DEF DataInv, Idle
<1>2. CASE job' # Idle
  BY <1>2 DEF DataInv, Source, Distinct
<1> QED
  BY <1>1, <1>2

LEMMA GotoGoesOn ==
  ASSUME NEW at, Goto(at)
  PROVE  \/ job' = Idle
         \/ /\ job'.kind = job.kind /\ job'.max_samples = job.max_samples
            /\ job'.at = at
BY DEF Goto, At

LEMMA LoadPresetData ==
  ASSUME DataInv, JobOK', load_preset
  PROVE  DataInv'
<1> DEFINE m == job.max_samples
<1>1. /\ job.at = "load" /\ m \in Nat /\ m \in {c.max_samples : c \in Configs}
      /\ job.kind \in {"train", "resume", "prepare", "evaluate"}
      /\ cache[m].lines \in Nat
  BY DEF load_preset, DataInv, JobOK
<1>2. CASE Raise /\ UNCHANGED cache
  BY <1>2 DEF Raise, Goto, DataInv, Idle
<1>3. ASSUME NEW s, Source(s), Take(s), UNCHANGED cache PROVE DataInv'
  BY <1>1, <1>3, TakeIs DEF DataInv
<1>4. CASE /\ cache' = [cache EXCEPT ![m] = [state |-> "lines", lines |-> 0]]
           /\ Goto("cache") /\ UNCHANGED samples
  <2>1. cache' \in [{c.max_samples : c \in Configs} -> [state : {"absent", "lines", "torn"}, lines : Nat]]
    BY ZenonT(30), <1>4 DEF DataInv
  <2>2. job'.at = "cache" /\ job'.kind = job.kind /\ job'.max_samples = m
    BY <1>4 DEF Goto, At
  <2> QED
    BY <1>1, <2>1, <2>2 DEF DataInv
<1>5. Source(generate_synthetic(m)) /\ Source(from_jsonl(cache[m].lines, Records(m)))
  BY <1>1, SyntheticIs, FromJsonlIs
<1> QED
  BY <1>2, <1>3, <1>4, <1>5 DEF load_preset

LEMMA WriteJsonlData ==
  ASSUME DataInv, JobOK', write_jsonl
  PROVE  DataInv'
<1> DEFINE m == job.max_samples
<1>1. /\ job.at = "cache" /\ m \in Nat /\ m \in {c.max_samples : c \in Configs}
      /\ job.kind \in {"train", "resume", "prepare", "evaluate"}
      /\ cache' = [cache EXCEPT ![m].lines = Len(Records(m))] /\ Take(Records(m))
  BY DEF write_jsonl, DataInv, JobOK
<1>2. Source(Records(m)) /\ Len(Records(m)) \in Nat
  BY <1>1, RecordsIs, DataAssumption
<1>3. cache' \in [{c.max_samples : c \in Configs} -> [state : {"absent", "lines", "torn"}, lines : Nat]]
  BY <1>1, <1>2 DEF DataInv
<1> QED
  BY <1>1, <1>2, <1>3, TakeIs DEF DataInv

LEMMA AbortData ==
  ASSUME DataInv, JobOK', abort
  PROVE  DataInv'
<1> DEFINE m == job.max_samples
<1>1. job' = Idle /\ m \in Nat
  BY DEF abort, DataInv
<1>2. Len(Records(m)) \in Nat
  BY <1>1, RecordsIs, DataAssumption
<1>3. cache' \in [{c.max_samples : c \in Configs} -> [state : {"absent", "lines", "torn"}, lines : Nat]]
  <2>1. CASE UNCHANGED cache
    BY <2>1 DEF DataInv
  <2>2. ASSUME NEW k \in 0 .. Len(Records(m)), cache' = [cache EXCEPT ![m].lines = k]
        PROVE  cache' \in [{c.max_samples : c \in Configs}
                             -> [state : {"absent", "lines", "torn"}, lines : Nat]]
    <3>1. k \in Nat
      BY <1>2
    <3> QED
      BY Zenon, <2>2, <3>1 DEF DataInv
  <2>3. CASE cache' = [cache EXCEPT ![m].state = "torn"]
    BY ZenonT(30), <2>3 DEF DataInv
  <2> QED
    BY Zenon, <2>1, <2>2, <2>3 DEF abort
<1> QED
  BY <1>1, <1>3 DEF DataInv, Idle

LEMMA NextDataInv == DataInv /\ [Next]_vars => DataInv'
<1> SUFFICES ASSUME DataInv, [Next]_vars PROVE DataInv'
  OBVIOUS
<1>0. JobOK /\ JobOK'
  BY NextJobOK DEF DataInv
<1>1. ASSUME NEW k \in {"train", "resume", "prepare", "evaluate"}, NEW c \in Configs, start(k, c)
      PROVE  DataInv'
  <2>1. /\ job'.at = "load" /\ job'.max_samples = c.max_samples /\ UNCHANGED cache
        /\ c.max_samples \in Nat
    BY <1>1, SizeAssumption DEF start
  <2> QED
    BY <1>0, <2>1 DEF DataInv
<1>2. CASE make_loaders \/ evaluate_test
  <2>1. /\ job.at \in {"train", "result"} /\ UNCHANGED <<samples, cache>>
        /\ (Goto("idle") \/ Goto("pt"))
    BY <1>2 DEF make_loaders, evaluate_test, Raise
  <2>2. job.kind # "evaluate"
    BY <2>1 DEF DataInv
  <2>3. \/ job' = Idle
        \/ /\ job'.kind = job.kind /\ job'.max_samples = job.max_samples
           /\ job'.at \in {"idle", "pt"}
    BY <2>1, GotoGoesOn
  <2> QED
    BY <1>0, <2>1, <2>2, <2>3, GoOn
<1>3. ASSUME NEW loss \in EvalLosses, epoch(loss) PROVE DataInv'
  <2>1. /\ job.at = "train" /\ UNCHANGED <<samples, cache>>
        /\ (Goto("best") \/ Goto("result") \/ Goto("train"))
    BY <1>3 DEF epoch
  <2>2. job.kind # "evaluate"
    BY <2>1 DEF DataInv
  <2>3. \/ job' = Idle
        \/ /\ job'.kind = job.kind /\ job'.max_samples = job.max_samples
           /\ job'.at \in {"best", "result", "train"}
    BY <2>1, GotoGoesOn
  <2> QED
    BY <1>0, <2>1, <2>2, <2>3, GoOn
<1>4. CASE open_file
  <2>1. /\ job.at \in Names /\ UNCHANGED <<samples, cache>>
        /\ (job' = Idle \/ job' = At(job.at, TRUE))
    BY ZenonT(30), <1>4, OpenGoes DEF open_file
  <2>2. job.at \notin {"idle", "load", "cache"}
    BY <2>1 DEF Names, Artifacts
  <2>3. job' = At(job.at, TRUE) =>
          job'.kind = job.kind /\ job'.max_samples = job.max_samples /\ job'.at = job.at
    BY DEF At
  <2> QED
    BY Zenon, <1>0, <2>1, <2>2, <2>3, GoOn DEF DataInv
<1>5. CASE close_file
  <2>1. job.at \in Names /\ UNCHANGED <<samples, cache>> /\ Goto(AfterWriting)
    BY <1>0, <1>5 DEF close_file, JobOK
  <2>2. /\ job.at \notin {"idle", "load", "cache"} /\ AfterWriting \notin {"load", "cache"}
        /\ job.at = "evaluation" => AfterWriting = "idle"
    BY <2>1, AfterWritingAt DEF Names, Artifacts
  <2>3. AfterWriting = "idle" => job' = Idle
    BY <2>1 DEF Goto
  <2>4. job.kind = "evaluate" => job.at = "evaluation"
    BY <2>2 DEF DataInv
  <2> QED
    BY <1>0, <2>1, <2>2, <2>3, <2>4, GotoGoesOn, GoOn
<1>6. CASE UNCHANGED <<job, samples, cache>>
  BY <1>0, <1>6 DEF DataInv, Source, Distinct
<1> QED
  BY ZenonT(30), <1>0, <1>1, <1>2, <1>3, <1>4, <1>5, <1>6, LoadPresetData, WriteJsonlData, AbortData
     DEF Next, vars, load_first, load_second

(* The training part, and so its mean and deviation, has no prompt in      *)
(* common with the validation and the test part that split() makes, and    *)
(* the three together are all samples: for any data set with any repeated  *)
(* prompts, cut off or read from a cache that a killed job left            *)
(* incomplete, any permutation and any ratios.                             *)
THEOREM PartsHeldOut == Spec => []HeldOut
<1>1. Init => DataInv
  BY DEF Init, DataInv, JobOK, Idle, Stops
<1>2. DataInv => HeldOut
  <2> SUFFICES ASSUME DataInv, Training
               PROVE  /\ Stats \cap Range(splits.val \o splits.test) = {}
                      /\ Range(splits.train \o splits.val \o splits.test) = Range(samples)
    BY DEF HeldOut
  <2>1. job.kind # "evaluate" /\ job.at \notin {"idle", "load", "cache"}
    BY DEF DataInv, Training, Artifacts
  <2>2. splits = split(samples, TrainRatio, ValRatio)
    BY <2>1 DEF splits
  <2>3. /\ samples \in Seq(Prompts) /\ Len(samples) <= Len(Rows) + Len(Attempts)
        /\ Distinct(samples)
    BY <2>1 DEF DataInv, Source
  <2>4. TrainRatio \in Nat /\ ValRatio \in Nat /\ TrainRatio + ValRatio <= 10
    BY SizeAssumption
  <2>5. LET p == split(samples, TrainRatio, ValRatio)
        IN /\ Range(p.train) \cap Range(p.val \o p.test) = {}
           /\ Range(p.train \o p.val \o p.test) = Range(samples)
    BY Zenon, <2>3, <2>4, SplitIs
  <2> QED
    BY Zenon, <2>2, <2>5 DEF Stats
<1> QED
  BY <1>1, <1>2, NextDataInv, PTL DEF Spec

=============================================================================
