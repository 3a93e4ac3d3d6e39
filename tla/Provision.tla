------------------------------ MODULE Provision ------------------------------
(***************************************************************************)
(* The preparation of the Python environment and the model of Qwen         *)
(* (integrations/qwen/provision.py, models.py): one sequential program     *)
(* whose state is on the disk.  It may be cancelled, fail or be killed     *)
(* before and after every write, and the application may be replaced by a  *)
(* newer or an older version between two preparations.                     *)
(*                                                                         *)
(* A write that takes long is two steps: in between the target is partial. *)
(***************************************************************************)
EXTENDS Naturals

CONSTANTS
  Versions,   \* of the application: each has its packages, service and converter
  MaxBegins,  \* bound: preparations
  MaxFaults   \* bound: cancellations, errors, crashes, replaced versions, damaged files

ProvisionAssumption ==
  Versions # {} /\ MaxBegins \in Nat /\ MaxFaults \in Nat /\ {"none", "mixed", "python"} \cap Versions = {}

\* What the user points at: nothing (the model is fetched), a model in the
\* original format, an OpenVINO model without its tokenizer, a whole one.
Kinds == {"fetch", "original", "tokenizer", "openvino"}
Identities == (Kinds \ {"openvino"}) \X Versions
Archives == {"python", "weights"} \cup Versions

VARIABLES
  app,        \* the version that runs
  downloads,  \* archives under downloads/<digest>
  runtime,    \* what is installed, and the version its marker names
  source,     \* files of the fetched model
  folder,     \* the user's own model folder: as given or written to
  input, work, dest,   \* private copies, work folders and converted models
  job,        \* kind of the preparation in hand and its next step
  registered, \* the model of the last preparation that ended well
  begins, faults

disk == <<downloads, runtime, source, folder, input, work, dest>>
vars == <<app, disk, job, registered, begins, faults>>

Nothing == <<"none", "none">>
Idle == [kind |-> "none", at |-> "idle"]
Id == <<job.kind, app>>

Init ==
  /\ app \in Versions
  /\ downloads = [a \in Archives |-> "none"]
  /\ runtime = [has |-> "none", marker |-> "none"]
  /\ source = [f \in {"weights", "config"} |-> "none"] /\ folder = "given"
  /\ input = [i \in Identities |-> "none"] /\ work = [i \in Identities |-> "none"]
  /\ dest = [i \in Identities |-> "none"]
  /\ job = Idle /\ registered = Nothing /\ begins = 0 /\ faults = 0

-----------------------------------------------------------------------------
At(step) == job.at = step
Goes(step) == job' = [job EXCEPT !.at = step]
Rest == UNCHANGED <<app, registered, begins, faults>>
Only(others) == UNCHANGED others /\ Rest

Begin(kind) ==
  /\ job = Idle /\ begins < MaxBegins /\ begins' = begins + 1
  /\ job' = [kind |-> kind, at |-> "runtime"]
  /\ UNCHANGED <<app, disk, registered, faults>>

\* An error of any kind, a cancellation, or the end of the program: nothing is
\* undone, except that a finished download of the wrong content is deleted.
Stop == job # Idle /\ faults < MaxFaults /\ faults' = faults + 1 /\ job' = Idle /\ UNCHANGED <<app, disk, registered, begins>>

Replace ==
  /\ job = Idle /\ faults < MaxFaults /\ faults' = faults + 1
  /\ app' \in Versions \ {app} /\ UNCHANGED <<disk, job, registered, begins>>

\* Files of the managed area are lost while nothing runs.
Damage ==
  /\ job = Idle /\ faults < MaxFaults /\ faults' = faults + 1
  /\ \/ \E a \in Archives : downloads[a] = "good" /\ downloads' = [downloads EXCEPT ![a] = "bad"]
        /\ UNCHANGED <<source, dest>>
     \/ \E i \in Identities : dest[i] = "marked" /\ dest' = [dest EXCEPT ![i] = "damaged"]
        /\ UNCHANGED <<source, downloads>>
     \/ source.weights = "good" /\ source' = [source EXCEPT !.weights = "partial"] /\ UNCHANGED <<dest, downloads>>
  /\ UNCHANGED <<app, runtime, folder, input, work, job, registered, begins>>

-----------------------------------------------------------------------------
(***************************************************************************)
(* runtime                                                                 *)
(***************************************************************************)
RuntimeReady == runtime.marker = app /\ runtime.has # "none"

RuntimeCheck ==
  /\ At("runtime")
  /\ Goes(IF ~RuntimeReady THEN "unlink" ELSE IF job.kind = "fetch" THEN "weights" ELSE "validate")
  /\ Only(disk)

\* Mutant: the marker of the version before stays until the new one is written.
KeepMarker == runtime' = runtime
Unlink == runtime' = [runtime EXCEPT !.marker = "none"]
RuntimeUnlink ==
  At("unlink") /\ Unlink /\ Goes("python")
  /\ Only(<<downloads, source, folder, input, work, dest>>)

\* download: a file of the right content is used again, another is replaced
\* once the content is verified.  Mutant: it is used again by its name.
ByName(a) == downloads[a] # "none"
Verified(a) == downloads[a] = "good"

Download(a, from, to) ==
  /\ At(from) /\ Goes(to)
  /\ downloads' = IF Verified(a) THEN downloads ELSE [downloads EXCEPT ![a] = "good"]
  /\ Only(<<runtime, source, folder, input, work, dest>>)

\* The content is wrong: the temporary file is deleted, the target stays.
DownloadFails(a, from) ==
  /\ At(from) /\ ~Verified(a) /\ faults < MaxFaults /\ faults' = faults + 1
  /\ job' = Idle /\ UNCHANGED <<app, disk, registered, begins>>

Install(from, has, to) ==
  /\ At(from) /\ runtime' = [runtime EXCEPT !.has = has] /\ Goes(to)
  /\ Only(<<downloads, source, folder, input, work, dest>>)

RuntimeExtract ==
  /\ At("extract") /\ runtime' = [runtime EXCEPT !.has = "mixed"] /\ Goes("packages")
  /\ Only(<<downloads, source, folder, input, work, dest>>)

RuntimeMark ==
  /\ At("mark") /\ runtime' = [runtime EXCEPT !.marker = app]
  /\ Goes(IF job.kind = "fetch" THEN "weights" ELSE "validate")
  /\ Only(<<downloads, source, folder, input, work, dest>>)

Runtime ==
  \/ RuntimeCheck \/ RuntimeUnlink \/ RuntimeExtract \/ RuntimeMark
  \/ Download("python", "python", "extract") \/ DownloadFails("python", "python")
  \/ Download(app, "packages", "install") \/ DownloadFails(app, "packages")
  \/ Install("install", "mixed", "service") \/ Install("service", app, "mark")

-----------------------------------------------------------------------------
(***************************************************************************)
(* fetch_model: a large file is copied from its download, a small one is   *)
(* verified in memory and always written again.                            *)
(***************************************************************************)
FetchFile(file, from, content, to) ==
  /\ At(from) /\ source' = [source EXCEPT ![file] = content] /\ Goes(to)
  /\ Only(<<downloads, runtime, folder, input, work, dest>>)

FetchTest ==
  /\ At("copyWeights") /\ Goes(IF source.weights = "good" THEN "config" ELSE "copy1") /\ Only(disk)

Fetch ==
  \/ Download("weights", "weights", "copyWeights") \/ DownloadFails("weights", "weights") \/ FetchTest
  \/ FetchFile("weights", "copy1", "partial", "copy2") \/ FetchFile("weights", "copy2", "good", "config")
  \/ FetchFile("config", "config", "partial", "config2") \/ FetchFile("config", "config2", "good", "validate")

-----------------------------------------------------------------------------
(***************************************************************************)
(* prepare, once the environment and the source are there.                 *)
(***************************************************************************)
\* Mutant: the kind of the source is kept for the next preparation.
KeepKind == job' = [job EXCEPT !.at = "idle"]
Ended == job' = Idle
Done(model) == Ended /\ registered' = model /\ UNCHANGED <<app, begins, faults>>

\* An OpenVINO model is used where it lies.
ValidateSource ==
  /\ At("validate")
  /\ IF job.kind = "openvino" THEN Done(<<"openvino", app>>) ELSE Goes("find") /\ Rest
  /\ UNCHANGED disk

\* Mutant: what was converted before is converted again.
Never == FALSE
Converted == dest[Id] = "marked"

FindConverted ==
  /\ At("find") /\ UNCHANGED disk
  /\ IF Converted THEN Done(Id) ELSE Goes("clear") /\ Rest

\* Mutant: the folders of an interrupted conversion stay.
LeaveWork == work' = work /\ input' = input
RemoveWork ==
  /\ work' = [work EXCEPT ![Id] = "none"]
  /\ input' = IF job.kind = "tokenizer" THEN input ELSE [input EXCEPT ![Id] = "none"]

ClearWork ==
  /\ At("clear") /\ RemoveWork /\ Goes(IF job.kind = "tokenizer" THEN "copyWork" ELSE "copyInput")
  /\ Only(<<downloads, runtime, source, folder, dest>>)

\* copytree refuses a target that exists.
CopyStart(dir, from, to) ==
  At(from) /\ dir[Id] = "none" /\ dir' = [dir EXCEPT ![Id] = "partial"] /\ Goes(to)
CopyEnd(dir, from, content, to) ==
  At(from) /\ dir' = [dir EXCEPT ![Id] = content] /\ Goes(to)

CopyModel ==
  \/ /\ \/ CopyStart(work, "copyWork", "copyingWork") \/ CopyEnd(work, "copyingWork", "exported", "tokenizer")
     /\ Only(<<downloads, runtime, source, folder, input, dest>>)
  \/ /\ \/ CopyStart(input, "copyInput", "copyingInput") \/ CopyEnd(input, "copyingInput", "copied", "export")
     /\ Only(<<downloads, runtime, source, folder, work, dest>>)

\* An exporter may write beside its input.  Mutant: it is given the source itself.
FromSource == folder' = IF job.kind = "original" THEN "written" ELSE folder
FromCopy == folder' = folder

ExportStart ==
  /\ At("export") /\ work' = [work EXCEPT ![Id] = "partial"] /\ FromCopy /\ Goes("exporting")
  /\ Only(<<downloads, runtime, source, input, dest>>)

Finish(from, content, to) ==
  /\ At(from) /\ work' = [work EXCEPT ![Id] = content] /\ Goes(to)
  /\ Only(<<downloads, runtime, source, folder, input, dest>>)

\* validate_model finds every file of an OpenVINO model.
RemoveOld ==
  /\ At("old") /\ work[Id] = "whole" /\ dest' = [dest EXCEPT ![Id] = "none"] /\ Goes("move")
  /\ Only(<<downloads, runtime, source, folder, input, work>>)

MoveWork ==
  /\ At("move") /\ dest[Id] = "none"
  /\ dest' = [dest EXCEPT ![Id] = "unmarked"] /\ work' = [work EXCEPT ![Id] = "none"] /\ Goes("markModel")
  /\ Only(<<downloads, runtime, source, folder, input>>)

MarkModel ==
  /\ At("markModel") /\ dest' = [dest EXCEPT ![Id] = "marked"] /\ Done(Id)
  /\ UNCHANGED <<downloads, runtime, source, folder, input, work>>

Convert ==
  \/ ValidateSource \/ FindConverted \/ ClearWork \/ CopyModel \/ ExportStart
  \/ Finish("exporting", "exported", "tokenizer") \/ Finish("tokenizer", "partial", "tokenizing")
  \/ Finish("tokenizing", "whole", "old") \/ RemoveOld \/ MoveWork \/ MarkModel

Prepare == Runtime \/ Fetch \/ Convert
Next == (\E k \in Kinds : Begin(k)) \/ Stop \/ Replace \/ Damage \/ Prepare

Spec == Init /\ [][Next]_vars

\* A preparation that is neither stopped nor killed goes on.
FairSpec == Spec /\ WF_vars(Prepare)

-----------------------------------------------------------------------------
\* Types, and the running job names a known step.
TypeOK ==
  /\ app \in Versions /\ registered \in (Kinds \X Versions) \cup {Nothing}
  /\ downloads \in [Archives -> {"none", "bad", "good"}]
  /\ runtime \in [has : Versions \cup {"none", "mixed"}, marker : Versions \cup {"none"}]
  /\ source \in [{"weights", "config"} -> {"none", "partial", "good"}] /\ folder \in {"given", "written"}
  /\ input \in [Identities -> {"none", "partial", "copied"}]
  /\ work \in [Identities -> {"none", "partial", "exported", "whole"}]
  /\ dest \in [Identities -> {"none", "damaged", "unmarked", "marked"}]
  /\ job.kind \in Kinds \cup {"none"} /\ (job.kind = "none") = At("idle") /\ begins \in Nat /\ faults \in Nat

\* An environment that passes for ready has all the packages of the version
\* its marker names, whatever was interrupted, updated and downgraded before.
MarkedIsWhole == runtime.marker # "none" => runtime.has = runtime.marker

\* Nothing is installed, and no model is converted, from a file that was not
\* verified in this preparation.
OnlyVerified ==
  /\ At("extract") => downloads.python = "good"
  /\ At("install") => downloads[app] = "good"
  /\ At("find") /\ job.kind = "fetch" => source.weights = "good" /\ source.config = "good"

\* No preparation takes a usable converted model away: it may be the one that
\* is registered, and the preparation may be stopped before there is another.
UsableStays == [][\A i \in Identities : dest[i] = "marked" => dest'[i] \in {"marked", "damaged"}]_vars

\* The user's folder is only read.
FolderUntouched == folder = "given"

\* No trace of an interrupted preparation stands in the way of the next one:
\* from any disk, an undisturbed preparation ends with its model registered.
RetrySucceeds ==
  \A k \in Kinds :
    (job.kind = k /\ At("runtime") /\ faults = MaxFaults) ~> (job = Idle /\ registered = <<k, app>>)
=============================================================================
