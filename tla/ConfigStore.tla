----------------------------- MODULE ConfigStore -----------------------------
(***************************************************************************)
(* The settings file (integrations/storage/config.py) through the start of *)
(* the program (host/composition.py), saves, failing writes, crashes and a *)
(* second start beside the first.  Every start loads the file, converts an *)
(* older schema behind a backup, saves once more with the settings of the  *)
(* plugins, and only then opens the dictionary, which takes the lock that  *)
(* a second program fails on.                                              *)
(*                                                                         *)
(* The saves go through one temporary path; a file that is open keeps its  *)
(* content apart from its name.  What a crash leaves is what was written:  *)
(* the loss of written pages with the machine is left out.  Documents are  *)
(* numbered by the save that made them; schemas 1 and 2 are one.           *)
(***************************************************************************)
EXTENDS Naturals, FiniteSets, FiniteSetsExt

CONSTANTS
  Programs,   \* processes a user may have started
  Windows,    \* a file that is open cannot be replaced or deleted
  MaxSaves, MaxCrashes, MaxFaults  \* bounds: settings saved, crashes, I/O errors

StoreAssumption ==
  /\ IsFiniteSet(Programs) /\ Windows \in BOOLEAN
  /\ {MaxSaves, MaxCrashes, MaxFaults} \subseteq Nat

Files == 1 .. Cardinality(Programs) + 2
Nowhere == 0
NoDocument == [schema |-> 0, value |-> 0, whole |-> FALSE]
Old == [schema |-> 1, value |-> 0, whole |-> TRUE]
Current(v) == [schema |-> 3, value |-> v, whole |-> TRUE]
Part(d) == [d EXCEPT !.whole = FALSE]

VARIABLES
  original,       \* what was there before the first start
  config, temp,   \* the files the two paths name
  content,        \* of every file
  backup,         \* config.json.schema1.bak
  program,        \* of every process: where it is, the settings in memory,
                  \* the settings it saves, where it goes then, its open file
  owner,          \* the process that holds the dictionary
  saves, crashes, faults  \* counted so far

counters == <<saves, crashes, faults>>
vars == <<original, config, temp, content, backup, program, owner, counters>>

NoProgram == [at |-> "off", memory |-> 0, saving |-> 0, then |-> "off", file |-> Nowhere]

Init ==
  /\ original \in {NoDocument, Old, Current(0)}
  /\ content = [f \in Files |-> IF f = 1 THEN original ELSE NoDocument]
  /\ config = (IF original = NoDocument THEN Nowhere ELSE 1) /\ temp = Nowhere
  /\ backup = NoDocument /\ owner = {} /\ saves = 0 /\ crashes = 0 /\ faults = 0
  /\ program = [p \in Programs |-> NoProgram]

Becomes(p, r) == program' = [program EXCEPT ![p] = r]
GoTo(p, at) == Becomes(p, [program[p] EXCEPT !.at = at])
Saving(p, v, then) == Becomes(p, [program[p] EXCEPT !.at = "open", !.saving = v, !.then = then])
Paths == <<config, temp, content>>
OthersHold(p, f) == \E q \in Programs \ {p} : program[q].file = f
\* A file that neither has a name nor is open.
Unused == Min(Files \ ({config, temp} \cup {program[p].file : p \in Programs}))

\* An exception at the start ends the program, and so does a crash; the lock
\* goes with the process.  Mutant: it is left behind.
EndsHolding(p) == Becomes(p, NoProgram) /\ UNCHANGED owner
Ends(p) == Becomes(p, NoProgram) /\ owner' = owner \ {p}

-----------------------------------------------------------------------------
(***************************************************************************)
(* The start.                                                              *)
(***************************************************************************)
Start(p) ==
  /\ program[p].at = "off" /\ GoTo(p, "read")
  /\ UNCHANGED <<original, Paths, backup, owner, counters>>

\* load.  Mutant: the backup comes after the conversion was saved.
ReadConverts(p) ==
  /\ program[p].at = "read"
  /\ UNCHANGED <<original, Paths, backup, owner, counters>>
  /\ \/ config = Nowhere /\ Saving(p, 0, "plugins")
     \/ /\ config # Nowhere /\ content[config].whole
        /\ \/ content[config].schema = 1 /\ Saving(p, 0, "backup")
           \/ content[config].schema = 3
              /\ Becomes(p, [program[p] EXCEPT !.at = "plugins", !.memory = content[config].value])
Read(p) ==
  /\ program[p].at = "read"
  /\ UNCHANGED <<original, Paths, backup, owner, counters>>
  /\ \/ config = Nowhere /\ Saving(p, 0, "plugins")
     \/ /\ config # Nowhere /\ content[config].whole
        /\ \/ content[config].schema = 1 /\ GoTo(p, "backup")
           \/ content[config].schema = 3
              /\ Becomes(p, [program[p] EXCEPT !.at = "plugins", !.memory = content[config].value])

\* load: what is not JSON is refused.
Refuse(p) ==
  /\ program[p].at = "read" /\ config # Nowhere /\ ~content[config].whole /\ Ends(p)
  /\ UNCHANGED <<original, Paths, backup, counters>>

\* _backup: open("xb").  The converted settings are those of the file.
OpenBackup(p) ==
  /\ program[p].at = "backup" /\ UNCHANGED <<original, Paths, counters>>
  /\ \/ backup = NoDocument /\ backup' = Part(Old) /\ GoTo(p, "copy") /\ UNCHANGED owner
     \/ backup = Old /\ Saving(p, 0, "plugins") /\ UNCHANGED <<backup, owner>>
     \/ backup = Part(Old) /\ Ends(p) /\ UNCHANGED backup

WriteBackup(p) ==
  /\ program[p].at = "copy" /\ backup' = Old /\ Saving(p, 0, "plugins")
  /\ UNCHANGED <<original, Paths, owner, counters>>

BackupFails(p) ==
  /\ program[p].at = "copy" /\ faults < MaxFaults /\ faults' = faults + 1 /\ Ends(p)
  /\ UNCHANGED <<original, Paths, backup, saves, crashes>>

\* compose: settings.apply(plugins.load(settings.current)).
LoadPlugins(p) ==
  /\ program[p].at = "plugins" /\ Saving(p, program[p].memory, "lock")
  /\ UNCHANGED <<original, Paths, backup, owner, counters>>

\* DictionaryService, Store::initialize: the database is locked or refused.
OpenDictionary(p) ==
  /\ program[p].at = "lock" /\ UNCHANGED <<original, Paths, backup, counters>>
  /\ IF owner = {} THEN owner' = {p} /\ GoTo(p, "run") ELSE Ends(p)

-----------------------------------------------------------------------------
(***************************************************************************)
(* A save: the temporary file is opened and emptied, written and closed,   *)
(* and renamed.                                                            *)
(***************************************************************************)
\* SettingsService.apply.  Mutant: the settings count before they are saved.
ApplyFirst(p) ==
  /\ program[p].at = "run" /\ saves < MaxSaves /\ saves' = saves + 1
  /\ Becomes(p, [program[p] EXCEPT !.at = "open", !.memory = saves', !.saving = saves', !.then = "run"])
  /\ UNCHANGED <<original, Paths, backup, owner, crashes, faults>>
Apply(p) ==
  /\ program[p].at = "run" /\ saves < MaxSaves /\ saves' = saves + 1
  /\ Saving(p, saves', "run")
  /\ UNCHANGED <<original, Paths, backup, owner, crashes, faults>>

\* Mutant: the file itself is written.
OpenConfig(p) ==
  /\ program[p].at = "open"
  /\ LET f == IF config = Nowhere THEN Unused ELSE config IN
     /\ config' = f /\ content' = [content EXCEPT ![f] = Part(Current(0))]
     /\ Becomes(p, [program[p] EXCEPT !.at = "write", !.file = f])
  /\ UNCHANGED <<original, temp, backup, owner, counters>>
OpenTemp(p) ==
  /\ program[p].at = "open"
  /\ LET f == IF temp = Nowhere THEN Unused ELSE temp IN
     /\ temp' = f /\ content' = [content EXCEPT ![f] = Part(Current(0))]
     /\ Becomes(p, [program[p] EXCEPT !.at = "write", !.file = f])
  /\ UNCHANGED <<original, config, backup, owner, counters>>

WriteTemp(p) ==
  /\ program[p].at = "write"
  /\ content' = [content EXCEPT ![program[p].file] = Current(program[p].saving)]
  /\ Becomes(p, [program[p] EXCEPT !.at = "replace", !.file = Nowhere])
  /\ UNCHANGED <<original, config, temp, backup, owner, counters>>

CanReplace(p) == temp # Nowhere /\ ~(Windows /\ OthersHold(p, temp))

Replace(p) ==
  /\ program[p].at = "replace" /\ CanReplace(p)
  /\ config' = temp /\ temp' = Nowhere
  /\ Becomes(p, [program[p] EXCEPT !.at = program[p].then, !.memory = program[p].saving])
  /\ UNCHANGED <<original, content, backup, owner, counters>>

\* save: after an error the temporary file is deleted, and the caller keeps
\* its settings, or does not start.
Unlink(p) == temp' = IF Windows /\ OthersHold(p, temp) THEN temp ELSE Nowhere
GivesUp(p) ==
  /\ IF program[p].then = "run"
     THEN Becomes(p, [program[p] EXCEPT !.at = "run", !.file = Nowhere]) /\ UNCHANGED owner
     ELSE Ends(p)
  /\ UNCHANGED <<original, config, content, backup, saves, crashes>>

SaveFails(p) ==
  /\ program[p].at \in {"open", "write", "replace"} /\ Unlink(p) /\ GivesUp(p)
  /\ faults < MaxFaults /\ faults' = faults + 1

\* Another process has taken the temporary file away, or holds it.
ReplaceFails(p) ==
  /\ program[p].at = "replace" /\ ~CanReplace(p) /\ Unlink(p) /\ GivesUp(p)
  /\ UNCHANGED faults

-----------------------------------------------------------------------------
Exit(p) ==
  /\ program[p].at = "run" /\ Ends(p)
  /\ UNCHANGED <<original, Paths, backup, counters>>

Crash(p) ==
  /\ program[p].at # "off" /\ crashes < MaxCrashes /\ crashes' = crashes + 1 /\ Ends(p)
  /\ UNCHANGED <<original, Paths, backup, saves, faults>>

Steps(p) ==
  \/ Read(p) \/ Refuse(p) \/ OpenBackup(p) \/ WriteBackup(p) \/ LoadPlugins(p) \/ OpenDictionary(p)
  \/ OpenTemp(p) \/ WriteTemp(p) \/ Replace(p) \/ ReplaceFails(p)

Next == \E p \in Programs :
  \/ Start(p) \/ Steps(p) \/ Apply(p) \/ BackupFails(p) \/ SaveFails(p) \/ Exit(p) \/ Crash(p)

Spec == Init /\ [][Next]_vars
\* A program goes on, and its user starts it again.
LiveSpec == Spec /\ \A p \in Programs : WF_vars(Steps(p)) /\ WF_vars(Start(p))

-----------------------------------------------------------------------------
Documents == [schema : {0, 1, 3}, value : 0 .. MaxSaves, whole : BOOLEAN]

\* The shape of the state; one program holds the dictionary while it runs.
TypeOK ==
  /\ {original, backup} \cup {content[f] : f \in Files} \subseteq Documents
  /\ {config, temp} \cup {program[p].file : p \in Programs} \subseteq Files \cup {Nowhere}
  /\ owner = {p \in Programs : program[p].at = "run"
                \/ (program[p].then = "run" /\ program[p].at \in {"open", "write", "replace"})}
  /\ Cardinality(owner) =< 1
  /\ config = temp => config = Nowhere

\* docs/users/configuration.md:41: the settings file is a whole document, old
\* or new, whenever the program is cut off.
ConfigIsWhole == config # Nowhere => content[config].whole

\* docs/users/configuration.md:147: settings that were converted can be had
\* back, also after crashes and errors on the way.
BackupIsOriginal ==
  original = Old /\ content[config].schema = 3 => backup = Old

\* What the program works with is what a start would find: a save that failed
\* has changed neither.
MemoryIsFile == \A p \in Programs :
  program[p].at = "run" => content[config] = Current(program[p].memory)

\* What is tried again works: after crashes and errors the program starts,
\* unless they left a part of a backup.
StartSucceeds == []<>(\E p \in Programs : program[p].at = "run") \/ <>[](backup = Part(Old))
=============================================================================
