# LiveVoiceBridge in TLA+

LiveVoiceBridge reads the live chat of a YouTube stream aloud. A comment is
turned into a plan (texts, sound effects, dictionary commands), each text is
synthesised by an engine, and the clips are played in the order the comments
arrived. This directory holds TLA+ modules of its concurrent parts, the TLC
configurations that check them on small instances, and TLAPS proofs, for every
size of the constants, of nearly all the safety properties of the runs and of
every type invariant of the concurrent parts.

## 1. The system

### Threads

| Thread | Runs | Source |
| --- | --- | --- |
| GUI (Qt main) | buttons, views; also `stop` and `shutdown` up to the queue | `desktop/`, `core/session/service.py` 290-295, 529-544 |
| session-control | every command, one after the other | `service.py` `_run` |
| youtube-stream | one per started source | `integrations/youtube/source.py` |
| synthesis, playback | one pair per pipeline | `core/speech/pipeline.py` |
| system-metrics | sampling, and delivery of audio errors | `service.py` `_observe` |
| executors | discovery and updates (2), avatars (2), the dictionary (1) | `service.py`, `core/dictionary/service.py` |
| Qwen lifecycle and preparation | service process, model download | `integrations/qwen/` |
| audio worker (Rust) | device and sound effects | `native/src/playback.rs` |

The GUI posts commands to the session. The control thread alone creates and
drops the source, the pipeline and the engine. The source posts comments and
connection changes; plugins post changes of engine state; both carry a token
or a state that is compared when the command runs. The pipeline calls the
engine and the audio output from its own threads, and its progress, like every
change of state, goes back to the GUI as a queued Qt signal.

### Inventory

| Component | State | Operations | Hard behaviour | What makes it correct |
| --- | --- | --- | --- | --- |
| Speech pipeline | two bounded queues, accepting/cancelled/finished | submit, cancel, join, set_audio_limit | three callers race with two threads; waits inside waits | order, silence after cancel, nothing accepted is lost, join returns |
| PCM budget | limit, held | reserve, release, set_limit | limit changes while a thread waits | what is held is what is in hand, never above the limit in force at the grant |
| Session service | command queue, intent, source, pipeline, engine, slots | start, stop, test, apply, engine change, comments, shutdown | stale commands, exceptions half way, GUI changes state directly | what runs matches the state shown; comments stay in their session |
| YouTube source | channel, stop flag, page token, seen ids | start, close, reconnect | close against reconnect, repeated messages | close returns; each comment once, in order |
| Qwen manager | phase, generation, process | configure, prepare, restart, close | late results of an older generation, crashes of the service | no old generation changes the state; no process beside a preparation; every wait ends |
| Qwen provisioning | files, environments | download, prepare, cancel | interruption between two moves | what is marked is whole; a usable model stays usable |
| Qwen HTTP service | one model, one lock | load, speech | concurrent requests | one synthesis at a time |
| Plugin manager | providers, states, pending saves | load, bind, publish, save | saves before binding, old generations, failures half way | states only move to newer generations; what a plugin took is released |
| Plugin processes | process, request number | call, close | late answers, broken pipes | an answer belongs to its request |
| Audio player (Rust) | worker, device, channel | play, sound, shutdown | shutdown or an error of the device during playback | every request is answered, truly, and silence follows |
| Dictionary | drafts, revision, snapshot | begin, edit, page, commit, educate | comments teach while a dialog edits | a commit loses no row taught meanwhile |
| Dictionary page | blocks of rows, controls, pending operations | open, edit, append, delete, save, cancel | pages asked for, results late, draft gone | the table is the draft; edits reach the commit |
| Replacement (trie) | nodes | update, replace | edges split and joined by any sequence of changes | equals longest match; forgotten words leave nothing |
| Text and planning | none | parse, split, plan | escapes, unfinished and nested commands, limits | items in the order of the text, nothing lost, settings only behind their command |
| Desktop events | pending marks, bounded buffers | publish, take | publish between take and clear | nothing pending without a signal |
| Settings | baseline, current, revision | validate, merge, apply | values saved while the dialog is open | no saved value is overwritten by an old one |
| Comment window | copy of the presentation, geometry | detach, wheel, resize, split, preview | three copies written as a whole | what is shown is saved |
| Settings file | file, backup | load, save | crash between two steps, two programs | a valid file, or its backup, is always found |
| Metrics | request, revision, ring buffers | request, sample, read | sample of an old request | only samples of the current request are read |
| Avatars | 64 slots, cache, failures | request, receive | slots against errors, lost answers | slots are given back; each address is answered |
| Update check, platform layer, build | - | - | - | one request, system calls: not modelled |

## 2. Modules

| Module | Models | Role |
| --- | --- | --- |
| `SpeechPipeline` | `core/speech/pipeline.py`, `core/speech/budget.py` | detailed specification |
| `SpeechLane` | `docs/users/speech.md`: items in order, silence after a stop | abstract specification |
| `SpeechPipelineRefinement` | the mapping of the first to the second | refinement |
| `SpeechPipelineProofs` | - | theorems: the pipeline, its order and its refinement |
| `SessionProofs` | - | theorems: the session |
| `PluginsProofs` | - | theorems: what `MCPlugins` has side by side |
| `FeedProofs`, `DesktopProofs` | - | theorems: what `MCDesktop` has side by side |
| `DictionaryProofs`, `EditorProofs` | - | theorems: the dictionary and its page |
| `TextPlanProofs` | - | theorems: the plan of a comment |
| `Session` | `core/session/service.py`, with its surroundings seen from it | detailed specification |
| `Dictionary` | `native/src/dictionary/draft.rs`, `database.rs` | detailed specification |
| `DictionaryEditor` | `desktop/dictionary/model.py`, `presenter.py`, `core/dictionary/service.py` | detailed specification |
| `QwenManager` | `integrations/qwen/runtime.py`, the Qwen plugin's settings page | detailed specification |
| `Provision` | `integrations/qwen/provision.py`, `models.py` | detailed specification, crashes |
| `PluginLoad` | `plugins/manager.py` (loading and end), `plugins/api.py` | detailed specification, failures |
| `PluginState` | `plugins/manager.py` (`bind`, `publish_state`, `save_config`) | detailed specification |
| `PluginRpc` | `plugins/executable.py`, `native/src/plugin_rpc.rs` | detailed specification, an unreliable process |
| `YouTubeSource` | `integrations/youtube/source.py` | detailed specification, an unreliable stream |
| `CommentFeed` | `desktop/events.py`, `desktop/shell/presenter.py`, `desktop/comments/model.py` | detailed specification |
| `Avatars` | `core/session/service.py` (`_media`), `desktop/comments/avatars.py`, `presenter.py` | detailed specification |
| `Popout` | `desktop/comments/window.py`, `desktop/settings/presentation.py`, `presenter.py` | detailed specification |
| `SettingsDraft` | `desktop/settings/view.py`, `engines.py`, `presenter.py`, `core/session/service.py` | detailed specification |
| `ConfigStore` | `integrations/storage/config.py`, `host/composition.py` | detailed specification, crashes |
| `AudioPlayer` | `native/src/playback.rs` | detailed specification, a failing device |
| `QwenService` | `services/qwen3`, `plugins/builtin/qwen3/engine.py` | detailed specification, timeouts |
| `DictionaryTrie` | `native/src/dictionary/trie.rs` | algorithm, against its reference definition |
| `TextPlan` | `native/src/text.rs`, `core/chat/planning.py`, `integrations/native/text.py` | algorithm, step by step |
| `Monitor` | `core/session/service.py` (`_observe`), `desktop/events.py`, `presenter.py` | detailed specification |
| `MCSpeechPipeline`, `MCSession`, `MCDictionary` | - | constants for TLC |
| `MCReading`, `MCPlugins`, `MCDesktop`, `MCDesktopLive` | - | components side by side, for TLC |

### Components side by side

`MCReading`, `MCPlugins` and `MCDesktop` check several components that do not
interact in one run; `MCDesktopLive` adds the dictionary page to `MCDesktop`. Each component has its own variables; the constant-valued
variable `part` names the one that runs, and the others stay as they start. A
component that does not run has one initial state, so the states of the run are
those of the components added up, not multiplied. A property of the run is a
conjunction of implications `part = ... => P`, where `P` is a property defined
(and commented) in the component's module; the fairness is that of the component
that runs. Modules taken by INSTANCE state what they assume of their constants as
a plain definition, which the MC module then assumes. The MC modules are
themselves parameterised: the sizes are in the configurations, and the theorems
about `MCPlugins` and `MCDesktop` hold for all of them.

Components that do interact are composed inside a module: `Session` holds the
source, the engine and the pipeline as the control thread sees them,
`QwenManager` the session and the pipeline that waits for the service,
`SettingsDraft` and `Popout` the control thread that saves, `DictionaryEditor` the
draft in the database under the dialog, `CommentFeed`, `Avatars` and `Monitor`
both ends of their queues.

### SpeechPipeline

A variable is named after the field it models: `input`, `output`, `accepting`,
`cancelled`, `finished`, `limit`, `held`. `gpc` and `ppc` say where the two
threads are in `_generate` and `_play`; `caller` says where each thread that
calls in from outside is. `admission` is the lock `_admission`; `reserved`,
`playing` and `inhand` are local variables that hold PCM. `peak`, `spoken` and
`cutoff` are history, read by properties only. `local` says whether the engine's
sound is played here (`Engines` holds the kinds an instance may have): an engine
that plays by itself makes no clips and needs no budget.

One action is one step between two points where another thread can act:

- `submit` holds `_admission` from the test to the put, so `SubmitEnter` and
  `SubmitPut` are two steps with the lock held in between; `cancel` raises both
  flags under the same lock (`CancelFlag`).
- `_discard` takes one entry at a time, and the release of its PCM is a step of
  its own, because the budget has its own lock.
- `_enqueue` tests `_cancelled` (`GenPutTest`) and then waits up to 50 ms for
  room (`GenPut`): a cancel may fall between the two.
- `reserve` waits with a condition; each evaluation is one `GenReserve`.
- A blank text, a dictionary command and an exception all end an item in the
  same way: the loop goes on to the next.

Left out: texts, voices and sound files, the progress notifications, and the
number of bytes of a clip beyond a small unit. The end marker `None` has no
action because it is never put: both ways to the `finally` block pass through
a set `_cancelled`, which makes `_enqueue` return at once.

### SpeechLane and its refinement

The lane is what a listener may rely on: a set of numbers that may still be
played, at most one on the air, the smallest first, none after the lane is
closed; and when closed it falls silent and forgets what waits. The mapping
calls an item waiting while a live thread may still take it. Playback that has
ended takes nothing any more, so the entry that survives a cancel (see
`OneEntryStranded`) counts as forgotten.

### Session

A command is a script of steps: `todo` holds the steps that are left, `cmd` the
command. Taking a command (`Take...`) lists its steps as the code does with the
tests made at that moment; a step may cut the list (`GoIf`, `CheckPrepared`) or
replace it by the recovery of `_run` (`Raise`). Other threads act between any
two steps. `_apply` catches exceptions itself, so its `Raise` only ends the
script; `_shutdown_resources` catches them one by one, so its script goes on.

`stop` and `shutdown` are split on the GUI thread where the control thread can
intervene: the intent is drawn, the pipeline is cancelled, the command is put.
`news` carries `SessionChanged` to the GUI, and `shown` enables the buttons as
`set_running_ui` does. The source is a thread with three points: it reads, it
is about to post a comment for which it holds a slot, it is about to report its
end. The engine's phase is reduced to ready, busy or error, which is all
`_engine_changed` tells apart. The pipeline is reduced to what the session sees
of it: its token, and whether it accepts; that joining it ends is checked and
its quiet end is proved in `SpeechPipeline`.

`EnginesOwned` says that another engine is opened only when none is held. It
excepts a session that is `starting`: a rebuild that failed leaves the state
there, with an engine behind it (see `RunningRuns`).

Left out: discovery and update checks, the contents of settings, and log
messages. Avatars and the monitor thread share only `_closing` with the rest and
have modules of their own.

### Dictionary

The tables of the database are functions from identifiers: `groups`, `rows`,
`draftGroups` and `draftRows`. Every operation of the store holds its lock and is
one transaction, so it is one action; the settings dialog, the comments that
teach words (`Educate`) and the end of the program (`Restart`) interleave. A
refused operation leaves no trace and has no step, so the guards of an action
are the refusals of the code. `Commit` follows the code's order: what comes to
nothing is removed (`TidyGroups`, `TidyRows`), conflicts are looked for, the
affected words are collected, groups and rows are saved (`KeptGroup`, `AddedGroup`,
`KeptRow`, `AddedRow` are the rows that the transaction writes), and only the
affected words are looked up for the new snapshot. `Over(f, g)` is the table `f`
where `g` has nothing to say, `With` one entry written over a table, and `Deciding`
the row that decides how a word is read. `SnapshotAgrees` says that the shortcut is
right: the snapshot reads every word as `Deciding` does over all rows. `GroupsSound`
says that there is always a group, and that no two have one name. `Faithful` says
what commits and lessons owe each other; `taught` is a history variable for it.

The next identifier of a draft (`next_id`) is computed from those in use. The
part of speech and the comment of a row and pages are left out. The snapshot is the
reading of each word; the tree that holds it has a module of its own.

### DictionaryEditor

`ui` is the presenter and the table: the controls (`busy`), the blocks in the
cache, the page that is pending and the one under way, the generation that
drops old pages, and the save. `queue` is what the one worker has still to do,
`done` the results on their way to the GUI thread, `store` the database with its
one draft, `alerts` the open message boxes. A message box is modal but lets
results of the worker in, so what its handler does afterwards is a step of its
own (`Dismiss`). `typed` is history.

A block is one row and a conflict is a row that was taught since it was copied.
A failing database is left out. Two things a reader may stumble on: a failed edit
makes every later save of that dialog fail, which `docs/users/README.md` 126 says;
and a button that is enabled again by the list of groups while an operation is
under way does no harm, because the worker keeps the order.

What the property does not say: that a row deleted on the page stays deleted.
With two refreshes under way and an import that fails, an answer to the first
refresh shows a row whose deletion waits behind it; an edit of it is then queued
behind the deletion, and brings the row back. It takes more than five
operations whose answers overlap, no line of the documents speaks of it, and what
is committed is still what the table shows.

### QwenManager

The fields of the manager are variables of the same names; `worker` and `setup` say
where the lifecycle thread and the setup thread are, with their local variables,
and `process` is the service, which may load, be ready, fail or die at any time.
`posts` is the command queue of the session and `speech` the pipeline that waits
in `wait_ready`. `configure` is a part of whatever calls it (start-up, a settings
command, a registration). Every test of the generation is made in the step that
acts on it, or in the step before it where the code lets go of the lock.

A dead service is not started again by itself: it becomes the state "error", and
restart is a button. `RegistersWhatIsShown` is an action property: the model
saved in the settings changes by a registration only while what is shown is the
end of a preparation.

### Provision

The preparation is one sequential program whose state is the disk; `job` is the
step it is at. A write that takes long is two steps with a partial target in
between, and `Stop` (cancel, error, kill) may happen at any of them; `Replace`
starts another version of the application on the same disk, `Damage` spoils a
file behind its back. `registered` is the model of the last preparation that
ended well. The `finally` of a stopped program is not run, which is the harder
case: what it would have removed is found by the next preparation.

### PluginLoad, PluginState and PluginRpc

`PluginLoad` follows one start: the folders are scanned, `order` lists what is
still to load, `step` is where the load in hand is, and every call into a plugin
may raise. `context` is the plugin's context with its callbacks, run last in,
first out at the end, each of which may raise too.

`PluginState` has two threads of one plugin: `publish_state` tests the generation
(`Test`) and assigns (`Assign`) without a lock; `save_config` holds `_binding` for the
test of the ports and appends to the waiting list, which `bind` hands on. A
plugin may publish under a lock of its own, as Qwen does (`OneAtATime`).

`PluginRpc` is one engine: the lock of `call`, the lines in the pipe and a process
that may answer rightly, with an error, garbage, late, twice or never, or die.
A deadline is a step that may always be taken while a call waits.

### YouTubeSource

The thread's local variables (`token`, `first`, `order`, `items`) and fields
(`_channel`, `_stop`) are variables. The service holds numbered messages; a
stream opened with a token goes on behind it. `close` is three steps: the flag,
the copy of the channel, its closing; then the join. History: what was
remembered, published and handed on late.

`OnClosed` is the error of a channel that was closed; `Cut` is any end of a stream
whose channel is closed, which the runs take to come in time.

### CommentFeed, Avatars and Monitor

`CommentFeed` has publishers that test `_closed`, append under the lock, and emit
after the unlock if they raised the pending flag; queued signals; the 50 ms timer;
and a GUI thread that takes the two timed buffers one after the other and
shows the last `limit` of them. A limit that grew, and a clearing, are history
(`raised`, `cleared`), because both change what may be expected of the view.

`Avatars`: a row asks for an address that is neither held nor under way nor just
failed; the service takes a slot or refuses; two workers download; the answer is
a queued signal; the cache evicts the least recently used.

`Monitor`: the monitor thread step by step (`_observe`), the request and its revision
under the lock of the session, the notice with its pending flag, and the GUI
thread that debounces what is visible. A measurement is known by the request
the collector was set to.

### AudioPlayer, QwenService, DictionaryTrie and TextPlan

`AudioPlayer`: `worker` is the point of the loop, `hand` the request it has taken,
`active` the sounds being played, `caller` the threads that play (they copy the
sender under its lock, wait for room, wait for the reply) and `closer` the
shutdown, which holds the lock of the sender until `Close` has room. The device
plays and fails on a thread of its own: `EndSound` and `ReportFault`. `heard` is
history. An error that arrives late from a device that was closed ends the sounds
of the next one, as in the code; no document speaks of it, and `HeardWhole` shows
that nobody is told a lie about it. The list of errors for the monitor is left out.

`QwenService` is what `QwenManager` has as one process, seen from inside: the
thread that loads, a thread for every request, and the application, which may give
up at any time while the handler goes on. `Delivered` is an answer that reaches the
application only if it still waits for that request. The warm-up does not take the
lock of the model; `ModelAlone` shows that it need not, because no handler sees the
model before.

`DictionaryTrie` is the tree alone, as values: a snapshot shares nodes that are
never changed. `ReplacesLongest` compares the replacement of every short text, after
every sequence of changes, with a definition that looks only at the entries.
Characters stand for themselves; their bytes are left out, because an edge is
only ever cut between characters.

`TextPlan` reads a comment as `parse_segments` does, one turn of its loop per step;
`accumulated`, `states` and `segments` are its local variables. A token is a character,
or a word that begins a command. A segment holds the set of the places of its characters
in the text, so that `OnceInOrder` and `NothingLost` can tell what became of each of them;
what is pushed to a string ascends, so the set stands for the string. A setting is the
place of the command that made it. Of the list of items one step is one sentence, which
is taken off the segment it was in, or one command with its notice (`SaySentence`,
`ListCommand`). `WordsArrive` writes every
short word and reading with backslashes, as the documents tell the user to, and
finds them again in the plan. Of the six numeric commands there are two, of the
directions one. A number that does not fit 64 bits is one digit too long
(`MaxDigits`), and is text.

### SettingsDraft, Popout and ConfigStore

`SettingsDraft`: the copy the dialog works on (`config`, with `draft` and `mark` for
the editor of the engines), the settings saved, and `_settings_baseline`. Both
merges are there as the code does them; `since` counts the saves behind an open
dialog, `typed` and `result` are history.

`Popout`: three copies of one record that are each written as a whole (saved,
the window's, the dialog's). Two users are checked: one who does everything at
once, for whom the window must at least show what is saved, and one who waits
for every save and leaves the window alone while the dialog is open, who
must lose nothing.

`ConfigStore`: a start (load, conversion behind a backup, plugins, first save,
dictionary), and a save as open, write and replace of the temporary file, with
errors at each step and crashes between any two. A file that is open keeps its
content apart from its name, so that two programs can be told apart from one.
`Windows` says whether an open file can be replaced. The loss of written pages
with the machine is left out; schemas 1 and 2 are one.

## 3. Runs

| Run | Instance | Shows |
| --- | --- | --- |
| `pipeline` | queues of 2, 4 items, budgets {2, 4}, clip ceiling 2, both kinds of engine | `BudgetSafe`, `NothingStranded`, `EndsQuietly`, `SpokenInOrder`, `ReservedWithinLimit` |
| `pipeline_live` | queues of 1, 3 items | `LaneDrains` (the pipeline implements `SpeechLane`, liveness included), `NobodyWaitsForever` |
| `session` | every button: 3 clicks, 2 events, 4 of both together; 1 slot; closing may fail | `PartsAreOwned`, `SpokenBySameSession`, `SlotsConserved`, `NothingAfterDrain`, `OneOfEach`, `StopMutes`, `EndsAreReached` |
| `dictionary` | two words, two readings, two rows and groups, drafts that touch two things, 2 revisions | `TablesSound`, `CommitsAreFaithful` |
| `reading` | three parts, see below | `TableIsDraft`, `TypedIsCommitted`, `TreeIsFaithful`, `PlansAreFaithful` |
| `plugins` | eight parts, see below | `ServiceIsShown`, `ModelsAreWhole`, `PluginsAreApart`, `PortsAgree`, `CommentsArrive`, `NewestStays` |
| `plugins_live` | seven of them, smaller | `PluginsGetOn` |
| `desktop` | eight parts, see below | `EditsAreSaved`, `WindowIsSaved`, `FileIsSafe`, `MetricsAreCurrent`, `FeedIsComplete`, `EndIsLast` |
| `desktop_live` | five of them, smaller, and the dictionary page with 1 act, 1 lesson, 1 dialog | `DesktopGetsOn` |
| `session_start_lost` | test and start | `StartConnects` is violated |
| `session_rebuild_fails` | test and settings | `RunningRuns` is violated |
| `session_shutdown_race` | start, stop and close | `ShutdownCompletes` is violated |

Every safety run also checks the type invariants. The conjoined properties:

| Property | Consists of |
| --- | --- |
| `BudgetSafe` | `BudgetConserved`, `HeldWithinPeak` |
| `NothingStranded` | `NoPlanStranded`, `OneEntryStranded` |
| `EndsQuietly` | `CancelSilencesQueue`, `FinishedQuiet` |
| `NobodyWaitsForever` | `JoinReturns`, `AcceptedIsHandled` |
| `PartsAreOwned` | `IdleMeansNothing`, `SourceIsServed` |
| `OneOfEach` | `OneReader`, `EnginesOwned` |
| `EndsAreReached` | `StopSettles`, `ShutdownReleases` |
| `TablesSound` | `SnapshotAgrees`, `GroupsSound` |
| `CommitsAreFaithful` | `SavesWhatIsShown`, `KeepsLessons`, `RevisionMoves` |
| `TableIsDraft` | `ShownIsDraft`, `DraftIsFree` |
| `TreeIsFaithful` | the type of the tree, `ReplacesLongest`, `Compact` |
| `PlansAreFaithful` | the type of the plan, `OnceInOrder`, `NothingLost`, `SentencesEnd`, `SettingsHold`, `WordsArrive` |
| `ServiceIsShown` | `ProvisionAlone`, `ReadyMeansServed` (Qwen manager); `ModelAlone`, `ErrorIsExplained` (its service) |
| `ModelsAreWhole` | `MarkedIsWhole`, `OnlyVerified`, `FolderUntouched` (provisioning) |
| `PluginsAreApart` | `OwnIdentifier`, `OthersLoad`, `SettingsKept`, `FailureReleases`, `UnloadedLast`, `EndReleases` |
| `PortsAgree` | `StateMovesOn`, `NothingWaits`; `OwnAnswer`, `NoOrphan`, `FailedIsClosed`; `HeardWhole`, `ReturnedIsSilent`, `DeviceUnderSound`, `SilentAtEnd` (audio) |
| `CommentsArrive` | `NoRepeat`, `NothingLost`, `HistoryIsFirst`, `DownIsReported`, `AtMostOneLate` |
| `NewestStays` | `RegistersWhatIsShown`, `UsableStays`, `OldResultDropped` |
| `PluginsGetOn` | `Settles`, `PreparedIsLoaded`, `OldEngineReleased`, `DeathNoticed`, `WaitEnds`, `CloseReturns` (Qwen manager); `RetrySucceeds`, `SavesDecided`, `CallsEnd`, `CloseEndsProcess`, `FoundIsClosed`, `Reconnects`; `PlayReturns`, `CloseReturns` (audio); `LockComesBack` (service) |
| `EditsAreSaved` | `EditStays`, `EditIsSaved`, `OneSaveSurvives` |
| `WindowIsSaved` | `ShownIsSaved` for the hasty user, `NothingLost` for the careful one |
| `FileIsSafe` | `ConfigIsWhole`, `BackupIsOriginal`, `MemoryIsFile`; with two programs `ConfigIsWhole` |
| `MetricsAreCurrent` | `SampleIsForRequest`, `NoticeIsComing` |
| `FeedIsComplete` | `NothingStranded`, `NewestAreShown`, `InOrder`; `PendingIsInFlight`, `SlotsConserved`, `BytesAgree` |
| `EndIsLast` | `CompletedIsLast` |
| `DesktopGetsOn` | `SaveAnswered`; `StartSucceeds`; `ViewIsShown`, `CatalogIsAnswered`, `Completes`; `Taken`; `Answered`; `DialogAnswers`, which is `ControlsReturn`, `RowArrives` and `SaveIsAnswered` (dictionary page) |

Beside a definition of the code stands, where a property needs it, the form a
plausible bug would give it (`StillAccepting`, `TakeKeepFlag`, `NotOlder` against
`AnyState`): a property is kept only if such a form, put in the definition's
place, makes TLC find it violated. Each conjunct above has one.

### Bounds

`MaxItems` bounds the items ever offered. Three or four are enough for a plan
in synthesis, one in `_input`, an entry in `_output` and one on the air, so that
both queues fill, a submit is refused, and a put waits. The budgets 2 and 4
with a ceiling of 2 give one and two clips of room; a lowered budget can then
be below what is held.

`MaxClicks` and `MaxEvents` of `Session` bound what the user and the other threads do
and `MaxInputs` both together; three clicks are enough for start, stop and start
again, or start, settings and close, with every command delayed past the next
click, and the fourth input is a comment or a change of the engine in between.
One slot makes the second comment meet a full limit.

`dictionary` has two words with two readings, so that a row can be given another
word and two rows can disagree, drafts that touch two things (`MaxTouched`), which is
a swap of names, a new group with its row, or a deleted group beside an edited row,
and a lesson before the commit. A draft that is open at the last revision is left
alone (`BoundedNext`), since the bound keeps it from being committed.

`reading` has the dictionary page, the tree of words and the plan. The page: a row
in each of two groups, every button, two operations, one lesson and one save. The
tree: six words over two letters, each with one of two readings or none, and texts
of up to four letters, one of which is in no word: every edge can be split and
joined at every depth. The plan: every message of up to three pieces out of
thirteen, with and without a limit of four, behind a name that may begin a command
and before a block that closes it, and every lesson whose word and reading have up
to two letters out of those that need a backslash and one that does not.

`plugins`: three clicks and three generations of the Qwen manager with two models
(prepare, restart and close, or two settings changes around a preparation); three
preparations and three faults with two versions of the application; one bundled
and two external folders, which may share an identifier; two saves and three
generations of states; two requests from two threads to one process; four
messages with pages of two, one of a hidden type, a window of two identifiers
and three channels, so that an identifier is forgotten and a stream is broken
twice; three sounds from two threads over a channel of one place, of which one
may be an effect at a time; two requests to the service.

`desktop`: one key with three values, one edit, two saves of plugins and two
dialogs; seven steps of the careful and five of the hasty user; three saves,
crashes and errors of the file; two programs that start at once; two changes of
the view; three comments and log lines over limits 1, 2 and 3 from two threads;
three addresses over two slots, two workers and caches of two and four units,
with four requests.

The live runs use smaller bounds because their graphs are analysed as a whole:
one model, one fault in two preparations, one thread that plays two sounds, one
generation that a restart moves on, one save, two comments.
The dictionary page has one act there, because a user who scrolls for ever keeps
a row out of a cache of one block.

The proofs do not use these bounds.

### Fairness

`SpeechPipeline`: both threads are loops whose waits end after 50 ms, so each is
weakly fair as a whole. A call that has begun (`SubmitPut`, the steps of
`_discard`, `join`) goes on. That an engine call or a clip ends is part of the
fairness of the thread: VOICEVOX and plugin calls have timeouts. Nobody is
obliged to submit, to cancel or to join. The weak fairness of a whole thread is
justified because the thread is sequential: it has at most one step to take.

`Session`: the control thread, the GUI thread and the end of a closed source are
fair. No click and no event is. That the thread of a closed source ends is an
assumption about `YouTubeSource.close`, which holds for the channel `close` finds
(`FoundIsClosed`); see section 4 for the one it does not find.

| Component | Fair (weakly, unless said) | Why |
| --- | --- | --- |
| `QwenManager` | the lifecycle thread, the setup thread, the control thread, the pipeline | loops with timed waits. The service owes nothing: a load that does not end is ended by the timeout of 900 s, which is a step of the lifecycle thread |
| `Provision` | the preparation, while nothing stops it | one sequential program; errors are bounded |
| `PluginState`, `PluginRpc` | the saver and the caller of each thread, bind, the control thread | a lock is waited for. The modules state strong fairness; the run needs only the weak one |
| `YouTubeSource` | the thread, the end of a closed stream, the closer | the service owes nothing |
| `AudioPlayer` | the worker, the end of a sound, a shutdown that has begun, each thread that plays | a loop whose waits end after 10 ms while it plays; a sound is finite; a full channel serves those who wait in their order, so room comes back to each. The device owes no error |
| `QwenService` | the thread that loads, each handler | loading and synthesis end, well or not. The application owes nothing |
| `CommentFeed` | the GUI thread; a publisher that has begun | the event loop; a call in progress |
| `Avatars` | the GUI thread, each worker | a download has a timeout |
| `SettingsDraft` | the control thread, the event loop | loops; the user owes nothing |
| `DictionaryEditor` | the worker, the event loop, the outcome of a save, the dismissal of a message box, the painting of the first row | a message box is modal: the user can do nothing else |
| `Monitor` | the monitor thread, the end, the event loop; strongly: reading the history and changing the request | the last two wait for a lock the monitor takes again and again |
| `ConfigStore` | the steps of a program, and its start | a user starts the program again |

### Deadlock

The pipeline runs check for deadlock: a finished pipeline still allows
`set_audio_limit`, and until then some thread can move. The other runs do not,
because the system comes to rest when the bounded clicks, messages, faults and
saves are used up, and after its end. That nobody waits for ever is then stated
by their liveness properties.

## 4. Where the code and the documents differ

### Session: three runs that end in a violation

- `session_shutdown_race`. `shutdown` reads `_pipeline` at line 542 and again at
  543. If the control thread is in `_dispose` (311) in between, the call is made
  on `None`, the exception leaves `shutdown` before `_shutdown_resources` is
  queued, and a second `shutdown` returns at once because `_closing` is set.
  `docs/source/architecture.md` 70-72 promises the completion event. The trace is
  start, stop, close, with the close while the stop is disposing.
- `session_start_lost`. The token of a start is drawn at the click, that of a
  test comment when the command runs. A test that waits in the queue therefore
  makes the start that was clicked after it look old: `_start` disposes of
  everything and returns at 182-183, with the state left at running and the start
  button disabled. `docs/users/README.md` 62 says start connects.
- `session_rebuild_fails`. `_apply` (379-382) reports an exception of the rebuild
  and leaves the state as it is, after `_dispose` has removed what ran.
  `docs/users/README.md` 85-86 says the session is rebuilt.

### Other components: the `Docs` configurations

These are stated at the end of their modules, after what holds. Each is checked
with the module itself, for instance `tlc -config QwenManagerDocs.cfg QwenManager`;
TLC finds each of them violated (remove the ones found to see the next). They are
kept beside the runs above and are not among them.

| Property, `<Module>Docs.cfg` | The code | The document |
| --- | --- | --- |
| `RegistrationKept`, `QwenManager` | a settings command queued before the registration moves the generation on (`runtime.py` 75), and `plugins/manager.py` 276 drops the registration | `docs/users/qwen3.md` 27: the path of the completed model is saved |
| `RetryOffered`, `QwenManager` | the error of a failed load (`runtime.py` 265) has no path, so `builtin/qwen3/settings.py` 49 disables the restart button | `qwen3.md` 47: after an error, retry or restart |
| `RestartSilences`, `QwenManager` | restart publishes "loading", which is not busy, so `service.py` 112 does not cancel the pipeline | `qwen3.md` 44: an explicit restart takes back what is being read |
| `OldResultDropped`, `PluginState` | `publish_state` (`plugins/manager.py` 282) tests and assigns without a lock: of two threads the older state may stay (a plugin that publishes under its own lock is safe, which `NewestStays` checks) | `docs/plugins/development.md` 64: an old result is not saved |
| `ErrorIsAnAnswer`, `PluginRpc` | an error reply closes the process (`plugins/executable.py` 68) | `development.md` 106, 111: the process serves several requests, and is reclaimed after a wrong reply, the deadline or an abnormal end |
| `BusyMeansSynthesizing`, `QwenService` | the lock is given back only after the clip was sent (`server.py` 167): a request that follows at once may be refused with 429 | `docs/source/architecture.md` 143-144: 429 during a synthesis |
| `UnknownIsSpoken`, `TextPlan` (with `MCReading`) | `教育` and `忘却` look for their parenthesis anywhere behind them (`text.rs` 101, 119): what stands between is lost, another command included | `docs/users/speech.md` 30: what is not recognised remains as text |
| `CloseReturns`, `YouTubeSource` | a channel opened after `close` read `_channel` (`source.py` 45) is closed by nobody, and the join at 49 waits for the service | `docs/source/architecture.md` 70-72: the source is released and the completion reported |
| `ConfigIsWhole`, `ConfigStore` | two programs write one temporary path; where an open file can be replaced, one renames what the other has just emptied (`config.py` 93) | `docs/users/configuration.md` 41: an atomic replacement by a file in the same directory |
| `MemoryIsFile`, `ConfigStore` | a second program saves what it read before (`composition.py` 27) and only then fails on the dictionary's lock | `docs/users/README.md` 81: OK saves the settings |
| `CancelDiscards`, `Popout` | the wheel or a resize saves the previewed presentation as a whole (`presenter.py` 321) | `README.md` 82: cancel discards the changes |
| `SizeStays`, `Popout` | OK puts back the size of when the dialog was opened (`presentation.py` 60) | `README.md` 95: position and size are saved |
| `PositionIsSaved`, `Popout` | the geometry is read only when the window is attached again (`window.py` 381) | `README.md` 95 |
| `RatioStays`, `Popout` | the echo of an earlier save within the 250 ms of the timer replaces the new ratio (`window.py` 68) | `README.md` 100: each ratio is kept |
| `BackgroundPreserved`, `SettingsDraft` | the baseline stays while `apply_saved` refreshes the dialog: after two saves of a key the dialog's older value passes for an edit (`service.py` 350) | the comment at `service.py` 335: settings saved asynchronously are preserved |
| `EveryEditIsSaved`, `SettingsDraft` | a value set back to the baseline's passes for untouched (`service.py` 350) | `README.md` 81 |
| `AddressStays`, `SettingsDraft` | OK puts back the address of when the dialog was opened (`view.py` 86) | `README.md` 62: start saves the address |

## 5. Proofs

Every theorem holds for all values of the constants that the module's assumption
allows; the bounds of section 3 play no part (a counter that a bound caps is only
known to be a natural number, or to stay below a bound that is arbitrary).

| Module | Theorem | States |
| --- | --- | --- |
| `SpeechPipelineProofs` | `TypeCorrect` | `TypeOK` |
| | `BudgetIsConserved`, `NeverAbovePeak`, `BudgetIsSafe` | `BudgetSafe` and its two parts |
| | `GrantsFitLimit` | `ReservedWithinLimit` |
| | `PlansAreTaken`, `OneEntryAtMost`, `NothingIsStranded` | `NothingStranded` and its two parts |
| | `CancelSilences` | `CancelSilencesQueue` |
| | `FinishedIsQuiet`, `EndsAreQuiet` | `FinishedQuiet`, and with the one above `EndsQuietly` |
| | `SpokenAscends` | `SpokenInOrder` |
| | `ImplementsLane` | the pipeline implements the safety part of `SpeechLane` |
| `SessionProofs` | `SessionTypes` | `TypeOK` |
| | `PartsOwned` | `PartsAreOwned` |
| | `SpokenByItsSession` | `SpokenBySameSession` |
| | `SlotsAreConserved` | `SlotsConserved` |
| | `NothingFollows` | `NothingAfterDrain` |
| | `StopIsMute` | `StopMutes` |
| | `OnlyOne` | `OneOfEach` |
| `PluginsProofs` | `ReadyIsTrue` | `ServiceIsShown` |
| | `ModelsStayWhole` | `ModelsAreWhole` |
| | `LastIsRegistered`, `UsableModelStays` | two parts of `NewestStays` |
| | `PluginsAreTyped` | `PluginsTypeOK` |
| | `PortsAlwaysAgree` | `PortsAgree` |
| | `OldResultsStayOut`, `NewestAlwaysStays` | the third part of `NewestStays`, and all of it |
| | `EveryCommentArrives` | `CommentsArrive` |
| | `PluginsStayApart` | `PluginsAreApart` |
| `DesktopProofs` | `DesktopIsTyped` | `DesktopTypeOK` |
| | `MeasuredForTheView` | `MetricsAreCurrent` |
| | `NothingAfterTheEnd` | `EndIsLast` |
| | `WindowShowsWhatIsSaved` | `WindowIsSaved` |
| | `EditsGetThrough` | `EditsAreSaved` |
| | `TheFileIsSafe` | `FileIsSafe` |
| `FeedProofs` | `FeedShowsAll` | `FeedIsComplete` |
| `DictionaryProofs` | `TypesAreRight` | `TypeOK` |
| | `SnapshotIsRight` | `TablesSound` |
| | `CommitsFaithfully` | `CommitsAreFaithful` |
| `EditorProofs` | `EditorTypes` | `EditorTypeOK` |
| | `TableShowsDraft` | `TableIsDraft` |
| | `CommitsWhatWasTyped` | `TypedIsCommitted` |
| `TextPlanProofs` | `PlanIsFaithful` | `PlansAreFaithful` |
| | `LessonsArrive` | `WordsArrive`, its last part |

The assumptions are those the modules name: `PipelineAssumption` (capacities are
positive, budgets are at least 2, so that half of one is not zero, plans are
sequences of items), `SessionAssumption`, `DictionaryAssumption`, `EditorAssumption`, `PlanAssumption`, `PluginsAssumption`
and `DesktopAssumption`, the last two being the assumptions of the parts. They say
that bounds are natural numbers, that capacities are positive, that the database
of the page starts with a row, and that a mark such as "free", "none" or a blank
reading is not also a thread, an identifier or a reading. `PluginLoad` adds
that there are finitely many folders and that the name of a bundled one is an
identifier. `PlanAssumption` says that texts are sequences of tokens, and that the words
of a lesson have no blank at an end, which `trim` (`text.rs` 56 and 57) would take away.
TLC evaluates each of them in a run.

A theorem is always made of the same parts: an inductive invariant; a lemma that
it holds initially; a lemma for each action, or for a few that do the same, with
one step for each part of the invariant; one that a component that does not run
keeps it; and the properties derived from it. Action properties use the same
invariant. The invariants, and why they say more than the properties:

### The pipeline

- The budget. `BudgetConserved` says what is held is the sum of what each thread
  has in hand and what the entries of `_output` hold. The sum over a queue is a
  function of prefix sums instead of a recursive operator, so a put extends it
  by one value and a get shifts it; two lemmas do that once for all actions.
  Sound effects must hold nothing (`DiscardOutput` releases only clips), and each
  caller's share is zero outside the release: both are conjuncts.
- The lock. Whoever is between the test of `accepting` and the put holds
  `admission`; whoever sets `accepting` to false needs it. So after a cancel no
  submit is in flight, and an empty `_input` stays empty: `NoPlanStranded`. The
  property alone is not inductive, because it does not exclude a put that passed
  the test before.
- The straggler. After the cancel, the synthesis thread passes `GenPutTest` no
  more, so it can put at most the one entry whose put had begun; the conjunct
  ties the length of `_output` to whether that put is still to come.
- The end. `finished` is set only after playback is done, and both threads have
  released what they held by then.
- The order (`Order`). The serial numbers ascend from the air through playback,
  `_output`, the plan in synthesis and `_input` to the plan that is
  being submitted. Queues are seen as the sets of the numbers in them, so that a
  step takes the least number away from a set, or adds a greater one. From it
  follows `SpokenInOrder`, and that each step is one of the lane's or a stutter:
  what synthesis skips or a cancel discards is a `Drop` of the lane.

### The session

The script of a command is a sequence of steps, so an invariant about `todo` has
to say what may follow what. `SessionProofs` states a control flow graph
(`Leads`): a step of a script may be followed by these steps, or by its end.
`Linked` says the script under way is a path in it. The rest of `SInv` says what
is known at the step control is about to take (`Point`): which of source,
pipeline and engine exist, with which token, what the state shown is, and that
none of the tokens is above the intent. Control is followed along the edges of
the graph; the GUI and the source change only what no step relies on, which a few
lemmas say for all steps at once. The slots taken are the one of a comment being
posted, those of the comments in the queue (a cardinality, which a put and a take
change by one) and the one a script still has to give back; while the program
closes a dropped comment keeps its slot, so there the sum is a lower bound. After
the drain one command is left in the queue and the flow reaches only steps that
release.

### What the plugins do

- The lifecycle thread of Qwen (`AloneInv`, `ServedInv`). Two chains of facts: from
  "closed" on there is no process, and `stopped` says so until the thread starts
  one, which it does not while something is prepared; and what it loads is what is
  configured as long as the generation it observed is the present one, while
  a new generation takes the endpoint and "ready" away in the step that draws it.
- Registration (`RegisterInv`). A registration that waits in the queue carries its
  generation. As long as that is the present one nothing is prepared or loaded,
  because each of the two draws a new one first.
- Preparation (`ProvisionInv`). The marker of the environment is gone while
  anything of it is replaced; what a step uses was verified since the preparation
  began; a conversion runs only while no usable result is there. Each holds at
  the step of the program, hence after a crash at that step.
- The service (`ServerInv`). A handler past the test of the phase stands on the
  end of the thread that loads, and the lock names the handler between acquire
  and release.
- What a plugin publishes (`PublishInv`, `SaveInv`). One thread publishes at a
  time, so what it tested is still so when it assigns; who waits with a save holds
  `_binding`, so nothing is put behind the hand-over.
- Calls (`RpcInv`). A call that fails closes the engine before it raises, and an
  engine is made but once.
- The audio output (`AudioInv`). A request is in one place: with the thread that
  has still to send it, in the channel, in the worker's hand, or sounding; and the
  requests waited for are exactly those on the way and the sounds that are waited
  for. `ReturnedIsSilent` is a corollary.
- The source (`ChatInv`). A message that the page token covers was handed on or is
  still in the response in hand, which is not left before; the identifiers
  remembered are the last ones recorded, so that a repetition is further from its
  first time than the window is wide.
- Loading (`LoadInv`). Every folder is in line until there is a reason for its
  status; whoever holds a callback is in hand or among the contexts that the end
  works off; what was taken and what was called are disjoint, without repetition,
  and the module is the first that was taken, so the last that is called.
- Types (`PluginsTypes`). A model that waits to be registered was prepared, and a
  preparation has its thread (`ManagerTypes`); a line in a plugin's pipe carries the
  number of a call that was made, and the lock names the thread inside the call
  (`RpcTypes`); `close` shuts a channel that was opened (`ChatTypes`); a plugin registers
  no identifier but its own (`LoadTypes`).

### The desktop

- Measurements (`SampleInv`, `NoticeInv`). What the collector was told, and is still
  to be told, ends with the request of now, so a measurement begun for the
  present revision is one of the present request. A notice that is held back is
  held back for one on its way.
- The comment window (`EchoInv`, `CareInv`). The last echo under way is what is
  saved; the record of the careful user is in one place at a time on its way
  through window, timer, queue and echo (`Rests`, `Delayed`, `Ordered`, `Echoed`).
- The dialog (`DraftInv`). What it shows differs from what it was last told
  exactly where the user edited. For `OneSaveSurvives`: while a setting was saved
  at most once since the dialog opened, every value on its way is that of the
  baseline or the saved one.
- The file (`OneInv`, `TwoInv`). The paths name different files; what is open is
  the temporary one, which is whole once nobody writes it; memory is ahead of the
  file only inside a save.
- The feed (`ListInv`, `WayInv`). A buffer holds the last items without a gap; the
  list ascends and ends before the buffer (`InRow`); and unless the buffer alone fills
  the list, nothing between the two is missing (`NoGap`). The buffer has room for
  what the list shows while a limit is changed in three steps (`Room`, `Changing`),
  until a limit is raised, which is when older items may rightly be missing.
  `Coming` says that what waits has its publisher, a queued signal, the timer or a
  refresh behind it.
- The pictures (`PlaceInv`, `CacheInv`). While the program runs, an address asked for is
  in one place: among the jobs that wait, with a worker, or among the answers; so
  its count in `PendingIsInFlight` is 1. A slot belongs to a job that waits or a busy
  worker. The cache's bytes are the sum of what it holds: `Sum` is a recursive
  function, which is read off a ledger of partial sums. That such a ledger is
  there for every list, and that the cutting of the cache ends at the first
  place where the rest fits, needs induction. The library's induction theorems
  cannot be used, but the least number of a set can be had from the theorem that
  `<` is well-founded, which speaks of sets (`LeastOf`): what failed for some
  number would fail for a least one.

- Types (`DesktopTypes`, with `MetricsTypes`, `PopoutTypes`, `StoreTypes`, `FeedTypes` and
  `IconTypes`). The invariants above give most of them; what they lack are bounds,
  which are inductive only beside what is still to come. A feed's items count those
  that a thread is about to append. A slot is taken for every job that waits and
  every busy worker, also after the end, when jobs are cancelled with their slots. A
  revision of the metrics, and the one that a scheduled request will be, is a
  change of the view. The owner of the dictionary's lock is a program that has
  started, and there is one. A dialog that is saving has its command or the answer on
  its way (`AnswerDue`).

### The dictionary

- The tables (`DictInv`). Identifiers are never given out again, those of a draft are
  -1, -2, ... without a gap, and what a draft holds is based on a version that the
  table had. A group in which something was taught since it was listed has a later
  version (`LessonsAhead`), so that a draft that deletes it is refused; that is what
  `KeepsLessons` rests on. A draft always shows a group (`SomeOpen`), so there is one
  after the commit.
- The snapshot. `SnapshotAgrees` is inductive with the types, because a table that has
  the same rows for a word as before has the same row deciding it (`Deciding`), and the
  words of all rows that a commit takes away, adds or changes are among those it
  looks up.
- What the dialog showed. A row of an open group is either not in the draft, and then the
  commit leaves it as it is, or it is, and then it is written in the place of its
  group: the new identifiers are one to one with those of the draft. So a group ends
  with what was shown.

### The dictionary page

- Who has the draft (`HandInv`). Dialogs come one after the other, but their work is
  done by one worker later: in front of every "begin" in the queue stands the
  "discard" of whoever has the draft or will have it by then, so a begin always
  finds the database free and the dialog that knows of its draft has it.
- What was typed (`TypedInv`). The last value given to a row is in the draft, on its way
  to it in the queue with no later edit of the row behind it, or its edit was refused,
  which the dialog knows or will know before it commits. That needs the barrier of a
  save (`BarrierInv`): the flush stands behind every edit of its dialog, and what is
  behind the flush is no edit.
- What is shown (`ShownInv`). Unless the groups are going to be listed again (`Dirty`), a
  page on its way is the row that is at its place, and the table is either empty
  (`Emptied`) or every block holds the row of its place, as the last edit on its way
  leaves it (`Filled`). At most one page is under way (`OnePage`), edits on their way
  are of rows that are there (`EditsLive`) and of none that is on a page on its
  way (`EditsApart`). Places are cardinalities of sets of identifiers, so that the
  block of a row determines the row.

### The plan of a comment

- What is read (`PlanInv`). Items, segments and what is accumulated stand in the order of
  the places, all before the place that is read next (`InOrder`, `Below`, `AllAhead`).
  Every letter before that place is in one of them or passed over (`Read`); so is every
  command of the voice that comes after the settings as they are now.
  `Heard` says the same of what is spoken: a setting between those it is
  spoken with and itself is not lost, so a setting holds up to the next one. `SetBefore` is
  the other half. What is spoken is never empty and has no word, without which the
  first place in `SettingsHold` would say nothing.
- A turn of the loop is proved once (`Turn`): it leaves nothing accumulated, adds at most
  one segment that is no speech, and every mark it read over is in that segment, passed
  over, or sets the voice. The commands differ in how they meet that. A sentence that is
  taken leaves the segments as they were or narrower (`Narrower`, `Shifted`).
- The words of a lesson (`Taught`). A lesson is still to be read from its start, or there is a
  segment or an item with its word and reading. That its first step can only be
  `Teach`, with those words, needs what the loops of `escaped_pair` compute:
  a place is escaped if and only if the one before is a backslash that is not
  (`EscapedIs`); the places of a written word are those of its letters and of the
  backslashes before them (`PlacesOfLetters`); so just the letters that need it are
  escaped (`WordEscaped`). These are inductions over the text, done with the least place
  at which the claim would fail (`FirstIs`).

### Left to TLC

- Liveness, and the fairness of `SpeechLane`: `LaneDrains` and `NobodyWaitsForever`,
  `EndsAreReached`, `PluginsGetOn` and `DesktopGetsOn`. Their premise is fairness, which
  is about what is enabled.
- The tree of words: `DictionaryTrie` defines it by `RECURSIVE` operators, whose presence
  takes the SMT solver from every module that reaches them, hence from `MCReading`.
  `ReplacesLongest` and `Compact` are checked for every order of changes of six words.

## 6. Not modelled

- What happens to a text before and after its commands are found: entities,
  addresses, blanks and emoji. These map one text to another, character by character.
- The built-in engines: stateless HTTP calls.
- The platform layer, the update check (one request whose answer is shown once),
  the graphs of the monitor and the widgets of the settings pages: input, output and
  drawing.
