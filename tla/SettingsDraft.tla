---------------------------- MODULE SettingsDraft ----------------------------
(***************************************************************************)
(* The settings dialog and the settings it edits.  The dialog works on a   *)
(* copy (desktop/settings/view.py, engines.py, presenter.py,               *)
(* desktop/shell/presenter.py) while the control thread of the session     *)
(* (core/session/service.py) saves what plugins register, the address a    *)
(* start was given and the place of the comment window.  Two merges keep   *)
(* the sides apart: apply_saved refreshes the copy, apply_settings the     *)
(* settings that are saved.                                                *)
(*                                                                         *)
(* A configuration is the settings of one engine, by key, the address of   *)
(* the stream, and the presentation.                                       *)
(***************************************************************************)
EXTENDS Integers, Sequences, FiniteSets

CONSTANTS
  Keys,       \* settings of the engine
  Values,
  MaxEdits,   \* bound: edits in the dialog
  MaxSaves,   \* bound: settings saved by plugins
  MaxOthers,  \* bound: starts and moves of the comment window
  MaxOpens    \* bound: dialogs opened and saves tried

ASSUME DraftAssumption ==
  /\ 0 \in Values /\ Values \subseteq Nat /\ MaxEdits \in Nat /\ MaxSaves \in Nat
  /\ MaxOthers \in Nat /\ MaxOpens \in Nat

VARIABLES
  saved,      \* SettingsService._config
  baseline,   \* _settings_baseline
  commands, news,   \* the queues of the control thread and of the GUI thread
  dialog,     \* where the dialog is
  config, draft, mark,  \* the dialog's copy; EngineEditor._configs and _saved
  count,      \* edits, saves, others and opens so far
  typed,      \* history: the user's edit of a key, or Untouched
  since,      \* history: saves of a key while the dialog is open, see below
  asked, result   \* history: see below

form == <<dialog, config, draft, mark>>
history == <<typed, since, asked, result>>
vars == <<saved, baseline, commands, news, form, count, history>>

(***************************************************************************)
(* asked: the address of the last start that saved one.  result: of the    *)
(* last save of a dialog, what was saved before and after, what the user   *)
(* had typed, and since.  since counts the saves since the dialog was      *)
(* opened, an unsuccessful one of its own among them, and the events of    *)
(* older ones that were still to be delivered.                             *)
(***************************************************************************)
Default == [engine |-> [k \in Keys |-> 0], source |-> 0, view |-> 0]
Untouched == -1
Untyped == [k \in Keys |-> Untouched]
Never == [k \in Keys |-> 0]
NoResult == [before |-> Default, after |-> Default, base |-> Default.engine, typed |-> Untyped, since |-> Never]

Init ==
  /\ saved = Default /\ baseline = Default.engine /\ commands = <<>> /\ news = <<>>
  /\ dialog = "none" /\ config = Default /\ draft = Default.engine /\ mark = Default.engine
  /\ count = [edit |-> 0, save |-> 0, other |-> 0, open |-> 0]
  /\ typed = Untyped /\ since = Never /\ asked = 0 /\ result = NoResult

Counts(what, max) == count[what] < max /\ count' = [count EXCEPT ![what] = @ + 1]
Post(c) == commands' = Append(commands, c)

-----------------------------------------------------------------------------
(***************************************************************************)
(* The GUI thread.  The dialog has no parent and is opened without waiting *)
(* for it, so the main window and the comment window go on.                *)
(***************************************************************************)
ClickStart(s) ==
  /\ Counts("other", MaxOthers)
  /\ Post([kind |-> "start", source |-> s])
  /\ UNCHANGED <<saved, baseline, news, form, history>>

MoveWindow(v) ==
  /\ Counts("other", MaxOthers) /\ Post([kind |-> "view", view |-> v])
  /\ UNCHANGED <<saved, baseline, news, form, history>>

\* open_settings_dialog: the baseline is read, and then the copy.
BeginSettings ==
  /\ dialog = "none" /\ Counts("open", MaxOpens)
  /\ dialog' = "create" /\ baseline' = saved.engine
  /\ typed' = Untyped /\ since' = Never
  /\ UNCHANGED <<saved, commands, news, config, draft, mark, asked, result>>

CreateDialog ==
  /\ dialog = "create" /\ dialog' = "open"
  /\ config' = saved /\ draft' = saved.engine /\ mark' = saved.engine
  /\ since' = [k \in Keys |-> since[k] + Cardinality({i \in 1..Len(news) : news[i].kind = "applied"})]
  /\ UNCHANGED <<saved, baseline, commands, news, count, typed, asked, result>>

Edit(k, v) ==
  /\ dialog = "open" /\ v # draft[k] /\ Counts("edit", MaxEdits)
  /\ draft' = [draft EXCEPT ![k] = v] /\ typed' = [typed EXCEPT ![k] = IF v = mark[k] THEN Untouched ELSE v]
  /\ UNCHANGED <<saved, baseline, commands, news, dialog, config, mark, since, asked, result>>

\* _accept and the start of _save: the copy takes what the controls show.
Accept(v) ==
  /\ dialog = "open" /\ Counts("open", MaxOpens) /\ dialog' = "flush"
  /\ config' = [config EXCEPT !.engine = draft, !.view = v]
  /\ UNCHANGED <<saved, baseline, commands, news, draft, mark, history>>

\* The barrier behind the dictionary's edits: an error of the dictionary or
\* of a provider's validation opens the dialog again.
FlushFails ==
  /\ dialog = "flush" /\ dialog' = "open"
  /\ UNCHANGED <<saved, baseline, commands, news, config, draft, mark, count, history>>

Flushed ==
  /\ dialog = "flush" /\ dialog' = "saving"
  /\ Post([kind |-> "apply", config |-> config, typed |-> typed])
  /\ UNCHANGED <<saved, baseline, news, config, draft, mark, count, history>>

Cancel ==
  /\ dialog = "open" /\ dialog' = "none"
  /\ UNCHANGED <<saved, baseline, commands, news, config, draft, mark, count, history>>

\* apply_saved, key by key: what the user changed stays.  Mutant: it is
\* overwritten.
RefreshAll(latest, k) == IF mark[k] = latest[k] THEN draft[k] ELSE latest[k]
Refresh(latest, k) ==
  IF mark[k] = latest[k] \/ draft[k] # mark[k] THEN draft[k] ELSE latest[k]

\* What the user typed is no longer an edit once it is what was saved.
DeliverApplied ==
  /\ news # <<>> /\ Head(news).kind = "applied" /\ news' = Tail(news)
  /\ LET latest == Head(news).config.engine IN
     IF dialog \in {"none", "create"} THEN UNCHANGED <<draft, mark, typed>>
     ELSE /\ draft' = [k \in Keys |-> Refresh(latest, k)] /\ mark' = latest
          /\ typed' = [k \in Keys |-> IF typed[k] = latest[k] THEN Untouched ELSE typed[k]]
  /\ UNCHANGED <<saved, baseline, commands, dialog, config, count, since, asked, result>>

\* _on_saved.
DeliverAnswer ==
  /\ news # <<>> /\ Head(news).kind = "answer" /\ news' = Tail(news)
  /\ dialog' = IF Head(news).error THEN "open" ELSE "none"
  /\ UNCHANGED <<saved, baseline, commands, config, draft, mark, count, history>>

-----------------------------------------------------------------------------
(***************************************************************************)
(* The plugins and the control thread.                                     *)
(***************************************************************************)
PluginSave(k, v) ==
  /\ Counts("save", MaxSaves) /\ Post([kind |-> "plugin", key |-> k, value |-> v])
  /\ UNCHANGED <<saved, baseline, news, form, history>>

Command(kind) == commands # <<>> /\ Head(commands).kind = kind /\ commands' = Tail(commands)
Applied == [kind |-> "applied", config |-> saved']

TakeStart ==
  /\ Command("start") /\ saved' = [saved EXCEPT !.source = Head(commands).source]
  /\ asked' = Head(commands).source
  /\ UNCHANGED <<baseline, news, form, count, typed, since, result>>

TakeView ==
  /\ Command("view") /\ saved' = [saved EXCEPT !.view = Head(commands).view]
  /\ news' = Append(news, Applied)
  /\ UNCHANGED <<baseline, form, count, history>>

TakePlugin == LET c == Head(commands) IN
  /\ Command("plugin") /\ saved' = [saved EXCEPT !.engine[c.key] = c.value]
  /\ since' = [since EXCEPT ![c.key] = @ + 1]
  /\ news' = Append(news, Applied)
  /\ UNCHANGED <<baseline, form, count, typed, asked, result>>

\* apply_settings: a setting that was saved since the baseline, and is as the
\* baseline has it in the dialog, keeps what was saved.  Mutants: there is
\* no merge; what was saved wins over an edit.
NoMerge(c, k) == c.engine[k]
SavedWins(c, k) == IF baseline[k] # saved.engine[k] THEN saved.engine[k] ELSE c.engine[k]
Merge(c, k) ==
  IF baseline[k] # saved.engine[k] /\ c.engine[k] = baseline[k] THEN saved.engine[k] ELSE c.engine[k]

Merged(c) == [c EXCEPT !.engine = [k \in Keys |-> Merge(c, k)]]

\* The answer to the dialog.  Mutant: an error is only reported as an issue.
AnswerSuccess(error) == IF error THEN <<>> ELSE <<[kind |-> "answer", error |-> error]>>
Answer(error) == <<[kind |-> "answer", error |-> error]>>

\* The settings are saved; the dictionary may still fail.
TakeApply(error) == LET c == Head(commands) IN
  /\ Command("apply") /\ saved' = Merged(c.config)
  /\ result' = [before |-> saved, after |-> saved', base |-> baseline, typed |-> c.typed, since |-> since]
  /\ news' = Append(news, Applied) \o Answer(error)
  /\ since' = [k \in Keys |-> since[k] + 1]
  /\ UNCHANGED <<baseline, form, count, typed, asked>>

\* The validation or the file refuses the settings.
RefuseApply ==
  /\ Command("apply") /\ news' = news \o Answer(TRUE)
  /\ UNCHANGED <<saved, baseline, form, count, history>>

-----------------------------------------------------------------------------
Save == TakeStart \/ TakeView \/ TakePlugin \/ (\E error \in BOOLEAN : TakeApply(error)) \/ RefuseApply
Deliver == CreateDialog \/ FlushFails \/ Flushed \/ DeliverApplied \/ DeliverAnswer

Next ==
  \/ BeginSettings \/ Cancel \/ Deliver \/ Save
  \/ \E v \in Values : ClickStart(v) \/ MoveWindow(v) \/ Accept(v)
  \/ \E k \in Keys, v \in Values : Edit(k, v) \/ PluginSave(k, v)

Spec == Init /\ [][Next]_vars

\* The control thread and the event loop run; users and plugins are free.
FairSpec == Spec /\ WF_vars(Save) /\ WF_vars(Deliver)

-----------------------------------------------------------------------------
Configs == [engine : [Keys -> Values], source : Values, view : Values]

\* The variables have their types, and a dialog saves at most once at a time.
TypeOK ==
  /\ saved \in Configs /\ config \in Configs /\ baseline \in [Keys -> Values]
  /\ draft \in [Keys -> Values] /\ mark \in [Keys -> Values]
  /\ dialog \in {"none", "create", "open", "flush", "saving"}
  /\ Cardinality({i \in 1..Len(commands) : commands[i].kind = "apply"})
     + Cardinality({i \in 1..Len(news) : news[i].kind = "answer"}) = IF dialog = "saving" THEN 1 ELSE 0

\* An edit of the user stays in the dialog, whatever is saved meanwhile,
\* until it is what was saved (engines.py:190-222).
EditStays == dialog \in {"open", "flush", "saving"} =>
  \A k \in Keys : typed[k] # Untouched => draft[k] = typed[k]

\* What the user typed is what a save of the dialog saves, unless it is the
\* value the dialog was opened with (service.py:338-353).
EditIsSaved == \A k \in Keys :
  result.typed[k] \notin {Untouched, result.base[k]} => result.after.engine[k] = result.typed[k]

\* What a plugin saved while the dialog was open, if that was the only save
\* and no older event was on its way, and the user did not edit, survives
\* the save of the dialog (service.py:335-353).
OneSaveSurvives == \A k \in Keys :
  result.typed[k] = Untouched /\ result.since[k] <= 1 => result.after.engine[k] = result.before.engine[k]

\* A dialog that saves is answered, so that it can be used again or closes
\* (service.py:354-360, presenter.py:64-72).
SaveAnswered == (dialog = "saving") ~> (dialog \in {"open", "none"})

\* What the comment says: settings that plugins saved after the dialog was
\* opened are preserved, however many they were (service.py:335).
BackgroundPreserved == \A k \in Keys :
  result.typed[k] = Untouched => result.after.engine[k] = result.before.engine[k]

\* What the documentation says: OK saves what the user edited
\* (docs/users/README.md:81).
EveryEditIsSaved == \A k \in Keys :
  result.typed[k] # Untouched => result.after.engine[k] = result.typed[k]

\* What the documentation says: a start saves the address it was given
\* (docs/users/README.md:62).
AddressStays == saved.source = asked
=============================================================================
