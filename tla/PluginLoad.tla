----------------------------- MODULE PluginLoad ------------------------------
(***************************************************************************)
(* The inventory, registration and end of plugins (plugins/manager.py,     *)
(* api.py): bundled and external folders are scanned, each enabled one is  *)
(* given a context, imported and asked to register a provider, and the     *)
(* provider is examined.  Any of it may raise, and so may the callbacks    *)
(* that release what a plugin took.                                        *)
(***************************************************************************)
EXTENDS Naturals, Sequences, FiniteSets, SequencesExt

CONSTANTS
  Builtin,    \* bundled folders, each with the identifier of its name
  External,   \* folders under plugins/
  Ids         \* identifiers a manifest may give

LoadAssumption ==
  /\ Builtin \subseteq Ids /\ "none" \notin Ids /\ Builtin \cap External = {}
  /\ IsFiniteSet(Builtin) /\ IsFiniteSet(External)

Folders == Builtin \cup External

VARIABLES
  info,       \* of every folder: identifier, error in its manifest, enabled
  status,     \* "new", "loaded", "error" or "disabled"
  order,      \* folders still to load
  step,       \* of the load in hand, or of the end of the program
  context,    \* of every folder: accepting, provider, callbacks, errors of a close
  called,     \* callbacks that have run
  blamed,     \* folders whose own code failed
  contexts,   \* contexts of loaded plugins, in the order of registration
  saved,      \* identifiers the saved settings know
  config      \* settings after loading: identifier -> values of the user, defaults

vars == <<info, status, order, step, context, called, blamed, contexts, saved, config>>

NoContext == [accepting |-> FALSE, provider |-> "none", callbacks |-> <<>>, failed |-> FALSE]

\* The folders in hand and their manifests; external ones in order of name.
Init ==
  /\ info \in [Folders -> [id : Ids, error : BOOLEAN, enabled : BOOLEAN]]
  /\ \A b \in Builtin : info[b].id = b
  /\ status = [f \in Folders |-> "new"] /\ step = "next"
  /\ order = SetToSeq(Builtin) \o SetToSeq(External)
  /\ context = [f \in Folders |-> NoContext] /\ called = [f \in Folders |-> <<>>]
  /\ blamed = {} /\ contexts = <<>>
  /\ saved \in SUBSET Ids /\ config = [i \in saved |-> [user |-> TRUE, defaults |-> FALSE]]

Current == Head(order)


\* Mutant: only an identifier that was already loaded counts as a duplicate.
LoadedBefore(f) == f \in External /\ \E g \in Folders \ {f} : status[g] = "loaded" /\ info[g].id = info[f].id
Duplicate(f) ==
  f \in External /\ (info[f].id \in {info[b].id : b \in Builtin} \/ \E g \in External \ {f} : info[g].id = info[f].id)

Status(s) == status' = [status EXCEPT ![Current] = s]
ContextIs(c) == context' = [context EXCEPT ![Current] = c]
Inventory == UNCHANGED <<info, saved>>

\* Mutant: the context goes on taking registrations.
StillAccepting(c) == c
Closed(c) == [c EXCEPT !.accepting = FALSE]

-----------------------------------------------------------------------------
(***************************************************************************)
(* load                                                                    *)
(***************************************************************************)
Skip ==
  /\ step = "next" /\ order # <<>> /\ order' = Tail(order)
  /\ LET bad == info[Current].error \/ Duplicate(Current) IN
     /\ bad \/ ~info[Current].enabled
     /\ Status(IF bad THEN "error" ELSE "disabled")
  /\ UNCHANGED <<step, context, called, blamed, contexts, config>> /\ Inventory

Open ==
  /\ step = "next" /\ order # <<>>
  /\ ~info[Current].error /\ ~Duplicate(Current) /\ info[Current].enabled
  /\ ContextIs([NoContext EXCEPT !.accepting = TRUE, !.callbacks = IF Current \in External THEN <<"module">> ELSE <<>>])
  /\ step' = "run" /\ UNCHANGED <<status, order, called, blamed, contexts, config>> /\ Inventory

\* The plugin's own code takes a process of the host ...
TakeProcess ==
  /\ step = "run" /\ "process" \notin Range(context[Current].callbacks)
  /\ ContextIs([context[Current] EXCEPT !.callbacks = Append(@, "process")])
  /\ UNCHANGED <<status, order, step, called, blamed, contexts, config>> /\ Inventory

\* ... and registers a provider: once, with its own identifier.
Register ==
  /\ step = "run" /\ context[Current].provider = "none"
  /\ ContextIs([context[Current] EXCEPT !.provider = info[Current].id, !.callbacks = Append(@, "provider")])
  /\ UNCHANGED <<status, order, step, called, blamed, contexts, config>> /\ Inventory

\* register raises in every other case, and the code may raise by itself.
RunFails ==
  /\ step = "run" /\ blamed' = blamed \cup {Current} /\ step' = "release"
  /\ ContextIs(Closed(context[Current]))
  /\ UNCHANGED <<status, order, called, contexts, config>> /\ Inventory

RunEnds ==
  /\ step = "run" /\ step' = "examine" /\ ContextIs(Closed(context[Current]))
  /\ UNCHANGED <<status, order, called, blamed, contexts, config>> /\ Inventory

\* No provider, or one that breaks its contract.
ExamineFails ==
  /\ step = "examine" /\ blamed' = blamed \cup {Current} /\ step' = "release"
  /\ UNCHANGED <<status, order, context, called, contexts, config>> /\ Inventory

Examined ==
  /\ step = "examine" /\ context[Current].provider # "none"
  /\ Status("loaded") /\ contexts' = Append(contexts, Current)
  /\ order' = Tail(order) /\ step' = "next"
  /\ UNCHANGED <<context, called, blamed, config>> /\ Inventory

-----------------------------------------------------------------------------
(***************************************************************************)
(* PluginContext.close: every callback runs, the last one first.           *)
(***************************************************************************)
\* Mutant: the first one first.
Oldest(s) == 1
Latest(s) == Len(s)

\* Mutant: an error ends the loop.
UntilError(c) == c.callbacks # <<>> /\ ~c.failed
More(c) == c.callbacks # <<>>

CloseStep(f) ==
  /\ More(context[f])
  /\ LET n == Latest(context[f].callbacks) IN
     /\ called' = [called EXCEPT ![f] = Append(@, context[f].callbacks[n])]
     /\ \E failed \in BOOLEAN :
          context' = [context EXCEPT ![f] = [context[f] EXCEPT !.callbacks = RemoveAt(@, n), !.failed = @ \/ failed]]

Release ==
  /\ step = "release" /\ CloseStep(Current)
  /\ UNCHANGED <<status, order, step, blamed, contexts, config>> /\ Inventory

\* Mutant: the failure of one plugin ends the loading of all.
LoadEnds == <<>>
LoadGoesOn == Tail(order)

Released ==
  /\ step = "release" /\ ~More(context[Current])
  /\ Status("error") /\ order' = LoadGoesOn /\ step' = "next"
  /\ UNCHANGED <<context, called, blamed, contexts, config>> /\ Inventory

\* What is saved stays, also of a plugin that is not there; what a provider
\* declares is added.  Mutant: only the settings of providers are kept.
OnlyProviders(ids) == [i \in ids |-> [user |-> i \in saved, defaults |-> TRUE]]
WithDefaults(ids) == [i \in ids \cup saved |-> [user |-> i \in saved, defaults |-> i \in ids]]

Loaded ==
  /\ step = "next" /\ order = <<>> /\ step' = "running"
  /\ config' = WithDefaults({info[f].id : f \in Range(contexts)})
  /\ UNCHANGED <<status, order, context, called, blamed, contexts>> /\ Inventory

-----------------------------------------------------------------------------
(***************************************************************************)
(* close, at the end of the program.                                       *)
(***************************************************************************)
Close ==
  /\ step = "running" /\ step' = "closing"
  /\ UNCHANGED <<status, order, context, called, blamed, contexts, config>> /\ Inventory

CloseContext ==
  /\ step = "closing" /\ contexts # <<>>
  /\ LET f == Last(contexts) IN
     IF More(context[f]) THEN CloseStep(f) /\ UNCHANGED contexts
     ELSE contexts' = Front(contexts) /\ UNCHANGED <<context, called>>
  /\ UNCHANGED <<status, order, step, blamed, config>> /\ Inventory

Next ==
  \/ Skip \/ Open \/ TakeProcess \/ Register \/ RunFails \/ RunEnds \/ ExamineFails \/ Examined
  \/ Release \/ Released \/ Loaded \/ Close \/ CloseContext

Spec == Init /\ [][Next]_vars

-----------------------------------------------------------------------------
Resources == {"module", "process", "provider"}

\* Types; a context takes registrations only while its plugin's code runs.
TypeOK ==
  /\ status \in [Folders -> {"new", "loaded", "error", "disabled"}]
  /\ step \in {"next", "run", "examine", "release", "running", "closing"}
  /\ \A f \in Folders :
       /\ Range(context[f].callbacks) \cup Range(called[f]) \subseteq Resources
       /\ context[f].provider \in {"none", info[f].id}
       /\ context[f].accepting => step = "run" /\ f = Current
  /\ \A i \in 1..Len(contexts), j \in 1..Len(contexts) : contexts[i] = contexts[j] => i = j

\* An external folder can take the place of no other: neither of a bundled
\* plugin, loaded or not, nor of an external one, whichever is scanned first.
OwnIdentifier ==
  \A f \in External : status[f] = "loaded" => \A g \in Folders \ {f} : info[g].id # info[f].id

\* A plugin that fails keeps no other from being loaded.
OthersLoad ==
  step = "running" => \A f \in Folders :
    info[f].enabled /\ ~info[f].error /\ ~Duplicate(f) /\ f \notin blamed => status[f] = "loaded"

\* What a plugin took before its registration failed is released, even when
\* the release of a part of it fails.
FailureReleases ==
  \A f \in Folders : status[f] = "error" => context[f].callbacks = <<>>

\* The code of a plugin is unloaded after everything that may still run in it.
UnloadedLast ==
  \A f \in Folders : "module" \in Range(called[f]) => context[f].callbacks = <<>>

\* At the end of the program every callback of every plugin has run, once.
EndReleases ==
  step = "closing" /\ contexts = <<>> =>
    \A f \in Folders : context[f].callbacks = <<>> /\ Cardinality(Range(called[f])) = Len(called[f])

\* Loading loses no setting: not of a plugin that is disabled, broken or gone.
SettingsKept == \A i \in saved : i \in DOMAIN config /\ config[i].user
=============================================================================
