------------------------------ MODULE MCPlugins ------------------------------
(***************************************************************************)
(* The Qwen plugin, its service, its preparation of models, the loading of *)
(* plugins, what a plugin publishes and saves, an external engine, the     *)
(* source of the comments and the audio output, one of them at a time:     *)
(* part names the one that runs while the others stay as they start.  They *)
(* share no variable, so the states are those of each, side by side, and a *)
(* property speaks of the one that runs.                                   *)
(***************************************************************************)
EXTENDS QwenManager, TLC

CONSTANTS
  Parts,                \* which of the components run
  Threads,              \* of a plugin, and those that use an engine
  Players,              \* those of them that play sounds
  Versions,             \* of the application
  Capacity, MaxEffects, \* of the channel of the audio output, and sounds at once
  Builtin, External, Ids, \* folders of plugins, and identifiers
  Page, Hidden, Window, MaxOpens,  \* of the source of the comments
  MaxGen, MaxSaves, MaxCalls, MaxPosts, Messages,      \* bounds, see the modules
  MaxBegins, MaxFaults, MaxPlays, MaxBreaks

VARIABLES
  part,
  app, downloads, runtime, source, folder, input, work, dest, job, registered, begins, faults,
  info, status, order, step, context, called, blamed, contexts, known, config,
  newest, kind, seen, publisher, binding, bound, flushing, pending, saver, calls, kept, dropped, made,
  engine, child, ended, lock, caller, asks, asked, replies,
  at, leaving, channel, sent, token, first, ids, items, stop, closer, copy, shut, connected,
  opens, recorded, published, answer, late, off,
  sender, pipe, player, hand, sounding, device, fault, heard, voice, ending, plays, breaks,
  phase, error, synth, loader, busy, handler, client, reply, health, posted

provisionVars == <<app, downloads, runtime, source, folder, input, work, dest, job, registered, begins, faults>>
loadVars == <<info, status, order, step, context, called, blamed, contexts, known, config>>
stateVars == <<newest, kind, seen, publisher, binding, bound, flushing, pending, saver, calls, kept, dropped, made>>
rpcVars == <<engine, child, ended, lock, caller, asks, asked, replies>>
sourceVars ==
  <<at, leaving, channel, sent, token, first, ids, items, stop, closer, copy, shut, connected,
    opens, recorded, published, answer, late, off>>
audioVars == <<sender, pipe, player, hand, sounding, device, fault, heard, voice, ending, plays, breaks>>
serviceVars == <<phase, error, synth, loader, busy, handler, client, reply, health, posted>>
others == <<provisionVars, loadVars, stateVars, rpcVars, sourceVars>>

Provisioning == INSTANCE Provision
\* The runs have one bundled folder and two external ones, which may take its
\* identifier.
Load == INSTANCE PluginLoad WITH saved <- known
\* The threads of one plugin that publishes under a lock of its own.
Port == INSTANCE PluginState WITH
  OneAtATime <- TRUE, state <- kind, lock <- binding, posts <- calls
\* Threads that use one engine.
Rpc == INSTANCE PluginRpc WITH
  Callers <- Threads, process <- child, closed <- ended, sent <- asks
\* The runs hide one message, whose type is not handed on, and remember two
\* identifiers, so that a third one already makes the first forgotten.
Chat == INSTANCE YouTubeSource WITH order <- ids
\* The runs give the channel one place and allow one effect at a time, so that
\* both are full.
Audio == INSTANCE AudioPlayer WITH
  Callers <- Players, MaxFaults <- MaxBreaks,
  channel <- pipe, worker <- player, active <- sounding, caller <- voice, closer <- ending, faults <- breaks
\* The runs ask for two clips: the first may still be in hand when the second
\* is asked for.
Server == INSTANCE QwenService WITH MaxCalls <- MaxPosts, lock <- busy, calls <- posted

ASSUME PluginsAssumption ==
  /\ Parts \subseteq {"qwen", "provision", "load", "port", "rpc", "chat", "audio", "service"}
  /\ Provisioning!ProvisionAssumption /\ Load!LoadAssumption /\ Port!StateAssumption
  /\ Rpc!RpcAssumption /\ Chat!SourceAssumption /\ Audio!PlayerAssumption /\ Server!ServiceAssumption

\* Models are alike, and so are threads.
Symmetry == Permutations(Models) \cup Permutations(Threads)

\* A component that does not run has but one initial state.
PluginsInit ==
  /\ part \in Parts
  /\ Init /\ Provisioning!Init /\ Load!Init /\ Port!Init /\ Rpc!Init /\ Chat!Init
  /\ Audio!Init /\ Server!Init
  /\ part = "qwen" \/ (saved = NoModel /\ ~active)
  /\ part = "provision" \/ app = CHOOSE v \in Versions : TRUE
  /\ part = "load" \/ (known = {} /\ info = [f \in Load!Folders |->
       [id |-> IF f \in Builtin THEN f ELSE CHOOSE i \in Ids : i \notin Builtin, error |-> FALSE, enabled |-> FALSE]])

PluginsNext ==
  /\ UNCHANGED part
  /\ \/ /\ part = "qwen" /\ Next
        /\ UNCHANGED <<others, audioVars, serviceVars>>
     \/ /\ part = "provision" /\ Provisioning!Next
        /\ UNCHANGED <<vars, loadVars, stateVars, rpcVars, sourceVars, audioVars, serviceVars>>
     \/ /\ part = "load" /\ Load!Next
        /\ UNCHANGED <<vars, provisionVars, stateVars, rpcVars, sourceVars, audioVars, serviceVars>>
     \/ /\ part = "port" /\ Port!Next
        /\ UNCHANGED <<vars, provisionVars, loadVars, rpcVars, sourceVars, audioVars, serviceVars>>
     \/ /\ part = "rpc" /\ Rpc!Next
        /\ UNCHANGED <<vars, provisionVars, loadVars, stateVars, sourceVars, audioVars, serviceVars>>
     \/ /\ part = "chat" /\ Chat!Next
        /\ UNCHANGED <<vars, provisionVars, loadVars, stateVars, rpcVars, audioVars, serviceVars>>
     \/ /\ part = "audio" /\ Audio!Next
        /\ UNCHANGED <<vars, others, serviceVars>>
     \/ /\ part = "service" /\ Server!Next
        /\ UNCHANGED <<vars, others, audioVars>>

PluginsSpec ==
  PluginsInit /\ [][PluginsNext]_<<part, vars, others, audioVars, serviceVars>>

\* The fairness that each module states, for the component that runs.
FairPlugins ==
  /\ PluginsSpec
  /\ WF_vars(part = "qwen" /\ Worker) /\ WF_vars(part = "qwen" /\ Setup)
  /\ WF_vars(part = "qwen" /\ Control) /\ WF_vars(part = "qwen" /\ Speech)
  /\ WF_provisionVars(part = "provision" /\ Provisioning!Prepare)
  /\ \A t \in Threads : WF_stateVars(part = "port" /\ Port!Saver(t))
  /\ WF_stateVars(part = "port" /\ Port!Host) /\ WF_stateVars(part = "port" /\ Port!Apply)
  /\ \A t \in Threads : WF_rpcVars(part = "rpc" /\ Rpc!Call(t))
  /\ WF_sourceVars(part = "chat" /\ Chat!Own) /\ WF_sourceVars(part = "chat" /\ Chat!Cut)
  /\ WF_sourceVars(part = "chat" /\ (Chat!CopyChannel \/ Chat!ShutChannel \/ Chat!Join))
  /\ WF_audioVars(part = "audio" /\ Audio!Worker) /\ WF_audioVars(part = "audio" /\ Audio!EndSound)
  /\ WF_audioVars(part = "audio" /\ (Audio!SendClose \/ Audio!Join))
  /\ \A t \in Players : WF_audioVars(part = "audio" /\ Audio!Call(t))
  /\ WF_serviceVars(part = "service" /\ Server!Load)
  /\ \A n \in Server!Posts : WF_serviceVars(part = "service" /\ Server!Handle(n))

-----------------------------------------------------------------------------
\* Every variable of the component that runs has its type.
PluginsTypeOK ==
  CASE part = "qwen" -> TypeOK
    [] part = "provision" -> Provisioning!TypeOK
    [] part = "load" -> Load!TypeOK
    [] part = "port" -> Port!TypeOK
    [] part = "rpc" -> Rpc!TypeOK
    [] part = "chat" -> Chat!TypeOK
    [] part = "audio" -> Audio!TypeOK
    [] part = "service" -> Server!TypeOK

\* The service and the preparation take turns, and "ready" is shown only for
\* the model that is configured and served; in the service one thread at a
\* time uses the model, and an error comes with its message.
ServiceIsShown ==
  /\ part = "qwen" => ProvisionAlone /\ ReadyMeansServed
  /\ part = "service" => Server!ModelAlone /\ Server!ErrorIsExplained

\* What a preparation leaves, whatever interrupted it, is whole, made from
\* verified files, and not at the expense of the user's folder.
ModelsAreWhole ==
  part = "provision" => Provisioning!MarkedIsWhole /\ Provisioning!OnlyVerified /\ Provisioning!FolderUntouched

\* Plugins do not get in each other's way, and what one took is released, in
\* the right order, when it fails and at the end.
PluginsAreApart ==
  part = "load" =>
    /\ Load!OwnIdentifier /\ Load!OthersLoad /\ Load!SettingsKept
    /\ Load!FailureReleases /\ Load!UnloadedLast /\ Load!EndReleases

\* State and saves of a plugin move on, and a call to an engine gets its own
\* answer; a call that failed and an engine that was not made leave no process.
\* A sound is over when its call has returned, and all of them after close.
PortsAgree ==
  /\ part = "port" => Port!StateMovesOn /\ Port!NothingWaits
  /\ part = "rpc" => Rpc!OwnAnswer /\ Rpc!NoOrphan /\ Rpc!FailedIsClosed
  /\ part = "audio" =>
       /\ Audio!HeardWhole /\ Audio!ReturnedIsSilent
       /\ Audio!DeviceUnderSound /\ Audio!SilentAtEnd

\* Every comment is handed on, in spite of reconnects, and none twice within
\* the window; a connection that is down is reported, a closed source ends.
CommentsArrive ==
  part = "chat" =>
    /\ Chat!NoRepeat /\ Chat!NothingLost /\ Chat!HistoryIsFirst
    /\ Chat!DownIsReported /\ Chat!AtMostOneLate

\* What is newer is never undone: a model that is registered is the last one
\* prepared, a usable model stays, and a result of an old generation is dropped.
NewestStays == RegistersWhatIsShown /\ Provisioning!UsableStays /\ Port!OldResultDropped

\* The Qwen plugin gets on: waits end, a prepared model is loaded, an old
\* engine released, a death noticed, and close returns.  An undisturbed
\* preparation succeeds, a save is decided, a call returns, the source closes
\* and connects again; the audio output answers and closes, and the model of
\* the service comes free.
PluginsGetOn ==
  /\ part = "qwen" =>
       /\ Settles /\ PreparedIsLoaded /\ OldEngineReleased
       /\ DeathNoticed /\ WaitEnds /\ CloseReturns
  /\ part = "provision" => Provisioning!RetrySucceeds
  /\ part = "port" => Port!SavesDecided
  /\ part = "rpc" => Rpc!CallsEnd /\ Rpc!CloseEndsProcess
  /\ part = "chat" => Chat!FoundIsClosed /\ Chat!Reconnects
  /\ part = "audio" => Audio!PlayReturns /\ Audio!CloseReturns
  /\ part = "service" => Server!LockComesBack
=============================================================================
