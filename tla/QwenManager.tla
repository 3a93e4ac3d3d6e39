----------------------------- MODULE QwenManager -----------------------------
(***************************************************************************)
(* The lifecycle of the one Qwen process (integrations/qwen/runtime.py):   *)
(* a lifecycle thread that starts, watches and closes it, a setup thread   *)
(* that prepares an environment and a model, the control thread of the     *)
(* session that configures both, the buttons of the settings page, and a   *)
(* service process that may load, fail or die at any time.                 *)
(*                                                                         *)
(* A generation number separates what belongs to the present configuration *)
(* from late results.  The session is reduced to what this manager makes   *)
(* of it: the saved settings of the engine, the command queue, and the     *)
(* pipeline that waits for the service.                                    *)
(***************************************************************************)
EXTENDS Integers, Sequences, SequencesExt

CONSTANTS
  Models,      \* what can be loaded: a model path with its device
  NoModel,     \* the engine is chosen but has no model
  NoEngine,    \* another engine is chosen
  MaxClicks    \* bound: what the user does

ASSUME QwenAssumption ==
  NoModel \notin Models /\ NoEngine \notin Models /\ NoModel # NoEngine /\ MaxClicks \in Nat

VARIABLES
  desired, generation, closed, preparing, cancel,
  stopped,     \* _service_stopped
  state,       \* what is published: phase, generation, whether a path is shown
  endpoint,    \* the generation whose service answers, or 0
  worker,      \* the lifecycle thread: pc, observed, config, last phase seen
  setup,       \* the setup thread: pc, generation, result
  process,     \* the service: phase and model, or NoProcess
  saved, active,   \* the settings: model of the engine, and whether it is chosen
  posts,       \* the command queue of the session
  speech,      \* the pipeline: at, and the generation it waited in
  button,      \* whether the restart button of the settings page can be pressed
  clicks

manager == <<desired, generation, closed, preparing, cancel, stopped, state, endpoint>>
threads == <<worker, setup, process>>
session == <<saved, active, posts, speech>>
vars == <<manager, threads, session, button, clicks>>

NoProcess == [phase |-> "none", model |-> NoModel]
Busy == state.phase = "environment"

\* What a configuration asks for, before anything of it has been loaded.
Wanted(config, g) ==
  [phase |-> IF config \in Models THEN "loading"
             ELSE IF config = NoModel THEN "unprepared" ELSE "stopped",
   path  |-> config \in Models, gen |-> g]

\* A publication posts a command.  When it runs it looks at the last state
\* only, so an older one that still waits may be taken out: there is one at most.
IsNews(c) == c.kind = "engine"
Older(q) == {i \in 1..Len(q) : IsNews(q[i])}
Announced(q) ==
  Append(IF Older(q) = {} THEN q ELSE RemoveAt(q, CHOOSE i \in Older(q) : TRUE), [kind |-> "engine"])

\* The program has called initialize_plugins.
Init ==
  /\ saved \in Models \cup {NoModel} /\ active \in BOOLEAN
  /\ desired = IF active THEN saved ELSE NoEngine
  /\ generation = IF active THEN 1 ELSE 0
  /\ closed = FALSE /\ preparing = FALSE /\ cancel = FALSE /\ stopped = TRUE
  /\ state = IF active THEN Wanted(saved, 1)
             ELSE [phase |-> "unprepared", path |-> FALSE, gen |-> 0]
  /\ endpoint = 0
  /\ worker = [pc |-> "wait", observed |-> -1, config |-> NoEngine, last |-> "loading"]
  /\ setup = [pc |-> "none", gen |-> 0, result |-> NoModel] /\ process = NoProcess
  /\ posts = IF active THEN <<[kind |-> "engine"]>> ELSE <<>>
  /\ speech = [at |-> "none", gen |-> 0] /\ button = FALSE /\ clicks = 0

-----------------------------------------------------------------------------
(***************************************************************************)
(* _set, for the present generation or for a given one.                    *)
(***************************************************************************)
Set(phase, path) ==
  /\ state' = [phase |-> phase, path |-> path, gen |-> generation]
  /\ posts' = Announced(posts)

Live(g) == ~closed /\ g = generation

SetIf(g, phase, path) ==
  IF Live(g) THEN Set(phase, path) ELSE UNCHANGED <<state, posts>>

Current(g) == Live(g) /\ ~preparing

(***************************************************************************)
(* configure, on the control thread, with the queue it leaves behind.      *)
(***************************************************************************)
\* Mutant: an unchanged model stays as it was even after a preparation.
AlwaysSame(config) == config = desired
Same(config) == config = desired /\ (state.phase # "prepared" \/ config = NoEngine)

Configure(config, q) ==
  /\ desired' = config
  /\ IF Same(config)
     THEN posts' = q /\ UNCHANGED <<generation, endpoint, state, cancel>>
     ELSE /\ generation' = generation + 1 /\ endpoint' = 0
          /\ cancel' = (cancel \/ preparing)
          /\ IF preparing
             THEN posts' = q /\ UNCHANGED state
             ELSE state' = Wanted(config, generation + 1) /\ posts' = Announced(q)
  /\ UNCHANGED <<closed, preparing, stopped>>

\* prepare.  Mutant: it does not wait for the service to be closed.
AsItWas == stopped
Awaited == FALSE

Prepare ==
  /\ ~closed /\ ~preparing /\ clicks < MaxClicks
  /\ cancel' = FALSE /\ stopped' = Awaited /\ preparing' = TRUE
  /\ generation' = generation + 1 /\ endpoint' = 0
  /\ state' = [phase |-> "environment", path |-> FALSE, gen |-> generation + 1]
  /\ posts' = Announced(posts)
  /\ setup' = [pc |-> "wait", gen |-> generation + 1, result |-> NoModel]
  /\ clicks' = clicks + 1
  /\ UNCHANGED <<desired, closed, worker, process, saved, active, speech, button>>

CancelPreparation ==
  /\ preparing /\ ~cancel /\ clicks < MaxClicks
  /\ cancel' = TRUE /\ clicks' = clicks + 1
  /\ UNCHANGED <<desired, generation, closed, preparing, stopped, state, endpoint, threads, session, button>>

\* The page looks at the state every 500 ms.
RestartEnabled == ~Busy /\ state.path
Refresh == button' = RestartEnabled /\ UNCHANGED <<manager, threads, session, clicks>>

Restart ==
  /\ button /\ ~closed /\ ~preparing /\ clicks < MaxClicks
  /\ clicks' = clicks + 1
  /\ IF desired \in Models
     THEN /\ generation' = generation + 1 /\ endpoint' = 0
          /\ state' = [phase |-> "loading", path |-> FALSE, gen |-> generation + 1]
          /\ posts' = Announced(posts)
     ELSE Set("unprepared", FALSE) /\ UNCHANGED <<generation, endpoint>>
  /\ UNCHANGED <<desired, closed, preparing, cancel, stopped, threads, saved, active, speech, button>>

Close ==
  /\ ~closed /\ closed' = TRUE /\ generation' = generation + 1 /\ cancel' = TRUE
  /\ posts' = <<>> /\ speech' = [at |-> "none", gen |-> 0]
  /\ UNCHANGED <<desired, preparing, stopped, state, endpoint, threads, saved, active, button, clicks>>

-----------------------------------------------------------------------------
(***************************************************************************)
(* The lifecycle thread, _manage.                                          *)
(***************************************************************************)
WorkerOnly == UNCHANGED <<desired, generation, closed, preparing, cancel, setup, saved, active, speech, button, clicks>>
WorkerAt(pc) == worker.pc = pc
WorkerGoes(pc) == worker' = [worker EXCEPT !.pc = pc]

\* Mutant: the thread returns and leaves its process.
NoClose == process' = process
LastClose == process' = NoProcess

WorkerEnd ==
  /\ WorkerAt("wait") /\ closed
  /\ LastClose /\ stopped' = TRUE /\ WorkerGoes("ended")
  /\ UNCHANGED <<state, endpoint, posts>> /\ WorkerOnly

WorkerWake ==
  /\ WorkerAt("wait") /\ ~closed /\ generation # worker.observed
  /\ worker' = [pc |-> "close", observed |-> generation, last |-> "loading",
                config |-> IF preparing \/ state.phase \in {"prepared", "cancelled", "error"}
                           THEN NoEngine ELSE desired]
  /\ UNCHANGED <<process, stopped, state, endpoint, posts>> /\ WorkerOnly

\* Mutant: only a process that is to be replaced is closed.
CloseToReplace == process' = IF worker.config \in Models THEN NoProcess ELSE process
CloseOld == process' = NoProcess

WorkerClose ==
  /\ WorkerAt("close") /\ CloseOld /\ WorkerGoes("closed")
  /\ UNCHANGED <<stopped, state, endpoint, posts>> /\ WorkerOnly

WorkerClosed ==
  /\ WorkerAt("closed") /\ stopped' = TRUE
  /\ WorkerGoes(IF worker.config \in Models THEN "check" ELSE "wait")
  /\ UNCHANGED <<process, state, endpoint, posts>> /\ WorkerOnly

\* The model or the environment may be missing.
WorkerCheck ==
  /\ WorkerAt("check")
  /\ \/ WorkerGoes("fail") /\ UNCHANGED <<state, posts>>
     \/ SetIf(worker.observed, "loading", TRUE) /\ WorkerGoes("current")
  /\ UNCHANGED <<process, stopped, endpoint>> /\ WorkerOnly

WorkerCurrent ==
  /\ WorkerAt("current") /\ WorkerGoes(IF Current(worker.observed) THEN "clear" ELSE "wait")
  /\ UNCHANGED <<process, stopped, state, endpoint, posts>> /\ WorkerOnly

WorkerClear ==
  /\ WorkerAt("clear") /\ stopped' = FALSE /\ WorkerGoes("start")
  /\ UNCHANGED <<process, state, endpoint, posts>> /\ WorkerOnly

WorkerStart ==
  /\ WorkerAt("start")
  /\ \/ process' = [phase |-> "loading", model |-> worker.config] /\ WorkerGoes("poll")
     \/ UNCHANGED process /\ WorkerGoes("fail")
  /\ UNCHANGED <<stopped, state, endpoint, posts>> /\ WorkerOnly

WorkerLeave ==
  /\ WorkerAt("poll") /\ ~Current(worker.observed) /\ WorkerGoes("wait")
  /\ UNCHANGED <<process, stopped, state, endpoint, posts>> /\ WorkerOnly

\* Mutant: a process that ends after it was ready is not noticed.
FailsWhileLoading == process.phase \in {"dead", "failed"} /\ worker.last # "ready"
\* The process has ended, or says that the model cannot be loaded.
Fails == process.phase = "dead" \/ (process.phase = "failed" /\ worker.last # "ready")

\* The test of the generation and the look at the process are two steps of
\* the code: a failure may be seen after the generation has moved on.
WorkerSeesFailure ==
  /\ WorkerAt("poll") /\ Fails /\ WorkerGoes("fail")
  /\ UNCHANGED <<process, stopped, state, endpoint, posts>> /\ WorkerOnly

WorkerSeesWarming ==
  /\ WorkerAt("poll") /\ process.phase = "warming" /\ worker.last = "loading"
  /\ SetIf(worker.observed, "warming", TRUE) /\ worker' = [worker EXCEPT !.last = "warming"]
  /\ UNCHANGED <<process, stopped, endpoint>> /\ WorkerOnly

\* The phase was asked for before the lock: the test is made again under it.
WorkerSeesReady ==
  /\ WorkerAt("poll") /\ process.phase = "ready" /\ worker.last # "ready"
  /\ IF Current(worker.observed)
     THEN endpoint' = worker.observed /\ WorkerGoes("announce")
     ELSE UNCHANGED endpoint /\ WorkerGoes("wait")
  /\ UNCHANGED <<process, stopped, state, posts>> /\ WorkerOnly

\* Mutant: "ready" is published without the generation it was seen in.
AnnounceAny == ~closed /\ Set("ready", TRUE)
Announce == SetIf(worker.observed, "ready", TRUE)

WorkerAnnounce ==
  /\ WorkerAt("announce") /\ Announce
  /\ worker' = [worker EXCEPT !.pc = "poll", !.last = "ready"]
  /\ UNCHANGED <<process, stopped, endpoint>> /\ WorkerOnly

\* After 900 s.
WorkerTimeout ==
  /\ WorkerAt("poll") /\ worker.last # "ready" /\ WorkerGoes("fail")
  /\ UNCHANGED <<process, stopped, state, endpoint, posts>> /\ WorkerOnly

WorkerFail ==
  /\ WorkerAt("fail") /\ SetIf(worker.observed, "error", FALSE) /\ WorkerGoes("failed")
  /\ UNCHANGED <<process, stopped, endpoint>> /\ WorkerOnly

WorkerRelease ==
  /\ WorkerAt("failed") /\ process' = NoProcess /\ stopped' = TRUE /\ WorkerGoes("wait")
  /\ UNCHANGED <<state, endpoint, posts>> /\ WorkerOnly

Worker ==
  \/ WorkerEnd \/ WorkerWake \/ WorkerClose \/ WorkerClosed \/ WorkerCheck \/ WorkerCurrent \/ WorkerClear
  \/ WorkerStart \/ WorkerLeave \/ WorkerSeesFailure \/ WorkerSeesWarming \/ WorkerSeesReady
  \/ WorkerAnnounce \/ WorkerTimeout \/ WorkerFail \/ WorkerRelease

-----------------------------------------------------------------------------
(***************************************************************************)
(* The setup thread, _prepare.                                             *)
(***************************************************************************)
SetupOnly == UNCHANGED <<desired, closed, stopped, worker, process, saved, active, speech, button, clicks>>

SetupWait ==
  /\ setup.pc = "wait" /\ (stopped \/ cancel)
  /\ setup' = [setup EXCEPT !.pc = IF stopped THEN "work" ELSE "finish"]
  /\ UNCHANGED <<generation, preparing, cancel, state, endpoint, posts>> /\ SetupOnly

\* provision.prepare: a model, an error or a cancellation.
SetupWork ==
  /\ setup.pc = "work"
  /\ \E r \in Models \cup {NoModel, NoEngine} :
       /\ r = NoEngine => cancel
       /\ setup' = [setup EXCEPT !.pc = "finish", !.result = r]
  /\ UNCHANGED <<generation, preparing, cancel, state, endpoint, posts>> /\ SetupOnly

Outcome ==
  IF cancel \/ setup.result \notin Models \cup {NoModel} THEN "cancelled"
  ELSE IF setup.result = NoModel THEN "error" ELSE "prepared"

Registration == [kind |-> "register", model |-> setup.result, gen |-> generation + 1]

\* Mutants: the end of an overtaken preparation is not a new configuration, or
\* is not the end of it.
NextUnlessOvertaken == IF setup.gen = generation THEN generation + 1 ELSE generation
NextGeneration == generation + 1
EndUnlessOvertaken == preparing' = (setup.gen # generation)
EndPreparing == preparing' = FALSE
Registers == setup.result \in Models /\ ~cancel

SetupFinish ==
  /\ setup.pc = "finish"
  /\ EndPreparing /\ setup' = [setup EXCEPT !.pc = "none", !.result = NoModel]
  /\ IF closed
     THEN UNCHANGED <<generation, state, posts>>
     ELSE /\ generation' = NextGeneration
          /\ IF setup.gen = generation
             THEN /\ state' = [phase |-> Outcome, path |-> Outcome = "prepared", gen |-> generation + 1]
                  /\ posts' = IF Registers THEN Append(Announced(posts), Registration) ELSE Announced(posts)
             ELSE /\ state' = Wanted(desired, NextGeneration)
                  /\ posts' = Announced(posts)
  /\ UNCHANGED <<cancel, endpoint>> /\ SetupOnly

Setup == SetupWait \/ SetupWork \/ SetupFinish

-----------------------------------------------------------------------------
(***************************************************************************)
(* The service process, on its own.                                        *)
(***************************************************************************)
ServiceGoes(from, to) == process.phase \in from /\ process' = [process EXCEPT !.phase = to]

Service ==
  /\ \/ ServiceGoes({"loading"}, "warming") \/ ServiceGoes({"warming"}, "ready")
     \/ ServiceGoes({"loading", "warming"}, "failed")
     \/ ServiceGoes({"loading", "warming", "ready", "failed"}, "dead")
  /\ UNCHANGED <<manager, worker, setup, session, button, clicks>>

-----------------------------------------------------------------------------
(***************************************************************************)
(* The control thread of the session, and what users ask of it.            *)
(***************************************************************************)
ControlOnly == UNCHANGED <<threads, button, clicks>>
Takes(kind) == ~closed /\ posts # <<>> /\ Head(posts).kind = kind
Rebuilt == [at |-> IF speech.at = "none" THEN "none" ELSE IF active' THEN "created" ELSE "other", gen |-> 0]
Mine == {"created", "starting", "speaking"}

\* _engine_changed
TakeNews ==
  /\ Takes("engine") /\ posts' = Tail(posts)
  /\ speech' = IF ~active THEN speech
               ELSE IF (Busy \/ state.phase = "error") /\ speech.at \in Mine
                    THEN [speech EXCEPT !.at = "cancelled"]
               ELSE IF state.phase = "ready" /\ speech.at = "cancelled" THEN [at |-> "created", gen |-> 0]
               ELSE speech
  /\ UNCHANGED <<desired, generation, closed, preparing, cancel, stopped, state, endpoint, saved, active>>
  /\ ControlOnly

\* _apply of a dialog, or of a presentation that changes nothing here.
TakeApply ==
  /\ Takes("apply") /\ active' = Head(posts).active
  /\ Configure(IF active' THEN saved ELSE NoEngine, Tail(posts))
  /\ speech' = IF active' = active THEN speech ELSE Rebuilt
  /\ UNCHANGED saved /\ ControlOnly

\* save_config and save_plugin_config.  Mutant: whatever happened meanwhile.
AnyRegistration(c) == TRUE
Registered(c) == state.gen = c.gen

TakeRegistration ==
  /\ Takes("register") /\ UNCHANGED active
  /\ LET c == Head(posts) IN
     IF Registered(c)
     THEN /\ saved' = c.model
          /\ Configure(IF active THEN c.model ELSE NoEngine, Tail(posts))
          /\ speech' = IF active /\ c.model # saved THEN Rebuilt ELSE speech
     ELSE posts' = Tail(posts) /\ UNCHANGED <<saved, speech, desired, generation, closed, preparing,
                                              cancel, stopped, state, endpoint>>
  /\ ControlOnly

Control == TakeNews \/ TakeApply \/ TakeRegistration

UserApplies ==
  /\ ~closed /\ clicks < MaxClicks /\ clicks' = clicks + 1
  /\ \E a \in BOOLEAN : posts' = Append(posts, [kind |-> "apply", active |-> a])
  /\ UNCHANGED <<desired, generation, closed, preparing, cancel, stopped, state, endpoint,
                 threads, saved, active, speech, button>>

UserSession ==
  /\ ~closed /\ clicks < MaxClicks /\ clicks' = clicks + 1
  /\ speech' = [at |-> IF speech.at # "none" THEN "none" ELSE IF active THEN "created" ELSE "other", gen |-> 0]
  /\ UNCHANGED <<manager, threads, saved, active, posts, button>>

\* wait_ready, on the generation thread of the pipeline.
SpeechGoes(s) == speech' = s /\ UNCHANGED <<manager, threads, saved, active, posts, button, clicks>>

\* Mutant: only an error ends the wait.
OnlyError == {"error"}
Hopeless == {"error", "unprepared", "cancelled", "stopped"}

SpeechWaits == speech.at = "created" /\ SpeechGoes([at |-> "starting", gen |-> generation])
SpeechFails ==
  /\ speech.at = "starting"
  /\ speech.gen # generation \/ state.phase \in Hopeless
  /\ SpeechGoes([speech EXCEPT !.at = "cancelled"])
SpeechStarts ==
  /\ speech.at = "starting" /\ speech.gen = generation /\ state.phase = "ready" /\ endpoint # 0
  /\ SpeechGoes([speech EXCEPT !.at = "speaking"])

Speech == SpeechWaits \/ SpeechFails \/ SpeechStarts
User == Prepare \/ CancelPreparation \/ Refresh \/ Restart \/ Close \/ UserApplies \/ UserSession

Next == User \/ Worker \/ Setup \/ Service \/ Control \/ Speech

Spec == Init /\ [][Next]_vars

\* The service owes nothing: a load that never ends is ended by the timeout
\* of its thread.  The environment and the model are provisioned or fail.
Fairness ==
  /\ WF_vars(Worker) /\ WF_vars(Setup) /\ WF_vars(Control) /\ WF_vars(Speech)
FairSpec == Spec /\ Fairness

-----------------------------------------------------------------------------
Phases == {"environment", "loading", "warming", "ready", "prepared", "cancelled", "error", "unprepared", "stopped"}

\* Types, and the parts of the state that always move together.
TypeOK ==
  /\ desired \in Models \cup {NoModel, NoEngine} /\ saved \in Models \cup {NoModel}
  /\ {generation, endpoint, state.gen, clicks} \subseteq Nat /\ endpoint <= generation /\ state.gen <= generation
  /\ {closed, preparing, cancel, stopped, state.path, active, button} \subseteq BOOLEAN /\ state.phase \in Phases
  /\ worker.pc \in {"wait", "close", "closed", "check", "current", "clear", "start", "poll", "announce",
                    "fail", "failed", "ended"}
  /\ setup.pc \in {"none", "wait", "work", "finish"} /\ (setup.pc # "none") = preparing
  /\ process.phase \in {"none", "loading", "warming", "ready", "failed", "dead"}
  /\ \A i \in 1..Len(posts) : posts[i].kind \in {"engine", "apply", "register"}
  /\ speech.at \in Mine \cup {"none", "other", "cancelled"}

\* An environment or a model is never prepared while the service runs: its
\* files are in use until the process is closed (_service_stopped).
ProvisionAlone == setup.pc = "work" => process = NoProcess

\* "Ready" is only shown for the model that is configured now, with a service
\* that has loaded it and whose address is handed out.
ReadyMeansServed ==
  state.phase = "ready" /\ ~closed =>
    /\ endpoint = generation /\ state.gen = generation
    /\ process.model = desired /\ process.phase \in {"ready", "dead"}

\* A model is registered only as the outcome of the last preparation: not
\* after it was cancelled, and not once something newer is prepared or loaded.
RegistersWhatIsShown == [][saved' # saved => ~preparing /\ state.phase \in {"prepared", "unprepared"}]_vars

\* A wait for the service, of the loading itself or of a preparation, comes to
\* an end, however configurations, clicks and the service interleave.
Settles ==
  state.phase \in {"environment", "loading", "warming"} ~>
    (state.phase \notin {"environment", "loading", "warming"} \/ closed)

\* A prepared model of the chosen engine is loaded, even when it is the model
\* that was configured before.
PreparedIsLoaded == (state.phase = "prepared" /\ active) ~> (state.phase # "prepared" \/ ~active \/ closed)

\* The service of an engine that is no longer chosen is released.
OldEngineReleased == (desired = NoEngine) ~> (process = NoProcess \/ desired # NoEngine)

\* The end of the service is noticed, also when it was ready long before.
DeathNoticed == (process.phase = "dead") ~> (process.phase # "dead")

\* A pipeline that waits for the service is told to speak or to give up.
WaitEnds == (speech.at = "starting") ~> (speech.at # "starting")

\* close returns: both threads end and no process is left.
CloseReturns == closed ~> (worker.pc = "ended" /\ setup.pc = "none" /\ process = NoProcess)

-----------------------------------------------------------------------------
(***************************************************************************)
(* What docs/users/qwen3.md says and the code does not do.                 *)
(***************************************************************************)
\* "The path and device of a completed model are saved independently of the
\* settings' OK": no answer of the dialog drops the registration.
RegistrationKept == [][TakeRegistration /\ ~preparing => saved' = Head(posts).model]_vars

\* After a failure "retry, restart" starts over: the button can be pressed.
RetryOffered == state.phase = "error" /\ desired \in Models /\ ~closed => RestartEnabled

\* An explicit restart cancels the speech there is: when the new service is
\* ready and all news is handled, no pipeline of the old service speaks on.
RestartSilences ==
  state.phase = "ready" /\ ~closed /\ (\A i \in 1..Len(posts) : ~IsNews(posts[i])) /\ speech.at = "speaking"
    => speech.gen = generation
=============================================================================
