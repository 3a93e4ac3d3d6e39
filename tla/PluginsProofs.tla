---------------------------- MODULE PluginsProofs ----------------------------
(***************************************************************************)
(* Proofs about plugins, for every value of the constants of MCPlugins:    *)
(* the Qwen plugin, its service and its preparation of models, the ports   *)
(* between the program and a plugin, the source of the comments and the    *)
(* loading of plugins; and then the properties that speak of all of them.  *)
(***************************************************************************)
EXTENDS MCPlugins, SequenceTheorems, FiniteSetTheorems, TLAPS

-----------------------------------------------------------------------------
(***************************************************************************)
(* The service.  The model is ready only when its thread has ended, every  *)
(* request that has passed the test stands on that, and the lock belongs   *)
(* to the request that is between acquire and release.                     *)
(***************************************************************************)
Loaders == {"load", "warm", "publish", "phase", "end"}
Stages == {"none", "check", "body", "acquire", "synthesize", "send", "release", "answer", "done"}
Statuses == {0, 200, 400, 429, 500, 503}
RuntimeType == phase \in Server!Phases /\ error \in BOOLEAN /\ synth \in BOOLEAN /\ loader \in Loaders
NumberType == busy \in 0 .. MaxPosts /\ client \in 0 .. MaxPosts /\ posted \in 0 .. MaxPosts
AnswerType == handler \in [Server!Posts -> [pc : Stages, status : Statuses]] /\ reply \in Statuses
HealthType == health \in [pc : {"rest", "phase", "read"}, phase : Server!Phases, error : BOOLEAN]
Ended == phase = "ready" => loader = "end"
Passed == \A n \in Server!Posts :
  handler[n].pc \in {"body", "acquire", "synthesize", "send", "release"} => phase = "ready"
Holds == \A n \in Server!Posts : handler[n].pc \in {"synthesize", "send", "release"} => busy = n
Explained == (phase = "error" \/ health.phase = "error") => error = TRUE
Asked == health.pc = "read" /\ health.phase = "error" => health.error = TRUE
ServerInv ==
  /\ RuntimeType /\ NumberType /\ AnswerType /\ HealthType
  /\ Ended /\ Passed /\ Holds /\ Explained /\ Asked

\* The invariant of the service holds at the start.
LEMMA ServerInit == ASSUME Server!ServiceAssumption, Server!Init PROVE ServerInv
<1>n. NumberType
  BY DEF Server!ServiceAssumption, Server!Init, NumberType
<1>1. RuntimeType
  BY DEF Server!Init, Server!Phases, RuntimeType, Loaders
<1>2. handler = [n \in Server!Posts |-> [pc |-> "none", status |-> 0]] /\ reply = 0
  BY DEF Server!Init
<1>3. AnswerType
  BY <1>2 DEF AnswerType, Stages, Statuses
<1>4. HealthType
  BY DEF Server!Init, Server!NotAsked, Server!Phases, HealthType
<1>5. Ended /\ Passed /\ Holds /\ Explained /\ Asked
  BY <1>2 DEF Server!Init, Server!NotAsked, Ended, Passed, Holds, Explained, Asked
<1> QED BY <1>n, <1>1, <1>3, <1>4, <1>5 DEF ServerInv

\* The steps of the thread that loads the model: it makes the model ready with
\* its last step, and before that nobody has passed the test.
LEMMA LoadKeeps == ASSUME ServerInv, Server!Load PROVE ServerInv'
<1>u. UNCHANGED <<busy, handler, client, reply, health, posted>>
  BY DEF Server!Load, Server!LoadModel, Server!WarmedUp, Server!PublishReady, Server!LoadFails,
    Server!PublishError, Server!LoaderOnly, Server!MessageFirst, Server!LoaderGoes
<1>l. loader # "end" /\ phase # "ready"
  BY DEF Server!Load, Server!LoadModel, Server!WarmedUp, Server!PublishReady, Server!LoadFails,
    Server!PublishError, Server!LoaderGoes, ServerInv, Ended
<1>s. Ended' /\ Explained'
  BY <1>l, <1>u DEF Server!Load, Server!LoadModel, Server!WarmedUp, Server!PublishReady, Server!LoadFails,
    Server!PublishError, Server!LoaderOnly, Server!MessageFirst, Server!LoaderGoes, ServerInv, Ended, Explained
<1>t. RuntimeType'
  BY DEF Server!Load, Server!LoadModel, Server!WarmedUp, Server!PublishReady, Server!LoadFails,
    Server!PublishError, Server!LoaderOnly, Server!MessageFirst, Server!LoaderGoes, ServerInv,
    RuntimeType, Loaders, Server!Phases
<1>p. \A n \in Server!Posts : handler[n].pc \notin {"body", "acquire", "synthesize", "send", "release"}
  BY <1>l DEF ServerInv, Passed
<1> QED
  BY <1>u, <1>s, <1>t, <1>p DEF ServerInv, NumberType, AnswerType, HealthType, Passed, Holds, Asked

\* The steps of the application, and the answers to /health.
LEMMA PostKeeps == ASSUME ServerInv, Server!ServiceAssumption, Server!Post PROVE ServerInv'
<1>1. /\ posted + 1 \in Server!Posts /\ UNCHANGED <<phase, error, synth, loader, busy, health>>
      /\ posted' = posted + 1 /\ client' = posted + 1 /\ reply' = 0
      /\ handler' = [handler EXCEPT ![posted + 1].pc = "check"]
  BY DEF Server!Post, Server!ServiceAssumption, Server!Posts, Server!runtime, ServerInv, NumberType
<1>2. NumberType'
  BY <1>1 DEF ServerInv, NumberType, Server!Posts, Server!ServiceAssumption
<1>3. AnswerType'
  BY <1>1 DEF ServerInv, AnswerType, Stages, Statuses
<1>4. Passed' /\ Holds'
  BY <1>1 DEF ServerInv, AnswerType, Passed, Holds
<1> QED BY <1>1, <1>2, <1>3, <1>4 DEF ServerInv, RuntimeType, HealthType, Ended, Explained, Asked

\* It is kept when an answer is received or the application gives up.
LEMMA LeaveKeeps == ASSUME ServerInv, Server!ServiceAssumption, Server!Receive \/ Server!GiveUp PROVE ServerInv'
<1>1. UNCHANGED <<phase, error, synth, loader, busy, handler, health, reply, posted>> /\ client' = 0
  BY DEF Server!Receive, Server!GiveUp, Server!runtime
<1>2. NumberType'
  BY <1>1 DEF ServerInv, NumberType, Server!ServiceAssumption
<1> QED BY <1>1, <1>2 DEF ServerInv, RuntimeType, AnswerType, HealthType, Ended, Passed, Holds, Explained, Asked

\* It is kept by a question about the health of the service.
LEMMA HealthKeeps == ASSUME ServerInv, Server!Health PROVE ServerInv'
<1>1. UNCHANGED <<phase, error, synth, loader, busy, handler, client, reply, posted>>
  BY DEF Server!Health, Server!runtime
<1>2. CASE health' = [pc |-> "phase", phase |-> phase, error |-> FALSE]
  BY <1>1, <1>2 DEF ServerInv, RuntimeType, NumberType, AnswerType, HealthType, Ended, Passed, Holds, Explained, Asked
<1>3. CASE health' = [health EXCEPT !.pc = "read", !.error = error]
  <2>1. health'.pc = "read" /\ health'.phase = health.phase /\ health'.error = error
    BY <1>3 DEF ServerInv, HealthType
  <2>2. HealthType'
    BY <1>3 DEF ServerInv, HealthType, RuntimeType
  <2> QED BY <1>1, <2>1, <2>2 DEF ServerInv, RuntimeType, NumberType, AnswerType, Ended, Passed, Holds, Explained, Asked
<1>4. CASE health' = [pc |-> "rest", phase |-> "loading", error |-> FALSE]
  <2>1. HealthType'
    BY <1>4 DEF HealthType, Server!Phases
  <2> QED BY <1>1, <1>4, <2>1 DEF ServerInv, RuntimeType, NumberType, AnswerType, Ended, Passed, Holds, Explained, Asked
<1> QED BY <1>2, <1>3, <1>4 DEF Server!Health, Server!NotAsked

\* The steps of a request that leave the lock alone.
LEMMA RequestKeeps ==
  ASSUME ServerInv, NEW n \in Server!Posts,
         Server!Check(n) \/ Server!Body(n) \/ Server!Synthesize(n) \/ Server!SendClip(n) \/ Server!SendRefusal(n)
  PROVE ServerInv'
<1>1. UNCHANGED <<phase, error, synth, loader, busy, client, health, posted>>
  BY DEF Server!Check, Server!Body, Server!Synthesize, Server!SendClip, Server!SendRefusal,
    Server!HandlerOnly, Server!runtime
<1>2. \E pc \in Stages, code \in Statuses :
        /\ handler' = [handler EXCEPT ![n] = [pc |-> pc, status |-> code]]
        /\ pc \in {"body", "acquire"} => phase = "ready"
        /\ pc \in {"synthesize", "send", "release"} => handler[n].pc \in {"synthesize", "send"}
  <2>1. \A pc \in Stages : Server!Goes(n, pc) =>
          handler' = [handler EXCEPT ![n] = [pc |-> pc, status |-> handler[n].status]]
    BY DEF Server!Goes, ServerInv, AnswerType
  <2>2. handler[n].status \in Statuses /\ handler[n].pc \in Stages
    BY DEF ServerInv, AnswerType
  <2>3. {503, 400, 200, 500} \subseteq Statuses /\ {"answer", "body", "acquire", "send", "release", "done"} \subseteq Stages
    BY DEF Statuses, Stages
  <2>4. CASE Server!Check(n)
    BY <2>1, <2>2, <2>3, <2>4 DEF Server!Check, Server!Sends, Server!Ready
  <2>5. CASE Server!Body(n)
    BY <2>1, <2>2, <2>3, <2>5 DEF Server!Body, Server!Sends, Server!At, ServerInv, Passed
  <2>6. CASE Server!Synthesize(n)
    BY <2>3, <2>6 DEF Server!Synthesize, Server!Sends, Server!At
  <2>7. CASE Server!SendClip(n)
    BY <2>1, <2>2, <2>3, <2>7 DEF Server!SendClip, Server!ReleaseAlways, Server!At
  <2>8. CASE Server!SendRefusal(n)
    BY <2>1, <2>2, <2>3, <2>8 DEF Server!SendRefusal
  <2> QED BY <2>4, <2>5, <2>6, <2>7, <2>8
<1>3. PICK pc \in Stages, code \in Statuses :
        /\ handler' = [handler EXCEPT ![n] = [pc |-> pc, status |-> code]]
        /\ pc \in {"body", "acquire"} => phase = "ready"
        /\ pc \in {"synthesize", "send", "release"} => handler[n].pc \in {"synthesize", "send"}
  BY <1>2
<1>4. reply' \in Statuses
  BY DEF Server!Check, Server!Body, Server!Synthesize, Server!SendClip, Server!SendRefusal,
    Server!Delivered, ServerInv, AnswerType
<1>5. AnswerType'
  BY <1>3, <1>4 DEF ServerInv, AnswerType
<1>6. Passed' /\ Holds'
  BY <1>1, <1>3 DEF ServerInv, AnswerType, Passed, Holds
<1> QED BY <1>1, <1>5, <1>6 DEF ServerInv, RuntimeType, NumberType, HealthType, Ended, Explained, Asked

\* Acquiring and releasing the model.
LEMMA LockKeeps ==
  ASSUME ServerInv, Server!ServiceAssumption, NEW n \in Server!Posts, Server!Acquire(n) \/ Server!Release(n)
  PROVE ServerInv'
<1>1. UNCHANGED <<phase, error, synth, loader, client, reply, health, posted>>
  BY DEF Server!Acquire, Server!Release, Server!HandlerOnly, Server!runtime
<1>2. 429 \in Statuses /\ {"answer", "synthesize", "done"} \subseteq Stages
  BY DEF Statuses, Stages
<1>3. AnswerType'
  BY <1>1, <1>2 DEF Server!Acquire, Server!Release, Server!Sends, Server!Goes, ServerInv, AnswerType
<1>4. CASE Server!Acquire(n)
  <2>1. phase = "ready" /\ n \in 0 .. MaxPosts
    BY <1>4 DEF Server!Acquire, Server!At, ServerInv, Passed, Server!Posts
  <2>2. CASE Server!Taken
    <3>1. handler' = [handler EXCEPT ![n] = [pc |-> "answer", status |-> 429]] /\ busy' = busy
      BY <1>4, <2>2 DEF Server!Acquire, Server!Sends
    <3>2. Passed' /\ Holds'
      BY <1>1, <3>1 DEF ServerInv, AnswerType, Passed, Holds
    <3> QED BY <1>1, <1>3, <3>1, <3>2 DEF ServerInv, RuntimeType, NumberType, HealthType, Ended, Explained, Asked
  <2>3. CASE ~Server!Taken
    <3>1. handler' = [handler EXCEPT ![n].pc = "synthesize"] /\ busy' = n /\ busy = 0
      BY <1>4, <2>3 DEF Server!Acquire, Server!Goes, Server!Taken
    <3>2. \A m \in Server!Posts : m # 0
      BY DEF Server!Posts
    <3>3. Passed' /\ Holds'
      BY <1>1, <2>1, <3>1, <3>2 DEF ServerInv, AnswerType, Passed, Holds
    <3>4. NumberType'
      BY <1>1, <2>1, <3>1 DEF ServerInv, NumberType
    <3> QED BY <1>1, <1>3, <3>3, <3>4 DEF ServerInv, RuntimeType, HealthType, Ended, Explained, Asked
  <2> QED BY <2>2, <2>3
<1>5. CASE Server!Release(n)
  <2>1. handler' = [handler EXCEPT ![n].pc = "done"] /\ busy' = 0 /\ busy = n
    BY <1>5 DEF Server!Release, Server!Goes, Server!At, ServerInv, Holds
  <2>2. NumberType'
    BY <1>1, <2>1 DEF ServerInv, NumberType, Server!ServiceAssumption
  <2>3. Passed' /\ Holds'
    BY <1>1, <2>1 DEF ServerInv, AnswerType, Passed, Holds
  <2> QED BY <1>1, <1>3, <2>2, <2>3 DEF ServerInv, RuntimeType, HealthType, Ended, Explained, Asked
<1> QED BY <1>4, <1>5

\* Whatever the invariant says of the service when nothing of it moves.
LEMMA ServerRests == ASSUME ServerInv, UNCHANGED serviceVars PROVE ServerInv'
BY DEF serviceVars, ServerInv, RuntimeType, NumberType, AnswerType, HealthType,
  Ended, Passed, Holds, Explained, Asked

\* Every step of the service keeps its invariant.
LEMMA ServerStep == ASSUME ServerInv, Server!ServiceAssumption, Server!Next PROVE ServerInv'
BY LoadKeeps, PostKeeps, LeaveKeeps, HealthKeeps, RequestKeeps, LockKeeps DEF Server!Next, Server!Handle

\* What the properties say follows: two requests that synthesize both hold the
\* lock, and the model is not warmed up once it is ready.
LEMMA ServerIsSafe ==
  ASSUME ServerInv
  PROVE Server!TypeOK /\ Server!ModelAlone /\ Server!ErrorIsExplained
<1>1. Server!TypeOK
  <2>1. {busy, client, posted} \subseteq 0 .. MaxPosts
    BY DEF ServerInv, NumberType
  <2> QED BY <2>1 DEF ServerInv, RuntimeType, AnswerType, HealthType, Loaders, Stages, Statuses, Server!TypeOK
<1>2. Server!ModelAlone
  BY DEF ServerInv, Ended, Passed, Holds, Server!ModelAlone, Server!Users, Server!At
<1>3. Server!ErrorIsExplained
  BY DEF ServerInv, Asked, Server!ErrorIsExplained
<1> QED BY <1>1, <1>2, <1>3

-----------------------------------------------------------------------------
(***************************************************************************)
(* The lifecycle thread and its process.  Two chains of facts:             *)
(*                                                                         *)
(*   - from "closed" on there is no process, and "stopped" says so until   *)
(*     the thread is about to start one, which it does not once an         *)
(*     environment or a model is prepared;                                 *)
(*   - what the thread loads is what is configured as long as the          *)
(*     generation it has observed is the present one, and a new generation *)
(*     takes the endpoint and the phase "ready" with it.                   *)
(***************************************************************************)
Shapes ==
  /\ worker = [pc |-> worker.pc, observed |-> worker.observed, config |-> worker.config, last |-> worker.last]
  /\ setup = [pc |-> setup.pc, gen |-> setup.gen, result |-> setup.result]
  /\ process = [phase |-> process.phase, model |-> process.model]
Numbers == generation \in Nat /\ worker.observed \in Int /\ worker.observed <= generation
SetupIsPreparing == setup.pc # "none" => preparing

EmptyBefore == worker.pc \in {"closed", "check", "current", "clear", "start"} => process = NoProcess
StoppedIsEmpty == stopped => process = NoProcess /\ worker.pc \notin {"start", "poll", "announce"}
NotCleared == preparing /\ stopped => worker.pc # "clear"
WorksStopped == setup.pc = "work" => stopped

LoadsModel ==
  worker.pc \in {"check", "current", "clear", "start", "poll", "announce"} => worker.config \in Models
ServesConfig ==
  /\ worker.pc \in {"poll", "announce"} => process.model = worker.config
  /\ worker.pc = "announce" => process.phase \in {"ready", "dead"}
ObservedIsDesired ==
  worker.config \in Models /\ worker.observed = generation => worker.config = desired /\ ~preparing
AnnouncesServed == worker.pc = "announce" /\ worker.observed = generation => endpoint = generation
ReadyIsServed ==
  state.phase = "ready" /\ ~closed =>
    /\ worker.observed = generation /\ endpoint = generation /\ state.gen = generation
    /\ worker.config \in Models /\ worker.pc \in {"poll", "fail"} /\ worker.last = "ready"
    /\ process.model = worker.config /\ process.phase \in {"ready", "dead"}

AloneInv == SetupIsPreparing /\ EmptyBefore /\ StoppedIsEmpty /\ NotCleared /\ WorksStopped
ServedInv == LoadsModel /\ ServesConfig /\ ObservedIsDesired /\ AnnouncesServed /\ ReadyIsServed
QwenInv == Shapes /\ Numbers /\ AloneInv /\ ServedInv

\* Everything the invariant speaks of.
core == <<desired, generation, closed, preparing, stopped, state, endpoint, worker, setup, process>>

\* While another part runs, the invariant of the manager stays.
LEMMA QwenRests == ASSUME QwenInv, UNCHANGED core PROVE QwenInv'
BY DEF core, QwenInv, Shapes, Numbers, AloneInv, SetupIsPreparing, EmptyBefore, StoppedIsEmpty, NotCleared,
  WorksStopped, ServedInv, LoadsModel, ServesConfig, ObservedIsDesired, AnnouncesServed, ReadyIsServed

\* The invariant of the manager holds at the start.
LEMMA QwenInit == ASSUME Init PROVE QwenInv
<1>1. Shapes /\ Numbers
  BY DEF Init, Shapes, Numbers, NoProcess
<1>2. AloneInv
  BY DEF Init, AloneInv, SetupIsPreparing, EmptyBefore, StoppedIsEmpty, NotCleared, WorksStopped
<1>3. state.phase # "ready"
  BY DEF Init, Wanted
<1>4. ServedInv
  BY <1>3 DEF Init, ServedInv, LoadsModel, ServesConfig, ObservedIsDesired, AnnouncesServed, ReadyIsServed
<1> QED BY <1>1, <1>2, <1>4 DEF QwenInv

\* A new configuration, preparation or start: the generation moves on, so that
\* nothing the thread has observed is of the present one, and "ready" is gone.
LEMMA NewGeneration ==
  ASSUME QwenInv, generation' = generation + 1, UNCHANGED <<closed, worker, process>>,
         state'.phase # "ready" \/ closed, Shapes', AloneInv'
  PROVE QwenInv'
<1>1. generation' \in Nat /\ worker'.observed < generation' /\ worker'.observed \in Int
  BY DEF QwenInv, Numbers
<1>2. ServedInv'
  BY <1>1 DEF QwenInv, ServedInv, LoadsModel, ServesConfig, ObservedIsDesired, AnnouncesServed, ReadyIsServed
<1> QED BY <1>1, <1>2 DEF QwenInv, Numbers

\* The user's steps.
LEMMA PrepareKeeps == ASSUME QwenInv, Prepare PROVE QwenInv'
<1>1. /\ generation' = generation + 1 /\ stopped' = FALSE /\ preparing' = TRUE
      /\ state'.phase = "environment" /\ setup' = [pc |-> "wait", gen |-> generation + 1, result |-> NoModel]
      /\ UNCHANGED <<closed, worker, process>>
  BY DEF Prepare, Awaited
<1>2. Shapes' /\ AloneInv'
  BY <1>1 DEF QwenInv, Shapes, AloneInv, SetupIsPreparing, EmptyBefore, StoppedIsEmpty, NotCleared, WorksStopped
<1> QED BY <1>1, <1>2, NewGeneration

\* A restart keeps it.
LEMMA RestartKeeps == ASSUME QwenInv, Restart PROVE QwenInv'
<1>1. UNCHANGED <<desired, closed, preparing, stopped, worker, setup, process>>
  BY DEF Restart, threads
<1>2. Shapes' /\ AloneInv'
  BY <1>1 DEF QwenInv, Shapes, AloneInv, SetupIsPreparing, EmptyBefore, StoppedIsEmpty, NotCleared, WorksStopped
<1>3. CASE desired \in Models
  BY <1>1, <1>2, <1>3, NewGeneration DEF Restart
<1>4. CASE desired \notin Models
  <2>1. state'.phase # "ready" /\ UNCHANGED <<generation, endpoint>>
    BY <1>4 DEF Restart, Set
  <2> QED BY <1>1, <1>2, <2>1 DEF QwenInv, Numbers, ServedInv, LoadsModel, ServesConfig,
            ObservedIsDesired, AnnouncesServed, ReadyIsServed
<1> QED BY <1>3, <1>4

\* The end of the manager keeps it.
LEMMA CloseKeeps == ASSUME QwenInv, Close PROVE QwenInv'
<1>1. /\ generation' = generation + 1 /\ closed' = TRUE
      /\ UNCHANGED <<desired, preparing, stopped, state, endpoint, worker, setup, process>>
  BY DEF Close, threads
<1>2. Shapes' /\ AloneInv'
  BY <1>1 DEF QwenInv, Shapes, AloneInv, SetupIsPreparing, EmptyBefore, StoppedIsEmpty, NotCleared, WorksStopped
<1>3. generation' \in Nat /\ worker'.observed < generation' /\ worker'.observed \in Int
  BY <1>1 DEF QwenInv, Numbers
<1>4. ServedInv'
  BY <1>1, <1>3 DEF QwenInv, ServedInv, LoadsModel, ServesConfig, ObservedIsDesired, AnnouncesServed, ReadyIsServed
<1> QED BY <1>2, <1>3, <1>4 DEF QwenInv, Numbers

\* What the user clicks keeps it.
LEMMA UserKeeps == ASSUME QwenInv, User PROVE QwenInv'
<1>1. CASE CancelPreparation \/ Refresh \/ UserApplies \/ UserSession
  <2>1. UNCHANGED core
    BY <1>1 DEF CancelPreparation, Refresh, UserApplies, UserSession, core, manager, threads
  <2> QED BY <2>1, QwenRests
<1> QED BY <1>1, PrepareKeeps, RestartKeeps, CloseKeeps DEF User

\* configure, in whichever command it is: an unchanged model keeps what there
\* is, and every other choice is a new generation.
LEMMA ConfigureKeeps ==
  ASSUME QwenInv, NEW c, NEW q, Configure(c, q), UNCHANGED threads
  PROVE QwenInv'
<1>1. UNCHANGED <<closed, preparing, stopped, worker, setup, process>> /\ desired' = c
  BY DEF Configure, threads
<1>2. CASE Same(c)
  BY <1>1, <1>2, QwenRests DEF Configure, Same, core
<1>3. CASE ~Same(c)
  <2>1. generation' = generation + 1 /\ (preparing => state' = state)
        /\ (~preparing => state' = Wanted(c, generation + 1))
    BY <1>3 DEF Configure
  <2>2. state'.phase # "ready" \/ closed
    BY <2>1 DEF Wanted, QwenInv, ServedInv, ObservedIsDesired, ReadyIsServed
  <2>3. Shapes' /\ AloneInv'
    BY <1>1 DEF QwenInv, Shapes, AloneInv, SetupIsPreparing, EmptyBefore, StoppedIsEmpty, NotCleared, WorksStopped
  <2> QED BY <1>1, <2>1, <2>2, <2>3, NewGeneration
<1> QED BY <1>2, <1>3

\* What the control thread does keeps it.
LEMMA ControlKeeps == ASSUME QwenInv, Control PROVE QwenInv'
<1>0. UNCHANGED threads
  BY DEF Control, TakeNews, TakeApply, TakeRegistration, ControlOnly
<1>1. CASE TakeNews
  BY <1>0, <1>1, QwenRests DEF TakeNews, core, threads
<1>2. CASE TakeApply
  BY <1>0, <1>2, ConfigureKeeps DEF TakeApply
<1>3. CASE TakeRegistration
  BY <1>0, <1>3, ConfigureKeeps, QwenRests DEF TakeRegistration, core, threads
<1> QED BY <1>1, <1>2, <1>3 DEF Control

\* A pipeline that waits for the service keeps it.
LEMMA SpeechKeeps == ASSUME QwenInv, Speech PROVE QwenInv'
<1>1. UNCHANGED core
  BY DEF Speech, SpeechWaits, SpeechFails, SpeechStarts, SpeechGoes, core, manager, threads
<1> QED BY <1>1, QwenRests

\* The service on its own changes its phase and never its model, and from
\* ready it can only die.
LEMMA ServiceKeeps == ASSUME QwenInv, Service PROVE QwenInv'
<1>1. UNCHANGED <<desired, generation, closed, preparing, stopped, state, endpoint, worker, setup>>
  BY DEF Service, manager
<1>2. /\ process.phase # "none" /\ process.model = process'.model
      /\ process' = [phase |-> process'.phase, model |-> process'.model]
      /\ process.phase \in {"ready", "dead"} => process'.phase = "dead"
  <2>1. process = [phase |-> process.phase, model |-> process.model]
    BY DEF QwenInv, Shapes
  <2> QED BY <2>1 DEF Service, ServiceGoes
<1>3. process # NoProcess
  BY <1>2 DEF NoProcess
<1>4. Shapes' /\ Numbers'
  BY <1>1, <1>2 DEF QwenInv, Shapes, Numbers
<1>5. AloneInv'
  BY <1>1, <1>3 DEF QwenInv, AloneInv, SetupIsPreparing, EmptyBefore, StoppedIsEmpty, NotCleared, WorksStopped
<1>6. ServedInv'
  BY <1>1, <1>2 DEF QwenInv, ServedInv, LoadsModel, ServesConfig, ObservedIsDesired, AnnouncesServed, ReadyIsServed
<1> QED BY <1>4, <1>5, <1>6 DEF QwenInv

\* The setup thread goes to work only once the service has stopped, and ends
\* the preparation with a generation of its own.
LEMMA SetupKeeps == ASSUME QwenInv, Setup PROVE QwenInv'
<1>s. UNCHANGED <<desired, closed, stopped, worker, process>>
  BY DEF Setup, SetupWait, SetupWork, SetupFinish, SetupOnly
<1>r. setup = [pc |-> setup.pc, gen |-> setup.gen, result |-> setup.result]
  BY DEF QwenInv, Shapes
<1>1. CASE SetupWait \/ SetupWork
  <2>1. /\ UNCHANGED <<generation, preparing, state, endpoint>> /\ setup.pc # "none"
        /\ setup' = [pc |-> setup'.pc, gen |-> setup'.gen, result |-> setup'.result]
        /\ setup'.pc = "work" => stopped
    BY <1>1, <1>r DEF SetupWait, SetupWork
  <2>2. Shapes' /\ Numbers' /\ AloneInv'
    BY <1>s, <2>1 DEF QwenInv, Shapes, Numbers, AloneInv, SetupIsPreparing, EmptyBefore, StoppedIsEmpty,
      NotCleared, WorksStopped
  <2> QED BY <1>s, <2>1, <2>2 DEF QwenInv, ServedInv, LoadsModel, ServesConfig, ObservedIsDesired,
            AnnouncesServed, ReadyIsServed
<1>2. CASE SetupFinish
  <2>1. /\ preparing' = FALSE /\ setup'.pc = "none" /\ UNCHANGED endpoint /\ preparing
        /\ setup' = [pc |-> setup'.pc, gen |-> setup'.gen, result |-> setup'.result]
    BY <1>2, <1>r DEF SetupFinish, EndPreparing, QwenInv, AloneInv, SetupIsPreparing
  <2>2. AloneInv'
    BY <1>s, <2>1 DEF QwenInv, AloneInv, SetupIsPreparing, EmptyBefore, StoppedIsEmpty, NotCleared, WorksStopped
  <2>3. CASE closed
    <3>1. UNCHANGED <<generation, state>>
      BY <1>2, <2>3 DEF SetupFinish
    <3>2. ServedInv'
      BY <1>s, <2>1, <2>3, <3>1 DEF QwenInv, ServedInv, LoadsModel, ServesConfig, ObservedIsDesired,
        AnnouncesServed, ReadyIsServed
    <3> QED BY <1>s, <2>1, <2>2, <3>1, <3>2 DEF QwenInv, Shapes, Numbers
  <2>4. CASE ~closed
    <3>1. generation' = generation + 1 /\ state'.phase # "ready"
      BY <1>2, <2>4 DEF SetupFinish, NextGeneration, Outcome, Wanted
    <3>2. Shapes'
      BY <1>s, <2>1 DEF QwenInv, Shapes
    <3> QED BY <1>s, <2>1, <2>2, <3>1, <3>2, NewGeneration
  <2> QED BY <2>3, <2>4
<1> QED BY <1>1, <1>2 DEF Setup

\* The lifecycle thread, up to the start of a process.
LEMMA WorkerClosesKeeps ==
  ASSUME QwenInv, WorkerEnd \/ WorkerWake \/ WorkerClose \/ WorkerClosed \/ WorkerRelease
  PROVE QwenInv'
<1>0. UNCHANGED <<desired, generation, closed, preparing, setup, state, endpoint>>
  BY DEF WorkerEnd, WorkerWake, WorkerClose, WorkerClosed, WorkerRelease, WorkerOnly
<1>r. worker = [pc |-> worker.pc, observed |-> worker.observed, config |-> worker.config, last |-> worker.last]
  BY DEF QwenInv, Shapes
<1>n. NoProcess = [phase |-> "none", model |-> NoModel]
  BY DEF NoProcess
<1>1. CASE WorkerEnd
  <2>1. process' = NoProcess /\ stopped' = TRUE /\ closed /\ worker.pc = "wait"
        /\ worker' = [pc |-> "ended", observed |-> worker.observed, config |-> worker.config, last |-> worker.last]
    BY <1>1, <1>r DEF WorkerEnd, LastClose, WorkerGoes, WorkerAt
  <2>2. Shapes' /\ Numbers'
    BY <1>0, <1>n, <2>1 DEF QwenInv, Shapes, Numbers
  <2>3. AloneInv'
    BY <1>0, <2>1 DEF QwenInv, AloneInv, SetupIsPreparing, EmptyBefore, StoppedIsEmpty, NotCleared, WorksStopped
  <2>4. ServedInv'
    BY <1>0, <2>1 DEF QwenInv, ServedInv, LoadsModel, ServesConfig, ObservedIsDesired, AnnouncesServed, ReadyIsServed
  <2> QED BY <2>2, <2>3, <2>4 DEF QwenInv
<1>2. CASE WorkerWake
  <2>1. /\ UNCHANGED <<process, stopped>> /\ ~closed /\ generation # worker.observed /\ worker.pc = "wait"
        /\ worker'.pc = "close" /\ worker'.observed = generation
        /\ worker' = [pc |-> worker'.pc, observed |-> worker'.observed, config |-> worker'.config, last |-> worker'.last]
        /\ worker'.config \in Models => worker'.config = desired /\ ~preparing
    BY <1>2, QwenAssumption DEF WorkerWake, WorkerAt
  <2>2. Shapes' /\ Numbers'
    BY <1>0, <2>1 DEF QwenInv, Shapes, Numbers
  <2>3. AloneInv'
    BY <1>0, <2>1 DEF QwenInv, AloneInv, SetupIsPreparing, EmptyBefore, StoppedIsEmpty, NotCleared, WorksStopped
  <2>4. ServedInv'
    BY <1>0, <2>1 DEF QwenInv, ServedInv, LoadsModel, ServesConfig, ObservedIsDesired, AnnouncesServed, ReadyIsServed
  <2> QED BY <2>2, <2>3, <2>4 DEF QwenInv
<1>3. CASE WorkerClose \/ WorkerClosed
  <2>1. /\ process' = NoProcess /\ (stopped' => stopped \/ worker.pc = "closed")
        /\ worker.pc \in {"close", "closed"} /\ worker'.pc \in {"closed", "check", "wait"}
        /\ worker'.pc = "check" => worker.config \in Models
        /\ stopped => stopped'
        /\ worker' = [pc |-> worker'.pc, observed |-> worker.observed, config |-> worker.config, last |-> worker.last]
    <3>1. CASE WorkerClose
      BY <1>r, <3>1 DEF WorkerClose, CloseOld, WorkerGoes, WorkerAt
    <3>2. CASE WorkerClosed
      BY <1>r, <3>2 DEF WorkerClosed, WorkerGoes, WorkerAt, QwenInv, AloneInv, EmptyBefore
    <3> QED BY <1>3, <3>1, <3>2
  <2>2. Shapes' /\ Numbers'
    BY <1>0, <1>n, <2>1 DEF QwenInv, Shapes, Numbers
  <2>3. AloneInv'
    BY <1>0, <2>1 DEF QwenInv, AloneInv, SetupIsPreparing, EmptyBefore, StoppedIsEmpty, NotCleared, WorksStopped
  <2>4. ServedInv'
    BY <1>0, <2>1 DEF QwenInv, ServedInv, LoadsModel, ServesConfig, ObservedIsDesired, AnnouncesServed, ReadyIsServed
  <2> QED BY <2>2, <2>3, <2>4 DEF QwenInv
<1>4. CASE WorkerRelease
  <2>1. process' = NoProcess /\ stopped' = TRUE /\ worker.pc = "failed"
        /\ worker' = [pc |-> "wait", observed |-> worker.observed, config |-> worker.config, last |-> worker.last]
    BY <1>4, <1>r DEF WorkerRelease, WorkerGoes, WorkerAt
  <2>2. Shapes' /\ Numbers'
    BY <1>0, <1>n, <2>1 DEF QwenInv, Shapes, Numbers
  <2>3. AloneInv'
    BY <1>0, <2>1 DEF QwenInv, AloneInv, SetupIsPreparing, EmptyBefore, StoppedIsEmpty, NotCleared, WorksStopped
  <2>4. ServedInv'
    BY <1>0, <2>1 DEF QwenInv, ServedInv, LoadsModel, ServesConfig, ObservedIsDesired, AnnouncesServed, ReadyIsServed
  <2> QED BY <2>2, <2>3, <2>4 DEF QwenInv
<1> QED BY <1>1, <1>2, <1>3, <1>4

\* Up to the start: whoever has passed the test of the generation under the
\* lock starts with "stopped" taken back.
LEMMA WorkerStartsKeeps ==
  ASSUME QwenInv, WorkerCheck \/ WorkerCurrent \/ WorkerClear \/ WorkerStart
  PROVE QwenInv'
<1>0. UNCHANGED <<desired, generation, closed, preparing, setup, endpoint>>
  BY DEF WorkerCheck, WorkerCurrent, WorkerClear, WorkerStart, WorkerOnly
<1>r. worker = [pc |-> worker.pc, observed |-> worker.observed, config |-> worker.config, last |-> worker.last]
  BY DEF QwenInv, Shapes
<1>p. worker.pc \in {"check", "current", "clear", "start"}
  BY DEF WorkerCheck, WorkerCurrent, WorkerClear, WorkerStart, WorkerAt
<1>m. process = NoProcess /\ worker.config \in Models /\ (state.phase # "ready" \/ closed)
  BY <1>p DEF QwenInv, AloneInv, EmptyBefore, ServedInv, LoadsModel, ReadyIsServed
<1>s. state'.phase # "ready" \/ closed
  BY <1>m DEF WorkerCheck, WorkerCurrent, WorkerClear, WorkerStart, SetIf, Set
<1>w. worker' = [pc |-> worker'.pc, observed |-> worker.observed, config |-> worker.config, last |-> worker.last]
  BY <1>r DEF WorkerCheck, WorkerCurrent, WorkerClear, WorkerStart, WorkerGoes
<1>n. Numbers'
  BY <1>0, <1>w DEF QwenInv, Numbers
<1>1. CASE WorkerCheck \/ WorkerCurrent
  <2>1. /\ UNCHANGED <<process, stopped>> /\ worker'.pc \in {"fail", "current", "clear", "wait"}
        /\ worker'.pc = "clear" => ~preparing
    BY <1>1, <1>r DEF WorkerCheck, WorkerCurrent, WorkerGoes, Current
  <2>2. AloneInv'
    BY <1>0, <1>m, <2>1 DEF QwenInv, AloneInv, SetupIsPreparing, EmptyBefore, StoppedIsEmpty, NotCleared, WorksStopped
  <2>3. ServedInv'
    BY <1>0, <1>m, <1>s, <1>w, <2>1 DEF QwenInv, ServedInv, LoadsModel, ServesConfig, ObservedIsDesired,
      AnnouncesServed, ReadyIsServed
  <2> QED BY <1>0, <1>w, <1>n, <2>1, <2>2, <2>3 DEF QwenInv, Shapes
<1>2. CASE WorkerClear
  <2>1. UNCHANGED process /\ stopped' = FALSE /\ worker'.pc = "start" /\ worker.pc = "clear"
    BY <1>2, <1>r DEF WorkerClear, WorkerGoes, WorkerAt
  <2>2. setup.pc # "work"
    BY <2>1 DEF QwenInv, AloneInv, SetupIsPreparing, NotCleared, WorksStopped
  <2>3. AloneInv'
    BY <1>0, <1>m, <2>1, <2>2 DEF QwenInv, AloneInv, SetupIsPreparing, EmptyBefore, StoppedIsEmpty, NotCleared, WorksStopped
  <2>4. ServedInv'
    BY <1>0, <1>m, <1>s, <1>w, <2>1 DEF QwenInv, ServedInv, LoadsModel, ServesConfig, ObservedIsDesired,
      AnnouncesServed, ReadyIsServed
  <2> QED BY <1>0, <1>w, <1>n, <2>1, <2>3, <2>4 DEF QwenInv, Shapes
<1>3. CASE WorkerStart
  <2>1. /\ UNCHANGED stopped /\ worker.pc = "start"
        /\ \/ process' = [phase |-> "loading", model |-> worker.config] /\ worker'.pc = "poll"
           \/ UNCHANGED process /\ worker'.pc = "fail"
    BY <1>3, <1>r DEF WorkerStart, WorkerGoes, WorkerAt
  <2>2. ~stopped
    BY <2>1 DEF QwenInv, AloneInv, StoppedIsEmpty
  <2>3. AloneInv'
    BY <1>0, <1>m, <2>1, <2>2 DEF QwenInv, AloneInv, SetupIsPreparing, EmptyBefore, StoppedIsEmpty, NotCleared, WorksStopped
  <2>4. ServedInv'
    BY <1>0, <1>m, <1>s, <1>w, <2>1 DEF QwenInv, ServedInv, LoadsModel, ServesConfig, ObservedIsDesired,
      AnnouncesServed, ReadyIsServed
  <2> QED BY <1>0, <1>w, <1>n, <2>1, <2>3, <2>4 DEF QwenInv, Shapes
<1> QED BY <1>1, <1>2, <1>3

\* While the process is polled: "ready" is announced only after the endpoint
\* was set for the present generation, and an error takes it back.
LEMMA WorkerPollsKeeps ==
  ASSUME QwenInv,
         \/ WorkerLeave \/ WorkerSeesFailure \/ WorkerSeesWarming \/ WorkerSeesReady
         \/ WorkerAnnounce \/ WorkerTimeout \/ WorkerFail
  PROVE QwenInv'
<1>0. UNCHANGED <<desired, generation, closed, preparing, setup, process, stopped>>
  BY DEF WorkerLeave, WorkerSeesFailure, WorkerSeesWarming, WorkerSeesReady, WorkerAnnounce, WorkerTimeout,
    WorkerFail, WorkerOnly
<1>r. worker = [pc |-> worker.pc, observed |-> worker.observed, config |-> worker.config, last |-> worker.last]
  BY DEF QwenInv, Shapes
<1>w. /\ worker' = [pc |-> worker'.pc, observed |-> worker.observed, config |-> worker.config, last |-> worker'.last]
      /\ worker.pc \in {"poll", "announce", "fail"}
      /\ worker'.pc \in {"wait", "fail", "poll", "announce", "failed"}
      /\ worker.pc = "fail" => worker'.pc = "failed"
  BY <1>r DEF WorkerLeave, WorkerSeesFailure, WorkerSeesWarming, WorkerSeesReady, WorkerAnnounce, WorkerTimeout,
    WorkerFail, WorkerGoes, WorkerAt
<1>n. Shapes' /\ Numbers'
  BY <1>0, <1>w DEF QwenInv, Shapes, Numbers
<1>a. AloneInv'
  BY <1>0, <1>w DEF QwenInv, AloneInv, SetupIsPreparing, EmptyBefore, StoppedIsEmpty, NotCleared, WorksStopped
<1>1. CASE WorkerLeave
  <2>1. UNCHANGED <<state, endpoint>> /\ worker.pc = "poll" /\ worker'.pc = "wait" /\ ~Current(worker.observed)
    BY <1>1, <1>w, <1>r DEF WorkerLeave, WorkerGoes, WorkerAt
  <2>2. state.phase # "ready" \/ closed
    BY <2>1 DEF Current, Live, QwenInv, ServedInv, ObservedIsDesired, ReadyIsServed
  <2>3. ServedInv'
    BY <1>0, <1>w, <2>1, <2>2 DEF QwenInv, ServedInv, LoadsModel, ServesConfig, ObservedIsDesired,
      AnnouncesServed, ReadyIsServed
  <2> QED BY <1>n, <1>a, <2>3 DEF QwenInv
<1>2. CASE WorkerSeesFailure \/ WorkerTimeout
  <2>1. UNCHANGED <<state, endpoint>> /\ worker.pc = "poll" /\ worker'.pc = "fail" /\ worker'.last = worker.last
    BY <1>2, <1>r DEF WorkerSeesFailure, WorkerTimeout, WorkerGoes, WorkerAt
  <2>2. ServedInv'
    BY <1>0, <1>w, <2>1 DEF QwenInv, ServedInv, LoadsModel, ServesConfig, ObservedIsDesired,
      AnnouncesServed, ReadyIsServed
  <2> QED BY <1>n, <1>a, <2>2 DEF QwenInv
<1>3. CASE WorkerSeesWarming
  <2>1. /\ UNCHANGED endpoint /\ worker.pc = "poll" /\ worker'.pc = "poll" /\ worker.last = "loading"
        /\ state'.phase # "ready" \/ state' = state
    BY <1>3, <1>r DEF WorkerSeesWarming, WorkerAt, SetIf, Set
  <2>2. ServedInv'
    BY <1>0, <1>w, <2>1 DEF QwenInv, ServedInv, LoadsModel, ServesConfig, ObservedIsDesired,
      AnnouncesServed, ReadyIsServed
  <2> QED BY <1>n, <1>a, <2>2 DEF QwenInv
<1>4. CASE WorkerSeesReady
  <2>1. /\ UNCHANGED state /\ worker.pc = "poll" /\ worker.last # "ready" /\ process.phase = "ready"
        /\ \/ endpoint' = worker.observed /\ worker'.pc = "announce"
           \/ UNCHANGED endpoint /\ worker'.pc = "wait"
    BY <1>4, <1>r DEF WorkerSeesReady, WorkerGoes, WorkerAt
  <2>2. state.phase # "ready" \/ closed
    BY <2>1 DEF QwenInv, ServedInv, ReadyIsServed
  <2>3. ServedInv'
    BY <1>0, <1>w, <2>1, <2>2 DEF QwenInv, ServedInv, LoadsModel, ServesConfig, ObservedIsDesired,
      AnnouncesServed, ReadyIsServed
  <2> QED BY <1>n, <1>a, <2>3 DEF QwenInv
<1>5. CASE WorkerAnnounce
  <2>1. /\ UNCHANGED endpoint /\ worker.pc = "announce" /\ worker'.pc = "poll" /\ worker'.last = "ready"
        /\ \/ Live(worker.observed) /\ state'.phase = "ready" /\ state'.gen = generation
           \/ ~Live(worker.observed) /\ state' = state
    BY <1>5, <1>r DEF WorkerAnnounce, Announce, WorkerAt, SetIf, Set
  <2>2. state.phase # "ready" \/ closed
    BY <2>1 DEF QwenInv, ServedInv, ReadyIsServed
  <2>3. ServedInv'
    BY <1>0, <1>w, <2>1, <2>2 DEF Live, QwenInv, ServedInv, LoadsModel, ServesConfig, ObservedIsDesired,
      AnnouncesServed, ReadyIsServed
  <2> QED BY <1>n, <1>a, <2>3 DEF QwenInv
<1>6. CASE WorkerFail
  <2>1. /\ UNCHANGED endpoint /\ worker.pc = "fail" /\ worker'.pc = "failed"
        /\ state'.phase = "error" \/ (~Live(worker.observed) /\ state' = state)
    BY <1>6, <1>r DEF WorkerFail, WorkerGoes, WorkerAt, SetIf, Set
  <2>2. state'.phase # "ready" \/ closed
    BY <2>1 DEF Live, QwenInv, ServedInv, ReadyIsServed
  <2>3. ServedInv'
    BY <1>0, <1>w, <2>1, <2>2 DEF QwenInv, ServedInv, LoadsModel, ServesConfig, ObservedIsDesired,
      AnnouncesServed, ReadyIsServed
  <2> QED BY <1>n, <1>a, <2>3 DEF QwenInv
<1> QED BY <1>1, <1>2, <1>3, <1>4, <1>5, <1>6

\* Every step of the manager keeps its invariant.
LEMMA QwenStep == ASSUME QwenInv, Next PROVE QwenInv'
<1>1. CASE Worker
  BY <1>1, WorkerClosesKeeps, WorkerStartsKeeps, WorkerPollsKeeps DEF Worker
<1> QED BY <1>1, UserKeeps, SetupKeeps, ServiceKeeps, ControlKeeps, SpeechKeeps DEF Next

\* The properties follow from the invariant of the manager.
LEMMA QwenIsSafe == ASSUME QwenInv PROVE ProvisionAlone /\ ReadyMeansServed
BY DEF QwenInv, AloneInv, StoppedIsEmpty, WorksStopped, ServedInv, ObservedIsDesired, ReadyIsServed,
  ProvisionAlone, ReadyMeansServed

-----------------------------------------------------------------------------
(***************************************************************************)
(* The preparation.  The marker of the environment is gone while anything  *)
(* of it is replaced; what a step uses was verified since the preparation  *)
(* began; and a conversion runs only while there is no usable result.      *)
(***************************************************************************)
Installing == {"python", "extract", "packages", "install", "service", "mark"}
Fetching == {"weights", "copyWeights", "copy1", "copy2", "config", "config2"}
Converting == {"clear", "copyWork", "copyingWork", "copyInput", "copyingInput", "export", "exporting",
  "tokenizer", "tokenizing", "old", "move", "markModel"}
JobSteps == {"idle", "runtime", "unlink", "validate", "find"} \cup Installing \cup Fetching \cup Converting

JobType ==
  /\ app \in Versions /\ registered \in (Provisioning!Kinds \X Versions) \cup {Provisioning!Nothing}
  /\ job \in [kind : Provisioning!Kinds \cup {"none"}, at : JobSteps]
  /\ job.kind = "none" <=> job.at = "idle"
  /\ begins \in Nat /\ faults \in Nat
RuntimeFiles ==
  /\ downloads \in [Provisioning!Archives -> {"none", "bad", "good"}]
  /\ runtime \in [has : Versions \cup {"none", "mixed"}, marker : Versions \cup {"none"}]
ModelFiles ==
  /\ input \in [Provisioning!Identities -> {"none", "partial", "copied"}]
  /\ work \in [Provisioning!Identities -> {"none", "partial", "exported", "whole"}]
  /\ dest \in [Provisioning!Identities -> {"none", "damaged", "unmarked", "marked"}]
SourceFiles == source \in [{"weights", "config"} -> {"none", "partial", "good"}] /\ folder = "given"

MarkerGoesFirst ==
  /\ job.at \in Installing => runtime.marker = "none"
  /\ job.at = "mark" => runtime.has = app
  /\ runtime.marker # "none" => runtime.has = runtime.marker
ArchiveIsVerified ==
  /\ job.at = "extract" => downloads["python"] = "good"
  /\ job.at = "install" => downloads[app] = "good"
SourceIsFetched ==
  job.kind = "fetch" =>
    /\ job.at \in {"config", "config2", "validate", "find"} => source["weights"] = "good"
    /\ job.at \in {"validate", "find"} => source["config"] = "good"
ConvertsWhatIsMissing ==
  /\ job.at \in Converting \cup {"find"} => <<job.kind, app>> \in Provisioning!Identities
  /\ job.at \in Converting => dest[<<job.kind, app>>] # "marked"
ProvisionInv ==
  /\ JobType /\ RuntimeFiles /\ ModelFiles /\ SourceFiles
  /\ MarkerGoesFirst /\ ArchiveIsVerified /\ SourceIsFetched /\ ConvertsWhatIsMissing

\* The invariant of the provisioning holds at the start.
LEMMA ProvisionInit == ASSUME Provisioning!Init PROVE ProvisionInv
<1>1. job = [kind |-> "none", at |-> "idle"] /\ app \in Versions /\ runtime = [has |-> "none", marker |-> "none"]
  BY DEF Provisioning!Init, Provisioning!Idle
<1>2. JobType
  BY <1>1 DEF Provisioning!Init, JobType, JobSteps
<1>3. RuntimeFiles /\ ModelFiles /\ SourceFiles
  BY DEF Provisioning!Init, RuntimeFiles, ModelFiles, SourceFiles
<1>4. MarkerGoesFirst /\ ArchiveIsVerified /\ SourceIsFetched /\ ConvertsWhatIsMissing
  BY <1>1 DEF MarkerGoesFirst, ArchiveIsVerified, SourceIsFetched, ConvertsWhatIsMissing, Installing, Converting
<1> QED BY <1>2, <1>3, <1>4 DEF ProvisionInv

\* While another part runs, it stays.
LEMMA ProvisionRests == ASSUME ProvisionInv, UNCHANGED provisionVars PROVE ProvisionInv'
BY DEF provisionVars, ProvisionInv, JobType, RuntimeFiles, ModelFiles, SourceFiles,
  MarkerGoesFirst, ArchiveIsVerified, SourceIsFetched, ConvertsWhatIsMissing

\* An environment or a model is of the version that runs, which changes only
\* between two preparations: nothing is claimed of a job that rests.
LEMMA IdleKeeps ==
  ASSUME ProvisionInv, JobType', RuntimeFiles', ModelFiles', SourceFiles', job'.at \in {"idle", "runtime"},
         runtime' = runtime
  PROVE ProvisionInv'
BY DEF ProvisionInv, MarkerGoesFirst, ArchiveIsVerified, SourceIsFetched, ConvertsWhatIsMissing,
  Installing, Converting

\* It is kept by what happens between two steps of a preparation: a start,
\* a stop, another version, a damage.
LEMMA BetweenKeeps ==
  ASSUME ProvisionInv, \/ \E k \in Provisioning!Kinds : Provisioning!Begin(k)
                       \/ Provisioning!Stop \/ Provisioning!Replace \/ Provisioning!Damage
  PROVE ProvisionInv'
<1>j. JobType /\ RuntimeFiles /\ ModelFiles /\ SourceFiles
  BY DEF ProvisionInv
<1>i. Provisioning!Idle = [kind |-> "none", at |-> "idle"] /\ {"idle", "runtime"} \subseteq JobSteps
  BY DEF Provisioning!Idle, JobSteps
<1>1. CASE \E k \in Provisioning!Kinds : Provisioning!Begin(k)
  <2>1. PICK k \in Provisioning!Kinds : Provisioning!Begin(k)
    BY <1>1
  <2>2. /\ UNCHANGED <<app, downloads, runtime, source, folder, input, work, dest, registered, faults>>
        /\ job' = [kind |-> k, at |-> "runtime"] /\ begins' = begins + 1
    BY <2>1 DEF Provisioning!Begin, Provisioning!disk
  <2>3. k # "none"
    BY DEF Provisioning!Kinds
  <2>4. JobType'
    BY <1>j, <1>i, <2>2, <2>3 DEF JobType
  <2> QED BY <1>j, <2>2, <2>4, IdleKeeps DEF RuntimeFiles, ModelFiles, SourceFiles
<1>2. CASE Provisioning!Stop
  <2>1. /\ UNCHANGED <<app, downloads, runtime, source, folder, input, work, dest, registered, begins>>
        /\ job' = Provisioning!Idle /\ faults' = faults + 1
    BY <1>2 DEF Provisioning!Stop, Provisioning!disk
  <2>2. JobType'
    BY <1>j, <1>i, <2>1 DEF JobType
  <2> QED BY <1>j, <1>i, <2>1, <2>2, IdleKeeps DEF RuntimeFiles, ModelFiles, SourceFiles
<1>3. CASE Provisioning!Replace
  <2>1. /\ UNCHANGED <<downloads, runtime, source, folder, input, work, dest, job, registered, begins>>
        /\ job = Provisioning!Idle /\ app' \in Versions /\ faults' = faults + 1
    BY <1>3 DEF Provisioning!Replace, Provisioning!disk
  <2>2. JobType'
    BY <1>j, <2>1 DEF JobType
  <2> QED BY <1>j, <1>i, <2>1, <2>2, IdleKeeps DEF RuntimeFiles, ModelFiles, SourceFiles
<1>4. CASE Provisioning!Damage
  <2>1. /\ UNCHANGED <<app, runtime, folder, input, work, job, registered, begins>>
        /\ job = Provisioning!Idle /\ faults' = faults + 1
    BY <1>4 DEF Provisioning!Damage
  <2>2. JobType'
    BY <1>j, <2>1 DEF JobType
  <2>3. RuntimeFiles' /\ ModelFiles' /\ SourceFiles'
    <3>1. downloads' \in [Provisioning!Archives -> {"none", "bad", "good"}]
      BY <1>4, <1>j DEF Provisioning!Damage, RuntimeFiles
    <3>2. dest' \in [Provisioning!Identities -> {"none", "damaged", "unmarked", "marked"}]
      BY <1>4, <1>j DEF Provisioning!Damage, ModelFiles
    <3>3. source' \in [{"weights", "config"} -> {"none", "partial", "good"}]
      BY <1>4, <1>j DEF Provisioning!Damage, SourceFiles
    <3> QED BY <1>j, <2>1, <3>1, <3>2, <3>3 DEF RuntimeFiles, ModelFiles, SourceFiles
  <2> QED BY <1>i, <2>1, <2>2, <2>3, IdleKeeps
<1> QED BY <1>1, <1>2, <1>3, <1>4

\* A step of the running job names the next one and keeps the rest of it.
LEMMA JobGoes ==
  ASSUME ProvisionInv, NEW next \in JobSteps \ {"idle"}, job.at # "idle", Provisioning!Goes(next), Provisioning!Rest
  PROVE JobType' /\ job' = [kind |-> job.kind, at |-> next] /\ UNCHANGED <<app, registered, begins, faults>>
BY DEF ProvisionInv, JobType, Provisioning!Goes, Provisioning!Rest

\* A job that ends claims nothing.
LEMMA EndKeeps ==
  ASSUME ProvisionInv, job' = Provisioning!Idle, JobType',
         UNCHANGED <<runtime, downloads, input, work, source, folder>>,
         dest' = dest \/ dest' = [dest EXCEPT ![<<job.kind, app>>] = "marked"]
  PROVE ProvisionInv'
<1>1. ModelFiles'
  BY DEF ProvisionInv, ModelFiles
<1>2. job'.at = "idle"
  BY DEF Provisioning!Idle
<1> QED BY <1>1, <1>2, IdleKeeps DEF ProvisionInv, RuntimeFiles, SourceFiles

\* A file of the right content, whichever step asks for it.
LEMMA DownloadKeeps ==
  ASSUME ProvisionInv, NEW a \in Provisioning!Archives, NEW from \in JobSteps \ {"idle"},
         NEW to \in {"extract", "install", "copyWeights"}, from \in Installing <=> to \in Installing,
         to = "extract" => a = "python", to = "install" => a = app,
         Provisioning!Download(a, from, to)
  PROVE ProvisionInv'
<1>1. job.at = from /\ to \in JobSteps \ {"idle"}
  BY DEF Provisioning!Download, Provisioning!At, JobSteps, Installing, Fetching
<1>2. Provisioning!Goes(to) /\ Provisioning!Rest /\ UNCHANGED <<runtime, source, folder, input, work, dest>>
  BY DEF Provisioning!Download, Provisioning!Only
<1>3. JobType' /\ job' = [kind |-> job.kind, at |-> to] /\ UNCHANGED <<app, registered, begins, faults>>
  BY <1>1, <1>2, JobGoes
<1>4. RuntimeFiles' /\ downloads'[a] = "good"
  BY <1>2 DEF Provisioning!Download, Provisioning!Verified, ProvisionInv, RuntimeFiles
<1>5. ArchiveIsVerified'
  BY <1>3, <1>4 DEF ArchiveIsVerified
<1>6. MarkerGoesFirst' /\ SourceIsFetched' /\ ConvertsWhatIsMissing'
  BY <1>1, <1>2, <1>3 DEF ProvisionInv, MarkerGoesFirst, SourceIsFetched, ConvertsWhatIsMissing, Installing, Converting
<1> QED BY <1>2, <1>3, <1>4, <1>5, <1>6 DEF ProvisionInv, ModelFiles, SourceFiles

\* A download that fails keeps it.
LEMMA DownloadFailsKeeps ==
  ASSUME ProvisionInv, NEW a, NEW from, Provisioning!DownloadFails(a, from)
  PROVE ProvisionInv'
<1>1. /\ UNCHANGED <<app, downloads, runtime, source, folder, input, work, dest, registered, begins>>
      /\ job' = [kind |-> "none", at |-> "idle"] /\ job' = Provisioning!Idle /\ faults' = faults + 1
  BY DEF Provisioning!DownloadFails, Provisioning!disk, Provisioning!Idle
<1>2. JobType'
  BY <1>1 DEF ProvisionInv, JobType, JobSteps
<1> QED BY <1>1, <1>2, EndKeeps

\* A step of the environment's own: what it has, and whether it is marked.
LEMMA RuntimeFilesKeep ==
  ASSUME ProvisionInv, NEW to \in JobSteps \ {"idle"}, job.at # "idle",
         Provisioning!Goes(to), Provisioning!Rest, UNCHANGED <<downloads, source, folder, input, work, dest>>,
         runtime' \in [has : Versions \cup {"none", "mixed"}, marker : Versions \cup {"none"}],
         to \in Installing => runtime'.marker = "none",
         to = "mark" => runtime'.has = app,
         runtime'.marker # "none" => runtime'.has = runtime'.marker,
         to \notin {"extract", "install", "find"} \cup Converting,
         job.kind = "fetch" => to \notin {"config", "config2", "validate"}
  PROVE ProvisionInv'
<1>1. JobType' /\ job' = [kind |-> job.kind, at |-> to] /\ UNCHANGED <<app, registered, begins, faults>>
  BY JobGoes
<1>2. MarkerGoesFirst' /\ ArchiveIsVerified' /\ SourceIsFetched' /\ ConvertsWhatIsMissing'
  BY <1>1 DEF MarkerGoesFirst, ArchiveIsVerified, SourceIsFetched, ConvertsWhatIsMissing, Installing
<1> QED BY <1>1, <1>2 DEF ProvisionInv, RuntimeFiles, ModelFiles, SourceFiles

\* The steps of the environment keep it.
LEMMA RuntimeKeeps == ASSUME ProvisionInv, Provisioning!ProvisionAssumption, Provisioning!Runtime PROVE ProvisionInv'
<1>r. /\ runtime \in [has : Versions \cup {"none", "mixed"}, marker : Versions \cup {"none"}]
      /\ runtime.marker # "none" => runtime.has = runtime.marker
      /\ app \in Versions /\ "none" \notin Versions
  BY DEF ProvisionInv, RuntimeFiles, MarkerGoesFirst, JobType, Provisioning!ProvisionAssumption
<1>s. {"unlink", "python", "packages", "service", "mark", "weights", "validate"}
        \subseteq JobSteps \ ({"idle", "extract", "install", "find"} \cup Converting)
  BY DEF JobSteps, Installing, Fetching, Converting
<1>a. {"python", app} \subseteq Provisioning!Archives /\ {"packages", "python"} \subseteq JobSteps \ {"idle"}
  BY <1>r DEF Provisioning!Archives, JobSteps, Installing
<1>1. CASE Provisioning!RuntimeCheck
  <2>1. PICK to \in {"unlink", "weights", "validate"} :
          Provisioning!Goes(to) /\ (job.kind = "fetch" => to # "validate")
    BY <1>1 DEF Provisioning!RuntimeCheck
  <2>2. job.at = "runtime" /\ Provisioning!Rest /\ UNCHANGED <<downloads, runtime, source, folder, input, work, dest>>
    BY <1>1 DEF Provisioning!RuntimeCheck, Provisioning!At, Provisioning!Only, Provisioning!disk
  <2>3. to \notin Installing
    BY DEF Installing
  <2> QED BY <1>r, <1>s, <2>1, <2>2, <2>3, RuntimeFilesKeep
<1>2. CASE Provisioning!RuntimeUnlink
  <2>1. /\ job.at = "unlink" /\ Provisioning!Goes("python") /\ Provisioning!Rest
        /\ UNCHANGED <<downloads, source, folder, input, work, dest>> /\ runtime' = [runtime EXCEPT !.marker = "none"]
    BY <1>2 DEF Provisioning!RuntimeUnlink, Provisioning!At, Provisioning!Only, Provisioning!Unlink
  <2>2. /\ runtime' \in [has : Versions \cup {"none", "mixed"}, marker : Versions \cup {"none"}]
        /\ runtime'.marker = "none"
    BY <1>r, <2>1
  <2> QED BY <1>s, <2>1, <2>2, RuntimeFilesKeep
<1>3. CASE Provisioning!RuntimeExtract
  <2>1. /\ job.at = "extract" /\ Provisioning!Goes("packages") /\ Provisioning!Rest
        /\ UNCHANGED <<downloads, source, folder, input, work, dest>> /\ runtime' = [runtime EXCEPT !.has = "mixed"]
    BY <1>3 DEF Provisioning!RuntimeExtract, Provisioning!At, Provisioning!Only
  <2>2. runtime.marker = "none"
    BY <2>1 DEF ProvisionInv, MarkerGoesFirst, Installing
  <2>3. /\ runtime' \in [has : Versions \cup {"none", "mixed"}, marker : Versions \cup {"none"}]
        /\ runtime'.marker = "none"
    BY <1>r, <2>1, <2>2
  <2> QED BY <1>s, <2>1, <2>3, RuntimeFilesKeep
<1>4. CASE Provisioning!RuntimeMark
  <2>1. PICK to \in {"weights", "validate"} : Provisioning!Goes(to) /\ (job.kind = "fetch" => to # "validate")
    BY <1>4 DEF Provisioning!RuntimeMark
  <2>2. /\ job.at = "mark" /\ Provisioning!Rest
        /\ UNCHANGED <<downloads, source, folder, input, work, dest>> /\ runtime' = [runtime EXCEPT !.marker = app]
    BY <1>4 DEF Provisioning!RuntimeMark, Provisioning!At, Provisioning!Only
  <2>3. runtime.has = app
    BY <2>2 DEF ProvisionInv, MarkerGoesFirst
  <2>4. /\ runtime' \in [has : Versions \cup {"none", "mixed"}, marker : Versions \cup {"none"}]
        /\ runtime'.marker = app /\ runtime'.has = app
    BY <1>r, <2>2, <2>3
  <2>5. to \notin Installing
    BY DEF Installing
  <2> QED BY <1>s, <2>1, <2>2, <2>4, <2>5, RuntimeFilesKeep
<1>5. CASE Provisioning!Download("python", "python", "extract") \/ Provisioning!Download(app, "packages", "install")
  <2>1. {"packages", "python", "extract", "install"} \subseteq Installing
    BY DEF Installing
  <2> QED BY <1>5, <1>a, <2>1, DownloadKeeps
<1>6. CASE Provisioning!DownloadFails("python", "python") \/ Provisioning!DownloadFails(app, "packages")
  BY <1>6, DownloadFailsKeeps
<1>7. CASE Provisioning!Install("install", "mixed", "service")
  <2>1. /\ job.at = "install" /\ Provisioning!Goes("service") /\ Provisioning!Rest
        /\ UNCHANGED <<downloads, source, folder, input, work, dest>> /\ runtime' = [runtime EXCEPT !.has = "mixed"]
    BY <1>7 DEF Provisioning!Install, Provisioning!At, Provisioning!Only
  <2>2. runtime.marker = "none"
    BY <2>1 DEF ProvisionInv, MarkerGoesFirst, Installing
  <2>3. /\ runtime' \in [has : Versions \cup {"none", "mixed"}, marker : Versions \cup {"none"}]
        /\ runtime'.marker = "none"
    BY <1>r, <2>1, <2>2
  <2> QED BY <1>s, <2>1, <2>3, RuntimeFilesKeep
<1>8. CASE Provisioning!Install("service", app, "mark")
  <2>1. /\ job.at = "service" /\ Provisioning!Goes("mark") /\ Provisioning!Rest
        /\ UNCHANGED <<downloads, source, folder, input, work, dest>> /\ runtime' = [runtime EXCEPT !.has = app]
    BY <1>8 DEF Provisioning!Install, Provisioning!At, Provisioning!Only
  <2>2. runtime.marker = "none"
    BY <2>1 DEF ProvisionInv, MarkerGoesFirst, Installing
  <2>3. /\ runtime' \in [has : Versions \cup {"none", "mixed"}, marker : Versions \cup {"none"}]
        /\ runtime'.marker = "none" /\ runtime'.has = app
    BY <1>r, <2>1, <2>2
  <2> QED BY <1>s, <2>1, <2>3, RuntimeFilesKeep
<1> QED BY <1>1, <1>2, <1>3, <1>4, <1>5, <1>6, <1>7, <1>8 DEF Provisioning!Runtime

\* The files of a fetched model are whole before they are used.
LEMMA FetchKeeps == ASSUME ProvisionInv, Provisioning!Fetch PROVE ProvisionInv'
<1>1. CASE Provisioning!Download("weights", "weights", "copyWeights")
  <2>1. "weights" \in Provisioning!Archives /\ "weights" \in JobSteps \ {"idle"}
        /\ "weights" \notin Installing /\ "copyWeights" \notin Installing
    BY DEF Provisioning!Archives, JobSteps, Installing, Fetching
  <2> QED BY <1>1, <2>1, DownloadKeeps
<1>2. CASE Provisioning!DownloadFails("weights", "weights")
  BY <1>2, DownloadFailsKeeps
<1>3. ASSUME NEW to \in {"copy1", "copy2", "config", "config2", "validate"}, job.at # "idle",
             Provisioning!Goes(to), Provisioning!Rest, UNCHANGED <<downloads, runtime, folder, input, work, dest>>,
             source' \in [{"weights", "config"} -> {"none", "partial", "good"}],
             job.kind = "fetch" /\ to \in {"config", "config2", "validate"} => source'["weights"] = "good",
             to = "validate" => source'["config"] = "good"
      PROVE  ProvisionInv'
  <2>1. to \in JobSteps \ {"idle"} /\ to \notin Installing /\ to \notin Converting
    BY DEF JobSteps, Installing, Fetching, Converting
  <2>2. JobType' /\ job' = [kind |-> job.kind, at |-> to] /\ UNCHANGED <<app, registered, begins, faults>>
    BY <1>3, <2>1, JobGoes
  <2>3. MarkerGoesFirst' /\ ArchiveIsVerified' /\ SourceIsFetched' /\ ConvertsWhatIsMissing'
    BY <1>3, <2>1, <2>2 DEF ProvisionInv, MarkerGoesFirst, ArchiveIsVerified, SourceIsFetched, ConvertsWhatIsMissing, Installing
  <2> QED BY <1>3, <2>2, <2>3 DEF ProvisionInv, RuntimeFiles, ModelFiles, SourceFiles
<1>s. source \in [{"weights", "config"} -> {"none", "partial", "good"}]
  BY DEF ProvisionInv, SourceFiles
<1>4. CASE Provisioning!FetchTest
  <2>1. PICK to \in {"config", "copy1"} : Provisioning!Goes(to) /\ (to = "config" => source["weights"] = "good")
    BY <1>4, <1>s DEF Provisioning!FetchTest
  <2>2. job.at = "copyWeights" /\ Provisioning!Rest /\ UNCHANGED <<downloads, runtime, source, folder, input, work, dest>>
    BY <1>4 DEF Provisioning!FetchTest, Provisioning!At, Provisioning!Only, Provisioning!disk
  <2> QED BY <1>3, <1>s, <2>1, <2>2
<1>5. ASSUME NEW file \in {"weights", "config"}, NEW from, NEW content \in {"partial", "good"}, NEW to,
             Provisioning!FetchFile(file, from, content, to)
      PROVE  /\ job.at = from /\ Provisioning!Goes(to) /\ Provisioning!Rest
             /\ UNCHANGED <<downloads, runtime, folder, input, work, dest>>
             /\ source' \in [{"weights", "config"} -> {"none", "partial", "good"}]
             /\ source'[file] = content
             /\ \A other \in {"weights", "config"} \ {file} : source'[other] = source[other]
  BY <1>5, <1>s DEF Provisioning!FetchFile, Provisioning!At, Provisioning!Only
<1>6. CASE Provisioning!FetchFile("weights", "copy1", "partial", "copy2")
  <2>1. job.at = "copy1" /\ Provisioning!Goes("copy2") /\ Provisioning!Rest
        /\ UNCHANGED <<downloads, runtime, folder, input, work, dest>>
        /\ source' \in [{"weights", "config"} -> {"none", "partial", "good"}]
    BY <1>5, <1>6
  <2> QED BY <1>3, <2>1
<1>7. CASE Provisioning!FetchFile("weights", "copy2", "good", "config")
  <2>1. job.at = "copy2" /\ Provisioning!Goes("config") /\ Provisioning!Rest
        /\ UNCHANGED <<downloads, runtime, folder, input, work, dest>>
        /\ source' \in [{"weights", "config"} -> {"none", "partial", "good"}] /\ source'["weights"] = "good"
    BY <1>5, <1>7
  <2> QED BY <1>3, <2>1
<1>8. CASE Provisioning!FetchFile("config", "config", "partial", "config2")
  <2>1. job.at = "config" /\ source'["weights"] = source["weights"]
    BY <1>5, <1>8
  <2>2. job.kind = "fetch" => source["weights"] = "good"
    BY <2>1 DEF ProvisionInv, SourceIsFetched
  <2> QED BY <1>3, <1>5, <1>8, <2>1, <2>2
<1>9. CASE Provisioning!FetchFile("config", "config2", "good", "validate")
  <2>1. job.at = "config2" /\ source'["weights"] = source["weights"]
    BY <1>5, <1>9
  <2>2. job.kind = "fetch" => source["weights"] = "good"
    BY <2>1 DEF ProvisionInv, SourceIsFetched
  <2> QED BY <1>3, <1>5, <1>9, <2>1, <2>2
<1> QED BY <1>1, <1>2, <1>4, <1>6, <1>7, <1>8, <1>9 DEF Provisioning!Fetch

\* A step of the conversion.
LEMMA ConversionGoes ==
  ASSUME ProvisionInv, NEW to \in Converting \cup {"find"}, job.at # "idle",
         Provisioning!Goes(to), Provisioning!Rest, UNCHANGED <<downloads, runtime, source, folder>>, ModelFiles',
         <<job.kind, app>> \in Provisioning!Identities,
         to \in Converting => dest'[<<job.kind, app>>] # "marked",
         to = "find" => job.at = "validate"
  PROVE ProvisionInv'
<1>1. to \in JobSteps \ {"idle"} /\ to \notin Installing /\ "find" \notin Converting
  BY DEF JobSteps, Installing, Converting
<1>2. JobType' /\ job' = [kind |-> job.kind, at |-> to] /\ UNCHANGED <<app, registered, begins, faults>>
  BY <1>1, JobGoes
<1>3. to \notin {"mark", "extract", "install", "config", "config2", "validate"}
  BY DEF Converting
<1>4. MarkerGoesFirst' /\ ArchiveIsVerified' /\ SourceIsFetched' /\ ConvertsWhatIsMissing'
  BY <1>1, <1>2, <1>3 DEF ProvisionInv, MarkerGoesFirst, ArchiveIsVerified, SourceIsFetched, ConvertsWhatIsMissing
<1> QED BY <1>2, <1>4 DEF ProvisionInv, RuntimeFiles, SourceFiles

\* The end of a job with a model.
LEMMA DoneKeeps ==
  ASSUME ProvisionInv, NEW model \in Provisioning!Kinds \X Versions, Provisioning!Done(model),
         UNCHANGED <<runtime, downloads, input, work, source, folder>>,
         dest' = dest \/ dest' = [dest EXCEPT ![<<job.kind, app>>] = "marked"]
  PROVE ProvisionInv'
<1>1. job' = Provisioning!Idle /\ registered' = model /\ UNCHANGED <<app, begins, faults>>
  BY DEF Provisioning!Done, Provisioning!Ended
<1>2. JobType'
  BY <1>1 DEF ProvisionInv, JobType, JobSteps, Provisioning!Idle
<1> QED BY <1>1, <1>2, EndKeeps

\* A write to one of the private folders.
LEMMA WorkKeepsType ==
  ASSUME ModelFiles, NEW i, NEW c \in {"none", "partial", "exported", "whole"}, work' = [work EXCEPT ![i] = c]
  PROVE  work' \in [Provisioning!Identities -> {"none", "partial", "exported", "whole"}]
BY DEF ModelFiles

\* One input changed is still an input.
LEMMA InputKeepsType ==
  ASSUME ModelFiles, NEW i, NEW c \in {"none", "partial", "copied"}, input' = [input EXCEPT ![i] = c]
  PROVE  input' \in [Provisioning!Identities -> {"none", "partial", "copied"}]
BY DEF ModelFiles

\* The conversion of a model keeps it.
LEMMA ConvertKeeps == ASSUME ProvisionInv, Provisioning!Convert PROVE ProvisionInv'
<1> DEFINE Id == <<job.kind, app>>
<1>d. Provisioning!Id = Id
  BY DEF Provisioning!Id
<1>m. ModelFiles /\ app \in Versions /\ job.kind \in Provisioning!Kinds \cup {"none"}
      /\ (job.kind = "none" <=> job.at = "idle")
  BY DEF ProvisionInv, JobType
<1>v. job.at \in Converting \cup {"find"} => Id \in Provisioning!Identities
  BY DEF ProvisionInv, ConvertsWhatIsMissing
<1>k. Provisioning!Identities \subseteq Provisioning!Kinds \X Versions
  BY DEF Provisioning!Identities
<1>n. job.at \in Converting => dest[Id] # "marked"
  BY DEF ProvisionInv, ConvertsWhatIsMissing
<1>1. CASE Provisioning!ValidateSource
  <2>1. job.at = "validate" /\ UNCHANGED <<downloads, runtime, source, folder, input, work, dest>>
        /\ ModelFiles' /\ job.kind \in Provisioning!Kinds
    BY <1>1, <1>m DEF Provisioning!ValidateSource, Provisioning!At, Provisioning!disk, ModelFiles
  <2>2. CASE job.kind = "openvino"
    <3>1. <<"openvino", app>> \in Provisioning!Kinds \X Versions
      BY <1>m DEF Provisioning!Kinds
    <3> QED BY <1>1, <2>1, <2>2, <3>1, DoneKeeps DEF Provisioning!ValidateSource
  <2>3. CASE job.kind # "openvino"
    <3>1. Provisioning!Goes("find") /\ Provisioning!Rest
      BY <1>1, <2>3 DEF Provisioning!ValidateSource
    <3>2. Id \in Provisioning!Identities
      BY <1>m, <2>1, <2>3 DEF Provisioning!Identities
    <3>3. "find" \notin Converting
      BY DEF Converting
    <3> QED BY <2>1, <3>1, <3>2, <3>3, ConversionGoes
  <2> QED BY <2>2, <2>3
<1>2. CASE Provisioning!FindConverted
  <2>1. job.at = "find" /\ UNCHANGED <<downloads, runtime, source, folder, input, work, dest>> /\ ModelFiles'
    BY <1>2, <1>m DEF Provisioning!FindConverted, Provisioning!At, Provisioning!disk, ModelFiles
  <2>2. CASE Provisioning!Converted
    BY <1>2, <1>d, <1>v, <1>k, <2>1, <2>2, DoneKeeps DEF Provisioning!FindConverted
  <2>3. CASE ~Provisioning!Converted
    <3>1. Provisioning!Goes("clear") /\ Provisioning!Rest /\ dest[Id] # "marked" /\ "clear" \in Converting
      BY <1>2, <1>d, <2>3 DEF Provisioning!FindConverted, Provisioning!Converted, Converting
    <3> QED BY <1>v, <2>1, <3>1, ConversionGoes
  <2> QED BY <2>2, <2>3
\* Every other step is one of the conversion and leaves what is marked alone.
<1>3. ASSUME NEW to \in Converting, job.at \in Converting, Provisioning!Goes(to), Provisioning!Rest,
             UNCHANGED <<downloads, runtime, source, folder>>, ModelFiles', dest'[Id] # "marked"
      PROVE  ProvisionInv'
  <2>1. job.at # "idle" /\ to # "find"
    BY <1>3 DEF Converting
  <2> QED BY <1>3, <1>v, <2>1, ConversionGoes
<1>c. {"clear", "copyWork", "copyInput", "copyingWork", "copyingInput", "tokenizer", "tokenizing", "export",
       "exporting", "old", "move", "markModel"} = Converting
  BY DEF Converting
<1>4. CASE Provisioning!ClearWork
  <2>1. /\ job.at = "clear" /\ UNCHANGED <<downloads, runtime, source, folder, dest>> /\ Provisioning!Rest
        /\ \E to \in {"copyWork", "copyInput"} : Provisioning!Goes(to)
    BY <1>4 DEF Provisioning!ClearWork, Provisioning!At, Provisioning!Only
  <2>2. ModelFiles'
    BY <1>4, <1>m, <2>1 DEF Provisioning!ClearWork, Provisioning!RemoveWork, ModelFiles
  <2> QED BY <1>3, <1>c, <1>n, <2>1, <2>2
<1>5. CASE Provisioning!CopyModel
  <2>1. /\ job.at \in Converting /\ UNCHANGED <<downloads, runtime, source, folder, dest>> /\ Provisioning!Rest
        /\ \E to \in {"copyingWork", "tokenizer", "copyingInput", "export"} : Provisioning!Goes(to)
    BY <1>5, <1>c DEF Provisioning!CopyModel, Provisioning!CopyStart, Provisioning!CopyEnd, Provisioning!At, Provisioning!Only
  <2>2. \/ UNCHANGED input /\ \E c \in {"partial", "exported"} : work' = [work EXCEPT ![Id] = c]
        \/ UNCHANGED work /\ \E c \in {"partial", "copied"} : input' = [input EXCEPT ![Id] = c]
    BY <1>5, <1>d DEF Provisioning!CopyModel, Provisioning!CopyStart, Provisioning!CopyEnd, Provisioning!Only
  <2>3. ModelFiles'
    <3>1. CASE UNCHANGED input /\ \E c \in {"partial", "exported"} : work' = [work EXCEPT ![Id] = c]
      BY <1>m, <2>1, <3>1, WorkKeepsType DEF ModelFiles
    <3>2. CASE UNCHANGED work /\ \E c \in {"partial", "copied"} : input' = [input EXCEPT ![Id] = c]
      BY <1>m, <2>1, <3>2, InputKeepsType DEF ModelFiles
    <3> QED BY <2>2, <3>1, <3>2
  <2> QED BY <1>3, <1>c, <1>n, <2>1, <2>3
<1>6. CASE \/ Provisioning!ExportStart \/ Provisioning!Finish("exporting", "exported", "tokenizer")
           \/ Provisioning!Finish("tokenizer", "partial", "tokenizing") \/ Provisioning!Finish("tokenizing", "whole", "old")
  <2>1. /\ job.at \in Converting /\ UNCHANGED <<downloads, runtime, source, folder, input, dest>> /\ Provisioning!Rest
        /\ \E to \in {"exporting", "tokenizer", "tokenizing", "old"} : Provisioning!Goes(to)
        /\ \E content \in {"partial", "exported", "whole"} : work' = [work EXCEPT ![Id] = content]
    BY <1>6, <1>c, <1>d DEF Provisioning!ExportStart, Provisioning!FromCopy, Provisioning!Finish, Provisioning!At, Provisioning!Only
  <2>2. ModelFiles'
    BY <1>m, <2>1, WorkKeepsType DEF ModelFiles
  <2> QED BY <1>3, <1>c, <1>n, <2>1, <2>2
<1>7. CASE Provisioning!RemoveOld
  <2>1. /\ job.at = "old" /\ UNCHANGED <<downloads, runtime, source, folder, input, work>> /\ Provisioning!Rest
        /\ Provisioning!Goes("move") /\ dest' = [dest EXCEPT ![Id] = "none"]
    BY <1>7, <1>d DEF Provisioning!RemoveOld, Provisioning!At, Provisioning!Only
  <2>2. ModelFiles' /\ dest'[Id] = "none"
    BY <1>m, <1>c, <1>v, <2>1 DEF ModelFiles
  <2> QED BY <1>3, <1>c, <2>1, <2>2
<1>8. CASE Provisioning!MoveWork
  <2>1. /\ job.at = "move" /\ UNCHANGED <<downloads, runtime, source, folder, input>> /\ Provisioning!Rest
        /\ Provisioning!Goes("markModel") /\ dest' = [dest EXCEPT ![Id] = "unmarked"]
        /\ work' = [work EXCEPT ![Id] = "none"]
    BY <1>8, <1>d DEF Provisioning!MoveWork, Provisioning!At, Provisioning!Only
  <2>2. ModelFiles' /\ dest'[Id] = "unmarked"
    BY <1>m, <1>c, <1>v, <2>1 DEF ModelFiles
  <2> QED BY <1>3, <1>c, <2>1, <2>2
<1>9. CASE Provisioning!MarkModel
  <2>1. /\ job.at = "markModel" /\ UNCHANGED <<downloads, runtime, source, folder, input, work>>
        /\ Provisioning!Done(Id) /\ dest' = [dest EXCEPT ![Id] = "marked"]
    BY <1>9, <1>d DEF Provisioning!MarkModel, Provisioning!At
  <2> QED BY <1>c, <1>k, <1>v, <2>1, DoneKeeps
<1> QED BY <1>1, <1>2, <1>4, <1>5, <1>6, <1>7, <1>8, <1>9 DEF Provisioning!Convert

\* Every step of the provisioning keeps its invariant.
LEMMA ProvisionStep ==
  ASSUME ProvisionInv, Provisioning!ProvisionAssumption, Provisioning!Next
  PROVE ProvisionInv'
BY BetweenKeeps, RuntimeKeeps, FetchKeeps, ConvertKeeps DEF Provisioning!Next, Provisioning!Prepare

\* The properties follow from the invariant of the provisioning.
LEMMA ProvisionIsSafe ==
  ASSUME ProvisionInv
  PROVE Provisioning!TypeOK /\ Provisioning!MarkedIsWhole /\ Provisioning!OnlyVerified /\ Provisioning!FolderUntouched
<1>1. Provisioning!TypeOK
  BY DEF ProvisionInv, JobType, RuntimeFiles, ModelFiles, SourceFiles, Provisioning!TypeOK, Provisioning!At
<1>2. Provisioning!MarkedIsWhole
  BY DEF ProvisionInv, MarkerGoesFirst, Provisioning!MarkedIsWhole
<1>3. Provisioning!OnlyVerified
  BY DEF ProvisionInv, ArchiveIsVerified, SourceIsFetched, Provisioning!OnlyVerified, Provisioning!At
<1>4. Provisioning!FolderUntouched
  BY DEF ProvisionInv, SourceFiles, Provisioning!FolderUntouched
<1> QED BY <1>1, <1>2, <1>3, <1>4

\* The only step that removes a converted model is one of a conversion, which
\* runs only while there is none that is marked.
LEMMA UsableStep ==
  ASSUME ProvisionInv, Provisioning!Next
  PROVE  \A i \in Provisioning!Identities : dest[i] = "marked" => dest'[i] \in {"marked", "damaged"}
<1> SUFFICES ASSUME NEW i \in Provisioning!Identities, dest[i] = "marked" PROVE dest'[i] \in {"marked", "damaged"}
  OBVIOUS
<1>0. dest \in [Provisioning!Identities -> {"none", "damaged", "unmarked", "marked"}]
  BY DEF ProvisionInv, ModelFiles
<1>1. CASE UNCHANGED dest
  BY <1>1
<1>2. CASE Provisioning!Damage
  BY <1>0, <1>2 DEF Provisioning!Damage
<1>3. CASE Provisioning!MarkModel
  BY <1>0, <1>3 DEF Provisioning!MarkModel
<1>4. CASE Provisioning!RemoveOld \/ Provisioning!MoveWork
  <2>1. job.at \in Converting
    BY <1>4 DEF Provisioning!RemoveOld, Provisioning!MoveWork, Provisioning!At, Converting
  <2>2. i # <<job.kind, app>>
    BY <2>1 DEF ProvisionInv, ConvertsWhatIsMissing
  <2> QED BY <1>0, <1>4, <2>2 DEF Provisioning!RemoveOld, Provisioning!MoveWork, Provisioning!Id
<1>5. CASE Provisioning!Runtime
  BY <1>1, <1>5 DEF Provisioning!Runtime, Provisioning!RuntimeCheck, Provisioning!RuntimeUnlink,
    Provisioning!RuntimeExtract, Provisioning!RuntimeMark, Provisioning!Download, Provisioning!DownloadFails,
    Provisioning!Install, Provisioning!Only, Provisioning!disk
<1>6. CASE Provisioning!Fetch
  BY <1>1, <1>6 DEF Provisioning!Fetch, Provisioning!FetchTest, Provisioning!FetchFile, Provisioning!Download,
    Provisioning!DownloadFails, Provisioning!Only, Provisioning!disk
<1>7. CASE \/ Provisioning!ValidateSource \/ Provisioning!FindConverted \/ Provisioning!ClearWork
           \/ Provisioning!CopyModel \/ Provisioning!ExportStart
           \/ \E from, content, to : Provisioning!Finish(from, content, to)
  BY <1>1, <1>7 DEF Provisioning!ValidateSource, Provisioning!FindConverted, Provisioning!ClearWork,
    Provisioning!CopyModel, Provisioning!ExportStart, Provisioning!Finish, Provisioning!Only, Provisioning!disk
<1>8. CASE (\E k \in Provisioning!Kinds : Provisioning!Begin(k)) \/ Provisioning!Stop \/ Provisioning!Replace
  BY <1>1, <1>8 DEF Provisioning!Begin, Provisioning!Stop, Provisioning!Replace, Provisioning!disk
<1> QED BY <1>2, <1>3, <1>4, <1>5, <1>6, <1>7, <1>8 DEF Provisioning!Next, Provisioning!Prepare, Provisioning!Convert
-----------------------------------------------------------------------------
(***************************************************************************)
(* Registration.  A registration that waits in the queue carries the       *)
(* generation it was posted in.  As long as that is the present one, or    *)
(* the one that is shown, nothing is prepared or loaded: whatever would,   *)
(* takes a new generation, and the lifecycle thread that observes this one *)
(* finds nothing to load.                                                  *)
(***************************************************************************)
Posts ==
  [kind : {"engine"}] \cup [kind : {"apply"}, active : BOOLEAN]
    \cup [kind : {"register"}, model : Models \cup {NoModel, NoEngine}, gen : Nat]
Entries(s) == {s[i] : i \in 1 .. Len(s)}
Registrations(q) == {c \in Entries(q) : c.kind = "register"}

ShownIsPresent == ~closed /\ ~preparing => state.gen = generation
FailsModel == worker.pc = "fail" => worker.config \in Models
NothingLoads ==
  /\ ~preparing /\ state.phase \in {"prepared", "unprepared"}
  /\ state.phase = "unprepared" => desired \notin Models
  /\ worker.observed = generation => worker.config \notin Models
RegistersPrepared ==
  /\ \A c \in Registrations(posts) :
       /\ c.gen <= generation
       /\ c.gen \in {generation, state.gen} => NothingLoads
  /\ closed => Registrations(posts) = {}
RegisterInv == posts \in Seq(Posts) /\ ShownIsPresent /\ FailsModel /\ RegistersPrepared

\* A registration in the queue carries a generation.
LEMMA RegistrationHasNumber == ASSUME NEW q \in Seq(Posts) PROVE \A c \in Registrations(q) : c.gen \in Nat
<1>1. SUFFICES ASSUME NEW c \in Registrations(q) PROVE c.gen \in Nat
  OBVIOUS
<1>2. c \in Posts /\ c.kind = "register"
  BY ElementOfSeq DEF Registrations, Entries
<1> QED BY <1>2 DEF Posts

\* A command taken leaves the other registrations in the queue.
LEMMA QueueTail ==
  ASSUME NEW q \in Seq(Posts), q # << >>
  PROVE  /\ Head(q) \in Posts /\ Tail(q) \in Seq(Posts)
         /\ Head(q) \in Entries(q) /\ Registrations(Tail(q)) \subseteq Registrations(q)
<1> DEFINE n == Len(q)
           t == Tail(q)
<1>1. n \in Nat \ {0} /\ Head(q) \in Posts /\ t \in Seq(Posts) /\ Len(t) = n - 1
      /\ \A i \in 1 .. Len(t) : t[i] = q[i + 1]
  BY EmptySeq, HeadTailProperties
<1>2. Head(q) = q[1]
  OBVIOUS
<1> HIDE DEF n, t
<1>3. 1 \in 1 .. n /\ \A i \in 1 .. n - 1 : i + 1 \in 1 .. n /\ t[i] = q[i + 1]
  BY <1>1
<1>4. {t[i] : i \in 1 .. n - 1} \subseteq {q[i] : i \in 1 .. n} /\ q[1] \in {q[i] : i \in 1 .. n}
  BY <1>3
<1> QED BY <1>1, <1>2, <1>4 DEF Registrations, Entries, n, t

\* A command put adds no registration but itself.
LEMMA QueueAppend ==
  ASSUME NEW q \in Seq(Posts), NEW c \in Posts
  PROVE  /\ Append(q, c) \in Seq(Posts)
         /\ Registrations(Append(q, c)) \subseteq Registrations(q) \cup {c}
         /\ c.kind # "register" => Registrations(Append(q, c)) \subseteq Registrations(q)
<1> DEFINE n == Len(q)
           t == Append(q, c)
<1>1. n \in Nat /\ t \in Seq(Posts) /\ Len(t) = n + 1 /\ t[n + 1] = c /\ \A i \in 1 .. n : t[i] = q[i]
  BY AppendProperties, LenProperties
<1> HIDE DEF n, t
<1>2. \A i \in 1 .. n + 1 : i \in 1 .. n \/ i = n + 1
  BY <1>1
<1>3. {t[i] : i \in 1 .. n + 1} \subseteq {q[i] : i \in 1 .. n} \cup {c}
  BY <1>1, <1>2
<1>4. Entries(t) \subseteq Entries(q) \cup {c}
  BY <1>1, <1>3 DEF Entries, n
<1> QED BY <1>1, <1>4 DEF Registrations, t

\* A command removed adds no registration.
LEMMA QueueWithout ==
  ASSUME NEW q \in Seq(Posts), NEW k \in 1 .. Len(q)
  PROVE  RemoveAt(q, k) \in Seq(Posts) /\ Registrations(RemoveAt(q, k)) \subseteq Registrations(q)
<1> DEFINE n == Len(q)
           a == SubSeq(q, 1, k - 1)
           b == SubSeq(q, k + 1, n)
           r == a \o b
<1>1. n \in Nat /\ k \in 1 .. n /\ \A i \in 1 .. n : q[i] \in Posts
  BY LenProperties, ElementOfSeq
<1>2. a \in Seq(Posts) /\ Len(a) = k - 1 /\ \A i \in 1 .. k - 1 : a[i] = q[i]
  <2>1. k - 1 \in Int /\ \A i \in 1 .. k - 1 : q[i] \in Posts
    BY <1>1
  <2>2. /\ a \in Seq(Posts) /\ Len(a) = IF 1 <= k - 1 THEN (k - 1) - 1 + 1 ELSE 0
        /\ \A i \in 1 .. (k - 1) - 1 + 1 : a[i] = q[1 + i - 1]
    BY <2>1, SubSeqProperties
  <2> HIDE DEF a
  <2> QED BY <1>1, <2>2
<1>3. b \in Seq(Posts) /\ Len(b) = n - k /\ \A i \in 1 .. n - k : b[i] = q[k + i]
  <2>1. k + 1 \in Int /\ n \in Int /\ \A i \in k + 1 .. n : q[i] \in Posts
    BY <1>1
  <2>2. /\ b \in Seq(Posts) /\ Len(b) = IF k + 1 <= n THEN n - (k + 1) + 1 ELSE 0
        /\ \A i \in 1 .. n - (k + 1) + 1 : b[i] = q[(k + 1) + i - 1]
    BY <2>1, SubSeqProperties
  <2> HIDE DEF b, n
  <2> QED BY <1>1, <2>2
<1> HIDE DEF a, b
<1>4. /\ r \in Seq(Posts) /\ Len(r) = Len(a) + Len(b)
      /\ \A i \in 1 .. Len(a) + Len(b) : r[i] = IF i <= Len(a) THEN a[i] ELSE b[i - Len(a)]
  BY <1>2, <1>3, ConcatProperties
<1> HIDE DEF n, r
<1>5. Len(r) = n - 1 /\ \A i \in 1 .. n - 1 : r[i] = IF i <= k - 1 THEN a[i] ELSE b[i - (k - 1)]
  BY <1>1, <1>2, <1>3, <1>4
<1>6. ASSUME NEW i \in 1 .. n - 1 PROVE \E j \in 1 .. n : r[i] = q[j]
  <2>1. CASE i <= k - 1
    BY <1>1, <1>2, <1>5, <2>1
  <2>2. CASE ~(i <= k - 1)
    <3> DEFINE m == i - (k - 1)
    <3>1. m \in 1 .. n - k /\ k + m \in 1 .. n
      BY <1>1, <2>2
    <3>2. r[i] = b[m]
      BY <1>5, <2>2
    <3> HIDE DEF m
    <3> QED BY <1>3, <3>1, <3>2
  <2> QED BY <2>1, <2>2
<1>7. Entries(r) \subseteq Entries(q)
  <2>1. SUFFICES ASSUME NEW i \in 1 .. Len(r) PROVE r[i] \in Entries(q)
    BY DEF Entries
  <2>2. PICK j \in 1 .. n : r[i] = q[j]
    BY <1>5, <1>6
  <2>3. j \in 1 .. Len(q)
    BY DEF n
  <2> QED BY <2>2, <2>3 DEF Entries
<1> QED BY <1>4, <1>7 DEF Registrations, RemoveAt, r, a, b, n

\* The announcement of a state adds no registration.
LEMMA QueueAnnounced ==
  ASSUME NEW q \in Seq(Posts)
  PROVE  Announced(q) \in Seq(Posts) /\ Registrations(Announced(q)) \subseteq Registrations(q)
<1> DEFINE p == IF Older(q) = {} THEN q ELSE RemoveAt(q, CHOOSE i \in Older(q) : TRUE)
           c == [kind |-> "engine"]
<1>1. p \in Seq(Posts) /\ Registrations(p) \subseteq Registrations(q)
  <2>1. CASE Older(q) = {}
    BY <2>1
  <2>2. CASE Older(q) # {}
    <3> DEFINE k == CHOOSE i \in Older(q) : TRUE
    <3>1. k \in 1 .. Len(q)
      BY <2>2 DEF Older
    <3> HIDE DEF k
    <3>2. RemoveAt(q, k) \in Seq(Posts) /\ Registrations(RemoveAt(q, k)) \subseteq Registrations(q)
      BY <3>1, QueueWithout
    <3> QED BY <2>2, <3>2 DEF k
  <2> QED BY <2>1, <2>2
<1>2. c \in Posts /\ c.kind # "register"
  BY DEF Posts
<1> HIDE DEF p, c
<1>3. Append(p, c) \in Seq(Posts) /\ Registrations(Append(p, c)) \subseteq Registrations(p)
  BY <1>1, <1>2, QueueAppend
<1>4. Announced(q) = Append(p, c)
  BY DEF Announced, p, c
<1> QED BY <1>1, <1>3, <1>4

\* The invariant of the registrations holds at the start.
LEMMA RegisterInit == ASSUME Init PROVE RegisterInv
<1>1. posts = << >> \/ posts = << [kind |-> "engine"] >>
  BY DEF Init
<1>2. [kind |-> "engine"] \in Posts
  BY DEF Posts
<1>3. << >> \in Seq(Posts) /\ Registrations(<< >>) = {}
  <2>1. << >> \in Seq(Posts) /\ Len(<< >>) = 0
    BY EmptySeq
  <2> QED BY <2>1 DEF Registrations, Entries
<1>4. << [kind |-> "engine"] >> \in Seq(Posts) /\ Registrations(<< [kind |-> "engine"] >>) = {}
  <2> DEFINE q == << [kind |-> "engine"] >>
  <2>1. q \in Seq(Posts) /\ Len(q) = 1 /\ q[1] = [kind |-> "engine"]
    BY <1>2
  <2> HIDE DEF q
  <2>2. \A i \in 1 .. Len(q) : q[i].kind = "engine"
    BY <2>1
  <2> QED BY <2>1, <2>2 DEF Registrations, Entries, q
<1>5. posts \in Seq(Posts) /\ Registrations(posts) = {}
  BY <1>1, <1>3, <1>4
<1>6. ShownIsPresent /\ FailsModel
  BY DEF Init, Wanted, ShownIsPresent, FailsModel
<1> QED BY <1>5, <1>6 DEF RegisterInv, RegistersPrepared

\* The queue grows by news or shrinks, and what is shown stays.
LEMMA RegistersStay ==
  ASSUME RegisterInv, posts' \in Seq(Posts), Registrations(posts') \subseteq Registrations(posts),
         UNCHANGED <<closed, preparing, generation>>, state'.gen = state.gen,
         FailsModel', NothingLoads => NothingLoads'
  PROVE  RegisterInv'
BY DEF RegisterInv, ShownIsPresent, RegistersPrepared

\* What touches neither the queue nor the manager keeps it.
LEMMA RegisterRests ==
  ASSUME RegisterInv, UNCHANGED <<posts, closed, preparing, state, generation, desired, worker>>
  PROVE  RegisterInv'
<1>1. FailsModel' /\ (NothingLoads => NothingLoads')
  BY DEF RegisterInv, FailsModel, NothingLoads
<1>2. posts' \in Seq(Posts) /\ Registrations(posts') \subseteq Registrations(posts)
  BY DEF RegisterInv
<1> QED BY <1>1, <1>2, RegistersStay

\* With a new generation no registration is of the present one any more.
LEMMA RegistersPass ==
  ASSUME RegisterInv, generation \in Nat, generation' = generation + 1,
         posts' \in Seq(Posts), Registrations(posts') \subseteq Registrations(posts),
         closed' = closed, worker' = worker, state'.gen = generation'
  PROVE  RegisterInv'
<1>1. \A c \in Registrations(posts') : c.gen \in Nat /\ c.gen <= generation
  BY RegistrationHasNumber DEF RegisterInv, RegistersPrepared
<1>2. \A c \in Registrations(posts') : c.gen <= generation' /\ c.gen # generation'
  BY <1>1
<1>3. ShownIsPresent' /\ FailsModel'
  BY DEF RegisterInv, ShownIsPresent, FailsModel
<1>4. RegistersPrepared'
  BY <1>2 DEF RegisterInv, RegistersPrepared
<1> QED BY <1>3, <1>4 DEF RegisterInv

\* What the lifecycle thread shows of a model it loads: there is then no
\* registration of this generation.
LEMMA LoadingShown ==
  ASSUME RegisterInv, worker.config \in Models, NEW p, NEW b, SetIf(worker.observed, p, b),
         UNCHANGED <<desired, generation, closed, preparing>>, FailsModel',
         worker'.observed = worker.observed, worker'.config = worker.config
  PROVE  RegisterInv'
<1>1. CASE Live(worker.observed)
  <2>1. /\ ~closed /\ worker.observed = generation /\ state'.gen = generation /\ posts' = Announced(posts)
    BY <1>1 DEF Live, SetIf, Set
  <2>2. \A c \in Registrations(posts) : c.gen # generation /\ c.gen <= generation
    BY <2>1 DEF RegisterInv, RegistersPrepared, NothingLoads
  <2>3. posts' \in Seq(Posts) /\ Registrations(posts') \subseteq Registrations(posts)
    BY <2>1, QueueAnnounced DEF RegisterInv
  <2> QED BY <2>1, <2>2, <2>3 DEF RegisterInv, ShownIsPresent, RegistersPrepared
<1>2. CASE ~ Live(worker.observed)
  <2>1. UNCHANGED <<state, posts>>
    BY <1>2 DEF SetIf
  <2>2. NothingLoads => NothingLoads'
    BY <2>1 DEF NothingLoads
  <2> QED BY <2>1, <2>2, RegistersStay DEF RegisterInv
<1> QED BY <1>1, <1>2

\* The lifecycle thread keeps it.
LEMMA WorkerRegisters == ASSUME QwenInv, RegisterInv, Worker PROVE RegisterInv'
<1>r. worker = [pc |-> worker.pc, observed |-> worker.observed, config |-> worker.config, last |-> worker.last]
  BY DEF QwenInv, Shapes
<1>c. worker.pc \in {"check", "current", "clear", "start", "poll", "announce", "fail"} => worker.config \in Models
  BY DEF QwenInv, ServedInv, LoadsModel, RegisterInv, FailsModel
<1>u. UNCHANGED <<desired, generation, closed, preparing>>
  BY DEF Worker, WorkerEnd, WorkerWake, WorkerClose, WorkerClosed, WorkerCheck, WorkerCurrent, WorkerClear,
    WorkerStart, WorkerLeave, WorkerSeesFailure, WorkerSeesWarming, WorkerSeesReady, WorkerAnnounce,
    WorkerTimeout, WorkerFail, WorkerRelease, WorkerOnly
<1>1. CASE WorkerWake
  <2>1. /\ UNCHANGED <<state, posts>> /\ worker'.pc = "close"
        /\ worker'.config = IF preparing \/ state.phase \in {"prepared", "cancelled", "error"}
                            THEN NoEngine ELSE desired
    BY <1>1 DEF WorkerWake
  <2>2. FailsModel'
    BY <2>1 DEF FailsModel
  <2>3. NothingLoads => NothingLoads'
    BY <1>u, <2>1, QwenAssumption DEF NothingLoads
  <2> QED BY <1>u, <2>1, <2>2, <2>3, RegistersStay DEF RegisterInv
<1>2. CASE (WorkerCheck /\ UNCHANGED <<state, posts>>) \/ WorkerEnd \/ WorkerClose \/ WorkerClosed \/ WorkerCurrent
             \/ WorkerClear \/ WorkerStart \/ WorkerLeave \/ WorkerSeesFailure \/ WorkerSeesReady
             \/ WorkerTimeout \/ WorkerRelease
  <2>1. /\ UNCHANGED <<state, posts>>
        /\ worker' = [pc |-> worker'.pc, observed |-> worker.observed, config |-> worker.config, last |-> worker.last]
        /\ worker'.pc = "fail" => worker.pc \in {"check", "start", "poll"}
    BY <1>2, <1>r DEF WorkerCheck, WorkerEnd, WorkerClose, WorkerClosed, WorkerCurrent, WorkerClear, WorkerStart,
      WorkerLeave, WorkerSeesFailure, WorkerSeesReady, WorkerTimeout, WorkerRelease, WorkerGoes, WorkerAt, SetIf
  <2>2. FailsModel'
    BY <1>c, <2>1 DEF FailsModel
  <2>3. NothingLoads => NothingLoads'
    BY <1>u, <2>1 DEF NothingLoads
  <2> QED BY <1>u, <2>1, <2>2, <2>3, RegistersStay DEF RegisterInv
<1>3. CASE WorkerCheck /\ ~ UNCHANGED <<state, posts>>
  <2>1. /\ worker.pc = "check" /\ SetIf(worker.observed, "loading", TRUE) /\ worker'.pc = "current"
        /\ worker'.observed = worker.observed /\ worker'.config = worker.config
    BY <1>3, <1>r DEF WorkerCheck, WorkerGoes, WorkerAt
  <2>2. FailsModel'
    BY <2>1 DEF FailsModel
  <2> QED BY <1>c, <1>u, <2>1, <2>2, LoadingShown
<1>4. CASE WorkerSeesWarming \/ WorkerAnnounce
  <2>1. /\ worker.pc \in {"poll", "announce"} /\ worker'.pc = "poll"
        /\ SetIf(worker.observed, "warming", TRUE) \/ SetIf(worker.observed, "ready", TRUE)
        /\ worker'.observed = worker.observed /\ worker'.config = worker.config
    BY <1>4, <1>r DEF WorkerSeesWarming, WorkerAnnounce, Announce, WorkerAt
  <2>2. FailsModel'
    BY <2>1 DEF FailsModel
  <2> QED BY <1>c, <1>u, <2>1, <2>2, LoadingShown
<1>5. CASE WorkerFail
  <2>1. /\ worker.pc = "fail" /\ SetIf(worker.observed, "error", FALSE) /\ worker'.pc = "failed"
        /\ worker'.observed = worker.observed /\ worker'.config = worker.config
    BY <1>5, <1>r DEF WorkerFail, WorkerGoes, WorkerAt
  <2>2. FailsModel'
    BY <2>1 DEF FailsModel
  <2> QED BY <1>c, <1>u, <2>1, <2>2, LoadingShown
<1> QED BY <1>1, <1>2, <1>3, <1>4, <1>5 DEF Worker

\* A new configuration keeps it: it draws a generation when something
\* changes.
LEMMA ConfigureRegisters ==
  ASSUME QwenInv, RegisterInv, NEW m, NEW q \in Seq(Posts), Registrations(q) \subseteq Registrations(posts),
         Configure(m, q), UNCHANGED threads
  PROVE  RegisterInv'
<1>1. UNCHANGED <<closed, preparing, worker>> /\ desired' = m
  BY DEF Configure, threads
<1>2. Announced(q) \in Seq(Posts) /\ Registrations(Announced(q)) \subseteq Registrations(posts)
  BY QueueAnnounced
<1>3. CASE Same(m)
  <2>1. posts' = q /\ UNCHANGED <<generation, state, desired>>
    BY <1>1, <1>3 DEF Configure, Same
  <2>2. FailsModel' /\ (NothingLoads => NothingLoads')
    BY <1>1, <2>1 DEF RegisterInv, FailsModel, NothingLoads
  <2> QED BY <1>1, <2>1, <2>2, RegistersStay
<1>4. CASE ~ Same(m) /\ ~ preparing
  <2>1. generation' = generation + 1 /\ state'.gen = generation' /\ posts' = Announced(q)
    BY <1>4 DEF Configure, Wanted
  <2>2. generation \in Nat
    BY DEF QwenInv, Numbers
  <2> QED BY <1>1, <1>2, <2>1, <2>2, RegistersPass
<1>5. CASE ~ Same(m) /\ preparing
  <2>1. generation' = generation + 1 /\ state' = state /\ posts' = q
    BY <1>5 DEF Configure
  <2>2. generation \in Nat /\ \A c \in Registrations(posts) : c.gen \in Nat
    BY RegistrationHasNumber DEF QwenInv, Numbers, RegisterInv
  <2>3. \A c \in Registrations(posts) : c.gen <= generation /\ c.gen # state.gen
    BY <1>5 DEF RegisterInv, RegistersPrepared, NothingLoads
  <2>4. \A c \in Registrations(posts') : c.gen <= generation' /\ c.gen # generation' /\ c.gen # state'.gen
    BY <2>1, <2>2, <2>3
  <2>5. RegistersPrepared'
    BY <1>1, <2>1, <2>4 DEF RegisterInv, RegistersPrepared
  <2>6. ShownIsPresent' /\ FailsModel'
    BY <1>1, <1>5 DEF RegisterInv, ShownIsPresent, FailsModel
  <2> QED BY <2>1, <2>5, <2>6 DEF RegisterInv
<1> QED BY <1>3, <1>4, <1>5

\* The control thread keeps it.
LEMMA ControlRegisters == ASSUME QwenInv, RegisterInv, Control PROVE RegisterInv'
<1>0. UNCHANGED threads /\ posts # << >>
  BY DEF Control, TakeNews, TakeApply, TakeRegistration, Takes, ControlOnly
<1>1. Tail(posts) \in Seq(Posts) /\ Registrations(Tail(posts)) \subseteq Registrations(posts)
  BY <1>0, QueueTail DEF RegisterInv
<1>2. CASE posts' = Tail(posts) /\ UNCHANGED <<desired, generation, closed, preparing, state>>
  <2>1. FailsModel' /\ (NothingLoads => NothingLoads')
    BY <1>0, <1>2 DEF threads, RegisterInv, FailsModel, NothingLoads
  <2> QED BY <1>1, <1>2, <2>1, RegistersStay
<1>3. CASE \E m : Configure(m, Tail(posts))
  BY <1>0, <1>1, <1>3, ConfigureRegisters
<1> QED BY <1>2, <1>3 DEF Control, TakeNews, TakeApply, TakeRegistration

\* What the user clicks keeps it.
LEMMA UserRegisters == ASSUME QwenInv, RegisterInv, User PROVE RegisterInv'
<1>n. generation \in Nat /\ posts \in Seq(Posts)
  BY DEF QwenInv, Numbers, RegisterInv
<1>p. Announced(posts) \in Seq(Posts) /\ Registrations(Announced(posts)) \subseteq Registrations(posts)
  BY <1>n, QueueAnnounced
<1>1. CASE CancelPreparation \/ Refresh \/ UserSession
  BY <1>1, RegisterRests DEF CancelPreparation, Refresh, UserSession, manager, threads, session
<1>2. CASE UserApplies
  <2>1. PICK a \in BOOLEAN : posts' = Append(posts, [kind |-> "apply", active |-> a])
    BY <1>2 DEF UserApplies
  <2> DEFINE c == [kind |-> "apply", active |-> a]
  <2>2. c \in Posts /\ c.kind # "register"
    BY DEF Posts
  <2> HIDE DEF c
  <2>3. posts' \in Seq(Posts) /\ Registrations(posts') \subseteq Registrations(posts)
    BY <1>n, <2>1, <2>2, QueueAppend DEF c
  <2>4. UNCHANGED <<closed, preparing, state, generation, desired, worker>>
    BY <1>2 DEF UserApplies, threads
  <2>5. FailsModel' /\ (NothingLoads => NothingLoads')
    BY <2>4 DEF RegisterInv, FailsModel, NothingLoads
  <2> QED BY <2>3, <2>4, <2>5, RegistersStay
<1>3. CASE Prepare
  <2>1. /\ generation' = generation + 1 /\ state'.gen = generation' /\ posts' = Announced(posts)
        /\ UNCHANGED <<closed, worker>>
    BY <1>3 DEF Prepare
  <2> QED BY <1>n, <1>p, <2>1, RegistersPass
<1>4. CASE Restart
  <2>0. UNCHANGED <<desired, closed, preparing, worker>> /\ ~closed /\ ~preparing /\ posts' = Announced(posts)
    BY <1>4 DEF Restart, Set, threads
  <2>1. CASE desired \in Models
    <3>1. generation' = generation + 1 /\ state'.gen = generation'
      BY <1>4, <2>1 DEF Restart
    <3> QED BY <1>n, <1>p, <2>0, <3>1, RegistersPass
  <2>2. CASE desired \notin Models
    <3>1. state'.phase = "unprepared" /\ state'.gen = generation /\ generation' = generation
      BY <1>4, <2>2 DEF Restart, Set
    <3>2. state.gen = generation
      BY <2>0 DEF RegisterInv, ShownIsPresent
    <3>3. FailsModel' /\ (NothingLoads => NothingLoads')
      BY <2>0, <2>2, <3>1 DEF RegisterInv, FailsModel, NothingLoads
    <3> QED BY <1>p, <2>0, <3>1, <3>2, <3>3, RegistersStay
  <2> QED BY <2>1, <2>2
<1>5. CASE Close
  <2>1. closed' = TRUE /\ posts' = << >> /\ worker' = worker
    BY <1>5 DEF Close, threads
  <2>2. << >> \in Seq(Posts) /\ Len(<< >>) = 0
    BY EmptySeq
  <2>3. Registrations(posts') = {} /\ posts' \in Seq(Posts)
    BY <2>1, <2>2 DEF Registrations, Entries
  <2>4. ShownIsPresent' /\ FailsModel'
    BY <2>1 DEF RegisterInv, ShownIsPresent, FailsModel
  <2> QED BY <2>3, <2>4 DEF RegisterInv, RegistersPrepared
<1> QED BY <1>1, <1>2, <1>3, <1>4, <1>5 DEF User

\* A preparation ends with a generation of its own, in which it is registered.
LEMMA SetupRegisters == ASSUME QwenInv, RegisterInv, Setup PROVE RegisterInv'
<1>s. UNCHANGED <<desired, closed, worker>> /\ generation \in Nat /\ posts \in Seq(Posts)
  BY DEF Setup, SetupWait, SetupWork, SetupFinish, SetupOnly, QwenInv, Numbers, RegisterInv
<1>p. Announced(posts) \in Seq(Posts) /\ Registrations(Announced(posts)) \subseteq Registrations(posts)
  BY <1>s, QueueAnnounced
<1>1. CASE SetupWait \/ SetupWork
  BY <1>1, <1>s, RegisterRests DEF SetupWait, SetupWork
<1>2. CASE SetupFinish /\ closed
  <2>1. UNCHANGED <<generation, state, posts>>
    BY <1>2 DEF SetupFinish
  <2> QED BY <1>s, <1>2, <2>1 DEF RegisterInv, ShownIsPresent, FailsModel, RegistersPrepared
<1>3. CASE SetupFinish /\ ~closed
  <2>1. generation' = generation + 1 /\ state'.gen = generation'
    BY <1>3 DEF SetupFinish, NextGeneration, Wanted
  <2>2. CASE posts' = Announced(posts)
    BY <1>p, <1>s, <2>1, <2>2, RegistersPass
  <2>3. CASE posts' = Append(Announced(posts), Registration) /\ Registers /\ setup.gen = generation
    <3>1. state'.phase = "prepared" /\ preparing' = FALSE
      <4>1. Outcome = "prepared"
        BY <2>3, QwenAssumption DEF Outcome, Registers
      <4> QED BY <1>3, <2>3, <4>1 DEF SetupFinish, EndPreparing
    <3>2. Registration \in Posts /\ Registration.gen = generation'
      <4>1. setup.result \in Models \cup {NoModel, NoEngine} /\ generation + 1 \in Nat
        BY <1>s, <2>3 DEF Registers
      <4> QED BY <2>1, <4>1 DEF Registration, Posts
    <3> HIDE DEF Registration
    <3>3. posts' \in Seq(Posts) /\ Registrations(posts') \subseteq Registrations(posts) \cup {Registration}
      BY <1>p, <2>3, <3>2, QueueAppend
    <3>4. worker'.observed # generation'
      BY <1>s, <2>1 DEF QwenInv, Numbers
    <3>5. NothingLoads'
      BY <3>1, <3>4 DEF NothingLoads
    <3>6. \A c \in Registrations(posts') : c.gen <= generation'
      <4>1. \A c \in Registrations(posts) : c.gen \in Nat /\ c.gen <= generation
        BY <1>s, RegistrationHasNumber DEF RegisterInv, RegistersPrepared
      <4>2. generation' <= generation' /\ \A c \in Registrations(posts) : c.gen <= generation'
        BY <1>s, <2>1, <4>1
      <4> QED BY <3>2, <3>3, <4>2
    <3>7. ShownIsPresent' /\ FailsModel'
      BY <1>s, <2>1 DEF RegisterInv, ShownIsPresent, FailsModel
    <3> QED BY <1>s, <1>3, <3>3, <3>5, <3>6, <3>7 DEF RegisterInv, RegistersPrepared
  <2> QED BY <1>3, <2>2, <2>3 DEF SetupFinish
<1> QED BY <1>1, <1>2, <1>3 DEF Setup

\* Every step of the manager keeps it.
LEMMA RegisterStep == ASSUME QwenInv, RegisterInv, Next PROVE RegisterInv'
<1>1. CASE Service \/ Speech
  <2>1. UNCHANGED <<posts, closed, preparing, state, generation, desired, worker>>
    BY <1>1 DEF Service, Speech, SpeechWaits, SpeechFails, SpeechStarts, SpeechGoes, manager, threads, session
  <2> QED BY <2>1, RegisterRests
<1> QED BY <1>1, WorkerRegisters, ControlRegisters, UserRegisters, SetupRegisters DEF Next

\* saved changes with a registration alone, of the generation that is shown.
LEMMA RegistersShown ==
  ASSUME RegisterInv, Next, saved' # saved
  PROVE  ~preparing /\ state.phase \in {"prepared", "unprepared"}
<1>1. TakeRegistration /\ Registered(Head(posts))
  BY DEF Next, User, Prepare, CancelPreparation, Refresh, Restart, Close, UserApplies, UserSession, Set,
    Worker, WorkerEnd, WorkerWake, WorkerClose, WorkerClosed, WorkerCheck, WorkerCurrent, WorkerClear,
    WorkerStart, WorkerLeave, WorkerSeesFailure, WorkerSeesWarming, WorkerSeesReady, WorkerAnnounce,
    WorkerTimeout, WorkerFail, WorkerRelease, WorkerOnly,
    Setup, SetupWait, SetupWork, SetupFinish, SetupOnly, Service, session,
    Control, TakeNews, TakeApply, TakeRegistration, ControlOnly,
    Speech, SpeechWaits, SpeechFails, SpeechStarts, SpeechGoes
<1>2. posts # << >> /\ Head(posts).kind = "register" /\ state.gen = Head(posts).gen
  BY <1>1 DEF TakeRegistration, Takes, Registered
<1>3. Head(posts) \in Registrations(posts)
  BY <1>2, QueueTail DEF RegisterInv, Registrations
<1>4. NothingLoads
  BY <1>2, <1>3 DEF RegisterInv, RegistersPrepared
<1> QED BY <1>4 DEF NothingLoads

-----------------------------------------------------------------------------
(***************************************************************************)
(* The parts side by side: one that does not run rests.                    *)
(***************************************************************************)
QwenPartsInv == QwenInv /\ RegisterInv /\ ServerInv /\ ProvisionInv
partVars == <<part, vars, others, audioVars, serviceVars>>

\* A step of the plugins is one of the component that runs; the others
\* rest.
LEMMA PartMoves ==
  ASSUME [PluginsNext]_partVars
  PROVE  /\ Next \/ UNCHANGED vars
         /\ Server!Next \/ UNCHANGED serviceVars
         /\ Provisioning!Next \/ UNCHANGED provisionVars
BY DEF PluginsNext, partVars, others

\* The invariants of the manager, of registration, of the service and of the preparation hold
\* in every state.
THEOREM QwenPartsInvariance == PluginsSpec => []QwenPartsInv
<1>1. PluginsInit => QwenPartsInv
  BY QwenInit, RegisterInit, ServerInit, ProvisionInit, PluginsAssumption DEF PluginsInit, QwenPartsInv
<1>2. QwenPartsInv /\ [PluginsNext]_partVars => QwenPartsInv'
  <2> SUFFICES ASSUME QwenPartsInv, [PluginsNext]_partVars PROVE QwenPartsInv'
    OBVIOUS
  <2>1. QwenInv' /\ RegisterInv'
    <3>1. CASE Next
      BY <3>1, QwenStep, RegisterStep DEF QwenPartsInv
    <3>2. CASE UNCHANGED vars
      BY <3>2, QwenRests, RegisterRests DEF QwenPartsInv, vars, manager, threads, session, core
    <3> QED BY <3>1, <3>2, PartMoves
  <2>2. ServerInv'
    BY PartMoves, ServerStep, ServerRests, PluginsAssumption DEF QwenPartsInv
  <2>3. ProvisionInv'
    BY PartMoves, ProvisionStep, ProvisionRests, PluginsAssumption DEF QwenPartsInv
  <2> QED BY <2>1, <2>2, <2>3 DEF QwenPartsInv
<1> QED BY <1>1, <1>2, PTL DEF PluginsSpec, partVars

\* The service and the preparation take turns, "ready" is shown only for the
\* model that is configured and served, one thread at a time uses the model
\* and an error comes with its message (ServiceIsShown, a property of the run
\* of MCPlugins), whatever models there are and however often things happen.
THEOREM ReadyIsTrue == PluginsSpec => []ServiceIsShown
<1>1. QwenPartsInv => ServiceIsShown
  BY QwenIsSafe, ServerIsSafe DEF QwenPartsInv, ServiceIsShown
<1> QED BY <1>1, QwenPartsInvariance, PTL

\* What a preparation leaves is whole, made from verified files and not at the
\* expense of the user's folder (ModelsAreWhole, a property of the run of
\* MCPlugins): for any number of versions, preparations and interruptions.
THEOREM ModelsStayWhole == PluginsSpec => []ModelsAreWhole
<1>1. QwenPartsInv => ModelsAreWhole
  BY ProvisionIsSafe DEF QwenPartsInv, ModelsAreWhole
<1> QED BY <1>1, QwenPartsInvariance, PTL

\* A model is registered only as what was prepared last: not once something
\* newer is prepared or loaded (RegistersWhatIsShown, a part of NewestStays).
THEOREM LastIsRegistered == PluginsSpec => RegistersWhatIsShown
<1> DEFINE Shown == saved' # saved => ~preparing /\ state.phase \in {"prepared", "unprepared"}
<1>1. QwenPartsInv /\ [PluginsNext]_partVars => [Shown]_vars
  BY PartMoves, RegistersShown DEF QwenPartsInv
<1>2. PluginsSpec => [][Shown]_vars
  BY <1>1, QwenPartsInvariance, PTL DEF PluginsSpec, partVars
<1> QED BY <1>2 DEF RegistersWhatIsShown

\* No preparation takes a usable converted model away (UsableStays of
\* Provision, a part of NewestStays): the one in hand is made beside it.
THEOREM UsableModelStays == PluginsSpec => Provisioning!UsableStays
<1> DEFINE Kept == \A i \in Provisioning!Identities : dest[i] = "marked" => dest'[i] \in {"marked", "damaged"}
<1>1. QwenPartsInv /\ [PluginsNext]_partVars => [Kept]_(Provisioning!vars)
  BY PartMoves, UsableStep DEF QwenPartsInv, provisionVars, Provisioning!vars, Provisioning!disk
<1>2. PluginsSpec => [][Kept]_(Provisioning!vars)
  BY <1>1, QwenPartsInvariance, PTL DEF PluginsSpec, partVars
<1> QED BY <1>2 DEF Provisioning!UsableStays

-----------------------------------------------------------------------------
(***************************************************************************)
(* What a plugin publishes and saves.  One thread publishes at a time, so  *)
(* that what it has tested is still so when it assigns; and who waits with *)
(* a save holds the lock of bind.                                          *)
(***************************************************************************)
Publishers == [at : {"rest", "test", "set"}, gen : Nat]
Savers == [at : {"rest", "enter", "wait", "post"}, save : Port!Saves]

PublishType ==
  /\ newest \in 0 .. MaxGen /\ kind \in Nat /\ kind <= newest
  /\ publisher \in [Threads -> Publishers]
  /\ \A t \in Threads : publisher[t].at # "rest" => publisher[t].gen \in 1 .. newest
OnePublishes == \A t, u \in Threads : publisher[t].at # "rest" /\ publisher[u].at # "rest" => t = u
TestHolds == \A t \in Threads : publisher[t].at = "set" => publisher[t].gen >= kind
NeverBack == kind = seen

SaveType ==
  /\ binding \in Threads \cup {"free"} /\ bound \in BOOLEAN /\ made \in 0 .. MaxSaves
  /\ saver \in [Threads -> Savers]
QueueType ==
  /\ pending \in Seq(Port!Saves) /\ flushing \in Seq(Port!Saves) /\ calls \in Seq(Port!Saves)
  /\ kept \in Seq(Port!Saves) /\ dropped \subseteq Port!Saves
WaitsLocked == \A t \in Threads : saver[t].at = "wait" => binding = t /\ bound = FALSE
BoundIsEmpty == bound = TRUE => pending = <<>>

PublishInv == PublishType /\ OnePublishes /\ TestHolds /\ NeverBack
SaveInv == SaveType /\ QueueType /\ WaitsLocked /\ BoundIsEmpty
PortInv == PublishInv /\ SaveInv

\* The greatest of two numbers is the greater one.
LEMMA MaxOfTwo == ASSUME NEW a \in Nat, NEW b \in Nat, a <= b PROVE Port!Max({a, b}) = b
BY DEF Port!Max

\* The invariant of the ports holds at the start.
LEMMA PortInit == ASSUME Port!StateAssumption, Port!Init PROVE PortInv
<1>1. PublishInv
  <2>1. publisher = [t \in Threads |-> [at |-> "rest", gen |-> 0]] /\ newest = 0 /\ kind = 0 /\ seen = 0
    BY DEF Port!Init, Port!Resting
  <2>2. PublishType
    BY <2>1 DEF PublishType, Publishers, Port!StateAssumption
  <2> QED BY <2>1, <2>2 DEF PublishInv, OnePublishes, TestHolds, NeverBack
<1>2. SaveInv
  <2>1. saver = [t \in Threads |-> [at |-> "rest", save |-> [n |-> 0, gen |-> 0]]] /\ made = 0 /\ bound = FALSE
        /\ binding = "free" /\ pending = << >> /\ flushing = << >> /\ calls = << >> /\ kept = << >> /\ dropped = {}
    BY DEF Port!Init, Port!NoSave
  <2>2. [n |-> 0, gen |-> 0] \in Port!Saves /\ made \in 0 .. MaxSaves
    BY <2>1 DEF Port!Saves, Port!StateAssumption
  <2>3. SaveType
    BY <2>1, <2>2 DEF SaveType, Savers
  <2>4. QueueType
    BY <2>1, EmptySeq DEF QueueType
  <2> QED BY <2>1, <2>3, <2>4 DEF SaveInv, WaitsLocked, BoundIsEmpty
<1> QED BY <1>1, <1>2 DEF PortInv

\* While another part runs, it stays.
LEMMA PortRests == ASSUME PortInv, UNCHANGED stateVars PROVE PortInv'
BY DEF stateVars, PortInv, PublishInv, PublishType, OnePublishes, TestHolds, NeverBack,
  SaveInv, SaveType, QueueType, WaitsLocked, BoundIsEmpty

\* publish_state: the test and the assignment of one thread.
LEMMA PublishKeeps ==
  ASSUME PublishInv, Port!StateAssumption, NEW t \in Threads, Port!Publisher(t)
  PROVE  PublishInv'
<1>a. /\ publisher \in [Threads -> Publishers] /\ newest \in 0 .. MaxGen /\ newest \in Nat /\ kind \in Nat
      /\ kind <= newest /\ MaxGen \in Nat /\ kind = seen
      /\ \A u \in Threads : publisher[u].at # "rest" => publisher[u].gen \in 1 .. newest
  BY DEF PublishInv, PublishType, NeverBack, Port!StateAssumption
<1>1. CASE Port!Publish(t) \/ Port!PublishLate(t)
  <2>1. PICK g \in 1 .. MaxGen :
          /\ g \in 1 .. newest' /\ newest' \in 0 .. MaxGen /\ newest <= newest'
          /\ publisher' = [publisher EXCEPT ![t] = [at |-> "test", gen |-> g]]
    <3>1. CASE Port!Publish(t)
      <4>1. PICK g \in {newest, newest + 1} :
              /\ g \in 1 .. MaxGen /\ newest' = g
              /\ publisher' = [publisher EXCEPT ![t] = [at |-> "test", gen |-> g]]
        BY <3>1 DEF Port!Publish
      <4>2. g \in 1 .. newest' /\ newest' \in 0 .. MaxGen /\ newest <= newest'
        BY <1>a, <4>1
      <4> QED BY <4>1, <4>2
    <3>2. CASE Port!PublishLate(t)
      <4>1. PICK g \in 1 .. newest :
              publisher' = [publisher EXCEPT ![t] = [at |-> "test", gen |-> g]] /\ newest' = newest
        BY <3>2 DEF Port!PublishLate
      <4>2. g \in 1 .. MaxGen /\ g \in 1 .. newest' /\ newest' \in 0 .. MaxGen /\ newest <= newest'
        BY <1>a, <4>1
      <4> QED BY <4>1, <4>2
    <3> QED BY <1>1, <3>1, <3>2
  <2>2. UNCHANGED <<kind, seen>> /\ \A u \in Threads : publisher[u].at = "rest"
    BY <1>1 DEF Port!Publish, Port!PublishLate, Port!Alone
  <2>3. [at |-> "test", gen |-> g] \in Publishers
    BY <2>1 DEF Publishers
  <2>4. publisher' \in [Threads -> Publishers] /\ publisher'[t] = [at |-> "test", gen |-> g]
        /\ \A u \in Threads \ {t} : publisher'[u].at = "rest"
    BY <1>a, <2>1, <2>2, <2>3
  <2>5. PublishType'
    BY <1>a, <2>1, <2>2, <2>4 DEF PublishType
  <2> QED BY <1>a, <2>2, <2>4, <2>5 DEF PublishInv, OnePublishes, TestHolds, NeverBack
<1>2. CASE Port!Test(t)
  <2> DEFINE r == [publisher[t] EXCEPT !.at = "set"]
             z == [at |-> "rest", gen |-> 0]
  <2>1. /\ UNCHANGED <<newest, kind, seen>> /\ publisher[t].at = "test"
        /\ \/ publisher[t].gen >= kind /\ publisher' = [publisher EXCEPT ![t] = r]
           \/ publisher' = [publisher EXCEPT ![t] = z]
    BY <1>2, <1>a DEF Port!Test, Port!NotOlder, Port!Resting
  <2>2. /\ r \in Publishers /\ z \in Publishers
        /\ r.at = "set" /\ r.gen = publisher[t].gen /\ z.at = "rest"
    BY <1>a DEF Publishers
  <2> HIDE DEF r, z
  <2>3. /\ publisher' \in [Threads -> Publishers] /\ \A u \in Threads \ {t} : publisher'[u] = publisher[u]
        /\ publisher'[t].at # "rest" => publisher'[t].gen = publisher[t].gen /\ publisher'[t].gen >= kind
    BY <1>a, <2>1, <2>2
  <2>4. PublishType'
    BY <1>a, <2>1, <2>3 DEF PublishType
  <2> QED BY <1>a, <2>1, <2>3, <2>4 DEF PublishInv, OnePublishes, TestHolds, NeverBack
<1>3. CASE Port!Assign(t)
  <2> DEFINE g == publisher[t].gen
  <2>1. /\ UNCHANGED newest /\ publisher[t].at = "set" /\ kind' = g /\ seen' = Port!Max({seen, g})
        /\ publisher' = [publisher EXCEPT ![t] = [at |-> "rest", gen |-> 0]]
    BY <1>3 DEF Port!Assign, Port!Resting
  <2>2. g \in 1 .. newest /\ g \in Nat /\ g >= kind /\ seen \in Nat /\ seen <= g
    BY <1>a, <2>1 DEF PublishInv, TestHolds, Publishers
  <2>3. seen' = g
    BY <2>1, <2>2, MaxOfTwo
  <2>4. /\ publisher' \in [Threads -> Publishers] /\ publisher'[t].at = "rest"
        /\ \A u \in Threads \ {t} : publisher'[u] = publisher[u] /\ publisher[u].at = "rest"
    BY <1>a, <2>1 DEF Publishers, PublishInv, OnePublishes
  <2>5. PublishType'
    BY <1>a, <2>1, <2>2, <2>4 DEF PublishType
  <2> QED BY <2>1, <2>3, <2>4, <2>5 DEF PublishInv, OnePublishes, TestHolds, NeverBack
<1> QED BY <1>1, <1>2, <1>3 DEF Port!Publisher

\* save_config and bind.
LEMMA SaveKeeps ==
  ASSUME PublishInv, SaveInv, Port!StateAssumption, NEW t \in Threads, Port!Save(t) \/ Port!Saver(t)
  PROVE  SaveInv'
<1>a. /\ binding \in Threads \cup {"free"} /\ bound \in BOOLEAN /\ made \in 0 .. MaxSaves
      /\ saver \in [Threads -> Savers] /\ QueueType /\ "free" \notin Threads
      /\ saver[t].save \in Port!Saves /\ MaxSaves \in Nat /\ MaxGen \in Nat
  BY DEF SaveInv, SaveType, Savers, Port!StateAssumption
<1>s. ASSUME NEW p \in {"rest", "enter", "wait", "post"}, saver' = [saver EXCEPT ![t].at = p]
      PROVE  /\ saver' \in [Threads -> Savers] /\ saver'[t].at = p
             /\ \A u \in Threads \ {t} : saver'[u] = saver[u]
  BY <1>a, <1>s DEF Savers
<1>1. CASE Port!Save(t)
  <2>1. PICK g \in 0 .. newest :
          saver' = [saver EXCEPT ![t] = [at |-> "enter", save |-> [n |-> made + 1, gen |-> g]]]
    BY <1>1 DEF Port!Save
  <2>2. made' = made + 1 /\ made < MaxSaves /\ UNCHANGED <<binding, bound, flushing, pending, calls, kept, dropped>>
    BY <1>1 DEF Port!Save
  <2>3. [n |-> made + 1, gen |-> g] \in Port!Saves
    BY <1>a, <2>2 DEF Port!Saves, PublishInv, PublishType
  <2>4. [at |-> "enter", save |-> [n |-> made + 1, gen |-> g]] \in Savers
    BY <2>3 DEF Savers
  <2>5. saver' \in [Threads -> Savers] /\ saver'[t].at = "enter" /\ \A u \in Threads \ {t} : saver'[u] = saver[u]
    BY <1>a, <2>1, <2>4
  <2>6. made' \in 0 .. MaxSaves
    BY <1>a, <2>2
  <2> QED BY <1>a, <2>2, <2>5, <2>6 DEF SaveInv, SaveType, QueueType, WaitsLocked, BoundIsEmpty
<1>2. CASE Port!SaveTest(t)
  <2>1. /\ binding = "free" /\ binding' = t /\ UNCHANGED <<bound, flushing, pending, calls, kept, dropped, made>>
        /\ \/ bound = TRUE /\ saver' = [saver EXCEPT ![t].at = "post"]
           \/ bound = FALSE /\ saver' = [saver EXCEPT ![t].at = "wait"]
    BY <1>2, <1>a DEF Port!SaveTest, Port!TakeLock, Port!SaverAt
  <2>2. /\ saver' \in [Threads -> Savers] /\ (saver'[t].at = "wait" => bound = FALSE)
        /\ \A u \in Threads \ {t} : saver'[u] = saver[u]
    BY <1>s, <2>1
  <2>3. \A u \in Threads : saver[u].at # "wait"
    BY <1>a, <2>1 DEF SaveInv, WaitsLocked
  <2> QED BY <1>a, <2>1, <2>2, <2>3 DEF SaveInv, SaveType, QueueType, WaitsLocked, BoundIsEmpty
<1>3. CASE Port!SaveWaits(t)
  <2>1. /\ saver[t].at = "wait" /\ pending' = Append(pending, saver[t].save) /\ binding' = "free"
        /\ saver' = [saver EXCEPT ![t].at = "rest"] /\ UNCHANGED <<bound, flushing, calls, kept, dropped, made>>
    BY <1>3 DEF Port!SaveWaits, Port!SaverAt
  <2>2. bound = FALSE /\ \A u \in Threads \ {t} : saver[u].at # "wait"
    BY <2>1 DEF SaveInv, WaitsLocked
  <2>3. pending' \in Seq(Port!Saves)
    BY <1>a, <2>1, AppendProperties DEF QueueType
  <2>4. QueueType'
    BY <1>a, <2>1, <2>3 DEF QueueType
  <2>5. saver' \in [Threads -> Savers] /\ \A u \in Threads : saver'[u].at # "wait"
    BY <1>s, <2>1, <2>2
  <2> QED BY <1>a, <2>1, <2>2, <2>4, <2>5 DEF SaveInv, SaveType, WaitsLocked, BoundIsEmpty
<1>4. CASE Port!SaveLeaves(t)
  <2>1. /\ saver[t].at = "post" /\ binding = t /\ binding' = "free"
        /\ UNCHANGED <<bound, flushing, pending, saver, calls, kept, dropped, made>>
    BY <1>4 DEF Port!SaveLeaves
  <2> QED BY <1>a, <2>1 DEF SaveInv, SaveType, QueueType, WaitsLocked, BoundIsEmpty
<1>5. CASE Port!SavePosts(t)
  <2>1. /\ calls' = Append(calls, saver[t].save) /\ saver' = [saver EXCEPT ![t].at = "rest"]
        /\ UNCHANGED <<binding, bound, flushing, pending, kept, dropped, made>>
    BY <1>5 DEF Port!SavePosts, Port!SaverAt
  <2>2. calls' \in Seq(Port!Saves)
    BY <1>a, <2>1, AppendProperties DEF QueueType
  <2>3. QueueType'
    BY <1>a, <2>1, <2>2 DEF QueueType
  <2>4. saver' \in [Threads -> Savers] /\ saver'[t].at = "rest" /\ \A u \in Threads \ {t} : saver'[u] = saver[u]
    BY <1>s, <2>1
  <2> QED BY <1>a, <2>1, <2>3, <2>4 DEF SaveInv, SaveType, WaitsLocked, BoundIsEmpty
<1> QED BY <1>1, <1>2, <1>3, <1>4, <1>5 DEF Port!Saver

\* What the host does with a save keeps the saves in order.
LEMMA HostKeeps == ASSUME SaveInv, Port!StateAssumption, Port!Host \/ Port!Apply PROVE SaveInv'
<1>a. QueueType /\ "free" \notin Threads
  BY DEF SaveInv, Port!StateAssumption
<1>1. CASE Port!Bind
  <2>1. /\ binding = "free" /\ bound' = TRUE /\ flushing' = pending /\ pending' = << >>
        /\ UNCHANGED <<binding, saver, calls, kept, dropped, made>>
    BY <1>1 DEF Port!Bind, Port!Waiting
  <2>2. \A u \in Threads : saver[u].at # "wait"
    BY <1>a, <2>1 DEF SaveInv, WaitsLocked
  <2>3. QueueType'
    BY <1>a, <2>1, EmptySeq DEF QueueType
  <2> QED BY <2>1, <2>2, <2>3 DEF SaveInv, SaveType, WaitsLocked, BoundIsEmpty
<1>2. CASE Port!Flush
  <2>1. /\ flushing # << >> /\ flushing' = Tail(flushing) /\ calls' = Append(calls, Head(flushing))
        /\ UNCHANGED <<binding, bound, pending, saver, kept, dropped, made>>
    BY <1>2 DEF Port!Flush
  <2>2. flushing' \in Seq(Port!Saves) /\ Head(flushing) \in Port!Saves
    BY <1>a, <2>1, HeadTailProperties DEF QueueType
  <2>3. calls' \in Seq(Port!Saves)
    BY <1>a, <2>1, <2>2, AppendProperties DEF QueueType
  <2>4. QueueType'
    BY <1>a, <2>1, <2>2, <2>3 DEF QueueType
  <2> QED BY <2>1, <2>4 DEF SaveInv, SaveType, WaitsLocked, BoundIsEmpty
<1>3. CASE Port!Apply
  <2>1. /\ calls # << >> /\ calls' = Tail(calls)
        /\ kept' = Append(kept, Head(calls)) \/ kept' = kept
        /\ dropped' = dropped \/ dropped' = dropped \cup {Head(calls)}
        /\ UNCHANGED <<binding, bound, flushing, pending, saver, made>>
    BY <1>3 DEF Port!Apply
  <2>2. calls' \in Seq(Port!Saves) /\ Head(calls) \in Port!Saves
    BY <1>a, <2>1, HeadTailProperties DEF QueueType
  <2> DEFINE s == Head(calls)
  <2>3. Append(kept, s) \in Seq(Port!Saves) /\ dropped' \subseteq Port!Saves
    <3>1. s \in Port!Saves /\ kept \in Seq(Port!Saves) /\ dropped \subseteq Port!Saves
      BY <1>a, <2>2 DEF QueueType
    <3>2. dropped' = dropped \/ dropped' = dropped \cup {s}
      BY <2>1
    <3> HIDE DEF s
    <3> QED BY <3>1, <3>2, AppendProperties
  <2>4. QueueType'
    BY <1>a, <2>1, <2>2, <2>3 DEF QueueType
  <2> QED BY <2>1, <2>4 DEF SaveInv, SaveType, WaitsLocked, BoundIsEmpty
<1> QED BY <1>1, <1>2, <1>3 DEF Port!Host

\* Every step of the ports keeps their invariant.
LEMMA PortStep == ASSUME PortInv, Port!StateAssumption, Port!Next PROVE PortInv'
<1>1. CASE \E t \in Threads : Port!Publisher(t)
  <2>1. PublishInv'
    BY <1>1, PublishKeeps DEF PortInv
  <2>2. UNCHANGED <<binding, bound, flushing, pending, saver, calls, kept, dropped, made>>
    BY <1>1 DEF Port!Publisher, Port!Publish, Port!PublishLate, Port!Test, Port!Assign, Port!Saving
  <2> QED BY <2>1, <2>2 DEF PortInv, SaveInv, SaveType, QueueType, WaitsLocked, BoundIsEmpty
<1>2. CASE (\E t \in Threads : Port!Save(t) \/ Port!Saver(t)) \/ Port!Host \/ Port!Apply
  <2>1. SaveInv'
    BY <1>2, SaveKeeps, HostKeeps DEF PortInv
  <2>2. UNCHANGED <<newest, kind, seen, publisher>>
    BY <1>2 DEF Port!Save, Port!Saver, Port!SaveTest, Port!SaveWaits, Port!SaveLeaves, Port!SavePosts,
      Port!Host, Port!Bind, Port!Flush, Port!Apply, Port!Publishing
  <2> QED BY <2>1, <2>2 DEF PortInv, PublishInv, PublishType, OnePublishes, TestHolds, NeverBack
<1> QED BY <1>1, <1>2 DEF Port!Next

\* The properties follow from the invariant of the ports.
LEMMA PortIsSafe == ASSUME PortInv PROVE Port!StateMovesOn /\ Port!NothingWaits
BY DEF PortInv, PublishInv, NeverBack, SaveInv, SaveType, BoundIsEmpty, Port!StateMovesOn, Port!NothingWaits

-----------------------------------------------------------------------------
(***************************************************************************)
(* Requests to one external engine.  A call that fails closes the engine   *)
(* before it raises, and an engine is made but once: so that a closed one  *)
(* has no process, and whoever saw a failure sees it closed.               *)
(***************************************************************************)
CallStates == [pc : {"rest", "lock", "send", "wait", "fail", "leave", "raise", "done", "failed", "end"},
               method : {"none", "register", "synthesize", "close"}, id : Nat, got : Nat, bad : BOOLEAN]

RpcType ==
  /\ engine \in {"new", "registering", "failed", "made"} /\ ended \in BOOLEAN
  /\ asks \in Nat /\ caller \in [Threads -> CallStates]
NotYetMade == engine = "new" => ended = FALSE /\ \A t \in Threads : caller[t].pc = "rest"
ClosedIsGone == ended = TRUE => child = "gone"
FailureCloses == /\ engine = "failed" => ended = TRUE
                 /\ \A t \in Threads : caller[t].pc \in {"raise", "failed"} \/ caller[t].bad = TRUE => ended = TRUE
\* An answer is looked for after the request is named, and kept no longer.
GotIsOwn == \A t \in Threads :
  caller[t].got \in {0, caller[t].id} /\ (caller[t].pc \in {"lock", "send"} => caller[t].got = 0)
RpcInv == RpcType /\ NotYetMade /\ ClosedIsGone /\ FailureCloses /\ GotIsOwn

\* A thread at rest, and one that begins a call, are states of a call.
LEMMA QuietIsACall ==
  /\ Rpc!Quiet \in CallStates
  /\ \A m \in {"register", "synthesize", "close"} :
       LET c == [Rpc!Quiet EXCEPT !.pc = "lock", !.method = m]
       IN  c \in CallStates /\ c.pc = "lock" /\ c.bad = FALSE /\ c.got = 0
<1>1. Rpc!Quiet \in CallStates
  BY DEF Rpc!Quiet, CallStates
<1>2. ASSUME NEW m \in {"register", "synthesize", "close"}
      PROVE  LET c == [Rpc!Quiet EXCEPT !.pc = "lock", !.method = m]
             IN  c \in CallStates /\ c.pc = "lock" /\ c.bad = FALSE /\ c.got = 0
  <2> DEFINE q == [Rpc!Quiet EXCEPT !.pc = "lock"]
  <2>1. q \in CallStates /\ q.pc = "lock" /\ q.bad = FALSE /\ q.got = 0
    BY DEF Rpc!Quiet, CallStates
  <2> HIDE DEF q
  <2>2. LET c == [q EXCEPT !.method = m] IN c \in CallStates /\ c.pc = "lock" /\ c.bad = FALSE /\ c.got = 0
    BY <2>1 DEF CallStates
  <2> QED BY <2>2 DEF q
<1> QED BY <1>1, <1>2

\* The invariant of the calls holds at the start.
LEMMA RpcInit == ASSUME Rpc!Init PROVE RpcInv
<1>1. /\ engine = "new" /\ ended = FALSE /\ asks = 0 /\ caller = [t \in Threads |-> Rpc!Quiet]
  BY DEF Rpc!Init
<1>2. RpcType
  BY <1>1, QuietIsACall DEF RpcType
<1>3. \A t \in Threads : caller[t].pc = "rest" /\ caller[t].got = 0 /\ caller[t].bad = FALSE
  BY <1>1 DEF Rpc!Quiet
<1> QED BY <1>1, <1>2, <1>3 DEF RpcInv, NotYetMade, ClosedIsGone, FailureCloses, GotIsOwn

\* While another part runs, it stays.
LEMMA RpcRests == ASSUME RpcInv, UNCHANGED rpcVars PROVE RpcInv'
BY DEF rpcVars, RpcInv, RpcType, NotYetMade, ClosedIsGone, FailureCloses, GotIsOwn

\* What a step of one thread has to show, in terms of its new record.
LEMMA CallerMoves ==
  ASSUME RpcInv, NEW t \in Threads, NEW c \in CallStates, caller' = [caller EXCEPT ![t] = c],
         engine' \in {"new", "registering", "failed", "made"}, ended' \in BOOLEAN, asks' \in Nat,
         engine' # "new", ended = TRUE => ended' = TRUE, ended' = TRUE => child' = "gone",
         engine' = "failed" => ended' = TRUE,
         c.pc \in {"raise", "failed"} \/ c.bad = TRUE => ended' = TRUE,
         c.got \in {0, c.id}, c.pc \in {"lock", "send"} => c.got = 0
  PROVE  RpcInv'
<1>1. /\ caller' \in [Threads -> CallStates] /\ caller'[t] = c
      /\ \A u \in Threads \ {t} : caller'[u] = caller[u]
  BY DEF RpcInv, RpcType
<1>2. RpcType'
  BY <1>1 DEF RpcType
<1>3. FailureCloses'
  BY <1>1 DEF RpcInv, FailureCloses
<1>4. GotIsOwn'
  BY <1>1 DEF RpcInv, GotIsOwn
<1> QED BY <1>2, <1>3, <1>4 DEF RpcInv, NotYetMade, ClosedIsGone

\* Every step of a call and of the process keeps it.
LEMMA RpcStep == ASSUME RpcInv, Rpc!Next PROVE RpcInv'
<1>a. /\ engine \in {"new", "registering", "failed", "made"} /\ ended \in BOOLEAN /\ asks \in Nat
      /\ caller \in [Threads -> CallStates]
  BY DEF RpcInv, RpcType
<1>1. ASSUME NEW t \in Threads, Rpc!Create(t) \/ Rpc!Request(t) \/ Rpc!CloseRpc(t) PROVE RpcInv'
  <2>1. PICK m \in {"register", "synthesize", "close"} :
          caller' = [caller EXCEPT ![t] = [Rpc!Quiet EXCEPT !.pc = "lock", !.method = m]]
    BY <1>1 DEF Rpc!Create, Rpc!Request, Rpc!CloseRpc
  <2> DEFINE c == [Rpc!Quiet EXCEPT !.pc = "lock", !.method = m]
  <2>2. caller' = [caller EXCEPT ![t] = c]
    BY <2>1
  <2>3. c \in CallStates /\ c.pc = "lock" /\ c.bad = FALSE /\ c.got = 0
    BY QuietIsACall
  <2>4. /\ ended' = ended /\ asks' = asks
        /\ \/ engine = "new" /\ engine' = "registering"
           \/ engine = "made" /\ engine' = "made" /\ child' = child
    BY <1>1 DEF Rpc!Create, Rpc!Request, Rpc!CloseRpc, Rpc!Pipe
  <2>5. ended' = TRUE => child' = "gone"
    BY <2>4 DEF RpcInv, NotYetMade, ClosedIsGone
  <2>6. engine' \in {"registering", "made"}
    BY <2>4
  <2> HIDE DEF c
  <2> QED BY <1>a, <2>2, <2>3, <2>4, <2>5, <2>6, CallerMoves
<1>2. ASSUME NEW t \in Threads, Rpc!Call(t) PROVE RpcInv'
  <2>a. caller[t] \in CallStates /\ caller[t].pc # "rest" /\ engine # "new"
    BY <1>a, <1>2 DEF Rpc!Call, Rpc!Enter, Rpc!Send, Rpc!Receive, Rpc!Fail, Rpc!FailReclaims, Rpc!Leave,
      Rpc!Return, Rpc!CloseEnds, Rpc!At, RpcInv, NotYetMade
  <2>b. /\ engine = "failed" => ended = TRUE
        /\ caller[t].pc \in {"raise", "failed"} \/ caller[t].bad = TRUE => ended = TRUE
        /\ caller[t].got \in {0, caller[t].id} /\ (caller[t].pc \in {"lock", "send"} => caller[t].got = 0)
        /\ ended = TRUE => child = "gone"
    BY DEF RpcInv, FailureCloses, GotIsOwn, ClosedIsGone
  <2> DEFINE d == caller[t]
  <2>p. ASSUME NEW p \in {"lock", "send", "wait", "fail", "leave", "raise", "done", "failed", "end"},
               caller' = [caller EXCEPT ![t] = [d EXCEPT !.pc = p]],
               engine' = engine, asks' = asks, ended' \in BOOLEAN,
               ended = TRUE => ended' = TRUE, ended' = TRUE => child' = "gone",
               p \in {"raise", "failed"} => ended' = TRUE, p = "send" => d.pc = "lock", p # "lock"
        PROVE  RpcInv'
    <3> DEFINE c == [d EXCEPT !.pc = p]
    <3>1. c \in CallStates /\ c.pc = p /\ c.got = d.got /\ c.id = d.id /\ c.bad = d.bad
      BY <2>a DEF CallStates
    <3>2. c.got \in {0, c.id} /\ (c.pc \in {"lock", "send"} => c.got = 0)
      BY <2>b, <2>p, <3>1
    <3>3. c.pc \in {"raise", "failed"} \/ c.bad = TRUE => ended' = TRUE
      BY <2>b, <2>p, <3>1
    <3>4. caller' = [caller EXCEPT ![t] = c]
      BY <2>p
    <3> HIDE DEF c
    <3> QED BY <1>a, <2>a, <2>b, <2>p, <3>1, <3>2, <3>3, <3>4, CallerMoves
  <2>1. CASE Rpc!Enter(t)
    <3>1. /\ engine' = engine /\ asks' = asks /\ ended' = ended /\ child' = child /\ d.pc = "lock"
          /\ \/ ended = TRUE /\ caller' = [caller EXCEPT ![t] = [d EXCEPT !.pc = "raise"]]
             \/ ended = FALSE /\ caller' = [caller EXCEPT ![t] = [d EXCEPT !.pc = "send"]]
      BY <2>1, <1>a DEF Rpc!Enter, Rpc!Pipe, Rpc!At
    <3>2. CASE ended = TRUE /\ caller' = [caller EXCEPT ![t] = [d EXCEPT !.pc = "raise"]]
      BY <1>a, <2>b, <2>p, <3>1, <3>2
    <3>3. CASE ended = FALSE /\ caller' = [caller EXCEPT ![t] = [d EXCEPT !.pc = "send"]]
      BY <1>a, <2>b, <2>p, <3>1, <3>3
    <3> QED BY <3>1, <3>2, <3>3
  <2>2. CASE Rpc!Send(t)
    <3> DEFINE c == [d EXCEPT !.pc = "wait", !.id = asks + 1]
    <3>1. /\ engine' = engine /\ asks' = asks + 1 /\ ended' = ended /\ child' = child /\ d.pc = "send"
          /\ caller' = [caller EXCEPT ![t] = c]
      BY <2>2, <1>a DEF Rpc!Send, Rpc!At
    <3>2. asks' \in Nat
      BY <1>a, <3>1
    <3>3. c \in CallStates /\ c.pc = "wait" /\ c.got = d.got /\ c.bad = d.bad
      <4> DEFINE n == asks + 1
      <4>1. n \in Nat
        BY <1>a
      <4> DEFINE q == [d EXCEPT !.pc = "wait"]
      <4> HIDE DEF n
      <4>2. q \in CallStates /\ q.pc = "wait" /\ q.got = d.got /\ q.bad = d.bad
        BY <2>a DEF CallStates
      <4> HIDE DEF q
      <4>3. LET e == [q EXCEPT !.id = n] IN e \in CallStates /\ e.pc = "wait" /\ e.got = q.got /\ e.bad = q.bad
        BY <4>1, <4>2 DEF CallStates
      <4> QED BY <4>2, <4>3 DEF q, n
    <3>4. c.got = 0
      BY <2>b, <3>1, <3>3
    <3> HIDE DEF c
    <3> QED BY <1>a, <2>a, <2>b, <3>1, <3>2, <3>3, <3>4, CallerMoves
  <2>3. CASE Rpc!Receive(t)
    <3> DEFINE r == Head(replies)
               c == [d EXCEPT !.pc = "leave", !.got = r.id]
    <3>1. /\ engine' = engine /\ asks' = asks /\ ended' = ended /\ child' = child
          /\ caller' = [caller EXCEPT ![t] = c] /\ r.id = d.id
      BY <2>3, <1>a DEF Rpc!Receive, Rpc!Fits
    <3>2. c \in CallStates /\ c.pc = "leave" /\ c.got = r.id /\ c.id = d.id /\ c.bad = d.bad
      BY <2>a, <3>1 DEF CallStates
    <3> HIDE DEF c
    <3> QED BY <1>a, <2>a, <2>b, <3>1, <3>2, CallerMoves
  <2>4. CASE Rpc!Fail(t)
    <3>1. /\ engine' = engine /\ asks' = asks /\ ended' = ended /\ child' = child
          /\ caller' = [caller EXCEPT ![t] = [d EXCEPT !.pc = "fail"]]
      BY <2>4, <1>a DEF Rpc!Fail, Rpc!Goes, Rpc!Pipe
    <3> QED BY <1>a, <2>b, <2>p, <3>1
  <2>5. CASE Rpc!FailReclaims(t)
    <3>1. /\ engine' = engine /\ asks' = asks /\ ended' = TRUE /\ child' = "gone"
          /\ caller' = [caller EXCEPT ![t] = [d EXCEPT !.pc = "raise"]]
      BY <2>5, <1>a DEF Rpc!FailReclaims, Rpc!Reclaim, Rpc!Kill, Rpc!Goes
    <3> QED BY <2>p, <3>1
  <2>6. CASE Rpc!Leave(t)
    <3>1. PICK p \in {"end", "done", "failed"} :
            /\ caller' = [caller EXCEPT ![t] = [d EXCEPT !.pc = p]] /\ (p = "failed" => d.pc = "raise")
      BY <2>6, <1>a DEF Rpc!Leave, Rpc!At
    <3>2. engine' = engine /\ asks' = asks /\ ended' = ended /\ child' = child
      BY <2>6 DEF Rpc!Leave, Rpc!Pipe
    <3>3. p = "failed" => ended' = TRUE
      BY <2>b, <3>1, <3>2
    <3> QED BY <1>a, <2>b, <2>p, <3>1, <3>2, <3>3
  <2>7. CASE Rpc!Return(t)
    <3> DEFINE b == Rpc!At(t, "failed")
               c == [Rpc!Quiet EXCEPT !.bad = b]
    <3>1. /\ asks' = asks /\ ended' = ended /\ child' = child /\ d.pc \in {"done", "failed"}
          /\ engine' \in {engine, "made", "failed"} /\ (engine' = "failed" => engine = "failed" \/ d.pc = "failed")
      BY <2>7 DEF Rpc!Return, Rpc!Pipe, Rpc!At
    <3>2. caller' = [caller EXCEPT ![t] = c]
      BY <2>7 DEF Rpc!Return
    <3>3. c \in CallStates /\ c.pc = "rest" /\ c.got = 0 /\ (c.bad = TRUE => d.pc = "failed")
      <4>1. b \in BOOLEAN /\ (b = TRUE => d.pc = "failed")
        BY DEF Rpc!At
      <4> HIDE DEF b
      <4>2. c = [pc |-> "rest", method |-> "none", id |-> 0, got |-> 0, bad |-> b]
        BY DEF Rpc!Quiet
      <4> QED BY <4>1, <4>2 DEF CallStates
    <3> HIDE DEF c
    <3>4. engine' \in {"new", "registering", "failed", "made"} /\ engine' # "new"
      BY <1>a, <2>a, <3>1
    <3>5. (engine' = "failed" => ended' = TRUE) /\ (c.bad = TRUE => ended' = TRUE)
      BY <2>b, <3>1, <3>3
    <3> QED BY <1>a, <2>b, <3>1, <3>2, <3>3, <3>4, <3>5, CallerMoves
  <2>8. CASE Rpc!CloseEnds(t)
    <3>1. /\ engine' = engine /\ asks' = asks /\ ended' = TRUE /\ child' = "gone"
          /\ caller' = [caller EXCEPT ![t] = Rpc!Quiet]
      BY <2>8 DEF Rpc!CloseEnds, Rpc!Finally, Rpc!Kill
    <3>2. Rpc!Quiet.pc = "rest" /\ Rpc!Quiet.got = 0
      BY DEF Rpc!Quiet
    <3> QED BY <1>a, <2>a, <3>1, <3>2, QuietIsACall, CallerMoves
  <2> QED BY <1>2, <2>1, <2>2, <2>3, <2>4, <2>5, <2>6, <2>7, <2>8 DEF Rpc!Call
<1>3. CASE Rpc!Answer \/ Rpc!Die
  <2>1. /\ UNCHANGED <<engine, ended, caller, asks>> /\ (child' = child \/ child' = "gone")
    BY <1>3 DEF Rpc!Answer, Rpc!Die
  <2> QED BY <2>1 DEF RpcInv, RpcType, NotYetMade, ClosedIsGone, FailureCloses, GotIsOwn
<1> QED BY <1>1, <1>2, <1>3 DEF Rpc!Next

\* The properties follow from the invariant of the calls.
LEMMA RpcIsSafe == ASSUME RpcInv PROVE Rpc!OwnAnswer /\ Rpc!NoOrphan /\ Rpc!FailedIsClosed
BY DEF RpcInv, RpcType, CallStates, ClosedIsGone, FailureCloses, GotIsOwn,
  Rpc!OwnAnswer, Rpc!NoOrphan, Rpc!FailedIsClosed

-----------------------------------------------------------------------------
(***************************************************************************)
(* A channel whose entries differ: what is put in and taken out.           *)
(***************************************************************************)
Distinct(s) == \A i, j \in 1 .. Len(s) : s[i] = s[j] => i = j

\* What is taken off a queue without repetition is no longer in it.
LEMMA TakeOut ==
  ASSUME NEW S, NEW s \in Seq(S), s # << >>, Distinct(s)
  PROVE  /\ Head(s) \in S /\ Tail(s) \in Seq(S) /\ Distinct(Tail(s))
         /\ Head(s) \in Entries(s) /\ Entries(Tail(s)) = Entries(s) \ {Head(s)}
<1> DEFINE n == Len(s)
           t == Tail(s)
<1>1. n \in Nat \ {0} /\ Head(s) \in S /\ t \in Seq(S) /\ Len(t) = n - 1
      /\ \A i \in 1 .. Len(t) : t[i] = s[i + 1]
  BY EmptySeq, HeadTailProperties
<1>2. Head(s) = s[1]
  OBVIOUS
<1>3. \A i, j \in 1 .. n : s[i] = s[j] => i = j
  BY DEF Distinct
<1> HIDE DEF n, t
<1>4. \A i \in 1 .. n - 1 : i + 1 \in 1 .. n /\ t[i] = s[i + 1] /\ i + 1 # 1
  BY <1>1
<1>5. \A i, j \in 1 .. n - 1 : t[i] = t[j] => i = j
  <2>1. SUFFICES ASSUME NEW i \in 1 .. n - 1, NEW j \in 1 .. n - 1, t[i] = t[j] PROVE i = j
    OBVIOUS
  <2>2. i + 1 = j + 1
    BY <1>3, <1>4, <2>1
  <2> QED BY <1>1, <2>2
<1>6. 1 \in 1 .. n
  BY <1>1
<1>7. {t[i] : i \in 1 .. n - 1} \subseteq {s[i] : i \in 1 .. n} \ {s[1]}
  BY <1>3, <1>4, <1>6
<1>8. {s[i] : i \in 1 .. n} \ {s[1]} \subseteq {t[i] : i \in 1 .. n - 1}
  <2>1. SUFFICES ASSUME NEW j \in 1 .. n, j # 1 PROVE s[j] \in {t[i] : i \in 1 .. n - 1}
    OBVIOUS
  <2> DEFINE i == j - 1
  <2>2. i \in 1 .. n - 1 /\ j = i + 1
    BY <1>1, <2>1
  <2> HIDE DEF i
  <2>3. s[j] = t[i]
    BY <1>4, <2>2
  <2> QED BY <2>2, <2>3
<1>9. s[1] \in {s[i] : i \in 1 .. n}
  BY <1>6
<1> QED BY <1>1, <1>2, <1>5, <1>7, <1>8, <1>9 DEF Entries, Distinct, n, t

\* What is put in a queue that does not hold it is in it once.
LEMMA PutIn ==
  ASSUME NEW S, NEW s \in Seq(S), NEW e \in S, Distinct(s), e \notin Entries(s)
  PROVE  /\ Append(s, e) \in Seq(S) /\ Distinct(Append(s, e))
         /\ Entries(Append(s, e)) = Entries(s) \cup {e}
<1> DEFINE n == Len(s)
           t == Append(s, e)
<1>1. n \in Nat /\ t \in Seq(S) /\ Len(t) = n + 1 /\ t[n + 1] = e /\ \A i \in 1 .. n : t[i] = s[i]
  BY AppendProperties, LenProperties
<1>2. \A i, j \in 1 .. n : s[i] = s[j] => i = j
  BY DEF Distinct
<1>3. \A i \in 1 .. n : s[i] # e
  BY DEF Entries
<1> HIDE DEF n, t
<1> DEFINE m == n + 1
<1>4. m \in 1 .. m /\ 1 .. m = (1 .. n) \cup {m} /\ m \notin 1 .. n
  BY <1>1
<1> HIDE DEF m
<1>5. t[m] = e
  BY <1>1 DEF m
<1>6. \A i, j \in 1 .. m : t[i] = t[j] => i = j
  BY <1>1, <1>2, <1>3, <1>4, <1>5
<1>7. {t[i] : i \in 1 .. m} = {s[i] : i \in 1 .. n} \cup {e}
  BY <1>1, <1>4, <1>5
<1> QED BY <1>1, <1>6, <1>7 DEF Entries, Distinct, n, t, m

-----------------------------------------------------------------------------
(***************************************************************************)
(* The audio output.  A request is in one place at a time: with its caller *)
(* who has still to send it, on its way in the channel or in the worker's  *)
(* hand, or among the sounds; and the requests whose callers still wait    *)
(* are exactly those on the way and those sounds that are waited for.      *)
(***************************************************************************)
Sounds == [id : Nat, kind : {"speech", "effect", "overlap", "close"}]
Voices == [pc : {"rest", "clone", "send", "wait"}, request : Sounds, reply : {"none", "ok", "error"}]

AtHand == IF player \in {"open", "play"} THEN {hand} ELSE {}
OnWay == (Entries(pipe) \ {Audio!Close}) \cup AtHand
StillWaits(t) == voice[t].pc = "wait" /\ voice[t].reply = "none"
WaitedFor == {voice[t].request : t \in {u \in Players : StillWaits(u)}}

PlaceType ==
  /\ player \in {"receive", "open", "play", "check", "fail", "sweep", "stop", "drop", "ended"}
  /\ pipe \in Seq(Sounds) /\ hand \in Sounds /\ sounding \subseteq Sounds
VoiceType == plays \in Nat /\ voice \in [Players -> Voices]

\* Requests are numbered in their order, and no two callers have the same one.
Numbered == \A t \in Players : voice[t].pc # "rest" =>
  voice[t].request.id \in 1 .. plays /\ voice[t].request.kind \in Audio!Kinds
OwnRequest == \A t, u \in Players :
  voice[t].pc # "rest" /\ voice[u].pc # "rest" /\ voice[t].request = voice[u].request => t = u
NotSent == \A t \in Players : voice[t].pc \in {"clone", "send"} =>
  voice[t].reply = "none" /\ voice[t].request \notin OnWay \cup sounding

KnownIds == \A r \in OnWay \cup sounding : r.id \in 1 .. plays
OnePlace ==
  /\ Distinct(pipe) /\ AtHand \cap Entries(pipe) = {}
  /\ OnWay \cap sounding = {}
Accounted == WaitedFor = OnWay \cup Audio!Waited

\* The worker ends on Close alone, which is sent but once; and it closes the
\* device when nothing sounds.
Closing ==
  /\ Audio!Close \in Entries(pipe) \/ player \in {"stop", "drop", "ended"} => ending \in {"join", "done"}
  /\ ending = "done" => player = "ended"
DeviceOpen ==
  /\ sounding # {} \/ player = "play" => device = TRUE
  /\ player \in {"drop", "ended"} => sounding = {}
  /\ player = "ended" => device = FALSE /\ pipe = << >>

VoiceInv == VoiceType /\ Numbered /\ OwnRequest /\ Audio!HeardWhole
PlaceInv == PlaceType /\ KnownIds /\ OnePlace /\ Accounted /\ NotSent
WorkerInv == Closing /\ DeviceOpen
AudioInv == VoiceInv /\ PlaceInv /\ WorkerInv

\* The invariant of the audio output holds at the start.
LEMMA AudioInit == ASSUME Audio!PlayerAssumption, Audio!Init PROVE AudioInv
<1>1. /\ pipe = << >> /\ ending = "rest" /\ player = "receive" /\ hand = Audio!Close /\ sounding = {}
      /\ device = FALSE /\ plays = 0 /\ voice = [t \in Players |-> Audio!Resting]
  BY DEF Audio!Init
<1>2. Audio!Close \in Sounds /\ Audio!Resting \in Voices /\ Audio!Resting.pc = "rest" /\ Audio!Resting.reply = "none"
  BY DEF Audio!Close, Audio!Resting, Sounds, Voices
<1>3. \A t \in Players : voice[t].pc = "rest" /\ voice[t].reply = "none"
  BY <1>1, <1>2
<1>4. Len(pipe) = 0 /\ pipe \in Seq(Sounds)
  BY <1>1, EmptySeq
<1>5. Entries(pipe) = {} /\ Distinct(pipe)
  BY <1>4 DEF Entries, Distinct
<1>6. AtHand = {} /\ OnWay = {} /\ WaitedFor = {} /\ Audio!Waited = {}
  BY <1>1, <1>3, <1>5 DEF AtHand, OnWay, WaitedFor, StillWaits, Audio!Waited
<1>7. VoiceInv
  BY <1>1, <1>2, <1>3 DEF VoiceInv, VoiceType, Numbered, OwnRequest, Audio!HeardWhole
<1>8. PlaceInv
  BY <1>1, <1>2, <1>3, <1>4, <1>5, <1>6 DEF PlaceInv, PlaceType, KnownIds, OnePlace, Accounted, NotSent
<1>9. WorkerInv
  BY <1>1, <1>5 DEF WorkerInv, Closing, DeviceOpen
<1> QED BY <1>7, <1>8, <1>9 DEF AudioInv

\* While another part runs, it stays.
LEMMA AudioRests == ASSUME AudioInv, UNCHANGED audioVars PROVE AudioInv'
<1>1. /\ UNCHANGED <<pipe, player, hand, sounding, device, ending, voice, plays, heard>>
  BY DEF audioVars
<1>2. UNCHANGED <<AtHand, OnWay, WaitedFor, Audio!Waited>> /\ Entries(pipe)' = Entries(pipe)
  BY <1>1 DEF AtHand, OnWay, WaitedFor, StillWaits, Audio!Waited, Entries
<1>3. VoiceInv'
  BY <1>1 DEF AudioInv, VoiceInv, VoiceType, Numbered, OwnRequest, Audio!HeardWhole
<1>4. PlaceInv'
  BY <1>1, <1>2 DEF AudioInv, PlaceInv, PlaceType, KnownIds, OnePlace, Distinct, Accounted, NotSent
<1>5. WorkerInv'
  BY <1>1, <1>2 DEF AudioInv, WorkerInv, Closing, DeviceOpen
<1> QED BY <1>3, <1>4, <1>5 DEF AudioInv

\* The properties follow from the invariant of the audio output.
LEMMA AudioIsSafe ==
  ASSUME AudioInv
  PROVE  Audio!HeardWhole /\ Audio!ReturnedIsSilent /\ Audio!DeviceUnderSound /\ Audio!SilentAtEnd
<1>1. Audio!HeardWhole
  BY DEF AudioInv, VoiceInv
<1>2. Audio!ReturnedIsSilent
  <2>1. Audio!Waited \subseteq WaitedFor
    BY DEF AudioInv, PlaceInv, Accounted
  <2> QED BY <2>1 DEF WaitedFor, StillWaits, Audio!ReturnedIsSilent
<1>3. Audio!DeviceUnderSound
  BY DEF AudioInv, WorkerInv, DeviceOpen, Audio!DeviceUnderSound
<1>4. Audio!SilentAtEnd
  <2>1. SUFFICES ASSUME ending = "done"
                 PROVE  /\ sounding = {} /\ device = FALSE /\ pipe = << >>
                        /\ \A t \in Players : voice[t].pc = "wait" => voice[t].reply # "none"
    BY DEF Audio!SilentAtEnd
  <2>2. player = "ended" /\ sounding = {} /\ device = FALSE /\ pipe = << >>
    BY <2>1 DEF AudioInv, WorkerInv, Closing, DeviceOpen
  <2>3. Len(pipe) = 0
    BY <2>2, EmptySeq
  <2>4. WaitedFor = {}
    BY <2>2, <2>3 DEF AudioInv, PlaceInv, Accounted, OnWay, AtHand, Entries, Audio!Waited
  <2> QED BY <2>2, <2>4 DEF WaitedFor, StillWaits
<1> QED BY <1>1, <1>2, <1>3, <1>4

-----------------------------------------------------------------------------
\* A step of the worker: calls change by their replies alone.
OnlyReplies ==
  /\ plays' = plays /\ voice' \in [Players -> Voices]
  /\ \A t \in Players : /\ voice'[t].pc = voice[t].pc /\ voice'[t].request = voice[t].request
                        /\ voice[t].pc # "wait" => voice'[t].reply = voice[t].reply

\* An answer changes replies only, and ends the wait of those it is for.
LEMMA AnswerGives ==
  ASSUME VoiceType, NEW S, NEW a \in {"ok", "error"}, Audio!Answer(S, a), plays' = plays
  PROVE  /\ OnlyReplies /\ WaitedFor' = WaitedFor \ S
         /\ \A t \in Players : \/ voice'[t].reply = voice[t].reply
                               \/ voice'[t].reply = a /\ voice[t].request \in S
<1> DEFINE answered(t) == voice[t].pc = "wait" /\ voice[t].request \in S /\ voice[t].reply = "none"
<1>1. voice' = [t \in Players |-> IF answered(t) THEN [voice[t] EXCEPT !.reply = a] ELSE voice[t]]
  BY DEF Audio!Answer
<1>2. \A t \in Players : voice[t] \in Voices
  BY DEF VoiceType
<1>3. ASSUME NEW t \in Players, answered(t)
      PROVE  /\ voice'[t] \in Voices /\ voice'[t].pc = voice[t].pc /\ voice'[t].request = voice[t].request
             /\ voice'[t].reply = a
  <2>1. voice'[t] = [voice[t] EXCEPT !.reply = a]
    BY <1>1, <1>3
  <2> QED BY <1>2, <2>1 DEF Voices
<1>4. ASSUME NEW t \in Players, ~ answered(t) PROVE voice'[t] = voice[t]
  BY <1>1, <1>4
<1>5. voice' \in [Players -> Voices]
  <2>1. \A t \in Players : voice'[t] \in Voices
    BY <1>2, <1>3, <1>4
  <2>2. DOMAIN voice' = Players
    BY <1>1
  <2>3. voice' = [t \in Players |-> voice'[t]]
    BY <1>1
  <2> QED BY <2>1, <2>3
<1>6. \A t \in Players : StillWaits(t)' <=> StillWaits(t) /\ voice[t].request \notin S
  BY <1>3, <1>4 DEF StillWaits
<1>7. \A t \in Players : voice'[t].request = voice[t].request
  BY <1>3, <1>4
<1>8. WaitedFor' = WaitedFor \ S
  BY <1>6, <1>7 DEF WaitedFor
<1>9. OnlyReplies
  BY <1>3, <1>4, <1>5 DEF OnlyReplies
<1> HIDE DEF answered
<1>10. \A t \in Players : voice'[t].reply = voice[t].reply \/ (voice'[t].reply = a /\ voice[t].request \in S)
  BY <1>3, <1>4 DEF answered
<1> QED BY <1>8, <1>9, <1>10

\* Where no thread is touched, everybody waits on.
LEMMA NoAnswer == ASSUME VoiceType, UNCHANGED <<voice, plays>> PROVE OnlyReplies /\ WaitedFor' = WaitedFor
BY DEF VoiceType, OnlyReplies, WaitedFor, StillWaits

\* A step that only gives errors, or truthful replies, keeps what threads
\* are told.
LEMMA VoicesKeep ==
  ASSUME VoiceInv, OnlyReplies, heard \subseteq heard',
         \A t \in Players : \/ voice'[t].reply \in {voice[t].reply, "error"}
                            \/ voice[t].request.kind = "overlap" \/ voice[t].request.id \in heard
  PROVE  VoiceInv'
<1>1. VoiceType' /\ Numbered' /\ OwnRequest'
  BY DEF VoiceInv, VoiceType, Numbered, OwnRequest, OnlyReplies
<1>2. Audio!HeardWhole'
  BY DEF VoiceInv, OnlyReplies, Audio!HeardWhole
<1> QED BY <1>1, <1>2 DEF VoiceInv

\* A step that only takes requests out of their places keeps each in one
\* place.
LEMMA PlacesKeep ==
  ASSUME PlaceInv, OnlyReplies, PlaceType', OnePlace', Accounted',
         (OnWay \cup sounding)' \subseteq OnWay \cup sounding
  PROVE  PlaceInv'
<1>1. KnownIds'
  BY DEF PlaceInv, KnownIds, OnlyReplies
<1>2. NotSent'
  BY DEF PlaceInv, NotSent, OnlyReplies
<1> QED BY <1>1, <1>2 DEF PlaceInv

\* Take and Drop: the steps of the worker that change the channel.
LEMMA ChannelSteps == ASSUME AudioInv, Audio!Take \/ Audio!Drop PROVE AudioInv'
<1> DEFINE E == Entries(pipe)
<1>a. /\ PlaceInv /\ VoiceInv /\ WorkerInv /\ VoiceType /\ PlaceType
      /\ Distinct(pipe) /\ OnWay \cap sounding = {} /\ WaitedFor = OnWay \cup Audio!Waited
  BY DEF AudioInv, PlaceInv, VoiceInv, OnePlace, Accounted
<1>1. CASE Audio!Take
  <2> DEFINE r == Head(pipe)
  <2>1. /\ player = "receive" /\ pipe # << >> /\ pipe' = Tail(pipe) /\ hand' = r
        /\ \/ r # Audio!Close /\ player' = "open"
           \/ r = Audio!Close /\ player' = "stop"
        /\ UNCHANGED <<ending, sounding, device, heard, voice, plays>>
    BY <1>1 DEF Audio!Take, Audio!Goes, Audio!StopAtOnce, Audio!WorkerOnly, Audio!output
  <2>2. /\ r \in Sounds /\ pipe' \in Seq(Sounds) /\ Distinct(pipe') /\ r \in E
        /\ Entries(pipe') = E \ {r}
    BY <1>a, <2>1, TakeOut DEF PlaceType
  <2> HIDE DEF r, E
  <2>3. PlaceType'
    BY <1>a, <2>1, <2>2 DEF PlaceType
  <2>4. AtHand = {} /\ AtHand' = IF r = Audio!Close THEN {} ELSE {r}
    BY <2>1 DEF AtHand
  <2>5. OnWay' = OnWay
    BY <2>2, <2>4 DEF OnWay, E
  <2>6. AtHand' \cap Entries(pipe)' = {}
    BY <2>2, <2>4
  <2>7. OnlyReplies /\ WaitedFor' = WaitedFor /\ Audio!Waited' = Audio!Waited
    BY <1>a, <2>1, NoAnswer DEF Audio!Waited
  <2>8. OnePlace' /\ Accounted'
    BY <1>a, <2>1, <2>2, <2>5, <2>6, <2>7 DEF OnePlace, Accounted
  <2>9. PlaceInv'
    BY <1>a, <2>1, <2>3, <2>5, <2>7, <2>8, PlacesKeep
  <2>10. VoiceInv'
    BY <1>a, <2>1, <2>7, VoicesKeep
  <2>11. Closing'
    BY <1>a, <2>1, <2>2 DEF WorkerInv, Closing, E
  <2>12. DeviceOpen'
    BY <1>a, <2>1 DEF WorkerInv, DeviceOpen
  <2> QED BY <2>9, <2>10, <2>11, <2>12 DEF AudioInv, WorkerInv
<1>2. CASE Audio!Drop
  <2>1. /\ player = "drop" /\ player' = "ended" /\ pipe' = << >> /\ device' = FALSE
        /\ Audio!Answer({pipe[i] : i \in DOMAIN pipe}, "error")
        /\ UNCHANGED <<ending, hand, sounding, heard, plays>>
    BY <1>2 DEF Audio!Drop, Audio!Goes, Audio!WorkerOnly
  <2>2. {pipe[i] : i \in DOMAIN pipe} = E
    BY <1>a, LenProperties DEF PlaceType, Entries
  <2>3. /\ OnlyReplies /\ WaitedFor' = WaitedFor \ E
        /\ \A t \in Players : voice'[t].reply \in {voice[t].reply, "error"}
    BY <1>a, <2>1, <2>2, AnswerGives
  <2>4. Len(pipe') = 0 /\ pipe' \in Seq(Sounds)
    BY <2>1, EmptySeq
  <2>5. Entries(pipe') = {} /\ Distinct(pipe')
    BY <2>4 DEF Entries, Distinct
  <2>6. AtHand' = {} /\ OnWay' = {} /\ AtHand = {} /\ OnWay \subseteq E
    BY <2>1, <2>5 DEF AtHand, OnWay
  <2>7. sounding = {}
    BY <1>a, <2>1 DEF WorkerInv, DeviceOpen
  <2>8. Audio!Waited' = {} /\ Audio!Waited = {}
    BY <2>1, <2>7 DEF Audio!Waited
  <2>9. OnePlace' /\ Accounted'
    BY <1>a, <2>1, <2>3, <2>5, <2>6, <2>7, <2>8 DEF OnePlace, Accounted
  <2>10. PlaceType'
    BY <1>a, <2>1, <2>4 DEF PlaceType
  <2>11. PlaceInv'
    BY <1>a, <2>1, <2>3, <2>6, <2>9, <2>10, PlacesKeep
  <2>12. VoiceInv'
    BY <1>a, <2>1, <2>3, VoicesKeep
  <2>13. WorkerInv'
    BY <1>a, <2>1, <2>5, <2>7 DEF WorkerInv, Closing, DeviceOpen
  <2> QED BY <2>11, <2>12, <2>13 DEF AudioInv
<1> QED BY <1>1, <1>2

\* The others leave the channel as it is.
LEMMA SoundSteps ==
  ASSUME AudioInv,
         Audio!Timeout \/ Audio!Refuse \/ Audio!Open \/ Audio!Play \/ Audio!CheckFault
           \/ Audio!Fail \/ Audio!Sweep \/ Audio!Stop
  PROVE  AudioInv'
<1> DEFINE E == Entries(pipe)
           W == E \ {Audio!Close}
<1>a. /\ PlaceInv /\ VoiceInv /\ WorkerInv /\ VoiceType /\ PlaceType
      /\ Distinct(pipe) /\ AtHand \cap E = {} /\ OnWay \cap sounding = {}
      /\ WaitedFor = OnWay \cup Audio!Waited /\ OnWay = W \cup AtHand
  BY DEF AudioInv, PlaceInv, VoiceInv, OnePlace, Accounted, OnWay
<1>b. /\ UNCHANGED <<pipe, ending, plays>> /\ E' = E /\ W' = W
  BY DEF Audio!Timeout, Audio!Refuse, Audio!Open, Audio!Play, Audio!CheckFault, Audio!Fail, Audio!Sweep,
    Audio!Stop, Audio!WorkerOnly, Audio!output, Entries
<1>c. OnWay' = W \cup AtHand'
  BY <1>b DEF OnWay
\* What is left to show of each: where its request goes and who is answered.
<1>k. ASSUME OnlyReplies, heard' = heard, PlaceType',
             \A t \in Players : \/ voice'[t].reply \in {voice[t].reply, "error"}
                                \/ voice[t].request.kind = "overlap" \/ voice[t].request.id \in heard,
             AtHand' \subseteq AtHand, sounding' \subseteq sounding \cup (AtHand \ AtHand'),
             WaitedFor' = OnWay' \cup Audio!Waited',
             player' \notin {"drop", "ended"} \/ (player = "stop" /\ sounding' = {}), player' # "ended",
             player' = "stop" => player = "stop", player # "ended",
             sounding' # {} \/ player' = "play" => device' = TRUE
      PROVE  AudioInv'
  <2>1. OnePlace'
    BY <1>a, <1>b, <1>c, <1>k DEF OnePlace
  <2>2. (OnWay \cup sounding)' \subseteq OnWay \cup sounding
    BY <1>a, <1>c, <1>k
  <2>3. PlaceInv'
    BY <1>a, <1>k, <2>1, <2>2, PlacesKeep DEF Accounted
  <2>4. VoiceInv'
    BY <1>a, <1>k, VoicesKeep
  <2>5. Closing'
    BY <1>a, <1>b, <1>k DEF WorkerInv, Closing
  <2>6. DeviceOpen'
    BY <1>a, <1>k DEF WorkerInv, DeviceOpen
  <2> QED BY <2>3, <2>4, <2>5, <2>6 DEF AudioInv, WorkerInv
<1>d. (sounding # {} \/ player = "play" => device = TRUE)
  BY <1>a DEF WorkerInv, DeviceOpen
<1> HIDE DEF E, W
<1>1. CASE Audio!Timeout
  <2>1. /\ player = "receive" /\ player' = "check" /\ UNCHANGED <<hand, sounding, heard, voice>>
        /\ device' = (device /\ sounding # {})
    BY <1>1 DEF Audio!Timeout, Audio!Goes, Audio!CloseIdle
  <2>2. sounding # {} => device' = TRUE
    BY <1>d, <2>1
  <2>3. AtHand = {} /\ AtHand' = {} /\ Audio!Waited' = Audio!Waited
    BY <2>1 DEF AtHand, Audio!Waited
  <2>4. OnlyReplies /\ WaitedFor' = WaitedFor
    BY <1>a, <1>b, <2>1, NoAnswer
  <2>5. PlaceType'
    BY <1>a, <1>b, <2>1 DEF PlaceType
  <2> QED BY <1>a, <1>c, <1>k, <2>1, <2>2, <2>3, <2>4, <2>5
<1>2. CASE Audio!Refuse
  <2>1. /\ player \in {"open", "play"} /\ player' = "receive" /\ hand' = Audio!Close
        /\ Audio!Answer({hand}, "error") /\ UNCHANGED <<sounding, device, heard>>
    BY <1>2 DEF Audio!Refuse, Audio!Goes, Audio!output
  <2>2. /\ OnlyReplies /\ WaitedFor' = WaitedFor \ {hand}
        /\ \A t \in Players : voice'[t].reply \in {voice[t].reply, "error"}
    BY <1>a, <1>b, <2>1, AnswerGives
  <2>3. AtHand = {hand} /\ AtHand' = {} /\ Audio!Waited' = Audio!Waited /\ Audio!Waited \subseteq sounding
    BY <2>1 DEF AtHand, Audio!Waited
  <2>4. PlaceType'
    BY <1>a, <1>b, <2>1 DEF PlaceType, Sounds, Audio!Close
  <2>5. WaitedFor' = OnWay' \cup Audio!Waited'
    BY <1>a, <1>c, <2>2, <2>3 DEF W
  <2> QED BY <1>d, <1>k, <2>1, <2>2, <2>3, <2>4, <2>5
<1>3. CASE Audio!Open
  <2>1. player = "open" /\ player' = "play" /\ device' = TRUE /\ UNCHANGED <<hand, sounding, heard, voice>>
    BY <1>3 DEF Audio!Open, Audio!Goes
  <2>2. AtHand = {hand} /\ AtHand' = {hand} /\ Audio!Waited' = Audio!Waited
    BY <2>1 DEF AtHand, Audio!Waited
  <2>3. OnlyReplies /\ WaitedFor' = WaitedFor
    BY <1>a, <1>b, <2>1, NoAnswer
  <2>4. PlaceType'
    BY <1>a, <1>b, <2>1 DEF PlaceType
  <2> QED BY <1>a, <1>c, <1>k, <2>1, <2>2, <2>3, <2>4
<1>4. CASE Audio!Play
  <2> DEFINE S == {r \in {hand} : r.kind = "overlap"}
  <2>1. /\ player = "play" /\ player' = "check" /\ hand' = Audio!Close /\ sounding' = sounding \cup {hand}
        /\ Audio!Answer(S, "ok") /\ UNCHANGED <<device, heard>>
    BY <1>4 DEF Audio!Play, Audio!Goes, Audio!AnswerOverlap
  <2>2. /\ OnlyReplies /\ WaitedFor' = WaitedFor \ S
        /\ \A t \in Players : voice'[t].reply = voice[t].reply \/ voice[t].request \in S
    BY <1>a, <1>b, <2>1, AnswerGives
  <2>3. /\ AtHand = {hand} /\ AtHand' = {} /\ Audio!Waited' = Audio!Waited \cup ({hand} \ S)
        /\ Audio!Waited \subseteq sounding
    BY <2>1 DEF AtHand, Audio!Waited
  <2>4. PlaceType'
    BY <1>a, <1>b, <2>1 DEF PlaceType, Sounds, Audio!Close
  <2>5. S \subseteq {hand} /\ hand \notin W /\ hand \notin sounding
    BY <1>a, <2>3 DEF W
  <2>6. \A t \in Players : voice[t].request \in S => voice[t].request.kind = "overlap"
    OBVIOUS
  <2> HIDE DEF S
  <2>7. WaitedFor' = OnWay' \cup Audio!Waited'
    BY <1>a, <1>c, <2>2, <2>3, <2>5
  <2> QED BY <1>d, <1>k, <2>1, <2>2, <2>3, <2>4, <2>6, <2>7
<1>5. CASE Audio!CheckFault
  <2>1. /\ player = "check" /\ player' \in {"fail", "sweep"} /\ UNCHANGED <<hand, sounding, device, heard, voice>>
    BY <1>5 DEF Audio!CheckFault, Audio!Goes
  <2>2. AtHand = {} /\ AtHand' = {} /\ Audio!Waited' = Audio!Waited
    BY <2>1 DEF AtHand, Audio!Waited
  <2>3. OnlyReplies /\ WaitedFor' = WaitedFor
    BY <1>a, <1>b, <2>1, NoAnswer
  <2>4. PlaceType'
    BY <1>a, <1>b, <2>1 DEF PlaceType
  <2> QED BY <1>a, <1>c, <1>d, <1>k, <2>1, <2>2, <2>3, <2>4
<1>6. CASE Audio!Fail \/ Audio!Stop
  <2>1. /\ \/ player = "fail" /\ player' = "receive"
           \/ player = "stop" /\ player' = "drop"
        /\ Audio!Answer(Audio!Waited, "error") /\ sounding' = {} /\ UNCHANGED <<hand, heard>>
    BY <1>6 DEF Audio!Fail, Audio!Stop, Audio!Goes
  <2>2. /\ OnlyReplies /\ WaitedFor' = WaitedFor \ Audio!Waited
        /\ \A t \in Players : voice'[t].reply \in {voice[t].reply, "error"}
    BY <1>a, <1>b, <2>1, AnswerGives
  <2>3. AtHand = {} /\ AtHand' = {} /\ Audio!Waited' = {} /\ Audio!Waited \subseteq sounding
    BY <2>1 DEF AtHand, Audio!Waited
  <2>4. PlaceType'
    BY <1>a, <1>b, <2>1 DEF PlaceType
  <2>5. WaitedFor' = OnWay' \cup Audio!Waited'
    BY <1>a, <1>c, <2>2, <2>3
  <2> QED BY <1>k, <2>1, <2>2, <2>3, <2>4, <2>5
<1>7. CASE Audio!Sweep
  <2> DEFINE S == Audio!Waited \cap Audio!Ended
  <2>1. /\ player = "sweep" /\ player' = "receive" /\ Audio!Answer(S, "ok")
        /\ sounding' = sounding \ Audio!Ended /\ UNCHANGED <<hand, device, heard>>
    BY <1>7 DEF Audio!Sweep, Audio!Goes
  <2>2. /\ OnlyReplies /\ WaitedFor' = WaitedFor \ S
        /\ \A t \in Players : voice'[t].reply = voice[t].reply \/ voice[t].request \in S
    BY <1>a, <1>b, <2>1, AnswerGives
  <2>3. /\ AtHand = {} /\ AtHand' = {} /\ Audio!Waited' = Audio!Waited \ S /\ S \subseteq sounding
    BY <2>1 DEF AtHand, Audio!Waited
  <2>4. PlaceType'
    BY <1>a, <1>b, <2>1 DEF PlaceType
  <2>5. \A t \in Players : voice[t].request \in S => voice[t].request.id \in heard
    BY DEF Audio!Ended
  <2> HIDE DEF S
  <2>6. WaitedFor' = OnWay' \cup Audio!Waited'
    BY <1>a, <1>c, <2>2, <2>3
  <2> QED BY <1>d, <1>k, <2>1, <2>2, <2>3, <2>4, <2>5, <2>6
<1> QED BY <1>1, <1>2, <1>3, <1>4, <1>5, <1>6, <1>7

\* A step of one caller: what has to be shown of its new record.
LEMMA CallSteps == ASSUME AudioInv, NEW t \in Players, (\E k \in Audio!Kinds : Audio!Request(t, k)) \/ Audio!Call(t)
                   PROVE  AudioInv'
<1> DEFINE d == voice[t]
           E == Entries(pipe)
<1>a. /\ PlaceInv /\ VoiceInv /\ WorkerInv /\ PlaceType /\ voice \in [Players -> Voices] /\ plays \in Nat
      /\ Distinct(pipe) /\ AtHand \cap E = {} /\ OnWay \cap sounding = {}
      /\ WaitedFor = OnWay \cup Audio!Waited /\ OnWay = (E \ {Audio!Close}) \cup AtHand
  BY DEF AudioInv, PlaceInv, VoiceInv, VoiceType, OnePlace, Accounted, OnWay
<1>b. /\ UNCHANGED <<player, hand, sounding, device, heard, ending>>
      /\ AtHand' = AtHand /\ Audio!Waited' = Audio!Waited
  BY DEF Audio!Request, Audio!Call, Audio!CloneSender, Audio!Send, Audio!Return, Audio!CallerOnly, Audio!output,
    Audio!shared, AtHand, Audio!Waited
<1>c. d \in Voices
  BY <1>a
<1>k. ASSUME NEW c \in Voices, voice' = [voice EXCEPT ![t] = c]
      PROVE  /\ voice' \in [Players -> Voices] /\ voice'[t] = c /\ \A u \in Players \ {t} : voice'[u] = voice[u]
  BY <1>a, <1>k
\* A call that ends, or that goes on to send, was not waiting for an answer.
<1>e. ASSUME NEW c \in Voices, voice' = [voice EXCEPT ![t] = c], UNCHANGED <<pipe, plays>>,
             d.pc # "wait" \/ d.reply # "none", c.reply = "none",
             c.pc = "rest" \/ (c.pc = "send" /\ d.pc = "clone" /\ c.request = d.request)
      PROVE  AudioInv'
  <2>1. /\ voice' \in [Players -> Voices] /\ voice'[t] = c /\ \A u \in Players \ {t} : voice'[u] = voice[u]
    BY <1>e, <1>k
  <2>2. VoiceInv'
    <3>1. VoiceType' /\ Numbered'
      BY <1>a, <1>e, <2>1 DEF VoiceInv, VoiceType, Numbered
    <3>2. OwnRequest'
      BY <1>a, <1>e, <2>1 DEF VoiceInv, OwnRequest
    <3>3. Audio!HeardWhole'
      BY <1>a, <1>b, <1>e, <2>1 DEF VoiceInv, Audio!HeardWhole
    <3> QED BY <3>1, <3>2, <3>3 DEF VoiceInv
  <2>3. \A u \in Players : (StillWaits(u)' <=> StillWaits(u)) /\ (StillWaits(u) => voice'[u].request = voice[u].request)
    BY <1>e, <2>1 DEF StillWaits
  <2>4. WaitedFor' = WaitedFor
    BY <2>3 DEF WaitedFor
  <2>5. E' = E /\ OnWay' = OnWay
    BY <1>b, <1>e DEF OnWay, Entries
  <2>6. NotSent'
    BY <1>a, <1>b, <1>e, <2>1, <2>5 DEF PlaceInv, NotSent
  <2>7. PlaceInv'
    BY <1>a, <1>b, <1>e, <2>4, <2>5, <2>6
      DEF PlaceInv, PlaceType, KnownIds, OnePlace, Distinct, Accounted
  <2>8. WorkerInv'
    BY <1>a, <1>b, <1>e, <2>5 DEF WorkerInv, Closing, DeviceOpen
  <2> QED BY <2>2, <2>7, <2>8 DEF AudioInv
<1>r. Audio!Resting \in Voices /\ Audio!Resting.pc = "rest" /\ Audio!Resting.reply = "none"
  BY DEF Audio!Resting, Audio!Close, Voices, Sounds
<1>1. CASE \E k \in Audio!Kinds : Audio!Request(t, k)
  <2>1. PICK k \in Audio!Kinds : Audio!Request(t, k)
    BY <1>1
  <2> DEFINE n == plays + 1
             r == [id |-> n, kind |-> k]
             c == [pc |-> "clone", request |-> r, reply |-> "none"]
  <2>2. /\ d.pc = "rest" /\ plays' = n /\ voice' = [voice EXCEPT ![t] = c] /\ pipe' = pipe
    BY <2>1 DEF Audio!Request, Audio!shared
  <2>3. n \in Nat /\ n \in 1 .. n /\ n \notin 1 .. plays /\ 1 .. plays \subseteq 1 .. n
    BY <1>a
  <2> HIDE DEF n
  <2>4. c \in Voices /\ r.id = n /\ r.kind \in Audio!Kinds
    BY <2>3 DEF Voices, Sounds, Audio!Kinds
  <2> HIDE DEF r
  <2>5. c.pc = "clone" /\ c.request = r /\ c.reply = "none"
    OBVIOUS
  <2> HIDE DEF c
  <2>6. /\ voice' \in [Players -> Voices] /\ voice'[t] = c /\ \A u \in Players \ {t} : voice'[u] = voice[u]
    BY <1>k, <2>2, <2>4
  <2>7. VoiceType' /\ Numbered'
    BY <1>a, <2>2, <2>3, <2>4, <2>5, <2>6 DEF VoiceInv, VoiceType, Numbered
  <2>8. OwnRequest'
    BY <1>a, <2>2, <2>3, <2>4, <2>5, <2>6 DEF VoiceInv, Numbered, OwnRequest
  <2>9. Audio!HeardWhole'
    BY <1>a, <1>b, <2>5, <2>6 DEF VoiceInv, Audio!HeardWhole
  <2>10. \A u \in Players : (StillWaits(u)' <=> StillWaits(u)) /\ (StillWaits(u) => voice'[u].request = voice[u].request)
    BY <2>2, <2>5, <2>6 DEF StillWaits
  <2>11. WaitedFor' = WaitedFor
    BY <2>10 DEF WaitedFor
  <2>12. E' = E /\ OnWay' = OnWay
    BY <1>b, <2>2 DEF OnWay, Entries
  <2>13. KnownIds' /\ r \notin OnWay \cup sounding
    BY <1>a, <1>b, <2>2, <2>3, <2>4, <2>12 DEF PlaceInv, KnownIds
  <2>14. NotSent'
    BY <1>a, <1>b, <2>5, <2>6, <2>12, <2>13 DEF PlaceInv, NotSent
  <2>15. PlaceInv'
    BY <1>a, <1>b, <2>2, <2>11, <2>12, <2>13, <2>14 DEF PlaceInv, PlaceType, OnePlace, Distinct, Accounted
  <2>16. WorkerInv'
    BY <1>a, <1>b, <2>2, <2>12 DEF WorkerInv, Closing, DeviceOpen
  <2> QED BY <2>7, <2>8, <2>9, <2>15, <2>16 DEF AudioInv, VoiceInv
<1>2. CASE Audio!CloneSender(t)
  <2>1. /\ d.pc = "clone" /\ UNCHANGED <<pipe, plays>>
        /\ \/ voice' = [voice EXCEPT ![t] = [d EXCEPT !.pc = "send"]]
           \/ voice' = [voice EXCEPT ![t] = Audio!Resting]
    BY <1>2, <1>a DEF Audio!CloneSender, Audio!CallerOnly, Audio!CallerGoes, Audio!CallEnds
  <2>2. d.reply = "none"
    BY <1>a, <2>1 DEF PlaceInv, NotSent
  <2>3. CASE voice' = [voice EXCEPT ![t] = Audio!Resting]
    BY <1>e, <1>r, <2>1, <2>3
  <2>4. CASE voice' = [voice EXCEPT ![t] = [d EXCEPT !.pc = "send"]]
    <3> DEFINE c == [d EXCEPT !.pc = "send"]
    <3>1. c \in Voices /\ c.pc = "send" /\ c.request = d.request /\ c.reply = d.reply
      BY <1>c DEF Voices
    <3> HIDE DEF c
    <3>2. voice' = [voice EXCEPT ![t] = c]
      BY <2>4 DEF c
    <3> QED BY <1>e, <2>1, <2>2, <3>1, <3>2
  <2> QED BY <2>1, <2>3, <2>4
<1>3. CASE Audio!Send(t)
  <2>1. d.pc = "send" /\ plays' = plays
    BY <1>3 DEF Audio!Send, Audio!CallerOnly
  <2>2. CASE voice' = [voice EXCEPT ![t] = Audio!Resting] /\ pipe' = pipe
    BY <1>e, <1>r, <2>1, <2>2
  <2>3. CASE /\ player # "ended" /\ pipe' = Append(pipe, d.request)
             /\ voice' = [voice EXCEPT ![t] = [d EXCEPT !.pc = "wait"]]
    <3> DEFINE r == d.request
               c == [d EXCEPT !.pc = "wait"]
    <3>1. c \in Voices /\ c.pc = "wait" /\ c.request = r /\ c.reply = d.reply /\ r \in Sounds
      BY <1>c DEF Voices
    <3>2. d.reply = "none" /\ r \notin OnWay \cup sounding
      BY <1>a, <2>1 DEF PlaceInv, NotSent
    <3>3. r.id \in 1 .. plays /\ r.kind \in Audio!Kinds /\ r # Audio!Close
      BY <1>a, <2>1 DEF VoiceInv, Numbered, Audio!Close
    <3> HIDE DEF r, c
    <3>4. r \notin E /\ r \notin AtHand
      BY <1>a, <3>2, <3>3
    <3>5. pipe' \in Seq(Sounds) /\ Distinct(pipe') /\ E' = E \cup {r}
      BY <1>a, <2>3, <3>1, <3>4, PutIn DEF PlaceType, r
    <3>6. voice' \in [Players -> Voices] /\ voice'[t] = c /\ \A u \in Players \ {t} : voice'[u] = voice[u]
      BY <1>k, <2>3, <3>1 DEF c
    <3>7. OnWay' = OnWay \cup {r}
      BY <1>a, <1>b, <3>3, <3>5 DEF OnWay
    <3>8. VoiceType' /\ Numbered' /\ Audio!HeardWhole'
      BY <1>a, <1>b, <2>1, <3>1, <3>2, <3>3, <3>6 DEF VoiceInv, VoiceType, Numbered, Audio!HeardWhole
    <3>9. OwnRequest'
      BY <1>a, <2>1, <3>1, <3>6 DEF VoiceInv, OwnRequest, r
    <3>10. WaitedFor' = WaitedFor \cup {r}
      <4>1. StillWaits(t)' /\ ~ StillWaits(t) /\ voice'[t].request = r
        BY <2>1, <3>1, <3>2, <3>6 DEF StillWaits
      <4>2. \A u \in Players \ {t} : (StillWaits(u)' <=> StillWaits(u)) /\ voice'[u].request = voice[u].request
        BY <3>6 DEF StillWaits
      <4> HIDE DEF d
      <4> QED BY <4>1, <4>2 DEF WaitedFor
    <3>11. NotSent'
      <4>1. \A u \in Players \ {t} : voice[u].pc \in {"clone", "send"} => voice[u].request # r
        BY <1>a, <2>1 DEF VoiceInv, OwnRequest, r
      <4> QED BY <1>a, <1>b, <3>1, <3>6, <3>7, <4>1 DEF PlaceInv, NotSent
    <3>12. KnownIds'
      BY <1>a, <1>b, <2>1, <3>3, <3>7 DEF PlaceInv, KnownIds
    <3>13. OnePlace' /\ Accounted' /\ PlaceType'
      BY <1>a, <1>b, <3>2, <3>4, <3>5, <3>7, <3>10 DEF OnePlace, Accounted, PlaceType
    <3>14. WorkerInv'
      BY <1>a, <1>b, <2>3, <3>3, <3>5 DEF WorkerInv, Closing, DeviceOpen
    <3> QED BY <3>8, <3>9, <3>11, <3>12, <3>13, <3>14 DEF AudioInv, VoiceInv, PlaceInv
  <2> QED BY <1>3, <1>a, <2>2, <2>3 DEF Audio!Send, Audio!CallEnds, Audio!CallerGoes
<1>4. CASE Audio!Return(t)
  <2>1. d.reply # "none" /\ voice' = [voice EXCEPT ![t] = Audio!Resting] /\ UNCHANGED <<pipe, plays>>
    BY <1>4 DEF Audio!Return, Audio!CallerOnly, Audio!CallEnds
  <2> QED BY <1>e, <1>r, <2>1
<1> QED BY <1>1, <1>2, <1>3, <1>4 DEF Audio!Call

\* shutdown, and what the device does on its own thread.
LEMMA CloserSteps ==
  ASSUME AudioInv, Audio!TakeSender \/ Audio!SendClose \/ Audio!Join \/ Audio!EndSound \/ Audio!ReportFault
  PROVE  AudioInv'
<1> DEFINE E == Entries(pipe)
<1>a. /\ PlaceInv /\ VoiceInv /\ WorkerInv /\ PlaceType /\ Distinct(pipe) /\ AtHand \cap E = {}
      /\ OnWay = (E \ {Audio!Close}) \cup AtHand
  BY DEF AudioInv, PlaceInv, OnePlace, OnWay
<1>b. /\ UNCHANGED <<player, hand, sounding, device, voice, plays>> /\ AtHand' = AtHand
      /\ WaitedFor' = WaitedFor /\ Audio!Waited' = Audio!Waited /\ heard \subseteq heard'
  BY DEF Audio!TakeSender, Audio!SendClose, Audio!Join, Audio!EndSound, Audio!ReportFault, Audio!output,
    Audio!shared, AtHand, WaitedFor, StillWaits, Audio!Waited
<1>1. VoiceInv'
  BY <1>a, <1>b DEF VoiceInv, VoiceType, Numbered, OwnRequest, Audio!HeardWhole
<1>2. CASE Audio!SendClose
  <2>1. ending = "send" /\ pipe' = Append(pipe, Audio!Close) /\ ending' = "join"
    BY <1>2 DEF Audio!SendClose
  <2>2. Audio!Close \notin E /\ player # "ended"
    BY <1>a, <2>1 DEF WorkerInv, Closing
  <2>3. Audio!Close \in Sounds /\ pipe \in Seq(Sounds)
    BY <1>a DEF Audio!Close, Sounds, PlaceType
  <2>4. pipe' \in Seq(Sounds) /\ Distinct(pipe') /\ E' = E \cup {Audio!Close}
    BY <1>a, <2>1, <2>2, <2>3, PutIn
  <2>5. Audio!Close \notin AtHand
    <3>1. Audio!Close.id = 0 /\ 0 \notin 1 .. plays
      BY <1>a DEF Audio!Close, VoiceInv, VoiceType
    <3> QED BY <1>a, <3>1 DEF PlaceInv, KnownIds
  <2>6. OnWay' = OnWay
    BY <1>a, <1>b, <2>4 DEF OnWay
  <2>7. PlaceInv'
    BY <1>a, <1>b, <2>4, <2>5, <2>6 DEF PlaceInv, PlaceType, KnownIds, OnePlace, Accounted, NotSent
  <2>8. WorkerInv'
    BY <1>a, <1>b, <2>1, <2>2 DEF WorkerInv, Closing, DeviceOpen
  <2> QED BY <1>1, <2>7, <2>8 DEF AudioInv
<1>3. CASE Audio!TakeSender \/ Audio!Join \/ Audio!EndSound \/ Audio!ReportFault
  <2>1. /\ pipe' = pipe
        /\ \/ ending' = ending
           \/ ending = "rest" /\ ending' = "send"
           \/ ending = "join" /\ player = "ended" /\ ending' = "done"
    BY <1>3 DEF Audio!TakeSender, Audio!Join, Audio!JoinEnded, Audio!EndSound, Audio!ReportFault, Audio!shared
  <2>2. E' = E /\ OnWay' = OnWay
    BY <1>b, <2>1 DEF OnWay, Entries
  <2>3. PlaceInv'
    BY <1>a, <1>b, <2>1, <2>2 DEF PlaceInv, PlaceType, KnownIds, OnePlace, Distinct, Accounted, NotSent
  <2>4. WorkerInv'
    BY <1>a, <1>b, <2>1, <2>2 DEF WorkerInv, Closing, DeviceOpen
  <2> QED BY <1>1, <2>3, <2>4 DEF AudioInv
<1> QED BY <1>2, <1>3

\* Every step of the audio output keeps its invariant.
LEMMA AudioStep == ASSUME AudioInv, Audio!Next PROVE AudioInv'
BY ChannelSteps, SoundSteps, CallSteps, CloserSteps DEF Audio!Next, Audio!Worker

-----------------------------------------------------------------------------
(***************************************************************************)
(* The parts side by side: one that does not run rests.                    *)
(***************************************************************************)
PortsInv == PortInv /\ RpcInv /\ AudioInv

\* A step of the plugins is one of the component that runs; the others
\* rest.
LEMMA PortMoves ==
  ASSUME [PluginsNext]_partVars
  PROVE  /\ Port!Next \/ UNCHANGED stateVars
         /\ Rpc!Next \/ UNCHANGED rpcVars
         /\ Audio!Next \/ UNCHANGED audioVars
BY DEF PluginsNext, partVars, others

\* The invariants of the ports, of the calls and of the audio output hold in
\* every state.
THEOREM PortsInvariance == PluginsSpec => []PortsInv
<1>1. PluginsInit => PortsInv
  BY PortInit, RpcInit, AudioInit, PluginsAssumption DEF PluginsInit, PortsInv
<1>2. PortsInv /\ [PluginsNext]_partVars => PortsInv'
  <2> SUFFICES ASSUME PortsInv, [PluginsNext]_partVars PROVE PortsInv'
    OBVIOUS
  <2>1. PortInv'
    BY PortMoves, PortStep, PortRests, PluginsAssumption DEF PortsInv
  <2>2. RpcInv'
    BY PortMoves, RpcStep, RpcRests DEF PortsInv
  <2>3. AudioInv'
    BY PortMoves, AudioStep, AudioRests DEF PortsInv
  <2> QED BY <2>1, <2>2, <2>3 DEF PortsInv
<1> QED BY <1>1, <1>2, PTL DEF PluginsSpec, partVars

\* State and saves of a plugin move on, a call to an engine gets its own
\* answer and leaves no process when it fails, and a sound is over when its
\* call has returned (PortsAgree, a property of the run of MCPlugins): for any
\* number of threads, players, requests, sounds and errors.
THEOREM PortsAlwaysAgree == PluginsSpec => []PortsAgree
<1>1. PortsInv => PortsAgree
  BY PortIsSafe, RpcIsSafe, AudioIsSafe DEF PortsInv, PortsAgree
<1> QED BY <1>1, PortsInvariance, PTL

\* A result of a generation that is over is not saved (OldResultDropped of
\* PluginState, a part of NewestStays).
THEOREM OldResultsStayOut == PluginsSpec => Port!OldResultDropped
<1> DEFINE NotOver == Len(kept') > Len(kept) => Port!Last(kept').gen \notin 1 .. (seen - 1)
<1>1. ASSUME PortInv, Port!Next PROVE NotOver
  <2>1. CASE Port!Apply
    <3> DEFINE s == Head(calls)
    <3>1. kept' = kept \/ ((s.gen = 0 \/ s.gen = kind) /\ kept' = Append(kept, s))
      BY <2>1 DEF Port!Apply, Port!StillCurrent
    <3>2. kind = seen /\ kind \in Nat /\ kept \in Seq(Port!Saves) /\ s \in Port!Saves
      <4>1. calls \in Seq(Port!Saves) /\ calls # << >>
        BY <1>1, <2>1 DEF PortInv, SaveInv, QueueType, Port!Apply
      <4> QED BY <1>1, <4>1, HeadTailProperties
           DEF PortInv, PublishInv, PublishType, NeverBack, SaveInv, QueueType
    <3> HIDE DEF s
    <3>3. CASE kept' = kept
      <4>1. Len(kept) \in Nat
        BY <3>2, LenProperties
      <4> QED BY <3>3, <4>1
    <3>4. CASE (s.gen = 0 \/ s.gen = kind) /\ kept' = Append(kept, s)
      <4>1. Port!Last(kept') = s
        BY <3>2, <3>4, AppendProperties DEF Port!Last
      <4>2. s.gen \notin 1 .. (seen - 1)
        BY <3>2, <3>4
      <4> QED BY <4>1, <4>2
    <3> QED BY <3>1, <3>3, <3>4
  <2>2. CASE ~ Port!Apply
    <3>1. kept' = kept
      BY <1>1, <2>2 DEF Port!Next, Port!Publisher, Port!Publish, Port!PublishLate, Port!Test, Port!Assign, Port!Saving,
        Port!Save, Port!Saver, Port!SaveTest, Port!SaveWaits, Port!SaveLeaves, Port!SavePosts, Port!Host,
        Port!Bind, Port!Flush
    <3>2. Len(kept) \in Nat
      BY <1>1, LenProperties DEF PortInv, SaveInv, QueueType
    <3> QED BY <3>1, <3>2
  <2> QED BY <2>1, <2>2
<1>2. PortsInv /\ [PluginsNext]_partVars => [NotOver]_(Port!vars)
  BY <1>1, PortMoves DEF PortsInv, stateVars, Port!vars
<1>3. PluginsSpec => [][NotOver]_(Port!vars)
  BY <1>2, PortsInvariance, PTL DEF PluginsSpec, partVars
<1> QED BY <1>3 DEF Port!OldResultDropped

\* What is newer is never undone (NewestStays, a property of the run of
\* MCPlugins): the registration of a model, the converted model and the results
\* of a plugin together, for any numbers of them.
THEOREM NewestAlwaysStays == PluginsSpec => NewestStays
BY LastIsRegistered, UsableModelStays, OldResultsStayOut DEF NewestStays

-----------------------------------------------------------------------------
(***************************************************************************)
(* The source of the comments.  A message of the response in hand is       *)
(* handed on before the response is left, and what is remembered are the   *)
(* last identifiers, so that a repetition is far from its first time.      *)
(***************************************************************************)
Comments == [id : Nat, history : BOOLEAN, answer : 0 .. 2]

ThreadType ==
  /\ at \in Chat!Places /\ leaving \in BOOLEAN /\ stop \in BOOLEAN
  /\ sent \in 0 .. Messages /\ token \in 0 .. sent
  /\ first \in BOOLEAN /\ answer \in 0 .. 2 /\ late \in 0 .. 1
ListType ==
  /\ items \in Seq(Nat) /\ ids \in Seq(Nat) /\ recorded \in Seq(Nat) /\ published \in Seq(Comments)

\* The thread will read another response on this or on a new channel.
GoesOn == at \in {"resolve", "top", "open", "stream", "wait"} \/ (at = "finally" /\ leaving = FALSE)
Reads == at \in {"items", "emit"}
Handed(m) == \E i \in DOMAIN published : published[i].id = m
InHand(m) == \E i \in DOMAIN items : items[i] = m

OneLate == (stop = FALSE => late = 0) /\ (at = "emit" => late = 0 /\ items # <<>>)
DownIsTold == at \in {"resolve", "top", "open", "end", "gone"} => connected = FALSE /\ channel = 0
FirstAnswer ==
  /\ GoesOn => (first = TRUE <=> answer = 0)
  /\ Reads => answer # 0 /\ (first = TRUE <=> answer = 1)
  /\ \A i \in DOMAIN published : published[i].history = TRUE <=> published[i].answer = 1
Covered ==
  /\ GoesOn => \A m \in 1 .. token : m \in Hidden \/ Handed(m)
  /\ at = "stream" => \A m \in 1 .. sent : m \in Hidden \/ Handed(m)
  /\ Reads => \A m \in 1 .. sent : m \in Hidden \/ Handed(m) \/ InHand(m)
  /\ \A i \in DOMAIN ids : ids[i] \in Hidden \/ Handed(ids[i])
\* What is remembered are the last identifiers recorded.
LastAreKnown ==
  /\ Len(ids) <= Window /\ Len(ids) <= Len(recorded) /\ Len(ids) \in {Window, Len(recorded)}
  /\ \A i \in 1 .. Len(ids) : ids[i] = recorded[Len(recorded) - Len(ids) + i]
FarApart == \A i, j \in 1 .. Len(recorded) : i < j /\ recorded[i] = recorded[j] => j - i > Window
ChatInv ==
  /\ ThreadType /\ ListType /\ OneLate /\ DownIsTold /\ FirstAnswer /\ Covered /\ LastAreKnown /\ FarApart

\* The invariant of the source holds at the start.
LEMMA ChatInit == ASSUME Chat!Init PROVE ChatInv
<1> DEFINE none == <<>>
<1>1. /\ at = "resolve" /\ leaving = FALSE /\ channel = 0 /\ sent = 0 /\ token = 0 /\ first = TRUE
      /\ stop = FALSE /\ connected = FALSE /\ answer = 0 /\ late = 0
      /\ ids = none /\ items = none /\ recorded = none /\ published = none
  BY DEF Chat!Init
<1>2. /\ none \in Seq(Nat) /\ none \in Seq(Comments) /\ Len(none) = 0 /\ DOMAIN none = {}
  BY EmptySeq
<1> HIDE DEF none
<1>3. Messages \in Nat
  BY PluginsAssumption DEF PluginsAssumption, Chat!SourceAssumption
<1>4. ThreadType
  <2>1. leaving \in BOOLEAN /\ stop \in BOOLEAN /\ first \in BOOLEAN
    BY <1>1
  <2> QED BY <1>1, <1>3, <2>1 DEF ThreadType, Chat!Places
<1>t. ListType
  BY <1>1, <1>2 DEF ListType
<1>5. OneLate /\ DownIsTold /\ FirstAnswer
  BY <1>1, <1>2 DEF OneLate, DownIsTold, FirstAnswer, Reads
<1>6. Covered
  BY <1>1, <1>2 DEF Covered, Reads
<1>7. LastAreKnown /\ FarApart
  <2>1. Window \in Nat
    BY PluginsAssumption DEF PluginsAssumption, Chat!SourceAssumption
  <2> QED BY <1>1, <1>2, <2>1 DEF LastAreKnown, FarApart
<1> QED BY <1>4, <1>t, <1>5, <1>6, <1>7 DEF ChatInv

\* What leaves the lists of messages alone.
LEMMA ChatMoves ==
  ASSUME ChatInv, ThreadType', OneLate', DownIsTold', UNCHANGED <<items, ids, recorded, published, first, answer>>,
         GoesOn' => GoesOn /\ token' <= token,
         at' = "stream" => (at = "stream" /\ sent' = sent) \/ (sent' <= token /\ GoesOn),
         Reads' => Reads /\ sent' = sent
  PROVE  ChatInv'
<1>1. ListType' /\ LastAreKnown' /\ FarApart'
  BY DEF ChatInv, ListType, LastAreKnown, FarApart
<1>2. FirstAnswer'
  BY DEF ChatInv, FirstAnswer
<1>3. \A m : (Handed(m) => Handed(m)') /\ (InHand(m) => InHand(m)')
  BY DEF Handed, InHand
<1>4. sent \in Nat /\ token \in Nat /\ sent' \in Nat /\ token' \in Nat
  BY DEF ChatInv, ThreadType
<1>5. Covered'
  BY <1>3, <1>4 DEF ChatInv, Covered
<1> QED BY <1>1, <1>2, <1>5 DEF ChatInv

Lists == <<items, ids, recorded, published, first, answer>>
\* The steps between two streams keep it.
LEMMA ChatGoes == ASSUME ChatInv, Chat!Resolve \/ Chat!Top \/ Chat!Open \/ Chat!Waited \/ Chat!Finally \/ Chat!OnClosed
                  PROVE  ChatInv'
<1>t. ThreadType /\ OneLate /\ DownIsTold
  BY DEF ChatInv
<1>1. /\ UNCHANGED Lists /\ UNCHANGED <<stop, token, late>> /\ at \notin {"items", "emit"}
      /\ at' \in {"top", "end", "open", "stream", "finally", "gone"}
      /\ leaving' \in BOOLEAN
  BY <1>t DEF Lists, Chat!Resolve, Chat!Top, Chat!Open, Chat!Waited, Chat!Finally, Chat!OnClosed, Chat!Go, Chat!Again,
              Chat!local, Chat!caller, Chat!history, Chat!Keep, ThreadType
<1>2. /\ \/ at' = "stream" /\ at = "open" /\ sent' = token
         \/ at' # "stream" /\ sent' = sent
      /\ GoesOn' => GoesOn
  BY <1>t DEF GoesOn, Chat!Resolve, Chat!Top, Chat!Open, Chat!Waited, Chat!Finally, Chat!OnClosed, Chat!Go, Chat!Again,
              Chat!caller, ThreadType
<1>3. DownIsTold'
  <2>1. CASE Chat!Finally
    BY <2>1 DEF Chat!Finally, Chat!Report, DownIsTold
  <2>2. CASE Chat!Open \/ Chat!Waited
    BY <2>2 DEF Chat!Open, Chat!Waited, Chat!Go, Chat!Again, DownIsTold
  <2>3. CASE Chat!Resolve \/ Chat!Top \/ Chat!OnClosed
    BY <1>t, <2>3 DEF Chat!Resolve, Chat!Top, Chat!OnClosed, Chat!Go, DownIsTold
  <2> QED BY <2>1, <2>2, <2>3
<1>4. token \in 0 .. sent /\ sent \in 0 .. Messages /\ Messages \in Nat
  BY <1>t, PluginsAssumption DEF ThreadType, PluginsAssumption, Chat!SourceAssumption
<1>5. sent' \in 0 .. Messages /\ token' \in 0 .. sent' /\ (at' = "stream" => sent' <= token)
  BY <1>1, <1>2, <1>4
<1>6. ThreadType'
  BY <1>t, <1>1, <1>5 DEF ThreadType, Chat!Places, Lists
<1>7. OneLate'
  BY <1>t, <1>1 DEF OneLate
<1>8. ~Reads'
  BY <1>1 DEF Reads
<1>9. token' <= token /\ (at' = "stream" => sent' <= token /\ GoesOn)
  BY <1>1, <1>2, <1>4, <1>5 DEF GoesOn
<1> QED BY <1>1, <1>2, <1>3, <1>5, <1>6, <1>7, <1>8, <1>9, ChatMoves DEF Lists

\* It is kept where a response is left, an item begun, or a stream ends.
LEMMA ChatStops ==
  ASSUME ChatInv, Chat!StopAtResponse \/ Chat!NextItem \/ Chat!Exhausted \/ Chat!Broken \/ (\E b \in BOOLEAN : Chat!Offline(b))
  PROVE  ChatInv'
<1>t. ThreadType /\ OneLate /\ DownIsTold
  BY DEF ChatInv
<1>1. /\ UNCHANGED Lists /\ UNCHANGED <<stop, late, sent>> /\ token' \in {token, sent}
      /\ at \in {"stream", "items"} /\ at' \in {"finally", "wait", "emit"} /\ leaving' \in BOOLEAN
  BY <1>t DEF Lists, Chat!StopAtResponse, Chat!NextItem, Chat!Exhausted, Chat!Broken, Chat!Offline, Chat!TestStop,
              Chat!AfterError, Chat!MayEnd, Chat!Return, Chat!Again, Chat!local, Chat!caller, Chat!history, ThreadType
<1>2. /\ GoesOn' => at = "stream" /\ token' = token
      /\ at' = "emit" => at = "items" /\ stop = FALSE /\ items # <<>>
  BY <1>t DEF GoesOn, Chat!StopAtResponse, Chat!NextItem, Chat!Exhausted, Chat!Broken, Chat!Offline, Chat!TestStop,
              Chat!AfterError, Chat!MayEnd, Chat!Return, Chat!Again, Chat!local, ThreadType
<1>4. token \in 0 .. sent /\ sent \in 0 .. Messages /\ Messages \in Nat
  BY <1>t, PluginsAssumption DEF ThreadType, PluginsAssumption, Chat!SourceAssumption
<1>5. sent' \in 0 .. Messages /\ token' \in 0 .. sent'
  BY <1>1, <1>4
<1>6. ThreadType'
  BY <1>t, <1>1, <1>5 DEF ThreadType, Chat!Places, Lists
<1>7. OneLate' /\ DownIsTold'
  BY <1>t, <1>1, <1>2 DEF OneLate, DownIsTold, Lists
<1>8. GoesOn' => GoesOn /\ token' <= token
  BY <1>2, <1>4 DEF GoesOn
<1>9. at' # "stream" /\ (Reads' => Reads /\ sent' = sent)
  BY <1>1, <1>2 DEF Reads
<1> QED BY <1>1, <1>6, <1>7, <1>8, <1>9, ChatMoves DEF Lists

\* Closing the source keeps it.
LEMMA ChatCloses ==
  ASSUME ChatInv, Chat!Close
  PROVE  ChatInv'
<1>t. ThreadType /\ OneLate /\ DownIsTold
  BY DEF ChatInv
<1>1. /\ UNCHANGED Lists /\ UNCHANGED <<at, leaving, sent, token, late, connected, channel>>
      /\ stop' \in {stop, TRUE}
  BY DEF Lists, Chat!Close, Chat!SetStop, Chat!CopyChannel, Chat!ShutChannel, Chat!Join, Chat!local, Chat!history
<1>2. stop' \in BOOLEAN
  BY <1>t, <1>1 DEF ThreadType
<1>3. ThreadType' /\ OneLate' /\ DownIsTold'
  BY <1>t, <1>1, <1>2 DEF ThreadType, OneLate, DownIsTold, Lists
<1>4. token \in Nat
  BY <1>t DEF ThreadType
<1>5. (GoesOn' => GoesOn /\ token' <= token) /\ (Reads' => Reads /\ sent' = sent)
      /\ (at' = "stream" => at = "stream" /\ sent' = sent)
  BY <1>1, <1>4 DEF GoesOn, Reads
<1> QED BY <1>1, <1>3, <1>5, ChatMoves DEF Lists

\* A response that is done moves the page token over what was handed on.
LEMMA ChatReadOn == ASSUME ChatInv, Chat!EndOfResponse PROVE ChatInv'
<1>1. /\ at = "items" /\ at' = "stream" /\ items = <<>> /\ first' = FALSE
      /\ UNCHANGED <<leaving, sent, token, items, ids, recorded, published, answer, late, stop>>
  BY DEF Chat!EndOfResponse, Chat!Go, Chat!history, Chat!caller
<1>2. DOMAIN items = {}
  BY <1>1, EmptySeq
<1>3. \A m : ~InHand(m)
  BY <1>2 DEF InHand
<1>4. token \in 0 .. sent /\ sent \in Nat
  BY DEF ChatInv, ThreadType
<1>f. first' \in BOOLEAN
  BY <1>1
<1>5. ThreadType' /\ ListType' /\ OneLate' /\ DownIsTold' /\ LastAreKnown' /\ FarApart'
  <2>1. ThreadType'
    BY <1>1, <1>4, <1>f DEF ChatInv, ThreadType, Chat!Places
  <2> QED BY <1>1, <2>1 DEF ChatInv, ListType, OneLate, DownIsTold, LastAreKnown, FarApart
<1>6. FirstAnswer'
  BY <1>1 DEF ChatInv, FirstAnswer, GoesOn, Reads
<1>7. \A m \in 1 .. sent : m \in Hidden \/ Handed(m)
  BY <1>1, <1>3 DEF ChatInv, Covered, Reads
<1>8. \A m : Handed(m) => Handed(m)'
  BY <1>1 DEF Handed
<1>9. Covered'
  BY <1>1, <1>4, <1>7, <1>8 DEF ChatInv, Covered, Reads
<1> QED BY <1>5, <1>6, <1>9 DEF ChatInv

\* A response brings messages behind those sent before.
LEMMA ChatAnswers ==
  ASSUME ChatInv, NEW upto \in sent .. Messages, NEW marked \in BOOLEAN, Chat!Answer(upto, marked)
  PROVE  ChatInv'
<1> DEFINE n == upto - sent
<1>1. /\ at = "stream" /\ at' = "items" /\ stop = FALSE /\ sent' = upto /\ token' \in {upto, token}
      /\ items' = [i \in 1 .. n |-> sent + i]
      /\ answer' = (IF answer < 2 THEN answer + 1 ELSE 2)
      /\ UNCHANGED <<leaving, first, ids, recorded, published, late, stop>>
  BY DEF Chat!Answer, Chat!Go, Chat!caller, ChatInv, ThreadType
<1>2. /\ sent \in Nat /\ token \in 0 .. sent /\ upto \in Nat /\ Messages \in Nat /\ n \in Nat /\ upto \in 0 .. Messages
      /\ answer \in 0 .. 2
  BY PluginsAssumption DEF ChatInv, ThreadType, PluginsAssumption, Chat!SourceAssumption
<1>3. items' \in Seq(Nat) /\ DOMAIN items' = 1 .. n /\ \A i \in 1 .. n : items'[i] = sent + i
  <2>1. items' \in [1 .. n -> Nat]
    BY <1>1, <1>2
  <2>2. items' \in Seq(Nat)
    BY <1>2, <2>1, SeqDef
  <2> QED BY <1>1, <2>2
<1>4. ThreadType'
  BY <1>1, <1>2 DEF ChatInv, ThreadType, Chat!Places
<1>5. ListType' /\ OneLate' /\ DownIsTold' /\ LastAreKnown' /\ FarApart'
  BY <1>1, <1>3 DEF ChatInv, ListType, OneLate, DownIsTold, LastAreKnown, FarApart
<1>6. FirstAnswer'
  BY <1>1, <1>2 DEF ChatInv, FirstAnswer, GoesOn, Reads
<1>7. \A m : Handed(m) => Handed(m)'
  BY <1>1 DEF Handed
<1>8. ASSUME NEW m \in 1 .. upto PROVE m \in Hidden \/ Handed(m)' \/ InHand(m)'
  <2>1. CASE m <= sent
    BY <1>1, <1>2, <1>7, <2>1 DEF ChatInv, Covered
  <2>2. CASE m > sent
    <3>1. m - sent \in 1 .. n /\ items'[m - sent] = m
      BY <1>2, <1>3, <2>2
    <3> QED BY <1>3, <3>1 DEF InHand
  <2> QED BY <1>2, <2>1, <2>2
<1>9. Covered'
  BY <1>1, <1>7, <1>8 DEF ChatInv, Covered, GoesOn
<1> QED BY <1>4, <1>5, <1>6, <1>9 DEF ChatInv

\* A message that was not remembered is, and the first is forgotten when the
\* limit is reached.
LEMMA Remembered ==
  ASSUME ListType, LastAreKnown, FarApart, NEW m \in Nat, ~Chat!Seen(m), Chat!Remember(m), recorded' = Append(recorded, m)
  PROVE  /\ ids' \in Seq(Nat) /\ recorded' \in Seq(Nat) /\ LastAreKnown' /\ FarApart'
         /\ \A i \in DOMAIN ids' : ids'[i] = m \/ \E j \in DOMAIN ids : ids'[i] = ids[j]
<1> DEFINE n == Len(ids)
           r == Len(recorded)
           all == Append(ids, m)
<1>1. /\ n \in Nat /\ r \in Nat /\ Window \in Nat \ {0} /\ DOMAIN ids = 1 .. n
      /\ n <= Window /\ n <= r /\ n \in {Window, r}
      /\ \A i \in 1 .. n : ids[i] = recorded[r - n + i]
  BY LenProperties, PluginsAssumption DEF ListType, LastAreKnown, PluginsAssumption, Chat!SourceAssumption
<1>2. /\ all \in Seq(Nat) /\ Len(all) = n + 1 /\ all[n + 1] = m /\ all # <<>>
      /\ \A i \in 1 .. n : all[i] = ids[i]
  <2>1. ids \in Seq(Nat)
    BY DEF ListType
  <2>2. all \in Seq(Nat) /\ Len(all) = n + 1 /\ all[n + 1] = m /\ \A i \in 1 .. n : all[i] = ids[i]
    BY <2>1, AppendProperties
  <2>3. all # <<>>
    BY <2>1, AppendProperties
  <2> QED BY <2>2, <2>3
<1>3. /\ recorded' \in Seq(Nat) /\ Len(recorded') = r + 1 /\ recorded'[r + 1] = m
      /\ \A i \in 1 .. r : recorded'[i] = recorded[i]
  BY AppendProperties DEF ListType
<1>4. ids' = IF Len(all) > Window THEN Tail(all) ELSE all
  BY DEF Chat!Remember
<1>5. \A i \in 1 .. n : recorded[r - n + i] # m
  BY <1>1 DEF Chat!Seen
<1> HIDE DEF all, n, r
<1>6. /\ ids' \in Seq(Nat) /\ Len(ids') = (IF n = Window THEN n ELSE n + 1)
      /\ \A i \in 1 .. Len(ids') : ids'[i] = all[Len(all) - Len(ids') + i]
  <2>1. CASE n = Window
    <3>1. ids' = Tail(all)
      BY <1>1, <1>2, <1>4, <2>1
    <3>2. Tail(all) \in Seq(Nat) /\ Len(Tail(all)) = Len(all) - 1 /\ \A i \in 1 .. Len(Tail(all)) : Tail(all)[i] = all[i + 1]
      BY <1>2, HeadTailProperties
    <3>3. Len(ids') = n /\ Len(all) - Len(ids') = 1
      BY <1>1, <1>2, <3>1, <3>2
    <3>4. \A i \in 1 .. Len(ids') : ids'[i] = all[i + 1] /\ 1 + i = i + 1
      BY <1>1, <3>1, <3>2, <3>3
    <3> QED BY <2>1, <3>1, <3>2, <3>3, <3>4
  <2>2. CASE n # Window
    <3>1. ids' = all
      BY <1>1, <1>2, <1>4, <2>2
    <3>2. Len(ids') = n + 1 /\ Len(all) - Len(ids') = 0 /\ \A i \in 1 .. Len(ids') : 0 + i = i
      BY <1>1, <1>2, <3>1
    <3> QED BY <1>2, <2>2, <3>1, <3>2
  <2> QED BY <2>1, <2>2
<1>7. DOMAIN ids' = 1 .. Len(ids') /\ Len(ids') \in Nat
  BY <1>6, LenProperties
<1>8. \A i \in 1 .. n + 1 : all[i] = recorded'[r - n + i]
  <2> SUFFICES ASSUME NEW i \in 1 .. n + 1 PROVE all[i] = recorded'[r - n + i]
    OBVIOUS
  <2>1. CASE i = n + 1
    <3>1. r - n + i = r + 1
      BY <1>1, <2>1
    <3> QED BY <1>2, <1>3, <2>1, <3>1
  <2>2. CASE i \in 1 .. n
    <3> DEFINE k == r - n + i
    <3>1. k \in 1 .. r
      BY <1>1, <2>2
    <3>2. ids[i] = recorded[k] /\ all[i] = ids[i]
      BY <1>1, <1>2, <2>2
    <3> HIDE DEF k
    <3>3. recorded'[k] = recorded[k]
      BY <1>3, <3>1
    <3>4. all[i] = recorded'[k]
      BY <3>2, <3>3
    <3> QED BY <3>4 DEF k
  <2>3. i = n + 1 \/ i \in 1 .. n
    BY <1>1
  <2> QED BY <2>1, <2>2, <2>3
<1>9. LastAreKnown'
  <2>1. Len(ids') <= Window /\ Len(ids') <= Len(recorded') /\ Len(ids') \in {Window, Len(recorded')}
    BY <1>1, <1>3, <1>6 
  <2>2. ASSUME NEW i \in 1 .. Len(ids') PROVE ids'[i] = recorded'[Len(recorded') - Len(ids') + i]
    <3>1. Len(all) - Len(ids') + i \in 1 .. n + 1
      BY <1>1, <1>2, <1>6, <1>7
    <3>2. r - n + (Len(all) - Len(ids') + i) = Len(recorded') - Len(ids') + i
      BY <1>1, <1>2, <1>3, <1>7
    <3> QED BY <1>6, <1>8, <3>1, <3>2
  <2> QED BY <2>1, <2>2 DEF LastAreKnown
<1>10. FarApart'
  <2> SUFFICES ASSUME NEW i \in 1 .. r + 1, NEW j \in 1 .. r + 1, i < j, recorded'[i] = recorded'[j]
               PROVE  j - i > Window
    BY <1>3 DEF FarApart
  <2>1. CASE j <= r
    BY <1>1, <1>3, <2>1 DEF FarApart, r
  <2>2. CASE j = r + 1
    <3>1. i \in 1 .. r /\ recorded[i] = m
      BY <1>1, <1>3, <2>2
    <3>2. ~(i > r - n)
      <4> SUFFICES ASSUME i > r - n PROVE FALSE
        OBVIOUS
      <4>1. i - (r - n) \in 1 .. n /\ r - n + (i - (r - n)) = i
        BY <1>1, <3>1
      <4> QED BY <1>5, <3>1, <4>1
    <3> QED BY <1>1, <2>2, <3>1, <3>2
  <2> QED BY <1>1, <2>1, <2>2
<1>11. ASSUME NEW i \in DOMAIN ids' PROVE ids'[i] = m \/ \E j \in DOMAIN ids : ids'[i] = ids[j]
  <2>1. i \in 1 .. Len(ids')
    BY <1>7
  <2>4. Len(all) - Len(ids') + i \in 1 .. n + 1
    <3>1. Len(ids') \in {n, n + 1}
      BY <1>6
    <3>2. n \in Nat /\ Len(all) = n + 1 /\ i \in Nat \ {0} /\ i <= Len(ids')
      BY <1>1, <1>2, <1>7, <2>1
    <3>3. CASE Len(ids') = n
      <4>1. Len(all) - Len(ids') + i = i + 1
        BY <3>2, <3>3
      <4> QED BY <3>2, <3>3, <4>1
    <3>4. CASE Len(ids') = n + 1
      <4>1. Len(all) - Len(ids') + i = i
        BY <3>2, <3>4
      <4> QED BY <3>2, <3>4, <4>1
    <3> QED BY <3>1, <3>3, <3>4
  <2>5. ids'[i] = all[Len(all) - Len(ids') + i]
    BY <1>6, <2>1
  <2> DEFINE k == Len(all) - Len(ids') + i
  <2> HIDE DEF k
  <2>2. k \in 1 .. n + 1 /\ ids'[i] = all[k]
    BY <2>4, <2>5 DEF k
  <2>3. k = n + 1 \/ k \in 1 .. n
    BY <1>1, <2>2
  <2> QED BY <1>1, <1>2, <2>2, <2>3
<1> QED BY <1>3, <1>6, <1>9, <1>10, <1>11

NowHanded(x) == \E i \in DOMAIN published' : published'[i].id = x
NowInHand(x) == \E i \in DOMAIN items' : items'[i] = x
\* An item is recorded and handed on, or is known already.
LEMMA ChatTakes == ASSUME ChatInv, Chat!Item PROVE ChatInv'
<1> DEFINE m == Head(items)
           c == [id |-> m, history |-> first, answer |-> answer]
<1>1. /\ at = "emit" /\ at' = "items" /\ items' = Tail(items)
      /\ IF Chat!Seen(m) THEN UNCHANGED <<ids, recorded>> ELSE Chat!Remember(m) /\ recorded' = Append(recorded, m)
      /\ IF Chat!Seen(m) \/ m \in Hidden THEN UNCHANGED <<published, late>>
         ELSE published' = Append(published, c) /\ late' = (IF stop THEN late + 1 ELSE late)
      /\ UNCHANGED <<leaving, sent, token, first, connected, channel, stop, answer>>
  BY DEF Chat!Item, Chat!Go, Chat!Rest, Chat!HandOn, Chat!caller
<1>t. ThreadType /\ ListType /\ late = 0 /\ items # <<>> /\ LastAreKnown /\ FarApart /\ first \in BOOLEAN
      /\ sent \in Nat /\ token \in 0 .. sent
  BY <1>1 DEF ChatInv, OneLate, ThreadType
<1>2. /\ m \in Nat /\ items' \in Seq(Nat) /\ m = items[1]
      /\ DOMAIN items = 1 .. Len(items) /\ DOMAIN items' = 1 .. Len(items') /\ Len(items') = Len(items) - 1
      /\ Len(items) \in Nat \ {0}
      /\ \A i \in 1 .. Len(items') : items'[i] = items[i + 1]
  <2>1. items \in Seq(Nat) /\ items # <<>>
    BY <1>t DEF ListType
  <2>2. m \in Nat /\ Tail(items) \in Seq(Nat) /\ Len(Tail(items)) = Len(items) - 1
        /\ \A i \in 1 .. Len(Tail(items)) : Tail(items)[i] = items[i + 1]
    BY <2>1, HeadTailProperties
  <2>3. Len(items) \in Nat \ {0} /\ DOMAIN items = 1 .. Len(items) /\ DOMAIN Tail(items) = 1 .. Len(Tail(items))
    BY <2>1, <2>2, EmptySeq, LenProperties
  <2>4. m = items[1]
    OBVIOUS
  <2> QED BY <1>1, <2>2, <2>3, <2>4
<1> HIDE DEF m
<1>3. /\ ids' \in Seq(Nat) /\ recorded' \in Seq(Nat) /\ LastAreKnown' /\ FarApart'
      /\ \A i \in DOMAIN ids' : ids'[i] = m \/ \E j \in DOMAIN ids : ids'[i] = ids[j]
  <2>1. CASE Chat!Seen(m)
    BY <1>1, <1>t, <2>1 DEF ListType, LastAreKnown, FarApart
  <2>2. CASE ~Chat!Seen(m)
    BY <1>1, <1>2, <1>t, <2>2, Remembered
  <2> QED BY <2>1, <2>2
<1>4. c \in Comments /\ c.id = m /\ c.history = first /\ c.answer = answer
  BY <1>2, <1>t DEF ThreadType, Comments
<1> HIDE DEF c
<1>5. /\ published' \in Seq(Comments)
      /\ \A i \in DOMAIN published' : published'[i] = c \/ \E j \in DOMAIN published : published'[i] = published[j]
      /\ \A i \in DOMAIN published : i \in DOMAIN published' /\ published'[i] = published[i]
      /\ ~Chat!Seen(m) /\ m \notin Hidden => \E i \in DOMAIN published' : published'[i] = c
  <2>1. published \in Seq(Comments) /\ DOMAIN published = 1 .. Len(published) /\ Len(published) \in Nat
    BY <1>t, LenProperties DEF ListType
  <2>2. CASE Chat!Seen(m) \/ m \in Hidden
    BY <1>1, <2>1, <2>2
  <2>3. CASE ~Chat!Seen(m) /\ m \notin Hidden
    <3> DEFINE longer == Append(published, c)
    <3>1. /\ longer \in Seq(Comments) /\ Len(longer) = Len(published) + 1 /\ longer[Len(published) + 1] = c
          /\ \A i \in 1 .. Len(published) : longer[i] = published[i]
      BY <1>4, <2>1, AppendProperties
    <3> HIDE DEF longer
    <3>2. DOMAIN longer = 1 .. Len(published) + 1
      BY <3>1, LenProperties
    <3>3. published' = longer
      BY <1>1, <2>3 DEF longer
    <3>4. Len(published) + 1 \in DOMAIN longer
      BY <2>1, <3>2
    <3>5. \A i \in DOMAIN longer : i = Len(published) + 1 \/ i \in 1 .. Len(published)
      BY <2>1, <3>2
    <3>6. \A i \in 1 .. Len(published) : i \in DOMAIN longer
      BY <2>1, <3>2
    <3> QED BY <2>1, <3>1, <3>3, <3>4, <3>5, <3>6
  <2> QED BY <2>2, <2>3
<1>6. \A x : Handed(x) => NowHanded(x)
  BY <1>5 DEF Handed, NowHanded
<1>7. m \in Hidden \/ NowHanded(m)
  <2>1. CASE Chat!Seen(m)
    <3>1. PICK i \in 1 .. Len(ids) : ids[i] = m
      BY <2>1 DEF Chat!Seen
    <3>2. i \in DOMAIN ids
      BY <1>t, <3>1, LenProperties DEF ListType
    <3> QED BY <1>6, <3>1, <3>2 DEF ChatInv, Covered
  <2>2. CASE ~Chat!Seen(m) /\ m \notin Hidden
    BY <1>4, <1>5, <2>2 DEF NowHanded
  <2> QED BY <2>1, <2>2
<1>8. \A x : InHand(x) => x = m \/ NowInHand(x)
  <2> SUFFICES ASSUME NEW x, NEW i \in DOMAIN items, items[i] = x, x # m PROVE NowInHand(x)
    BY DEF InHand
  <2>1. i \in 1 .. Len(items) /\ i # 1
    BY <1>2
  <2>2. i - 1 \in DOMAIN items' /\ i - 1 + 1 = i
    BY <1>2, <2>1
  <2>3. items'[i - 1] = items[i]
    BY <1>2, <2>2
  <2> QED BY <2>2, <2>3 DEF NowInHand
<1>9. ThreadType'
  <2>1. late' \in 0 .. 1
    BY <1>1, <1>t
  <2> QED BY <1>1, <1>t, <2>1 DEF ThreadType, Chat!Places
<1>10. ListType' /\ OneLate' /\ DownIsTold'
  BY <1>1, <1>2, <1>3, <1>5, <1>t DEF ListType, ChatInv, OneLate, DownIsTold
<1>11. FirstAnswer'
  <2>1. c.history = TRUE <=> c.answer = 1
    BY <1>1, <1>4 DEF ChatInv, FirstAnswer, Reads
  <2>2. \A i \in DOMAIN published' : published'[i].history = TRUE <=> published'[i].answer = 1
    BY <1>5, <2>1 DEF ChatInv, FirstAnswer
  <2> QED BY <1>1, <2>2 DEF ChatInv, FirstAnswer, GoesOn, Reads
<1>12. Covered'
  <2>1. \A x \in 1 .. sent : x \in Hidden \/ Handed(x) \/ InHand(x)
    BY <1>1 DEF ChatInv, Covered, Reads
  <2>2. \A x \in 1 .. sent : x \in Hidden \/ NowHanded(x) \/ NowInHand(x)
    BY <1>6, <1>7, <1>8, <2>1
  <2>3. \A i \in DOMAIN ids' : ids'[i] \in Hidden \/ NowHanded(ids'[i])
    <3> SUFFICES ASSUME NEW i \in DOMAIN ids', NEW x, x = ids'[i] PROVE x \in Hidden \/ NowHanded(x)
      OBVIOUS
    <3>1. CASE x = m
      BY <1>7, <3>1
    <3>2. CASE \E j \in DOMAIN ids : x = ids[j]
      BY <1>6, <3>2 DEF ChatInv, Covered
    <3> QED BY <1>3, <3>1, <3>2
  <2>4. ~GoesOn' /\ at' # "stream" /\ sent' = sent
    BY <1>1 DEF GoesOn
  <2>5. \A i \in DOMAIN ids' : ids'[i] \in Hidden \/ \E j \in DOMAIN published' : published'[j].id = ids'[i]
    BY <2>3 DEF NowHanded
  <2>6. \A x \in 1 .. sent' : x \in Hidden \/ Handed(x)' \/ InHand(x)'
    BY <2>2, <2>4 DEF Handed, InHand, NowHanded, NowInHand
  <2>7. (\A i \in DOMAIN ids : ids[i] \in Hidden \/ Handed(ids[i]))'
    BY <2>5 DEF Handed
  <2> QED BY <2>4, <2>6, <2>7 DEF Covered
<1> QED BY <1>3, <1>9, <1>10, <1>11, <1>12 DEF ChatInv

\* Every step of the source keeps its invariant.
LEMMA ChatStep == ASSUME ChatInv, Chat!Next PROVE ChatInv'
<1>1. CASE Chat!Own
  BY <1>1, ChatGoes, ChatStops, ChatTakes, ChatReadOn DEF Chat!Own
<1>2. CASE Chat!Service
  BY <1>2, ChatAnswers, ChatStops DEF Chat!Service
<1> QED BY <1>1, <1>2, ChatCloses DEF Chat!Next

\* While another part runs, it stays.
LEMMA ChatRests == ASSUME ChatInv, UNCHANGED sourceVars PROVE ChatInv'
<1>1. /\ UNCHANGED <<at, leaving, channel, sent, token, first, ids, items, stop, connected>>
      /\ UNCHANGED <<recorded, published, answer, late>>
  BY DEF sourceVars
<1>2. ThreadType' /\ OneLate' /\ DownIsTold'
  BY <1>1 DEF ChatInv, ThreadType, OneLate, DownIsTold
<1>3. ListType' /\ LastAreKnown' /\ FarApart' /\ FirstAnswer'
  BY <1>1 DEF ChatInv, ListType, LastAreKnown, FarApart, FirstAnswer, GoesOn, Reads
<1>4. Covered'
  BY <1>1 DEF ChatInv, Covered, GoesOn, Reads, Handed, InHand
<1> QED BY <1>2, <1>3, <1>4 DEF ChatInv

\* For any messages, pages, window and breaks: a message the token covers
\* was handed on or is in the response in hand, and what is remembered is
\* what was recorded last (source.py).
THEOREM SourceInvariance == PluginsSpec => [](part = "chat" => ChatInv)
<1>1. ASSUME PluginsInit PROVE part = "chat" => ChatInv
  BY <1>1, ChatInit DEF PluginsInit
<1>2. ASSUME part = "chat" => ChatInv, PluginsNext PROVE (part = "chat" => ChatInv)'
  <2>1. CASE part = "chat" /\ Chat!Next
    BY <1>2, <2>1, ChatStep DEF PluginsNext
  <2>2. CASE UNCHANGED sourceVars
    BY <1>2, <2>2, ChatRests DEF PluginsNext
  <2> QED BY <1>2, <2>1, <2>2 DEF PluginsNext, others
<1>3. ASSUME part = "chat" => ChatInv, UNCHANGED <<part, vars, others, audioVars, serviceVars>>
      PROVE  (part = "chat" => ChatInv)'
  BY <1>3, ChatRests DEF others
<1> QED BY <1>1, <1>2, <1>3, PTL DEF PluginsSpec

\* Comments arrive, for any size of a page and of the window, whatever is
\* hidden and however often the stream breaks: none is handed on twice within
\* the window, none that a page token covers is lost, only the first response
\* is history, what is down is reported so, and at most one comment comes
\* after close (youtube/source.py stream_chat and run).
THEOREM EveryCommentArrives == PluginsSpec => []CommentsArrive
<1>1. ASSUME ChatInv PROVE Chat!NoRepeat
  BY <1>1 DEF ChatInv, FarApart, Chat!NoRepeat
<1>2. ASSUME ChatInv PROVE Chat!NothingLost
  <2> SUFFICES ASSUME at \in {"stream", "wait", "top", "open"}, NEW m \in (1 .. token) \ Hidden
               PROVE  \E i \in 1 .. Len(published) : published[i].id = m
    BY DEF Chat!NothingLost
  <2>1. Handed(m)
    BY <1>2 DEF ChatInv, Covered, GoesOn
  <2> QED BY <1>2, <2>1, LenProperties DEF ChatInv, ListType, Handed
<1>3. ASSUME ChatInv PROVE Chat!HistoryIsFirst
  <2> SUFFICES ASSUME NEW i \in 1 .. Len(published) PROVE published[i].history <=> published[i].answer = 1
    BY DEF Chat!HistoryIsFirst
  <2>1. published[i] \in Comments /\ i \in DOMAIN published
    BY <1>3, ElementOfSeq, LenProperties DEF ChatInv, ListType
  <2>2. published[i].history = TRUE <=> published[i].answer = 1
    BY <1>3, <2>1 DEF ChatInv, FirstAnswer
  <2>3. published[i].history \in BOOLEAN
    BY <2>1 DEF Comments
  <2> QED BY <2>2, <2>3
<1>4. ASSUME ChatInv PROVE Chat!DownIsReported /\ Chat!AtMostOneLate
  BY <1>4 DEF ChatInv, ThreadType, DownIsTold, Chat!DownIsReported, Chat!AtMostOneLate
<1>5. (part = "chat" => ChatInv) => CommentsArrive
  BY <1>1, <1>2, <1>3, <1>4 DEF CommentsArrive
<1> QED BY <1>5, SourceInvariance, PTL

-----------------------------------------------------------------------------
(***************************************************************************)
(* The loading and the end of the plugins.  Every folder is in line until  *)
(* there is a reason for its status, and who holds something is in hand or *)
(* in the list that the end of the program works off.                      *)
(***************************************************************************)
Manifests == [id : Ids, error : BOOLEAN, enabled : BOOLEAN]
Contexts == [accepting : BOOLEAN, provider : Ids \cup {"none"}, callbacks : Seq(Load!Resources), failed : BOOLEAN]
LoadType ==
  /\ info \in [Load!Folders -> Manifests]
  /\ status \in [Load!Folders -> {"new", "loaded", "error", "disabled"}]
  /\ step \in {"next", "run", "examine", "release", "running", "closing"}
TakenType ==
  /\ context \in [Load!Folders -> Contexts] /\ called \in [Load!Folders -> Seq(Load!Resources)]
  /\ order \in Seq(Load!Folders) /\ contexts \in Seq(Load!Folders)

Listed(q, f) == \E i \in DOMAIN q : q[i] = f
Unlike(q) == \A i, j \in DOMAIN q : q[i] = q[j] => i = j
Loading(f) == step \in {"run", "examine", "release"} /\ f = Head(order)
Refused(f) == info[f].error = TRUE \/ Load!Duplicate(f) \/ info[f].enabled = FALSE

\* A folder is in line until its status is known, and there is a reason for it.
InLine ==
  /\ Unlike(order) /\ (step \in {"run", "examine", "release"} => order # <<>>)
  /\ step \in {"running", "closing"} => order = <<>>
  /\ \A f \in Load!Folders : status[f] = "new" <=> Listed(order, f)
  /\ \A f \in Load!Folders : Loading(f) => ~Refused(f) /\ (step = "release" => f \in blamed)
  /\ \A f \in Load!Folders :
       \/ status[f] = "new"
       \/ status[f] = "loaded" /\ ~Refused(f)
       \/ status[f] \in {"error", "disabled"} /\ (Refused(f) \/ f \in blamed)
\* Who holds something is in hand or among the contexts of loaded plugins.
Held ==
  /\ \A f \in Load!Folders : Listed(contexts, f) => status[f] = "loaded"
  /\ \A f \in Load!Folders : context[f].callbacks # <<>> => Loading(f) \/ Listed(contexts, f)
\* Nothing is taken twice, the module first, and nothing is called before the end.
Taken(f) ==
  /\ Unlike(context[f].callbacks) /\ Unlike(called[f])
  /\ \A r \in Load!Resources : ~(Listed(context[f].callbacks, r) /\ Listed(called[f], r))
  /\ \A i \in DOMAIN context[f].callbacks : context[f].callbacks[i] = "module" => i = 1
  /\ context[f].provider = "none" => ~Listed(context[f].callbacks, "provider")
  /\ Listed(called[f], "module") => context[f].callbacks = <<>>
CalledLate(f) == called[f] # <<>> => status[f] # "new" \/ (Loading(f) /\ step = "release")
TakenOnce == \A f \in Load!Folders : Taken(f) /\ CalledLate(f)
KnownStay == \A i \in known : i \in DOMAIN config /\ config[i].user = TRUE
LoadInv == LoadType /\ TakenType /\ InLine /\ Held /\ TakenOnce /\ KnownStay

\* Of a list without repetition, all but the first are in the tail.
LEMMA ListedInTail ==
  ASSUME NEW S, NEW q \in Seq(S), q # <<>>, Unlike(q)
  PROVE  /\ Head(q) \in S /\ Tail(q) \in Seq(S) /\ Unlike(Tail(q)) /\ Listed(q, Head(q))
         /\ \A f : Listed(Tail(q), f) <=> Listed(q, f) /\ f # Head(q)
<1> DEFINE rest == Tail(q)
           h == Head(q)
<1>1. /\ h \in S /\ rest \in Seq(S) /\ Len(rest) = Len(q) - 1
      /\ \A i \in 1 .. Len(rest) : rest[i] = q[i + 1]
  BY HeadTailProperties
<1>2. h = q[1]
  OBVIOUS
<1> HIDE DEF rest, h
<1>3. /\ Len(q) \in Nat \ {0} /\ DOMAIN q = 1 .. Len(q) /\ DOMAIN rest = 1 .. Len(rest)
      /\ Len(rest) \in Nat
  BY <1>1, LenProperties, EmptySeq
<1>4. \A i \in DOMAIN rest : i \in Nat /\ i + 1 \in DOMAIN q /\ i + 1 # 1 /\ rest[i] = q[i + 1]
  BY <1>1, <1>3
<1>5. \A i \in DOMAIN q : i = 1 \/ (i - 1 \in DOMAIN rest /\ rest[i - 1] = q[i])
  <2> SUFFICES ASSUME NEW i \in DOMAIN q, i # 1 PROVE i - 1 \in DOMAIN rest /\ rest[i - 1] = q[i]
    OBVIOUS
  <2>1. i - 1 \in DOMAIN rest /\ i - 1 + 1 = i
    BY <1>1, <1>3
  <2> QED BY <1>4, <2>1
<1>6. 1 \in DOMAIN q
  BY <1>3
<1>7. Unlike(rest)
  <2> SUFFICES ASSUME NEW i \in DOMAIN rest, NEW j \in DOMAIN rest, rest[i] = rest[j] PROVE i = j
    BY DEF Unlike
  <2>1. i + 1 = j + 1
    BY <1>4 DEF Unlike
  <2> QED BY <1>4, <2>1
<1>8. ASSUME NEW f, Listed(rest, f) PROVE Listed(q, f) /\ f # h
  <2>1. PICK i \in DOMAIN rest : rest[i] = f
    BY <1>8 DEF Listed
  <2>2. q[i + 1] = f /\ i + 1 \in DOMAIN q /\ i + 1 # 1
    BY <1>4, <2>1
  <2> QED BY <1>2, <1>6, <2>2 DEF Unlike, Listed
<1>9. ASSUME NEW f, Listed(q, f), f # h PROVE Listed(rest, f)
  BY <1>2, <1>5, <1>9 DEF Listed
<1> QED BY <1>1, <1>2, <1>6, <1>7, <1>8, <1>9 DEF rest, h, Listed

\* What is appended is in the list, with what was there before.
LEMMA ListedGrown ==
  ASSUME NEW S, NEW q \in Seq(S), NEW x \in S
  PROVE  /\ Append(q, x) \in Seq(S) /\ (~Listed(q, x) /\ Unlike(q) => Unlike(Append(q, x)))
         /\ \A f : Listed(Append(q, x), f) <=> Listed(q, f) \/ f = x
         /\ \A i \in DOMAIN Append(q, x) : Append(q, x)[i] = x \/ (i \in DOMAIN q /\ Append(q, x)[i] = q[i])
<1> DEFINE longer == Append(q, x)
<1>1. /\ longer \in Seq(S) /\ Len(longer) = Len(q) + 1 /\ longer[Len(q) + 1] = x
      /\ \A i \in 1 .. Len(q) : longer[i] = q[i]
  BY AppendProperties
<1> HIDE DEF longer
<1>2. /\ Len(q) \in Nat /\ DOMAIN q = 1 .. Len(q) /\ DOMAIN longer = 1 .. Len(q) + 1
  BY <1>1, LenProperties
<1>3. \A i \in DOMAIN longer : i \in DOMAIN q \/ i = Len(q) + 1
  BY <1>2
<1>4. \A i \in DOMAIN q : i \in DOMAIN longer /\ longer[i] = q[i]
  BY <1>1, <1>2
<1>5. Len(q) + 1 \in DOMAIN longer
  BY <1>2
<1>6. \A f : Listed(longer, f) <=> Listed(q, f) \/ f = x
  BY <1>1, <1>3, <1>4, <1>5 DEF Listed
<1>7. ~Listed(q, x) /\ Unlike(q) => Unlike(longer)
  BY <1>1, <1>3, <1>4 DEF Listed, Unlike
<1>8. \A i \in DOMAIN longer : longer[i] = x \/ (i \in DOMAIN q /\ longer[i] = q[i])
  BY <1>1, <1>3, <1>4
<1> QED BY <1>1, <1>6, <1>7, <1>8 DEF longer

\* Without its last element.
Shortened(rest, q) ==
  /\ \A i \in DOMAIN rest : i \in DOMAIN q /\ rest[i] = q[i] /\ i # Len(q)
  /\ \A i \in DOMAIN q : i \in DOMAIN rest \/ i = Len(q)
\* A list without its last entry is the list shortened.
LEMMA ListedShrunk ==
  ASSUME NEW S, NEW q \in Seq(S), q # <<>>
  PROVE  /\ Load!Last(q) \in S /\ q[Len(q)] \in S /\ Len(q) \in DOMAIN q /\ Load!Last(q) = q[Len(q)]
         /\ Load!Front(q) \in Seq(S) /\ Shortened(Load!Front(q), q)
         /\ Load!RemoveAt(q, Len(q)) \in Seq(S) /\ Shortened(Load!RemoveAt(q, Len(q)), q)
         /\ 1 = Len(q) => Load!RemoveAt(q, Len(q)) = <<>>
<1> DEFINE n == Len(q)
           front == SubSeq(q, 1, n - 1)
<1>1. n \in Nat \ {0} /\ DOMAIN q = 1 .. n /\ n \in 1 .. n
  BY LenProperties, EmptySeq
<1>2. q[n] \in S
  BY <1>1, ElementOfSeq
<1>3. /\ front \in Seq(S) /\ Len(front) = n - 1 /\ \A i \in 1 .. n - 1 : front[i] = q[i]
  BY <1>1, SubSeqProperties
<1>4. SubSeq(q, n + 1, n) = <<>>
  BY <1>1, SubSeqEmpty
<1>5. front \o <<>> = front
  BY <1>3, ConcatEmptySeq
<1>6. Load!RemoveAt(q, n) = front /\ Load!Front(q) = front
  BY <1>4, <1>5 DEF Load!RemoveAt, Load!Front
<1> HIDE DEF front, n
<1>7. DOMAIN front = 1 .. n - 1
  BY <1>3, LenProperties
<1>8. Shortened(front, q)
  BY <1>1, <1>3, <1>7 DEF Shortened, n
<1>9. n = 1 => front = <<>>
  BY <1>3, EmptySeq
<1> QED BY <1>1, <1>2, <1>3, <1>6, <1>8, <1>9 DEF n, Load!Last

\* The listing of a finite set has every element once.
LEMMA ListingOfSet ==
  ASSUME NEW S, Load!IsFiniteSet(S)
  PROVE  Load!SetToSeq(S) \in Seq(S) /\ Unlike(Load!SetToSeq(S)) /\ \A x \in S : Listed(Load!SetToSeq(S), x)
<1> DEFINE s == Load!SetToSeq(S)
           n == Cardinality(S)
<1>1. IsFiniteSet(S)
  BY DEF Load!IsFiniteSet, IsFiniteSet
<1>2. n \in Nat /\ ExistsBijection(1 .. n, S)
  BY <1>1, FS_CardinalityType
<1>3. PICK g \in [1 .. n -> S] : \A a, b \in DOMAIN g : g[a] = g[b] => a = b
  BY <1>2 DEF ExistsBijection, Bijection, Injection, IsInjective
<1>4. s = CHOOSE f \in [1 .. n -> S] : Load!IsInjective(f)
  BY DEF Load!SetToSeq, Load!Cardinality, Cardinality
<1>5. Load!IsInjective(g)
  BY <1>3 DEF Load!IsInjective
<1> HIDE DEF s, n
<1>6. s \in [1 .. n -> S] /\ Load!IsInjective(s)
  BY <1>4, <1>5
<1>7. s \in Injection(1 .. n, S)
  BY <1>6 DEF Injection, IsInjective, Load!IsInjective
<1>8. Cardinality(1 .. n) = n
  <2>1. n \in Int /\ 1 \in Int /\ (IF 1 > n THEN 0 ELSE n - 1 + 1) = n
    BY <1>2
  <2> QED BY <2>1, FS_Interval
<1>9. s \in Surjection(1 .. n, S)
  BY <1>1, <1>7, <1>8, FS_Injection DEF n
<1>10. \A x \in S : \E i \in 1 .. n : s[i] = x
  BY <1>9 DEF Surjection
<1>11. s \in Seq(S) /\ DOMAIN s = 1 .. n
  <2>1. s \in Seq(S)
    BY <1>2, <1>6, SeqDef
  <2> QED BY <1>6, <2>1
<1> QED BY <1>6, <1>10, <1>11 DEF s, Unlike, Listed, Load!IsInjective

\* The invariant of the loading holds at the start.
LEMMA LoadInit == ASSUME Load!Init PROVE LoadInv
<1> DEFINE b == Load!SetToSeq(Builtin)
           e == Load!SetToSeq(External)
           none == <<>>
<1>1. /\ info \in [Load!Folders -> Manifests]
      /\ status = [f \in Load!Folders |-> "new"] /\ step = "next" /\ order = b \o e
      /\ context = [f \in Load!Folders |-> Load!NoContext] /\ called = [f \in Load!Folders |-> none]
      /\ contexts = none /\ config = [i \in known |-> [user |-> TRUE, defaults |-> FALSE]]
  BY DEF Load!Init, Manifests
<1>2. /\ Load!IsFiniteSet(Builtin) /\ Load!IsFiniteSet(External) /\ Builtin \cap External = {}
  BY PluginsAssumption DEF PluginsAssumption, Load!LoadAssumption
<1>3. /\ b \in Seq(Builtin) /\ Unlike(b) /\ \A x \in Builtin : Listed(b, x)
      /\ e \in Seq(External) /\ Unlike(e) /\ \A x \in External : Listed(e, x)
  BY <1>2, ListingOfSet
<1>4. Load!NoContext = [accepting |-> FALSE, provider |-> "none", callbacks |-> none, failed |-> FALSE]
  BY DEF Load!NoContext
<1>5. none \in Seq(Load!Resources) /\ none \in Seq(Load!Folders) /\ DOMAIN none = {} /\ Len(none) = 0
  BY EmptySeq
<1> HIDE DEF b, e, none
<1>6. /\ \A i \in DOMAIN b : i \in Nat \ {0} /\ b[i] \in Builtin /\ i \in 1 .. Len(b)
      /\ \A i \in DOMAIN e : i \in Nat \ {0} /\ e[i] \in External /\ i \in 1 .. Len(e)
      /\ DOMAIN b = 1 .. Len(b) /\ DOMAIN e = 1 .. Len(e) /\ Len(b) \in Nat /\ Len(e) \in Nat
  BY <1>3, LenProperties, ElementOfSeq
<1>7. b \in Seq(Load!Folders) /\ e \in Seq(Load!Folders)
  BY <1>3, SeqMonotonic DEF Load!Folders
<1>8. /\ order \in Seq(Load!Folders) /\ Len(order) = Len(b) + Len(e)
      /\ \A i \in 1 .. Len(b) + Len(e) : order[i] = IF i <= Len(b) THEN b[i] ELSE e[i - Len(b)]
  BY <1>1, <1>7, ConcatProperties
<1>9. DOMAIN order = 1 .. Len(b) + Len(e)
  BY <1>8, LenProperties
<1>10. \A i \in DOMAIN order :
         \/ i \in DOMAIN b /\ order[i] = b[i]
         \/ i \notin DOMAIN b /\ i - Len(b) \in DOMAIN e /\ order[i] = e[i - Len(b)]
  BY <1>6, <1>8, <1>9
<1>11. Unlike(order)
  <2> SUFFICES ASSUME NEW i \in DOMAIN order, NEW j \in DOMAIN order, order[i] = order[j] PROVE i = j
    BY DEF Unlike
  <2>1. CASE i \in DOMAIN b /\ j \in DOMAIN b
    BY <1>3, <1>10, <2>1 DEF Unlike
  <2>2. CASE i \notin DOMAIN b /\ j \notin DOMAIN b
    <3>1. i - Len(b) = j - Len(b)
      BY <1>3, <1>10, <2>2 DEF Unlike
    <3> QED BY <1>6, <1>9, <3>1
  <2>3. CASE ~(i \in DOMAIN b <=> j \in DOMAIN b)
    BY <1>2, <1>6, <1>10, <2>3
  <2> QED BY <2>1, <2>2, <2>3
<1>12. ASSUME NEW f \in Load!Folders PROVE Listed(order, f)
  <2>1. CASE f \in Builtin
    <3>1. PICK i \in DOMAIN b : b[i] = f
      BY <1>3, <2>1 DEF Listed
    <3>2. i \in DOMAIN order /\ order[i] = b[i]
      BY <1>6, <1>8, <1>9
    <3> QED BY <3>1, <3>2 DEF Listed
  <2>2. CASE f \in External
    <3>1. PICK i \in DOMAIN e : e[i] = f
      BY <1>3, <2>2 DEF Listed
    <3>2. i + Len(b) \in DOMAIN order /\ ~(i + Len(b) <= Len(b)) /\ i + Len(b) - Len(b) = i
      BY <1>6, <1>9
    <3>3. order[i + Len(b)] = e[i]
      BY <1>8, <1>9, <3>2
    <3> QED BY <3>1, <3>2, <3>3 DEF Listed
  <2> QED BY <2>1, <2>2 DEF Load!Folders
<1>13. LoadType
  BY <1>1 DEF LoadType
<1>14. Load!NoContext \in Contexts
  BY <1>4, <1>5 DEF Contexts
<1>15. TakenType
  BY <1>1, <1>5, <1>8, <1>14 DEF TakenType
<1>16. InLine
  BY <1>1, <1>11, <1>12 DEF InLine, Loading
<1>17. ASSUME NEW f \in Load!Folders
       PROVE  context[f].callbacks = none /\ called[f] = none /\ ~Listed(none, f) /\ \A r : ~Listed(none, r)
  BY <1>1, <1>4, <1>5 DEF Listed
<1>18. Held
  BY <1>1, <1>5, <1>17 DEF Held, Listed, none
<1>19. TakenOnce
  BY <1>5, <1>17 DEF TakenOnce, Taken, CalledLate, Unlike, none
<1>20. KnownStay
  BY <1>1 DEF KnownStay
<1> QED BY <1>13, <1>15, <1>16, <1>18, <1>19, <1>20 DEF LoadInv

\* The folder at the head of the line.
LEMMA AtHead ==
  ASSUME LoadInv, order # <<>>
  PROVE  /\ Head(order) \in Load!Folders /\ status[Head(order)] = "new" /\ ~Listed(contexts, Head(order))
         /\ Tail(order) \in Seq(Load!Folders) /\ Unlike(Tail(order))
         /\ \A f : Listed(Tail(order), f) <=> Listed(order, f) /\ f # Head(order)
<1>1. order \in Seq(Load!Folders) /\ Unlike(order)
  BY DEF LoadInv, TakenType, InLine
<1>2. /\ Head(order) \in Load!Folders /\ Tail(order) \in Seq(Load!Folders) /\ Unlike(Tail(order))
      /\ Listed(order, Head(order))
      /\ \A f : Listed(Tail(order), f) <=> Listed(order, f) /\ f # Head(order)
  BY <1>1, ListedInTail
<1>3. status[Head(order)] = "new"
  BY <1>2 DEF LoadInv, InLine
<1>4. ~Listed(contexts, Head(order))
  BY <1>2, <1>3 DEF LoadInv, Held
<1> QED BY <1>2, <1>3, <1>4

\* The folder at the head leaves the line with a status that has a reason.
LEMMA LoadKnown ==
  ASSUME LoadInv, order # <<>>, NEW s \in {"loaded", "error", "disabled"},
         status' = [status EXCEPT ![Head(order)] = s], order' = Tail(order), step' = "next",
         UNCHANGED <<info, known, blamed, config>>,
         IF s = "loaded" THEN ~Refused(Head(order)) ELSE Refused(Head(order)) \/ Head(order) \in blamed
  PROVE  LoadType' /\ InLine' /\ KnownStay'
<1>1. PICK f \in Load!Folders : f = Head(order)
  BY AtHead
<1>2. /\ order' = Tail(order) /\ Unlike(order') /\ \A g : Listed(order', g) <=> Listed(order, g) /\ g # f
  BY <1>1, AtHead
<1>3. LoadType /\ InLine /\ KnownStay
  BY DEF LoadInv
<1>4. /\ status' = [status EXCEPT ![f] = s] /\ UNCHANGED <<info, known, blamed, config>> /\ step' = "next"
      /\ IF s = "loaded" THEN ~Refused(f) ELSE Refused(f) \/ f \in blamed
  BY <1>1
<1>5. LoadType' /\ KnownStay'
  BY <1>3, <1>4 DEF LoadType, KnownStay
<1>6. \A g \in Load!Folders : Refused(g)' <=> Refused(g)
  BY <1>4 DEF Refused, Load!Duplicate
<1>7. status'[f] = s /\ \A g \in Load!Folders \ {f} : status'[g] = status[g]
  BY <1>3, <1>4 DEF LoadType
<1>8. \A g \in Load!Folders : status'[g] = "new" <=> Listed(order', g)
  BY <1>2, <1>3, <1>7 DEF InLine
<1>9. ASSUME NEW g \in Load!Folders
      PROVE  \/ status'[g] = "new"
             \/ status'[g] = "loaded" /\ ~Refused(g)
             \/ status'[g] \in {"error", "disabled"} /\ (Refused(g) \/ g \in blamed)
  <2>1. CASE g = f
    BY <1>4, <1>7, <2>1
  <2>2. CASE g # f
    BY <1>3, <1>7, <2>2 DEF InLine
  <2> QED BY <2>1, <2>2
<1>10. InLine'
  BY <1>2, <1>4, <1>6, <1>8, <1>9 DEF InLine, Loading
<1> QED BY <1>5, <1>10

\* The folder at the head is in hand.
LEMMA LoadInHand ==
  ASSUME LoadInv, order # <<>>, step' \in {"run", "examine", "release"}, ~Refused(Head(order)),
         UNCHANGED <<info, status, order, known, config>>,
         blamed \subseteq blamed', step' = "release" => Head(order) \in blamed'
  PROVE  LoadType' /\ InLine' /\ KnownStay'
<1>1. PICK f \in Load!Folders : f = Head(order)
  BY AtHead
<1>2. LoadType /\ InLine /\ KnownStay
  BY DEF LoadInv
<1>3. LoadType' /\ KnownStay'
  BY <1>2 DEF LoadType, KnownStay
<1>4. \A g \in Load!Folders : Refused(g)' <=> Refused(g)
  BY DEF Refused, Load!Duplicate
<1>5. /\ Unlike(order') /\ order' # <<>> /\ step' \notin {"running", "closing"}
      /\ \A g \in Load!Folders : status'[g] = "new" <=> Listed(order', g)
  BY <1>2 DEF InLine
<1>6. ASSUME NEW g \in Load!Folders, Loading(g)' PROVE ~Refused(g)' /\ (step' = "release" => g \in blamed')
  BY <1>4, <1>6 DEF Loading
<1>7. \A g \in Load!Folders :
        \/ status'[g] = "new"
        \/ status'[g] = "loaded" /\ ~Refused(g)'
        \/ status'[g] \in {"error", "disabled"} /\ (Refused(g)' \/ g \in blamed')
  BY <1>2, <1>4 DEF InLine
<1>8. InLine'
  BY <1>5, <1>6, <1>7 DEF InLine
<1> QED BY <1>3, <1>8

\* Nothing is taken, and nothing is called.
LEMMA NothingTaken ==
  ASSUME LoadInv, UNCHANGED <<context, called>>,
         \A f \in Load!Folders : CalledLate(f) => CalledLate(f)'
  PROVE  TakenOnce'
<1>1. \A f \in Load!Folders : Taken(f) /\ CalledLate(f)
  BY DEF LoadInv, TakenOnce
<1>2. \A f \in Load!Folders : Taken(f)'
  BY <1>1 DEF Taken
<1> QED BY <1>1, <1>2 DEF TakenOnce

\* A folder that is skipped has its reason in its status.
LEMMA LoadSkips == ASSUME LoadInv, Load!Skip PROVE LoadInv'
<1>1. PICK f \in Load!Folders : f = Head(order) /\ f = Load!Current /\ status[f] = "new" /\ ~Listed(contexts, f)
  BY AtHead DEF Load!Skip, Load!Current
<1>2. /\ step = "next" /\ order # <<>> /\ order' = Tail(order) /\ step' = "next"
      /\ UNCHANGED <<context, called, blamed, contexts, config, info, known>>
  BY DEF Load!Skip, Load!Inventory
<1>3. info \in [Load!Folders -> Manifests]
  BY DEF LoadInv, LoadType
<1>4. PICK s \in {"error", "disabled"} : status' = [status EXCEPT ![f] = s] /\ Refused(f)
  <2>1. info[f].error \in BOOLEAN /\ info[f].enabled \in BOOLEAN
    BY <1>3 DEF Manifests
  <2>2. info[f].error \/ Load!Duplicate(f) \/ ~info[f].enabled
    BY <1>1 DEF Load!Skip
  <2>3. Refused(f)
    BY <2>1, <2>2 DEF Refused
  <2>4. \E s \in {"error", "disabled"} : status' = [status EXCEPT ![f] = s]
    BY <1>1 DEF Load!Skip, Load!Status
  <2> QED BY <2>3, <2>4
<1>5. LoadType' /\ InLine' /\ KnownStay'
  BY <1>1, <1>2, <1>4, LoadKnown
<1>6. TakenType'
  BY <1>1, <1>2, AtHead DEF LoadInv, TakenType
<1>7. \A g \in Load!Folders \ {f} : status'[g] = status[g]
  BY <1>4 DEF LoadInv, LoadType
<1>8. Held'
  BY <1>1, <1>2, <1>7 DEF LoadInv, Held, Loading
<1>9. TakenOnce'
  <2>1. status'[f] # "new"
    BY <1>4 DEF LoadInv, LoadType
  <2> QED BY <1>2, <1>7, <2>1, NothingTaken DEF CalledLate, Loading
<1> QED BY <1>5, <1>6, <1>8, <1>9 DEF LoadInv

\* A folder that is opened becomes the one in hand.
LEMMA LoadOpens == ASSUME LoadInv, Load!Open PROVE LoadInv'
<1>1. PICK f \in Load!Folders : f = Head(order) /\ f = Load!Current /\ status[f] = "new" /\ ~Listed(contexts, f)
  BY AtHead DEF Load!Open, Load!Current
<1>2. /\ step = "next" /\ order # <<>> /\ step' = "run"
      /\ UNCHANGED <<status, order, called, blamed, contexts, config, info, known>>
  BY DEF Load!Open, Load!Inventory
<1>3. ~Refused(f)
  <2>1. info[f].error \in BOOLEAN /\ info[f].enabled \in BOOLEAN
    BY DEF LoadInv, LoadType, Manifests
  <2>2. ~info[f].error /\ ~Load!Duplicate(f) /\ info[f].enabled
    BY <1>1 DEF Load!Open
  <2> QED BY <2>1, <2>2 DEF Refused
<1>4. LoadType' /\ InLine' /\ KnownStay'
  BY <1>1, <1>2, <1>3, LoadInHand
<1> DEFINE one == <<"module">>
           none == <<>>
           q == IF f \in External THEN one ELSE none
           c == [Load!NoContext EXCEPT !.accepting = TRUE, !.callbacks = q]
<1>5. context' = [context EXCEPT ![f] = c]
  BY <1>1 DEF Load!Open, Load!ContextIs
<1>6. /\ q \in Seq(Load!Resources) /\ Unlike(q) /\ \A i \in DOMAIN q : i = 1 /\ q[i] = "module"
  <2>1. one \in Seq(Load!Resources) /\ none \in Seq(Load!Resources)
    BY DEF Load!Resources
  <2>2. /\ DOMAIN one = {1} /\ one[1] = "module" /\ DOMAIN none = {}
    OBVIOUS
  <2> HIDE DEF one, none
  <2> QED BY <2>1, <2>2 DEF Unlike
<1> HIDE DEF q
<1>7. c \in Contexts /\ c.callbacks = q /\ c.provider = "none"
  <2>1. Load!NoContext \in Contexts /\ Load!NoContext.provider = "none"
    BY EmptySeq DEF Load!NoContext, Contexts
  <2> QED BY <1>6, <2>1 DEF Contexts
<1> HIDE DEF c
<1>8. context' = [context EXCEPT ![f] = c] /\ context \in [Load!Folders -> Contexts]
  BY <1>5 DEF LoadInv, TakenType
<1>9. /\ context' \in [Load!Folders -> Contexts] /\ context'[f] = c
      /\ \A g \in Load!Folders \ {f} : context'[g] = context[g]
  BY <1>7, <1>8
<1>10. TakenType'
  BY <1>2, <1>9 DEF LoadInv, TakenType
<1>11. Held'
  BY <1>1, <1>2, <1>9 DEF LoadInv, Held, Loading
<1>12. called[f] = <<>> /\ ~Listed(called[f], "module") /\ ~\E r : Listed(called[f], r)
  <2>1. called[f] = <<>>
    BY <1>1, <1>2 DEF LoadInv, TakenOnce, CalledLate
  <2> QED BY <2>1 DEF Listed
<1>13. Taken(f)'
  <2>1. Unlike(context'[f].callbacks) /\ Unlike(called'[f])
    BY <1>2, <1>6, <1>7, <1>9 DEF LoadInv, TakenOnce, Taken
  <2>2. \A r \in Load!Resources : ~(Listed(context'[f].callbacks, r) /\ Listed(called'[f], r))
    BY <1>2, <1>12
  <2>3. \A i \in DOMAIN context'[f].callbacks : context'[f].callbacks[i] = "module" => i = 1
    BY <1>6, <1>7, <1>9
  <2>4. ~Listed(context'[f].callbacks, "provider")
    BY <1>6, <1>7, <1>9 DEF Listed
  <2> QED BY <1>2, <1>12, <2>1, <2>2, <2>3, <2>4 DEF Taken
<1>14. TakenOnce'
  <2>1. \A g \in Load!Folders \ {f} : Taken(g)'
    BY <1>2, <1>9 DEF LoadInv, TakenOnce, Taken
  <2>2. \A g \in Load!Folders : CalledLate(g)'
    BY <1>2 DEF LoadInv, TakenOnce, CalledLate, Loading
  <2> QED BY <1>13, <2>1, <2>2 DEF TakenOnce
<1> QED BY <1>4, <1>10, <1>11, <1>14 DEF LoadInv

\* The plugin in hand takes something of the host.
LEMMA LoadTakes ==
  ASSUME LoadInv, step = "run", order # <<>>, NEW f \in Load!Folders, f = Head(order),
         NEW c \in Contexts, NEW r \in Load!Resources, r # "module",
         c.callbacks = Append(context[f].callbacks, r), ~Listed(context[f].callbacks, r),
         c.provider = "none" => context[f].provider = "none" /\ r # "provider",
         context' = [context EXCEPT ![f] = c],
         UNCHANGED <<status, order, step, called, blamed, contexts, config, info, known>>
  PROVE  LoadInv'
<1> DEFINE q == context[f].callbacks
<1>1. ~Refused(f)
  BY DEF LoadInv, InLine, Loading
<1>2. LoadType' /\ InLine' /\ KnownStay'
  BY <1>1, LoadInHand
<1>3. context \in [Load!Folders -> Contexts]
  BY DEF LoadInv, TakenType
<1>4. q \in Seq(Load!Resources)
  BY <1>3 DEF Contexts
<1>5. Taken(f) /\ called[f] = <<>>
  BY AtHead DEF LoadInv, TakenOnce, CalledLate
<1>6. /\ context' \in [Load!Folders -> Contexts] /\ context'[f] = c
      /\ \A g \in Load!Folders \ {f} : context'[g] = context[g]
  BY <1>3
<1> HIDE DEF q
<1>7. /\ Unlike(c.callbacks) /\ \A x : Listed(c.callbacks, x) <=> Listed(q, x) \/ x = r
      /\ \A i \in DOMAIN c.callbacks : c.callbacks[i] = r \/ (i \in DOMAIN q /\ c.callbacks[i] = q[i])
  BY <1>4, <1>5, ListedGrown DEF Taken, q
<1>8. TakenType'
  BY <1>6 DEF LoadInv, TakenType
<1>9. Held'
  BY <1>6 DEF LoadInv, Held, Loading
<1>10. Taken(f)'
  <2>1. ~\E x : Listed(called'[f], x)
    BY <1>5 DEF Listed
  <2>2. Unlike(context'[f].callbacks) /\ Unlike(called'[f])
    BY <1>5, <1>6, <1>7 DEF Taken
  <2>3. \A i \in DOMAIN context'[f].callbacks : context'[f].callbacks[i] = "module" => i = 1
    BY <1>5, <1>6, <1>7 DEF Taken, q
  <2>4. context'[f].provider = "none" => ~Listed(context'[f].callbacks, "provider")
    BY <1>5, <1>6, <1>7 DEF Taken, q
  <2> QED BY <2>1, <2>2, <2>3, <2>4 DEF Taken
<1>11. TakenOnce'
  <2>1. \A g \in Load!Folders \ {f} : Taken(g)'
    BY <1>6 DEF LoadInv, TakenOnce, Taken
  <2>2. \A g \in Load!Folders : CalledLate(g)'
    BY DEF LoadInv, TakenOnce, CalledLate, Loading
  <2> QED BY <1>10, <2>1, <2>2 DEF TakenOnce
<1> QED BY <1>2, <1>8, <1>9, <1>11 DEF LoadInv

\* What a plugin registers and takes is noted in its context.
LEMMA LoadRegisters == ASSUME LoadInv, Load!TakeProcess \/ Load!Register PROVE LoadInv'
<1>1. step = "run" /\ UNCHANGED <<status, order, step, called, blamed, contexts, config, info, known>>
  BY DEF Load!TakeProcess, Load!Register, Load!Inventory
<1>2. order # <<>>
  BY <1>1 DEF LoadInv, InLine
<1>3. PICK f \in Load!Folders : f = Head(order) /\ f = Load!Current
  BY <1>2, AtHead DEF Load!Current
<1> DEFINE d == context[f]
<1>4. d \in Contexts /\ info[f].id \in Ids
  BY DEF LoadInv, LoadType, TakenType, Manifests
<1>5. /\ d.accepting \in BOOLEAN /\ d.provider \in Ids \cup {"none"} /\ d.callbacks \in Seq(Load!Resources)
      /\ d.failed \in BOOLEAN
  BY <1>4 DEF Contexts
<1>6. Taken(f)
  BY DEF LoadInv, TakenOnce
<1> HIDE DEF d
<1>7. CASE Load!TakeProcess
  <2> DEFINE c == [d EXCEPT !.callbacks = Append(@, "process")]
  <2>1. context' = [context EXCEPT ![f] = c] /\ "process" \notin Load!Range(d.callbacks)
    BY <1>3, <1>7 DEF Load!TakeProcess, Load!ContextIs, d
  <2>2. "process" \in Load!Resources
    BY DEF Load!Resources
  <2>3. Append(d.callbacks, "process") \in Seq(Load!Resources)
    BY <1>5, <2>2, AppendProperties
  <2>4. c \in Contexts /\ c.callbacks = Append(d.callbacks, "process") /\ c.provider = d.provider
    BY <1>4, <1>5, <2>3 DEF Contexts
  <2> HIDE DEF c
  <2>5. ~Listed(d.callbacks, "process")
    BY <2>1 DEF Listed, Load!Range
  <2> QED BY <1>1, <1>2, <1>3, <2>1, <2>2, <2>4, <2>5, LoadTakes DEF d
<1>8. CASE Load!Register
  <2> DEFINE c == [d EXCEPT !.provider = info[f].id, !.callbacks = Append(@, "provider")]
  <2>1. context' = [context EXCEPT ![f] = c] /\ d.provider = "none"
    BY <1>3, <1>8 DEF Load!Register, Load!ContextIs, d
  <2>2. "provider" \in Load!Resources
    BY DEF Load!Resources
  <2>3. Append(d.callbacks, "provider") \in Seq(Load!Resources)
    BY <1>5, <2>2, AppendProperties
  <2>4. c \in Contexts /\ c.callbacks = Append(d.callbacks, "provider") /\ c.provider = info[f].id
    BY <1>4, <1>5, <2>3 DEF Contexts
  <2> HIDE DEF c
  <2>5. ~Listed(d.callbacks, "provider")
    BY <1>6, <2>1 DEF Taken, d
  <2>6. c.provider # "none"
    BY <1>4, <2>4, PluginsAssumption DEF PluginsAssumption, Load!LoadAssumption
  <2> QED BY <1>1, <1>2, <1>3, <2>1, <2>2, <2>4, <2>5, <2>6, LoadTakes DEF d
<1> QED BY <1>7, <1>8

\* The plugin's own code is over, or its provider is examined and refused.
LEMMA LoadFails == ASSUME LoadInv, Load!RunFails \/ Load!RunEnds \/ Load!ExamineFails PROVE LoadInv'
<1>1. /\ step \in {"run", "examine"} /\ step' \in {"examine", "release"}
      /\ UNCHANGED <<status, order, called, contexts, config, info, known>>
  BY DEF Load!RunFails, Load!RunEnds, Load!ExamineFails, Load!Inventory
<1>2. order # <<>>
  BY <1>1 DEF LoadInv, InLine
<1>3. PICK f \in Load!Folders : f = Head(order) /\ f = Load!Current
  BY <1>2, AtHead DEF Load!Current
<1>4. blamed \subseteq blamed' /\ (step' = "release" => f \in blamed')
  BY <1>3 DEF Load!RunFails, Load!RunEnds, Load!ExamineFails
<1>5. ~Refused(f)
  BY <1>1, <1>3 DEF LoadInv, InLine, Loading
<1>6. LoadType' /\ InLine' /\ KnownStay'
  BY <1>1, <1>2, <1>3, <1>4, <1>5, LoadInHand
<1>7. context \in [Load!Folders -> Contexts] /\ context[f] \in Contexts
  BY DEF LoadInv, TakenType
<1>8. PICK c \in Contexts : /\ c.callbacks = context[f].callbacks /\ c.provider = context[f].provider
                            /\ context' = [context EXCEPT ![f] = c]
  <2>1. CASE Load!ExamineFails
    BY <1>7, <2>1 DEF Load!ExamineFails
  <2>2. CASE ~Load!ExamineFails
    <3> DEFINE c == [context[f] EXCEPT !.accepting = FALSE]
    <3>1. context' = [context EXCEPT ![f] = c]
      BY <1>3, <2>2 DEF Load!RunFails, Load!RunEnds, Load!ContextIs, Load!Closed
    <3>2. c \in Contexts /\ c.callbacks = context[f].callbacks /\ c.provider = context[f].provider
      BY <1>7 DEF Contexts
    <3> QED BY <3>1, <3>2
  <2> QED BY <2>1, <2>2
<1>9. /\ context' \in [Load!Folders -> Contexts]
      /\ \A g \in Load!Folders :
           context'[g].callbacks = context[g].callbacks /\ context'[g].provider = context[g].provider
  BY <1>7, <1>8
<1>10. TakenType'
  BY <1>1, <1>9 DEF LoadInv, TakenType
<1>11. Held'
  BY <1>1, <1>9 DEF LoadInv, Held, Loading
<1>12. TakenOnce'
  <2>1. \A g \in Load!Folders : Taken(g)'
    BY <1>1, <1>9 DEF LoadInv, TakenOnce, Taken
  <2>2. \A g \in Load!Folders : CalledLate(g)'
    BY <1>1 DEF LoadInv, TakenOnce, CalledLate, Loading
  <2> QED BY <2>1, <2>2 DEF TakenOnce
<1> QED BY <1>6, <1>10, <1>11, <1>12 DEF LoadInv

\* A callback runs: of the plugin in hand, or of one that was loaded.
LEMMA LoadReleases ==
  ASSUME LoadInv, NEW f \in Load!Folders, Load!CloseStep(f),
         (Loading(f) /\ step = "release") \/ Listed(contexts, f),
         UNCHANGED <<status, order, step, blamed, contexts, config, info, known>>
  PROVE  LoadInv'
<1> DEFINE q == context[f].callbacks
           rest == Load!RemoveAt(q, Len(q))
           last == q[Len(q)]
           run == called[f]
<1>1. /\ context \in [Load!Folders -> Contexts] /\ called \in [Load!Folders -> Seq(Load!Resources)]
      /\ q \in Seq(Load!Resources) /\ run \in Seq(Load!Resources)
  BY DEF LoadInv, TakenType, Contexts
<1>2. q # <<>> /\ called' = [called EXCEPT ![f] = Append(run, last)]
  BY DEF Load!CloseStep, Load!More, Load!Latest
<1>3. PICK failed \in BOOLEAN :
        context' = [context EXCEPT ![f] =
                      [context[f] EXCEPT !.callbacks = rest, !.failed = context[f].failed \/ failed]]
  BY DEF Load!CloseStep, Load!Latest
<1>4. /\ last \in Load!Resources /\ Len(q) \in DOMAIN q /\ rest \in Seq(Load!Resources)
      /\ Shortened(rest, q) /\ (1 = Len(q) => rest = <<>>)
  BY <1>1, <1>2, ListedShrunk
<1>5. Taken(f) /\ CalledLate(f)
  BY DEF LoadInv, TakenOnce
<1>6. /\ Unlike(q) /\ Unlike(run) /\ \A r \in Load!Resources : ~(Listed(q, r) /\ Listed(run, r))
      /\ \A i \in DOMAIN q : q[i] = "module" => i = 1
      /\ context[f].provider = "none" => ~Listed(q, "provider")
      /\ ~Listed(run, "module")
  BY <1>2, <1>5 DEF Taken
<1> DEFINE c == [context[f] EXCEPT !.callbacks = rest, !.failed = context[f].failed \/ failed]
<1> HIDE DEF q, rest, last, run
<1>7. c \in Contexts /\ c.callbacks = rest /\ c.provider = context[f].provider
  <2>1. context[f] \in Contexts
    BY <1>1
  <2>2. (context[f].failed \/ failed) \in BOOLEAN
    OBVIOUS
  <2> HIDE DEF c
  <2>3. c = [context[f] EXCEPT !.callbacks = rest, !.failed = context[f].failed \/ failed]
    BY DEF c
  <2> QED BY <1>4, <2>1, <2>2, <2>3 DEF Contexts
<1>8. /\ context' \in [Load!Folders -> Contexts] /\ context'[f].callbacks = rest
      /\ context'[f].provider = context[f].provider
      /\ \A g \in Load!Folders \ {f} : context'[g] = context[g]
  <2>1. context' = [context EXCEPT ![f] = c]
    BY <1>3
  <2> HIDE DEF c
  <2> QED BY <1>1, <1>7, <2>1
<1>9. /\ Append(run, last) \in Seq(Load!Resources)
      /\ ~Listed(run, last) /\ Unlike(run) => Unlike(Append(run, last))
      /\ \A r : Listed(Append(run, last), r) <=> Listed(run, r) \/ r = last
  BY <1>1, <1>4, ListedGrown
<1>10. /\ called' \in [Load!Folders -> Seq(Load!Resources)] /\ called'[f] = Append(run, last)
       /\ \A g \in Load!Folders \ {f} : called'[g] = called[g]
  BY <1>1, <1>2, <1>9
<1>11. Listed(q, last)
  BY <1>4 DEF Listed, last
<1>12. \A r : Listed(rest, r) => Listed(q, r) /\ r # last
  BY <1>4, <1>6 DEF Listed, Shortened, Unlike, last
<1>13. LoadType' /\ KnownStay'
  BY DEF LoadInv, LoadType, KnownStay
<1>14. TakenType'
  BY <1>8, <1>10 DEF LoadInv, TakenType
<1>15. InLine'
  <2>1. \A g \in Load!Folders : Refused(g)' <=> Refused(g)
    BY DEF Refused, Load!Duplicate
  <2> QED BY <2>1 DEF LoadInv, InLine, Loading
<1>16. Held'
  BY <1>8 DEF LoadInv, Held, Loading
<1>17. Taken(f)'
  <2>1. Unlike(rest)
    BY <1>4, <1>6 DEF Shortened, Unlike
  <2>2. Unlike(Append(run, last))
    BY <1>4, <1>6, <1>9, <1>11
  <2>3. \A r \in Load!Resources : ~(Listed(rest, r) /\ Listed(Append(run, last), r))
    BY <1>6, <1>9, <1>12
  <2>4. \A i \in DOMAIN rest : rest[i] = "module" => i = 1
    BY <1>4, <1>6 DEF Shortened
  <2>5. context[f].provider = "none" => ~Listed(rest, "provider")
    BY <1>6, <1>12
  <2>6. Listed(Append(run, last), "module") => rest = <<>>
    <3>1. last = "module" => 1 = Len(q)
      BY <1>4, <1>6 DEF last
    <3> QED BY <1>4, <1>6, <1>9, <3>1
  <2> HIDE DEF c
  <2> QED BY <1>8, <1>10, <2>1, <2>2, <2>3, <2>4, <2>5, <2>6 DEF Taken
<1>18. TakenOnce'
  <2>1. \A g \in Load!Folders \ {f} : Taken(g)' /\ CalledLate(g)'
    BY <1>8, <1>10 DEF LoadInv, TakenOnce, Taken, CalledLate, Loading
  <2>2. Listed(contexts, f) => status[f] = "loaded"
    BY DEF LoadInv, Held
  <2>3. CalledLate(f)'
    BY <2>2 DEF CalledLate, Loading
  <2> QED BY <1>17, <2>1, <2>3 DEF TakenOnce
<1> QED BY <1>13, <1>14, <1>15, <1>16, <1>18 DEF LoadInv

\* A folder that was examined is loaded, and one that was released has
\* failed.
LEMMA LoadEnds ==
  ASSUME LoadInv, Load!Examined \/ Load!Released
  PROVE  LoadInv'
<1>1. /\ step \in {"examine", "release"} /\ step' = "next" /\ order' = Tail(order)
      /\ UNCHANGED <<context, called, blamed, config, info, known>>
  BY DEF Load!Examined, Load!Released, Load!Inventory, Load!LoadGoesOn
<1>2. order # <<>>
  BY <1>1 DEF LoadInv, InLine
<1>3. PICK f \in Load!Folders : f = Head(order) /\ f = Load!Current /\ status[f] = "new" /\ ~Listed(contexts, f)
  BY <1>2, AtHead DEF Load!Current
<1>4. ~Refused(f) /\ (step = "release" => f \in blamed) /\ contexts \in Seq(Load!Folders)
  BY <1>1, <1>3 DEF LoadInv, InLine, Loading, TakenType
<1>5. PICK s \in {"loaded", "error"} :
        /\ status' = [status EXCEPT ![f] = s]
        /\ s = "loaded" => contexts' = Append(contexts, f) /\ step = "examine"
        /\ s = "error" => f \in blamed /\ context[f].callbacks = <<>> /\ contexts' = contexts
  <2>1. CASE Load!Examined
    BY <1>3, <2>1 DEF Load!Examined, Load!Status
  <2>2. CASE Load!Released
    BY <1>3, <1>4, <2>2 DEF Load!Released, Load!Status, Load!More
  <2> QED BY <2>1, <2>2
<1>6. LoadType' /\ InLine' /\ KnownStay'
  BY <1>1, <1>2, <1>3, <1>4, <1>5, LoadKnown
<1>7. /\ Append(contexts, f) \in Seq(Load!Folders)
      /\ \A g : Listed(Append(contexts, f), g) <=> Listed(contexts, g) \/ g = f
  BY <1>4, ListedGrown
<1>8. /\ contexts' \in Seq(Load!Folders)
      /\ \A g : Listed(contexts', g) <=> Listed(contexts, g) \/ (g = f /\ s = "loaded")
  BY <1>4, <1>5, <1>7
<1>9. status'[f] = s /\ \A g \in Load!Folders \ {f} : status'[g] = status[g]
  BY <1>5 DEF LoadInv, LoadType
<1>10. TakenType'
  BY <1>1, <1>2, <1>8, AtHead DEF LoadInv, TakenType
<1>11. Held'
  BY <1>1, <1>3, <1>5, <1>8, <1>9 DEF LoadInv, Held, Loading
<1>12. TakenOnce'
  BY <1>1, <1>3, <1>5, <1>9, NothingTaken DEF CalledLate, Loading
<1> QED BY <1>6, <1>10, <1>11, <1>12 DEF LoadInv

\* The loading is over, or the end of the program begins.
LEMMA LoadIsOver ==
  ASSUME LoadInv, Load!Loaded \/ Load!Close
  PROVE  LoadInv'
<1>1. /\ step \in {"next", "running"} /\ step' \in {"running", "closing"}
      /\ UNCHANGED <<status, order, context, called, blamed, contexts, info, known>>
  BY DEF Load!Loaded, Load!Close, Load!Inventory
<1>2. order = <<>>
  BY DEF Load!Loaded, Load!Close, LoadInv, InLine
<1>3. LoadType' /\ TakenType' /\ Held'
  BY <1>1 DEF LoadInv, LoadType, TakenType, Held, Loading
<1>4. InLine'
  <2>1. \A g \in Load!Folders : Refused(g)' <=> Refused(g)
    BY <1>1 DEF Refused, Load!Duplicate
  <2> QED BY <1>1, <1>2, <2>1 DEF LoadInv, InLine, Loading
<1>5. TakenOnce'
  BY <1>1, NothingTaken DEF CalledLate, Loading
<1>6. KnownStay'
  <2>1. CASE Load!Loaded
    <3> DEFINE given == {info[f].id : f \in Load!Range(contexts)}
    <3>1. config' = [i \in given \cup known |-> [user |-> i \in known, defaults |-> i \in given]]
      BY <2>1 DEF Load!Loaded, Load!WithDefaults
    <3> HIDE DEF given
    <3>2. \A i \in known : i \in DOMAIN config' /\ config'[i].user = (i \in known)
      BY <3>1
    <3>3. \A i \in known : config'[i].user = TRUE
      BY <3>2
    <3> QED BY <1>1, <3>2, <3>3 DEF KnownStay
  <2>2. CASE Load!Close
    BY <1>1, <2>2 DEF Load!Close, LoadInv, KnownStay
  <2> QED BY <2>1, <2>2
<1> QED BY <1>3, <1>4, <1>5, <1>6 DEF LoadInv

\* At the end the contexts are worked off, the last one first.
LEMMA LoadCloses == ASSUME LoadInv, Load!CloseContext PROVE LoadInv'
<1>1. /\ step = "closing" /\ contexts # <<>>
      /\ UNCHANGED <<status, order, step, blamed, config, info, known>>
  BY DEF Load!CloseContext, Load!Inventory
<1>2. contexts \in Seq(Load!Folders)
  BY DEF LoadInv, TakenType
<1>3. PICK f \in Load!Folders : f = Load!Last(contexts) /\ f = contexts[Len(contexts)]
  BY <1>1, <1>2, ListedShrunk
<1>4. /\ Len(contexts) \in DOMAIN contexts /\ Load!Front(contexts) \in Seq(Load!Folders)
      /\ Shortened(Load!Front(contexts), contexts)
  BY <1>1, <1>2, ListedShrunk
<1>5. CASE Load!More(context[f])
  <2>1. Load!CloseStep(f) /\ UNCHANGED contexts
    BY <1>3, <1>5 DEF Load!CloseContext
  <2>2. Listed(contexts, f)
    BY <1>3, <1>4 DEF Listed
  <2> QED BY <1>1, <2>1, <2>2, LoadReleases
<1>6. CASE ~Load!More(context[f])
  <2>1. contexts' = Load!Front(contexts) /\ UNCHANGED <<context, called>>
    BY <1>3, <1>6 DEF Load!CloseContext
  <2>2. context[f].callbacks = <<>>
    BY <1>6 DEF Load!More
  <2>3. /\ \A g : Listed(contexts', g) => Listed(contexts, g)
        /\ \A g : Listed(contexts, g) => g = f \/ Listed(contexts', g)
    BY <1>3, <1>4, <2>1 DEF Listed, Shortened
  <2>4. LoadType' /\ KnownStay'
    BY <1>1 DEF LoadInv, LoadType, KnownStay
  <2>5. TakenType'
    BY <1>1, <1>4, <2>1 DEF LoadInv, TakenType
  <2>6. InLine'
    <3>1. \A g \in Load!Folders : Refused(g)' <=> Refused(g)
      BY <1>1 DEF Refused, Load!Duplicate
    <3> QED BY <1>1, <3>1 DEF LoadInv, InLine, Loading
  <2>7. Held'
    BY <1>1, <2>1, <2>2, <2>3 DEF LoadInv, Held, Loading
  <2>8. TakenOnce'
    BY <1>1, <2>1, NothingTaken DEF CalledLate, Loading
  <2> QED BY <2>4, <2>5, <2>6, <2>7, <2>8 DEF LoadInv
<1> QED BY <1>5, <1>6

\* Every step of the loading keeps its invariant.
LEMMA LoadStep == ASSUME LoadInv, Load!Next PROVE LoadInv'
<1>1. CASE Load!Release
  <2>1. /\ step = "release" /\ Load!CloseStep(Load!Current)
        /\ UNCHANGED <<status, order, step, blamed, contexts, config, info, known>>
    BY <1>1 DEF Load!Release, Load!Inventory
  <2>2. PICK f \in Load!Folders : f = Head(order) /\ f = Load!Current
    BY <2>1, AtHead DEF LoadInv, InLine, Load!Current
  <2> QED BY <2>1, <2>2, LoadReleases DEF Loading
<1> QED BY <1>1, LoadSkips, LoadOpens, LoadRegisters, LoadFails, LoadEnds, LoadIsOver, LoadCloses DEF Load!Next

\* While another part runs, it stays.
LEMMA LoadRests == ASSUME LoadInv, UNCHANGED loadVars PROVE LoadInv'
<1>1. UNCHANGED <<info, status, order, step, context, called, blamed, contexts, known, config>>
  BY DEF loadVars
<1>2. LoadType' /\ TakenType' /\ Held' /\ KnownStay'
  BY <1>1 DEF LoadInv, LoadType, TakenType, Held, Loading, KnownStay
<1>3. InLine'
  <2>1. \A g \in Load!Folders : Refused(g)' <=> Refused(g)
    BY <1>1 DEF Refused, Load!Duplicate
  <2> QED BY <1>1, <2>1 DEF LoadInv, InLine, Loading
<1>4. TakenOnce'
  BY <1>1, NothingTaken DEF CalledLate, Loading
<1> QED BY <1>2, <1>3, <1>4 DEF LoadInv

\* For any folders, manifests and failures: every folder is in line until
\* it has a status with a reason, and whoever holds a callback is still to
\* be closed (manager.py, api.py).
THEOREM LoadInvariance == PluginsSpec => [](part = "load" => LoadInv)
<1>1. ASSUME PluginsInit PROVE part = "load" => LoadInv
  BY <1>1, LoadInit DEF PluginsInit
<1>2. ASSUME part = "load" => LoadInv, PluginsNext PROVE (part = "load" => LoadInv)'
  <2>1. CASE part = "load" /\ Load!Next
    BY <1>2, <2>1, LoadStep DEF PluginsNext
  <2>2. CASE UNCHANGED loadVars
    BY <1>2, <2>2, LoadRests DEF PluginsNext
  <2> QED BY <1>2, <2>1, <2>2 DEF PluginsNext, others
<1>3. ASSUME part = "load" => LoadInv, UNCHANGED <<part, vars, others, audioVars, serviceVars>>
      PROVE  (part = "load" => LoadInv)'
  BY <1>3, LoadRests DEF others
<1> QED BY <1>1, <1>2, <1>3, PTL DEF PluginsSpec

\* As many callbacks have run as there are different ones among them.
LEMMA RunOnce ==
  ASSUME NEW S, NEW q \in Seq(S), Unlike(q)
  PROVE  Load!Cardinality(Load!Range(q)) = Len(q)
<1> DEFINE n == Len(q)
           R == Load!Range(q)
<1>1. n \in Nat /\ DOMAIN q = 1 .. n
  BY LenProperties
<1>2. R = {q[i] : i \in DOMAIN q}
  BY DEF Load!Range
<1> HIDE DEF n, R
<1>3. q \in [1 .. n -> R]
  <2>1. q = [i \in 1 .. n |-> q[i]]
    BY <1>1 DEF n
  <2>2. \A i \in 1 .. n : q[i] \in R
    BY <1>1, <1>2
  <2> HIDE DEF n
  <2> QED BY <2>1, <2>2
<1>4. ExistsBijection(1 .. n, R)
  <2>1. q \in Injection(1 .. n, R)
    BY <1>1, <1>3 DEF Injection, IsInjective, Unlike
  <2>2. q \in Surjection(1 .. n, R)
    BY <1>1, <1>2, <1>3 DEF Surjection
  <2> QED BY <2>1, <2>2 DEF ExistsBijection, Bijection
<1>5. Cardinality(R) = n
  BY <1>1, <1>4, FS_CountingElements
<1> QED BY <1>5 DEF Load!Cardinality, Cardinality, R, n

\* Plugins do not get in each other's way, for any folders and manifests and
\* whatever fails: no external folder takes the place of another plugin, none
\* keeps another from being loaded, no setting is lost, and what a plugin took
\* is released, its module last and everything once (plugins/manager.py load
\* and close, api.py PluginContext.close).
THEOREM PluginsStayApart == PluginsSpec => []PluginsAreApart
<1>1. ASSUME LoadInv PROVE Load!OwnIdentifier
  BY <1>1 DEF LoadInv, InLine, Refused, Load!Duplicate, Load!OwnIdentifier, Load!Folders
<1>2. ASSUME LoadInv PROVE Load!OthersLoad
  <2> SUFFICES ASSUME step = "running", NEW f \in Load!Folders,
                      info[f].enabled, ~info[f].error, ~Load!Duplicate(f), f \notin blamed
               PROVE  status[f] = "loaded"
    BY DEF Load!OthersLoad
  <2>1. order = <<>> /\ (status[f] = "new" <=> Listed(order, f))
    BY <1>2 DEF LoadInv, InLine
  <2>2. status[f] # "new"
    BY <2>1 DEF Listed
  <2>3. info[f].enabled \in BOOLEAN /\ info[f].error \in BOOLEAN
    BY <1>2 DEF LoadInv, LoadType, Manifests
  <2>4. ~Refused(f)
    BY <2>3 DEF Refused
  <2> QED BY <1>2, <2>2, <2>4 DEF LoadInv, InLine
<1>3. ASSUME LoadInv PROVE Load!SettingsKept
  BY <1>3 DEF LoadInv, KnownStay, Load!SettingsKept
<1>4. ASSUME LoadInv PROVE Load!FailureReleases
  <2> SUFFICES ASSUME NEW f \in Load!Folders, status[f] = "error", context[f].callbacks # <<>> PROVE FALSE
    BY DEF Load!FailureReleases
  <2>1. Loading(f) => order # <<>>
    BY <1>4 DEF LoadInv, InLine, Loading
  <2>2. Loading(f) => status[f] = "new"
    BY <1>4, <2>1, AtHead DEF Loading
  <2> QED BY <1>4, <2>2 DEF LoadInv, Held
<1>5. ASSUME LoadInv PROVE Load!UnloadedLast
  <2> SUFFICES ASSUME NEW f \in Load!Folders, "module" \in Load!Range(called[f])
               PROVE  context[f].callbacks = <<>>
    BY DEF Load!UnloadedLast
  <2>1. Listed(called[f], "module")
    BY DEF Load!Range, Listed
  <2> QED BY <1>5, <2>1 DEF LoadInv, TakenOnce, Taken
<1>6. ASSUME LoadInv PROVE Load!EndReleases
  <2> SUFFICES ASSUME step = "closing", contexts = <<>>, NEW f \in Load!Folders
               PROVE  context[f].callbacks = <<>> /\ Load!Cardinality(Load!Range(called[f])) = Len(called[f])
    BY DEF Load!EndReleases
  <2>1. ~Listed(contexts, f) /\ ~Loading(f)
    BY DEF Listed, Loading
  <2>2. context[f].callbacks = <<>>
    BY <1>6, <2>1 DEF LoadInv, Held
  <2>3. called[f] \in Seq(Load!Resources) /\ Unlike(called[f])
    BY <1>6 DEF LoadInv, TakenType, TakenOnce, Taken
  <2> QED BY <2>2, <2>3, RunOnce
<1>7. (part = "load" => LoadInv) => PluginsAreApart
  BY <1>1, <1>2, <1>3, <1>4, <1>5, <1>6 DEF PluginsAreApart
<1> QED BY <1>7, LoadInvariance, PTL

-----------------------------------------------------------------------------
(***************************************************************************)
(* Types.  What the invariants above do not say already: the bounds of the *)
(* counters and of the channel, and the values of what no property needs.  *)
(***************************************************************************)
AudioPlaces ==
  /\ sender \in {"open", "taken", "gone"} /\ ending \in {"rest", "send", "join", "done"}
  /\ device \in BOOLEAN /\ fault \in BOOLEAN
  /\ player \in {"receive", "open", "play", "check", "fail", "sweep", "stop", "drop", "ended"}
AudioNumbers == plays \in 0 .. MaxPlays /\ breaks \in 0 .. MaxBreaks /\ heard \subseteq 1 .. MaxPlays
AudioHands == pipe \in Seq(Audio!Requests) /\ Len(pipe) <= Capacity /\ hand \in Audio!Requests /\ sounding \subseteq Audio!Requests
AudioVoices ==
  voice \in [Players -> [pc : {"rest", "clone", "send", "wait"}, request : Audio!Requests, reply : {"none", "ok", "error"}]]

\* The variables of the audio output have their types in these four parts.
LEMMA AudioTypesAre == (AudioPlaces /\ AudioNumbers /\ AudioHands /\ AudioVoices) <=> Audio!TypeOK
BY DEF AudioPlaces, AudioNumbers, AudioHands, AudioVoices, Audio!TypeOK

\* They have them at the start.
LEMMA AudioTypesStart == ASSUME Audio!PlayerAssumption, Audio!Init PROVE Audio!TypeOK
<1>1. Audio!Close \in Audio!Requests
  BY DEF Audio!PlayerAssumption, Audio!Close, Audio!Requests
<1>2. voice = [t \in Players |-> [pc |-> "rest", request |-> Audio!Close, reply |-> "none"]]
  BY DEF Audio!Init, Audio!Resting
<1>3. pipe \in Seq(Audio!Requests) /\ Len(pipe) = 0 /\ Capacity \in Nat
  BY EmptySeq DEF Audio!Init, Audio!PlayerAssumption
<1>4. AudioVoices
  BY <1>1, <1>2 DEF AudioVoices
<1>5. AudioHands
  BY <1>1, <1>3 DEF Audio!Init, AudioHands
<1>6. AudioNumbers
  BY DEF Audio!Init, Audio!PlayerAssumption, AudioNumbers
<1>7. AudioPlaces
  BY DEF Audio!Init, AudioPlaces
<1> QED BY <1>4, <1>5, <1>6, <1>7, AudioTypesAre

\* Every step of the audio output keeps the types.
LEMMA AudioTyped == ASSUME Audio!PlayerAssumption, Audio!TypeOK, AudioInv, Audio!Next PROVE Audio!TypeOK'
<1>t. AudioPlaces /\ AudioNumbers /\ AudioHands /\ AudioVoices
  BY AudioTypesAre
<1>n. Capacity \in Nat /\ MaxPlays \in Nat /\ MaxBreaks \in Nat
  BY DEF Audio!PlayerAssumption
<1>1. Audio!Close \in Audio!Requests
  BY <1>n DEF Audio!Close, Audio!Requests
<1>2. AudioPlaces'
  BY <1>t DEF AudioPlaces, Audio!Next, Audio!Request, Audio!Call, Audio!CloneSender, Audio!Send, Audio!Return, Audio!CallerOnly,
    Audio!TakeSender, Audio!SendClose, Audio!Join, Audio!JoinEnded, Audio!Worker, Audio!Take, Audio!Timeout, Audio!Refuse, Audio!Open,
    Audio!Play, Audio!CheckFault, Audio!Fail, Audio!Sweep, Audio!Stop, Audio!Drop, Audio!EndSound, Audio!ReportFault,
    Audio!Goes, Audio!WorkerOnly, Audio!StopAtOnce, Audio!TimedWait, Audio!CloseIdle, Audio!shared, Audio!output
<1>3. AudioNumbers'
  <2>1. plays' \in 0 .. MaxPlays /\ breaks' \in 0 .. MaxBreaks
    BY <1>t, <1>n DEF AudioNumbers, Audio!Next, Audio!Request, Audio!Call, Audio!CloneSender, Audio!Send, Audio!Return, Audio!CallerOnly,
      Audio!TakeSender, Audio!SendClose, Audio!Join, Audio!JoinEnded, Audio!Worker, Audio!Take, Audio!Timeout, Audio!Refuse, Audio!Open,
      Audio!Play, Audio!CheckFault, Audio!Fail, Audio!Sweep, Audio!Stop, Audio!Drop, Audio!EndSound, Audio!ReportFault, Audio!WorkerOnly
  <2>2. \/ UNCHANGED heard
        \/ \E r \in sounding : heard' = heard \cup {r.id}
    BY DEF Audio!Next, Audio!Request, Audio!Call, Audio!CloneSender, Audio!Send, Audio!Return, Audio!CallerOnly,
      Audio!TakeSender, Audio!SendClose, Audio!Join, Audio!JoinEnded, Audio!Worker, Audio!Take, Audio!Timeout, Audio!Refuse, Audio!Open,
      Audio!Play, Audio!CheckFault, Audio!Fail, Audio!Sweep, Audio!Stop, Audio!Drop, Audio!EndSound, Audio!ReportFault, Audio!output
  <2>3. \A r \in sounding : r.id \in 1 .. MaxPlays
    BY <1>t, <1>n DEF AudioInv, PlaceInv, KnownIds, AudioNumbers
  <2> QED BY <1>t, <2>1, <2>2, <2>3 DEF AudioNumbers
<1>4. \A t \in Players : voice[t].request \in Audio!Requests
  BY <1>t DEF AudioVoices
<1> HIDE DEF Audio!Requests
<1>5. AudioHands'
  <2>1. \/ UNCHANGED pipe
        \/ \E r \in Audio!Requests : Len(pipe) < Capacity /\ pipe' = Append(pipe, r)
        \/ pipe # <<>> /\ pipe' = Tail(pipe)
        \/ pipe' = <<>>
    BY <1>1, <1>4 DEF Audio!Next, Audio!Request, Audio!Call, Audio!CloneSender, Audio!Send, Audio!Return, Audio!CallerOnly,
      Audio!TakeSender, Audio!SendClose, Audio!Join, Audio!JoinEnded, Audio!Worker, Audio!Take, Audio!Timeout, Audio!Refuse, Audio!Open,
      Audio!Play, Audio!CheckFault, Audio!Fail, Audio!Sweep, Audio!Stop, Audio!Drop, Audio!EndSound, Audio!ReportFault, Audio!shared
  <2>2. pipe' \in Seq(Audio!Requests) /\ Len(pipe') <= Capacity
    <3>1. CASE UNCHANGED pipe
      BY <3>1, <1>t DEF AudioHands
    <3>2. ASSUME NEW r \in Audio!Requests, Len(pipe) < Capacity, pipe' = Append(pipe, r)
          PROVE  pipe' \in Seq(Audio!Requests) /\ Len(pipe') <= Capacity
      BY <3>2, <1>t, <1>n, AppendProperties, LenProperties DEF AudioHands
    <3>3. CASE pipe # <<>> /\ pipe' = Tail(pipe)
      <4>1. Len(pipe) \in Nat /\ Tail(pipe) \in Seq(Audio!Requests) /\ Len(Tail(pipe)) = Len(pipe) - 1
        BY <3>3, <1>t, HeadTailProperties, LenProperties DEF AudioHands
      <4> QED BY <4>1, <3>3, <1>t, <1>n DEF AudioHands
    <3>4. CASE pipe' = <<>>
      BY <3>4, <1>n, EmptySeq
    <3> QED BY <2>1, <3>1, <3>2, <3>3, <3>4
  <2>3. pipe # <<>> => Head(pipe) \in Audio!Requests
    BY <1>t, HeadTailProperties DEF AudioHands
  <2>4. hand' \in Audio!Requests
    BY <1>1, <1>t, <2>3 DEF AudioHands, Audio!Next, Audio!Request, Audio!Call, Audio!CloneSender, Audio!Send, Audio!Return, Audio!CallerOnly,
      Audio!TakeSender, Audio!SendClose, Audio!Join, Audio!JoinEnded, Audio!Worker, Audio!Take, Audio!Timeout, Audio!Refuse, Audio!Open,
      Audio!Play, Audio!CheckFault, Audio!Fail, Audio!Sweep, Audio!Stop, Audio!Drop, Audio!EndSound, Audio!ReportFault
  <2>5. sounding' \subseteq Audio!Requests
    BY <1>t DEF AudioHands, Audio!Next, Audio!Request, Audio!Call, Audio!CloneSender, Audio!Send, Audio!Return, Audio!CallerOnly,
      Audio!TakeSender, Audio!SendClose, Audio!Join, Audio!JoinEnded, Audio!Worker, Audio!Take, Audio!Timeout, Audio!Refuse, Audio!Open,
      Audio!Play, Audio!CheckFault, Audio!Fail, Audio!Sweep, Audio!Stop, Audio!Drop, Audio!EndSound, Audio!ReportFault, Audio!output
  <2> QED BY <2>2, <2>4, <2>5 DEF AudioHands
<1>6. AudioVoices'
  <2> DEFINE V == [pc : {"rest", "clone", "send", "wait"}, request : Audio!Requests, reply : {"none", "ok", "error"}]
  <2>t. voice \in [Players -> V]
    BY <1>t DEF AudioVoices
  <2>1. \/ UNCHANGED voice
        \/ \E t \in Players, k \in Audio!Kinds : Audio!Request(t, k)
        \/ \E t \in Players, c \in {"send", "wait"} : Audio!CallerGoes(t, c)
        \/ \E t \in Players : Audio!CallEnds(t)
        \/ \E S : Audio!Answer(S, "ok") \/ Audio!Answer(S, "error")
    BY DEF Audio!Next, Audio!Call, Audio!CloneSender, Audio!Send, Audio!Return,
      Audio!TakeSender, Audio!SendClose, Audio!Join, Audio!JoinEnded, Audio!Worker, Audio!Take, Audio!Timeout, Audio!Refuse, Audio!Open,
      Audio!Play, Audio!CheckFault, Audio!Fail, Audio!Sweep, Audio!Stop, Audio!Drop, Audio!EndSound, Audio!ReportFault, Audio!AnswerOverlap
  <2>2. ASSUME NEW t \in Players, NEW k \in Audio!Kinds, Audio!Request(t, k) PROVE voice' \in [Players -> V]
    <3>1. [id |-> plays', kind |-> k] \in Audio!Requests
      BY <2>2, <1>3 DEF AudioNumbers, Audio!Requests
    <3>2. [pc |-> "clone", request |-> [id |-> plays', kind |-> k], reply |-> "none"] \in V
      BY <3>1
    <3> QED BY <3>2, <2>2, <2>t DEF Audio!Request
  <2>3. ASSUME NEW t \in Players, NEW c \in {"send", "wait"}, Audio!CallerGoes(t, c) PROVE voice' \in [Players -> V]
    <3>1. [voice[t] EXCEPT !.pc = c] \in V
      BY <2>t
    <3>2. voice' = [voice EXCEPT ![t] = [voice[t] EXCEPT !.pc = c]]
      BY <2>3 DEF Audio!CallerGoes
    <3> QED BY <3>1, <3>2, <2>t
  <2>4. ASSUME NEW t \in Players, Audio!CallEnds(t) PROVE voice' \in [Players -> V]
    <3>1. Audio!Resting \in V
      BY <1>1 DEF Audio!Resting
    <3> QED BY <3>1, <2>4, <2>t DEF Audio!CallEnds
  <2>5. ASSUME NEW S, NEW a \in {"ok", "error"}, Audio!Answer(S, a) PROVE voice' \in [Players -> V]
    <3>1. \A t \in Players : voice[t] \in V /\ [voice[t] EXCEPT !.reply = a] \in V
      BY <2>t
    <3> HIDE DEF V
    <3> QED BY <3>1, <2>5 DEF Audio!Answer
  <2>6. voice' \in [Players -> V]
    BY <2>t, <2>1, <2>2, <2>3, <2>4, <2>5
  <2> QED BY <2>6 DEF AudioVoices
<1>7. (AudioPlaces /\ AudioNumbers /\ AudioHands /\ AudioVoices)'
  BY <1>2, <1>3, <1>5, <1>6
<1> QED BY <1>7, AudioTypesAre DEF AudioPlaces, AudioNumbers, AudioHands, AudioVoices, Audio!TypeOK

\* The thread inside call is the one that has the lock; it, or nobody.
Within == {"send", "wait", "fail", "leave", "raise"}
Lines == [id : Nat, kind : {"result", "error", "garbage"}]
RpcLines == replies \in Seq(Lines) /\ asked \subseteq 1 .. asks /\ \A i \in DOMAIN replies : replies[i].id \in 1 .. asks
RpcLock == \A t \in Threads : caller[t].pc \in Within <=> lock = t
RpcTypes == child \in {"none", "up", "gone"} /\ RpcLines /\ RpcLock

\* The lines and the lock of an engine have their types at the start.
LEMMA RpcTypesStart == ASSUME Rpc!RpcAssumption, Rpc!Init PROVE RpcTypes
<1>1. replies \in Seq(Lines) /\ Len(replies) = 0
  BY EmptySeq DEF Rpc!Init
<1>2. RpcLines
  BY <1>1, LenProperties DEF Rpc!Init, RpcLines
<1>3. RpcLock
  BY DEF Rpc!Init, Rpc!RpcAssumption, Rpc!Quiet, RpcLock, Within
<1> QED BY <1>2, <1>3 DEF Rpc!Init, RpcTypes

\* Every step of an engine keeps them.
LEMMA RpcTyped == ASSUME Rpc!RpcAssumption, RpcInv, RpcTypes, Rpc!Next PROVE RpcTypes'
<1>a. asks \in Nat /\ caller \in [Threads -> CallStates]
  BY DEF RpcInv, RpcType
<1>b. replies \in Seq(Lines) /\ asked \subseteq 1 .. asks /\ DOMAIN replies = 1 .. Len(replies) /\ Len(replies) \in Nat
      /\ \A i \in DOMAIN replies : replies[i].id \in 1 .. asks
  BY LenProperties DEF RpcTypes, RpcLines
<1>1. child' \in {"none", "up", "gone"}
  BY DEF RpcTypes, Rpc!Next, Rpc!Create, Rpc!Request, Rpc!CloseRpc, Rpc!Call, Rpc!Enter, Rpc!Send, Rpc!Receive, Rpc!Fail,
    Rpc!FailReclaims, Rpc!Reclaim, Rpc!Kill, Rpc!Leave, Rpc!Return, Rpc!CloseEnds, Rpc!Finally, Rpc!Answer, Rpc!Die
<1>2. RpcLines'
  <2>1. asks' \in {asks, asks + 1} /\ (asked' \subseteq asked \/ (asked' = asked \cup {asks + 1} /\ asks' = asks + 1))
    BY DEF Rpc!Next, Rpc!Create, Rpc!Request, Rpc!CloseRpc, Rpc!Call, Rpc!Enter, Rpc!Send, Rpc!Receive, Rpc!Fail,
      Rpc!FailReclaims, Rpc!Reclaim, Rpc!Kill, Rpc!Leave, Rpc!Return, Rpc!CloseEnds, Rpc!Finally, Rpc!Answer, Rpc!Die, Rpc!Pipe
  <2>2. \/ UNCHANGED replies
        \/ replies' = <<>>
        \/ replies # <<>> /\ replies' = Tail(replies)
        \/ \E id \in asked, k \in {"result", "error", "garbage"} : replies' = Append(replies, [id |-> id, kind |-> k])
    BY DEF Rpc!Next, Rpc!Create, Rpc!Request, Rpc!CloseRpc, Rpc!Call, Rpc!Enter, Rpc!Send, Rpc!Receive, Rpc!Fail,
      Rpc!FailReclaims, Rpc!Reclaim, Rpc!Kill, Rpc!Leave, Rpc!Return, Rpc!CloseEnds, Rpc!Finally, Rpc!Answer, Rpc!Die, Rpc!Pipe
  <2>3. asked' \subseteq 1 .. asks' /\ 1 .. asks \subseteq 1 .. asks'
    <3>1. 1 .. asks \subseteq 1 .. asks' /\ (asks' = asks + 1 => asks + 1 \in 1 .. asks')
      BY <1>a, <2>1
    <3> QED BY <3>1, <1>b, <2>1
  <2>4. replies' \in Seq(Lines) /\ \A i \in DOMAIN replies' : replies'[i].id \in 1 .. asks
    <3>1. CASE UNCHANGED replies
      BY <3>1, <1>b
    <3>2. CASE replies' = <<>>
      BY <3>2, EmptySeq
    <3>3. CASE replies # <<>> /\ replies' = Tail(replies)
      <4>1. /\ Tail(replies) \in Seq(Lines) /\ Len(Tail(replies)) = Len(replies) - 1
            /\ \A i \in 1 .. Len(Tail(replies)) : Tail(replies)[i] = replies[i + 1]
        BY <3>3, <1>b, HeadTailProperties
      <4>2. DOMAIN Tail(replies) = 1 .. Len(replies) - 1
        BY <4>1, LenProperties
      <4>3. ASSUME NEW i \in 1 .. Len(replies) - 1 PROVE i + 1 \in DOMAIN replies
        BY <4>3, <1>b
      <4> QED BY <3>3, <1>b, <4>1, <4>2, <4>3
    <3>4. ASSUME NEW id \in asked, NEW k \in {"result", "error", "garbage"}, replies' = Append(replies, [id |-> id, kind |-> k])
          PROVE  replies' \in Seq(Lines) /\ \A i \in DOMAIN replies' : replies'[i].id \in 1 .. asks
      <4> DEFINE r == [id |-> id, kind |-> k]
      <4>1. r \in Lines /\ r.id \in 1 .. asks
        BY <1>a, <1>b, <3>4 DEF Lines
      <4> HIDE DEF r
      <4>2. /\ Append(replies, r) \in Seq(Lines) /\ Len(Append(replies, r)) = Len(replies) + 1
            /\ \A i \in 1 .. Len(replies) : Append(replies, r)[i] = replies[i]
            /\ Append(replies, r)[Len(replies) + 1] = r
        BY <1>b, <4>1, AppendProperties
      <4>3. DOMAIN Append(replies, r) = 1 .. Len(replies) + 1
        BY <4>2, LenProperties
      <4>4. \A i \in 1 .. Len(replies) + 1 : Append(replies, r)[i].id \in 1 .. asks
        <5> SUFFICES ASSUME NEW i \in 1 .. Len(replies) + 1 PROVE Append(replies, r)[i].id \in 1 .. asks
          OBVIOUS
        <5>1. i \in 1 .. Len(replies) \/ i = Len(replies) + 1
          BY <1>b
        <5> QED BY <5>1, <1>b, <4>1, <4>2
      <4>5. replies' = Append(replies, r)
        BY <3>4 DEF r
      <4> QED BY <4>2, <4>3, <4>4, <4>5
    <3> QED BY <2>2, <3>1, <3>2, <3>3, <3>4
  <2> QED BY <2>3, <2>4 DEF RpcLines
<1>3. RpcLock'
  <2> SUFFICES ASSUME NEW t \in Threads PROVE caller'[t].pc \in Within <=> lock' = t
    BY DEF RpcLock
  <2>t. caller[t].pc \in Within <=> lock = t
    BY DEF RpcTypes, RpcLock
  <2>n. lock = "nobody" => t # lock
    BY DEF Rpc!RpcAssumption
  <2>1. ASSUME NEW u \in Threads, Rpc!Create(u) \/ Rpc!Request(u) \/ Rpc!CloseRpc(u) \/ Rpc!Call(u)
        PROVE  caller'[t].pc \in Within <=> lock' = t
    <3>u. caller[u].pc \in Within <=> lock = u
      BY DEF RpcTypes, RpcLock
    <3>1. CASE u # t
      <4>1. caller'[t] = caller[t]
        BY <1>a, <2>1, <3>1 DEF Rpc!Create, Rpc!Request, Rpc!CloseRpc, Rpc!Call, Rpc!Enter, Rpc!Send, Rpc!Receive, Rpc!Fail,
          Rpc!FailReclaims, Rpc!Leave, Rpc!Return, Rpc!CloseEnds, Rpc!Goes
      <4>2. lock' = t <=> lock = t
        BY <2>1, <3>1, <3>u, <2>n DEF Rpc!Create, Rpc!Request, Rpc!CloseRpc, Rpc!Call, Rpc!Enter, Rpc!Send, Rpc!Receive, Rpc!Fail,
          Rpc!FailReclaims, Rpc!Leave, Rpc!LeaveLock, Rpc!Return, Rpc!CloseEnds, Rpc!RpcAssumption, Within
      <4> QED BY <4>1, <4>2, <2>t
    <3>2. CASE u = t
      <4>c. caller[t] \in CallStates
        BY <1>a
      <4>1. CASE Rpc!Create(t) \/ Rpc!Request(t) \/ Rpc!CloseRpc(t)
        <5>1. caller[t].pc = "rest" /\ lock' = lock
          BY <4>1 DEF Rpc!Create, Rpc!Request, Rpc!CloseRpc, Rpc!At
        <5>2. caller'[t].pc = "lock"
          BY <1>a, <4>1 DEF Rpc!Create, Rpc!Request, Rpc!CloseRpc, Rpc!Quiet
        <5> QED BY <5>1, <5>2, <2>t DEF Within
      <4>2. CASE Rpc!Enter(t)
        <5>1. caller'[t].pc \in {"raise", "send"}
          BY <1>a, <4>c, <4>2 DEF Rpc!Enter, CallStates
        <5> QED BY <4>2, <5>1 DEF Rpc!Enter, Within
      <4>3. CASE Rpc!Send(t) \/ Rpc!Receive(t) \/ Rpc!Fail(t) \/ Rpc!FailReclaims(t)
        <5>1. caller[t].pc \in Within /\ lock' = lock
          BY <4>3 DEF Rpc!Send, Rpc!Receive, Rpc!Fail, Rpc!FailReclaims, Rpc!At, Within
        <5>2. caller'[t].pc \in Within
          BY <1>a, <4>c, <4>3 DEF Rpc!Send, Rpc!Receive, Rpc!Fail, Rpc!FailReclaims, Rpc!Goes, Within, CallStates
        <5> QED BY <5>1, <5>2, <2>t
      <4>4. CASE Rpc!Leave(t)
        <5>1. caller'[t].pc \in {"end", "done", "failed"}
          BY <1>a, <4>c, <4>4 DEF Rpc!Leave, CallStates
        <5> QED BY <4>4, <5>1, <2>n DEF Rpc!Leave, Rpc!LeaveLock, Rpc!RpcAssumption, Within
      <4>5. CASE Rpc!Return(t) \/ Rpc!CloseEnds(t)
        <5>1. caller[t].pc \in {"done", "failed", "end"} /\ lock' = lock
          BY <4>5 DEF Rpc!Return, Rpc!CloseEnds, Rpc!At
        <5>2. caller'[t].pc = "rest"
          BY <1>a, <4>5 DEF Rpc!Return, Rpc!CloseEnds, Rpc!Quiet
        <5> QED BY <5>1, <5>2, <2>t DEF Within
      <4> QED BY <2>1, <3>2, <4>1, <4>2, <4>3, <4>4, <4>5 DEF Rpc!Call
    <3> QED BY <3>1, <3>2
  <2>2. CASE Rpc!Answer \/ Rpc!Die
    BY <2>2, <2>t DEF Rpc!Answer, Rpc!Die
  <2> QED BY <2>1, <2>2 DEF Rpc!Next
<1> QED BY <1>1, <1>2, <1>3 DEF RpcTypes

\* They are what TypeOK of PluginRpc says, with the invariant of the calls.
LEMMA RpcTypesAre == ASSUME RpcInv, RpcTypes PROVE Rpc!TypeOK
<1>1. DOMAIN replies = 1 .. Len(replies)
  BY LenProperties DEF RpcTypes, RpcLines
<1> QED BY <1>1 DEF RpcInv, RpcType, RpcTypes, RpcLines, RpcLock, Within, Rpc!TypeOK

\* The channels that were opened are numbered, and close shuts the one it read.
ChatChannels == opens \in 0 .. MaxOpens /\ channel \in 0 .. MaxOpens /\ connected \in BOOLEAN
ChatCloser ==
  /\ closer \in {"idle", "copy", "shut", "join", "done"} /\ copy \in 0 .. MaxOpens /\ shut \subseteq 1 .. MaxOpens
  /\ closer = "shut" => copy # 0
ChatLists == items \in Seq(1 .. Messages) /\ ids \in Seq(1 .. Messages)
ChatTypes == ChatChannels /\ ChatCloser /\ ChatLists

\* They have their types at the start.
LEMMA ChatTypesStart == ASSUME Chat!SourceAssumption, Chat!Init PROVE ChatTypes
<1>1. ChatLists
  BY EmptySeq DEF Chat!Init, ChatLists
<1>2. ChatChannels
  <2>1. opens = 0 /\ channel = 0 /\ connected = FALSE /\ MaxOpens \in Nat
    BY DEF Chat!SourceAssumption, Chat!Init
  <2>2. 0 \in 0 .. MaxOpens
    BY <2>1
  <2> QED BY <2>1, <2>2 DEF ChatChannels
<1>3. ChatCloser
  BY DEF Chat!SourceAssumption, Chat!Init, ChatCloser
<1> QED BY <1>1, <1>2, <1>3 DEF ChatTypes

\* Every step of the source keeps them.
LEMMA ChatTyped == ASSUME Chat!SourceAssumption, ChatInv, ChatTypes, Chat!Next PROVE ChatTypes'
<1>n. MaxOpens \in Nat /\ Messages \in Nat /\ sent \in 0 .. Messages
  BY DEF Chat!SourceAssumption, ChatInv, ThreadType
<1>1. ChatChannels'
  <2>1. /\ opens' = opens \/ (opens' = opens + 1 /\ opens < MaxOpens)
        /\ channel' \in {channel, 0, opens'}
        /\ connected' \in {connected, TRUE, FALSE}
    BY DEF Chat!Next, Chat!Own, Chat!Service, Chat!Close, Chat!Resolve, Chat!Top, Chat!Open,
      Chat!NextItem, Chat!Item, Chat!EndOfResponse, Chat!Waited, Chat!Finally, Chat!Report, Chat!OnClosed, Chat!Answer, Chat!Offline,
      Chat!StopAtResponse, Chat!Exhausted, Chat!Broken, Chat!SetStop, Chat!CopyChannel, Chat!ShutChannel, Chat!Join
  <2>2. opens' \in 0 .. MaxOpens
    BY <2>1, <1>n DEF ChatTypes, ChatChannels
  <2>3. channel' \in 0 .. MaxOpens
    BY <2>1, <2>2, <1>n DEF ChatTypes, ChatChannels
  <2> QED BY <2>1, <2>2, <2>3 DEF ChatTypes, ChatChannels
<1>2. ChatCloser'
  <2>1. CASE UNCHANGED <<closer, copy, shut>>
    BY <2>1 DEF ChatTypes, ChatCloser
  <2>2. CASE Chat!Close
    <3>1. closer' \in {"copy", "join", "shut", "done"} /\ (closer' = "shut" => copy' # 0)
      BY <2>2 DEF Chat!Close, Chat!SetStop, Chat!CopyChannel, Chat!ShutChannel, Chat!Join
    <3>2. copy' \in 0 .. MaxOpens
      BY <2>2 DEF ChatTypes, ChatCloser, ChatChannels, Chat!Close, Chat!SetStop, Chat!CopyChannel, Chat!ShutChannel, Chat!Join
    <3>3. UNCHANGED shut \/ (shut' = shut \cup {copy} /\ copy # 0)
      BY <2>2 DEF ChatTypes, ChatCloser, Chat!Close, Chat!SetStop, Chat!CopyChannel, Chat!ShutChannel, Chat!CloseCopy, Chat!Join
    <3>4. copy # 0 => copy \in 1 .. MaxOpens
      BY <1>n DEF ChatTypes, ChatCloser
    <3> QED BY <3>1, <3>2, <3>3, <3>4 DEF ChatTypes, ChatCloser
  <2>3. Chat!Close \/ UNCHANGED <<closer, copy, shut>>
    BY DEF Chat!Next, Chat!Own, Chat!Service, Chat!caller, Chat!Resolve, Chat!Top, Chat!Open,
      Chat!NextItem, Chat!Item, Chat!EndOfResponse, Chat!Waited, Chat!Finally, Chat!OnClosed, Chat!Answer, Chat!Offline,
      Chat!StopAtResponse, Chat!Exhausted, Chat!Broken
  <2> QED BY <2>1, <2>2, <2>3
<1>3. ChatLists'
  <2>t. items \in Seq(1 .. Messages) /\ ids \in Seq(1 .. Messages)
    BY DEF ChatTypes, ChatLists
  <2>1. CASE UNCHANGED <<items, ids>>
    BY <2>1, <2>t DEF ChatLists
  <2>2. ASSUME NEW upto \in sent .. Messages, NEW m \in BOOLEAN, Chat!Answer(upto, m) PROVE ChatLists'
    <3>1. items' = [i \in 1 .. upto - sent |-> sent + i] /\ ids' = ids
      BY <2>2 DEF Chat!Answer
    <3>2. upto - sent \in Nat /\ \A i \in 1 .. upto - sent : sent + i \in 1 .. Messages
      BY <1>n
    <3> DEFINE k == upto - sent
               e(i) == sent + i
    <3>3. [i \in 1 .. k |-> e(i)] \in Seq(1 .. Messages)
      <4>1. k \in Nat /\ \A i \in 1 .. k : e(i) \in 1 .. Messages
        BY <3>2
      <4> HIDE DEF k, e
      <4> QED BY <4>1, IsASeq
    <3> QED BY <3>1, <3>3, <2>t DEF ChatLists
  <2>3. CASE Chat!Item
    <3>1. items # <<>>
      BY <2>3 DEF ChatInv, OneLate, Chat!Item, Chat!Go
    <3>2. Head(items) \in 1 .. Messages /\ Tail(items) \in Seq(1 .. Messages)
      BY <3>1, <2>t, HeadTailProperties
    <3> DEFINE all == Append(ids, Head(items))
    <3>3. all \in Seq(1 .. Messages) /\ all # <<>>
      BY <3>2, <2>t, AppendProperties
    <3>4. Tail(all) \in Seq(1 .. Messages)
      BY <3>3, HeadTailProperties
    <3>5. items' = Tail(items) /\ ids' \in {ids, all, Tail(all)}
      BY <2>3 DEF Chat!Item, Chat!Rest, Chat!Remember
    <3> HIDE DEF all
    <3> QED BY <2>t, <3>2, <3>3, <3>4, <3>5 DEF ChatLists
  <2>4. \/ UNCHANGED <<items, ids>> \/ Chat!Item
        \/ \E upto \in sent .. Messages, m \in BOOLEAN : Chat!Answer(upto, m)
    BY DEF Chat!Next, Chat!Own, Chat!Service, Chat!Close, Chat!local, Chat!Keep, Chat!Resolve, Chat!Top, Chat!Open,
      Chat!NextItem, Chat!EndOfResponse, Chat!Waited, Chat!Finally, Chat!OnClosed, Chat!Offline,
      Chat!StopAtResponse, Chat!Exhausted, Chat!Broken, Chat!SetStop, Chat!CopyChannel, Chat!ShutChannel, Chat!Join
  <2> QED BY <2>1, <2>2, <2>3, <2>4
<1> QED BY <1>1, <1>2, <1>3 DEF ChatTypes

\* They are what TypeOK of YouTubeSource says, with the invariant of the source.
LEMMA ChatTypesAre == ASSUME Chat!SourceAssumption, ChatInv, ChatTypes PROVE Chat!TypeOK
<1>1. token \in 0 .. Messages
  BY DEF Chat!SourceAssumption, ChatInv, ThreadType
<1> QED BY <1>1 DEF ChatInv, ThreadType, LastAreKnown, ChatTypes, ChatChannels, ChatCloser, ChatLists, Chat!TypeOK

\* A plugin registers but its own identifier, and only while its code runs;
\* and no context is in the list twice.
LoadOwn == \A f \in Load!Folders :
  context[f].provider \in {"none", info[f].id} /\ (context[f].accepting = TRUE => step = "run" /\ f = Load!Current)
LoadTypes == LoadOwn /\ Unlike(contexts)

\* It is so at the start.
LEMMA LoadTypesStart == ASSUME Load!Init PROVE LoadTypes
<1>1. \A f \in Load!Folders : context[f].provider = "none" /\ context[f].accepting = FALSE
  BY DEF Load!Init, Load!NoContext
<1>2. Unlike(contexts)
  BY DEF Load!Init, Unlike
<1> QED BY <1>1, <1>2 DEF LoadTypes, LoadOwn

\* A step that changes one context keeps the others as they are.
LEMMA OwnKeeps ==
  ASSUME LoadInv, LoadOwn, NEW f \in Load!Folders, NEW c \in Contexts, context' = [context EXCEPT ![f] = c], info' = info,
         c.provider \in {"none", info[f].id}, c.accepting = TRUE => step' = "run" /\ f = Load!Current',
         \A g \in Load!Folders \ {f} : context[g].accepting = FALSE
  PROVE  LoadOwn'
<1>1. context \in [Load!Folders -> Contexts]
  BY DEF LoadInv, TakenType
<1>2. context'[f] = c /\ \A g \in Load!Folders \ {f} : context'[g] = context[g]
  BY <1>1
<1> QED BY <1>2 DEF LoadOwn

\* The code of no plugin but the one in hand runs.
LEMMA OnlyOneRuns ==
  ASSUME LoadInv, LoadOwn, NEW f \in Load!Folders, step # "run" \/ f # Load!Current
  PROVE  context[f].accepting = FALSE
<1>1. context[f] \in Contexts
  BY DEF LoadInv, TakenType
<1>2. context[f].accepting \in BOOLEAN
  BY <1>1 DEF Contexts
<1> QED BY <1>2 DEF LoadOwn

\* A callback that runs leaves its context closed.
LEMMA CloseKeepsOwn ==
  ASSUME LoadInv, LoadOwn, NEW f \in Load!Folders, Load!CloseStep(f), step # "run", info' = info
  PROVE  LoadOwn'
<1>1. PICK failed \in BOOLEAN :
        context' = [context EXCEPT ![f] =
          [context[f] EXCEPT !.callbacks = Load!RemoveAt(context[f].callbacks, Len(context[f].callbacks)),
                             !.failed = context[f].failed \/ failed]]
  BY DEF Load!CloseStep, Load!Latest
<1>2. context \in [Load!Folders -> Contexts] /\ context[f] \in Contexts
  BY DEF LoadInv, TakenType
<1> DEFINE c == [context[f] EXCEPT !.callbacks = Load!RemoveAt(context[f].callbacks, Len(context[f].callbacks)),
                                   !.failed = context[f].failed \/ failed]
<1>3. c.provider = context[f].provider /\ c.accepting = context[f].accepting
  BY <1>2 DEF Contexts
<1>4. context' = [context EXCEPT ![f] = c]
  BY <1>1
<1> HIDE DEF c
<1>5. context'[f] = c /\ \A g \in Load!Folders \ {f} : context'[g] = context[g]
  BY <1>2, <1>4
<1>6. \A g \in Load!Folders : context'[g].provider = context[g].provider /\ context'[g].accepting = FALSE
  BY <1>3, <1>5, OnlyOneRuns
<1> QED BY <1>6 DEF LoadOwn

\* Every step of the loading keeps both.
LEMMA LoadTyped == ASSUME LoadInv, LoadTypes, Load!Next PROVE LoadTypes'
<1>1. info' = info
  BY DEF Load!Next, Load!Skip, Load!Open, Load!TakeProcess, Load!Register, Load!RunFails, Load!RunEnds, Load!ExamineFails,
    Load!Examined, Load!Release, Load!Released, Load!Loaded, Load!Close, Load!CloseContext, Load!Inventory
<1>2. context \in [Load!Folders -> Contexts] /\ contexts \in Seq(Load!Folders) /\ LoadOwn /\ Unlike(contexts)
  BY DEF LoadInv, TakenType, LoadTypes
<1>3. step = "run" \/ step = "release" => order # <<>>
  BY DEF LoadInv, InLine
<1>4. order # <<>> => Load!Current \in Load!Folders /\ ~Listed(contexts, Load!Current)
  BY AtHead DEF Load!Current
<1>5. LoadOwn'
  <2>1. CASE step # "run" /\ UNCHANGED context
    BY <1>1, <1>2, <2>1, OnlyOneRuns DEF LoadOwn
  <2>2. CASE Load!Open
    <3>1. PICK f \in Load!Folders : f = Load!Current
      BY <1>4, <2>2 DEF Load!Open
    <3> DEFINE one == <<"module">>
               q == IF f \in External THEN one ELSE <<>>
               c == [Load!NoContext EXCEPT !.accepting = TRUE, !.callbacks = q]
    <3>2. context' = [context EXCEPT ![f] = c] /\ step' = "run" /\ step = "next" /\ f = Load!Current'
      BY <2>2, <3>1 DEF Load!Open, Load!ContextIs, Load!Current
    <3>3. q \in Seq(Load!Resources)
      <4>1. one \in Seq(Load!Resources)
        BY DEF Load!Resources
      <4> HIDE DEF one
      <4> QED BY <4>1, EmptySeq
    <3> HIDE DEF q
    <3>4. c \in Contexts /\ c.provider = "none"
      BY <3>3 DEF Load!NoContext, Contexts
    <3> HIDE DEF c
    <3> QED BY <1>1, <1>2, <3>2, <3>4, OwnKeeps, OnlyOneRuns
  <2>3. CASE Load!TakeProcess \/ Load!Register \/ Load!RunFails \/ Load!RunEnds
    <3>s. step = "run" /\ order' = order
      BY <2>3 DEF Load!TakeProcess, Load!Register, Load!RunFails, Load!RunEnds
    <3>1. PICK f \in Load!Folders : f = Load!Current
      BY <1>3, <1>4, <3>s
    <3>f. f = Load!Current'
      BY <3>1, <3>s DEF Load!Current
    <3> DEFINE d == context[f]
    <3>2. /\ d.accepting \in BOOLEAN /\ d.provider \in {"none", info[f].id} /\ d.callbacks \in Seq(Load!Resources)
          /\ info[f].id \in Ids /\ d \in Contexts
      BY <1>2 DEF Contexts, LoadOwn, LoadInv, LoadType, Manifests
    <3>3. \A g \in Load!Folders \ {f} : context[g].accepting = FALSE
      BY <1>2, <3>1, OnlyOneRuns
    <3>4. CASE Load!TakeProcess
      <4> DEFINE c == [d EXCEPT !.callbacks = Append(d.callbacks, "process")]
      <4>1. context' = [context EXCEPT ![f] = c] /\ step' = "run"
        BY <3>1, <3>4 DEF Load!TakeProcess, Load!ContextIs
      <4>2. Append(d.callbacks, "process") \in Seq(Load!Resources)
        BY <3>2, AppendProperties DEF Load!Resources
      <4> HIDE DEF d
      <4>3. c \in Contexts /\ c.provider = d.provider
        BY <3>2, <4>2 DEF Contexts
      <4> HIDE DEF c
      <4> QED BY <1>1, <1>2, <3>f, <3>2, <3>3, <4>1, <4>3, OwnKeeps
    <3>5. CASE Load!Register
      <4> DEFINE c == [d EXCEPT !.provider = info[f].id, !.callbacks = Append(d.callbacks, "provider")]
      <4>1. context' = [context EXCEPT ![f] = c] /\ step' = "run"
        BY <3>1, <3>5 DEF Load!Register, Load!ContextIs
      <4>2. Append(d.callbacks, "provider") \in Seq(Load!Resources)
        BY <3>2, AppendProperties DEF Load!Resources
      <4> HIDE DEF d
      <4>3. c \in Contexts /\ c.provider = info[f].id
        BY <3>2, <4>2 DEF Contexts
      <4> HIDE DEF c
      <4> QED BY <1>1, <1>2, <3>f, <3>3, <4>1, <4>3, OwnKeeps
    <3>6. CASE Load!RunFails \/ Load!RunEnds
      <4> DEFINE c == [d EXCEPT !.accepting = FALSE]
      <4>1. context' = [context EXCEPT ![f] = c]
        BY <3>1, <3>6 DEF Load!RunFails, Load!RunEnds, Load!ContextIs, Load!Closed
      <4> HIDE DEF d
      <4>2. c \in Contexts /\ c.provider = d.provider /\ c.accepting = FALSE
        BY <3>2 DEF Contexts
      <4> HIDE DEF c
      <4> QED BY <1>1, <1>2, <3>2, <3>3, <4>1, <4>2, OwnKeeps
    <3> QED BY <2>3, <3>4, <3>5, <3>6
  <2>4. CASE Load!Release
    <3>1. step = "release" /\ Load!CloseStep(Load!Current)
      BY <2>4 DEF Load!Release
    <3>2. Load!Current \in Load!Folders
      BY <1>3, <1>4, <3>1
    <3> QED BY <1>1, <1>2, <3>1, <3>2, CloseKeepsOwn
  <2>5. CASE Load!CloseContext
    <3>1. step = "closing" /\ contexts # <<>>
      BY <2>5 DEF Load!CloseContext
    <3>2. PICK f \in Load!Folders : f = Load!Last(contexts)
      BY <1>2, <3>1, ListedShrunk
    <3>3. Load!CloseStep(f) \/ UNCHANGED context
      BY <2>5, <3>2 DEF Load!CloseContext
    <3> QED BY <1>1, <1>2, <2>1, <3>1, <3>3, CloseKeepsOwn
  <2>6. \/ step # "run" /\ UNCHANGED context
        \/ Load!Open \/ Load!TakeProcess \/ Load!Register \/ Load!RunFails \/ Load!RunEnds \/ Load!Release \/ Load!CloseContext
    BY DEF Load!Next, Load!Skip, Load!ExamineFails, Load!Examined, Load!Released, Load!Loaded, Load!Close
  <2> QED BY <2>1, <2>2, <2>3, <2>4, <2>5, <2>6
<1>6. Unlike(contexts')
  <2>1. CASE UNCHANGED contexts
    BY <1>2, <2>1
  <2>2. CASE Load!Examined
    <3>1. order # <<>> /\ contexts' = Append(contexts, Load!Current)
      BY <2>2 DEF Load!Examined, LoadInv, InLine
    <3> QED BY <1>2, <1>4, <3>1, ListedGrown
  <2>3. CASE Load!CloseContext /\ contexts' # contexts
    <3>1. contexts # <<>> /\ contexts' = Load!Front(contexts)
      BY <2>3 DEF Load!CloseContext
    <3>2. Shortened(Load!Front(contexts), contexts)
      BY <1>2, <3>1, ListedShrunk
    <3> QED BY <1>2, <3>1, <3>2 DEF Shortened, Unlike
  <2>4. UNCHANGED contexts \/ Load!Examined \/ Load!CloseContext
    BY DEF Load!Next, Load!Skip, Load!Open, Load!TakeProcess, Load!Register, Load!RunFails, Load!RunEnds, Load!ExamineFails,
      Load!Release, Load!Released, Load!Loaded, Load!Close
  <2> QED BY <2>1, <2>2, <2>3, <2>4
<1> QED BY <1>5, <1>6 DEF LoadTypes

\* They are what TypeOK of PluginLoad says, with the invariant of the loading.
LEMMA LoadTypesAre == ASSUME LoadInv, LoadTypes PROVE Load!TypeOK
<1>1. \A f \in Load!Folders : Load!Range(context[f].callbacks) \cup Load!Range(called[f]) \subseteq Load!Resources
  <2> SUFFICES ASSUME NEW f \in Load!Folders
               PROVE  Load!Range(context[f].callbacks) \cup Load!Range(called[f]) \subseteq Load!Resources
    OBVIOUS
  <2>1. context[f].callbacks \in Seq(Load!Resources) /\ called[f] \in Seq(Load!Resources)
    BY DEF LoadInv, TakenType, Contexts
  <2> QED BY <2>1, LenProperties DEF Load!Range
<1>2. \A f \in Load!Folders : context[f].accepting \in BOOLEAN
  BY DEF LoadInv, TakenType, Contexts
<1>3. \A f \in Load!Folders : context[f].provider \in {"none", info[f].id} /\ (context[f].accepting => step = "run" /\ f = Load!Current)
  BY <1>2 DEF LoadTypes, LoadOwn
<1>4. DOMAIN contexts = 1 .. Len(contexts)
  BY LenProperties DEF LoadInv, TakenType
<1> QED BY <1>1, <1>3, <1>4 DEF LoadTypes, Unlike, LoadInv, LoadType, Load!TypeOK

\* What the manager of the Qwen service holds.  What a registration in the
\* queue names was prepared (Prepared), and a preparation has its thread.
ManagerFlags == {closed, preparing, cancel, stopped, active, button} \subseteq BOOLEAN
ManagerModels == desired \in Models \cup {NoModel, NoEngine} /\ saved \in Models \cup {NoModel}
Prepared == \A c \in Registrations(posts) : c.model \in Models
ManagerShows ==
  /\ state = [phase |-> state.phase, path |-> state.path, gen |-> state.gen]
  /\ state.phase \in Phases /\ state.path \in BOOLEAN /\ state.gen \in Nat /\ state.gen <= generation
ManagerNumbers == endpoint \in Nat /\ endpoint <= generation /\ clicks \in Nat
ManagerThreads ==
  /\ worker.pc \in {"wait", "close", "closed", "check", "current", "clear", "start", "poll", "announce",
                    "fail", "failed", "ended"}
  /\ setup.pc \in {"none", "wait", "work", "finish"} /\ (preparing => setup.pc # "none")
ManagerProcess == process.phase \in {"none", "loading", "warming", "ready", "failed", "dead"}
ManagerSpeech ==
  speech = [at |-> speech.at, gen |-> speech.gen] /\ speech.at \in Mine \cup {"none", "other", "cancelled"}
ManagerTypes ==
  /\ ManagerFlags /\ ManagerModels /\ Prepared /\ ManagerShows /\ ManagerNumbers
  /\ ManagerThreads /\ ManagerProcess /\ ManagerSpeech

\* What the manager of the Qwen service starts with is of its types.
LEMMA ManagerTypesStart == ASSUME Init PROVE ManagerTypes
<1>1. ManagerFlags /\ ManagerModels /\ ManagerThreads /\ ManagerProcess
  BY DEF Init, ManagerFlags, ManagerModels, ManagerThreads, ManagerProcess, NoProcess
<1>2. ManagerShows /\ ManagerNumbers
  <2>1. \E p \in Phases, b \in BOOLEAN : state = [phase |-> p, path |-> b, gen |-> generation]
    <3>1. CASE active
      <4>1. state.path = (saved \in Models) /\ state.phase \in Phases
        BY <3>1 DEF Init, Wanted, Phases
      <4>2. state = [phase |-> state.phase, path |-> saved \in Models, gen |-> generation]
        BY <3>1, <4>1 DEF Init, Wanted
      <4>3. (saved \in Models) \in BOOLEAN
        OBVIOUS
      <4> QED BY <4>1, <4>2, <4>3
    <3>2. CASE ~active
      BY <3>2 DEF Init, Phases
    <3> QED BY <3>1, <3>2
  <2>2. PICK p \in Phases, b \in BOOLEAN : state = [phase |-> p, path |-> b, gen |-> generation]
    BY <2>1
  <2>3. generation \in {0, 1} /\ endpoint = 0 /\ clicks = 0
    BY DEF Init
  <2>4. generation \in Nat /\ generation <= generation /\ 0 <= generation
    BY <2>3
  <2> QED BY <2>2, <2>3, <2>4 DEF ManagerShows, ManagerNumbers
<1>3. ManagerSpeech
  BY DEF Init, ManagerSpeech
<1>4. Prepared
  <2>1. ASSUME NEW c \in Registrations(posts) PROVE FALSE
    <3>1. PICK i \in 1 .. Len(posts) : c = posts[i] /\ c.kind = "register"
      BY DEF Registrations, Entries
    <3>2. posts = << >> \/ posts = << [kind |-> "engine"] >>
      BY DEF Init
    <3> QED BY <3>1, <3>2
  <2> QED BY <2>1 DEF Prepared
<1> QED BY <1>1, <1>2, <1>3, <1>4 DEF ManagerTypes

\* A registration is posted with the model that was prepared, and no other
\* way.
LEMMA PreparedIsPosted == ASSUME QwenInv, RegisterInv, Prepared, Next PROVE Prepared'
<1>0. posts \in Seq(Posts) /\ generation \in Nat
  BY DEF RegisterInv, QwenInv, Numbers
<1>a. Announced(posts) \in Seq(Posts) /\ Registrations(Announced(posts)) \subseteq Registrations(posts)
  BY <1>0, QueueAnnounced
<1>1. ASSUME Registrations(posts') \subseteq Registrations(posts) PROVE Prepared'
  BY <1>1 DEF Prepared
<1>2. CASE UNCHANGED posts
  BY <1>1, <1>2
<1>3. CASE posts' = Announced(posts)
  BY <1>1, <1>3, <1>a
<1>4. CASE posts # << >> /\ (posts' = Tail(posts) \/ posts' = Announced(Tail(posts)))
  <2>1. Tail(posts) \in Seq(Posts) /\ Registrations(Tail(posts)) \subseteq Registrations(posts)
    BY <1>0, <1>4, QueueTail
  <2>2. Registrations(Announced(Tail(posts))) \subseteq Registrations(Tail(posts))
    BY <2>1, QueueAnnounced
  <2> QED BY <1>1, <1>4, <2>1, <2>2
<1>5. CASE posts' = << >>
  <2>1. Len(posts') = 0
    BY <1>5
  <2>2. Registrations(posts') = {}
    BY <2>1 DEF Registrations, Entries
  <2> QED BY <1>1, <2>2
<1>6. CASE UserApplies
  <2>1. PICK a \in BOOLEAN : posts' = Append(posts, [kind |-> "apply", active |-> a])
    BY <1>6 DEF UserApplies
  <2> DEFINE c == [kind |-> "apply", active |-> a]
  <2>2. c \in Posts /\ c.kind # "register"
    BY DEF Posts
  <2> HIDE DEF c
  <2>3. Registrations(posts') \subseteq Registrations(posts)
    BY <1>0, <2>1, <2>2, QueueAppend DEF c
  <2> QED BY <1>1, <2>3
<1>7. CASE Registers /\ posts' = Append(Announced(posts), Registration)
  <2>1. setup.result \in Models /\ generation + 1 \in Nat
    BY <1>0, <1>7 DEF Registers
  <2>2. Registration \in Posts /\ Registration.model \in Models
    BY <2>1 DEF Registration, Posts
  <2> HIDE DEF Registration
  <2>3. Registrations(posts') \subseteq Registrations(Announced(posts)) \cup {Registration}
    BY <1>7, <1>a, <2>2, QueueAppend
  <2> QED BY <1>a, <2>2, <2>3 DEF Prepared
<1>u. CASE User
  BY <1>2, <1>3, <1>5, <1>6, <1>u DEF User, Prepare, CancelPreparation, Refresh, Restart, Set, Close, UserSession, session
<1>w. CASE Worker
  BY <1>2, <1>3, <1>w DEF Worker, WorkerEnd, WorkerWake, WorkerClose, WorkerClosed, WorkerCheck, WorkerCurrent, WorkerClear,
    WorkerStart, WorkerLeave, WorkerSeesFailure, WorkerSeesWarming, WorkerSeesReady, WorkerAnnounce, Announce,
    WorkerTimeout, WorkerFail, WorkerRelease, SetIf, Set
<1>s. CASE Setup
  BY <1>2, <1>3, <1>7, <1>s DEF Setup, SetupWait, SetupWork, SetupFinish
<1>c. CASE Control
  BY <1>4, <1>c DEF Control, TakeNews, TakeApply, TakeRegistration, Takes, Configure
<1>r. CASE Service \/ Speech
  BY <1>2, <1>r DEF Service, session, Speech, SpeechWaits, SpeechFails, SpeechStarts, SpeechGoes
<1> QED BY <1>u, <1>w, <1>s, <1>c, <1>r DEF Next

\* A command to apply says whether the engine is chosen.
LEMMA TakenApplies ==
  ASSUME RegisterInv, Takes("apply")
  PROVE  Head(posts).active \in BOOLEAN
<1>1. Head(posts) \in Posts /\ Head(posts).kind = "apply"
  BY QueueTail DEF RegisterInv, Takes
<1> QED BY <1>1 DEF Posts

\* What is configured and saved is a model or the lack of one.
LEMMA ManagerModelsKeep == ASSUME RegisterInv, ManagerTypes, Next PROVE ManagerModels' /\ ManagerFlags'
<1>1. \/ UNCHANGED <<desired, saved, active>>
      \/ Takes("apply") /\ saved' = saved /\ desired' \in {saved, NoEngine} /\ active' = Head(posts).active
      \/ Takes("register") /\ saved' = Head(posts).model /\ desired' \in {Head(posts).model, NoEngine} /\ active' = active
  BY DEF Next, User, Prepare, CancelPreparation, Refresh, Restart, Set, Close, UserApplies, UserSession,
    Worker, WorkerEnd, WorkerWake, WorkerClose, WorkerClosed, WorkerCheck, WorkerCurrent, WorkerClear,
    WorkerStart, WorkerLeave, WorkerSeesFailure, WorkerSeesWarming, WorkerSeesReady, WorkerAnnounce,
    WorkerTimeout, WorkerFail, WorkerRelease, WorkerOnly,
    Setup, SetupWait, SetupWork, SetupFinish, SetupOnly, Service, session, manager,
    Control, TakeNews, TakeApply, TakeRegistration, ControlOnly, Configure,
    Speech, SpeechWaits, SpeechFails, SpeechStarts, SpeechGoes
<1>2. ASSUME Takes("register") PROVE Head(posts).model \in Models
  <2>1. Head(posts) \in Registrations(posts)
    BY <1>2, QueueTail DEF RegisterInv, Registrations, Takes
  <2> QED BY <2>1 DEF ManagerTypes, Prepared
<1>3. ManagerModels'
  BY <1>1, <1>2 DEF ManagerTypes, ManagerModels
<1>4. active' \in BOOLEAN
  BY <1>1, TakenApplies DEF ManagerTypes, ManagerFlags
<1>5. /\ closed' \in {closed, TRUE} /\ preparing' \in {preparing, TRUE, FALSE}
      /\ cancel' \in {cancel, TRUE, FALSE, cancel \/ preparing} /\ stopped' \in {stopped, TRUE, FALSE}
      /\ button' \in {button, RestartEnabled}
  BY DEF Next, User, Prepare, Awaited, CancelPreparation, Refresh, Restart, Set, Close, UserApplies, UserSession,
    Worker, WorkerEnd, WorkerWake, WorkerClose, WorkerClosed, WorkerCheck, WorkerCurrent, WorkerClear,
    WorkerStart, WorkerLeave, WorkerSeesFailure, WorkerSeesWarming, WorkerSeesReady, WorkerAnnounce,
    WorkerTimeout, WorkerFail, WorkerRelease, WorkerOnly,
    Setup, SetupWait, SetupWork, SetupFinish, EndPreparing, SetupOnly, Service, session, manager,
    Control, TakeNews, TakeApply, TakeRegistration, ControlOnly, Configure,
    Speech, SpeechWaits, SpeechFails, SpeechStarts, SpeechGoes
<1>6. (cancel \/ preparing) \in BOOLEAN /\ RestartEnabled \in BOOLEAN
  BY DEF RestartEnabled, ManagerTypes, ManagerShows
<1>7. closed \in BOOLEAN /\ preparing \in BOOLEAN /\ cancel \in BOOLEAN /\ stopped \in BOOLEAN /\ button \in BOOLEAN
  BY DEF ManagerTypes, ManagerFlags
<1>8. closed' \in BOOLEAN /\ preparing' \in BOOLEAN /\ cancel' \in BOOLEAN /\ stopped' \in BOOLEAN /\ button' \in BOOLEAN
  BY <1>5, <1>6, <1>7
<1>9. ManagerFlags'
  BY <1>4, <1>8 DEF ManagerFlags
<1> QED BY <1>3, <1>9

\* What is shown is a phase of the present generation, or stays.
LEMMA ManagerShowsKeep == ASSUME QwenInv, ManagerTypes, Next PROVE ManagerShows'
<1>n. generation \in Nat
  BY DEF QwenInv, Numbers
<1>1. \/ state' = state /\ generation' \in {generation, generation + 1}
      \/ \E p \in Phases, b \in BOOLEAN, g \in {generation, generation + 1} :
           generation' = g /\ state' = [phase |-> p, path |-> b, gen |-> g]
  <2>a. \A c, g : \E p \in Phases, b \in BOOLEAN : Wanted(c, g) = [phase |-> p, path |-> b, gen |-> g]
    <3> SUFFICES ASSUME NEW c, NEW g PROVE \E p \in Phases, b \in BOOLEAN : Wanted(c, g) = [phase |-> p, path |-> b, gen |-> g]
      OBVIOUS
    <3>1. (c \in Models) \in BOOLEAN
      OBVIOUS
    <3>2. (IF c \in Models THEN "loading" ELSE IF c = NoModel THEN "unprepared" ELSE "stopped") \in Phases
      BY DEF Phases
    <3> QED BY <3>1, <3>2 DEF Wanted
  <2>b. TRUE \in BOOLEAN /\ FALSE \in BOOLEAN
    OBVIOUS
  <2>u. CASE User
    BY <2>u, <2>b DEF User, Prepare, CancelPreparation, Refresh, Restart, Set, Close, UserApplies, UserSession, manager, Phases
  <2>w. CASE Worker
    BY <2>w, <2>b DEF Worker, WorkerEnd, WorkerWake, WorkerClose, WorkerClosed, WorkerCheck, WorkerCurrent, WorkerClear,
      WorkerStart, WorkerLeave, WorkerSeesFailure, WorkerSeesWarming, WorkerSeesReady, WorkerAnnounce, Announce,
      WorkerTimeout, WorkerFail, WorkerRelease, WorkerOnly, SetIf, Set, Phases
  <2>s. CASE Setup
    <3>1. Outcome \in Phases /\ (Outcome = "prepared") \in BOOLEAN
      BY DEF Outcome, Phases
    <3>2. CASE state' = [phase |-> Outcome, path |-> Outcome = "prepared", gen |-> generation + 1] /\ generation' = generation + 1
      BY <3>1, <3>2
    <3>3. CASE \E c : state' = Wanted(c, generation + 1) /\ generation' = generation + 1
      BY <2>a, <3>3
    <3>4. CASE state' = state /\ generation' = generation
      BY <3>4
    <3> QED BY <2>s, <3>2, <3>3, <3>4 DEF Setup, SetupWait, SetupWork, SetupFinish, NextGeneration
  <2>c. CASE Control
    <3>1. \/ state' = state /\ generation' \in {generation, generation + 1}
          \/ \E c : state' = Wanted(c, generation + 1) /\ generation' = generation + 1
      BY <2>c DEF Control, TakeNews, TakeApply, TakeRegistration, Configure
    <3> QED BY <2>a, <3>1
  <2>r. CASE Service \/ Speech
    BY <2>r DEF Service, manager, Speech, SpeechWaits, SpeechFails, SpeechStarts, SpeechGoes
  <2> QED BY <2>u, <2>w, <2>s, <2>c, <2>r DEF Next
<1>2. CASE state' = state /\ generation' \in {generation, generation + 1}
  <2>1. state.gen <= generation'
    BY <1>n, <1>2 DEF ManagerTypes, ManagerShows
  <2> QED BY <1>2, <2>1 DEF ManagerTypes, ManagerShows
<1>3. ASSUME NEW p \in Phases, NEW b \in BOOLEAN, NEW g \in {generation, generation + 1},
             generation' = g, state' = [phase |-> p, path |-> b, gen |-> g]
      PROVE  ManagerShows'
  <2>1. g \in Nat /\ g <= g
    BY <1>n
  <2> QED BY <1>3, <2>1 DEF ManagerShows
<1> QED BY <1>1, <1>2, <1>3

\* The number of the service that answers is of a configuration that was.
LEMMA ManagerNumbersKeep == ASSUME QwenInv, ManagerTypes, Next PROVE ManagerNumbers'
<1>n. generation \in Nat
  BY DEF QwenInv, Numbers
<1>1. endpoint' \in {endpoint, 0, generation} /\ generation' \in {generation, generation + 1} /\ clicks' \in {clicks, clicks + 1}
  BY DEF Next, User, Prepare, CancelPreparation, Refresh, Restart, Set, Close, UserApplies, UserSession,
    Worker, WorkerEnd, WorkerWake, WorkerClose, WorkerClosed, WorkerCheck, WorkerCurrent, WorkerClear,
    WorkerStart, WorkerLeave, WorkerSeesFailure, WorkerSeesWarming, WorkerSeesReady, WorkerAnnounce,
    WorkerTimeout, WorkerFail, WorkerRelease, WorkerOnly, Current, Live,
    Setup, SetupWait, SetupWork, SetupFinish, NextGeneration, SetupOnly, Service, session, manager,
    Control, TakeNews, TakeApply, TakeRegistration, ControlOnly, Configure,
    Speech, SpeechWaits, SpeechFails, SpeechStarts, SpeechGoes
<1>2. generation' \in Nat /\ generation <= generation'
  BY <1>n, <1>1
<1>3. endpoint \in Nat /\ endpoint <= generation /\ clicks \in Nat
  BY DEF ManagerTypes, ManagerNumbers
<1>4. clicks' \in Nat
  BY <1>1, <1>3
<1>5. endpoint' \in Nat /\ endpoint' <= generation'
  BY <1>n, <1>1, <1>2, <1>3
<1> QED BY <1>4, <1>5 DEF ManagerNumbers

\* The threads and the process go through their stages.
LEMMA ManagerThreadsKeep == ASSUME QwenInv, ManagerTypes, Next PROVE ManagerThreads' /\ ManagerProcess'
<1>0. /\ worker = [pc |-> worker.pc, observed |-> worker.observed, config |-> worker.config, last |-> worker.last]
      /\ setup = [pc |-> setup.pc, gen |-> setup.gen, result |-> setup.result]
      /\ process = [phase |-> process.phase, model |-> process.model]
  BY DEF QwenInv, Shapes
<1>1. CASE Worker
  <2>1. setup' = setup /\ preparing' = preparing
    BY <1>1 DEF Worker, WorkerEnd, WorkerWake, WorkerClose, WorkerClosed, WorkerCheck, WorkerCurrent, WorkerClear,
      WorkerStart, WorkerLeave, WorkerSeesFailure, WorkerSeesWarming, WorkerSeesReady, WorkerAnnounce,
      WorkerTimeout, WorkerFail, WorkerRelease, WorkerOnly
  <2>2. \A p : WorkerGoes(p) => worker' = [pc |-> p, observed |-> worker.observed, config |-> worker.config, last |-> worker.last]
    BY <1>0 DEF WorkerGoes
  <2>3. worker'.pc \in {"wait", "close", "closed", "check", "current", "clear", "start", "poll", "announce",
                    "fail", "failed", "ended"}
    <3>1. CASE WorkerSeesWarming \/ WorkerAnnounce \/ WorkerWake
      <4>1. CASE WorkerSeesWarming
        <5>1. worker' = [worker EXCEPT !.last = "warming"] /\ worker.pc = "poll"
          BY <4>1 DEF WorkerSeesWarming, WorkerAt
        <5> QED BY <1>0, <5>1
      <4>2. CASE WorkerAnnounce
        <5>1. worker' = [worker EXCEPT !.pc = "poll", !.last = "ready"]
          BY <4>2 DEF WorkerAnnounce
        <5> QED BY <1>0, <5>1
      <4>3. CASE WorkerWake
        BY <4>3 DEF WorkerWake
      <4> QED BY <3>1, <4>1, <4>2, <4>3
    <3>2. CASE WorkerEnd \/ WorkerClose \/ WorkerClosed \/ WorkerCheck \/ WorkerCurrent \/ WorkerClear
      <4>1. \E p \in {"ended", "closed", "check", "wait", "fail", "current", "clear", "start"} : WorkerGoes(p)
        BY <3>2 DEF WorkerEnd, WorkerClose, WorkerClosed, WorkerCheck, WorkerCurrent, WorkerClear
      <4> QED BY <2>2, <4>1
    <3>3. CASE WorkerStart \/ WorkerLeave \/ WorkerSeesFailure \/ WorkerSeesReady \/ WorkerTimeout \/ WorkerFail \/ WorkerRelease
      <4>1. \E p \in {"poll", "wait", "fail", "announce", "failed"} : WorkerGoes(p)
        BY <3>3 DEF WorkerStart, WorkerLeave, WorkerSeesFailure, WorkerSeesReady, WorkerTimeout, WorkerFail, WorkerRelease
      <4> QED BY <2>2, <4>1
    <3> QED BY <1>1, <3>1, <3>2, <3>3 DEF Worker
  <2>4. ManagerProcess'
    <3>1. CASE process' = process
      BY <3>1 DEF ManagerTypes, ManagerProcess
    <3>2. CASE process' = NoProcess
      BY <3>2 DEF NoProcess, ManagerProcess
    <3>3. CASE process' = [phase |-> "loading", model |-> worker.config]
      BY <3>3 DEF ManagerProcess
    <3> QED BY <1>1, <3>1, <3>2, <3>3 DEF Worker, WorkerEnd, LastClose, WorkerWake, WorkerClose, CloseOld, WorkerClosed,
          WorkerCheck, WorkerCurrent, WorkerClear, WorkerStart, WorkerLeave, WorkerSeesFailure, WorkerSeesWarming,
          WorkerSeesReady, WorkerAnnounce, WorkerTimeout, WorkerFail, WorkerRelease
  <2> QED BY <2>1, <2>3, <2>4 DEF ManagerTypes, ManagerThreads
<1>2. CASE Setup
  <2>1. worker' = worker /\ process' = process
    BY <1>2 DEF Setup, SetupWait, SetupWork, SetupFinish, SetupOnly
  <2>2. setup'.pc \in {"none", "wait", "work", "finish"} /\ (preparing' => preparing /\ setup'.pc # "none")
    <3>1. CASE SetupWait \/ SetupWork
      <4>1. preparing' = preparing
        BY <3>1 DEF SetupWait, SetupWork
      <4>2. setup'.pc \in {"work", "finish"}
        BY <1>0, <3>1 DEF SetupWait, SetupWork
      <4> QED BY <4>1, <4>2 DEF ManagerTypes, ManagerFlags
    <3>2. CASE SetupFinish
      <4>1. preparing' = FALSE
        BY <3>2 DEF SetupFinish, EndPreparing
      <4>2. setup'.pc = "none"
        BY <1>0, <3>2 DEF SetupFinish
      <4> QED BY <4>1, <4>2
    <3> QED BY <1>2, <3>1, <3>2 DEF Setup
  <2> QED BY <2>1, <2>2 DEF ManagerTypes, ManagerThreads, ManagerProcess
<1>3. CASE Service
  <2>1. worker' = worker /\ setup' = setup /\ preparing' = preparing
    BY <1>3 DEF Service, manager
  <2>2. process'.phase \in {"warming", "ready", "failed", "dead"}
    BY <1>0, <1>3 DEF Service, ServiceGoes
  <2> QED BY <2>1, <2>2 DEF ManagerTypes, ManagerThreads, ManagerProcess
<1>4. CASE User \/ Control \/ Speech
  <2>1. worker' = worker /\ process' = process
    BY <1>4 DEF User, Prepare, CancelPreparation, Refresh, Restart, Close, UserApplies, UserSession, threads,
      Control, TakeNews, TakeApply, TakeRegistration, ControlOnly, Speech, SpeechWaits, SpeechFails, SpeechStarts, SpeechGoes
  <2>2. (setup' = setup /\ preparing' = preparing) \/ setup'.pc = "wait"
    <3>1. CASE Prepare
      BY <3>1 DEF Prepare
    <3>2. CASE CancelPreparation \/ Refresh \/ Restart \/ Close \/ UserApplies \/ UserSession \/ Speech
      BY <3>2 DEF CancelPreparation, Refresh, Restart, Close, UserApplies, UserSession, threads, manager,
        Speech, SpeechWaits, SpeechFails, SpeechStarts, SpeechGoes
    <3>3. CASE Control
      BY <3>3 DEF Control, TakeNews, TakeApply, TakeRegistration, ControlOnly, Configure, threads
    <3> QED BY <1>4, <3>1, <3>2, <3>3 DEF User
  <2> QED BY <2>1, <2>2 DEF ManagerTypes, ManagerThreads, ManagerProcess
<1> QED BY <1>1, <1>2, <1>3, <1>4 DEF Next

\* The pipeline is somewhere on its way through a session.
LEMMA ManagerSpeechKeeps == ASSUME ManagerTypes, Next PROVE ManagerSpeech'
<1>0. speech = [at |-> speech.at, gen |-> speech.gen] /\ speech.at \in Mine \cup {"none", "other", "cancelled"}
  BY DEF ManagerTypes, ManagerSpeech
<1>1. \/ speech' = speech
      \/ \E s \in Mine \cup {"none", "other", "cancelled"} : \E g : speech' = [at |-> s, gen |-> g]
  <2>1. CASE User
    BY <2>1 DEF User, Prepare, CancelPreparation, Refresh, Restart, Close, UserApplies, UserSession, session, Mine
  <2>2. CASE Worker \/ Setup \/ Service
    BY <2>2 DEF Worker, WorkerEnd, WorkerWake, WorkerClose, WorkerClosed, WorkerCheck, WorkerCurrent, WorkerClear,
      WorkerStart, WorkerLeave, WorkerSeesFailure, WorkerSeesWarming, WorkerSeesReady, WorkerAnnounce,
      WorkerTimeout, WorkerFail, WorkerRelease, WorkerOnly, Setup, SetupWait, SetupWork, SetupFinish, SetupOnly, Service, session
  <2>3. CASE Control
    <3>1. Rebuilt = [at |-> Rebuilt.at, gen |-> 0] /\ Rebuilt.at \in Mine \cup {"none", "other"}
      BY DEF Rebuilt, Mine
    <3>2. CASE TakeNews
      BY <1>0, <3>2 DEF TakeNews, Mine
    <3>3. CASE TakeApply \/ TakeRegistration
      <4>1. speech' = speech \/ speech' = Rebuilt
        BY <3>3 DEF TakeApply, TakeRegistration
      <4> HIDE DEF Rebuilt
      <4> QED BY <3>1, <4>1
    <3> QED BY <2>3, <3>2, <3>3 DEF Control
  <2>4. CASE Speech
    BY <1>0, <2>4 DEF Speech, SpeechWaits, SpeechFails, SpeechStarts, SpeechGoes, Mine
  <2> QED BY <2>1, <2>2, <2>3, <2>4 DEF Next
<1> QED BY <1>0, <1>1 DEF ManagerSpeech

\* The types of the manager follow.
LEMMA ManagerTyped == ASSUME QwenInv, RegisterInv, ManagerTypes, Next PROVE ManagerTypes'
<1>1. Prepared'
  BY PreparedIsPosted DEF ManagerTypes
<1> QED BY <1>1, ManagerModelsKeep, ManagerShowsKeep, ManagerNumbersKeep, ManagerThreadsKeep, ManagerSpeechKeeps DEF ManagerTypes

\* With its invariant that is what the run checks.
LEMMA ManagerTypesAre == ASSUME QwenInv, RegisterInv, ManagerTypes PROVE TypeOK
<1>1. \A i \in 1 .. Len(posts) : posts[i].kind \in {"engine", "apply", "register"}
  <2> SUFFICES ASSUME NEW i \in 1 .. Len(posts) PROVE posts[i].kind \in {"engine", "apply", "register"}
    OBVIOUS
  <2>1. posts[i] \in Posts
    BY ElementOfSeq DEF RegisterInv
  <2> QED BY <2>1 DEF Posts
<1>2. (setup.pc # "none") = preparing
  BY DEF QwenInv, AloneInv, SetupIsPreparing, ManagerTypes, ManagerThreads, ManagerFlags
<1>3. {generation, endpoint, state.gen, clicks} \subseteq Nat
  BY DEF QwenInv, Numbers, ManagerTypes, ManagerShows, ManagerNumbers
<1>4. {closed, preparing, cancel, stopped, state.path, active, button} \subseteq BOOLEAN
  BY DEF ManagerTypes, ManagerShows, ManagerFlags
<1> QED BY <1>1, <1>2, <1>3, <1>4 DEF ManagerTypes, ManagerModels, ManagerShows, ManagerNumbers, ManagerThreads,
      ManagerProcess, ManagerSpeech, TypeOK

\* What a plugin publishes and saves has its types.
LEMMA PortTypesAre == ASSUME PortInv PROVE Port!TypeOK
<1>1. /\ Port!Range(pending) \subseteq Port!Saves /\ Port!Range(flushing) \subseteq Port!Saves
      /\ Port!Range(calls) \subseteq Port!Saves /\ Port!Range(kept) \subseteq Port!Saves
  <2> SUFFICES ASSUME NEW q \in Seq(Port!Saves) PROVE Port!Range(q) \subseteq Port!Saves
    BY DEF PortInv, SaveInv, QueueType
  <2>1. \A i \in DOMAIN q : q[i] \in Port!Saves
    BY LenProperties, ElementOfSeq
  <2> QED BY <2>1 DEF Port!Range
<1>2. kind \in 0 .. newest /\ newest \in 0 .. MaxGen
  BY DEF PortInv, PublishInv, PublishType
<1>3. \A t \in Threads : publisher[t].at \in {"rest", "test", "set"} /\ saver[t].save \in Port!Saves
  BY DEF PortInv, PublishInv, PublishType, Publishers, SaveInv, SaveType, Savers
<1>4. \A t \in Threads : saver[t].at = "wait" => binding = t
  BY DEF PortInv, SaveInv, WaitsLocked
<1>5. bound \in BOOLEAN /\ binding \in Threads \cup {"free"} /\ dropped \subseteq Port!Saves
  BY DEF PortInv, SaveInv, SaveType, QueueType
<1> QED BY <1>1, <1>2, <1>3, <1>4, <1>5 DEF Port!TypeOK

\* A part that rests keeps its types.
LEMMA TypesRest ==
  /\ ManagerTypes /\ UNCHANGED vars => ManagerTypes'
  /\ Audio!TypeOK /\ UNCHANGED audioVars => Audio!TypeOK'
  /\ RpcTypes /\ UNCHANGED rpcVars => RpcTypes'
  /\ ChatTypes /\ UNCHANGED sourceVars => ChatTypes'
  /\ LoadTypes /\ UNCHANGED loadVars => LoadTypes'
<1>1. ASSUME ManagerTypes, UNCHANGED vars PROVE ManagerTypes'
  BY <1>1 DEF vars, manager, threads, session, ManagerTypes, ManagerFlags, ManagerModels, Prepared, ManagerShows,
    ManagerNumbers, ManagerThreads, ManagerProcess, ManagerSpeech
<1>2. ASSUME Audio!TypeOK, UNCHANGED audioVars PROVE Audio!TypeOK'
  BY <1>2 DEF audioVars, Audio!TypeOK
<1>3. ASSUME RpcTypes, UNCHANGED rpcVars PROVE RpcTypes'
  BY <1>3 DEF rpcVars, RpcTypes, RpcLines, RpcLock
<1>4. ASSUME ChatTypes, UNCHANGED sourceVars PROVE ChatTypes'
  BY <1>4 DEF sourceVars, ChatTypes, ChatChannels, ChatCloser, ChatLists
<1>5. ASSUME LoadTypes, UNCHANGED loadVars PROVE LoadTypes'
  BY <1>5 DEF loadVars, LoadTypes, LoadOwn, Unlike, Load!Current
<1> QED BY <1>1, <1>2, <1>3, <1>4, <1>5

PluginsTypes ==
  /\ part \in Parts /\ ManagerTypes /\ Audio!TypeOK /\ RpcTypes
  /\ part = "chat" => ChatTypes
  /\ part = "load" => LoadTypes
PluginsInv ==
  QwenPartsInv /\ PortsInv /\ (part = "chat" => ChatInv) /\ (part = "load" => LoadInv)

\* All the invariants of the parts hold in every state.
LEMMA PluginsInvariance == PluginsSpec => []PluginsInv
BY QwenPartsInvariance, PortsInvariance, SourceInvariance, LoadInvariance, PTL DEF PluginsInv

\* Every variable of the component that runs has its type (PluginsTypeOK, an
\* invariant of the run of MCPlugins): the counters stay within their bounds,
\* the channel of the audio output within its capacity, who is within a call
\* to an engine holds the lock, what a plugin is known to provide is its own,
\* and what is registered and configured is a model that was prepared or none.
THEOREM PluginsAreTyped == PluginsSpec => []PluginsTypeOK
<1>1. ASSUME PluginsInit PROVE PluginsTypes
  <2>1. /\ part \in Parts /\ Init /\ Load!Init /\ Rpc!Init /\ Chat!Init /\ Audio!Init
    BY <1>1 DEF PluginsInit
  <2> QED BY <2>1, ManagerTypesStart, AudioTypesStart, RpcTypesStart, ChatTypesStart, LoadTypesStart, PluginsAssumption
        DEF PluginsTypes, PluginsAssumption
<1>2. ASSUME PluginsInv, PluginsTypes, [PluginsNext]_partVars PROVE PluginsTypes'
  <2>0. /\ QwenInv /\ RegisterInv /\ RpcInv /\ AudioInv /\ (part = "chat" => ChatInv) /\ (part = "load" => LoadInv)
        /\ part \in Parts /\ ManagerTypes /\ Audio!TypeOK /\ RpcTypes
        /\ (part = "chat" => ChatTypes) /\ (part = "load" => LoadTypes)
    BY <1>2 DEF PluginsInv, QwenPartsInv, PortsInv, PluginsTypes
  <2>1. part' = part
    BY <1>2 DEF PluginsNext, partVars
  <2>2. ManagerTypes'
    BY <1>2, <2>0, PartMoves, ManagerTyped, TypesRest
  <2>3. Audio!TypeOK'
    BY <1>2, <2>0, PortMoves, AudioTyped, TypesRest, PluginsAssumption DEF PluginsAssumption
  <2>4. RpcTypes'
    BY <1>2, <2>0, PortMoves, RpcTyped, TypesRest, PluginsAssumption DEF PluginsAssumption
  <2>5. ASSUME part = "chat" PROVE ChatTypes'
    <3>1. Chat!Next \/ UNCHANGED sourceVars
      BY <1>2, <2>5 DEF PluginsNext, partVars, others
    <3> QED BY <2>0, <2>5, <3>1, ChatTyped, TypesRest, PluginsAssumption DEF PluginsAssumption
  <2>6. ASSUME part = "load" PROVE LoadTypes'
    <3>1. Load!Next \/ UNCHANGED loadVars
      BY <1>2, <2>6 DEF PluginsNext, partVars, others
    <3> QED BY <2>0, <2>6, <3>1, LoadTyped, TypesRest
  <2> QED BY <2>0, <2>1, <2>2, <2>3, <2>4, <2>5, <2>6 DEF PluginsTypes
<1>3. ASSUME PluginsInv, PluginsTypes PROVE PluginsTypeOK
  <2>0. /\ QwenInv /\ RegisterInv /\ ServerInv /\ ProvisionInv /\ PortInv /\ RpcInv
        /\ (part = "chat" => ChatInv) /\ (part = "load" => LoadInv)
        /\ part \in Parts /\ ManagerTypes /\ Audio!TypeOK /\ RpcTypes
        /\ (part = "chat" => ChatTypes) /\ (part = "load" => LoadTypes)
    BY <1>3 DEF PluginsInv, QwenPartsInv, PortsInv, PluginsTypes
  <2>1. TypeOK /\ Provisioning!TypeOK /\ Port!TypeOK /\ Rpc!TypeOK /\ Server!TypeOK
    BY <2>0, ManagerTypesAre, ProvisionIsSafe, PortTypesAre, RpcTypesAre, ServerIsSafe
  <2>2. part = "chat" => Chat!TypeOK
    BY <2>0, ChatTypesAre, PluginsAssumption DEF PluginsAssumption
  <2>3. part = "load" => Load!TypeOK
    BY <2>0, LoadTypesAre
  <2>4. part \in {"qwen", "provision", "load", "port", "rpc", "chat", "audio", "service"}
    BY <2>0, PluginsAssumption DEF PluginsAssumption
  <2> QED BY <2>0, <2>1, <2>2, <2>3, <2>4 DEF PluginsTypeOK
<1>4. PluginsInit => PluginsTypes
  BY <1>1
<1>5. PluginsInv /\ PluginsTypes /\ [PluginsNext]_partVars => PluginsTypes'
  BY <1>2
<1>6. PluginsInv /\ PluginsTypes => PluginsTypeOK
  BY <1>3
<1> QED BY <1>4, <1>5, <1>6, PluginsInvariance, PTL DEF PluginsSpec, partVars
=============================================================================
