------------------------------- MODULE Session -------------------------------
(***************************************************************************)
(* The session service (core/session/service.py).  One control thread      *)
(* takes commands from one queue and alone owns the streaming source, the  *)
(* speech pipeline and the engine.  The GUI thread, the thread of the      *)
(* source and the plugins' threads only post commands, except that stop    *)
(* and shutdown also change the intent number and cancel the pipeline from *)
(* the GUI thread.  A command runs as a script of steps, so that the other *)
(* threads act between any two of them.                                    *)
(*                                                                         *)
(* The pipeline is the module SpeechPipeline seen from outside: it accepts *)
(* plans or it was cancelled, and joining it ends it.  The source is a     *)
(* thread that reports comments and connection changes, may fail, and ends *)
(* when it is closed.                                                      *)
(***************************************************************************)
EXTENDS Integers, Sequences, FiniteSets

CONSTANTS
  Clicks,      \* what the user may do: a subset of UserAction
  MaxClicks,   \* bound: number of user actions
  MaxEvents,   \* bound: number of events of the source and the engine
  MaxInputs,   \* bound: number of both together
  SlotLimit,   \* _comment_slots: comments posted and not yet consumed
  CloseMayFail \* whether closing an engine may raise

UserAction == {"start", "stop", "test", "apply", "close"}

ASSUME SessionAssumption ==
  /\ Clicks \subseteq UserAction
  /\ MaxClicks \in Nat /\ MaxEvents \in Nat /\ MaxInputs \in Nat /\ SlotLimit \in Nat \ {0}
  /\ CloseMayFail \in BOOLEAN

VARIABLES
  intent, closing,  \* under _lock
  commands,         \* _commands
  todo, cmd,        \* control: the steps left of the command it runs
  state, connected,
  session,          \* _session: token of the last preparation
  source,           \* _source: token it was started with, or 0
  pipeline,         \* _pipeline
  engine,           \* whether _engine is set
  reader,           \* the thread of the last source started
  slots,            \* _comment_slots taken
  health,           \* the active engine's state at the plugin manager
  gui, click,       \* where the GUI thread is, and the token it drew
  news, shown,      \* SessionChanged events under way, and the last delivered
  completed,        \* ShutdownCompleted was published
  clicks, events,   \* user actions and events so far
  spoken,           \* history: tokens of accepted comments and of their pipelines
  muted             \* history: token drawn by the last stop that returned

runtime  == <<session, source, pipeline, engine, reader>>
status   == <<state, connected, news>>
control  == <<todo, cmd>>
lock     == <<intent, closing, commands>>
desk     == <<gui, click, shown, clicks>>
outside  == <<health, events>>
rest     == <<slots, completed, spoken, muted>>
vars == <<runtime, status, control, lock, desk, outside, rest>>

NoPipeline == [token |-> 0, accepting |-> FALSE]
NoReader == [token |-> 0, pc |-> "gone"]
Command(kind, token) == [kind |-> kind, token |-> token, arg |-> "none"]

Init ==
  /\ intent = 0 /\ closing = FALSE /\ commands = <<>>
  /\ todo = <<>> /\ cmd = Command("none", 0)
  /\ state = "idle" /\ connected = FALSE
  /\ session = 0 /\ source = 0 /\ pipeline = NoPipeline /\ engine = FALSE
  /\ reader = NoReader /\ slots = 0 /\ health = "ready"
  /\ gui = "idle" /\ click = 0 /\ news = <<>> /\ shown = "idle"
  /\ completed = FALSE /\ clicks = 0 /\ events = 0
  /\ spoken = {} /\ muted = 0

Current(token) == token = intent /\ ~closing

\* _post: nothing is queued once the program is closing.  Mutant: the test
\* is left out.
PostAlways(c) == commands' = Append(commands, c)
Post(c) == commands' = IF closing THEN commands ELSE Append(commands, c)

SetState(s) == state' = s /\ news' = Append(news, s)

-----------------------------------------------------------------------------
(***************************************************************************)
(* The GUI thread.  The start button is enabled while the last state       *)
(* delivered is idle or error, the stop button otherwise.                  *)
(***************************************************************************)
UserMay(action) ==
  gui = "idle" /\ action \in Clicks /\ clicks < MaxClicks /\ clicks + events < MaxInputs /\ ~closing

Click == clicks' = clicks + 1

NextIntent == intent' = intent + 1 /\ click' = intent + 1

ClickStart ==
  /\ UserMay("start") /\ shown \in {"idle", "error"}
  /\ NextIntent /\ Click /\ gui' = "start"
  /\ UNCHANGED <<closing, commands, shown, runtime, status, control, outside, rest>>

PostStart ==
  /\ gui = "start" /\ gui' = "idle" /\ Post(Command("start", click))
  /\ UNCHANGED <<intent, closing, click, shown, clicks, runtime, status, control, outside, rest>>

ClickStop ==
  /\ UserMay("stop") /\ shown \notin {"idle", "error"}
  /\ NextIntent /\ Click /\ gui' = "cancel"
  /\ UNCHANGED <<closing, commands, shown, runtime, status, control, outside, rest>>

\* The pipeline's cancel.  Mutant: it is not called.
NoCancel == UNCHANGED pipeline
CancelPipeline == pipeline' = [pipeline EXCEPT !.accepting = FALSE]

\* stop cancels the pipeline it reads, if there is one; one that control
\* drops in between is cancelled all the same.
StopCancel ==
  /\ gui = "cancel" /\ gui' = "stop" /\ CancelPipeline
  /\ UNCHANGED <<lock, click, shown, clicks, session, source, engine, reader,
                 status, control, outside, rest>>

PostStop ==
  /\ gui = "stop" /\ gui' = "idle" /\ Post(Command("stop", 0)) /\ muted' = click
  /\ UNCHANGED <<intent, closing, click, shown, clicks, runtime, status, control, outside,
                 slots, completed, spoken>>

ClickTest ==
  /\ UserMay("test") /\ Click /\ Post(Command("test", 0))
  /\ UNCHANGED <<intent, closing, gui, click, shown, runtime, status, control, outside, rest>>

\* New settings that do, or do not, touch speech or streaming.
ClickApply ==
  /\ UserMay("apply") /\ Click
  /\ \E change \in {"speech", "other"} : Post([Command("apply", 0) EXCEPT !.arg = change])
  /\ UNCHANGED <<intent, closing, gui, click, shown, runtime, status, control, outside, rest>>

\* shutdown
ClickClose ==
  /\ UserMay("close") /\ Click
  /\ closing' = TRUE /\ intent' = intent + 1 /\ gui' = "drain"
  /\ UNCHANGED <<commands, click, shown, runtime, status, control, outside, rest>>

DrainCommands ==
  /\ gui = "drain" /\ gui' = "test" /\ commands' = <<>>
  /\ UNCHANGED <<intent, closing, click, shown, clicks, runtime, status, control, outside, rest>>

\* _pipeline is read for the test and again for the call.
ShutdownTest ==
  /\ gui = "test"
  /\ gui' = IF pipeline = NoPipeline THEN "put" ELSE "cancelNow"
  /\ UNCHANGED <<lock, click, shown, clicks, runtime, status, control, outside, rest>>

ShutdownCancel ==
  /\ gui = "cancelNow"
  /\ gui' = (IF pipeline = NoPipeline THEN "broken" ELSE "put") /\ CancelPipeline
  /\ UNCHANGED <<lock, click, shown, clicks, session, source, engine, reader,
                 status, control, outside, rest>>

ShutdownPut ==
  /\ gui = "put" /\ gui' = "closed"
  /\ commands' = Append(commands, Command("shutdown", 0))
  /\ UNCHANGED <<intent, closing, click, shown, clicks, runtime, status, control, outside, rest>>

Deliver ==
  /\ news # <<>> /\ shown' = Head(news) /\ news' = Tail(news)
  /\ UNCHANGED <<gui, click, clicks, state, connected, lock, runtime, control, outside, rest>>

GuiStep == PostStart \/ StopCancel \/ PostStop \/ DrainCommands \/ ShutdownTest
           \/ ShutdownCancel \/ ShutdownPut \/ Deliver
UserStep == ClickStart \/ ClickStop \/ ClickTest \/ ClickApply \/ ClickClose

-----------------------------------------------------------------------------
(***************************************************************************)
(* The threads of the source, of the pipeline and of the plugins.          *)
(***************************************************************************)
Event == events < MaxEvents /\ clicks + events < MaxInputs /\ events' = events + 1

ReaderOnly == UNCHANGED <<intent, closing, desk, status, control, health, completed, spoken, muted,
                          session, source, pipeline, engine>>

\* Mutant: a comment is posted though every slot is taken.
SlotIgnored == TRUE
SlotFree == slots < SlotLimit

\* A comment: the token is tested and a slot taken, then it is posted.
ReaderComment ==
  /\ reader.pc = "live" /\ Event
  /\ Current(reader.token) /\ SlotFree
  /\ slots' = slots + 1 /\ reader' = [reader EXCEPT !.pc = "post"]
  /\ UNCHANGED commands /\ ReaderOnly

ReaderPost ==
  /\ reader.pc = "post"
  /\ Post(Command("comment", reader.token)) /\ reader' = [reader EXCEPT !.pc = "live"]
  /\ UNCHANGED <<slots, events>> /\ ReaderOnly

ReaderConnection ==
  /\ reader.pc = "live" /\ Event
  /\ \E change \in {"up", "down"} :
       Post([Command("connection", reader.token) EXCEPT !.arg = change])
  /\ UNCHANGED <<slots, reader>> /\ ReaderOnly

\* The thread ends, with an error of its own or because it was closed.
ReaderFail ==
  /\ reader.pc = "live" /\ source # 0 /\ Event
  /\ Post(Command("failed", reader.token)) /\ reader' = [reader EXCEPT !.pc = "end"]
  /\ UNCHANGED slots /\ ReaderOnly

ReaderStop ==
  /\ reader.pc = "live" /\ source = 0
  /\ reader' = [reader EXCEPT !.pc = "end"]
  /\ UNCHANGED <<commands, slots, events>> /\ ReaderOnly

ReaderEnd ==
  /\ reader.pc = "end"
  /\ Post(Command("closed", reader.token)) /\ reader' = [reader EXCEPT !.pc = "gone"]
  /\ UNCHANGED <<slots, events>> /\ ReaderOnly

\* The plugin's state changes, and the change is posted.
EngineChange(h) ==
  /\ h # health /\ Event /\ health' = h
  /\ Post([Command("engine", 0) EXCEPT !.arg = h])
  /\ UNCHANGED <<intent, closing, desk, runtime, status, control, rest>>

\* wait_ready failed: the pipeline cancels itself.
PipelineGivesUp ==
  /\ pipeline.accepting /\ Event /\ CancelPipeline
  /\ UNCHANGED <<health, session, source, engine, reader, lock, desk, status, control, rest>>

Reader == ReaderPost \/ ReaderStop \/ ReaderEnd
Surprise == ReaderComment \/ ReaderConnection \/ ReaderFail \/ PipelineGivesUp
            \/ \E h \in {"ready", "busy", "error"} : EngineChange(h)

-----------------------------------------------------------------------------
(***************************************************************************)
(* The control thread takes a command and lists the steps it will take.    *)
(***************************************************************************)
\* Mutant: the source is left open.
DisposeRest == <<"pipeline", "engine">>
Dispose == <<"source", "joinSource", "pipeline", "engine">>
Prepare == <<"prepare", "ready", "check", "create">>

\* Mutant: commands of an old session are carried out like any other.
AnyToken(token) == TRUE
Valid(token) == Current(token)

\* Mutant: _start does not dispose of what runs already.
BareStart == <<"current", "save">> \o Prepare \o <<"open">>
StartSteps == Dispose \o <<"current", "save">> \o Prepare \o <<"open">>

Takes(kind) ==
  /\ todo = <<>> /\ commands # <<>> /\ Head(commands).kind = kind
  /\ commands' = Tail(commands) /\ cmd' = Head(commands)
  /\ UNCHANGED <<intent, closing, runtime, status, desk, outside, rest>>

Arg == Head(commands).arg
Mine == Head(commands).token

TakeStart == Takes("start") /\ todo' = StartSteps

TakeStop == Takes("stop") /\ todo' = <<"stopping">> \o Dispose \o <<"idle">>

TakeTest ==
  /\ Takes("test")
  /\ todo' = (IF pipeline = NoPipeline THEN <<"renew">> \o Prepare \o <<"running">> ELSE <<>>)
             \o <<"receiveTest", "submit">>

TakeComment == Takes("comment") /\ todo' = <<"receive", "submit", "release">>

TakeConnection ==
  /\ Takes("connection")
  /\ todo' = IF Valid(Mine) /\ source # 0 /\ connected # (Arg = "up") THEN <<Arg>> ELSE <<>>

TakeFailed ==
  Takes("failed") /\ todo' = IF Valid(Mine) THEN Dispose \o <<"error">> ELSE <<>>

TakeClosed ==
  /\ Takes("closed")
  /\ todo' = IF Valid(Mine) /\ source # 0 THEN Dispose \o <<"idle">> ELSE <<>>

\* A state of the engine that is no longer its state is ignored.
TakeEngine ==
  /\ Takes("engine")
  /\ todo' = IF Arg # health \/ pipeline = NoPipeline THEN <<>>
             ELSE IF health # "ready" THEN <<"cancel">>
             ELSE IF pipeline.accepting THEN <<>>
             ELSE <<"pipeline", "engine", "again">> \o Prepare \o <<"running">>

\* Settings: what runs is rebuilt when speech or streaming changed.
TakeApply ==
  /\ Takes("apply")
  /\ todo' = IF Arg = "other" THEN <<>>
             ELSE Dispose \o (IF pipeline = NoPipeline THEN <<>>
                              ELSE <<"renew">> \o (IF source # 0 THEN StartSteps
                                                   ELSE Prepare \o <<"running">>))

TakeShutdown == Takes("shutdown") /\ todo' = Dispose \o <<"finish">>

-----------------------------------------------------------------------------
(***************************************************************************)
(* The steps.  An exception ends the command: _run disposes of everything  *)
(* and shows an error, but _apply only reports it, and shutdown goes on.   *)
(***************************************************************************)
At(step) == todo # <<>> /\ Head(todo) = step
Go == todo' = Tail(todo) /\ UNCHANGED cmd
GoIf(condition) == todo' = (IF condition THEN Tail(todo) ELSE <<>>) /\ UNCHANGED cmd

\* Mutant: an exception ends the command and nothing more.
GiveUp == todo' = <<>> /\ UNCHANGED cmd
Raise ==
  CASE cmd.kind = "apply" -> todo' = <<>> /\ UNCHANGED cmd
    [] cmd.kind \in {"shutdown", "recovery"} -> Go
    [] OTHER -> todo' = Dispose \o <<"error">> /\ cmd' = Command("recovery", 0)

Threads == UNCHANGED <<desk, outside>>

CloseSource ==
  /\ At("source") /\ Go /\ source' = 0 /\ connected' = FALSE
  /\ UNCHANGED <<state, news, session, pipeline, engine, reader, lock, rest>> /\ Threads

\* Mutant: the thread of the source is not waited for.
NotJoined == TRUE
ReaderJoined == reader.pc = "gone"

JoinSource ==
  /\ At("joinSource") /\ ReaderJoined /\ Go
  /\ UNCHANGED <<runtime, status, lock, rest>> /\ Threads

DropPipeline ==
  /\ At("pipeline") /\ Go /\ pipeline' = NoPipeline
  /\ UNCHANGED <<session, source, engine, reader, status, lock, rest>> /\ Threads

\* A close that raises has closed the engine; only _engine_changed still has
\* it then, and the recovery closes it again.
CloseEngine ==
  /\ At("engine")
  /\ \/ Go /\ engine' = FALSE
     \/ engine /\ CloseMayFail /\ Raise /\ engine' = (cmd.kind = "engine")
  /\ UNCHANGED <<session, source, pipeline, reader, status, lock, rest>> /\ Threads

IsCurrent ==
  /\ At("current") /\ GoIf(Valid(cmd.token))
  /\ UNCHANGED <<runtime, status, lock, rest>> /\ Threads

\* The settings are saved and checked, the engine is made ready; or that fails.
MayFail ==
  /\ At("save") \/ At("ready")
  /\ Go \/ Raise
  /\ UNCHANGED <<runtime, status, lock, rest>> /\ Threads

BeginPrepare ==
  /\ At("prepare") /\ Go /\ SetState("starting")
  /\ session' = cmd.token /\ engine' = TRUE
  /\ UNCHANGED <<connected, source, pipeline, reader, lock, rest>> /\ Threads

\* Preparation came too late.  Mutant: what it opened stays open.
LeaveOpen == <<"idle">>
Abandon == Dispose \o <<"idle">>

CheckPrepared ==
  /\ At("check") /\ UNCHANGED cmd
  /\ todo' = IF Valid(cmd.token) THEN Tail(todo) ELSE Abandon
  /\ UNCHANGED <<runtime, status, lock, rest>> /\ Threads

CreatePipeline ==
  /\ At("create") /\ Go /\ pipeline' = [token |-> cmd.token, accepting |-> TRUE]
  /\ UNCHANGED <<session, source, engine, reader, status, lock, rest>> /\ Threads

OpenSource ==
  /\ At("open") /\ Go
  /\ source' = cmd.token /\ reader' = [token |-> cmd.token, pc |-> "live"]
  /\ UNCHANGED <<session, pipeline, engine, status, lock, rest>> /\ Threads

Announce ==
  /\ \E s \in {"running", "idle", "error", "stopping"} : At(s) /\ SetState(s)
  /\ Go /\ UNCHANGED <<connected, runtime, lock, rest>> /\ Threads

ChangeConnection ==
  /\ \/ At("up") /\ connected' = TRUE /\ SetState("running")
     \/ At("down") /\ connected' = FALSE /\ SetState("starting")
  /\ Go /\ UNCHANGED <<runtime, lock, rest>> /\ Threads

CancelBroken ==
  /\ At("cancel") /\ Go /\ CancelPipeline
  /\ UNCHANGED <<session, source, engine, reader, status, lock, rest>> /\ Threads

\* The session goes on under its token, or under a new one.
Renew ==
  /\ \/ At("again") /\ cmd' = [cmd EXCEPT !.token = session] /\ UNCHANGED intent
     \/ At("renew") /\ cmd' = [cmd EXCEPT !.token = intent + 1] /\ intent' = intent + 1
  /\ todo' = Tail(todo)
  /\ UNCHANGED <<closing, commands, runtime, status, rest>> /\ Threads

\* An early return still gives the slot back.  Mutant: it does not.
Return == <<>>
SkipSubmit == Tail(Tail(todo))

\* _receive: the token is tested, then the plan is submitted.
Receive ==
  /\ At("receive") \/ At("receiveTest")
  /\ LET token == IF At("receive") THEN cmd.token ELSE session
     IN  /\ cmd' = [cmd EXCEPT !.token = token]
         /\ todo' = IF Valid(token) THEN Tail(todo) ELSE SkipSubmit
  /\ UNCHANGED <<runtime, status, lock, rest>> /\ Threads

Submit ==
  /\ At("submit") /\ Go
  /\ spoken' = IF pipeline.accepting THEN spoken \cup {<<cmd.token, pipeline.token>>} ELSE spoken
  /\ UNCHANGED <<slots, completed, muted, runtime, status, lock>> /\ Threads

ReleaseSlot ==
  /\ At("release") /\ Go /\ slots' = slots - 1
  /\ UNCHANGED <<completed, spoken, muted, runtime, status, lock>> /\ Threads

\* The audio output, the workers, the plugins and the dictionary are closed.
Finish ==
  /\ At("finish") /\ Go /\ completed' = TRUE
  /\ UNCHANGED <<slots, spoken, muted, runtime, status, lock>> /\ Threads

Control ==
  \/ TakeStart \/ TakeStop \/ TakeTest \/ TakeComment \/ TakeConnection \/ TakeFailed
  \/ TakeClosed \/ TakeEngine \/ TakeApply \/ TakeShutdown
  \/ CloseSource \/ JoinSource \/ DropPipeline \/ CloseEngine \/ IsCurrent \/ MayFail
  \/ BeginPrepare \/ CheckPrepared \/ CreatePipeline \/ OpenSource \/ Announce
  \/ ChangeConnection \/ CancelBroken \/ Renew \/ Receive \/ Submit \/ ReleaseSlot \/ Finish

Next == UserStep \/ GuiStep \/ Reader \/ Surprise \/ Control

Spec == Init /\ [][Next]_vars

(***************************************************************************)
(* Every thread goes on with what it has begun, and the source's thread    *)
(* ends once it is closed.  No user action and no event has to happen.     *)
(***************************************************************************)
FairSpec == Spec /\ WF_vars(GuiStep) /\ WF_vars(Reader) /\ WF_vars(Control)

-----------------------------------------------------------------------------
(***************************************************************************)
(* Properties.                                                             *)
(***************************************************************************)
State == {"idle", "starting", "running", "stopping", "error"}
Kind == {"start", "stop", "test", "comment", "connection", "failed", "closed", "engine",
         "apply", "shutdown", "recovery", "none"}
Step == {"source", "joinSource", "pipeline", "engine", "prepare", "ready", "check", "create",
         "current", "save", "open", "renew", "again", "receive", "receiveTest", "submit",
         "release", "finish", "cancel", "up", "down"} \cup State
CommandType == [kind : Kind, token : Nat,
                arg : {"none", "speech", "other", "up", "down", "ready", "busy", "error"}]

\* Every variable has its type, and no more slots are taken than there are.
TypeOK ==
  /\ intent \in Nat /\ closing \in BOOLEAN
  /\ commands \in Seq(CommandType) /\ cmd \in CommandType /\ todo \in Seq(Step)
  /\ state \in State /\ connected \in BOOLEAN /\ news \in Seq(State) /\ shown \in State
  /\ session \in Nat /\ source \in Nat /\ engine \in BOOLEAN
  /\ pipeline \in [token : Nat, accepting : BOOLEAN]
  /\ reader \in [token : Nat, pc : {"live", "post", "end", "gone"}]
  /\ slots \in 0..SlotLimit /\ health \in {"ready", "busy", "error"}
  /\ gui \in {"idle", "start", "cancel", "stop", "drain", "test", "cancelNow", "put",
              "closed", "broken"}
  /\ click \in Nat /\ muted \in Nat /\ completed \in BOOLEAN
  /\ clicks \in 0..MaxClicks /\ events \in 0..MaxEvents /\ spoken \subseteq Nat \X Nat

Resting == todo = <<>>
NothingRuns == source = 0 /\ pipeline = NoPipeline /\ ~engine /\ reader.pc = "gone"

\* When the program says it is idle, or in error, nothing is left running:
\* no source thread reads comments, no pipeline speaks, no engine is held.
IdleMeansNothing == Resting /\ state \in {"idle", "error"} => NothingRuns

\* No engine is forgotten: another one is opened only when none is held.  (A
\* change of the settings that failed leaves one behind, see RunningRuns.)
EnginesOwned == [][BeginPrepare => ~engine \/ state = "starting"]_vars

\* A connected source always has its own session's pipeline to speak to.
SourceIsServed ==
  Resting /\ source # 0 => source = session /\ pipeline.token = session /\ engine

\* What runs is accounted for, between any two commands.
PartsAreOwned == IdleMeansNothing /\ SourceIsServed

\* Whatever was stale, restarted or rebuilt in between, a comment is spoken
\* by the pipeline of the session that read it, never by a later one.
SpokenBySameSession == \A s \in spoken : s[1] = s[2]

\* Once stop has returned, nothing that belongs to an earlier session is
\* accepted for speaking, not even by a command that is already under way.
StopMutes == [][\A s \in spoken' \ spoken : s[1] >= muted]_vars

\* A source thread starts only after the thread of the one before it ended.
OneReader == [][reader'.token # reader.token => reader.pc = "gone"]_vars

\* Nothing is opened beside what it replaces.
OneOfEach == OneReader /\ EnginesOwned

\* Slots are neither lost nor given back twice: those taken are those of the
\* comments being posted, waiting and being handled.
SlotsConserved ==
  ~closing => slots = (IF reader.pc = "post" THEN 1 ELSE 0)
                      + Cardinality({i \in DOMAIN commands : commands[i].kind = "comment"})
                      + Cardinality({i \in DOMAIN todo : todo[i] = "release"})

\* Once shutdown has emptied the queue only its own command enters it, so no
\* source, pipeline or engine is opened behind the release of everything.
NothingAfterDrain ==
  /\ gui \in {"test", "cancelNow", "put", "closed", "broken"} =>
       \A i \in DOMAIN commands : commands[i].kind = "shutdown"
  /\ completed => NothingRuns /\ commands = <<>>

\* A stop settles: control gets to the state idle, or to an error, with
\* nothing running, whatever was in the queue before it.
StopSettles == gui = "stop" ~> closing \/ (NothingRuns /\ state \in {"idle", "error"})

\* A shutdown that was handed to control completes.
ShutdownReleases == gui = "closed" ~> completed

\* What the user ends does end (service.py:290-316 and 530-560).
EndsAreReached == StopSettles /\ ShutdownReleases

-----------------------------------------------------------------------------
(***************************************************************************)
(* What the documents say and the code does not keep.                      *)
(***************************************************************************)

\* docs/source/architecture.md: a request to end releases everything and
\* reports the completion to the GUI.
ShutdownCompletes == closing ~> completed

\* docs/users/README.md: start prepares the engine and connects to the
\* stream, unless it fails or the user does something else first.
StartConnects == gui = "start" ~> source # 0 \/ state = "error" \/ gui \notin {"idle", "start"}

\* docs/users/README.md: a running session is rebuilt when its settings
\* change; so it never rests in starting or running with nothing that runs.
RunningRuns ==
  Resting /\ commands = <<>> /\ state \in {"starting", "running"} => pipeline # NoPipeline
=============================================================================
