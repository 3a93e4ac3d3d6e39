----------------------------- MODULE QwenService -----------------------------
(***************************************************************************)
(* The Qwen service (services/qwen3, server.py): one model, loaded and     *)
(* warmed up by a thread of its own, and an HTTP server with a thread for  *)
(* every request.  The application asks for one clip after the other, and  *)
(* gives up waiting after a time (plugins/builtin/qwen3/engine.py); the    *)
(* handler of what it gave up goes on.  The lifecycle thread polls         *)
(* /health.                                                                *)
(*                                                                         *)
(* Voices, texts, unknown paths and the token are left out.                *)
(***************************************************************************)
EXTENDS Naturals

CONSTANT MaxCalls   \* bound: requests for a clip

ServiceAssumption == MaxCalls \in Nat

VARIABLES
  phase, error, synth,   \* Runtime: phase, whether there is a message, whether there is a model
  loader,    \* the thread that loads the model
  lock,      \* the request that holds Synthesizer.lock, or 0
  handler,   \* of every request: where its thread is, and the status it will send
  client,    \* the request the application waits for, or 0
  reply,     \* the status it has received, or 0
  health,    \* an answer to /health being put together: pc, phase, error
  calls

runtime == <<phase, error, synth, loader>>
vars == <<runtime, lock, handler, client, reply, health, calls>>

Posts == 1 .. MaxCalls
NotAsked == [pc |-> "rest", phase |-> "loading", error |-> FALSE]

Init ==
  /\ phase = "loading" /\ error = FALSE /\ synth = FALSE /\ loader = "load"
  /\ lock = 0 /\ handler = [n \in Posts |-> [pc |-> "none", status |-> 0]]
  /\ client = 0 /\ reply = 0 /\ health = NotAsked /\ calls = 0

-----------------------------------------------------------------------------
(***************************************************************************)
(* Runtime.load.  The warm-up uses the model outside its lock.             *)
(***************************************************************************)
LoaderOnly == UNCHANGED <<lock, handler, client, reply, health, calls>>
LoaderGoes(from, to) == loader = from /\ loader' = to

LoadModel == LoaderGoes("load", "warm") /\ phase' = "warming" /\ LoaderOnly /\ UNCHANGED <<error, synth>>

WarmedUp == LoaderGoes("warm", "publish") /\ synth' = TRUE /\ LoaderOnly /\ UNCHANGED <<phase, error>>
PublishReady == LoaderGoes("publish", "end") /\ phase' = "ready" /\ LoaderOnly /\ UNCHANGED <<error, synth>>

\* The message is there before the phase that makes anybody look at it.
MessageLate == loader' = "phase" /\ phase' = "error" /\ UNCHANGED error
MessageFirst == loader' = "phase" /\ error' = TRUE /\ UNCHANGED phase
LoadFails == loader \in {"load", "warm"} /\ MessageFirst /\ LoaderOnly /\ UNCHANGED synth
PublishError ==
  /\ LoaderGoes("phase", "end") /\ phase' = "error" /\ error' = TRUE
  /\ LoaderOnly /\ UNCHANGED synth

Load == LoadModel \/ WarmedUp \/ PublishReady \/ LoadFails \/ PublishError

-----------------------------------------------------------------------------
(***************************************************************************)
(* The application.                                                        *)
(***************************************************************************)
Post ==
  /\ client = 0 /\ calls < MaxCalls /\ calls' = calls + 1
  /\ client' = calls' /\ reply' = 0 /\ handler' = [handler EXCEPT ![calls'].pc = "check"]
  /\ UNCHANGED <<runtime, lock, health>>

Receive == client # 0 /\ reply # 0 /\ client' = 0 /\ UNCHANGED <<runtime, lock, handler, reply, health, calls>>
GiveUp == client # 0 /\ reply = 0 /\ client' = 0 /\ UNCHANGED <<runtime, lock, handler, reply, health, calls>>

-----------------------------------------------------------------------------
(***************************************************************************)
(* do_POST.                                                                *)
(***************************************************************************)
HandlerOnly == UNCHANGED <<runtime, client, health, calls>>
At(n, pc) == handler[n].pc = pc
Goes(n, pc) == handler' = [handler EXCEPT ![n].pc = pc]
Sends(n, status, pc) == handler' = [handler EXCEPT ![n] = [pc |-> pc, status |-> status]]

Ready == synth /\ phase = "ready"
Check(n) ==
  /\ At(n, "check") /\ HandlerOnly /\ UNCHANGED <<lock, reply>>
  /\ IF Ready THEN Goes(n, "body") ELSE Sends(n, 503, "answer")

Body(n) ==
  /\ At(n, "body") /\ HandlerOnly /\ UNCHANGED <<lock, reply>>
  /\ Goes(n, "acquire") \/ Sends(n, 400, "answer")

NeverTaken == FALSE
Taken == lock # 0
Acquire(n) ==
  /\ At(n, "acquire") /\ HandlerOnly /\ UNCHANGED reply
  /\ IF Taken THEN Sends(n, 429, "answer") /\ UNCHANGED lock
     ELSE Goes(n, "synthesize") /\ lock' = n

Synthesize(n) ==
  /\ At(n, "synthesize") /\ HandlerOnly /\ UNCHANGED <<lock, reply>>
  /\ Sends(n, 200, "send") \/ Sends(n, 500, "send")

\* The answer reaches the application if it still waits and the connection
\* holds.  The lock is given back only then, and whatever happened.
Delivered(n) == reply' = IF client = n THEN handler[n].status ELSE reply
ReleaseSent(n, sent) == IF sent THEN "release" ELSE "done"
ReleaseAlways(n, sent) == "release"
SendClip(n) ==
  /\ At(n, "send") /\ HandlerOnly /\ UNCHANGED lock
  /\ \E sent \in BOOLEAN :
       /\ IF sent THEN Delivered(n) ELSE UNCHANGED reply
       /\ Goes(n, ReleaseAlways(n, sent))

Release(n) == At(n, "release") /\ Goes(n, "done") /\ lock' = 0 /\ HandlerOnly /\ UNCHANGED reply

SendRefusal(n) ==
  /\ At(n, "answer") /\ Goes(n, "done") /\ HandlerOnly /\ UNCHANGED lock
  /\ Delivered(n) \/ UNCHANGED reply

Handle(n) ==
  \/ Check(n) \/ Body(n) \/ Acquire(n) \/ Synthesize(n)
  \/ SendClip(n) \/ Release(n) \/ SendRefusal(n)

\* do_GET: the phase is read before the message.
Health ==
  /\ \/ health.pc = "rest" /\ health' = [NotAsked EXCEPT !.pc = "phase", !.phase = phase]
     \/ health.pc = "phase" /\ health' = [health EXCEPT !.pc = "read", !.error = error]
     \/ health.pc = "read" /\ health' = NotAsked
  /\ UNCHANGED <<runtime, lock, handler, client, reply, calls>>

Next == Load \/ Post \/ Receive \/ GiveUp \/ (\E n \in Posts : Handle(n)) \/ Health

Spec == Init /\ [][Next]_vars

\* Every thread goes on: loading and synthesis end, well or not.
FairSpec == Spec /\ WF_vars(Load) /\ \A n \in Posts : WF_vars(Handle(n))

-----------------------------------------------------------------------------
Phases == {"loading", "warming", "ready", "error"}

TypeOK ==
  /\ phase \in Phases /\ error \in BOOLEAN /\ synth \in BOOLEAN
  /\ loader \in {"load", "warm", "publish", "phase", "end"}
  /\ {lock, client, calls} \subseteq 0 .. MaxCalls
  /\ handler \in [Posts -> [
       pc : {"none", "check", "body", "acquire", "synthesize", "send", "release", "answer", "done"},
       status : {0, 200, 400, 429, 500, 503}]]
  /\ reply \in {0, 200, 400, 429, 500, 503}
  /\ health \in [pc : {"rest", "phase", "read"}, phase : Phases, error : BOOLEAN]

\* One thread uses the model at a time: the one that warms it up, or one
\* handler, even when the application has given up an earlier request.
Users == {n \in Posts : At(n, "synthesize")}
ModelAlone == (loader = "warm" => Users = {}) /\ \A m, n \in Users : m = n

\* Who is told of an error finds its message.
ErrorIsExplained == health.pc = "read" /\ health.phase = "error" => health.error

\* The model comes free again, whether the clip was made, sent or wanted.
LockComesBack == lock # 0 ~> lock = 0

\* docs/source/architecture.md: 429 is the answer during a synthesis, so not
\* to who has received the clip of the one before.
BusyMeansSynthesizing ==
  [][\A n \in Posts : At(n, "acquire") /\ handler'[n].status = 429 => ~At(lock, "release")]_vars
=============================================================================
