------------------------------ MODULE PluginRpc ------------------------------
(***************************************************************************)
(* One engine of an external plugin (plugins/executable.py, with the pipe  *)
(* of native/src/plugin_rpc.rs): its process is started and asked to       *)
(* register, then serves one request at a time, each with a deadline.  The *)
(* process may answer wrongly, late, twice or not at all, and may die.     *)
(***************************************************************************)
EXTENDS Naturals, Sequences

CONSTANTS
  Callers,     \* threads that use the engine
  MaxCalls     \* bound: requests

RpcAssumption == "nobody" \notin Callers /\ MaxCalls \in Nat

VARIABLES
  engine,    \* "new", "registering", "failed" or "made"
  process,   \* "none", "up" or "gone"
  closed,    \* _closed
  lock,      \* _lock: the thread inside call, or "nobody"
  caller,    \* of every thread: pc, method, request, what was returned
  sent,      \* number of requests, which names them
  asked,     \* requests the process has not answered yet
  replies    \* lines in the pipe: the request they name and their kind

vars == <<engine, process, closed, lock, caller, sent, asked, replies>>

Quiet == [pc |-> "rest", method |-> "none", id |-> 0, got |-> 0, bad |-> FALSE]

Init ==
  /\ engine = "new" /\ process = "none" /\ closed = FALSE /\ lock = "nobody"
  /\ caller = [t \in Callers |-> Quiet]
  /\ sent = 0 /\ asked = {} /\ replies = <<>>

At(t, pc) == caller[t].pc = pc
Goes(t, pc) == caller' = [caller EXCEPT ![t].pc = pc]
Pipe == <<sent, asked, replies>>

\* The process and its pipe readers are ended; what is in the pipe is lost.
Kill == process' = "gone" /\ replies' = <<>> /\ asked' = {}

-----------------------------------------------------------------------------
(***************************************************************************)
(* create: start, register.                                                *)
(***************************************************************************)
Create(t) ==
  /\ engine = "new" /\ At(t, "rest") /\ engine' = "registering"
  /\ process' = "up" /\ caller' = [caller EXCEPT ![t] = [Quiet EXCEPT !.pc = "lock", !.method = "register"]]
  /\ UNCHANGED <<closed, lock, Pipe>>

\* prepare, speakers, synthesize and send.
Request(t) ==
  /\ engine = "made" /\ At(t, "rest") /\ sent < MaxCalls
  /\ caller' = [caller EXCEPT ![t] = [Quiet EXCEPT !.pc = "lock", !.method = "synthesize"]]
  /\ UNCHANGED <<engine, process, closed, lock, Pipe>>

\* close reads _closed before it takes the lock.
CloseRpc(t) ==
  /\ engine = "made" /\ At(t, "rest") /\ ~closed
  /\ caller' = [caller EXCEPT ![t] = [Quiet EXCEPT !.pc = "lock", !.method = "close"]]
  /\ UNCHANGED <<engine, process, closed, lock, Pipe>>

-----------------------------------------------------------------------------
(***************************************************************************)
(* call                                                                    *)
(***************************************************************************)
Enter(t) ==
  /\ At(t, "lock") /\ lock = "nobody" /\ lock' = t
  /\ caller' = [caller EXCEPT ![t] = IF closed THEN [@ EXCEPT !.pc = "raise"] ELSE [@ EXCEPT !.pc = "send"]]
  /\ UNCHANGED <<engine, process, closed, Pipe>>

Send(t) ==
  /\ At(t, "send") /\ sent' = sent + 1
  /\ caller' = [caller EXCEPT ![t].pc = "wait", ![t].id = sent + 1]
  /\ asked' = IF process = "up" THEN asked \cup {sent + 1} ELSE asked
  /\ UNCHANGED <<engine, process, closed, lock, replies>>

\* Mutant: the identifier of a reply is not compared.
AnyReply(t, r) == r.kind # "garbage"
Fits(t, r) == r.kind # "garbage" /\ r.id = caller[t].id

\* A result is returned ...
Receive(t) ==
  /\ At(t, "wait") /\ replies # <<>>
  /\ LET r == Head(replies) IN
     /\ Fits(t, r) /\ r.kind = "result"
     /\ caller' = [caller EXCEPT ![t].pc = "leave", ![t].got = r.id]
  /\ replies' = Tail(replies) /\ UNCHANGED <<engine, process, closed, lock, sent, asked>>

\* ... and everything else fails the call: an error, a wrong line, the
\* deadline, the end of the process.
Wrong(t) == replies # <<>> /\ (~Fits(t, Head(replies)) \/ Head(replies).kind = "error")
Fail(t) ==
  /\ At(t, "wait") /\ (Wrong(t) \/ replies = <<>>)
  /\ Goes(t, "fail") /\ UNCHANGED <<engine, process, closed, lock, Pipe>>

\* Mutant: the process is kept for the next request.
KeepProcess == UNCHANGED <<process, replies, asked>>
Reclaim == Kill

FailReclaims(t) ==
  /\ At(t, "fail") /\ closed' = TRUE /\ Reclaim /\ Goes(t, "raise")
  /\ UNCHANGED <<engine, lock, sent>>

\* Mutant: the lock is given back only by a call that succeeds.
HoldLock(t) == IF At(t, "raise") THEN lock' = lock ELSE lock' = "nobody"
LeaveLock(t) == lock' = "nobody"

Leave(t) ==
  /\ caller[t].pc \in {"leave", "raise"} /\ LeaveLock(t)
  /\ caller' = [caller EXCEPT ![t].pc = IF caller[t].method = "close" THEN "end"
                                        ELSE IF At(t, "leave") THEN "done" ELSE "failed"]
  /\ UNCHANGED <<engine, process, closed, Pipe>>

\* Back in the caller of call.
Return(t) ==
  /\ caller[t].pc \in {"done", "failed"}
  /\ caller' = [caller EXCEPT ![t] = [Quiet EXCEPT !.bad = At(t, "failed")]]
  /\ engine' = IF caller[t].method # "register" THEN engine ELSE IF At(t, "done") THEN "made" ELSE "failed"
  /\ UNCHANGED <<process, closed, lock, Pipe>>

\* Mutant: a process that was told to close is left to end by itself.
Answered(t) == UNCHANGED <<process, replies, asked>>
Finally(t) == Kill

CloseEnds(t) ==
  /\ At(t, "end") /\ closed' = TRUE /\ Finally(t) /\ caller' = [caller EXCEPT ![t] = Quiet]
  /\ UNCHANGED <<engine, lock, sent>>

-----------------------------------------------------------------------------
(***************************************************************************)
(* The plugin: it answers what it was asked, and sometimes what it was not.*)
(***************************************************************************)
Answer ==
  /\ process = "up" /\ Len(replies) < 2
  /\ \E id \in asked, kind \in {"result", "error", "garbage"}, again \in BOOLEAN :
       /\ replies' = Append(replies, [id |-> id, kind |-> kind])
       /\ asked' = IF again THEN asked ELSE asked \ {id}
  /\ UNCHANGED <<engine, process, closed, lock, caller, sent>>

Die == process = "up" /\ process' = "gone" /\ asked' = {} /\ UNCHANGED <<engine, closed, lock, caller, sent, replies>>

Call(t) ==
  \/ Enter(t) \/ Send(t) \/ Receive(t) \/ Fail(t) \/ FailReclaims(t) \/ Leave(t) \/ Return(t) \/ CloseEnds(t)

Next == (\E t \in Callers : Create(t) \/ Request(t) \/ CloseRpc(t) \/ Call(t)) \/ Answer \/ Die

Spec == Init /\ [][Next]_vars

\* A thread inside a call goes on, at the latest by its deadline; the lock is
\* taken in turn.
FairSpec == Spec /\ \A t \in Callers : SF_vars(Call(t))

-----------------------------------------------------------------------------
\* Types; only the thread inside call talks to the process.
TypeOK ==
  /\ engine \in {"new", "registering", "failed", "made"} /\ process \in {"none", "up", "gone"}
  /\ closed \in BOOLEAN /\ sent \in Nat /\ asked \subseteq 1..sent
  /\ \A t \in Callers : caller[t].pc \in {"send", "wait", "fail", "leave", "raise"} <=> lock = t
  /\ \A i \in 1..Len(replies) : replies[i].id \in 1..sent

\* What a call returns answers its own request, whatever else is in the pipe.
OwnAnswer == \A t \in Callers : caller[t].got \in {0, caller[t].id}

\* An engine that could not be made leaves no process behind.
NoOrphan == engine = "failed" => process = "gone"

\* A failed request gives its process back: none is left that may still answer.
FailedIsClosed == \A t \in Callers : caller[t].bad => closed /\ process = "gone"

\* Every call and every close comes to an end, and close ends the process.
CallsEnd == \A t \in Callers : (caller[t].pc # "rest") ~> (caller[t].pc = "rest")
CloseEndsProcess == \A t \in Callers : (caller[t].method = "close") ~> (process = "gone")

\* docs/plugins/development.md: the process of an engine handles several
\* requests; a wrong answer, the deadline and its end give it back.  An error
\* that answers a request is none of these: the process serves on.
Error(t) == At(t, "wait") /\ replies # <<>> /\ Fits(t, Head(replies)) /\ Head(replies).kind = "error"
ErrorIsAnAnswer == [][\A t \in Callers : Error(t) => caller'[t].pc # "fail"]_vars
=============================================================================
