----------------------------- MODULE AudioPlayer -----------------------------
(***************************************************************************)
(* The audio output (native/src/playback.rs).  A thread that plays sends a *)
(* request through a bounded channel and waits for its reply; one worker   *)
(* opens the device when there is something to play, plays any number of   *)
(* sounds at once, and answers when a sound has ended.  The device may     *)
(* fail at any time, and close may be called while sounds are played.      *)
(*                                                                         *)
(* The samples, the decoding of a file but for its success, and the list   *)
(* of errors that the monitor reads are left out.                          *)
(***************************************************************************)
EXTENDS Naturals, Sequences, FiniteSets

CONSTANTS
  Callers,     \* threads that play
  Capacity,    \* of the channel (16)
  MaxEffects,  \* sound effects at once (16)
  MaxPlays, MaxFaults   \* bounds: requests, errors of the device

PlayerAssumption == {Capacity, MaxEffects} \subseteq Nat \ {0} /\ {MaxPlays, MaxFaults} \subseteq Nat

VARIABLES
  sender,   \* "open"; "taken" by a shutdown that holds its lock; "gone"
  channel,  \* requests on their way; Close is one of them
  worker,   \* where the worker is
  hand,     \* the request it has taken
  active,   \* the sounds being played
  device, fault,   \* whether it is open; whether it has reported an error
  heard,    \* sounds that were played to their end
  caller,   \* of every thread: pc, request, reply
  closer,   \* where shutdown is
  plays, faults

shared == <<sender, channel, closer>>
output == <<active, device, fault, heard>>
vars == <<shared, worker, hand, output, caller, plays, faults>>

\* A speech clip, a sound effect that is waited for, one that is not.
Kinds == {"speech", "effect", "overlap"}
Close == [id |-> 0, kind |-> "close"]
Resting == [pc |-> "rest", request |-> Close, reply |-> "none"]

Init ==
  /\ sender = "open" /\ channel = <<>> /\ closer = "rest"
  /\ worker = "receive" /\ hand = Close
  /\ active = {} /\ device = FALSE /\ fault = FALSE /\ heard = {}
  /\ caller = [t \in Callers |-> Resting]
  /\ plays = 0 /\ faults = 0

-----------------------------------------------------------------------------
(***************************************************************************)
(* AudioPlayer.request, on the thread that plays.                          *)
(***************************************************************************)
Request(t, kind) ==
  /\ caller[t].pc = "rest" /\ plays < MaxPlays /\ plays' = plays + 1
  /\ caller' = [caller EXCEPT ![t] =
       [pc |-> "clone", request |-> [id |-> plays', kind |-> kind], reply |-> "none"]]
  /\ UNCHANGED <<shared, worker, hand, output, faults>>

CallerOnly == UNCHANGED <<sender, closer, worker, hand, output, plays, faults>>
CallerGoes(t, pc) == caller' = [caller EXCEPT ![t].pc = pc]
CallEnds(t) == caller' = [caller EXCEPT ![t] = Resting]

\* A copy of the sender is taken under its lock, and used outside it.
CloneSender(t) ==
  /\ caller[t].pc = "clone" /\ sender # "taken" /\ CallerOnly /\ UNCHANGED channel
  /\ IF sender = "open" THEN CallerGoes(t, "send") ELSE CallEnds(t)

Send(t) ==
  /\ caller[t].pc = "send" /\ CallerOnly
  /\ \/ /\ worker = "ended" /\ CallEnds(t) /\ UNCHANGED channel
     \/ /\ worker # "ended" /\ Len(channel) < Capacity
        /\ channel' = Append(channel, caller[t].request) /\ CallerGoes(t, "wait")

Return(t) ==
  /\ caller[t].pc = "wait" /\ caller[t].reply # "none" /\ CallerOnly /\ UNCHANGED channel
  /\ CallEnds(t)

Call(t) == CloneSender(t) \/ Send(t) \/ Return(t)

-----------------------------------------------------------------------------
(***************************************************************************)
(* shutdown.  It holds the lock of the sender until Close is sent.         *)
(***************************************************************************)
TakeSender ==
  /\ closer = "rest" /\ sender' = "taken" /\ closer' = "send"
  /\ UNCHANGED <<channel, worker, hand, output, caller, plays, faults>>

SendClose ==
  /\ closer = "send" /\ Len(channel) < Capacity
  /\ channel' = Append(channel, Close) /\ sender' = "gone" /\ closer' = "join"
  /\ UNCHANGED <<worker, hand, output, caller, plays, faults>>

JoinLater == closer = "join"
JoinEnded == closer = "join" /\ worker = "ended"
Join ==
  /\ JoinEnded /\ closer' = "done"
  /\ UNCHANGED <<sender, channel, worker, hand, output, caller, plays, faults>>

-----------------------------------------------------------------------------
(***************************************************************************)
(* The worker.  Answer gives the requests their replies.                   *)
(***************************************************************************)
Answer(requests, reply) ==
  caller' = [t \in Callers |->
    IF caller[t].pc = "wait" /\ caller[t].request \in requests /\ caller[t].reply = "none"
    THEN [caller[t] EXCEPT !.reply = reply] ELSE caller[t]]
Waited == {r \in active : r.kind # "overlap"}

WorkerOnly == UNCHANGED <<sender, closer, plays, faults>>
Goes(from, to) == worker = from /\ worker' = to

\* Close ends the loop whatever is being played.
StopWhenIdle(r) == IF r # Close THEN "open" ELSE IF active = {} THEN "stop" ELSE "check"
StopAtOnce(r) == IF r # Close THEN "open" ELSE "stop"

Take ==
  /\ channel # <<>> /\ channel' = Tail(channel) /\ hand' = Head(channel)
  /\ Goes("receive", StopAtOnce(hand'))
  /\ WorkerOnly /\ UNCHANGED <<output, caller>>

\* It waits without a timeout only when it has neither sounds nor a device,
\* and closes a device that was idle for two seconds.
TimedWhenOpen == active = {} /\ device
TimedWait == active # {} \/ device
CloseAny == FALSE
CloseIdle == device /\ active # {}
Timeout ==
  /\ channel = <<>> /\ TimedWait /\ Goes("receive", "check")
  /\ device' = CloseIdle
  /\ WorkerOnly /\ UNCHANGED <<channel, hand, active, fault, heard, caller>>

Refused == hand.kind # "speech" /\ Cardinality({r \in active : r.kind # "speech"}) >= MaxEffects

\* Too many effects, no device, or a file that cannot be read.
Refuse ==
  /\ \/ Goes("open", "receive") /\ (Refused \/ ~device)
     \/ Goes("play", "receive") /\ hand.kind # "speech"
  /\ Answer({hand}, "error") /\ hand' = Close
  /\ WorkerOnly /\ UNCHANGED <<channel, output>>

Open ==
  /\ Goes("open", "play") /\ ~Refused /\ device' = TRUE
  /\ WorkerOnly /\ UNCHANGED <<channel, hand, active, fault, heard, caller>>

\* Only an effect that may overlap is answered at once.
AnswerStart == Answer({hand}, "ok")
AnswerOverlap == Answer({r \in {hand} : r.kind = "overlap"}, "ok")

Play ==
  /\ Goes("play", "check") /\ active' = active \cup {hand} /\ AnswerOverlap /\ hand' = Close
  /\ WorkerOnly /\ UNCHANGED <<channel, device, fault, heard>>

CheckFault ==
  /\ Goes("check", IF fault THEN "fail" ELSE "sweep") /\ fault' = FALSE
  /\ WorkerOnly /\ UNCHANGED <<channel, hand, active, device, heard, caller>>

\* An error of the device ends all sounds; the next request opens it again.
Fail ==
  /\ Goes("fail", "receive") /\ Answer(Waited, "error") /\ active' = {} /\ device' = FALSE
  /\ WorkerOnly /\ UNCHANGED <<channel, hand, fault, heard>>

Ended == {r \in active : r.id \in heard}
Sweep ==
  /\ Goes("sweep", "receive") /\ Answer(Waited \cap Ended, "ok") /\ active' = active \ Ended
  /\ WorkerOnly /\ UNCHANGED <<channel, hand, device, fault, heard>>

\* After Close: what is played is stopped, and what is still in the channel
\* is dropped with it, which its sender sees as an error.
Stop ==
  /\ Goes("stop", "drop") /\ Answer(Waited, "error") /\ active' = {}
  /\ WorkerOnly /\ UNCHANGED <<channel, hand, device, fault, heard>>

Drop ==
  /\ Goes("drop", "ended") /\ device' = FALSE /\ channel' = <<>>
  /\ Answer({channel[i] : i \in DOMAIN channel}, "error")
  /\ WorkerOnly /\ UNCHANGED <<hand, active, fault, heard>>

Worker == Take \/ Timeout \/ Refuse \/ Open \/ Play \/ CheckFault \/ Fail \/ Sweep \/ Stop \/ Drop

-----------------------------------------------------------------------------
\* A sound ends, and the device reports an error, on the device's own thread.
EndSound ==
  /\ device /\ \E r \in active : r \notin Ended /\ heard' = heard \cup {r.id}
  /\ UNCHANGED <<shared, worker, hand, active, device, fault, caller, plays, faults>>

ReportFault ==
  /\ device /\ faults < MaxFaults /\ faults' = faults + 1 /\ fault' = TRUE
  /\ UNCHANGED <<shared, worker, hand, active, device, heard, caller, plays>>

Next ==
  \/ \E t \in Callers : (\E kind \in Kinds : Request(t, kind)) \/ Call(t)
  \/ TakeSender \/ SendClose \/ Join \/ Worker \/ EndSound \/ ReportFault

Spec == Init /\ [][Next]_vars

\* The threads go on, and sounds come to their end.  A full channel has room
\* again and again, and serves those who wait for it in their order.
FairSpec ==
  /\ Spec /\ WF_vars(Worker) /\ WF_vars(EndSound) /\ WF_vars(SendClose \/ Join)
  /\ \A t \in Callers : WF_vars(Call(t))

-----------------------------------------------------------------------------
Requests == [id : 0 .. MaxPlays, kind : Kinds \cup {"close"}]

TypeOK ==
  /\ sender \in {"open", "taken", "gone"} /\ closer \in {"rest", "send", "join", "done"}
  /\ channel \in Seq(Requests) /\ Len(channel) <= Capacity
  /\ worker \in {"receive", "open", "play", "check", "fail", "sweep", "stop", "drop", "ended"}
  /\ hand \in Requests /\ active \subseteq Requests /\ heard \subseteq 1 .. MaxPlays
  /\ device \in BOOLEAN /\ fault \in BOOLEAN
  /\ caller \in [Callers -> [pc : {"rest", "clone", "send", "wait"}, request : Requests,
                             reply : {"none", "ok", "error"}]]
  /\ plays \in 0 .. MaxPlays /\ faults \in 0 .. MaxFaults

\* Whoever was told that a sound was played has heard all of it, whatever
\* failed or was closed meanwhile; an overlapping effect is not waited for.
HeardWhole == \A t \in Callers :
  caller[t].reply = "ok" /\ caller[t].request.kind # "overlap" => caller[t].request.id \in heard

\* A sound that is waited for is not heard after its call has returned: the
\* pipeline that has ended is silent (core/speech/pipeline.py:236-246).
ReturnedIsSilent == \A r \in Waited : \E t \in Callers :
  caller[t].pc = "wait" /\ caller[t].request = r /\ caller[t].reply = "none"

\* A sound is never left without a device, where it would not end.
DeviceUnderSound == active # {} => device

\* When close returns nothing is heard and nobody is left waiting.
SilentAtEnd == closer = "done" =>
  /\ active = {} /\ ~device /\ channel = <<>>
  /\ \A t \in Callers : caller[t].pc = "wait" => caller[t].reply # "none"

\* Every call to play returns, and so does close, whoever else is waiting.
PlayReturns == \A t \in Callers : caller[t].pc # "rest" ~> caller[t].pc = "rest"
CloseReturns == closer # "rest" ~> closer = "done"
=============================================================================
