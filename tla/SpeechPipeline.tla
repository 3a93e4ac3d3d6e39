--------------------------- MODULE SpeechPipeline ---------------------------
(***************************************************************************)
(* One speech pipeline (core/speech/pipeline.py) with its PCM budget       *)
(* (core/speech/budget.py).  Two threads of its own, synthesis and         *)
(* playback, are joined by two bounded queues; three outside threads act   *)
(* on it: the session control thread submits plans, changes the budget,    *)
(* cancels and joins, the GUI thread cancels, and the synthesis thread     *)
(* itself cancels when the engine never becomes ready.                     *)
(*                                                                         *)
(* Every item of a comment's plan gets a serial number when it is offered. *)
(* Texts, voices and sound files are not modelled; PCM is counted in an    *)
(* abstract unit, so that one clip's size is a small number.               *)
(***************************************************************************)
EXTENDS Integers, Sequences

CONSTANTS
  QueueLimit,   \* speech.queue_limit: capacity of _input and of _output
  Limits,       \* the budgets (resources.audio_mib) the settings may choose
  MaxClip,      \* the 16 MiB ceiling of one clip
  PlanShapes,   \* the plans that may arrive: sequences of item kinds
  Engines,      \* the engines it may be made for: capabilities.local_audio of each
  MaxItems      \* bound: number of items ever offered

Kind == {"say", "learn", "sound"}

ASSUME PipelineAssumption ==
  /\ QueueLimit \in Nat \ {0}
  /\ Limits \subseteq Nat \ {0, 1} /\ Limits # {}
  /\ MaxClip \in Nat \ {0}
  /\ PlanShapes \subseteq Seq(Kind)
  /\ Engines \subseteq BOOLEAN
  /\ MaxItems \in Nat

Caller == {"control", "gui", "generation"}

Item  == [kind : Kind, no : Nat]
Entry == [kind : {"say", "sound", "none"}, no : Nat, bytes : Nat]
Nothing == [kind |-> "none", no |-> 0, bytes |-> 0]

VARIABLES
  admission,  \* holder of _admission, or "free"
  offer,      \* the plan the control thread is submitting
  issued,     \* serial number of the last item offered
  accepting, cancelled, finished,
  input, output,
  limit, held,   \* the budget
  gpc,        \* where the synthesis thread is
  work,       \* rest of the plan it took; the head is the item it handles
  reserved,   \* PCM it holds
  ppc,        \* where the playback thread is
  playing,    \* the entry it took
  local,      \* capabilities.local_audio: this program plays the sound
  caller,     \* where each outside call is
  inhand,     \* PCM of the entry a discarding caller has taken off _output
  peak,       \* history: the largest budget ever in force
  spoken,     \* history: number of the last entry that went on the air
  cutoff      \* history: what playback had in hand when cancel was requested

budget     == <<limit, held, peak>>
submission == <<admission, offer, issued>>
calls      == <<caller, inhand>>
flags      == <<accepting, cancelled, finished>>
synthesis  == <<gpc, work, reserved>>
playback   == <<ppc, playing, spoken>>
threads    == <<synthesis, playback, cutoff, local>>
vars == <<budget, submission, calls, flags, input, output, threads>>

-----------------------------------------------------------------------------
Init ==
  /\ admission = "free" /\ offer = <<>> /\ issued = 0
  /\ caller = [t \in Caller |-> "idle"]
  /\ inhand = [t \in Caller |-> 0]
  /\ accepting = TRUE /\ cancelled = FALSE /\ finished = FALSE
  /\ input = <<>> /\ output = <<>>
  /\ limit \in Limits /\ held = 0 /\ peak = limit
  /\ gpc = "start" /\ work = <<>> /\ reserved = 0
  /\ ppc = "loop" /\ playing = Nothing /\ spoken = 0
  /\ cutoff = 0 /\ local \in Engines

\* Nobody is inside _admission; mutant: the lock is not looked at.
LockIgnored == TRUE
Unlocked == admission = "free"

\* The call of thread t goes on from one point to the next.
Move(t, from, to) == caller[t] = from /\ caller' = [caller EXCEPT ![t] = to]

(***************************************************************************)
(* submit: the admission lock is held from the test of _accepting to the   *)
(* put.  A full queue refuses the plan.                                    *)
(***************************************************************************)
SubmitEnter(shape) ==
  /\ Move("control", "idle", "submit") /\ Unlocked /\ accepting
  /\ shape # <<>> /\ issued + Len(shape) <= MaxItems
  /\ admission' = "control"
  /\ offer' = [i \in 1..Len(shape) |-> [kind |-> shape[i], no |-> issued + i]]
  /\ issued' = issued + Len(shape)
  /\ UNCHANGED <<inhand, budget, flags, input, output, threads>>

SubmitPut ==
  /\ Move("control", "submit", "idle")
  /\ input' = IF Len(input) < QueueLimit THEN Append(input, offer) ELSE input
  /\ offer' = <<>> /\ admission' = "free"
  /\ UNCHANGED <<issued, inhand, budget, flags, output, threads>>

SetAudioLimit(n) ==
  /\ caller["control"] = "idle"
  /\ limit' = n
  /\ peak' = IF n > peak THEN n ELSE peak
  /\ UNCHANGED <<held, submission, calls, flags, input, output, threads>>

(***************************************************************************)
(* cancel: raise the flags under the lock, then empty both queues, giving  *)
(* back the PCM of every entry taken off _output.                          *)
(***************************************************************************)
CancelFlag(t) ==
  /\ Move(t, "idle", "input") /\ Unlocked
  /\ t = "generation" => gpc = "failed"
  /\ accepting' = FALSE /\ cancelled' = TRUE
  /\ cutoff' = IF cancelled THEN cutoff ELSE playing.no
  /\ UNCHANGED <<submission, inhand, finished, budget, input, output, synthesis, playback, local>>

\* Where a canceller goes when both queues are empty, and when _input is;
\* mutant: AfterDiscard for AfterInput, a cancel that forgets _output.
AfterDiscard(t) == IF t = "generation" THEN "returned" ELSE "idle"
AfterInput(t) == "output"

DiscardInput(t) ==
  /\ \/ input # <<>> /\ input' = Tail(input) /\ Move(t, "input", "input")
     \/ input = <<>> /\ UNCHANGED input /\ Move(t, "input", AfterInput(t))
  /\ UNCHANGED <<submission, inhand, budget, flags, output, threads>>

DiscardOutput(t) ==
  /\ output # <<>> /\ output' = Tail(output)
  /\ Move(t, "output", IF Head(output).kind = "say" THEN "release" ELSE "output")
  /\ inhand' = [inhand EXCEPT ![t] = Head(output).bytes]
  /\ UNCHANGED <<submission, budget, flags, input, threads>>

DiscardRelease(t) ==
  /\ Move(t, "release", "output")
  /\ held' = held - inhand[t]
  /\ inhand' = [inhand EXCEPT ![t] = 0]
  /\ UNCHANGED <<submission, limit, peak, flags, input, output, threads>>

DiscardDone(t) ==
  /\ output = <<>> /\ Move(t, "output", AfterDiscard(t))
  /\ UNCHANGED <<submission, inhand, budget, flags, input, output, threads>>

\* join, by the control thread, of a pipeline that no longer accepts plans.
Join ==
  /\ ~accepting /\ Move("control", "idle", "join")
  /\ UNCHANGED <<submission, inhand, budget, flags, input, output, threads>>

JoinReturn ==
  /\ finished /\ Move("control", "join", "gone")
  /\ UNCHANGED <<submission, inhand, budget, flags, input, output, threads>>

-----------------------------------------------------------------------------
(***************************************************************************)
(* The synthesis thread.                                                   *)
(***************************************************************************)
GenOnly == UNCHANGED <<submission, calls, flags, playback, cutoff, local>>

\* leave the item at hand, for the next one or, on a break, for no other
NextItem == gpc' = "item" /\ work' = Tail(work)
Break == gpc' = "item" /\ work' = <<>>

GenStart ==
  /\ gpc = "start"
  /\ gpc' \in {"loop", "failed"}
  /\ GenOnly /\ UNCHANGED <<work, reserved, budget, input, output>>

GenLoop ==
  /\ gpc = "loop"
  /\ gpc' = IF cancelled THEN "end" ELSE "get"
  /\ GenOnly /\ UNCHANGED <<work, reserved, budget, input, output>>

\* Mutant: the plan is read but stays in the queue.
PeekPlan == UNCHANGED input
TakePlan == input' = Tail(input)

GenGet ==
  /\ gpc = "get"
  /\ \/ input # <<>> /\ gpc' = "item" /\ work' = Head(input) /\ TakePlan
     \/ input = <<>> /\ gpc' = "loop" /\ UNCHANGED <<work, input>>
  /\ GenOnly /\ UNCHANGED <<reserved, budget, output>>

\* A blank text, a dictionary command, or any exception ends the item here.
GenItem ==
  /\ gpc = "item"
  /\ \/ work = <<>> /\ gpc' = "loop" /\ UNCHANGED work
     \/ work # <<>> /\ cancelled /\ Break
     \/ work # <<>> /\ ~cancelled /\ Head(work).kind \in {"learn", "say"} /\ NextItem
     \/ work # <<>> /\ ~cancelled /\ Head(work).kind = "sound" /\ gpc' = "put" /\ UNCHANGED work
     \/ work # <<>> /\ ~cancelled /\ Head(work).kind = "say" /\ gpc' = "ready" /\ UNCHANGED work
  /\ GenOnly /\ UNCHANGED <<reserved, budget, input, output>>

GenReady ==
  /\ gpc = "ready"
  /\ \/ gpc' = "check" /\ UNCHANGED work
     \/ NextItem
  /\ GenOnly /\ UNCHANGED <<reserved, budget, input, output>>

GenCheck ==
  /\ gpc = "check"
  /\ \/ cancelled /\ Break
     \/ ~cancelled /\ gpc' = (IF local THEN "reserve" ELSE "send") /\ UNCHANGED work
  /\ GenOnly /\ UNCHANGED <<reserved, budget, input, output>>

\* Mutant: a failed send is tried again without end.
SendAgain == NextItem \/ (gpc' = "item" /\ UNCHANGED work)
Sent == NextItem

GenSend ==
  /\ gpc = "send" /\ Sent
  /\ GenOnly /\ UNCHANGED <<reserved, budget, input, output>>

\* AudioBudget.reserve: half the budget, at most one clip's ceiling.
ClipCapacity == IF limit \div 2 < MaxClip THEN limit \div 2 ELSE MaxClip

\* Mutants: the clip about to be made is not counted; a lowered limit is
\* not seen.
RoomForHeld == held <= limit
RoomAtPeak == held + ClipCapacity <= peak
RoomForClip == held + ClipCapacity <= limit

\* Give the reservation back.  Mutant: it is dropped but stays held.
Forfeit == reserved' = 0 /\ UNCHANGED held
Refund == reserved' = 0 /\ held' = held - reserved

GenReserve ==
  /\ gpc = "reserve"
  /\ \/ /\ cancelled /\ Break /\ UNCHANGED <<held, reserved>>
     \/ /\ ~cancelled /\ RoomForClip
        /\ held' = held + ClipCapacity /\ reserved' = ClipCapacity
        /\ gpc' = "synthesize" /\ UNCHANGED work
  /\ GenOnly /\ UNCHANGED <<limit, peak, input, output>>

\* The engine fails or overruns (everything is released), or returns a clip
\* and the unused part of the reservation is released.
GenSynthesize ==
  /\ gpc = "synthesize"
  /\ \/ NextItem /\ Refund
     \/ \E n \in 0..reserved :
          /\ held' = held - (reserved - n) /\ reserved' = n
          /\ gpc' = "put" /\ UNCHANGED work
  /\ GenOnly /\ UNCHANGED <<limit, peak, input, output>>

\* _enqueue: a test of _cancelled, then a put that may time out.
GenPutTest ==
  /\ gpc = "put"
  /\ \/ cancelled /\ NextItem /\ Refund
     \/ ~cancelled /\ gpc' = "putting" /\ UNCHANGED <<work, held, reserved>>
  /\ GenOnly /\ UNCHANGED <<limit, peak, input, output>>

\* Mutant: one entry more than the queue's capacity.
OneTooMany == Len(output) <= QueueLimit
OutputRoom == Len(output) < QueueLimit

GenPut ==
  /\ gpc = "putting"
  /\ \/ /\ OutputRoom /\ NextItem
        /\ output' = Append(output, [kind |-> Head(work).kind, no |-> Head(work).no,
                                     bytes |-> reserved])
        /\ reserved' = 0
     \/ /\ ~OutputRoom
        /\ gpc' = "put" /\ UNCHANGED <<work, output, reserved>>
  /\ GenOnly /\ UNCHANGED <<budget, input>>

\* The end marker is never put: this point is reached with _cancelled set.
GenEnd ==
  /\ \/ gpc = "end"
     \/ gpc = "failed" /\ caller["generation"] = "returned"
  /\ gpc' = "await"
  /\ GenOnly /\ UNCHANGED <<work, reserved, budget, input, output>>

\* _playback.join; mutant: it is skipped.
JoinSkipped == TRUE
PlaybackJoined == ppc = "done"

GenFinish ==
  /\ gpc = "await" /\ PlaybackJoined
  /\ gpc' = "done" /\ finished' = TRUE
  /\ UNCHANGED <<work, reserved, accepting, cancelled, submission, calls, budget,
                 input, output, playback, cutoff, local>>

Generation ==
  \/ GenStart \/ GenLoop \/ GenGet \/ GenItem \/ GenReady \/ GenCheck \/ GenSend
  \/ GenReserve \/ GenSynthesize \/ GenPutTest \/ GenPut \/ GenEnd \/ GenFinish

-----------------------------------------------------------------------------
(***************************************************************************)
(* The playback thread.                                                    *)
(***************************************************************************)
PlayOnly == UNCHANGED <<submission, calls, flags, synthesis, input, cutoff, local>>

\* Mutant: playback ends at the end marker only.
AwaitMarker == ppc' = "get"
LoopTest == ppc' = IF cancelled THEN "done" ELSE "get"

PlayLoop ==
  /\ ppc = "loop" /\ LoopTest
  /\ PlayOnly /\ UNCHANGED <<playing, spoken, budget, output>>

PlayGet ==
  /\ ppc = "get"
  /\ \/ output # <<>> /\ ppc' = "recheck" /\ playing' = Head(output) /\ output' = Tail(output)
     \/ output = <<>> /\ ppc' = "loop" /\ UNCHANGED <<playing, output>>
  /\ PlayOnly /\ UNCHANGED <<spoken, budget>>

\* Mutant: no second test of _cancelled after the get.
NotAgain == FALSE
CancelledAgain == cancelled

PlayRecheck ==
  /\ ppc = "recheck"
  /\ IF CancelledAgain THEN ppc' = "abandon" /\ UNCHANGED spoken
                  ELSE ppc' = "onair" /\ spoken' = playing.no
  /\ PlayOnly /\ UNCHANGED <<playing, budget, output>>

\* Mutant: a played clip is not given back.
KeepClip == UNCHANGED held
ReleaseClip == held' = held - playing.bytes

\* Whether the output played it or raised, the clip is released.
PlayRelease ==
  /\ ppc \in {"onair", "abandon"}
  /\ ReleaseClip
  /\ playing' = Nothing
  /\ ppc' = IF ppc = "onair" THEN "loop" ELSE "done"
  /\ PlayOnly /\ UNCHANGED <<spoken, limit, peak, output>>

Playback == PlayLoop \/ PlayGet \/ PlayRecheck \/ PlayRelease

Discard(t) == DiscardInput(t) \/ DiscardOutput(t) \/ DiscardRelease(t) \/ DiscardDone(t)

\* What the three outside threads do.
OutsideCall ==
  \/ \E shape \in PlanShapes : SubmitEnter(shape)
  \/ SubmitPut
  \/ \E n \in Limits : SetAudioLimit(n)
  \/ \E t \in Caller : CancelFlag(t)
  \/ \E t \in Caller : Discard(t)
  \/ Join \/ JoinReturn

Next == OutsideCall \/ Generation \/ Playback

Spec == Init /\ [][Next]_vars

(***************************************************************************)
(* Threads keep running, a call in progress completes, and an engine call  *)
(* or a clip being played ends.  Nobody has to submit, cancel or join.     *)
(***************************************************************************)
Fairness ==
  /\ WF_vars(Generation) /\ WF_vars(Playback)
  /\ WF_vars(SubmitPut) /\ WF_vars(JoinReturn)
  /\ WF_vars(CancelFlag("generation"))
  /\ \A t \in Caller : WF_vars(Discard(t))

FairSpec == Spec /\ Fairness

-----------------------------------------------------------------------------
(***************************************************************************)
(* Properties.                                                             *)
(***************************************************************************)
CallerPoint == {"idle", "submit", "input", "output", "release", "returned", "join", "gone"}
GenPoint == {"start", "failed", "loop", "get", "item", "ready", "check", "send", "reserve",
             "synthesize", "put", "putting", "end", "await", "done"}
PlayPoint == {"loop", "get", "recheck", "onair", "abandon", "done"}

\* Every variable has its type, and both queues keep to speech.queue_limit.
TypeOK ==
  /\ admission \in {"free", "control"}
  /\ offer \in Seq(Item) /\ issued \in Nat
  /\ caller \in [Caller -> CallerPoint] /\ inhand \in [Caller -> Nat]
  /\ accepting \in BOOLEAN /\ cancelled \in BOOLEAN /\ finished \in BOOLEAN
  /\ input \in Seq(Seq(Item)) /\ Len(input) <= QueueLimit
  /\ output \in Seq(Entry) /\ Len(output) <= QueueLimit
  /\ limit \in Limits /\ peak \in Limits /\ held \in Nat
  /\ gpc \in GenPoint /\ work \in Seq(Item) /\ reserved \in Nat
  /\ ppc \in PlayPoint /\ playing \in Entry /\ spoken \in Nat /\ cutoff \in Nat

\* PCM in the hands of some thread, each of which will release its share.
InHands == reserved + playing.bytes
           + inhand["control"] + inhand["gui"] + inhand["generation"]

\* Every unit the budget holds is somewhere: with synthesis, with playback,
\* with a discarding caller, or in _output (sum[i] is what its first i
\* entries hold).  None is lost by an error, a cancel or a full queue, and
\* so AudioBudget.release never meets more than is held.
BudgetConserved ==
  \E sum \in [0..Len(output) -> 0..held] :
    /\ sum[0] = 0
    /\ \A i \in 1..Len(output) : sum[i] = sum[i - 1] + output[i].bytes
    /\ held = InHands + sum[Len(output)]

\* The budget never holds more PCM than the largest limit ever in force:
\* lowering the limit keeps what is accepted, but grants nothing above it.
HeldWithinPeak == held <= peak

\* The budget counts what is held, and keeps to its limit.
BudgetSafe == BudgetConserved /\ HeldWithinPeak

\* A plan whose submit was answered True is taken by synthesis or discarded
\* by cancel; it is never left in an _input that nobody reads, because
\* submit tests _accepting and puts under the lock that cancel takes.
NoPlanStranded ==
  cancelled /\ (\A t \in Caller : caller[t] # "input") => input = <<>>

\* After every cancel call has returned at most one entry can remain in
\* _output, the one whose put raced with the discarding.
OneEntryStranded ==
  cancelled /\ (\A t \in Caller : caller[t] \notin {"input", "output", "release"})
    => Len(output) <= 1

\* A cancel leaves nothing behind but that one entry.
NothingStranded == NoPlanStranded /\ OneEntryStranded

\* Once cancel was requested only the clip playback already had on the air
\* is heard: nothing that was waiting is played.
CancelSilencesQueue == cancelled /\ ppc = "onair" => playing.no = cutoff

\* A finished pipeline is quiet: its threads hold no PCM and use neither the
\* engine nor the audio output, so _dispose may close the engine after join.
FinishedQuiet ==
  finished => gpc = "done" /\ ppc = "done" /\ reserved = 0 /\ playing = Nothing

\* The pipeline falls silent, and is at rest when it says so.
EndsQuietly == CancelSilencesQueue /\ FinishedQuiet

\* Items go on the air in the order their comments were accepted, and none
\* goes on the air twice.
SpokenInOrder == [][ppc # "onair" /\ ppc' = "onair" => spoken' > spoken]_vars

\* A granted reservation fits the limit in force when it is granted, however
\* often the limit changed while synthesis waited.
ReservedWithinLimit == [][reserved' > reserved => held' <= limit]_vars

\* join returns once the pipeline has stopped accepting, whatever the two
\* threads were waiting for: a plan, a full queue, the budget, the engine.
JoinReturns == (caller["control"] = "join") ~> (caller["control"] = "gone")

\* Without a cancel everything accepted is worked off: neither the queues
\* nor the budget, lowered at any time, stall the two threads for ever.
AcceptedIsHandled ==
  LET Drained == input = <<>> /\ output = <<>> /\ work = <<>>
  IN  ~Drained ~> (cancelled \/ Drained)

\* Neither a join nor a plan waits for ever.
NobodyWaitsForever == JoinReturns /\ AcceptedIsHandled
=============================================================================
