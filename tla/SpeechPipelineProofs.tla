------------------------ MODULE SpeechPipelineProofs ------------------------
(***************************************************************************)
(* Proofs about the speech pipeline, for every queue limit, every set of   *)
(* budgets and every set of comment plans: the PCM budget and the threads, *)
(* then the order in which items go on the air, and last that the pipeline *)
(* implements the speech lane.                                             *)
(***************************************************************************)
EXTENDS SpeechPipelineRefinement, SequenceTheorems, TLAPS

-----------------------------------------------------------------------------
(***************************************************************************)
(* The ledger of a queue: running sums of its entries that end in total.   *)
(* That the sums grow is part of the definition: the steps keep it, and no *)
(* induction over the queue is needed.                                     *)
(***************************************************************************)
Ledger(queue, total) ==
  \E sum \in [0..Len(queue) -> 0..total] :
    /\ sum[0] = 0 /\ sum[Len(queue)] = total
    /\ \A i \in 1..Len(queue) : sum[i] = sum[i - 1] + queue[i].bytes
    /\ \A i, j \in 0..Len(queue) : i <= j => sum[i] <= sum[j]

\* PCM of the entries waiting in _output.
Queued == held - InHands

\* An empty queue holds nothing.
LEMMA LedgerEmpty == Ledger(<<>>, 0)
<1> DEFINE g == [i \in 0..0 |-> 0]
<1>1. Len(<<>>) = 0
  OBVIOUS
<1>2. g \in [0..0 -> 0..0] /\ g[0] = 0
  OBVIOUS
<1>3. \A i, j \in 0..0 : g[i] <= g[j]
  OBVIOUS
<1>4. \E sum \in [0..0 -> 0..0] :
        /\ sum[0] = 0 /\ sum[0] = 0
        /\ \A i \in 1..0 : sum[i] = sum[i - 1] + <<>>[i].bytes
        /\ \A i, j \in 0..0 : i <= j => sum[i] <= sum[j]
  <2> WITNESS g \in [0..0 -> 0..0]
  <2> QED
    BY <1>2, <1>3
<1> QED
  BY <1>1, <1>4 DEF Ledger

\* A put adds the entry's PCM to the ledger.
LEMMA LedgerAppend ==
  ASSUME NEW queue \in Seq(Entry), NEW total \in Nat, NEW e \in Entry,
         Ledger(queue, total)
  PROVE  Ledger(Append(queue, e), total + e.bytes)
<1>1. PICK g \in [0..Len(queue) -> 0..total] :
        /\ g[0] = 0 /\ g[Len(queue)] = total
        /\ \A i \in 1..Len(queue) : g[i] = g[i - 1] + queue[i].bytes
        /\ \A i, j \in 0..Len(queue) : i <= j => g[i] <= g[j]
  BY DEF Ledger
<1> DEFINE n == Len(queue)
           longer == Append(queue, e)
           h == [i \in 0..n + 1 |-> IF i = n + 1 THEN total + e.bytes ELSE g[i]]
<1>2. n \in Nat /\ e.bytes \in Nat /\ Len(longer) = n + 1
  BY LenProperties, AppendProperties DEF Entry
<1>3. \A i \in 1..n : longer[i] = queue[i]
  BY AppendProperties
<1>4. longer[n + 1] = e
  BY AppendProperties
<1>5. \A i \in 0..n : g[i] \in 0..total
  BY <1>1
<1>6. h \in [0..n + 1 -> 0..total + e.bytes]
  BY <1>2, <1>5
<1>7. h[0] = 0 /\ h[n + 1] = total + e.bytes
  BY <1>1, <1>2
<1>8. \A i \in 1..n + 1 : h[i] = h[i - 1] + longer[i].bytes
  <2> TAKE i \in 1..n + 1
  <2>1. CASE i = n + 1
    BY <2>1, <1>1, <1>2, <1>4
  <2>2. CASE i # n + 1
    BY <2>2, <1>1, <1>2, <1>3
  <2> QED
    BY <2>1, <2>2
<1>9. \A i, j \in 0..n + 1 : i <= j => h[i] <= h[j]
  BY <1>1, <1>2, <1>5
<1> HIDE DEF n, h, longer
<1> QED
  BY <1>2, <1>6, <1>7, <1>8, <1>9 DEF Ledger, longer

\* A get takes the first entry's PCM off the ledger, which holds that much.
LEMMA LedgerTail ==
  ASSUME NEW queue \in Seq(Entry), NEW total \in Nat, queue # <<>>,
         Ledger(queue, total)
  PROVE  /\ Head(queue).bytes <= total
         /\ Ledger(Tail(queue), total - Head(queue).bytes)
<1>1. PICK g \in [0..Len(queue) -> 0..total] :
        /\ g[0] = 0 /\ g[Len(queue)] = total
        /\ \A i \in 1..Len(queue) : g[i] = g[i - 1] + queue[i].bytes
        /\ \A i, j \in 0..Len(queue) : i <= j => g[i] <= g[j]
  BY DEF Ledger
<1> DEFINE n == Len(queue)
           first == Head(queue).bytes
           h == [i \in 0..n - 1 |-> g[i + 1] - first]
<1>2. n \in Nat \ {0}
  BY EmptySeq
<1>3. /\ Head(queue) \in Entry /\ Head(queue) = queue[1]
      /\ Tail(queue) \in Seq(Entry) /\ Len(Tail(queue)) = n - 1
      /\ \A i \in 1..n - 1 : Tail(queue)[i] = queue[i + 1]
  BY HeadTailProperties
<1>4. first \in Nat
  BY <1>3 DEF Entry
<1>5. g[1] = first
  BY <1>1, <1>2, <1>3, <1>4
<1>6. \A i \in 0..n : g[i] \in 0..total
  BY <1>1
<1>7. \A i \in 1..n : first <= g[i]
  BY <1>1, <1>2, <1>5
<1>8. first <= total
  BY <1>1, <1>2, <1>7
<1>9. h \in [0..n - 1 -> 0..total - first]
  BY <1>2, <1>4, <1>6, <1>7, <1>8
<1>10. h[0] = 0 /\ h[n - 1] = total - first
  BY <1>1, <1>2, <1>4, <1>5
<1>11. \A i \in 1..n - 1 : h[i] = h[i - 1] + Tail(queue)[i].bytes
  <2> TAKE i \in 1..n - 1
  <2>1. i + 1 \in 1..n /\ i \in 1..n /\ i - 1 \in 0..n - 1 /\ i \in 0..n - 1
    BY <1>2
  <2>2. g[i + 1] = g[i] + Tail(queue)[i].bytes
    BY <1>1, <1>3, <2>1
  <2>3. queue[i + 1] \in Entry
    BY <2>1, ElementOfSeq
  <2>4. Tail(queue)[i].bytes \in Nat
    BY <1>3, <2>3 DEF Entry
  <2> QED
    BY <2>1, <2>2, <2>4, <1>4, <1>6
<1>12. \A i, j \in 0..n - 1 : i <= j => h[i] <= h[j]
  <2> TAKE i, j \in 0..n - 1
  <2>1. i + 1 \in 0..n /\ j + 1 \in 0..n
    BY <1>2
  <2>2. i <= j => g[i + 1] <= g[j + 1]
    BY <1>1, <2>1
  <2> QED
    BY <2>1, <2>2, <1>4, <1>6
<1> HIDE DEF n, h, first
<1> QED
  BY <1>3, <1>8, <1>9, <1>10, <1>11, <1>12 DEF Ledger, first

\* No entry but a synthesized clip carries PCM.
SoundsFree(queue) ==
  \A i \in 1..Len(queue) : queue[i].kind # "say" => queue[i].bytes = 0

\* A get keeps that, and hands over an entry of that kind.
LEMMA SoundsFreeTail ==
  ASSUME NEW queue \in Seq(Entry), queue # <<>>, SoundsFree(queue)
  PROVE  /\ SoundsFree(Tail(queue))
         /\ Head(queue).kind # "say" => Head(queue).bytes = 0
<1>1. /\ Head(queue) = queue[1] /\ Len(queue) \in Nat \ {0}
      /\ Len(Tail(queue)) = Len(queue) - 1
      /\ \A i \in 1..Len(queue) - 1 : Tail(queue)[i] = queue[i + 1]
  BY HeadTailProperties, EmptySeq
<1> QED
  BY <1>1 DEF SoundsFree

\* A put of such an entry keeps it.
LEMMA SoundsFreeAppend ==
  ASSUME NEW queue \in Seq(Entry), NEW e \in Entry, SoundsFree(queue),
         e.kind # "say" => e.bytes = 0
  PROVE  SoundsFree(Append(queue, e))
<1>1. /\ Len(Append(queue, e)) = Len(queue) + 1 /\ Len(queue) \in Nat
      /\ \A i \in 1..Len(queue) : Append(queue, e)[i] = queue[i]
      /\ Append(queue, e)[Len(queue) + 1] = e
  BY AppendProperties, LenProperties
<1> QED
  BY <1>1 DEF SoundsFree

-----------------------------------------------------------------------------
(***************************************************************************)
(* The inductive invariant.                                                *)
(***************************************************************************)

\* The item synthesis works on fits the point where it is.
AtHand ==
  /\ gpc \in {"ready", "check", "reserve", "send", "synthesize"} =>
       work # <<>> /\ Head(work).kind = "say"
  /\ gpc \in {"put", "putting"} => work # <<>> /\ Head(work).kind \in {"say", "sound"}

\* Who holds no PCM: synthesis outside its reservation, a caller that is not
\* releasing, playback between clips, a sound file.
EmptyHanded ==
  /\ gpc \notin {"synthesize", "put", "putting"} => reserved = 0
  /\ gpc \in {"put", "putting"} /\ Head(work).kind = "sound" => reserved = 0
  /\ \A t \in Caller : caller[t] # "release" => inhand[t] = 0
  /\ ppc \in {"loop", "get", "done"} => playing = Nothing
  /\ SoundsFree(output)

\* The lock keeps submit and cancel apart.
Admission ==
  /\ accepting = ~cancelled
  /\ admission = "control" <=> caller["control"] = "submit"
  /\ admission = "control" => ~cancelled
  /\ \A t \in Caller : caller[t] \in {"input", "output", "release"} => cancelled

\* The budget: what is neither queued nor in hand is not held.
Balanced ==
  /\ Queued \in Nat /\ Ledger(output, Queued)
  /\ held <= peak /\ limit <= peak

\* After every cancel has returned, _output and the put under way make at
\* most one entry.
Residue ==
  cancelled /\ (\A t \in Caller : caller[t] \notin {"input", "output", "release"})
    => Len(output) + (IF gpc = "putting" THEN 1 ELSE 0) <= 1

\* The two threads end in order.
Ending ==
  /\ finished <=> gpc = "done"
  /\ finished => ppc = "done"

IInv ==
  /\ TypeOK /\ AtHand /\ EmptyHanded /\ Admission /\ Balanced
  /\ NoPlanStranded /\ Residue /\ Ending /\ CancelSilencesQueue

\* Every share of the PCM is part of what the budget holds.
LEMMA Shares ==
  ASSUME IInv
  PROVE  /\ held \in Nat /\ limit \in Nat /\ peak \in Nat /\ Queued \in Nat
         /\ reserved \in 0..held /\ playing.bytes \in 0..held
         /\ \A t \in Caller : inhand[t] \in 0..held
<1>1. /\ held \in Nat /\ limit \in Nat /\ peak \in Nat
      /\ reserved \in Nat /\ playing.bytes \in Nat
      /\ \A t \in Caller : inhand[t] \in Nat
  BY PipelineAssumption DEF IInv, TypeOK, Entry
<1>2. Queued \in Nat
  BY DEF IInv, Balanced
<1> QED
  BY <1>1, <1>2 DEF Queued, InHands, Caller

\* Every variable keeps its type.
LEMMA TypeOKStep == IInv /\ [Next]_vars => TypeOK'
<1> SUFFICES ASSUME IInv, [Next]_vars PROVE TypeOK'
  OBVIOUS
<1> USE DEF vars, budget, submission, calls, flags, synthesis, playback, threads,
            CallerPoint, GenPoint, PlayPoint
<1>0. TypeOK
  BY DEF IInv
<1>a. /\ held \in Nat /\ limit \in Nat /\ peak \in Nat
      /\ reserved \in 0..held /\ playing.bytes \in 0..held
      /\ \A t \in Caller : inhand[t] \in 0..held
  BY Shares
<1>b. work # <<>> => Head(work) \in Item /\ Tail(work) \in Seq(Item)
  BY <1>0, HeadTailProperties DEF TypeOK
<1>c. input # <<>> =>
        /\ Head(input) \in Seq(Item) /\ Tail(input) \in Seq(Seq(Item))
        /\ Len(Tail(input)) <= QueueLimit
  BY <1>0, HeadTailProperties, LenProperties, PipelineAssumption DEF TypeOK
<1>d. output # <<>> =>
        /\ Head(output) \in Entry
        /\ Tail(output) \in Seq(Entry) /\ Len(Tail(output)) <= QueueLimit
  BY <1>0, HeadTailProperties, LenProperties, PipelineAssumption DEF TypeOK
<1>e. <<>> \in Seq(Item) /\ Nothing \in Entry /\ playing.no \in Nat
  BY <1>0 DEF TypeOK, Nothing, Entry
<1>f. gpc \in {"ready", "check", "reserve", "send", "synthesize", "put", "putting"} =>
        work # <<>>
  BY DEF IInv, AtHand
<1>g. ClipCapacity \in Nat
  BY <1>a, PipelineAssumption DEF ClipCapacity
<1>h. ASSUME gpc' \in GenPoint, work' \in Seq(Item), held' \in Nat, reserved' \in Nat,
             UNCHANGED <<admission, offer, issued, caller, inhand, accepting, cancelled,
                         finished, input, limit, peak, ppc, playing, spoken, cutoff>>,
             output' \in Seq(Entry), Len(output') <= QueueLimit
      PROVE  TypeOK'
  BY <1>0, <1>h DEF TypeOK
<1>i. ASSUME caller' \in [Caller -> CallerPoint],
             UNCHANGED <<submission, inhand, budget, flags, input, output, threads>>
      PROVE  TypeOK'
  BY <1>0, <1>i DEF TypeOK
<1>j. caller \in [Caller -> CallerPoint] /\ inhand \in [Caller -> Nat]
  BY <1>0 DEF TypeOK
<1>k. /\ gpc \in GenPoint /\ work \in Seq(Item) /\ output \in Seq(Entry)
      /\ Len(output) <= QueueLimit
  BY <1>0 DEF TypeOK
<1>1. ASSUME NEW shape \in PlanShapes, SubmitEnter(shape) PROVE TypeOK'
  <2>1. shape \in Seq(Kind)
    BY PipelineAssumption
  <2>2. offer' \in Seq(Item) /\ issued' \in Nat
    BY <1>0, <1>1, <2>1, LenProperties, ElementOfSeq, SeqDef DEF TypeOK, SubmitEnter, Item, Kind
  <2> QED
    BY <1>0, <1>1, <2>2 DEF TypeOK, SubmitEnter, Move
<1>2. CASE SubmitPut
  <2>1. Len(input) < QueueLimit =>
          /\ Append(input, offer) \in Seq(Seq(Item))
          /\ Len(Append(input, offer)) <= QueueLimit
    BY <1>0, AppendProperties, LenProperties, PipelineAssumption DEF TypeOK
  <2>2. input' \in Seq(Seq(Item)) /\ Len(input') <= QueueLimit
    BY <1>0, <1>2, <2>1 DEF TypeOK, SubmitPut
  <2>3. caller' \in [Caller -> CallerPoint]
    BY <1>2, <1>j DEF SubmitPut, Move
  <2>4. offer' = <<>> /\ admission' = "free"
    BY <1>2 DEF SubmitPut
  <2>5. UNCHANGED <<issued, inhand, budget, flags, output, threads>>
    BY <1>2 DEF SubmitPut
  <2> QED
    BY <1>0, <1>e, <2>2, <2>3, <2>4, <2>5 DEF TypeOK
<1>3. CASE \E n \in Limits : SetAudioLimit(n)
  BY <1>0, <1>3 DEF TypeOK, SetAudioLimit
<1>4. ASSUME NEW t \in Caller, CancelFlag(t) PROVE TypeOK'
  <2>1. caller' \in [Caller -> CallerPoint]
    BY <1>4, <1>j DEF CancelFlag, Move
  <2>2. accepting' = FALSE /\ cancelled' = TRUE /\ cutoff' \in Nat
    BY <1>0, <1>4, <1>e DEF TypeOK, CancelFlag
  <2>3. UNCHANGED <<submission, inhand, finished, budget, input, output, synthesis, playback>>
    BY <1>4 DEF CancelFlag
  <2> QED
    BY <1>0, <2>1, <2>2, <2>3 DEF TypeOK
<1>5. ASSUME NEW t \in Caller, DiscardInput(t) PROVE TypeOK'
  <2>1. caller' \in [Caller -> CallerPoint]
    BY <1>0, <1>5 DEF TypeOK, DiscardInput, Move, AfterInput
  <2>2. input' \in Seq(Seq(Item)) /\ Len(input') <= QueueLimit
    BY <1>0, <1>5, <1>c DEF TypeOK, DiscardInput
  <2> QED
    BY <1>0, <1>5, <2>1, <2>2 DEF TypeOK, DiscardInput
<1>6. ASSUME NEW t \in Caller, DiscardOutput(t) PROVE TypeOK'
  <2>1. output # <<>> /\ output' = Tail(output)
    BY <1>6 DEF DiscardOutput
  <2>2. caller' \in [Caller -> CallerPoint]
    BY <1>0, <1>6 DEF TypeOK, DiscardOutput, Move
  <2>3. Head(output).bytes \in Nat
    BY <2>1, <1>d DEF Entry
  <2>4. inhand' \in [Caller -> Nat]
    BY <1>0, <1>6, <2>3 DEF TypeOK, DiscardOutput
  <2> QED
    BY <1>0, <1>6, <1>d, <2>1, <2>2, <2>4 DEF TypeOK, DiscardOutput
<1>7. ASSUME NEW t \in Caller, DiscardRelease(t) PROVE TypeOK'
  <2>1. held' \in Nat
    BY <1>7, <1>a DEF DiscardRelease
  <2> QED
    BY <1>0, <1>7, <2>1 DEF TypeOK, DiscardRelease, Move
<1>8. ASSUME NEW t \in Caller, DiscardDone(t) PROVE TypeOK'
  <2>1. caller' \in [Caller -> CallerPoint]
    BY <1>8, <1>j DEF DiscardDone, Move, AfterDiscard
  <2> QED
    BY <1>8, <1>i, <2>1 DEF DiscardDone
<1>9. CASE Join
  <2>1. caller' \in [Caller -> CallerPoint]
    BY <1>9, <1>j DEF Join, Move
  <2> QED
    BY <1>9, <1>i, <2>1 DEF Join
<1>19. CASE JoinReturn
  <2>1. caller' \in [Caller -> CallerPoint]
    BY <1>19, <1>j DEF JoinReturn, Move
  <2> QED
    BY <1>19, <1>i, <2>1 DEF JoinReturn
<1>10. CASE GenStart \/ GenLoop \/ GenEnd
  <2>1. gpc' \in GenPoint
    BY <1>10 DEF GenStart, GenLoop, GenEnd
  <2>2. UNCHANGED <<work, reserved, budget, input, output>> /\ GenOnly
    BY <1>10 DEF GenStart, GenLoop, GenEnd
  <2> QED
    BY <1>a, <1>k, <1>h, <2>1, <2>2 DEF GenOnly
<1>20. CASE GenFinish
  <2>1. gpc' = "done" /\ finished' = TRUE
    BY <1>20 DEF GenFinish
  <2>2. UNCHANGED <<work, reserved, accepting, cancelled, submission, calls, budget,
                    input, output, playback, cutoff>>
    BY <1>20 DEF GenFinish
  <2> QED
    BY <1>0, <2>1, <2>2 DEF TypeOK
<1>11. CASE GenGet
  BY <1>0, <1>11, <1>c DEF TypeOK, GenGet, GenOnly, TakePlan
<1>12. CASE GenItem \/ GenReady \/ GenCheck \/ GenSend
  <2>1. gpc' \in GenPoint /\ work' \in Seq(Item)
    BY <1>0, <1>12, <1>b, <1>e, <1>f
      DEF TypeOK, GenItem, GenReady, GenCheck, GenSend, NextItem, Break, Sent
  <2> QED
    BY <1>0, <1>12, <2>1, <1>h DEF TypeOK, GenItem, GenReady, GenCheck, GenSend, GenOnly
<1>13. CASE GenReserve \/ GenSynthesize \/ GenPutTest
  <2>1. held' \in Nat /\ reserved' \in Nat
    BY <1>13, <1>a, <1>g DEF GenReserve, GenSynthesize, GenPutTest, Refund
  <2>2. gpc' \in GenPoint /\ work' \in Seq(Item)
    BY <1>0, <1>13, <1>b, <1>e, <1>f
      DEF TypeOK, GenReserve, GenSynthesize, GenPutTest, NextItem, Break
  <2> QED
    BY <1>0, <1>13, <2>1, <2>2, <1>h
      DEF TypeOK, GenReserve, GenSynthesize, GenPutTest, GenOnly
<1>14. CASE GenPut
  <2>1. gpc' \in GenPoint /\ work' \in Seq(Item)
    BY <1>0, <1>14, <1>b, <1>f DEF TypeOK, GenPut, NextItem
  <2>2. reserved' \in Nat /\ held' = held
    BY <1>14, <1>a DEF GenPut
  <2>3. output' \in Seq(Entry) /\ Len(output') <= QueueLimit
    <3> DEFINE e == [kind |-> Head(work).kind, no |-> Head(work).no, bytes |-> reserved]
    <3>1. Head(work) \in Item /\ Head(work).kind \in {"say", "sound"} /\ reserved \in Nat
      BY <1>14, <1>a, <1>b DEF IInv, AtHand, GenPut
    <3>2. e \in Entry
      BY <3>1 DEF Item, Entry
    <3>3. CASE OutputRoom
      <4>1. output' = Append(output, e)
        BY <1>14, <3>3 DEF GenPut
      <4> HIDE DEF e
      <4>2. /\ Append(output, e) \in Seq(Entry) /\ Len(Append(output, e)) = Len(output) + 1
            /\ Len(output) \in Nat
        BY <1>0, <3>2, AppendProperties, LenProperties DEF TypeOK
      <4> QED
        BY <3>3, <4>1, <4>2, PipelineAssumption DEF OutputRoom
    <3>4. CASE ~OutputRoom
      BY <1>0, <1>14, <3>4 DEF TypeOK, GenPut
    <3> QED
      BY <3>3, <3>4
  <2> QED
    BY <1>14, <1>a, <2>1, <2>2, <2>3, <1>h DEF GenPut, GenOnly
<1>15. CASE PlayLoop \/ PlayRecheck
  <2>1. ppc' \in PlayPoint /\ spoken' \in Nat
    BY <1>0, <1>15, <1>e DEF TypeOK, PlayLoop, PlayRecheck, LoopTest
  <2>2. PlayOnly /\ UNCHANGED <<playing, budget, output>>
    BY <1>15 DEF PlayLoop, PlayRecheck
  <2> QED
    BY <1>0, <2>1, <2>2 DEF TypeOK, PlayOnly
<1>16. CASE PlayGet
  <2>1. ppc' \in PlayPoint
    BY <1>16 DEF PlayGet
  <2>2. playing' \in Entry /\ output' \in Seq(Entry) /\ Len(output') <= QueueLimit
    BY <1>0, <1>16, <1>d DEF TypeOK, PlayGet
  <2>3. PlayOnly /\ UNCHANGED <<spoken, budget>>
    BY <1>16 DEF PlayGet
  <2> QED
    BY <1>0, <2>1, <2>2, <2>3 DEF TypeOK, PlayOnly
<1>17. CASE PlayRelease
  <2>1. held' \in Nat
    BY <1>17, <1>a DEF PlayRelease, ReleaseClip
  <2>2. playing' = Nothing /\ ppc' \in PlayPoint
    BY <1>17 DEF PlayRelease
  <2>3. PlayOnly /\ UNCHANGED <<spoken, limit, peak, output>>
    BY <1>17 DEF PlayRelease
  <2> QED
    BY <1>0, <1>e, <2>1, <2>2, <2>3 DEF TypeOK, PlayOnly
<1>18. CASE UNCHANGED vars
  BY <1>0, <1>18 DEF TypeOK
<1> QED
  BY <1>1, <1>2, <1>3, <1>4, <1>5, <1>6, <1>7, <1>8, <1>9, <1>10, <1>11, <1>12, <1>13,
    <1>14, <1>15, <1>16, <1>17, <1>18, <1>19, <1>20
    DEF Next, OutsideCall, Discard, Generation, Playback

\* The PCM that leaves one hand is taken by another or given back.
LEMMA BalancedStep == IInv /\ [Next]_vars => Balanced'
<1> SUFFICES ASSUME IInv, [Next]_vars PROVE Balanced'
  OBVIOUS
<1> USE DEF vars, budget, submission, calls, flags, synthesis, playback, threads
<1>a. /\ held \in Nat /\ limit \in Nat /\ peak \in Nat /\ Queued \in Nat
      /\ reserved \in Nat /\ playing.bytes \in Nat
      /\ inhand["control"] \in Nat /\ inhand["gui"] \in Nat
      /\ inhand["generation"] \in Nat
  BY Shares DEF Caller
<1>b. held <= peak /\ limit <= peak /\ Ledger(output, Queued)
  BY DEF IInv, Balanced
<1>c. inhand \in [Caller -> Nat] /\ caller \in [Caller -> CallerPoint] /\ Limits \subseteq Nat
  BY PipelineAssumption DEF IInv, TypeOK
<1>d. /\ gpc = "reserve" => reserved = 0
      /\ \A t \in Caller : caller[t] # "release" => inhand[t] = 0
      /\ ppc = "get" => playing.bytes = 0
  BY DEF IInv, EmptyHanded, Nothing
<1>e. output \in Seq(Entry) /\ work \in Seq(Item)
  BY DEF IInv, TypeOK
<1>f. output # <<>> => Head(output) \in Entry /\ Head(output).bytes \in Nat
  <2>1. output # <<>> => Head(output) \in Entry
    BY <1>e, HeadTailProperties
  <2> QED
    BY <2>1 DEF Entry
<1>g. ClipCapacity \in Nat
  BY <1>a, <1>c, PipelineAssumption DEF ClipCapacity
<1>h. ASSUME output' = output, Queued' = Queued, held' <= peak', limit' <= peak'
      PROVE  Balanced'
  BY <1>a, <1>b, <1>h DEF Balanced
<1>1. CASE \E n \in Limits : SetAudioLimit(n)
  <2>1. Queued' = Queued
    BY <1>1 DEF SetAudioLimit, Queued, InHands
  <2> QED
    BY <1>1, <2>1, <1>a, <1>b, <1>c, <1>h DEF SetAudioLimit
<1>2. ASSUME NEW t \in Caller, DiscardOutput(t) PROVE Balanced'
  <2>1. output # <<>> /\ output' = Tail(output) /\ inhand[t] = 0
    BY <1>2, <1>d DEF DiscardOutput, Move
  <2>2. inhand' = [inhand EXCEPT ![t] = Head(output).bytes]
    BY <1>2 DEF DiscardOutput
  <2>3. inhand'["control"] + inhand'["gui"] + inhand'["generation"] =
          inhand["control"] + inhand["gui"] + inhand["generation"] + Head(output).bytes
    BY <2>1, <2>2, <1>a, <1>c, <1>f DEF Caller
  <2>4. inhand'["control"] \in Nat /\ inhand'["gui"] \in Nat /\ inhand'["generation"] \in Nat
    BY <2>1, <2>2, <1>c, <1>f DEF Caller
  <2>5. reserved' = reserved /\ playing' = playing /\ held' = held
    BY <1>2 DEF DiscardOutput
  <2>6. Head(output).bytes \in Nat
    BY <2>1, <1>f
  <2>7. Queued' = Queued - Head(output).bytes
    BY <2>3, <2>4, <2>5, <2>6, <1>a DEF Queued, InHands
  <2>8. /\ Queued - Head(output).bytes \in Nat
        /\ Ledger(Tail(output), Queued - Head(output).bytes)
    BY <2>1, <2>6, <1>a, <1>b, <1>e, LedgerTail
  <2>9. held' = held /\ limit' = limit /\ peak' = peak
    BY <1>2 DEF DiscardOutput
  <2> QED
    BY <2>1, <2>7, <2>8, <2>9, <1>b DEF Balanced
<1>3. ASSUME NEW t \in Caller, DiscardRelease(t) PROVE Balanced'
  <2>1. inhand' = [inhand EXCEPT ![t] = 0] /\ held' = held - inhand[t]
    BY <1>3 DEF DiscardRelease
  <2>2. /\ inhand'["control"] + inhand'["gui"] + inhand'["generation"] =
             inhand["control"] + inhand["gui"] + inhand["generation"] - inhand[t]
        /\ inhand[t] \in Nat
    BY <2>1, <1>a, <1>c DEF Caller
  <2>3. inhand'["control"] \in Nat /\ inhand'["gui"] \in Nat /\ inhand'["generation"] \in Nat
    BY <2>1, <1>c DEF Caller
  <2>4. reserved' = reserved /\ playing' = playing
    BY <1>3 DEF DiscardRelease
  <2>5. InHands' = InHands - inhand[t] /\ InHands \in Nat
    <3>1. DEFINE others == inhand["control"] + inhand["gui"] + inhand["generation"]
    <3>2. others \in Nat /\ others' \in Nat
      BY <2>3, <1>a
    <3>3. InHands = reserved + playing.bytes + others /\ InHands \in Nat
      BY <3>2, <1>a DEF InHands
    <3>4. InHands' = reserved + playing.bytes + others'
      BY <2>3, <2>4, <1>a DEF InHands
    <3> HIDE DEF others
    <3>5. others' = others - inhand[t] /\ inhand[t] \in Nat
      BY <2>2, <2>3, <1>a DEF others
    <3> QED
      BY <3>2, <3>3, <3>4, <3>5, <1>a
  <2>6. Queued' = Queued
    BY <2>1, <2>2, <2>5, <1>a DEF Queued
  <2> QED
    BY <1>3, <2>2, <2>6, <1>a, <1>b, <1>h DEF DiscardRelease
<1>4. CASE \/ \E shape \in PlanShapes : SubmitEnter(shape)
           \/ SubmitPut \/ Join \/ JoinReturn
           \/ \E t \in Caller : CancelFlag(t) \/ DiscardInput(t) \/ DiscardDone(t)
  <2>1. Queued' = Queued
    BY <1>4 DEF SubmitEnter, SubmitPut, Join, JoinReturn, CancelFlag, DiscardInput,
      DiscardDone, Queued, InHands
  <2> QED
    BY <1>4, <2>1, <1>b, <1>h DEF SubmitEnter, SubmitPut, Join, JoinReturn, CancelFlag,
      DiscardInput, DiscardDone
<1>5. CASE GenReserve
  <2>1. \/ held' = held /\ reserved' = reserved
        \/ /\ held' = held + ClipCapacity /\ reserved' = ClipCapacity /\ reserved = 0
           /\ held' <= limit
    BY <1>5, <1>d DEF GenReserve, RoomForClip
  <2>2. inhand' = inhand /\ playing' = playing /\ limit' = limit /\ peak' = peak
    BY <1>5 DEF GenReserve, GenOnly
  <2>3. Queued' = Queued /\ held' <= peak
    BY <2>1, <2>2, <1>a, <1>b, <1>g DEF Queued, InHands
  <2> QED
    BY <1>5, <2>2, <2>3, <1>b, <1>h DEF GenReserve
<1>6. CASE GenSynthesize \/ GenPutTest
  <2>1. \/ held' = held /\ reserved' = reserved
        \/ \E n \in 0..reserved : held' = held - (reserved - n) /\ reserved' = n
    BY <1>6, <1>a DEF GenSynthesize, GenPutTest, Refund
  <2>2. inhand' = inhand /\ playing' = playing /\ limit' = limit /\ peak' = peak
    BY <1>6 DEF GenSynthesize, GenPutTest, GenOnly
  <2>3. Queued' = Queued /\ held' <= peak
    BY <2>1, <2>2, <1>a, <1>b DEF Queued, InHands
  <2> QED
    BY <1>6, <2>2, <2>3, <1>b, <1>h DEF GenSynthesize, GenPutTest
<1>7. CASE GenPut
  <2>1. inhand' = inhand /\ playing' = playing /\ held' = held /\ limit' = limit /\ peak' = peak
    BY <1>7 DEF GenPut, GenOnly
  <2>2. CASE ~OutputRoom
    <3>1. output' = output /\ reserved' = reserved
      BY <1>7, <2>2 DEF GenPut
    <3> QED
      BY <2>1, <3>1, <1>b, <1>h DEF Queued, InHands
  <2>3. CASE OutputRoom
    <3> DEFINE e == [kind |-> Head(work).kind, no |-> Head(work).no, bytes |-> reserved]
    <3>1. work # <<>> /\ Head(work).kind \in {"say", "sound"}
      BY <1>7 DEF GenPut, IInv, AtHand
    <3>2. Head(work) \in Item
      BY <3>1, <1>e, HeadTailProperties
    <3>3. e \in Entry /\ e.bytes = reserved
      BY <3>1, <3>2, <1>a DEF Item, Entry
    <3>4. output' = Append(output, e) /\ reserved' = 0
      BY <1>7, <2>3 DEF GenPut
    <3> HIDE DEF e
    <3>5. Queued' = Queued + reserved
      BY SMTT(60), <2>1, <3>4, <1>a DEF Queued, InHands
    <3>6. Ledger(output', Queued') /\ Queued' \in Nat
      BY <3>3, <3>4, <3>5, <1>a, <1>b, <1>e, LedgerAppend
    <3> QED
      BY <2>1, <3>6, <1>b DEF Balanced
  <2> QED
    BY <2>2, <2>3
<1>8. CASE GenStart \/ GenLoop \/ GenGet \/ GenItem \/ GenReady \/ GenCheck \/ GenSend
           \/ GenEnd \/ GenFinish
  <2>1. Queued' = Queued
    BY <1>8 DEF GenStart, GenLoop, GenGet, GenItem, GenReady, GenCheck, GenSend, GenEnd,
      GenFinish, GenOnly, Queued, InHands
  <2> QED
    BY <1>8, <2>1, <1>b, <1>h DEF GenStart, GenLoop, GenGet, GenItem, GenReady, GenCheck,
      GenSend, GenEnd, GenFinish
<1>9. CASE PlayGet
  <2>1. inhand' = inhand /\ reserved' = reserved /\ held' = held /\ limit' = limit /\ peak' = peak
    BY <1>9 DEF PlayGet, PlayOnly
  <2>2. CASE output = <<>>
    <3>1. output' = output /\ playing' = playing
      BY <1>9, <2>2 DEF PlayGet
    <3> QED
      BY <2>1, <3>1, <1>b, <1>h DEF Queued, InHands
  <2>3. CASE output # <<>>
    <3>1. playing' = Head(output) /\ output' = Tail(output) /\ playing.bytes = 0
      BY <1>9, <2>3, <1>d DEF PlayGet
    <3>2. Queued' = Queued - Head(output).bytes
      BY SMTT(60), <2>1, <2>3, <3>1, <1>a, <1>f DEF Queued, InHands
    <3>3. /\ Queued - Head(output).bytes \in Nat
          /\ Ledger(Tail(output), Queued - Head(output).bytes)
      BY <2>3, <1>a, <1>b, <1>e, <1>f, LedgerTail
    <3> QED
      BY <2>1, <3>1, <3>2, <3>3, <1>b DEF Balanced
  <2> QED
    BY <2>2, <2>3
<1>10. CASE PlayRelease
  <2>1. held' = held - playing.bytes /\ playing'.bytes = 0
    BY <1>10 DEF PlayRelease, ReleaseClip, Nothing
  <2>2. inhand' = inhand /\ reserved' = reserved /\ limit' = limit /\ peak' = peak
    BY <1>10 DEF PlayRelease, PlayOnly
  <2>3. Queued' = Queued
    BY <2>1, <2>2, <1>a DEF Queued, InHands
  <2> QED
    BY <1>10, <2>1, <2>2, <2>3, <1>a, <1>b, <1>h DEF PlayRelease
<1>11. CASE PlayLoop \/ PlayRecheck
  <2>1. Queued' = Queued
    BY <1>11 DEF PlayLoop, PlayRecheck, PlayOnly, Queued, InHands
  <2> QED
    BY <1>11, <2>1, <1>b, <1>h DEF PlayLoop, PlayRecheck
<1>12. CASE UNCHANGED vars
  BY <1>12, <1>b, <1>h DEF Queued, InHands
<1> QED
  BY <1>1, <1>2, <1>3, <1>4, <1>5, <1>6, <1>7, <1>8, <1>9, <1>10, <1>11, <1>12
    DEF Next, OutsideCall, Discard, Generation, Playback

\* Synthesis keeps the item that its point calls for.
LEMMA AtHandStep == IInv /\ [Next]_vars => AtHand'
<1> SUFFICES ASSUME IInv, [Next]_vars PROVE AtHand'
  OBVIOUS
<1> USE DEF IInv, AtHand, TypeOK, vars, budget, submission, calls, flags, synthesis,
  playback, threads
<1>1. CASE OutsideCall
  BY <1>1 DEF OutsideCall, Discard, SubmitEnter, SubmitPut, SetAudioLimit, CancelFlag,
    DiscardInput, DiscardOutput, DiscardRelease, DiscardDone, Join, JoinReturn, Move,
    Unlocked, AfterInput, AfterDiscard
<1>2. CASE GenItem
  BY <1>2 DEF GenItem, GenOnly, NextItem, Break
<1>3. CASE GenReady
  BY <1>3 DEF GenReady, GenOnly, NextItem
<1>4. CASE GenCheck
  BY <1>4 DEF GenCheck, GenOnly, Break
<1>5. CASE GenSend
  BY <1>5 DEF GenSend, GenOnly, Sent, NextItem
<1>6. CASE GenReserve
  BY <1>6 DEF GenReserve, GenOnly, Break, RoomForClip, ClipCapacity
<1>7. CASE GenSynthesize
  BY <1>7 DEF GenSynthesize, GenOnly, NextItem, Refund
<1>8. CASE GenPutTest
  BY <1>8 DEF GenPutTest, GenOnly, NextItem, Refund
<1>9. CASE GenPut
  BY <1>9 DEF GenPut, GenOnly, OutputRoom, NextItem
<1>10. CASE GenStart \/ GenLoop \/ GenGet \/ GenEnd \/ GenFinish
  BY <1>10 DEF GenStart, GenLoop, GenGet, GenEnd, GenFinish, GenOnly, TakePlan,
    PlaybackJoined
<1>11. CASE Playback
  BY <1>11 DEF Playback, PlayLoop, PlayGet, PlayRecheck, PlayRelease, LoopTest,
    PlayOnly, CancelledAgain, ReleaseClip
<1>12. CASE UNCHANGED vars
  BY <1>12
<1> QED
  BY <1>1, <1>2, <1>3, <1>4, <1>5, <1>6, <1>7, <1>8, <1>9, <1>10, <1>11, <1>12 DEF Next,
    OutsideCall, Discard, Generation, Playback

\* PCM is held only where it will be released.
LEMMA EmptyHandedStep == IInv /\ [Next]_vars => EmptyHanded'
<1> SUFFICES ASSUME IInv, [Next]_vars PROVE EmptyHanded'
  OBVIOUS
<1> USE DEF IInv, AtHand, EmptyHanded, TypeOK, Nothing, vars, budget, submission, calls,
  flags, synthesis, playback, threads
<1>1. ASSUME NEW t \in Caller, DiscardOutput(t) PROVE EmptyHanded'
  <2>1. SoundsFree(Tail(output)) /\ (Head(output).kind # "say" => Head(output).bytes = 0)
    BY <1>1, SoundsFreeTail DEF DiscardOutput
  <2>2. \A u \in Caller : caller'[u] # "release" => inhand'[u] = 0
    BY <1>1, <2>1 DEF DiscardOutput, Move
  <2> QED
    BY <1>1, <2>1, <2>2 DEF DiscardOutput
<1>2. ASSUME NEW t \in Caller, DiscardRelease(t) PROVE EmptyHanded'
  BY <1>2 DEF DiscardRelease, Move
<1>3. CASE \/ \E shape \in PlanShapes : SubmitEnter(shape)
           \/ SubmitPut
           \/ \E n \in Limits : SetAudioLimit(n)
           \/ \E t \in Caller : CancelFlag(t)
           \/ \E t \in Caller : DiscardInput(t)
           \/ \E t \in Caller : DiscardDone(t)
           \/ Join
           \/ JoinReturn
  BY <1>3 DEF SubmitEnter, SubmitPut, SetAudioLimit, CancelFlag, DiscardInput,
    DiscardDone, Join, JoinReturn, Move, Unlocked, AfterInput, AfterDiscard
<1>4. CASE GenReserve
  BY <1>4 DEF GenReserve, GenOnly, Break, RoomForClip, ClipCapacity
<1>5. CASE GenSynthesize
  BY <1>5 DEF GenSynthesize, GenOnly, NextItem, Refund
<1>6. CASE GenPutTest
  BY <1>6 DEF GenPutTest, GenOnly, NextItem, Refund
<1>7. CASE GenPut
  <2>1. CASE ~OutputRoom
    BY <1>7, <2>1 DEF GenPut, GenOnly, OutputRoom
  <2>2. CASE OutputRoom
    <3> DEFINE e == [kind |-> Head(work).kind, no |-> Head(work).no, bytes |-> reserved]
    <3>1. output' = Append(output, e) /\ reserved' = 0 /\ gpc' = "item"
      BY <1>7, <2>2 DEF GenPut, NextItem
    <3>2. Head(work) \in Item /\ Head(work).kind \in {"say", "sound"}
      BY <1>7, HeadTailProperties DEF GenPut
    <3>3. e \in Entry /\ (e.kind # "say" => e.bytes = 0)
      BY <1>7, <3>2 DEF GenPut, Item, Entry
    <3> HIDE DEF e
    <3>4. SoundsFree(output')
      BY <3>1, <3>3, SoundsFreeAppend
    <3> QED
      BY <1>7, <3>1, <3>4 DEF GenPut, GenOnly
  <2> QED
    BY <1>7, <2>1, <2>2 DEF GenPut
<1>8. CASE GenStart \/ GenLoop \/ GenGet \/ GenItem \/ GenReady \/ GenCheck \/ GenSend
  \/ GenEnd \/ GenFinish
  BY <1>8 DEF GenStart, GenLoop, GenGet, GenItem, GenReady, GenCheck, GenSend, GenEnd,
    GenFinish, GenOnly, TakePlan, NextItem, Break, Sent, PlaybackJoined
<1>9. CASE PlayGet
  <2>1. output # <<>> => SoundsFree(Tail(output))
    BY SoundsFreeTail
  <2> QED
    BY <1>9, <2>1 DEF PlayGet, PlayOnly
<1>10. CASE PlayRelease
  BY <1>10 DEF PlayRelease, PlayOnly, ReleaseClip
<1>11. CASE PlayLoop \/ PlayRecheck
  BY <1>11 DEF PlayLoop, PlayRecheck, LoopTest, PlayOnly, CancelledAgain
<1>12. CASE UNCHANGED vars
  BY <1>12
<1> QED
  BY <1>1, <1>2, <1>3, <1>4, <1>5, <1>6, <1>7, <1>8, <1>9, <1>10, <1>11, <1>12 DEF Next,
    OutsideCall, Discard, Generation, Playback

\* Plans are put only while the pipeline accepts them.
LEMMA AdmissionStep == IInv /\ [Next]_vars => Admission'
<1> SUFFICES ASSUME IInv, [Next]_vars PROVE Admission'
  OBVIOUS
<1> USE DEF IInv, Admission, TypeOK, Caller, vars, budget, submission, calls, flags,
  synthesis, playback, threads
<1>1. ASSUME NEW shape \in PlanShapes, SubmitEnter(shape) PROVE Admission'
  BY <1>1 DEF SubmitEnter, Move, Unlocked
<1>2. CASE SubmitPut
  BY <1>2 DEF SubmitPut, Move
<1>3. ASSUME NEW n \in Limits, SetAudioLimit(n) PROVE Admission'
  BY <1>3 DEF SetAudioLimit
<1>4. ASSUME NEW t \in Caller, CancelFlag(t) PROVE Admission'
  BY <1>4 DEF CancelFlag, Move, Unlocked
<1>5. ASSUME NEW t \in Caller, DiscardInput(t) PROVE Admission'
  BY <1>5 DEF DiscardInput, Move, AfterInput
<1>6. ASSUME NEW t \in Caller, DiscardOutput(t) PROVE Admission'
  BY <1>6 DEF DiscardOutput, Move
<1>7. ASSUME NEW t \in Caller, DiscardRelease(t) PROVE Admission'
  BY <1>7 DEF DiscardRelease, Move
<1>8. ASSUME NEW t \in Caller, DiscardDone(t) PROVE Admission'
  BY <1>8 DEF DiscardDone, Move, AfterDiscard
<1>9. CASE Join
  BY <1>9 DEF Join, Move
<1>10. CASE JoinReturn
  BY <1>10 DEF JoinReturn, Move
<1>11. CASE Generation
  BY SMTT(60), <1>11 DEF Generation, GenStart, GenLoop, GenGet, GenItem, GenReady, GenCheck,
    GenSend, GenReserve, GenSynthesize, GenPutTest, GenPut, GenEnd, GenFinish, GenOnly,
    TakePlan, NextItem, Break, Sent, RoomForClip, ClipCapacity, Refund, OutputRoom,
    PlaybackJoined
<1>12. CASE Playback
  BY <1>12 DEF Playback, PlayLoop, PlayGet, PlayRecheck, PlayRelease, LoopTest,
    PlayOnly, CancelledAgain, ReleaseClip
<1>13. CASE UNCHANGED vars
  BY <1>13
<1> QED
  BY <1>1, <1>2, <1>3, <1>4, <1>5, <1>6, <1>7, <1>8, <1>9, <1>10, <1>11, <1>12, <1>13
    DEF Next, OutsideCall, Discard, Generation, Playback

\* A put never follows the discarding.
LEMMA NoPlanStrandedStep == IInv /\ [Next]_vars => NoPlanStranded'
<1> SUFFICES ASSUME IInv, [Next]_vars PROVE NoPlanStranded'
  OBVIOUS
<1> USE DEF IInv, NoPlanStranded, Admission, TypeOK, Caller, vars, budget, submission,
  calls, flags, synthesis, playback, threads
<1>1. CASE OutsideCall
  <2>1. ASSUME NEW shape \in PlanShapes, SubmitEnter(shape) PROVE NoPlanStranded'
    BY <2>1 DEF SubmitEnter, Move, Unlocked
  <2>2. CASE SubmitPut
    BY <2>2 DEF SubmitPut, Move
  <2>3. ASSUME NEW n \in Limits, SetAudioLimit(n) PROVE NoPlanStranded'
    BY <2>3 DEF SetAudioLimit
  <2>4. ASSUME NEW t \in Caller, CancelFlag(t) PROVE NoPlanStranded'
    BY <2>4 DEF CancelFlag, Move, Unlocked
  <2>5. ASSUME NEW t \in Caller, DiscardInput(t) PROVE NoPlanStranded'
    BY <2>5 DEF DiscardInput, Move, AfterInput
  <2>6. ASSUME NEW t \in Caller, DiscardOutput(t) PROVE NoPlanStranded'
    BY <2>6 DEF DiscardOutput, Move
  <2>7. ASSUME NEW t \in Caller, DiscardRelease(t) PROVE NoPlanStranded'
    BY <2>7 DEF DiscardRelease, Move
  <2>8. ASSUME NEW t \in Caller, DiscardDone(t) PROVE NoPlanStranded'
    BY <2>8 DEF DiscardDone, Move, AfterDiscard
  <2>9. CASE Join \/ JoinReturn
    BY <2>9 DEF Join, JoinReturn, Move
  <2> QED
    BY <1>1, <2>1, <2>2, <2>3, <2>4, <2>5, <2>6, <2>7, <2>8, <2>9 DEF OutsideCall, Discard
<1>2. CASE Generation
  BY <1>2 DEF Generation, GenStart, GenLoop, GenGet, GenItem, GenReady, GenCheck,
    GenSend, GenReserve, GenSynthesize, GenPutTest, GenPut, GenEnd, GenFinish, GenOnly,
    TakePlan, NextItem, Break, Sent, RoomForClip, ClipCapacity, Refund, OutputRoom,
    PlaybackJoined
<1>3. CASE Playback
  BY <1>3 DEF Playback, PlayLoop, PlayGet, PlayRecheck, PlayRelease, LoopTest, PlayOnly,
    CancelledAgain, ReleaseClip
<1>4. CASE UNCHANGED vars
  BY <1>4
<1> QED
  BY <1>1, <1>2, <1>3, <1>4 DEF Next, OutsideCall, Discard, Generation, Playback

\* One put at most follows the discarding.
LEMMA ResidueStep == IInv /\ [Next]_vars => Residue'
<1> SUFFICES ASSUME IInv, [Next]_vars PROVE Residue'
  OBVIOUS
<1> USE DEF IInv, Residue, Admission, TypeOK, Caller, vars, budget, submission, calls,
  flags, synthesis, playback, threads
<1>1. ASSUME NEW shape \in PlanShapes, SubmitEnter(shape) PROVE Residue'
  BY <1>1 DEF SubmitEnter, Move, Unlocked
<1>2. CASE SubmitPut
  BY <1>2 DEF SubmitPut, Move
<1>3. ASSUME NEW n \in Limits, SetAudioLimit(n) PROVE Residue'
  BY <1>3 DEF SetAudioLimit
<1>4. ASSUME NEW t \in Caller, CancelFlag(t) PROVE Residue'
  BY <1>4 DEF CancelFlag, Move, Unlocked
<1>5. ASSUME NEW t \in Caller, DiscardInput(t) PROVE Residue'
  BY <1>5 DEF DiscardInput, Move, AfterInput
<1>6. ASSUME NEW t \in Caller, DiscardOutput(t) PROVE Residue'
  BY <1>6 DEF DiscardOutput, Move
<1>7. ASSUME NEW t \in Caller, DiscardRelease(t) PROVE Residue'
  BY <1>7 DEF DiscardRelease, Move
<1>8. ASSUME NEW t \in Caller, DiscardDone(t) PROVE Residue'
  BY <1>8 DEF DiscardDone, Move, AfterDiscard
<1>9. CASE Join
  BY <1>9 DEF Join, Move
<1>10. CASE JoinReturn
  BY <1>10 DEF JoinReturn, Move
<1>11. CASE GenPutTest
  BY <1>11 DEF GenPutTest, GenOnly, NextItem, Refund
<1>12. CASE GenPut
  BY <1>12 DEF GenPut, GenOnly, OutputRoom, NextItem
<1>13. CASE GenStart \/ GenLoop \/ GenGet \/ GenItem \/ GenReady \/ GenCheck \/ GenSend
  \/ GenReserve \/ GenSynthesize \/ GenEnd \/ GenFinish
  BY <1>13 DEF GenStart, GenLoop, GenGet, GenItem, GenReady, GenCheck, GenSend,
    GenReserve, GenSynthesize, GenEnd, GenFinish, GenOnly, TakePlan, NextItem, Break,
    Sent, RoomForClip, ClipCapacity, Refund, PlaybackJoined
<1>14. CASE PlayGet
  BY <1>14 DEF PlayGet, PlayOnly
<1>15. CASE PlayLoop \/ PlayRecheck \/ PlayRelease
  BY <1>15 DEF PlayLoop, PlayRecheck, PlayRelease, LoopTest, PlayOnly, CancelledAgain,
    ReleaseClip
<1>16. CASE UNCHANGED vars
  BY <1>16
<1> QED
  BY <1>1, <1>2, <1>3, <1>4, <1>5, <1>6, <1>7, <1>8, <1>9, <1>10, <1>11, <1>12, <1>13,
    <1>14, <1>15, <1>16 DEF Next, OutsideCall, Discard, Generation, Playback

\* Synthesis ends after playback.
LEMMA EndingStep == IInv /\ [Next]_vars => Ending'
<1> SUFFICES ASSUME IInv, [Next]_vars PROVE Ending'
  OBVIOUS
<1> USE DEF IInv, Ending, TypeOK, vars, budget, submission, calls, flags, synthesis,
  playback, threads
<1>1. CASE OutsideCall
  BY <1>1 DEF OutsideCall, Discard, SubmitEnter, SubmitPut, SetAudioLimit, CancelFlag,
    DiscardInput, DiscardOutput, DiscardRelease, DiscardDone, Join, JoinReturn, Move,
    Unlocked, AfterInput, AfterDiscard
<1>2. CASE Generation
  BY <1>2 DEF Generation, GenStart, GenLoop, GenGet, GenItem, GenReady, GenCheck,
    GenSend, GenReserve, GenSynthesize, GenPutTest, GenPut, GenEnd, GenFinish, GenOnly,
    TakePlan, NextItem, Break, Sent, RoomForClip, ClipCapacity, Refund, OutputRoom,
    PlaybackJoined
<1>3. CASE Playback
  BY <1>3 DEF Playback, PlayLoop, PlayGet, PlayRecheck, PlayRelease, LoopTest, PlayOnly,
    CancelledAgain, ReleaseClip
<1>4. CASE UNCHANGED vars
  BY <1>4
<1> QED
  BY <1>1, <1>2, <1>3, <1>4 DEF Next, OutsideCall, Discard, Generation, Playback

\* Nothing new goes on the air after a cancel.
LEMMA CancelSilencesQueueStep == IInv /\ [Next]_vars => CancelSilencesQueue'
<1> SUFFICES ASSUME IInv, [Next]_vars PROVE CancelSilencesQueue'
  OBVIOUS
<1> USE DEF IInv, CancelSilencesQueue, TypeOK, Nothing, vars, budget, submission, calls,
  flags, synthesis, playback, threads
<1>1. CASE OutsideCall
  BY <1>1 DEF OutsideCall, Discard, SubmitEnter, SubmitPut, SetAudioLimit, CancelFlag,
    DiscardInput, DiscardOutput, DiscardRelease, DiscardDone, Join, JoinReturn, Move,
    Unlocked, AfterInput, AfterDiscard
<1>2. CASE Generation
  BY <1>2 DEF Generation, GenStart, GenLoop, GenGet, GenItem, GenReady, GenCheck,
    GenSend, GenReserve, GenSynthesize, GenPutTest, GenPut, GenEnd, GenFinish, GenOnly,
    TakePlan, NextItem, Break, Sent, RoomForClip, ClipCapacity, Refund, OutputRoom,
    PlaybackJoined
<1>3. CASE Playback
  BY <1>3 DEF Playback, PlayLoop, PlayGet, PlayRecheck, PlayRelease, LoopTest, PlayOnly,
    CancelledAgain, ReleaseClip
<1>4. CASE UNCHANGED vars
  BY <1>4
<1> QED
  BY <1>1, <1>2, <1>3, <1>4 DEF Next, OutsideCall, Discard, Generation, Playback

-----------------------------------------------------------------------------
(***************************************************************************)
(* The invariant holds throughout, and with it the properties.             *)
(***************************************************************************)

\* A new pipeline satisfies the invariant.
LEMMA InitIInv == Init => IInv
<1> SUFFICES ASSUME Init PROVE IInv
  OBVIOUS
<1>1. TypeOK
  <2>1. /\ <<>> \in Seq(Item) /\ <<>> \in Seq(Seq(Item)) /\ <<>> \in Seq(Entry)
        /\ Len(<<>>) = 0 /\ 0 <= QueueLimit /\ Nothing \in Entry
    BY PipelineAssumption DEF Nothing, Entry
  <2>2. /\ offer \in Seq(Item) /\ work \in Seq(Item)
        /\ input \in Seq(Seq(Item)) /\ Len(input) <= QueueLimit
        /\ output \in Seq(Entry) /\ Len(output) <= QueueLimit /\ playing \in Entry
    BY <2>1 DEF Init
  <2>3. caller \in [Caller -> CallerPoint] /\ inhand \in [Caller -> Nat]
    BY DEF Init, CallerPoint
  <2> QED
    BY <2>2, <2>3 DEF Init, TypeOK, GenPoint, PlayPoint
<1>2. Queued = 0
  BY DEF Init, Queued, InHands, Nothing, Caller
<1>3. Balanced
  <2>1. held <= peak /\ limit <= peak
    BY <1>1, PipelineAssumption DEF Init, TypeOK
  <2> QED
    BY <1>2, <2>1, LedgerEmpty DEF Init, Balanced
<1>4. SoundsFree(output)
  BY DEF Init, SoundsFree
<1>5. AtHand /\ EmptyHanded /\ Admission
  BY <1>4 DEF Init, AtHand, EmptyHanded, Admission, Caller
<1>6. NoPlanStranded /\ Residue /\ Ending /\ CancelSilencesQueue
  BY DEF Init, NoPlanStranded, Residue, Ending, CancelSilencesQueue
<1> QED
  BY <1>1, <1>3, <1>5, <1>6 DEF IInv

\* Every step keeps it.
LEMMA NextIInv == IInv /\ [Next]_vars => IInv'
BY TypeOKStep, BalancedStep, AtHandStep, EmptyHandedStep, AdmissionStep,
   NoPlanStrandedStep, ResidueStep, EndingStep, CancelSilencesQueueStep DEF IInv

\* The invariant holds in every state of the pipeline.
THEOREM Invariance == Spec => []IInv
BY InitIInv, NextIInv, PTL DEF Spec

\* Every variable has its type, and both queues keep to their limit.
THEOREM TypeCorrect == Spec => []TypeOK
<1>1. IInv => TypeOK
  BY DEF IInv
<1> QED
  BY <1>1, Invariance, PTL

\* The PCM the budget holds is accounted for to the last unit, through every
\* error, cancel and full queue (AudioBudget.reserve and release).
THEOREM BudgetIsConserved == Spec => []BudgetConserved
<1>1. ASSUME IInv PROVE BudgetConserved
  <2>1. /\ Queued \in Nat /\ held \in Nat /\ Len(output) \in Nat
        /\ reserved \in Nat /\ playing.bytes \in Nat
        /\ inhand["control"] \in Nat /\ inhand["gui"] \in Nat
        /\ inhand["generation"] \in Nat
    BY <1>1, Shares, LenProperties DEF IInv, TypeOK, Caller
  <2>2. held = InHands + Queued /\ Queued <= held
    BY SMTT(60), <2>1 DEF Queued, InHands
  <2>3. PICK sum \in [0..Len(output) -> 0..Queued] :
          /\ sum[0] = 0 /\ sum[Len(output)] = Queued
          /\ \A i \in 1..Len(output) : sum[i] = sum[i - 1] + output[i].bytes
    BY <1>1 DEF IInv, Balanced, Ledger
  <2>4. sum \in [0..Len(output) -> 0..held]
    BY <2>1, <2>2, <2>3
  <2> QED
    BY <2>2, <2>3, <2>4 DEF BudgetConserved
<1> QED
  BY <1>1, Invariance, PTL

\* Whatever the settings do to the limit, no more PCM is held than the
\* largest limit that was in force.
THEOREM NeverAbovePeak == Spec => []HeldWithinPeak
<1>1. IInv => HeldWithinPeak
  BY DEF IInv, Balanced, HeldWithinPeak
<1> QED
  BY <1>1, Invariance, PTL

\* The budget counts what is held, and keeps to the largest limit that was
\* ever in force (core/speech/budget.py:18-33).
THEOREM BudgetIsSafe == Spec => []BudgetSafe
BY BudgetIsConserved, NeverAbovePeak, PTL DEF BudgetSafe

\* A plan that submit accepted is never left in _input after a cancel.
THEOREM PlansAreTaken == Spec => []NoPlanStranded
<1>1. IInv => NoPlanStranded
  BY DEF IInv
<1> QED
  BY <1>1, Invariance, PTL

\* Only the entry whose put raced with the discarding can stay in _output.
THEOREM OneEntryAtMost == Spec => []OneEntryStranded
<1>1. ASSUME IInv PROVE OneEntryStranded
  <2>1. Len(output) \in Nat
    BY <1>1, LenProperties DEF IInv, TypeOK
  <2> QED
    BY <1>1, <2>1 DEF IInv, Residue, OneEntryStranded
<1> QED
  BY <1>1, Invariance, PTL

\* A cancel leaves nothing behind but that one entry
\* (core/speech/pipeline.py:104-150).
THEOREM NothingIsStranded == Spec => []NothingStranded
BY PlansAreTaken, OneEntryAtMost, PTL DEF NothingStranded

\* After cancel only the clip already on the air is heard.
THEOREM CancelSilences == Spec => []CancelSilencesQueue
<1>1. IInv => CancelSilencesQueue
  BY DEF IInv
<1> QED
  BY <1>1, Invariance, PTL

\* When the finished event is set, neither thread will touch the engine, the
\* audio output or the budget again.
THEOREM FinishedIsQuiet == Spec => []FinishedQuiet
<1>1. IInv => FinishedQuiet
  BY DEF IInv, Ending, EmptyHanded, FinishedQuiet
<1> QED
  BY <1>1, Invariance, PTL

\* The pipeline falls silent after a cancel, and rests when it has finished.
THEOREM EndsAreQuiet == Spec => []EndsQuietly
<1>1. CancelSilencesQueue /\ FinishedQuiet <=> EndsQuietly
  BY DEF EndsQuietly
<1> QED
  BY <1>1, CancelSilences, FinishedIsQuiet, PTL

\* A reservation is granted only within the limit then in force.
THEOREM GrantsFitLimit == Spec => ReservedWithinLimit
<1>1. ASSUME IInv, [Next]_vars PROVE reserved' > reserved => held' <= limit
  <2>1. reserved \in Nat
    BY <1>1, Shares
  <2>2. CASE GenReserve
    BY <2>1, <2>2 DEF GenReserve, RoomForClip
  <2>3. CASE GenSynthesize \/ GenPutTest \/ GenPut
    BY <2>1, <2>3 DEF GenSynthesize, GenPutTest, GenPut, Refund
  <2>4. CASE OutsideCall \/ Playback \/ UNCHANGED vars
    BY <2>1, <2>4 DEF OutsideCall, SubmitEnter, SubmitPut, SetAudioLimit, CancelFlag,
      Discard, DiscardInput, DiscardOutput, DiscardRelease, DiscardDone, Join, JoinReturn,
      Playback, PlayLoop, PlayGet, PlayRecheck, PlayRelease, PlayOnly,
      vars, threads, synthesis
  <2>5. CASE GenStart \/ GenLoop \/ GenGet \/ GenItem \/ GenReady \/ GenCheck
             \/ GenSend \/ GenEnd \/ GenFinish
    BY <2>1, <2>5 DEF GenStart, GenLoop, GenGet, GenItem, GenReady, GenCheck, GenSend,
      GenEnd, GenFinish
  <2> QED
    BY <1>1, <2>2, <2>3, <2>4, <2>5 DEF Next, Generation
<1> QED
  BY <1>1, Invariance, PTL DEF Spec, ReservedWithinLimit

-----------------------------------------------------------------------------
(***************************************************************************)
(* The inductive invariant: the serial numbers ascend from the air through *)
(* playback, _output, synthesis and _input to the plan being submitted.    *)
(***************************************************************************)
Below(A, B) == \A m \in A, n \in B : m < n

Ascending(s) == \A i, j \in DOMAIN s : i < j => s[i].no < s[j].no

PlansAscending(queue) ==
  /\ \A i \in DOMAIN queue : Ascending(queue[i])
  /\ \A i, j \in DOMAIN queue : i < j => Below(Numbers(queue[i]), Numbers(queue[j]))

\* The last item playback has taken, and the last one that was accepted.
Reached == IF ppc = "recheck" THEN playing.no ELSE spoken
Accepted == issued - Len(offer)

\* A plan is offered with the numbers that follow the accepted ones.
Numbered ==
  /\ issued <= MaxItems /\ Accepted \in Nat
  /\ offer # <<>> <=> caller["control"] = "submit"
  /\ \A i \in DOMAIN offer : offer[i].no = Accepted + i

\* What playback took follows what was on the air before.
Heard ==
  /\ Reached <= Accepted
  /\ ppc = "recheck" => spoken < playing.no
  /\ ppc = "onair" => spoken = playing.no /\ 0 < spoken

Queues ==
  /\ Ascending(output) /\ Ascending(work) /\ PlansAscending(input)
  /\ Below(Numbers(output), Numbers(work))
  /\ Below(Numbers(output), PlanNumbers(input))
  /\ Below(Numbers(work), PlanNumbers(input))
  /\ Numbers(output) \cup Numbers(work) \cup PlanNumbers(input) \subseteq Reached + 1 .. Accepted

Order == Numbered /\ Heard /\ Queues

-----------------------------------------------------------------------------
(***************************************************************************)
(* Queues seen as the sets of the numbers in them.                         *)
(***************************************************************************)

\* Nothing is in an empty queue.
LEMMA NumbersEmpty ==
  Numbers(<<>>) = {} /\ PlanNumbers(<<>>) = {} /\ Ascending(<<>>) /\ PlansAscending(<<>>)
BY DEF Numbers, PlanNumbers, Ascending, PlansAscending

\* The numbers of items, of entries and of plans are natural numbers.
LEMMA NumbersAreNat ==
  ASSUME NEW T, NEW s \in Seq(T), \A e \in T : e.no \in Nat
  PROVE  Numbers(s) \subseteq Nat
BY ElementOfSeq, LenProperties DEF Numbers

\* A get takes the first number; in an ascending queue, the least one.
LEMMA NumbersTail ==
  ASSUME NEW T, NEW s \in Seq(T), s # <<>>
  PROVE  /\ Numbers(s) = {Head(s).no} \cup Numbers(Tail(s))
         /\ Ascending(s) => Ascending(Tail(s)) /\ Below({Head(s).no}, Numbers(Tail(s)))
<1> DEFINE n == Len(s)
<1>1. /\ n \in Nat \ {0} /\ DOMAIN s = 1..n /\ Head(s) = s[1]
      /\ DOMAIN Tail(s) = 1..n - 1
      /\ \A i \in 1..n - 1 : Tail(s)[i] = s[i + 1]
  BY HeadTailProperties, LenProperties, EmptySeq
<1> HIDE DEF n
<1>2. \A i \in 1..n : i = 1 \/ (i - 1 \in 1..n - 1 /\ s[i] = Tail(s)[i - 1])
  BY <1>1
<1>3. \A i \in 1..n - 1 : i + 1 \in 1..n /\ 1 \in 1..n /\ 1 < i + 1
  BY <1>1
<1>4. Numbers(s) = {Head(s).no} \cup Numbers(Tail(s))
  <2>1. \A i \in 1..n : s[i].no \in {Head(s).no} \cup Numbers(Tail(s))
    BY <1>1, <1>2 DEF Numbers
  <2>2. Head(s).no \in Numbers(s)
    BY <1>1 DEF Numbers
  <2>3. \A i \in 1..n - 1 : Tail(s)[i].no \in Numbers(s)
    BY <1>1, <1>3 DEF Numbers
  <2> QED
    BY <1>1, <2>1, <2>2, <2>3 DEF Numbers
<1>5. ASSUME Ascending(s)
      PROVE  Ascending(Tail(s)) /\ Below({Head(s).no}, Numbers(Tail(s)))
  <2>1. \A i, j \in 1..n : i < j => s[i].no < s[j].no
    BY <1>1, <1>5 DEF Ascending
  <2>2. Below({Head(s).no}, Numbers(Tail(s)))
    BY <1>1, <1>3, <2>1 DEF Below, Numbers
  <2>3. \A i, j \in 1..n - 1 : i < j => i + 1 < j + 1
    BY <1>1
  <2>4. Ascending(Tail(s))
    BY <1>1, <1>3, <2>1, <2>3 DEF Ascending
  <2> QED
    BY <2>2, <2>4
<1> QED
  BY <1>4, <1>5

\* A put adds a number; one above all others keeps the queue ascending.
LEMMA NumbersAppend ==
  ASSUME NEW T, NEW s \in Seq(T), NEW e \in T
  PROVE  /\ Numbers(Append(s, e)) = Numbers(s) \cup {e.no}
         /\ Ascending(s) /\ Below(Numbers(s), {e.no}) => Ascending(Append(s, e))
<1> DEFINE n == Len(s)
           longer == Append(s, e)
<1>1. /\ n \in Nat /\ DOMAIN s = 1..n /\ DOMAIN longer = 1..n + 1
      /\ \A i \in 1..n : longer[i] = s[i]
      /\ longer[n + 1] = e
  BY AppendProperties, LenProperties
<1> HIDE DEF n, longer
<1>2. \A i \in 1..n + 1 : i = n + 1 \/ i \in 1..n
  BY <1>1
<1>3. \A i \in 1..n : i \in 1..n + 1 /\ i < n + 1
  BY <1>1
<1>4. n + 1 \in 1..n + 1
  BY <1>1
<1>5. Numbers(longer) = Numbers(s) \cup {e.no}
  BY <1>1, <1>2, <1>3, <1>4 DEF Numbers
<1>6. ASSUME Ascending(s), Below(Numbers(s), {e.no}), NEW i \in 1..n + 1, NEW j \in 1..n + 1, i < j
      PROVE  longer[i].no < longer[j].no
  <2>1. i \in 1..n
    BY <1>1, <1>6
  <2>2. CASE j \in 1..n
    BY <1>1, <1>6, <2>1, <2>2 DEF Ascending
  <2>3. CASE j = n + 1
    BY <1>1, <1>6, <2>1, <2>3 DEF Below, Numbers
  <2> QED
    BY <1>2, <2>2, <2>3
<1>7. Ascending(s) /\ Below(Numbers(s), {e.no}) => Ascending(longer)
  BY <1>1, <1>6 DEF Ascending
<1> QED
  BY <1>5, <1>7 DEF longer

\* Numbers given one after the other make an interval.
LEMMA NumbersFollow ==
  ASSUME NEW T, NEW s \in Seq(T), NEW low \in Nat, NEW high \in Nat, low = high - Len(s),
         \A i \in DOMAIN s : s[i].no = low + i
  PROVE  Numbers(s) = low + 1 .. high
<1> DEFINE n == Len(s)
<1>1. n \in Nat /\ DOMAIN s = 1..n /\ high = low + n
  BY LenProperties
<1> HIDE DEF n
<1> DEFINE interval == low + 1 .. high
<1>2. \A i \in 1..n : s[i].no \in interval
  <2> TAKE i \in 1..n
  <2>1. i \in Int /\ 1 <= i /\ i <= n
    BY <1>1
  <2>2. low + i \in interval
    BY <1>1, <2>1
  <2>3. s[i].no = low + i
    BY <1>1
  <2> QED
    BY <2>2, <2>3
<1>3. \A m \in interval : m - low \in 1..n /\ low + (m - low) = m
  <2> TAKE m \in interval
  <2>1. m \in Int /\ low + 1 <= m /\ m <= low + n
    BY <1>1
  <2>2. m - low \in 1..n
    BY <1>1, <2>1
  <2>3. low + (m - low) = m
    BY <2>1
  <2> QED
    BY <2>2, <2>3
<1> HIDE DEF interval
<1>4. \A m \in interval : \E i \in 1..n : m = s[i].no
  <2> TAKE m \in interval
  <2>1. m - low \in 1..n /\ s[m - low].no = low + (m - low)
    BY <1>1, <1>3
  <2>2. s[m - low].no = m
    BY <1>3, <2>1
  <2> DEFINE k == m - low
  <2>3. k \in 1..n /\ m = s[k].no
    BY <2>1, <2>2
  <2> HIDE DEF k
  <2> QED
    BY <2>3
<1>5. Numbers(s) = interval
  BY <1>1, <1>2, <1>4 DEF Numbers
<1> QED
  BY <1>5 DEF interval

\* A plan taken off the queue comes before the plans left in it.
LEMMA PlansTail ==
  ASSUME NEW T, NEW queue \in Seq(T), queue # <<>>
  PROVE  /\ PlanNumbers(queue) = Numbers(Head(queue)) \cup PlanNumbers(Tail(queue))
         /\ PlansAscending(queue) =>
              /\ PlansAscending(Tail(queue)) /\ Ascending(Head(queue))
              /\ Below(Numbers(Head(queue)), PlanNumbers(Tail(queue)))
<1> DEFINE n == Len(queue)
           rest == Tail(queue)
<1>1. /\ n \in Nat \ {0} /\ DOMAIN queue = 1..n /\ Head(queue) = queue[1]
      /\ DOMAIN rest = 1..n - 1
      /\ \A i \in 1..n - 1 : rest[i] = queue[i + 1]
  BY HeadTailProperties, LenProperties, EmptySeq
<1> HIDE DEF n, rest
<1>2. \A i \in 1..n : i = 1 \/ (i - 1 \in 1..n - 1 /\ queue[i] = rest[i - 1])
  BY <1>1
<1>3. \A i \in 1..n - 1 : i + 1 \in 1..n /\ 1 \in 1..n /\ 1 < i + 1
  BY <1>1
<1>4. 1 \in 1..n
  BY <1>1
<1>5. PlanNumbers(queue) = Numbers(Head(queue)) \cup PlanNumbers(rest)
  BY <1>1, <1>2, <1>3, <1>4 DEF PlanNumbers
<1>6. ASSUME PlansAscending(queue)
      PROVE  /\ PlansAscending(rest) /\ Ascending(Head(queue))
             /\ Below(Numbers(Head(queue)), PlanNumbers(rest))
  <2>1. /\ \A i \in 1..n : Ascending(queue[i])
        /\ \A i, j \in 1..n : i < j => Below(Numbers(queue[i]), Numbers(queue[j]))
    BY <1>1, <1>6 DEF PlansAscending
  <2>2. \A i \in 1..n - 1 : Below(Numbers(Head(queue)), Numbers(rest[i]))
    BY <1>1, <1>3, <2>1
  <2>3. Below(Numbers(Head(queue)), PlanNumbers(rest))
    BY <1>1, <2>2 DEF Below, PlanNumbers
  <2>4. \A i, j \in 1..n - 1 : i < j => i + 1 < j + 1
    BY <1>1
  <2>5. PlansAscending(rest)
    BY <1>1, <1>3, <2>1, <2>4 DEF PlansAscending
  <2> QED
    BY <1>1, <1>4, <2>1, <2>3, <2>5
<1> QED
  BY <1>5, <1>6 DEF rest

\* A plan whose numbers are above all others may be added at the end.
LEMMA PlansAppend ==
  ASSUME NEW T, NEW queue \in Seq(T), NEW plan \in T
  PROVE  /\ PlanNumbers(Append(queue, plan)) = PlanNumbers(queue) \cup Numbers(plan)
         /\ PlansAscending(queue) /\ Ascending(plan) /\ Below(PlanNumbers(queue), Numbers(plan))
              => PlansAscending(Append(queue, plan))
<1> DEFINE n == Len(queue)
           longer == Append(queue, plan)
<1>1. /\ n \in Nat /\ DOMAIN queue = 1..n /\ DOMAIN longer = 1..n + 1
      /\ \A i \in 1..n : longer[i] = queue[i]
      /\ longer[n + 1] = plan
  BY AppendProperties, LenProperties
<1> HIDE DEF n, longer
<1>2. \A i \in 1..n + 1 : i = n + 1 \/ i \in 1..n
  BY <1>1
<1>3. \A i \in 1..n : i \in 1..n + 1 /\ i < n + 1
  BY <1>1
<1>4. n + 1 \in 1..n + 1
  BY <1>1
<1>5. PlanNumbers(longer) = PlanNumbers(queue) \cup Numbers(plan)
  BY <1>1, <1>2, <1>3, <1>4 DEF PlanNumbers
<1>6. ASSUME PlansAscending(queue), Ascending(plan), Below(PlanNumbers(queue), Numbers(plan))
      PROVE  PlansAscending(longer)
  <2>1. \A i \in 1..n + 1 : Ascending(longer[i])
    BY <1>1, <1>2, <1>6 DEF PlansAscending
  <2>2. \A i \in 1..n : Below(Numbers(queue[i]), Numbers(plan))
    BY <1>1, <1>6 DEF Below, PlanNumbers
  <2>3. ASSUME NEW i \in 1..n + 1, NEW j \in 1..n + 1, i < j
        PROVE  Below(Numbers(longer[i]), Numbers(longer[j]))
    <3>1. i \in 1..n
      BY <1>1, <2>3
    <3>2. CASE j \in 1..n
      BY <1>1, <1>6, <2>3, <3>1, <3>2 DEF PlansAscending
    <3>3. CASE j = n + 1
      BY <1>1, <2>2, <3>1, <3>3
    <3> QED
      BY <1>2, <3>2, <3>3
  <2> QED
    BY <1>1, <2>1, <2>3 DEF PlansAscending
<1> QED
  BY <1>5, <1>6 DEF longer

-----------------------------------------------------------------------------
(***************************************************************************)
(* The invariant is inductive.                                             *)
(***************************************************************************)

\* What the numbers are.
LEMMA OrderTypes ==
  ASSUME IInv, Order
  PROVE  /\ issued \in Nat /\ Len(offer) \in Nat /\ Accepted \in Nat /\ MaxItems \in Nat
         /\ Accepted = issued - Len(offer)
         /\ spoken \in Nat /\ playing.no \in Nat /\ Reached \in Nat
         /\ output \in Seq(Entry) /\ work \in Seq(Item) /\ input \in Seq(Seq(Item))
         /\ offer \in Seq(Item) /\ caller \in [Caller -> CallerPoint]
<1>1. TypeOK
  BY DEF IInv
<1>2. playing.no \in Nat
  BY <1>1 DEF TypeOK, Entry
<1> QED
  BY <1>1, <1>2, LenProperties, PipelineAssumption DEF TypeOK, Order, Numbered, Accepted, Reached

\* A step that does not submit leaves the numbers that are accepted.
LEMMA NumberedStep == IInv /\ Order /\ [Next]_vars => Numbered' /\ Accepted <= Accepted'
<1> SUFFICES ASSUME IInv, Order, [Next]_vars PROVE Numbered' /\ Accepted <= Accepted'
  OBVIOUS
<1> USE DEF vars, budget, submission, calls, flags, synthesis, playback, threads
<1>a. Numbered
  BY DEF Order
<1>b. /\ issued \in Nat /\ Len(offer) \in Nat /\ Accepted \in Nat /\ offer \in Seq(Item)
      /\ Accepted = issued - Len(offer) /\ caller \in [Caller -> CallerPoint]
  BY OrderTypes
<1>c. Len(<<>>) = 0 /\ DOMAIN <<>> = {}
  OBVIOUS
<1>1. ASSUME NEW shape \in PlanShapes, SubmitEnter(shape) PROVE Numbered' /\ Accepted <= Accepted'
  <2>1. offer = <<>> /\ Accepted = issued
    BY <1>a, <1>b, <1>c, <1>1 DEF Numbered, SubmitEnter, Move
  <2>2. Len(shape) \in Nat /\ DOMAIN shape = 1..Len(shape) /\ Len(shape) # 0
    BY <1>1, LenProperties, EmptySeq, PipelineAssumption DEF SubmitEnter
  <2>3. /\ DOMAIN offer' = 1..Len(shape) /\ Len(offer') = Len(shape)
        /\ \A i \in 1..Len(shape) : offer'[i].no = issued + i
        /\ issued' = issued + Len(shape) /\ issued' <= MaxItems
    BY <1>1, <2>2 DEF SubmitEnter
  <2>4. Accepted' = issued /\ offer' # <<>>
    BY <1>b, <1>c, <2>2, <2>3 DEF Accepted
  <2>5. caller'["control"] = "submit"
    BY <1>1, <1>b DEF SubmitEnter, Move, Caller
  <2> QED
    BY <1>b, <2>1, <2>3, <2>4, <2>5 DEF Numbered
<1>2. CASE SubmitPut
  <2>1. offer' = <<>> /\ issued' = issued
    BY <1>2 DEF SubmitPut
  <2>2. caller'["control"] = "idle"
    BY <1>2, <1>b DEF SubmitPut, Move, Caller
  <2>3. Accepted' = issued
    BY <1>b, <1>c, <2>1 DEF Accepted
  <2> QED
    BY <1>a, <1>b, <1>c, <2>1, <2>2, <2>3 DEF Numbered
<1>3. ASSUME UNCHANGED <<issued, offer>>,
             caller'["control"] = "submit" <=> caller["control"] = "submit"
      PROVE  Numbered' /\ Accepted <= Accepted'
  BY <1>a, <1>b, <1>3 DEF Numbered, Accepted
<1>4. CASE \E n \in Limits : SetAudioLimit(n)
  BY <1>3, <1>4 DEF SetAudioLimit
<1>5. ASSUME NEW t \in Caller, CancelFlag(t) \/ Discard(t) PROVE Numbered' /\ Accepted <= Accepted'
  BY <1>b, <1>3, <1>5 DEF CancelFlag, Discard, DiscardInput, DiscardOutput, DiscardRelease,
    DiscardDone, AfterInput, AfterDiscard, Move, Caller
<1>6. CASE Join \/ JoinReturn
  BY <1>b, <1>3, <1>6 DEF Join, JoinReturn, Move, Caller
<1>7. CASE Generation
  <2>1. UNCHANGED <<submission, calls>>
    BY <1>7 DEF Generation, GenStart, GenLoop, GenGet, GenItem, GenReady, GenCheck, GenSend,
      GenReserve, GenSynthesize, GenPutTest, GenPut, GenEnd, GenFinish, GenOnly
  <2> QED
    BY <1>3, <2>1
<1>8. CASE Playback
  BY <1>3, <1>8 DEF Playback, PlayLoop, PlayGet, PlayRecheck, PlayRelease, PlayOnly
<1>9. CASE UNCHANGED vars
  BY <1>3, <1>9
<1> QED
  BY <1>1, <1>2, <1>4, <1>5, <1>6, <1>7, <1>8, <1>9 DEF Next, OutsideCall

\* Playback takes the next number, and it alone moves the order on.
LEMMA HeardStep == IInv /\ Order /\ [Next]_vars => Heard'
<1> SUFFICES ASSUME IInv, Order, [Next]_vars PROVE Heard'
  OBVIOUS
<1> USE DEF vars, budget, submission, calls, flags, synthesis, playback, threads
<1>a. /\ Accepted \in Nat /\ Reached \in Nat /\ spoken \in Nat /\ playing.no \in Nat
      /\ output \in Seq(Entry)
  BY OrderTypes
<1>b. Accepted' \in Nat /\ Accepted <= Accepted'
  BY NumberedStep DEF Numbered
<1>c. Heard /\ Numbers(output) \subseteq Reached + 1 .. Accepted
  BY DEF Order, Queues
<1>1. CASE PlayGet /\ output # <<>>
  <2>1. ppc' = "recheck" /\ playing' = Head(output) /\ spoken' = spoken /\ ppc = "get"
    BY <1>1 DEF PlayGet, PlayOnly
  <2>2. Head(output).no \in Reached + 1 .. Accepted
    BY <1>a, <1>c, <1>1, NumbersTail
  <2>3. Reached' = Head(output).no /\ Reached = spoken
    BY <2>1 DEF Reached
  <2> QED
    BY <1>a, <1>b, <2>1, <2>2, <2>3 DEF Heard
<1>2. CASE PlayRecheck
  BY <1>a, <1>b, <1>c, <1>2 DEF Heard, Reached, PlayRecheck, PlayOnly
<1>3. CASE PlayLoop \/ PlayRelease \/ (PlayGet /\ output = <<>>)
  BY <1>a, <1>b, <1>c, <1>3 DEF Heard, Reached, PlayLoop, PlayRelease, PlayGet, PlayOnly, LoopTest
<1>4. ASSUME UNCHANGED playback PROVE Heard'
  BY <1>a, <1>b, <1>c, <1>4 DEF Heard, Reached
<1>5. CASE OutsideCall
  BY <1>4, <1>5 DEF OutsideCall, Discard, SubmitEnter, SubmitPut, SetAudioLimit, CancelFlag,
    DiscardInput, DiscardOutput, DiscardRelease, DiscardDone, Join, JoinReturn
<1>6. CASE Generation
  <2>1. UNCHANGED playback
    BY <1>6 DEF Generation, GenStart, GenLoop, GenGet, GenItem, GenReady, GenCheck, GenSend,
      GenReserve, GenSynthesize, GenPutTest, GenPut, GenEnd, GenFinish, GenOnly
  <2> QED
    BY <1>4, <2>1
<1>7. CASE UNCHANGED vars
  BY <1>4, <1>7
<1> QED
  BY <1>1, <1>2, <1>3, <1>5, <1>6, <1>7 DEF Next, Playback

\* Whatever synthesis does with its plan, it keeps the rest of it or nothing.
LEMMA PlanShrinks ==
  ASSUME IInv, Order, Generation, ~GenGet
  PROVE  /\ Ascending(work') /\ Numbers(work') \subseteq Numbers(work) /\ input' = input
         /\ ~GenPut => output' = output
<1> USE DEF synthesis, budget
<1>1. /\ work # <<>> => /\ Numbers(work) = {Head(work).no} \cup Numbers(Tail(work))
                        /\ Ascending(Tail(work))
      /\ Ascending(work) /\ Numbers(<<>>) = {} /\ Ascending(<<>>)
  BY OrderTypes, NumbersTail, NumbersEmpty DEF Order, Queues
<1>2. gpc \in {"ready", "check", "reserve", "send", "synthesize", "put", "putting"} => work # <<>>
  BY DEF IInv, AtHand
<1>3. work' = work \/ work' = <<>> \/ (work # <<>> /\ work' = Tail(work))
  BY <1>2 DEF Generation, GenStart, GenLoop, GenItem, GenReady, GenCheck, GenSend, GenReserve,
    GenSynthesize, GenPutTest, GenPut, GenEnd, GenFinish, NextItem, Break, Sent
<1>4. input' = input /\ (~GenPut => output' = output)
  BY DEF Generation, GenStart, GenLoop, GenItem, GenReady, GenCheck, GenSend, GenReserve,
    GenSynthesize, GenPutTest, GenPut, GenEnd, GenFinish
<1> QED
  BY <1>1, <1>3, <1>4

\* The three queues stay in order, and in order with one another.
LEMMA QueuesStep == IInv /\ Order /\ [Next]_vars => Queues'
<1> SUFFICES ASSUME IInv, Order, [Next]_vars PROVE Queues'
  OBVIOUS
<1> USE DEF vars, budget, submission, calls, flags, synthesis, playback, threads
<1> DEFINE O == Numbers(output)
           W == Numbers(work)
           P == PlanNumbers(input)
<1>a. /\ Accepted \in Nat /\ Reached \in Nat /\ spoken \in Nat /\ playing.no \in Nat
      /\ issued \in Nat /\ Len(offer) \in Nat /\ Accepted = issued - Len(offer)
      /\ output \in Seq(Entry) /\ work \in Seq(Item) /\ input \in Seq(Seq(Item))
      /\ offer \in Seq(Item)
  BY OrderTypes
<1>b. Accepted' \in Nat /\ Accepted <= Accepted'
  BY NumberedStep DEF Numbered
<1>c. /\ Ascending(output) /\ Ascending(work) /\ PlansAscending(input)
      /\ Below(O, W) /\ Below(O, P) /\ Below(W, P)
      /\ O \cup W \cup P \subseteq Reached + 1 .. Accepted
  BY DEF Order, Queues
<1>d. O \cup W \cup P \subseteq Nat
  BY <1>a, <1>c
<1> HIDE DEF O, W, P
\* Steps that only take something away.
<1>e. ASSUME Ascending(output'), Ascending(work'), PlansAscending(input'),
             O' \subseteq O, W' \subseteq W, P' \subseteq P,
             Reached' \in Nat, Reached' <= Reached
      PROVE  Queues'
  <2>1. Below(O', W') /\ Below(O', P') /\ Below(W', P')
    BY <1>c, <1>e DEF Below
  <2>2. O' \cup W' \cup P' \subseteq Reached' + 1 .. Accepted'
    BY <1>a, <1>b, <1>c, <1>e
  <2> QED
    BY <1>e, <2>1, <2>2 DEF Queues, O, W, P
<1>f. ASSUME UNCHANGED <<output, work, input, playback>> PROVE Queues'
  BY <1>a, <1>c, <1>e, <1>f DEF Reached, O, W, P
<1>g. UNCHANGED playback => Reached' = Reached
  BY DEF Reached
<1>1. CASE SubmitPut /\ Len(input) < QueueLimit
  <2>1. /\ input' = Append(input, offer) /\ offer' = <<>> /\ Accepted' = issued
        /\ UNCHANGED <<output, work, playback, issued>>
    BY <1>1, <1>a DEF SubmitPut, Accepted
  <2>2. /\ DOMAIN offer = 1..Len(offer)
        /\ \A i \in 1..Len(offer) : offer[i].no = Accepted + i
    BY <1>a, LenProperties DEF Order, Numbered
  <2>3. Numbers(offer) \subseteq Accepted + 1 .. issued
    BY <1>a, <2>2 DEF Numbers
  <2>4. Ascending(offer)
    BY <1>a, <2>2 DEF Ascending
  <2>5. \A m \in O \cup W \cup P, n \in Numbers(offer) : m < n
    BY <1>a, <1>c, <2>3
  <2>6. PlansAscending(input') /\ P' = P \cup Numbers(offer)
    BY <1>a, <1>c, <2>1, <2>4, <2>5, PlansAppend DEF Below, P
  <2>7. Below(O, P') /\ Below(W, P')
    BY <1>c, <2>5, <2>6 DEF Below
  <2>8. O \cup W \cup P' \subseteq Reached + 1 .. Accepted'
    <3>1. Reached <= Accepted /\ Accepted <= issued
      BY <1>a DEF Order, Heard
    <3>2. Numbers(offer) \subseteq Reached + 1 .. issued
      BY <1>a, <2>3, <3>1
    <3>3. O \cup W \cup P \subseteq Reached + 1 .. issued
      BY <1>a, <1>c, <3>1
    <3> QED
      BY <2>1, <2>6, <3>2, <3>3
  <2> QED
    BY <1>c, <1>g, <2>1, <2>6, <2>7, <2>8 DEF Queues, O, W, P
<1>2. CASE GenGet /\ input # <<>>
  <2>1. work' = Head(input) /\ input' = Tail(input) /\ UNCHANGED <<output, playback>>
    BY <1>2 DEF GenGet, TakePlan, GenOnly
  <2>2. P = W' \cup P'
    BY <1>a, <1>2, <2>1, PlansTail DEF P, W
  <2>3. Ascending(work') /\ PlansAscending(input') /\ Below(W', P')
    BY <1>a, <1>c, <1>2, <2>1, PlansTail DEF P, W
  <2>4. Below(O, W') /\ Below(O, P')
    BY <1>c, <2>2 DEF Below
  <2>5. O \cup W' \cup P' \subseteq Reached + 1 .. Accepted'
    BY <1>a, <1>b, <1>c, <2>2
  <2> QED
    BY <1>c, <1>g, <2>1, <2>3, <2>4, <2>5 DEF Queues, O, W, P
<1>3. CASE GenPut /\ OutputRoom
  <2> DEFINE e == [kind |-> Head(work).kind, no |-> Head(work).no, bytes |-> reserved]
  <2>1. /\ work # <<>> /\ Head(work) \in Item /\ Head(work).kind \in {"say", "sound"}
        /\ reserved \in Nat
    BY <1>a, <1>3, HeadTailProperties DEF IInv, AtHand, TypeOK, GenPut
  <2>2. e \in Entry /\ e.no = Head(work).no
    BY <2>1 DEF Entry, Item
  <2>3. output' = Append(output, e) /\ work' = Tail(work) /\ UNCHANGED <<input, playback>>
    BY <1>3 DEF GenPut, GenOnly, NextItem
  <2> HIDE DEF e
  <2>4. W = {e.no} \cup W' /\ Ascending(work') /\ Below({e.no}, W')
    BY <1>a, <1>c, <2>1, <2>2, <2>3, NumbersTail DEF W
  <2>5. Below(O, {e.no})
    BY <1>c, <2>4 DEF Below
  <2>6. O' = O \cup {e.no} /\ Ascending(output')
    <3>1. /\ Numbers(Append(output, e)) = Numbers(output) \cup {e.no}
          /\ Ascending(output) /\ Below(Numbers(output), {e.no}) => Ascending(Append(output, e))
      BY <1>a, <2>2, NumbersAppend
    <3> QED
      BY <1>c, <2>3, <2>5, <3>1 DEF O
  <2>7. Below(O', W') /\ Below(O', P) /\ Below(W', P)
    BY <1>c, <2>4, <2>6 DEF Below
  <2>8. O' \cup W' \cup P \subseteq Reached + 1 .. Accepted'
    BY <1>a, <1>b, <1>c, <2>4, <2>6
  <2> QED
    BY <1>c, <1>g, <2>3, <2>4, <2>6, <2>7, <2>8 DEF Queues, O, W, P
<1>4. CASE PlayGet /\ output # <<>>
  <2>1. /\ output' = Tail(output) /\ Reached' = Head(output).no /\ UNCHANGED <<work, input>>
    BY <1>4 DEF PlayGet, PlayOnly, Reached
  <2>2. O = {Reached'} \cup O' /\ Ascending(output') /\ Below({Reached'}, O')
    BY <1>a, <1>c, <1>4, <2>1, NumbersTail DEF O
  <2>3. Below(O', W) /\ Below(O', P) /\ Below({Reached'}, O' \cup W \cup P)
    BY <1>c, <2>2 DEF Below
  <2>4. Reached' \in Nat /\ O' \cup W \cup P \subseteq Nat
    BY <1>d, <2>2
  <2>5. O' \cup W \cup P \subseteq Reached' + 1 .. Accepted'
    BY <1>a, <1>b, <1>c, <2>2, <2>3, <2>4 DEF Below
  <2> QED
    BY <1>c, <2>1, <2>2, <2>3, <2>5 DEF Queues, O, W, P
<1>5. CASE PlayRecheck
  <2>1. UNCHANGED <<output, work, input>> /\ Reached' \in Nat /\ Reached' <= Reached
    BY <1>5, <1>a DEF PlayRecheck, PlayOnly, Reached, Order, Heard
  <2> QED
    BY <1>c, <1>e, <2>1 DEF O, W, P
<1>6. CASE PlayLoop \/ PlayRelease \/ (PlayGet /\ output = <<>>)
  <2>1. UNCHANGED <<output, work, input>> /\ Reached' = Reached
    BY <1>6, <1>a DEF PlayLoop, PlayRelease, PlayGet, PlayOnly, LoopTest, Reached
  <2> QED
    BY <1>a, <1>c, <1>e, <2>1 DEF O, W, P
<1>7. CASE (Generation /\ ~GenGet /\ ~GenPut) \/ (GenPut /\ ~OutputRoom)
  <2>1. UNCHANGED playback
    BY <1>7 DEF Generation, GenStart, GenLoop, GenItem, GenReady, GenCheck, GenSend,
      GenReserve, GenSynthesize, GenPutTest, GenPut, GenEnd, GenFinish, GenOnly
  <2>2. CASE Generation /\ ~GenGet /\ ~GenPut
    BY <1>a, <1>c, <1>e, <1>g, <2>1, <2>2, PlanShrinks DEF O, W, P
  <2>3. CASE GenPut /\ ~OutputRoom
    BY <1>f, <2>1, <2>3 DEF GenPut
  <2> QED
    BY <1>7, <2>2, <2>3
<1>8. CASE GenGet /\ input = <<>>
  BY <1>f, <1>8 DEF GenGet, GenOnly
<1>9. ASSUME NEW t \in Caller, Discard(t) PROVE Queues'
  <2>1. UNCHANGED <<work, playback>>
    BY <1>9 DEF Discard, DiscardInput, DiscardOutput, DiscardRelease, DiscardDone
  <2>2. input' = input \/ (input # <<>> /\ input' = Tail(input))
    BY <1>9 DEF Discard, DiscardInput, DiscardOutput, DiscardRelease, DiscardDone
  <2>3. output' = output \/ (output # <<>> /\ output' = Tail(output))
    BY <1>9 DEF Discard, DiscardInput, DiscardOutput, DiscardRelease, DiscardDone
  <2>4. PlansAscending(input') /\ P' \subseteq P
    BY <1>a, <1>c, <2>2, PlansTail DEF P
  <2>5. Ascending(output') /\ O' \subseteq O
    BY <1>a, <1>c, <2>3, NumbersTail DEF O
  <2> QED
    BY <1>a, <1>c, <1>e, <1>g, <2>1, <2>4, <2>5 DEF W
<1>10. CASE UNCHANGED vars
  BY <1>f, <1>10
<1>11. ASSUME NEW shape \in PlanShapes, SubmitEnter(shape) PROVE Queues'
  BY <1>f, <1>11 DEF SubmitEnter
<1>12. CASE SubmitPut /\ ~(Len(input) < QueueLimit)
  BY <1>f, <1>12 DEF SubmitPut
<1>13. CASE \E n \in Limits : SetAudioLimit(n)
  BY <1>f, <1>13 DEF SetAudioLimit
<1>14. ASSUME NEW t \in Caller, CancelFlag(t) PROVE Queues'
  BY <1>f, <1>14 DEF CancelFlag
<1>15. CASE Join \/ JoinReturn
  BY <1>f, <1>15 DEF Join, JoinReturn
<1>16. CASE OutsideCall
  BY <1>1, <1>9, <1>11, <1>12, <1>13, <1>14, <1>15, <1>16 DEF OutsideCall
<1>17. CASE Generation
  BY <1>2, <1>3, <1>7, <1>8, <1>17
<1>18. CASE Playback
  BY <1>4, <1>5, <1>6, <1>18 DEF Playback
<1> QED
  BY <1>10, <1>16, <1>17, <1>18 DEF Next

\* A new pipeline has no numbers at all.
LEMMA InitOrder == Init => Order
<1> SUFFICES ASSUME Init PROVE Order
  OBVIOUS
<1>1. Len(<<>>) = 0 /\ DOMAIN <<>> = {}
  OBVIOUS
<1>2. Numbered /\ Heard
  BY <1>1, PipelineAssumption DEF Init, Numbered, Heard, Accepted, Reached, Caller
<1>3. Queues
  BY NumbersEmpty DEF Init, Queues, Below
<1> QED
  BY <1>2, <1>3 DEF Order

\* The order of the numbers holds in every state of the pipeline.
THEOREM OrderInvariance == Spec => [](IInv /\ Order)
<1>1. IInv /\ Order /\ [Next]_vars => Order'
  BY NumberedStep, HeardStep, QueuesStep DEF Order
<1> QED
  BY <1>1, InitIInv, NextIInv, InitOrder, PTL DEF Spec

\* Items go on the air in the order their comments were accepted, and none
\* goes on the air twice (core/speech/pipeline.py).
THEOREM SpokenAscends == Spec => SpokenInOrder
<1>1. ASSUME IInv, Order, [Next]_vars PROVE ppc # "onair" /\ ppc' = "onair" => spoken' > spoken
  <2>1. spoken \in Nat /\ playing.no \in Nat /\ (ppc = "recheck" => spoken < playing.no)
    BY <1>1, OrderTypes DEF Order, Heard
  <2>2. CASE Playback
    BY <2>1, <2>2 DEF Playback, PlayLoop, PlayGet, PlayRecheck, PlayRelease, LoopTest
  <2>3. CASE OutsideCall \/ UNCHANGED vars
    BY <2>3 DEF OutsideCall, SubmitEnter, SubmitPut, SetAudioLimit, CancelFlag, Discard,
      DiscardInput, DiscardOutput, DiscardRelease, DiscardDone, Join, JoinReturn,
      vars, threads, playback
  <2>4. CASE Generation
    BY <2>4 DEF Generation, GenStart, GenLoop, GenGet, GenItem, GenReady, GenCheck, GenSend,
      GenReserve, GenSynthesize, GenPutTest, GenPut, GenEnd, GenFinish, GenOnly, playback
  <2> QED
    BY <1>1, <2>2, <2>3, <2>4 DEF Next
<1> QED
  BY <1>1, OrderInvariance, PTL DEF Spec, SpokenInOrder

-----------------------------------------------------------------------------
(***************************************************************************)
(* The pipeline implements the speech lane, step by step.                  *)
(***************************************************************************)
OnAir == IF ppc = "onair" THEN playing.no ELSE 0

\* A new pipeline is a new lane.
LEMMA LaneInit == Init => Lane!Init
<1> SUFFICES ASSUME Init PROVE Lane!Init
  OBVIOUS
<1>1. Waiting = {}
  BY NumbersEmpty DEF Init, Waiting
<1>2. issued = 0 /\ Len(offer) = 0 /\ ppc = "loop" /\ cancelled = FALSE
  BY DEF Init
<1> QED
  BY <1>1, <1>2 DEF Lane!Init

\* A step that only forgets items that waited is a drop, or no step of the lane.
LEMMA LaneDrop ==
  ASSUME Waiting' \subseteq Waiting, OnAir' = OnAir, Accepted' = Accepted,
         cancelled' = cancelled
  PROVE  [Lane!Next]_(Lane!lane)
<1>1. CASE Waiting' = Waiting
  BY <1>1 DEF Lane!lane, OnAir, Accepted
<1>2. CASE Waiting' # Waiting
  <2> DEFINE S == Waiting \ Waiting'
  <2>1. S # {} /\ S \in SUBSET Waiting /\ Waiting' = Waiting \ S
    BY <1>2
  <2> HIDE DEF S
  <2>2. Lane!Drop(S)
    BY <2>1 DEF Lane!Drop, OnAir, Accepted
  <2> QED
    BY <2>1, <2>2 DEF Lane!Next
<1> QED
  BY <1>1, <1>2

\* What waits is what playback took and the three queues hold.
LEMMA LaneQueues ==
  ASSUME Numbers(output') \subseteq Numbers(output), Numbers(work') \subseteq Numbers(work),
         PlanNumbers(input') \subseteq PlanNumbers(input),
         UNCHANGED <<issued, offer, cancelled, ppc, playing>>
  PROVE  [Lane!Next]_(Lane!lane)
BY LaneDrop DEF Waiting, OnAir, Accepted

\* A step of synthesis moves items on, or loses them.
LEMMA LaneGeneration == IInv /\ Order /\ Generation => [Lane!Next]_(Lane!lane)
<1> SUFFICES ASSUME IInv, Order, Generation PROVE [Lane!Next]_(Lane!lane)
  OBVIOUS
<1> USE DEF submission, flags, playback, budget
<1>1. UNCHANGED <<issued, offer, cancelled, ppc, playing>>
  BY DEF Generation, GenStart, GenLoop, GenGet, GenItem, GenReady, GenCheck, GenSend,
    GenReserve, GenSynthesize, GenPutTest, GenPut, GenEnd, GenFinish, GenOnly
<1>2. UNCHANGED <<OnAir, Accepted>>
  BY <1>1 DEF OnAir, Accepted
<1>3. /\ output \in Seq(Entry) /\ work \in Seq(Item) /\ input \in Seq(Seq(Item))
  BY OrderTypes
<1>4. CASE GenGet /\ input # <<>>
  <2>1. work' = Head(input) /\ input' = Tail(input) /\ output' = output
    BY <1>4 DEF GenGet, TakePlan
  <2>2. PlanNumbers(input) = Numbers(work') \cup PlanNumbers(input')
    BY <1>3, <1>4, <2>1, PlansTail
  <2>3. Waiting' \subseteq Waiting
    BY <1>1, <2>1, <2>2 DEF Waiting
  <2> QED
    BY <1>1, <1>2, <2>3, LaneDrop
<1>5. CASE GenPut /\ OutputRoom
  <2> DEFINE e == [kind |-> Head(work).kind, no |-> Head(work).no, bytes |-> reserved]
  <2>1. /\ work # <<>> /\ Head(work) \in Item /\ Head(work).kind \in {"say", "sound"}
        /\ reserved \in Nat
    BY <1>3, <1>5, HeadTailProperties DEF IInv, AtHand, TypeOK, GenPut
  <2>2. e \in Entry /\ e.no = Head(work).no
    BY <2>1 DEF Entry, Item
  <2>3. output' = Append(output, e) /\ work' = Tail(work) /\ input' = input
    BY <1>5 DEF GenPut, NextItem
  <2> HIDE DEF e
  <2>4. /\ Numbers(Append(output, e)) = Numbers(output) \cup {e.no}
        /\ Ascending(output) /\ Below(Numbers(output), {e.no}) => Ascending(Append(output, e))
    BY <1>3, <2>2, NumbersAppend
  <2>5. Numbers(work) = {e.no} \cup Numbers(work')
    BY <1>3, <2>1, <2>2, <2>3, NumbersTail
  <2>6. Waiting' \subseteq Waiting
    BY <1>1, <2>3, <2>4, <2>5 DEF Waiting
  <2> QED
    BY <1>1, <1>2, <2>6, LaneDrop
<1>6. CASE GenGet /\ input = <<>>
  BY <1>1, <1>6, LaneQueues DEF GenGet
<1>7. CASE GenPut /\ ~OutputRoom
  BY <1>1, <1>7, LaneQueues DEF GenPut
<1>8. CASE ~GenGet /\ ~GenPut
  BY <1>1, <1>8, PlanShrinks, LaneQueues
<1> QED
  BY <1>4, <1>5, <1>6, <1>7, <1>8

\* A step of playback begins or ends an item, or loses some.
LEMMA LanePlayback == IInv /\ Order /\ Playback => [Lane!Next]_(Lane!lane)
<1> SUFFICES ASSUME IInv, Order, Playback PROVE [Lane!Next]_(Lane!lane)
  OBVIOUS
<1> USE DEF submission, flags, synthesis, budget
<1>1. /\ spoken \in Nat /\ playing.no \in Nat /\ output \in Seq(Entry)
      /\ Accepted \in Nat /\ issued \in Nat /\ Len(offer) \in Nat /\ MaxItems \in Nat
      /\ Accepted = issued - Len(offer) /\ Reached \in Nat /\ issued <= MaxItems
  BY OrderTypes DEF Order, Numbered
<1>2. UNCHANGED <<issued, offer, cancelled, input, work>>
  BY DEF Playback, PlayLoop, PlayGet, PlayRecheck, PlayRelease, PlayOnly
<1>3. UNCHANGED Accepted
  BY <1>2 DEF Accepted
<1>4. CASE PlayLoop
  <2>1. ppc = "loop" /\ ppc' \in {"get", "done"} /\ UNCHANGED <<playing, output>>
    BY <1>4 DEF PlayLoop, LoopTest
  <2>2. Waiting' \subseteq Waiting /\ OnAir' = OnAir
    BY <1>2, <2>1 DEF Waiting, OnAir
  <2> QED
    BY <1>2, <1>3, <2>2, LaneDrop
<1>5. CASE PlayGet
  <2>1. output # <<>> => Numbers(output) = {Head(output).no} \cup Numbers(Tail(output))
    BY <1>1, NumbersTail
  <2>2. Waiting' \subseteq Waiting /\ OnAir' = OnAir
    BY <1>2, <1>5, <2>1 DEF PlayGet, Waiting, OnAir
  <2> QED
    BY <1>2, <1>3, <2>2, LaneDrop
<1>6. CASE PlayRecheck /\ cancelled
  <2>1. Waiting' \subseteq Waiting /\ OnAir' = OnAir
    BY <1>2, <1>6 DEF PlayRecheck, CancelledAgain, Waiting, OnAir
  <2> QED
    BY <1>2, <1>3, <2>1, LaneDrop
<1>7. CASE PlayRecheck /\ ~cancelled
  <2> DEFINE n == playing.no
             Q == PlanNumbers(input) \cup Numbers(work) \cup Numbers(output)
  <2>1. ppc = "recheck" /\ ppc' = "onair" /\ UNCHANGED <<playing, output>>
    BY <1>7 DEF PlayRecheck, CancelledAgain
  <2>2. Reached = n /\ spoken < n /\ n <= Accepted /\ Q \subseteq n + 1 .. Accepted
    BY <2>1 DEF Order, Heard, Queues, Reached
  <2>3. n \in 1..MaxItems
    BY <1>1, <2>2
  <2>4. Waiting = Q \cup {n} /\ Waiting' = Q
    BY <1>2, <2>1 DEF Waiting
  <2> HIDE DEF Q, n
  <2>5. n \in Nat /\ Q \subseteq Nat /\ \A m \in Q : n < m
    BY <1>1, <2>2, <2>3
  <2>6. n \notin Q /\ \A m \in Waiting : n <= m
    <3>1. n \notin Q
      BY <2>5
    <3>2. \A m \in Q \cup {n} : n <= m
      BY <2>5
    <3> QED
      BY <2>4, <3>1, <3>2
  <2>7. Waiting' = Waiting \ {n} /\ n \in Waiting
    BY <2>4, <2>6
  <2>8. Lane!Begin(n)
    BY <1>2, <1>7, <2>1, <2>6, <2>7 DEF Lane!Begin, n
  <2> QED
    BY <2>3, <2>8 DEF Lane!Next
<1>8. CASE PlayRelease /\ ppc = "onair"
  <2>1. ppc' = "loop" /\ playing.no # 0 /\ output' = output
    BY <1>1, <1>8 DEF PlayRelease, Order, Heard
  <2>2. Waiting' = Waiting
    BY <1>2, <1>8, <2>1 DEF Waiting
  <2>3. Lane!End
    BY <1>2, <1>8, <2>1, <2>2 DEF Lane!End
  <2> QED
    BY <2>3 DEF Lane!Next
<1>9. CASE PlayRelease /\ ppc = "abandon"
  <2>1. ppc' = "done"
    BY <1>9 DEF PlayRelease
  <2>2. Waiting' \subseteq Waiting /\ OnAir' = OnAir
    BY <1>9, <2>1 DEF Waiting, OnAir
  <2> QED
    BY <1>2, <1>3, <2>2, LaneDrop
<1> QED
  BY <1>4, <1>5, <1>6, <1>7, <1>8, <1>9 DEF Playback, PlayRelease

\* A submit offers items; a cancel closes the lane and forgets what waits.
LEMMA LaneCalls == IInv /\ Order /\ OutsideCall => [Lane!Next]_(Lane!lane)
<1> SUFFICES ASSUME IInv, Order, OutsideCall PROVE [Lane!Next]_(Lane!lane)
  OBVIOUS
<1> USE DEF flags, threads, synthesis, playback, submission, budget
<1>1. /\ issued \in Nat /\ Len(offer) \in Nat /\ Accepted \in Nat /\ MaxItems \in Nat
      /\ Accepted = issued - Len(offer) /\ issued <= MaxItems
      /\ input \in Seq(Seq(Item)) /\ offer \in Seq(Item) /\ output \in Seq(Entry)
      /\ offer # <<>> <=> caller["control"] = "submit"
      /\ \A i \in DOMAIN offer : offer[i].no = Accepted + i
  BY OrderTypes DEF Order, Numbered
<1>2. Len(<<>>) = 0
  OBVIOUS
<1>3. ASSUME NEW shape \in PlanShapes, SubmitEnter(shape) PROVE [Lane!Next]_(Lane!lane)
  <2>1. offer = <<>>
    BY <1>1, <1>3 DEF SubmitEnter, Move
  <2>2. Len(shape) \in Nat /\ Len(offer') = Len(shape) /\ issued' = issued + Len(shape)
    BY <1>3, LenProperties, PipelineAssumption DEF SubmitEnter
  <2>3. Accepted' = Accepted
    BY <1>1, <1>2, <2>1, <2>2 DEF Accepted
  <2>4. UNCHANGED <<cancelled, ppc, playing, input, output, work>>
    BY <1>3 DEF SubmitEnter
  <2>5. Waiting' = Waiting /\ OnAir' = OnAir
    BY <2>4 DEF Waiting, OnAir
  <2> QED
    BY <2>3, <2>4, <2>5, LaneDrop
<1>4. CASE SubmitPut
  <2>1. /\ offer' = <<>> /\ issued' = issued /\ offer # <<>> /\ ~cancelled
        /\ UNCHANGED <<cancelled, ppc, playing, output, work>>
    BY <1>1, <1>4 DEF SubmitPut, Move, IInv, Admission
  <2>2. Len(offer) # 0 /\ DOMAIN offer = 1..Len(offer)
    BY <1>1, <2>1, EmptySeq, LenProperties
  <2>3. Accepted' = issued /\ Accepted < issued
    BY <1>1, <1>2, <2>1, <2>2 DEF Accepted
  <2>4. issued \in 1..MaxItems
    BY <1>1, <2>3
  <2>5. Numbers(offer) = Accepted + 1 .. issued
    BY <1>1, NumbersFollow
  <2>6. \/ input' = input
        \/ PlanNumbers(input') = PlanNumbers(input) \cup Numbers(offer)
    BY <1>1, <1>4, PlansAppend DEF SubmitPut
  <2>7. Waiting' \in {Waiting, Waiting \cup (Accepted + 1 .. issued)}
    BY <2>1, <2>5, <2>6 DEF Waiting
  <2>8. Lane!Offer(issued)
    BY <1>1, <2>1, <2>3, <2>7 DEF Lane!Offer, Accepted
  <2> QED
    BY <2>4, <2>8 DEF Lane!Next
<1>5. ASSUME NEW t \in Caller, CancelFlag(t) PROVE [Lane!Next]_(Lane!lane)
  <2>1. cancelled' = TRUE /\ UNCHANGED <<issued, offer, ppc, playing, input, output, work>>
    BY <1>5 DEF CancelFlag
  <2>2. Waiting' = Waiting /\ OnAir' = OnAir /\ Accepted' = Accepted
    BY <2>1 DEF Waiting, OnAir, Accepted
  <2>3. CASE ~cancelled
    <3>1. Lane!Close
      BY <2>1, <2>2, <2>3 DEF Lane!Close, OnAir, Accepted
    <3> QED
      BY <3>1 DEF Lane!Next
  <2>4. CASE cancelled
    <3>1. cancelled' = cancelled
      BY <2>1, <2>4 DEF IInv, TypeOK
    <3> QED
      BY <2>2, <3>1, LaneDrop
  <2> QED
    BY <2>3, <2>4
<1>6. ASSUME NEW t \in Caller, Discard(t) PROVE [Lane!Next]_(Lane!lane)
  <2>1. UNCHANGED <<issued, offer, cancelled, ppc, playing, work>>
    BY <1>6 DEF Discard, DiscardInput, DiscardOutput, DiscardRelease, DiscardDone
  <2>2. input' = input \/ (input # <<>> /\ input' = Tail(input))
    BY <1>6 DEF Discard, DiscardInput, DiscardOutput, DiscardRelease, DiscardDone
  <2>3. output' = output \/ (output # <<>> /\ output' = Tail(output))
    BY <1>6 DEF Discard, DiscardInput, DiscardOutput, DiscardRelease, DiscardDone
  <2>4. PlanNumbers(input') \subseteq PlanNumbers(input)
    BY <1>1, <2>2, PlansTail
  <2>5. Numbers(output') \subseteq Numbers(output)
    BY <1>1, <2>3, NumbersTail
  <2> QED
    BY <2>1, <2>4, <2>5, LaneQueues
<1>7. CASE (\E n \in Limits : SetAudioLimit(n)) \/ Join \/ JoinReturn
  <2>1. UNCHANGED <<issued, offer, cancelled, ppc, playing, input, output, work>>
    BY <1>7 DEF SetAudioLimit, Join, JoinReturn
  <2> QED
    BY <2>1, LaneQueues
<1> QED
  BY <1>3, <1>4, <1>5, <1>6, <1>7 DEF OutsideCall

\* Every step of the pipeline is a step of the lane or leaves it alone: what
\* was accepted is played in order and one at a time, what was dropped never
\* comes back, and a closed lane begins nothing (docs/users/speech.md).
THEOREM ImplementsLane == Spec => Lane!Spec
<1>1. IInv /\ Order /\ [Next]_vars => [Lane!Next]_(Lane!lane)
  <2> SUFFICES ASSUME IInv, Order, [Next]_vars PROVE [Lane!Next]_(Lane!lane)
    OBVIOUS
  <2>1. CASE UNCHANGED vars
    BY <2>1, LaneQueues DEF vars, submission, flags, threads, synthesis, playback
  <2> QED
    BY <2>1, LaneGeneration, LanePlayback, LaneCalls DEF Next
<1> QED
  BY <1>1, LaneInit, OrderInvariance, PTL DEF Spec, Lane!Spec
=============================================================================
