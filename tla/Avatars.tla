------------------------------- MODULE Avatars -------------------------------
(***************************************************************************)
(* The pictures beside the comments: the window asks once for each address *)
(* it does not hold (desktop/shell/presenter.py), the session service runs *)
(* the download on two workers behind a bounded number of slots            *)
(* (core/session/service.py), and a cache bounded in bytes keeps the last  *)
(* used pictures (desktop/comments/avatars.py).                            *)
(*                                                                         *)
(* A failed address is not asked for again for 30 seconds; the passing of  *)
(* that time is a step.  The cost of a picture is a number of units.       *)
(***************************************************************************)
EXTENDS Integers, Sequences, FiniteSets, SequencesExt

CONSTANTS
  Keys,      \* addresses of pictures
  Cost,      \* the cost of each picture
  Slots,     \* _avatar_slots (64)
  Workers,   \* threads of _media (2)
  Limits,    \* the limits of the cache a user may set
  MaxFailed, \* remembered failures (256)
  MaxSteps   \* bound: requests and changes of the limit

AvatarAssumption ==
  /\ Cost \in [Keys -> Nat \ {0}] /\ Limits \subseteq Nat /\ Limits # {}
  /\ Slots \in Nat \ {0} /\ Workers \in Nat \ {0}
  /\ MaxFailed \in Nat \ {0} /\ MaxSteps \in Nat

VARIABLES
  pending,   \* _avatar_pending
  failed,    \* _avatar_failures: in order, with whether the 30 seconds last
  images,    \* the cache's _images, least recently used first
  bytes, limit,
  slots,     \* slots taken
  queue, running,  \* _media: jobs that wait; jobs and where they are
  signals,   \* avatar_received, queued for the GUI thread
  closing,   \* the session's _closing
  steps

cache == <<images, bytes, limit>>
media == <<slots, queue, running>>
vars == <<pending, failed, cache, media, signals, closing, steps>>

Free == <<"free">>

Init ==
  /\ pending = {} /\ failed = <<>> /\ images = <<>> /\ bytes = 0 /\ limit \in Limits
  /\ slots = 0 /\ queue = <<>> /\ running = [w \in 1..Workers |-> Free] /\ signals = <<>>
  /\ closing = FALSE /\ steps = 0

Sum(s) ==
  LET total[i \in 0..Len(s)] == IF i = 0 THEN 0 ELSE total[i - 1] + Cost[s[i]] IN total[Len(s)]

\* OrderedDict.pop: an address is held once at most.
Without(held, k) ==
  IF k \in Range(held) THEN RemoveAt(held, CHOOSE i \in 1..Len(held) : held[i] = k) ELSE held

\* _evict: the least recently used pictures go until the rest fits.
Evict(held, total) ==
  LET gone == CHOOSE n \in 0..Len(held) :
        /\ total - Sum(SubSeq(held, 1, n)) <= limit' \/ n = Len(held)
        /\ \A m \in 0..(n - 1) : total - Sum(SubSeq(held, 1, m)) > limit'
  IN images' = SubSeq(held, gone + 1, Len(held)) /\ bytes' = total - Sum(SubSeq(held, 1, gone))

\* receive: an older picture of the address leaves with its cost, and the
\* cache is cut.  Mutant: it is only cut when the limit changes.
AddUncut(k) == images' = Append(images, k) /\ bytes' = bytes + Cost[k]
Add(k) ==
  Evict(Append(Without(images, k), k), bytes - (IF k \in Range(images) THEN Cost[k] ELSE 0) + Cost[k])

\* A failure is remembered; an address already there keeps its place.
\* Mutant: nothing is forgotten.
FailAll(k) == failed' = Append(failed, [key |-> k, hot |-> TRUE])
Fail(k) ==
  LET kept == IF \E i \in 1..Len(failed) : failed[i].key = k
              THEN [i \in 1..Len(failed) |-> IF failed[i].key = k THEN [key |-> k, hot |-> TRUE] ELSE failed[i]]
              ELSE Append(failed, [key |-> k, hot |-> TRUE])
  IN failed' = IF Len(kept) > MaxFailed THEN Tail(kept) ELSE kept

Hot(k) == [key |-> k, hot |-> TRUE] \in Range(failed)

\* The address is no longer asked for.  Mutant: only a picture ends the
\* request.
DiscardLater(k, good) == pending' = IF good THEN pending \ {k} ELSE pending
Discard(k, good) == pending' = pending \ {k}

\* _on_avatar: the picture is kept, or the address has failed.
OnAvatar(k, good) ==
  /\ Discard(k, good) /\ limit' = limit
  /\ IF good THEN Add(k) ELSE UNCHANGED <<images, bytes>>
  /\ IF k \in Range(images') THEN UNCHANGED failed ELSE Fail(k)

-----------------------------------------------------------------------------
\* The condition under which a row asks.  Mutant: what is under way is not
\* looked at.
WantsAgain(k) == k \notin Range(images) /\ ~Hot(k)
Wants(k) == k \notin Range(images) /\ k \notin pending /\ ~Hot(k)

Asks(k) == Wants(k) /\ steps < MaxSteps /\ steps' = steps + 1

\* A row asks and gets a slot.
Request(k) ==
  /\ Asks(k) /\ closing = FALSE /\ slots < Slots
  /\ pending' = pending \union {k}
  /\ slots' = slots + 1 /\ queue' = Append(queue, k)
  /\ UNCHANGED <<failed, cache, running, signals, closing>>

\* Without a slot the answer is empty and comes at once.
Refused(k) ==
  /\ Asks(k) /\ closing = FALSE /\ slots = Slots
  /\ OnAvatar(k, FALSE)
  /\ UNCHANGED <<media, signals, closing>>

\* Once the program is closing, nothing is asked for.
Ignored(k) ==
  /\ Asks(k) /\ closing /\ pending' = pending \union {k}
  /\ UNCHANGED <<failed, cache, media, signals, closing>>

Goes(w, job) == running' = [running EXCEPT ![w] = job]

Begin(w) ==
  /\ queue # <<>> /\ running[w] = Free
  /\ queue' = Tail(queue) /\ Goes(w, <<"load", Head(queue)>>)
  /\ UNCHANGED <<pending, failed, cache, slots, signals, closing, steps>>

\* The download ended, with a picture or without.
Complete(w, good) ==
  /\ running[w][1] = "load" /\ Goes(w, <<"release", running[w][2]>>)
  /\ signals' = IF closing THEN signals ELSE Append(signals, <<running[w][2], good>>)
  /\ UNCHANGED <<pending, failed, cache, slots, queue, closing, steps>>

\* The finally of fetch.  Mutant: only a wanted picture gives the slot back.
ReleaseWanted(k) == slots' = IF k \in pending THEN slots - 1 ELSE slots
ReleaseSlot(k) == slots' = slots - 1

Release(w) ==
  /\ running[w][1] = "release" /\ Goes(w, Free) /\ ReleaseSlot(running[w][2])
  /\ UNCHANGED <<pending, failed, cache, queue, signals, closing, steps>>

Receive ==
  /\ signals # <<>> /\ signals' = Tail(signals)
  /\ OnAvatar(Head(signals)[1], Head(signals)[2])
  /\ UNCHANGED <<media, closing, steps>>

\* A row is painted: get makes its picture the last used.
Paint(k) ==
  /\ k \in Range(images) /\ images' = Append(Without(images, k), k)
  /\ UNCHANGED <<pending, failed, bytes, limit, media, signals, closing, steps>>

SetLimit(n) ==
  /\ steps < MaxSteps /\ steps' = steps + 1 /\ limit' = n /\ Evict(images, bytes)
  /\ UNCHANGED <<pending, failed, media, signals, closing>>

\* Thirty seconds passed since the failure of k.
Cool(k) ==
  /\ Hot(k)
  /\ failed' = [i \in 1..Len(failed) |-> IF failed[i].key = k THEN [key |-> k, hot |-> FALSE] ELSE failed[i]]
  /\ UNCHANGED <<pending, cache, media, signals, closing, steps>>

Close ==
  /\ closing = FALSE /\ closing' = TRUE
  /\ UNCHANGED <<pending, failed, cache, media, signals, steps>>

\* The pool is shut down: the jobs that wait are cancelled with their slots.
Cancel ==
  /\ closing /\ queue # <<>> /\ queue' = <<>>
  /\ UNCHANGED <<pending, failed, cache, slots, running, signals, closing, steps>>

Work(w) == Begin(w) \/ (\E good \in BOOLEAN : Complete(w, good)) \/ Release(w)

Next ==
  \/ \E k \in Keys : Request(k) \/ Refused(k) \/ Ignored(k) \/ Paint(k) \/ Cool(k)
  \/ (\E w \in 1..Workers : Work(w)) \/ Receive \/ (\E n \in Limits : SetLimit(n)) \/ Close \/ Cancel

Spec == Init /\ [][Next]_vars

\* The pool's threads run, downloads end by their timeout, and the GUI
\* thread takes its signals.
FairSpec == Spec /\ WF_vars(Receive) /\ \A w \in 1..Workers : WF_vars(Work(w))

-----------------------------------------------------------------------------
\* The variables have their types; slots, failures and workers keep their
\* limits.
TypeOK ==
  /\ pending \subseteq Keys /\ images \in Seq(Keys) /\ limit \in Limits
  /\ failed \in Seq([key : Keys, hot : BOOLEAN]) /\ Len(failed) <= MaxFailed
  /\ slots \in 0..Slots /\ queue \in Seq(Keys) /\ signals \in Seq(Keys \X BOOLEAN)
  /\ running \in [1..Workers -> {Free} \union ({"load", "release"} \X Keys)]

InFlight(k) ==
  Cardinality({i \in 1..Len(queue) : queue[i] = k})
  + Cardinality({w \in 1..Workers : running[w] = <<"load", k>>})
  + Cardinality({i \in 1..Len(signals) : signals[i][1] = k})

\* An address counts as asked for exactly while one download or one answer
\* for it is under way: none is fetched twice, and none stays without a
\* picture because its answer is gone (presenter.py:247-255, 213-221,
\* service.py:421-438).
PendingIsInFlight == closing = FALSE => \A k \in Keys :
  InFlight(k) = IF k \in pending THEN 1 ELSE 0

\* Every slot taken belongs to a download that waits or runs, so that none
\* leaks while the program runs (service.py:430-438).
SlotsConserved == closing = FALSE =>
  slots = Len(queue) + Cardinality({w \in 1..Workers : running[w] # Free})

\* The cache counts what it holds, and holds no more than its limit
\* (avatars.py:34-42, 62-67).
BytesAgree == bytes = Sum(images) /\ bytes <= limit

\* What was asked for is answered, unless the program ends.
Answered == \A k \in Keys : (k \in pending) ~> (k \notin pending \/ closing)
=============================================================================
