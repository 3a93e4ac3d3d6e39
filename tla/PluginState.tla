----------------------------- MODULE PluginState -----------------------------
(***************************************************************************)
(* What plugins tell the program while it runs (plugins/manager.py): the   *)
(* states of an engine, with the generation they belong to, and settings   *)
(* to be saved, which wait until the session is bound and then for its     *)
(* control thread.                                                         *)
(***************************************************************************)
EXTENDS Integers, Sequences, SequencesExt

CONSTANTS
  Threads,     \* of one plugin
  OneAtATime,  \* whether the plugin publishes under a lock of its own, as Qwen does
  MaxGen, MaxSaves   \* bounds: generations, calls of save_config

StateAssumption == "free" \notin Threads /\ OneAtATime \in BOOLEAN /\ MaxGen \in Nat /\ MaxSaves \in Nat

VARIABLES
  newest,     \* generation of the plugin
  state,      \* the last state the manager keeps, 0 before the first
  seen,       \* the newest one it ever kept (observed only)
  publisher,  \* of every thread: in publish_state, with a generation
  lock,       \* _binding: "free", a thread, or "bind"
  bound, flushing,   \* whether bind has set the ports, and what it still has to hand on
  pending,    \* saves that wait for bind
  saver,      \* of every thread: in save_config, with a save
  posts,      \* the queue of the control thread
  kept,       \* saves that were applied, in their order
  dropped,    \* saves that were not
  made        \* number of saves called

vars == <<newest, state, seen, publisher, lock, bound, flushing, pending, saver, posts, kept, dropped, made>>

NoSave == [n |-> 0, gen |-> 0]
Resting == [at |-> "rest", gen |-> 0]

Init ==
  /\ newest = 0 /\ state = 0 /\ seen = 0 /\ publisher = [t \in Threads |-> Resting]
  /\ lock = "free" /\ bound = FALSE /\ flushing = <<>> /\ pending = <<>>
  /\ saver = [t \in Threads |-> [at |-> "rest", save |-> NoSave]]
  /\ posts = <<>> /\ kept = <<>> /\ dropped = {} /\ made = 0

Publishing == <<newest, state, seen, publisher>>
Saving == <<lock, bound, flushing, pending, saver, posts, kept, dropped, made>>

-----------------------------------------------------------------------------
(***************************************************************************)
(* publish_state: the test of the generation and the assignment are two    *)
(* steps, and the callers are threads of the plugin.                       *)
(***************************************************************************)
Alone == OneAtATime => \A t \in Threads : publisher[t].at = "rest"

Publish(t) ==
  /\ publisher[t].at = "rest" /\ Alone
  /\ \E g \in {newest, newest + 1} :
       /\ g \in 1..MaxGen /\ newest' = g
       /\ publisher' = [publisher EXCEPT ![t] = [at |-> "test", gen |-> g]]
  /\ UNCHANGED <<state, seen, Saving>>

\* Mutant: a state of any generation is kept.
AnyState(g) == TRUE
NotOlder(g) == g >= state

\* A late answer of an older generation, published as that.
PublishLate(t) ==
  /\ publisher[t].at = "rest" /\ Alone
  /\ \E g \in 1..newest : publisher' = [publisher EXCEPT ![t] = [at |-> "test", gen |-> g]]
  /\ UNCHANGED <<newest, state, seen, Saving>>

Test(t) ==
  /\ publisher[t].at = "test"
  /\ publisher' = [publisher EXCEPT ![t] = IF NotOlder(publisher[t].gen) THEN [@ EXCEPT !.at = "set"] ELSE Resting]
  /\ UNCHANGED <<newest, state, seen, Saving>>

Assign(t) ==
  /\ publisher[t].at = "set" /\ state' = publisher[t].gen /\ seen' = Max({seen, state'})
  /\ publisher' = [publisher EXCEPT ![t] = Resting]
  /\ UNCHANGED <<newest, Saving>>

-----------------------------------------------------------------------------
(***************************************************************************)
(* save_config and bind.                                                   *)
(***************************************************************************)
SaverAt(t, at) == saver' = [saver EXCEPT ![t].at = at]

\* A result of the generation it was begun in, or of none (0: always saved).
Save(t) ==
  /\ saver[t].at = "rest" /\ made < MaxSaves /\ made' = made + 1
  /\ \E g \in 0..newest :
       saver' = [saver EXCEPT ![t] = [at |-> "enter", save |-> [n |-> made + 1, gen |-> g]]]
  /\ UNCHANGED <<lock, bound, flushing, pending, posts, kept, dropped, Publishing>>

\* Mutant: the test of _bound is made without the lock.
NoLock(t) == lock' = lock
TakeLock(t) == lock = "free" /\ lock' = t

SaveTest(t) ==
  /\ saver[t].at = "enter" /\ TakeLock(t) /\ SaverAt(t, IF bound THEN "post" ELSE "wait")
  /\ UNCHANGED <<bound, flushing, pending, posts, kept, dropped, made, Publishing>>

SaveWaits(t) ==
  /\ saver[t].at = "wait" /\ pending' = Append(pending, saver[t].save) /\ lock' = "free" /\ SaverAt(t, "rest")
  /\ UNCHANGED <<bound, flushing, posts, kept, dropped, made, Publishing>>

\* Outside the lock.
SaveLeaves(t) ==
  /\ saver[t].at = "post" /\ lock = t /\ lock' = "free"
  /\ UNCHANGED <<bound, flushing, pending, saver, posts, kept, dropped, made, Publishing>>

SavePosts(t) ==
  /\ saver[t].at = "post" /\ lock # t /\ posts' = Append(posts, saver[t].save) /\ SaverAt(t, "rest")
  /\ UNCHANGED <<lock, bound, flushing, pending, kept, dropped, made, Publishing>>

\* Mutant: what waited is forgotten.
Forgotten == <<>>
Waiting == pending

Bind ==
  /\ ~bound /\ lock = "free" /\ flushing = <<>>
  /\ bound' = TRUE /\ flushing' = Waiting /\ pending' = <<>>
  /\ UNCHANGED <<lock, saver, posts, kept, dropped, made, Publishing>>

Flush ==
  /\ flushing # <<>> /\ flushing' = Tail(flushing) /\ posts' = Append(posts, Head(flushing))
  /\ UNCHANGED <<lock, bound, pending, saver, kept, dropped, made, Publishing>>

-----------------------------------------------------------------------------
(***************************************************************************)
(* The control thread.                                                     *)
(***************************************************************************)
\* Mutant: a result is saved whatever happened since.
AnyResult(s) == TRUE
StillCurrent(s) == s.gen = 0 \/ s.gen = state

Apply ==
  /\ posts # <<>> /\ posts' = Tail(posts)
  /\ IF StillCurrent(Head(posts))
     THEN kept' = Append(kept, Head(posts)) /\ UNCHANGED dropped
     ELSE dropped' = dropped \cup {Head(posts)} /\ UNCHANGED kept
  /\ UNCHANGED <<lock, bound, flushing, pending, saver, made, Publishing>>

Publisher(t) == Publish(t) \/ PublishLate(t) \/ Test(t) \/ Assign(t)
Saver(t) == SaveTest(t) \/ SaveWaits(t) \/ SaveLeaves(t) \/ SavePosts(t)
Host == Bind \/ Flush

Next == (\E t \in Threads : Publisher(t) \/ Save(t) \/ Saver(t)) \/ Host \/ Apply

Spec == Init /\ [][Next]_vars

\* Threads inside a call go on; the lock is never held for long, and it is
\* free again and again (SF); the session is bound once.
Fairness == (\A t \in Threads : SF_vars(Saver(t))) /\ SF_vars(Host) /\ WF_vars(Apply)
FairSpec == Spec /\ Fairness

-----------------------------------------------------------------------------
Saves == [n : 0..MaxSaves, gen : 0..MaxGen]

\* Types, and the lock is held exactly where the code holds it.
TypeOK ==
  /\ newest \in 0..MaxGen /\ state \in 0..newest /\ bound \in BOOLEAN /\ lock \in Threads \cup {"free"}
  /\ Range(pending) \cup Range(flushing) \cup Range(posts) \cup Range(kept) \cup dropped \subseteq Saves
  /\ \A t \in Threads : publisher[t].at \in {"rest", "test", "set"} /\ saver[t].save \in Saves
  /\ \A t \in Threads : saver[t].at = "wait" => lock = t

\* The state that is shown, and that saves are compared with, never goes back
\* to an older generation.
StateMovesOn == state = seen

\* Once the session is bound nothing is left to wait for it.
NothingWaits == bound => pending = <<>>

\* A result is not applied once the plugin has announced a newer generation.
OldResultDropped == [][Len(kept') > Len(kept) => Last(kept').gen \notin 1..(seen - 1)]_vars

\* Every save is decided on: none is lost between the waiting list, bind and
\* the queue.
SavesDecided == \A n \in 1..MaxSaves :
  (made >= n) ~> (n \in {s.n : s \in Range(kept) \cup dropped})
=============================================================================
