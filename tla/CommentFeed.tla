----------------------------- MODULE CommentFeed -----------------------------
(***************************************************************************)
(* The way of comments, log lines and speech progress from any thread to   *)
(* the window: the buffers of DesktopEvents (desktop/events.py), the       *)
(* queued Qt signals, the 50 ms timer and the refresh of ShellPresenter    *)
(* (desktop/shell/presenter.py), and the bounded list of the view          *)
(* (desktop/comments/model.py, and the block limit of the log).            *)
(*                                                                         *)
(* A publisher tests _closed, appends under the lock, and emits the signal *)
(* after the unlock if it raised the pending flag.  The GUI thread empties *)
(* the two timed buffers one after the other.  Items are numbered in the   *)
(* order in which they were appended.                                      *)
(***************************************************************************)
EXTENDS Integers, Sequences, FiniteSets

CONSTANTS
  Publishers,   \* threads that publish
  Kinds,        \* what they publish: a subset of Kind
  MaxItems,     \* bound: items published
  Limits,       \* the limits a user may set
  FirstLimit,   \* the limit at the start
  MaxChanges    \* bound: changes of the limit and clearings

Kind == {"comment", "log", "progress"}
Timed == Kinds \ {"progress"}

FeedAssumption ==
  /\ Kinds \subseteq Kind /\ MaxItems \in Nat /\ MaxChanges \in Nat
  /\ Limits \subseteq Nat \ {0} /\ FirstLimit \in Nat \ {0}

VARIABLES
  buffer, pending, cap,  \* _comments/_logs/_progress, *_pending, the deque's maxlen
  closed,                \* DesktopEvents._closed
  publisher,             \* where each thread is, and what it publishes
  signals,               \* queued for the GUI thread
  timer, gui, want,      \* _comment_timer; where the GUI thread is; the limit it sets
  rows, limit,           \* what is shown, and how much may be
  ending,                \* ShellPresenter._closed
  count, changes,        \* items so far of each kind; changes so far
  cleared, raised        \* history: items before the last clearing; a limit grew

events == <<buffer, pending, cap, closed>>
shell == <<timer, gui, want, rows, limit, ending>>
bounds == <<count, changes, cleared, raised>>
vars == <<events, publisher, signals, shell, bounds>>

Last(s, n) == SubSeq(s, IF Len(s) > n THEN Len(s) - n + 1 ELSE 1, Len(s))

Init ==
  /\ buffer = [k \in Kinds |-> <<>>] /\ pending = [k \in Kinds |-> FALSE]
  /\ cap = [k \in Kinds |-> IF k = "progress" THEN 1 ELSE FirstLimit]
  /\ closed = FALSE /\ publisher = [p \in Publishers |-> <<"idle", "none">>]
  /\ signals = <<>> /\ timer = FALSE /\ gui = "idle" /\ want = 0
  /\ rows = [k \in Kinds |-> <<>>]
  /\ limit = [k \in Kinds |-> IF k = "progress" THEN 1 ELSE FirstLimit]
  /\ ending = FALSE /\ count = [k \in Kinds |-> 0] /\ changes = 0
  /\ cleared = [k \in Kinds |-> 0] /\ raised = FALSE

-----------------------------------------------------------------------------
(***************************************************************************)
(* publish.                                                                *)
(***************************************************************************)
At(p, place) == publisher[p][1] = place
Moves(p, place, k) == publisher' = [publisher EXCEPT ![p] = <<place, k>>]

Total == [k \in Kinds |-> count[k] + Cardinality({p \in Publishers : publisher[p] = <<"append", k>>})]

Publish(p, k) ==
  /\ At(p, "idle") /\ Total[k] < MaxItems /\ closed = FALSE
  /\ Moves(p, "append", k)
  /\ UNCHANGED <<events, signals, shell, bounds>>

\* Whether a signal for kind k is already due: the flag, or for progress the
\* value that waits.
Due(k) == IF k = "progress" THEN buffer[k] # <<>> ELSE pending[k]

AppendItem(p) == LET k == publisher[p][2] IN
  /\ At(p, "append")
  /\ buffer' = [buffer EXCEPT ![k] = Last(Append(@, count[k] + 1), cap[k])]
  /\ count' = [count EXCEPT ![k] = @ + 1]
  /\ pending' = [pending EXCEPT ![k] = TRUE]
  /\ IF Due(k) THEN Moves(p, "idle", "none") ELSE Moves(p, "notify", k)
  /\ UNCHANGED <<cap, closed, signals, shell, changes, cleared, raised>>

Emit(p) ==
  /\ At(p, "notify") /\ Moves(p, "idle", "none")
  /\ signals' = Append(signals, publisher[p][2])
  /\ UNCHANGED <<events, shell, bounds>>

Shutdown ==
  /\ ending = FALSE /\ \A i \in 1..Len(signals) : signals[i] # "end"
  /\ signals' = Append(signals, "end")
  /\ UNCHANGED <<events, publisher, shell, bounds>>

-----------------------------------------------------------------------------
(***************************************************************************)
(* The GUI thread.                                                         *)
(***************************************************************************)
\* take_*.  Mutants: the flag stays up; the items stay.
TakeCopy(k) == pending' = [pending EXCEPT ![k] = FALSE] /\ UNCHANGED buffer
TakeKeepFlag(k) == buffer' = [buffer EXCEPT ![k] = <<>>] /\ UNCHANGED pending
Take(k) ==
  /\ buffer' = [buffer EXCEPT ![k] = <<>>]
  /\ pending' = [pending EXCEPT ![k] = FALSE]

\* append_batch.  Mutants: the batch is not cut; the new rows are dropped
\* when the list is full.
Uncut(old, new, n) == old \o new
KeepOldest(old, new, n) == SubSeq(old \o new, 1, IF Len(old \o new) < n THEN Len(old \o new) ELSE n)
AppendBatch(old, new, n) == Last(old \o Last(new, n), n)

Receive(k) == rows' = [rows EXCEPT ![k] = AppendBatch(@, buffer[k], limit[k])]

Idle == gui = "idle" /\ ending = FALSE

\* _schedule_comments.
Schedule == timer' = (timer \/ ~ending)

Signal(k) == signals # <<>> /\ Head(signals) = k /\ gui = "idle" /\ signals' = Tail(signals)

DeliverReady == \E k \in Timed :
  /\ Signal(k) /\ Schedule
  /\ UNCHANGED <<events, publisher, gui, want, rows, limit, ending, bounds>>

RefreshProgress ==
  /\ Signal("progress") /\ Take("progress")
  /\ IF ending THEN UNCHANGED rows ELSE Receive("progress")
  /\ UNCHANGED <<cap, closed, publisher, timer, gui, want, limit, ending, bounds>>

\* _flush_comments: the logs, then the comments.
FlushLogs ==
  /\ Idle /\ timer /\ timer' = FALSE /\ gui' = "flush"
  /\ IF "log" \in Kinds THEN Take("log") /\ Receive("log") ELSE UNCHANGED <<buffer, pending, rows>>
  /\ UNCHANGED <<cap, closed, publisher, signals, want, limit, ending, bounds>>

FlushComments ==
  /\ gui = "flush" /\ gui' = "idle"
  /\ IF "comment" \in Kinds THEN Take("comment") /\ Receive("comment")
                            ELSE UNCHANGED <<buffer, pending, rows>>
  /\ UNCHANGED <<cap, closed, publisher, signals, timer, want, limit, ending, bounds>>

\* clear_all_logs: the text and the logs, then the comments and the rows.
ClearKind(k) ==
  /\ Take(k) /\ rows' = [rows EXCEPT ![k] = <<>>] /\ cleared' = [cleared EXCEPT ![k] = count[k]]

ClearLogs ==
  /\ Idle /\ changes < MaxChanges /\ changes' = changes + 1 /\ gui' = "clear"
  /\ IF "log" \in Kinds THEN ClearKind("log") ELSE UNCHANGED <<buffer, pending, rows, cleared>>
  /\ UNCHANGED <<cap, closed, publisher, signals, timer, want, limit, ending, count, raised>>

ClearComments ==
  /\ gui = "clear" /\ gui' = "idle"
  /\ IF "comment" \in Kinds THEN ClearKind("comment") ELSE UNCHANGED <<buffer, pending, rows, cleared>>
  /\ UNCHANGED <<cap, closed, publisher, signals, timer, want, limit, ending, count, changes, raised>>

\* _apply_resources: the limit of the list, then those of the buffers; the
\* block limit of the log follows its buffer.
LimitRows(k, n) ==
  /\ limit' = [limit EXCEPT ![k] = n] /\ rows' = [rows EXCEPT ![k] = Last(@, n)]
LimitBuffer(k, n) ==
  /\ cap' = [cap EXCEPT ![k] = n] /\ buffer' = [buffer EXCEPT ![k] = Last(@, n)]

Limit == \E n \in Limits :
  /\ Idle /\ changes < MaxChanges /\ changes' = changes + 1
  /\ gui' = "limit" /\ want' = n
  /\ raised' = (raised \/ \E k \in Timed : n > limit[k])
  /\ IF "comment" \in Kinds THEN LimitRows("comment", n) ELSE UNCHANGED <<rows, limit>>
  /\ UNCHANGED <<events, publisher, signals, timer, ending, count, cleared>>

LimitComments ==
  /\ gui = "limit" /\ gui' = "logs"
  /\ IF "comment" \in Kinds THEN LimitBuffer("comment", want) ELSE UNCHANGED <<cap, buffer>>
  /\ UNCHANGED <<pending, closed, publisher, signals, timer, want, rows, limit, ending, bounds>>

LimitLogs ==
  /\ gui = "logs" /\ gui' = "idle"
  /\ IF "log" \in Kinds THEN LimitBuffer("log", want) /\ LimitRows("log", want)
                        ELSE UNCHANGED <<cap, buffer, rows, limit>>
  /\ UNCHANGED <<pending, closed, publisher, signals, timer, want, ending, bounds>>

\* ShutdownCompleted: the presenter is closed and stops its timer; then the
\* events are closed and emptied.
End ==
  /\ Signal("end") /\ ending' = TRUE /\ timer' = FALSE /\ gui' = "end"
  /\ UNCHANGED <<events, publisher, want, rows, limit, bounds>>

CloseEvents ==
  /\ gui = "end" /\ gui' = "idle" /\ closed' = TRUE
  /\ buffer' = [k \in Kinds |-> <<>>]
  /\ UNCHANGED <<pending, cap, publisher, signals, timer, want, rows, limit, ending, bounds>>

-----------------------------------------------------------------------------
Gui == \/ DeliverReady \/ RefreshProgress \/ FlushLogs \/ FlushComments
       \/ ClearComments \/ LimitComments \/ LimitLogs \/ End \/ CloseEvents

Next ==
  \/ \E p \in Publishers : (\E k \in Kinds : Publish(p, k)) \/ AppendItem(p) \/ Emit(p)
  \/ Gui \/ ClearLogs \/ Limit \/ Shutdown

Spec == Init /\ [][Next]_vars

\* Qt's event loop and the publishing threads run; users and news are free.
FairSpec == Spec /\ WF_vars(Gui)
                 /\ \A p \in Publishers : WF_vars(AppendItem(p) \/ Emit(p))

-----------------------------------------------------------------------------
\* The variables have their types, and no buffer or list exceeds its limit.
TypeOK ==
  /\ buffer \in [Kinds -> Seq(1..MaxItems)] /\ pending \in [Kinds -> BOOLEAN]
  /\ \A k \in Kinds : Len(buffer[k]) <= cap[k] /\ Len(rows[k]) <= limit[k]
  /\ cap \in [Kinds -> Nat \ {0}] /\ limit \in [Kinds -> Nat \ {0}]
  /\ publisher \in [Publishers -> {"idle", "append", "notify"} \X (Kinds \union {"none"})]
  /\ signals \in Seq(Kinds \union {"end"}) /\ timer \in BOOLEAN
  /\ gui \in {"idle", "flush", "clear", "limit", "logs", "end"} /\ rows \in [Kinds -> Seq(1..MaxItems)]
  /\ closed \in BOOLEAN /\ ending \in BOOLEAN

\* Something that will make the GUI thread take kind k.
OnItsWay(k) ==
  \/ \E p \in Publishers : publisher[p] = <<"notify", k>>
  \/ \E i \in 1..Len(signals) : signals[i] = k
  \/ k \in Timed /\ timer
  \/ k = "comment" /\ gui = "flush"

\* As long as the window lives, what waits in a buffer has a signal, a timer
\* or a refresh under way that will take it: the flag that saves signals
\* never swallows the last one (events.py:35-56, presenter.py:223-243).
NothingStranded == \A k \in Kinds : buffer[k] # <<>> /\ ~ending => OnItsWay(k)

Quiet(k) == buffer[k] = <<>> /\ gui = "idle" /\ ~ending

\* When nothing waits, the list holds the newest items since the last
\* clearing, without a gap and as many as the limit allows, although the
\* buffer and the list drop old ones independently.  A limit that was
\* raised is excepted (model.py:34-53, events.py:75-77).
NewestAreShown == \A k \in Kinds : Quiet(k) /\ ~raised =>
  /\ Len(rows[k]) >= IF count[k] - cleared[k] < limit[k] THEN count[k] - cleared[k] ELSE limit[k]
  /\ \A i \in 1..Len(rows[k]) : rows[k][i] = count[k] - Len(rows[k]) + i

\* What is shown stays in the order in which it was published, whatever the
\* limits did.
InOrder == \A k \in Kinds :
  LET all == rows[k] \o buffer[k] IN \A i, j \in 1..Len(all) : i < j => all[i] < all[j]

\* Everything that waits is taken, unless the program ends.
Taken == \A k \in Kinds : (buffer[k] # <<>>) ~> (buffer[k] = <<>> \/ ending)
=============================================================================
