------------------------------- MODULE Monitor -------------------------------
(***************************************************************************)
(* The measurements: the monitor thread of the session                     *)
(* (core/session/service.py), the history it fills, the GUI thread that    *)
(* asks for what is visible (desktop/shell/presenter.py), and the one      *)
(* notice between them (desktop/events.py).  A measurement is known by the *)
(* request the collector was set to when it was taken.                     *)
(***************************************************************************)
EXTENDS Integers, Sequences, SequencesExt

CONSTANTS
  Requests,    \* what may be measured for a view
  Suspended,   \* the empty request
  MaxViews,    \* bound: changes of what is visible
  MaxFailed    \* bound: measurements that fail

MonitorAssumption ==
  /\ Suspended \in Requests /\ MaxViews \in Nat /\ MaxFailed \in Nat

VARIABLES
  request, revision, sampleRevision, changes, catalog,  \* under the lock of the session
  stored,        \* MetricsStore: the request of the last measurement
  lock,          \* the monitor thread holds the lock of the session
  wake, closing, shutdown,  \* _monitor_wake, _closing, _shutdown
  collector,     \* the request that the native collector is set to
  monitor,       \* the monitor thread: place and locals
  due,           \* next_sample has passed
  pending, news, \* DesktopEvents
  view, scheduled, gui, shown,  \* the GUI thread and what it displays
  unread,        \* history: stored has not been read
  asks,          \* history: the state of a request for the catalog
  count          \* changes of the view and failures so far

session == <<request, revision, sampleRevision, changes, catalog, stored, lock>>
flags == <<wake, closing, shutdown>>
thread == <<collector, monitor, due>>
screen == <<view, scheduled, gui, shown>>
vars == <<session, flags, thread, pending, news, screen, unread, asks, count>>

NoChanges == <<>>
Local == [pc |-> "top", changes |-> NoChanges, request |-> Suspended, revision |-> 0,
          discover |-> FALSE, sample |-> Suspended]

Init ==
  /\ request = Suspended /\ revision = 0 /\ sampleRevision = -1 /\ changes = NoChanges /\ catalog = FALSE
  /\ stored = Suspended /\ lock = FALSE
  /\ wake = FALSE /\ closing = FALSE /\ shutdown = FALSE
  /\ collector = Suspended /\ monitor = Local /\ due = TRUE
  /\ pending = FALSE /\ news = <<>>
  /\ view = Suspended /\ scheduled = TRUE /\ gui = "idle" /\ shown = Suspended
  /\ unread = FALSE /\ asks = "no" /\ count = [view |-> 0, failed |-> 0]

Counts(what, max) == count[what] < max /\ count' = [count EXCEPT ![what] = @ + 1]
At(place) == monitor.pc = place
GoTo(place) == monitor' = [monitor EXCEPT !.pc = place]
Post(event) == news' = IF gui = "closed" THEN news ELSE Append(news, event)

-----------------------------------------------------------------------------
(***************************************************************************)
(* The monitor thread: _observe.                                           *)
(***************************************************************************)
Top ==
  /\ At("top") /\ GoTo(IF shutdown THEN "ended" ELSE "clear")
  /\ UNCHANGED <<session, flags, collector, due, pending, news, screen, unread, asks, count>>

Clear ==
  /\ At("clear") /\ GoTo("take") /\ wake' = FALSE
  /\ UNCHANGED <<session, closing, shutdown, collector, due, pending, news, screen, unread, asks, count>>

\* What was asked for since the last time.  Mutant: the devices are left for
\* later when the view has changed, and forgotten.
TakeOne ==
  /\ At("take") /\ ~lock
  /\ monitor' = [monitor EXCEPT !.pc = "set", !.changes = changes, !.request = request,
                                !.revision = revision, !.discover = (catalog /\ changes = NoChanges)]
  /\ changes' = NoChanges /\ catalog' = FALSE
  /\ UNCHANGED <<request, revision, sampleRevision, stored, lock, flags, collector, due, pending, news,
                 screen, unread, asks, count>>
Take ==
  /\ At("take") /\ ~lock
  /\ monitor' = [monitor EXCEPT !.pc = "set", !.changes = changes, !.request = request,
                                !.revision = revision, !.discover = catalog]
  /\ changes' = NoChanges /\ catalog' = FALSE
  /\ UNCHANGED <<request, revision, sampleRevision, stored, lock, flags, collector, due, pending, news,
                 screen, unread, asks, count>>

\* Every change reaches the collector, in order.  Mutant: it is only told
\* when nothing else is to be done.
SetRequestUnlessDiscovering ==
  /\ At("set") /\ GoTo("discover")
  /\ collector' = IF monitor.changes = NoChanges \/ monitor.discover THEN collector ELSE Last(monitor.changes)
  /\ UNCHANGED <<session, flags, due, pending, news, screen, unread, asks, count>>
SetRequest ==
  /\ At("set") /\ GoTo("discover")
  /\ collector' = IF monitor.changes = NoChanges THEN collector ELSE Last(monitor.changes)
  /\ UNCHANGED <<session, flags, due, pending, news, screen, unread, asks, count>>

\* The devices are looked for, or that fails and the rest is left to the
\* next second.
Discover ==
  /\ At("discover")
  /\ \/ /\ GoTo("sample") /\ due' = (due \/ monitor.changes # NoChanges)
        /\ IF monitor.discover THEN Post("catalog") ELSE UNCHANGED news
        /\ UNCHANGED <<asks, count>>
     \/ /\ monitor.discover /\ Counts("failed", MaxFailed)
        /\ GoTo("wait") /\ due' = FALSE /\ asks' = "failed" /\ UNCHANGED news
  /\ UNCHANGED <<session, flags, collector, pending, screen, unread>>

Sample ==
  /\ At("sample")
  /\ LET wanted == monitor.request # Suspended /\ due
     IN  \/ ~wanted /\ GoTo("wait") /\ UNCHANGED <<due, count>>
         \/ wanted /\ monitor' = [monitor EXCEPT !.pc = "record", !.sample = collector] /\ UNCHANGED <<due, count>>
         \/ wanted /\ Counts("failed", MaxFailed) /\ GoTo("wait") /\ due' = FALSE
  /\ UNCHANGED <<session, flags, collector, pending, news, screen, unread, asks>>

\* A measurement for an earlier request is dropped.  Mutant: it is stored
\* under the request of now.
RecordAny ==
  /\ At("record") /\ ~lock /\ ~closing
  /\ stored' = monitor.sample /\ sampleRevision' = revision /\ unread' = TRUE
  /\ lock' = TRUE /\ GoTo("publish")
  /\ UNCHANGED <<request, revision, changes, catalog, flags, collector, due, pending, news, screen, asks, count>>
Record ==
  /\ At("record") /\ ~lock
  /\ IF ~closing /\ monitor.revision = revision
     THEN /\ stored' = monitor.sample /\ sampleRevision' = revision /\ unread' = TRUE
          /\ lock' = TRUE /\ GoTo("publish") /\ UNCHANGED due
     ELSE GoTo("wait") /\ due' = FALSE /\ UNCHANGED <<stored, sampleRevision, unread, lock>>
  /\ UNCHANGED <<request, revision, changes, catalog, flags, collector, pending, news, screen, asks, count>>

\* DesktopEvents.publish, still under the lock of the session: one notice is
\* enough.  Mutant: the lock is kept when nothing is sent.
PublishHolding ==
  /\ At("publish") /\ GoTo("wait") /\ due' = FALSE
  /\ IF pending \/ gui = "closed" THEN UNCHANGED <<pending, news, lock>>
     ELSE pending' = TRUE /\ Post("metrics") /\ lock' = FALSE
  /\ UNCHANGED <<request, revision, sampleRevision, changes, catalog, stored, flags, collector, screen,
                 unread, asks, count>>
Publish ==
  /\ At("publish") /\ GoTo("wait") /\ lock' = FALSE /\ due' = FALSE
  /\ IF pending \/ gui = "closed" THEN UNCHANGED <<pending, news>> ELSE pending' = TRUE /\ Post("metrics")
  /\ UNCHANGED <<request, revision, sampleRevision, changes, catalog, stored, flags, collector, screen,
                 unread, asks, count>>

\* The wait ends because it is woken or after at most a second, when the next
\* measurement is due.  Mutant: a suspended monitor waits until it is woken.
WaitWoken ==
  /\ At("wait") /\ GoTo("top")
  /\ \/ wake /\ due' \in {due, TRUE}
     \/ monitor.request # Suspended /\ due' = TRUE
  /\ UNCHANGED <<session, flags, collector, pending, news, screen, unread, asks, count>>
Wait ==
  /\ At("wait") /\ GoTo("top")
  /\ \/ wake /\ due' \in {due, TRUE}
     \/ due' = TRUE
  /\ UNCHANGED <<session, flags, collector, pending, news, screen, unread, asks, count>>

Observe == Top \/ Clear \/ Take \/ SetRequest \/ Discover \/ Sample \/ Record \/ Publish \/ Wait

-----------------------------------------------------------------------------
(***************************************************************************)
(* The GUI thread.                                                         *)
(***************************************************************************)
\* A window is shown, hidden or minimised: _schedule_metrics_request.
ChangeView(r) ==
  /\ gui = "idle" /\ r # view /\ Counts("view", MaxViews)
  /\ view' = r /\ scheduled' = TRUE
  /\ UNCHANGED <<session, flags, thread, pending, news, gui, shown, unread, asks>>

\* _update_metrics_request and set_metrics_request; _refresh_metrics follows.
UpdateRequest ==
  /\ gui = "idle" /\ scheduled /\ ~lock
  /\ scheduled' = FALSE /\ gui' = "acknowledge"
  /\ IF closing \/ view = request THEN UNCHANGED <<request, revision, changes, wake>>
     ELSE /\ request' = view /\ revision' = revision + 1
          /\ changes' = Append(changes, view) /\ wake' = TRUE
  /\ UNCHANGED <<sampleRevision, catalog, stored, lock, closing, shutdown, thread, pending, news, view,
                 shown, unread, asks, count>>

\* The settings dialog is opened: refresh_metric_catalog.
AskCatalog ==
  /\ gui = "idle" /\ ~lock /\ ~closing /\ asks = "no"
  /\ asks' = "asked" /\ catalog' = TRUE /\ wake' = TRUE
  /\ UNCHANGED <<request, revision, sampleRevision, changes, stored, lock, closing, shutdown, thread, pending,
                 news, screen, unread, count>>

\* _on_event
Deliver ==
  /\ gui = "idle" /\ news # <<>> /\ news' = Tail(news)
  /\ gui' = CASE Head(news) = "metrics" -> "acknowledge"
              [] Head(news) = "catalog" -> "idle"
              [] Head(news) = "completed" -> "closed"
  /\ asks' = IF Head(news) = "catalog" THEN "answered" ELSE asks
  /\ UNCHANGED <<session, flags, thread, pending, view, scheduled, shown, unread, count>>

\* _refresh_metrics: the notice is taken back before the history is read.
\* Mutant: it is not taken back.
KeepPending ==
  /\ gui = "acknowledge" /\ gui' = "read"
  /\ UNCHANGED <<session, flags, thread, pending, news, view, scheduled, shown, unread, asks, count>>
Acknowledge ==
  /\ gui = "acknowledge" /\ gui' = "read" /\ pending' = FALSE
  /\ UNCHANGED <<session, flags, thread, news, view, scheduled, shown, unread, asks, count>>

Read ==
  /\ gui = "read" /\ ~lock /\ gui' = "idle"
  /\ IF sampleRevision = revision THEN shown' = stored /\ unread' = FALSE ELSE UNCHANGED <<shown, unread>>
  /\ UNCHANGED <<session, flags, thread, pending, news, view, scheduled, asks, count>>

-----------------------------------------------------------------------------
(***************************************************************************)
(* The end: shutdown in the GUI thread, and the control thread that waits  *)
(* for the monitor before it reports completion.                           *)
(***************************************************************************)
Close ==
  /\ gui = "idle" /\ ~lock /\ ~closing /\ closing' = TRUE
  /\ UNCHANGED <<session, wake, shutdown, thread, pending, news, screen, unread, asks, count>>

Shutdown ==
  /\ closing /\ ~shutdown /\ shutdown' = TRUE /\ wake' = TRUE
  /\ UNCHANGED <<session, closing, thread, pending, news, screen, unread, asks, count>>

\* Mutant: the monitor is not waited for.
CompleteUnjoined ==
  /\ shutdown /\ gui # "closed" /\ ~At("completed") /\ \A i \in DOMAIN news : news[i] # "completed"
  /\ Post("completed") /\ UNCHANGED monitor
  /\ UNCHANGED <<session, flags, collector, due, pending, screen, unread, asks, count>>
Complete ==
  /\ shutdown /\ At("ended")
  /\ Post("completed") /\ GoTo("completed")
  /\ UNCHANGED <<session, flags, collector, due, pending, screen, unread, asks, count>>

Next ==
  \/ Observe
  \/ \E r \in Requests : ChangeView(r)
  \/ UpdateRequest \/ AskCatalog \/ Deliver \/ Acknowledge \/ Read
  \/ Close \/ Shutdown \/ Complete

Spec == Init /\ [][Next]_vars

Fairness ==
  /\ WF_vars(Observe) /\ WF_vars(Complete) /\ WF_vars(Shutdown)
  /\ WF_vars(Deliver) /\ WF_vars(Acknowledge) /\ SF_vars(Read) /\ SF_vars(UpdateRequest)
LiveSpec == Spec /\ Fairness

-----------------------------------------------------------------------------
Places == {"top", "clear", "take", "set", "discover", "sample", "record", "publish", "wait", "ended", "completed"}

\* The shape of the state.
TypeOK ==
  /\ {request, stored, collector, view, shown} \subseteq Requests
  /\ revision \in 0 .. MaxViews + 1 /\ sampleRevision \in -1 .. revision
  /\ monitor.pc \in Places /\ lock = At("publish")
  /\ gui \in {"idle", "acknowledge", "read", "closed"}
  /\ \A i \in DOMAIN news : news[i] \in {"metrics", "catalog", "completed"}

\* What the history holds for the request of now was measured for it: what is
\* displayed after a change of the view never mixes in the one before.
SampleIsForRequest == sampleRevision = revision => stored = request

\* A measurement that is to be displayed is on its way: a notice is under
\* way, about to be sent, or the history is about to be read.
NoticeIsComing ==
  unread /\ sampleRevision = revision =>
    \/ \E i \in DOMAIN news : news[i] = "metrics"
    \/ At("publish") \/ gui \in {"acknowledge", "read", "closed"}

\* The monitor sends nothing after the completion is reported, when the
\* collector has been closed.
CompletedIsLast ==
  [][(\E i \in DOMAIN news : news[i] = "completed") => Len(news') <= Len(news)]_vars

\* What is visible is displayed in the end, though changes come in while a
\* measurement is taken.
ViewIsShown ==
  \A r \in Requests \ {Suspended} : view = r ~> shown = r \/ view # r \/ closing

\* A dialog that asks for the devices gets an answer or a message, unless the
\* program ends.
CatalogIsAnswered == asks = "asked" ~> asks # "asked" \/ closing

\* The program ends.
Completes == closing ~> At("completed")
=============================================================================
