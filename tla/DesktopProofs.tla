---------------------------- MODULE DesktopProofs ----------------------------
(***************************************************************************)
(* Proofs about the desktop, for every value of the constants of           *)
(* MCDesktop: the monitor, the comment window, the dialog that edits the   *)
(* settings while others save, and the file that keeps them.  A component  *)
(* that runs keeps the invariant that its section states, and the others   *)
(* stay as they start.                                                     *)
(***************************************************************************)
EXTENDS FeedProofs

-----------------------------------------------------------------------------
(***************************************************************************)
(* The measurements.  What the collector was told and what it is still to  *)
(* be told end with the request of now; so a measurement that was begun    *)
(* for the revision of now was taken for the request of now.  A notice     *)
(* that is held back is held back for one that is on its way.              *)
(***************************************************************************)
Watched == {nothing, every}
Notices == {"metrics", "catalog", "completed"}
Watchers == [pc : Metrics!Places, changes : Seq(Watched), request : Watched, revision : Nat,
             discover : BOOLEAN, sample : Watched]

SampleType ==
  /\ request \in Watched /\ stored \in Watched /\ collector \in Watched /\ view \in Watched
  /\ updates \in Seq(Watched) /\ revision \in Nat /\ sampleRevision \in Int /\ catalog \in BOOLEAN
WatcherType ==
  /\ monitor \in Watchers /\ monitor.revision <= revision /\ sampleRevision <= revision
NoticeType ==
  /\ notices \in Seq(Notices) /\ screen \in {"idle", "acknowledge", "read", "closed"}
  /\ lock = (monitor.pc = "publish")

Latest(told, set) == IF told = <<>> THEN set ELSE Metrics!Last(told)
ToldInOrder == Latest(updates, IF monitor.pc = "set" THEN Latest(monitor.changes, collector) ELSE collector) = request
NothingNewer ==
  monitor.pc \in {"set", "discover", "sample"} /\ monitor.revision = revision => updates = <<>>
MeasuredForIt == monitor.pc = "record" /\ monitor.revision = revision => monitor.sample = request
SampleInv == SampleType /\ WatcherType /\ ToldInOrder /\ NothingNewer /\ MeasuredForIt /\ Metrics!SampleIsForRequest

Sent(what) == \E i \in DOMAIN notices : notices[i] = what
NoticeKept == notice => Sent("metrics") \/ screen \in {"acknowledge", "closed"}
EndsOnce == Sent("completed") => monitor.pc = "completed"
NoticeInv == NoticeType /\ NoticeKept /\ EndsOnce /\ Metrics!NoticeIsComing
MonitorInv == part = "metrics" => SampleInv /\ NoticeInv

\* Both invariants of the monitor hold at the start.
LEMMA MonitorInit == ASSUME Metrics!Init PROVE SampleInv /\ NoticeInv
<1>1. SampleType
  <2>1. request = nothing /\ stored = nothing /\ collector = nothing /\ view = nothing /\ updates = <<>>
        /\ revision = 0 /\ sampleRevision = -1 /\ catalog = FALSE
    BY DEF Metrics!Init, Metrics!NoChanges
  <2>2. updates \in Seq(Watched)
    BY <2>1, EmptySeq
  <2>3. catalog \in BOOLEAN
    BY <2>1
  <2>4. revision \in Nat /\ sampleRevision \in Int
    BY <2>1
  <2> QED BY <2>1, <2>2, <2>3, <2>4 DEF SampleType, Watched
<1>2. monitor = [pc |-> "top", changes |-> <<>>, request |-> nothing, revision |-> 0,
                 discover |-> FALSE, sample |-> nothing]
      /\ revision = 0 /\ sampleRevision = -1
  BY DEF Metrics!Init, Metrics!Local, Metrics!NoChanges
<1>3. monitor \in Watchers
  BY <1>2, EmptySeq DEF Watchers, Watched, Metrics!Places
<1>4. WatcherType
  BY <1>2, <1>3 DEF WatcherType
<1>5. ToldInOrder /\ NothingNewer /\ MeasuredForIt /\ Metrics!SampleIsForRequest
  BY <1>2 DEF Metrics!Init, Metrics!NoChanges, ToldInOrder, Latest, NothingNewer, MeasuredForIt, Metrics!SampleIsForRequest
<1>6. notices = <<>> /\ notice = FALSE /\ lock = FALSE /\ catalog = FALSE /\ screen = "idle" /\ unread = FALSE
  BY DEF Metrics!Init
<1>7. NoticeType
  BY <1>2, <1>6, EmptySeq DEF NoticeType
<1>8. ~Sent("completed")
  BY <1>6, EmptySeq DEF Sent
<1>9. NoticeKept /\ EndsOnce /\ Metrics!NoticeIsComing
  BY <1>6, <1>8 DEF NoticeKept, EndsOnce, Metrics!NoticeIsComing
<1> QED BY <1>1, <1>4, <1>5, <1>7, <1>9 DEF SampleInv, NoticeInv

\* Changes that are told one after the other end with the last.
LEMMA LatestAppended ==
  ASSUME NEW told \in Seq(Watched), NEW set, NEW r \in Watched
  PROVE  Append(told, r) \in Seq(Watched) /\ Latest(Append(told, r), set) = r
<1>1. Append(told, r) \in Seq(Watched) /\ Len(Append(told, r)) = Len(told) + 1
      /\ Append(told, r)[Len(told) + 1] = r
  BY AppendProperties
<1>2. Len(told) + 1 # 0 /\ Append(told, r) # <<>>
  BY <1>1, LenProperties, EmptySeq
<1> QED BY <1>1, <1>2 DEF Latest, Metrics!Last

\* The latest of the requests told is one that can be watched.
LEMMA LatestTyped ==
  ASSUME NEW told \in Seq(Watched), NEW set \in Watched
  PROVE  Latest(told, set) \in Watched
<1>1. CASE told = <<>>
  BY <1>1 DEF Latest
<1>2. CASE told # <<>>
  <2>1. Len(told) \in 1 .. Len(told)
    BY <1>2, EmptySeq, LenProperties
  <2> QED BY <1>2, <2>1, ElementOfSeq DEF Latest, Metrics!Last
<1> QED BY <1>1, <1>2

\* A step of the monitor thread to another place keeps its local variables.
LEMMA WatcherMoves ==
  ASSUME monitor \in Watchers, NEW place \in Metrics!Places, monitor' = [monitor EXCEPT !.pc = place]
  PROVE  /\ monitor' \in Watchers /\ monitor'.pc = place
         /\ monitor'.changes = monitor.changes /\ monitor'.request = monitor.request
         /\ monitor'.revision = monitor.revision /\ monitor'.discover = monitor.discover
         /\ monitor'.sample = monitor.sample
BY DEF Watchers

\* What leaves the session and the monitor thread alone, or only moves the
\* thread between places at which nothing is claimed.
LEMMA SampleRests ==
  ASSUME SampleInv, view' \in Watched,
         UNCHANGED <<request, revision, sampleRevision, updates, stored, collector, monitor>>, catalog' \in BOOLEAN
  PROVE  SampleInv'
BY DEF SampleInv, SampleType, WatcherType, ToldInOrder, Latest, NothingNewer, MeasuredForIt, Metrics!SampleIsForRequest

\* A step that reads no request and takes no measurement keeps the
\* invariant of the samples.
LEMMA SampleMoves ==
  ASSUME SampleInv, UNCHANGED <<request, revision, sampleRevision, updates, catalog, stored, collector, view>>,
         NEW place \in Metrics!Places, monitor' = [monitor EXCEPT !.pc = place],
         monitor.pc # "set", place \notin {"set", "discover", "record"}, place = "sample" => monitor.pc = "discover"
  PROVE  SampleInv'
<1>1. monitor' \in Watchers /\ monitor'.pc = place /\ monitor'.revision = monitor.revision
  BY WatcherMoves DEF SampleInv, WatcherType
<1>2. SampleType' /\ Metrics!SampleIsForRequest'
  BY DEF SampleInv, SampleType, Metrics!SampleIsForRequest
<1>3. WatcherType'
  BY <1>1 DEF SampleInv, WatcherType
<1>4. ToldInOrder'
  BY <1>1 DEF SampleInv, ToldInOrder, Latest
<1>5. NothingNewer' /\ MeasuredForIt'
  BY <1>1 DEF SampleInv, NothingNewer, MeasuredForIt
<1> QED BY <1>2, <1>3, <1>4, <1>5 DEF SampleInv

\* What waits is taken with the request and the revision of now.
LEMMA SampleTaken == ASSUME SampleInv, Metrics!Take PROVE SampleInv'
<1>1. /\ monitor.pc = "take" /\ updates' = <<>> /\ catalog' = FALSE
      /\ monitor' = [monitor EXCEPT !.pc = "set", !.changes = updates, !.request = request,
                                    !.revision = revision, !.discover = catalog]
      /\ UNCHANGED <<request, revision, sampleRevision, stored, collector, view>>
  BY DEF Metrics!Take, Metrics!At, Metrics!NoChanges, Metrics!flags, Metrics!thread, Metrics!screen
<1>2. monitor \in Watchers /\ updates \in Seq(Watched) /\ request \in Watched /\ revision \in Nat /\ catalog \in BOOLEAN
  BY DEF SampleInv, SampleType, WatcherType
<1>3. /\ monitor'.pc = "set" /\ monitor'.changes = updates /\ monitor'.revision = revision
      /\ monitor' = [pc |-> "set", changes |-> updates, request |-> request, revision |-> revision,
                     discover |-> catalog, sample |-> monitor.sample]
  BY <1>1, <1>2 DEF Watchers
<1>4. monitor' \in Watchers
  BY <1>2, <1>3 DEF Watchers, Metrics!Places
<1>5. SampleType' /\ Metrics!SampleIsForRequest'
  BY <1>1, EmptySeq DEF SampleInv, SampleType, Metrics!SampleIsForRequest
<1>6. WatcherType'
  BY <1>1, <1>2, <1>3, <1>4 DEF SampleInv, WatcherType
<1>7. ToldInOrder'
  BY <1>1, <1>3 DEF SampleInv, ToldInOrder, Latest
<1>8. NothingNewer' /\ MeasuredForIt'
  BY <1>1, <1>3 DEF NothingNewer, MeasuredForIt
<1> QED BY <1>5, <1>6, <1>7, <1>8 DEF SampleInv

\* The collector is told the last of them.
LEMMA SampleTold == ASSUME SampleInv, Metrics!SetRequest PROVE SampleInv'
<1>1. /\ monitor.pc = "set" /\ monitor' = [monitor EXCEPT !.pc = "discover"]
      /\ collector' = Latest(monitor.changes, collector)
      /\ UNCHANGED <<request, revision, sampleRevision, updates, catalog, stored, view>>
  BY DEF Metrics!SetRequest, Metrics!At, Metrics!GoTo, Metrics!NoChanges, Metrics!session, Metrics!screen, Latest
<1>2. monitor \in Watchers /\ monitor.changes \in Seq(Watched) /\ collector \in Watched
  BY DEF SampleInv, SampleType, WatcherType, Watchers
<1>3. collector' \in Watched
  BY <1>1, <1>2, LatestTyped
<1>4. monitor' \in Watchers /\ monitor'.pc = "discover" /\ monitor'.revision = monitor.revision
  BY <1>1, <1>2, WatcherMoves DEF Metrics!Places
<1>5. SampleType' /\ Metrics!SampleIsForRequest'
  BY <1>1, <1>3 DEF SampleInv, SampleType, Metrics!SampleIsForRequest
<1>6. WatcherType'
  BY <1>1, <1>4 DEF SampleInv, WatcherType
<1>7. Latest(updates, collector') = request
  BY <1>1 DEF SampleInv, ToldInOrder
<1>8. ToldInOrder'
  BY <1>1, <1>4, <1>7 DEF ToldInOrder, Latest
<1>9. NothingNewer' /\ MeasuredForIt'
  BY <1>1, <1>4 DEF SampleInv, NothingNewer, MeasuredForIt
<1> QED BY <1>5, <1>6, <1>8, <1>9 DEF SampleInv

\* A measurement is of what the collector was told.
LEMMA SampleMeasured ==
  ASSUME SampleInv, monitor.pc = "sample",
         monitor' = [monitor EXCEPT !.pc = "record", !.sample = collector],
         UNCHANGED <<request, revision, sampleRevision, updates, catalog, stored, collector, view>>
  PROVE  SampleInv'
<1>1. monitor \in Watchers /\ collector \in Watched
  BY DEF SampleInv, SampleType, WatcherType
<1>2. /\ monitor'.pc = "record" /\ monitor'.sample = collector /\ monitor'.revision = monitor.revision
      /\ monitor' = [pc |-> "record", changes |-> monitor.changes, request |-> monitor.request,
                     revision |-> monitor.revision, discover |-> monitor.discover, sample |-> collector]
  BY <1>1 DEF Watchers
<1>3. monitor' \in Watchers
  BY <1>1, <1>2 DEF Watchers, Metrics!Places
<1>4. SampleType' /\ Metrics!SampleIsForRequest'
  BY DEF SampleInv, SampleType, Metrics!SampleIsForRequest
<1>5. WatcherType'
  BY <1>2, <1>3 DEF SampleInv, WatcherType
<1>6. ToldInOrder' /\ NothingNewer'
  BY <1>2 DEF SampleInv, ToldInOrder, NothingNewer, Latest
<1>7. monitor.revision = revision => collector = request
  BY DEF SampleInv, NothingNewer, ToldInOrder, Latest
<1>8. MeasuredForIt'
  BY <1>2, <1>7 DEF MeasuredForIt
<1> QED BY <1>4, <1>5, <1>6, <1>8 DEF SampleInv

\* It is stored while the request is that of now, or dropped.
LEMMA SampleRecorded == ASSUME SampleInv, Metrics!Record PROVE SampleInv'
<1>1. monitor.pc = "record" /\ UNCHANGED <<request, revision, updates, catalog, collector, view>>
  BY DEF Metrics!Record, Metrics!At, Metrics!screen
<1>2. CASE ~closing /\ monitor.revision = revision
  <2>1. stored' = monitor.sample /\ sampleRevision' = revision /\ monitor' = [monitor EXCEPT !.pc = "publish"]
    BY <1>2 DEF Metrics!Record, Metrics!GoTo
  <2>2. monitor \in Watchers /\ monitor.sample \in Watched /\ revision \in Nat
    BY DEF SampleInv, SampleType, WatcherType, Watchers
  <2>3. monitor' \in Watchers /\ monitor'.pc = "publish" /\ monitor'.revision = monitor.revision
    BY <2>1, <2>2, WatcherMoves DEF Metrics!Places
  <2>4. SampleType'
    BY <1>1, <2>1, <2>2 DEF SampleInv, SampleType
  <2>5. WatcherType'
    BY <1>1, <2>1, <2>2, <2>3 DEF SampleInv, WatcherType
  <2>6. Metrics!SampleIsForRequest'
    BY <1>1, <1>2, <2>1 DEF SampleInv, MeasuredForIt, Metrics!SampleIsForRequest
  <2>7. ToldInOrder' /\ NothingNewer' /\ MeasuredForIt'
    BY <1>1, <2>3 DEF SampleInv, ToldInOrder, NothingNewer, MeasuredForIt, Latest
  <2> QED BY <2>4, <2>5, <2>6, <2>7 DEF SampleInv
<1>3. CASE ~(~closing /\ monitor.revision = revision)
  <2>1. monitor' = [monitor EXCEPT !.pc = "wait"] /\ UNCHANGED <<stored, sampleRevision>>
    BY <1>3 DEF Metrics!Record, Metrics!GoTo
  <2> QED BY <1>1, <2>1, SampleMoves DEF Metrics!Places
<1> QED BY <1>2, <1>3

\* A new request is of a revision that no measurement has.
LEMMA SampleAsked == ASSUME SampleInv, Metrics!UpdateRequest PROVE SampleInv'
<1>1. UNCHANGED <<sampleRevision, catalog, stored, collector, monitor, view>>
  BY DEF Metrics!UpdateRequest, Metrics!thread
<1>2. CASE closing \/ view = request
  <2>1. UNCHANGED <<request, revision, updates>>
    BY <1>2 DEF Metrics!UpdateRequest
  <2>2. view' \in Watched /\ catalog' \in BOOLEAN
    BY <1>1 DEF SampleInv, SampleType
  <2> QED BY <1>1, <2>1, <2>2, SampleRests
<1>3. CASE ~(closing \/ view = request)
  <2>1. request' = view /\ revision' = revision + 1 /\ updates' = Append(updates, view)
    BY <1>3 DEF Metrics!UpdateRequest
  <2>2. view \in Watched /\ updates \in Seq(Watched) /\ revision \in Nat /\ sampleRevision \in Int
        /\ monitor.revision \in Nat /\ monitor.revision <= revision /\ sampleRevision <= revision
    BY DEF SampleInv, SampleType, WatcherType, Watchers
  <2>3. updates' \in Seq(Watched)
        /\ \A set : Latest(updates', set) = view
    BY <2>1, <2>2, LatestAppended
  <2>4. SampleType'
    BY <1>1, <2>1, <2>2, <2>3 DEF SampleInv, SampleType
  <2>5. revision' \in Nat /\ monitor.revision < revision' /\ sampleRevision < revision'
    BY <2>1, <2>2
  <2>6. WatcherType'
    BY <1>1, <2>2, <2>5 DEF SampleInv, WatcherType
  <2>7. NothingNewer' /\ MeasuredForIt' /\ Metrics!SampleIsForRequest'
    BY <1>1, <2>2, <2>5 DEF NothingNewer, MeasuredForIt, Metrics!SampleIsForRequest
  <2>8. ToldInOrder'
    <3>1. ToldInOrder' = (Latest(updates', IF monitor.pc = "set" THEN Latest(monitor.changes, collector)
                                                                ELSE collector) = request')
      BY <1>1 DEF ToldInOrder, Latest
    <3> QED BY <2>1, <2>3, <3>1
  <2> QED BY <2>4, <2>6, <2>7, <2>8 DEF SampleInv
<1> QED BY <1>2, <1>3

\* Every step of the monitor keeps the invariant of the samples.
LEMMA SampleStep == ASSUME SampleInv, Metrics!Next PROVE SampleInv'
<1> USE DEF Metrics!session, Metrics!flags, Metrics!thread, Metrics!screen, Metrics!At, Metrics!GoTo
<1>t. view \in Watched /\ catalog \in BOOLEAN
  BY DEF SampleInv, SampleType
<1>1. CASE Metrics!Top
  <2>1. PICK place \in {"ended", "clear"} : monitor' = [monitor EXCEPT !.pc = place] /\ monitor.pc = "top"
    BY <1>1 DEF Metrics!Top
  <2>2. UNCHANGED <<request, revision, sampleRevision, updates, catalog, stored, collector, view>>
    BY <1>1 DEF Metrics!Top
  <2> QED BY <2>1, <2>2, SampleMoves DEF Metrics!Places
<1>2. CASE Metrics!Clear
  <2>1. monitor.pc = "clear" /\ monitor' = [monitor EXCEPT !.pc = "take"]
        /\ UNCHANGED <<request, revision, sampleRevision, updates, catalog, stored, collector, view>>
    BY <1>2 DEF Metrics!Clear
  <2> QED BY <2>1, SampleMoves DEF Metrics!Places
<1>3. CASE Metrics!Take
  BY <1>3, SampleTaken
<1>4. CASE Metrics!SetRequest
  BY <1>4, SampleTold
<1>5. CASE Metrics!Discover
  <2>1. PICK place \in {"sample", "wait"} : monitor' = [monitor EXCEPT !.pc = place]
    BY <1>5 DEF Metrics!Discover
  <2>2. monitor.pc = "discover"
        /\ UNCHANGED <<request, revision, sampleRevision, updates, catalog, stored, collector, view>>
    BY <1>5 DEF Metrics!Discover
  <2> QED BY <2>1, <2>2, SampleMoves DEF Metrics!Places
<1>6. CASE Metrics!Sample
  <2>1. monitor.pc = "sample"
        /\ UNCHANGED <<request, revision, sampleRevision, updates, catalog, stored, collector, view>>
    BY <1>6 DEF Metrics!Sample
  <2>2. \/ monitor' = [monitor EXCEPT !.pc = "wait"]
        \/ monitor' = [monitor EXCEPT !.pc = "record", !.sample = collector]
    BY <1>6 DEF Metrics!Sample
  <2>3. CASE monitor' = [monitor EXCEPT !.pc = "wait"]
    BY <2>1, <2>3, SampleMoves DEF Metrics!Places
  <2>4. CASE monitor' = [monitor EXCEPT !.pc = "record", !.sample = collector]
    BY <2>1, <2>4, SampleMeasured
  <2> QED BY <2>2, <2>3, <2>4
<1>7. CASE Metrics!Record
  BY <1>7, SampleRecorded
<1>8. CASE Metrics!Publish
  <2>1. monitor.pc = "publish" /\ monitor' = [monitor EXCEPT !.pc = "wait"]
        /\ UNCHANGED <<request, revision, sampleRevision, updates, catalog, stored, collector, view>>
    BY <1>8 DEF Metrics!Publish
  <2> QED BY <2>1, SampleMoves DEF Metrics!Places
<1>9. CASE Metrics!Wait
  <2>1. monitor.pc = "wait" /\ monitor' = [monitor EXCEPT !.pc = "top"]
        /\ UNCHANGED <<request, revision, sampleRevision, updates, catalog, stored, collector, view>>
    BY <1>9 DEF Metrics!Wait
  <2> QED BY <2>1, SampleMoves DEF Metrics!Places
<1>10. CASE \E r \in {nothing, every} : Metrics!ChangeView(r)
  <2>1. view' \in Watched /\ catalog' \in BOOLEAN
        /\ UNCHANGED <<request, revision, sampleRevision, updates, stored, collector, monitor>>
    BY <1>t, <1>10 DEF Metrics!ChangeView, Watched
  <2> QED BY <2>1, SampleRests
<1>11. CASE Metrics!UpdateRequest
  BY <1>11, SampleAsked
<1>12. CASE Metrics!AskCatalog \/ Metrics!Deliver \/ Metrics!Acknowledge \/ Metrics!Read \/ Metrics!Close \/ Metrics!Shutdown
  <2>1. view' \in Watched /\ catalog' \in BOOLEAN
        /\ UNCHANGED <<request, revision, sampleRevision, updates, stored, collector, monitor>>
    BY <1>t, <1>12 DEF Metrics!AskCatalog, Metrics!Deliver, Metrics!Acknowledge, Metrics!Read, Metrics!Close, Metrics!Shutdown
  <2> QED BY <2>1, SampleRests
<1>13. CASE Metrics!Complete
  <2>1. monitor.pc = "ended" /\ monitor' = [monitor EXCEPT !.pc = "completed"]
        /\ UNCHANGED <<request, revision, sampleRevision, updates, catalog, stored, collector, view>>
    BY <1>13 DEF Metrics!Complete
  <2> QED BY <2>1, SampleMoves DEF Metrics!Places
<1> QED
  BY <1>1, <1>2, <1>3, <1>4, <1>5, <1>6, <1>7, <1>8, <1>9, <1>10, <1>11, <1>12, <1>13 DEF Metrics!Next, Metrics!Observe

\* A notice that is put at the end, and the first that is taken.
LEMMA NoticeSent ==
  ASSUME notices \in Seq(Notices), NEW event \in Notices, notices' = Append(notices, event)
  PROVE  notices' \in Seq(Notices) /\ \A what : Sent(what)' <=> Sent(what) \/ what = event
<1>1. /\ notices' \in Seq(Notices) /\ Len(notices') = Len(notices) + 1
      /\ \A i \in 1 .. Len(notices) : notices'[i] = notices[i]
      /\ notices'[Len(notices) + 1] = event
  BY AppendProperties
<1>2. Len(notices) \in Nat /\ DOMAIN notices = 1 .. Len(notices) /\ DOMAIN notices' = 1 .. Len(notices')
  BY <1>1, LenProperties
<1>3. DOMAIN notices' = DOMAIN notices \cup {Len(notices) + 1}
  BY <1>1, <1>2
<1> QED BY <1>1, <1>2, <1>3 DEF Sent

\* A notice taken is the first one; the others stay sent.
LEMMA NoticeTaken ==
  ASSUME notices \in Seq(Notices), notices # <<>>, notices' = Tail(notices)
  PROVE  /\ Head(notices) \in Notices /\ notices' \in Seq(Notices)
         /\ \A what : Sent(what) => Sent(what)' \/ what = Head(notices)
         /\ \A what : Sent(what)' => Sent(what)
<1>1. /\ Head(notices) \in Notices /\ notices' \in Seq(Notices) /\ Len(notices') = Len(notices) - 1
      /\ \A i \in 1 .. Len(notices') : notices'[i] = notices[i + 1]
  BY HeadTailProperties
<1>2. Len(notices) \in Nat \ {0} /\ DOMAIN notices = 1 .. Len(notices) /\ DOMAIN notices' = 1 .. Len(notices')
  BY <1>1, LenProperties, EmptySeq
<1>3. Head(notices) = notices[1]
  OBVIOUS
<1>4. ASSUME NEW what, NEW i \in DOMAIN notices, notices[i] = what
      PROVE  Sent(what)' \/ what = Head(notices)
  <2>1. i = 1 \/ (i - 1 \in DOMAIN notices' /\ notices'[i - 1] = notices[i])
    BY <1>1, <1>2, <1>4
  <2> QED BY <1>3, <1>4, <2>1 DEF Sent
<1>5. ASSUME NEW what, NEW i \in DOMAIN notices', notices'[i] = what
      PROVE  Sent(what)
  <2>1. i + 1 \in DOMAIN notices /\ notices[i + 1] = what
    BY <1>1, <1>2, <1>5
  <2> QED BY <2>1 DEF Sent
<1> QED BY <1>1, <1>4, <1>5 DEF Sent

\* What sends, takes and stores nothing.
LEMMA NoticeRests ==
  ASSUME NoticeInv, UNCHANGED <<notices, notice, lock, screen, unread, sampleRevision, revision>>,
         monitor'.pc = monitor.pc \/ (monitor.pc \notin {"publish", "completed"} /\ monitor'.pc # "publish")
  PROVE  NoticeInv'
<1>1. NoticeType'
  BY DEF NoticeInv, NoticeType
<1>2. NoticeKept' /\ EndsOnce' /\ Metrics!NoticeIsComing'
  BY DEF NoticeInv, NoticeKept, EndsOnce, Sent, Metrics!NoticeIsComing, Metrics!At
<1> QED BY <1>1, <1>2 DEF NoticeInv

\* A notice posted is sent, and so is what was sent before.
LEMMA NoticePosted ==
  ASSUME NoticeType, NEW event \in Notices, Metrics!Post(event)
  PROVE  /\ notices' \in Seq(Notices)
         /\ \A what : Sent(what) => Sent(what)'
         /\ \A what : Sent(what)' => Sent(what) \/ what = event
         /\ screen # "closed" => Sent(event)'
<1>1. CASE screen = "closed"
  BY <1>1 DEF Metrics!Post, NoticeType, Sent
<1>2. CASE screen # "closed"
  <2>1. notices' = Append(notices, event) /\ notices \in Seq(Notices)
    BY <1>2 DEF Metrics!Post, NoticeType
  <2> QED BY <2>1, NoticeSent
<1> QED BY <1>1, <1>2

\* The device list is announced, or could not be made.
LEMMA NoticeOfDevices == ASSUME NoticeInv, SampleInv, Metrics!Discover PROVE NoticeInv'
<1>1. PICK place \in {"sample", "wait"} : monitor' = [monitor EXCEPT !.pc = place]
  BY DEF Metrics!Discover, Metrics!GoTo
<1>2. monitor.pc = "discover" /\ UNCHANGED <<notice, lock, screen, unread, sampleRevision, revision>>
  BY DEF Metrics!Discover, Metrics!At, Metrics!session, Metrics!screen
<1>3. monitor'.pc = place
  BY <1>1, WatcherMoves DEF SampleInv, WatcherType, Metrics!Places
<1>4. UNCHANGED notices \/ Metrics!Post("catalog")
  BY DEF Metrics!Discover
<1>5. CASE UNCHANGED notices
  BY <1>2, <1>3, <1>5, NoticeRests
<1>6. CASE Metrics!Post("catalog")
  <2>1. /\ notices' \in Seq(Notices) /\ \A what : Sent(what) => Sent(what)'
        /\ \A what : Sent(what)' => Sent(what) \/ what = "catalog"
    BY <1>6, NoticePosted DEF NoticeInv, Notices
  <2>2. NoticeType'
    BY <1>2, <1>3, <2>1 DEF NoticeInv, NoticeType
  <2>3. ~Sent("completed")'
    BY <1>2, <2>1 DEF NoticeInv, EndsOnce
  <2>4. NoticeKept' /\ EndsOnce'
    BY <1>2, <2>1, <2>3 DEF NoticeInv, NoticeKept, EndsOnce
  <2>5. Metrics!NoticeIsComing'
    <3>1. Metrics!NoticeIsComing = (unread /\ sampleRevision = revision =>
            Sent("metrics") \/ monitor.pc = "publish" \/ screen \in {"acknowledge", "read", "closed"})
      BY DEF Metrics!NoticeIsComing, Metrics!At, Sent
    <3>2. Metrics!NoticeIsComing' = (unread' /\ sampleRevision' = revision' =>
            Sent("metrics")' \/ monitor'.pc = "publish" \/ screen' \in {"acknowledge", "read", "closed"})
      BY DEF Metrics!NoticeIsComing, Metrics!At, Sent
    <3> QED BY <1>2, <2>1, <3>1, <3>2 DEF NoticeInv
  <2> QED BY <2>2, <2>4, <2>5 DEF NoticeInv
<1> QED BY <1>4, <1>5, <1>6

\* What the display is to be told of, in terms of what was sent.
LEMMA ComingMeans ==
  /\ Metrics!NoticeIsComing <=> (unread /\ sampleRevision = revision =>
       Sent("metrics") \/ monitor.pc = "publish" \/ screen \in {"acknowledge", "read", "closed"})
  /\ Metrics!NoticeIsComing' <=> (unread' /\ sampleRevision' = revision' =>
       Sent("metrics")' \/ monitor'.pc = "publish" \/ screen' \in {"acknowledge", "read", "closed"})
BY DEF Metrics!NoticeIsComing, Metrics!At, Sent

\* A stored measurement is about to be published; one notice is enough.
LEMMA NoticeOfSample ==
  ASSUME NoticeInv, SampleInv, Metrics!Record \/ Metrics!Publish PROVE NoticeInv'
<1>1. CASE Metrics!Record
  <2>1. monitor.pc = "record" /\ UNCHANGED <<notices, notice, screen, revision>>
    BY <1>1 DEF Metrics!Record, Metrics!At, Metrics!screen
  <2>2. CASE ~closing /\ monitor.revision = revision
    <3>1. lock' = TRUE /\ monitor' = [monitor EXCEPT !.pc = "publish"]
      BY <1>1, <2>2 DEF Metrics!Record, Metrics!GoTo
    <3>2. monitor'.pc = "publish"
      BY <3>1, WatcherMoves DEF SampleInv, WatcherType, Metrics!Places
    <3>3. NoticeType'
      BY <2>1, <3>1, <3>2 DEF NoticeInv, NoticeType
    <3>4. NoticeKept' /\ EndsOnce'
      BY <2>1 DEF NoticeInv, NoticeKept, EndsOnce, Sent
    <3> QED BY <3>2, <3>3, <3>4, ComingMeans DEF NoticeInv
  <2>3. CASE ~(~closing /\ monitor.revision = revision)
    <3>1. UNCHANGED <<lock, unread, sampleRevision>> /\ monitor' = [monitor EXCEPT !.pc = "wait"]
      BY <1>1, <2>3 DEF Metrics!Record, Metrics!GoTo
    <3>2. monitor'.pc = "wait"
      BY <3>1, WatcherMoves DEF SampleInv, WatcherType, Metrics!Places
    <3> QED BY <2>1, <3>1, <3>2, NoticeRests
  <2> QED BY <2>2, <2>3
<1>2. CASE Metrics!Publish
  <2>1. monitor.pc = "publish" /\ monitor' = [monitor EXCEPT !.pc = "wait"] /\ lock' = FALSE
        /\ UNCHANGED <<screen, unread, sampleRevision, revision>>
    BY <1>2 DEF Metrics!Publish, Metrics!At, Metrics!GoTo, Metrics!screen
  <2>2. monitor'.pc = "wait"
    BY <2>1, WatcherMoves DEF SampleInv, WatcherType, Metrics!Places
  <2>3. ~Sent("completed")
    BY <2>1 DEF NoticeInv, EndsOnce
  <2>4. CASE notice \/ screen = "closed"
    <3>1. UNCHANGED <<notice, notices>>
      BY <1>2, <2>4 DEF Metrics!Publish
    <3>2. NoticeType'
      BY <2>1, <2>2, <3>1 DEF NoticeInv, NoticeType
    <3>3. NoticeKept' /\ EndsOnce'
      BY <2>1, <2>3, <3>1 DEF NoticeInv, NoticeKept, EndsOnce, Sent
    <3>4. Sent("metrics") \/ screen \in {"acknowledge", "closed"}
      BY <2>4 DEF NoticeInv, NoticeKept
    <3>5. Sent("metrics")' = Sent("metrics")
      BY <3>1 DEF Sent
    <3> QED BY <2>1, <3>2, <3>3, <3>4, <3>5, ComingMeans DEF NoticeInv
  <2>5. CASE ~(notice \/ screen = "closed")
    <3>1. Metrics!Post("metrics")
      BY <1>2, <2>5 DEF Metrics!Publish
    <3>2. /\ notices' \in Seq(Notices) /\ Sent("metrics")'
          /\ \A what : Sent(what)' => Sent(what) \/ what = "metrics"
      BY <2>5, <3>1, NoticePosted DEF NoticeInv, Notices
    <3>3. NoticeType'
      BY <2>1, <2>2, <3>2 DEF NoticeInv, NoticeType
    <3>4. NoticeKept' /\ EndsOnce'
      BY <2>3, <3>2 DEF NoticeKept, EndsOnce
    <3> QED BY <3>2, <3>3, <3>4, ComingMeans DEF NoticeInv
  <2> QED BY <2>4, <2>5
<1> QED BY <1>1, <1>2

\* The window takes a notice, and takes it back before it reads.
LEMMA NoticeShown ==
  ASSUME NoticeInv, SampleInv, Metrics!UpdateRequest \/ Metrics!Deliver \/ Metrics!Acknowledge \/ Metrics!Read
  PROVE  NoticeInv'
<1>1. UNCHANGED <<monitor, lock, sampleRevision>>
  BY DEF Metrics!UpdateRequest, Metrics!Deliver, Metrics!Acknowledge, Metrics!Read, Metrics!session, Metrics!thread
<1>2. CASE Metrics!UpdateRequest
  <2>1. screen' = "acknowledge" /\ UNCHANGED <<notices, notice, unread>>
    BY <1>2 DEF Metrics!UpdateRequest
  <2>2. NoticeType'
    BY <1>1, <2>1 DEF NoticeInv, NoticeType
  <2>3. NoticeKept' /\ EndsOnce'
    BY <1>1, <2>1 DEF NoticeInv, NoticeKept, EndsOnce, Sent
  <2> QED BY <2>1, <2>2, <2>3, ComingMeans DEF NoticeInv
<1>3. CASE Metrics!Deliver
  <2>1. /\ screen = "idle" /\ notices # <<>> /\ notices' = Tail(notices) /\ UNCHANGED <<notice, unread, revision>>
        /\ screen' = CASE Head(notices) = "metrics" -> "acknowledge"
                       [] Head(notices) = "catalog" -> "idle"
                       [] Head(notices) = "completed" -> "closed"
    BY <1>3 DEF Metrics!Deliver, Metrics!session
  <2>2. notices \in Seq(Notices)
    BY DEF NoticeInv, NoticeType
  <2>3. /\ Head(notices) \in Notices /\ notices' \in Seq(Notices)
        /\ \A what : Sent(what) => Sent(what)' \/ what = Head(notices)
        /\ \A what : Sent(what)' => Sent(what)
    BY <2>1, <2>2, NoticeTaken
  <2>4. screen' \in {"idle", "acknowledge", "closed"} /\ (Head(notices) = "metrics" => screen' = "acknowledge")
    BY <2>1, <2>3 DEF Notices
  <2>5. NoticeType'
    BY <1>1, <2>3, <2>4 DEF NoticeInv, NoticeType
  <2>6. Sent("metrics") => Sent("metrics")' \/ screen' = "acknowledge"
    BY <2>3, <2>4
  <2>7. NoticeKept' /\ EndsOnce'
    BY <1>1, <2>1, <2>3, <2>6 DEF NoticeInv, NoticeKept, EndsOnce
  <2>8. Metrics!NoticeIsComing'
    BY <1>1, <2>1, <2>6, ComingMeans DEF NoticeInv
  <2> QED BY <2>5, <2>7, <2>8 DEF NoticeInv
<1>4. CASE Metrics!Acknowledge
  <2>1. screen' = "read" /\ notice' = FALSE /\ UNCHANGED <<notices, unread, revision>>
    BY <1>4 DEF Metrics!Acknowledge, Metrics!session
  <2>2. NoticeType'
    BY <1>1, <2>1 DEF NoticeInv, NoticeType
  <2>3. NoticeKept' /\ EndsOnce'
    BY <1>1, <2>1 DEF NoticeInv, NoticeKept, EndsOnce, Sent
  <2> QED BY <2>1, <2>2, <2>3, ComingMeans DEF NoticeInv
<1>5. CASE Metrics!Read
  <2>1. screen = "read" /\ screen' = "idle" /\ UNCHANGED <<notices, notice, revision>>
    BY <1>5 DEF Metrics!Read, Metrics!session
  <2>2. unread' = FALSE \/ sampleRevision # revision
    BY <1>5 DEF Metrics!Read
  <2>3. NoticeType'
    BY <1>1, <2>1 DEF NoticeInv, NoticeType
  <2>4. NoticeKept' /\ EndsOnce'
    BY <1>1, <2>1 DEF NoticeInv, NoticeKept, EndsOnce, Sent
  <2>5. Metrics!NoticeIsComing'
    BY <1>1, <2>1, <2>2, ComingMeans
  <2> QED BY <2>3, <2>4, <2>5 DEF NoticeInv
<1> QED BY <1>2, <1>3, <1>4, <1>5

\* The completion is reported once the monitor has ended.
LEMMA NoticeOfEnd == ASSUME NoticeInv, SampleInv, Metrics!Complete PROVE NoticeInv'
<1>1. monitor.pc = "ended" /\ monitor' = [monitor EXCEPT !.pc = "completed"] /\ Metrics!Post("completed")
      /\ UNCHANGED <<notice, lock, screen, unread, sampleRevision, revision>>
  BY DEF Metrics!Complete, Metrics!At, Metrics!GoTo, Metrics!session, Metrics!screen
<1>2. monitor'.pc = "completed"
  BY <1>1, WatcherMoves DEF SampleInv, WatcherType, Metrics!Places
<1>3. notices' \in Seq(Notices) /\ \A what : Sent(what) => Sent(what)'
  BY <1>1, NoticePosted DEF NoticeInv, Notices
<1>4. NoticeType'
  BY <1>1, <1>2, <1>3 DEF NoticeInv, NoticeType
<1>5. NoticeKept' /\ EndsOnce'
  BY <1>1, <1>2, <1>3 DEF NoticeInv, NoticeKept, EndsOnce
<1>6. Metrics!NoticeIsComing'
  BY <1>1, <1>3, ComingMeans DEF NoticeInv
<1> QED BY <1>4, <1>5, <1>6 DEF NoticeInv

\* Every step of the monitor keeps the invariant of the notices.
LEMMA NoticeStep == ASSUME NoticeInv, SampleInv, Metrics!Next PROVE NoticeInv'
<1> USE DEF Metrics!session, Metrics!flags, Metrics!thread, Metrics!screen, Metrics!At, Metrics!GoTo
<1>1. CASE Metrics!Top \/ Metrics!Clear \/ Metrics!SetRequest \/ Metrics!Wait
  <2>1. PICK place \in Metrics!Places \ {"publish"} : monitor' = [monitor EXCEPT !.pc = place]
    BY <1>1 DEF Metrics!Top, Metrics!Clear, Metrics!SetRequest, Metrics!Wait, Metrics!Places
  <2>2. monitor.pc \notin {"publish", "completed"}
        /\ UNCHANGED <<notices, notice, lock, screen, unread, sampleRevision, revision>>
    BY <1>1 DEF Metrics!Top, Metrics!Clear, Metrics!SetRequest, Metrics!Wait
  <2>3. monitor'.pc # "publish"
    BY <2>1, WatcherMoves DEF SampleInv, WatcherType
  <2> QED BY <2>2, <2>3, NoticeRests
<1>2. CASE Metrics!Take \/ Metrics!Sample
  <2>1. monitor.pc \in {"take", "sample"}
        /\ UNCHANGED <<notices, notice, lock, screen, unread, sampleRevision, revision>>
    BY <1>2 DEF Metrics!Take, Metrics!Sample
  <2>2. monitor \in Watchers
    BY DEF SampleInv, WatcherType
  <2>3. monitor'.pc \in {"set", "wait", "record"}
    BY <1>2, <2>2 DEF Metrics!Take, Metrics!Sample, Watchers
  <2> QED BY <2>1, <2>3, NoticeRests
<1>3. CASE Metrics!Discover
  BY <1>3, NoticeOfDevices
<1>4. CASE Metrics!Record \/ Metrics!Publish
  BY <1>4, NoticeOfSample
<1>5. CASE Metrics!UpdateRequest \/ Metrics!Deliver \/ Metrics!Acknowledge \/ Metrics!Read
  BY <1>5, NoticeShown
<1>6. CASE (\E r \in {nothing, every} : Metrics!ChangeView(r)) \/ Metrics!AskCatalog \/ Metrics!Close \/ Metrics!Shutdown
  <2>1. UNCHANGED <<notices, notice, lock, screen, unread, sampleRevision, revision, monitor>>
    BY <1>6 DEF Metrics!ChangeView, Metrics!AskCatalog, Metrics!Close, Metrics!Shutdown
  <2> QED BY <2>1, NoticeRests
<1>7. CASE Metrics!Complete
  BY <1>7, NoticeOfEnd
<1> QED
  BY <1>1, <1>2, <1>3, <1>4, <1>5, <1>6, <1>7 DEF Metrics!Next, Metrics!Observe

\* What a monitor that sends after the completion would have to have done.
LEMMA EndStep ==
  ASSUME NoticeInv, Metrics!Next, Sent("completed") PROVE Len(notices') <= Len(notices)
<1> USE DEF Metrics!session, Metrics!flags, Metrics!thread, Metrics!screen, Metrics!At
<1>1. monitor.pc = "completed" /\ notices \in Seq(Notices)
  BY DEF NoticeInv, EndsOnce, NoticeType
<1>2. CASE Metrics!Deliver
  <2>1. notices # <<>> /\ notices' = Tail(notices)
    BY <1>2 DEF Metrics!Deliver
  <2>2. Len(notices') = Len(notices) - 1 /\ Len(notices) \in Nat
    BY <1>1, <2>1, HeadTailProperties, LenProperties
  <2> QED BY <2>2
<1>3. CASE ~Metrics!Deliver
  <2>1. ~Metrics!Observe /\ ~Metrics!Complete
    BY <1>1 DEF Metrics!Observe, Metrics!Complete, Metrics!Top, Metrics!Clear, Metrics!Take, Metrics!SetRequest,
                Metrics!Discover, Metrics!Sample, Metrics!Record, Metrics!Publish, Metrics!Wait
  <2>2. notices' = notices
    BY <1>3, <2>1 DEF Metrics!Next, Metrics!ChangeView, Metrics!UpdateRequest, Metrics!AskCatalog, Metrics!Acknowledge,
                      Metrics!Read, Metrics!Close, Metrics!Shutdown
  <2>3. Len(notices) \in Nat
    BY <1>1, LenProperties
  <2> QED BY <2>2, <2>3
<1> QED BY <1>2, <1>3

\* Where the monitor does not run, nothing of it changes.
LEMMA MonitorKept ==
  ASSUME UNCHANGED part, UNCHANGED monitorVars, MonitorInv PROVE MonitorInv'
BY DEF MonitorInv, monitorVars, SampleInv, SampleType, WatcherType, ToldInOrder, Latest, NothingNewer, MeasuredForIt,
       Metrics!SampleIsForRequest, NoticeInv, NoticeType, NoticeKept, EndsOnce, Sent, Metrics!NoticeIsComing, Metrics!At

\* For every value of the constants the samples belong to their request,
\* and a notice held back is on its way (service.py _observe, events.py,
\* presenter.py).
THEOREM MonitorInvariance == DesktopSpec => []MonitorInv
<1>1. ASSUME DesktopInit PROVE MonitorInv
  BY <1>1, MonitorInit DEF DesktopInit, Starts, MonitorInv
<1>2. ASSUME MonitorInv, DesktopNext PROVE MonitorInv'
  <2>1. CASE part = "metrics" /\ Metrics!Next
    BY <1>2, <2>1, SampleStep, NoticeStep DEF MonitorInv
  <2>2. CASE UNCHANGED monitorVars
    BY <1>2, <2>2, MonitorKept DEF DesktopNext
  <2> QED BY <1>2, <2>1, <2>2 DEF DesktopNext
<1>3. ASSUME MonitorInv, UNCHANGED <<part, vars, popoutVars, fileVars, monitorVars, feedVars, avatarVars>>
      PROVE  MonitorInv'
  BY <1>3, MonitorKept
<1> QED BY <1>1, <1>2, <1>3, PTL DEF DesktopSpec

\* A measurement is of what is visible, and gets there: what is displayed was
\* taken for the request of now, and a measurement that is to be displayed
\* has a notice on its way (service.py _observe, presenter.py
\* _refresh_metrics).
THEOREM MeasuredForTheView == DesktopSpec => []MetricsAreCurrent
<1>1. MonitorInv => MetricsAreCurrent
  BY DEF MonitorInv, SampleInv, NoticeInv, MetricsAreCurrent
<1> QED BY <1>1, MonitorInvariance, PTL

\* Nothing is sent after the completion is reported, when the collector has
\* been closed (service.py _control).
THEOREM NothingAfterTheEnd == DesktopSpec => EndIsLast
<1>1. ASSUME MonitorInv, [DesktopNext]_<<part, vars, popoutVars, fileVars, monitorVars, feedVars, avatarVars>>
      PROVE  [(\E i \in DOMAIN notices : notices[i] = "completed") => Len(notices') <= Len(notices)]_(Metrics!vars)
  <2>1. CASE part = "metrics" /\ Metrics!Next
    BY <1>1, <2>1, EndStep DEF MonitorInv, Sent
  <2>2. CASE UNCHANGED monitorVars
    BY <2>2 DEF monitorVars, Metrics!vars, Metrics!session, Metrics!flags, Metrics!thread, Metrics!screen
  <2> QED BY <1>1, <2>1, <2>2 DEF DesktopNext
<1> QED BY <1>1, MonitorInvariance, PTL DEF DesktopSpec, EndIsLast, Metrics!CompletedIsLast

-----------------------------------------------------------------------------
(***************************************************************************)
(* The comment window and the dialog of its presentation.  The last echo   *)
(* that is under way is what is saved; and the record of a user who waits  *)
(* is in one place at a time on its way through the window, the timer, the *)
(* queue of the control thread and the echo.                               *)
(***************************************************************************)
FieldsIn(S) == [Hasty!Fields -> S]
PopoutIn(S) ==
  /\ record \in FieldsIn(S) /\ window \in FieldsIn(S) /\ given \in FieldsIn(S)
  /\ orders \in Seq(FieldsIn(S)) /\ echoes \in Seq(FieldsIn(S))
  /\ sheet \in [open : BOOLEAN, copy : FieldsIn(S)] /\ geometry \in [{"size", "position"} -> S]
  /\ moves \in S
  /\ created \in BOOLEAN /\ visible \in BOOLEAN /\ delay \in BOOLEAN /\ left \in BOOLEAN

LastEcho == echoes # <<>> => echoes[Len(echoes)] = record
EchoInv == PopoutIn(Nat) /\ LastEcho /\ Hasty!ShownIsSaved

Rests ==
  /\ orders = <<>> /\ echoes = <<>> /\ delay = FALSE /\ record = given
  /\ created = TRUE /\ sheet.open = FALSE => window = given
  /\ sheet.open = TRUE => \A f \in Hasty!Fields \ {"color"} : sheet.copy[f] = given[f]
Ordered == orders = <<given>> /\ echoes = <<>> /\ delay = FALSE /\ sheet.open = FALSE
Echoed == orders = <<>> /\ echoes = <<given>> /\ delay = FALSE /\ sheet.open = FALSE /\ record = given
Delayed == orders = <<>> /\ echoes = <<>> /\ delay = TRUE /\ sheet.open = FALSE /\ window = given
SizeKept == visible = TRUE => created = TRUE /\ geometry.size = given.size
CareInv == PopoutIn(Nat) /\ (left = FALSE => SizeKept /\ (Rests \/ Ordered \/ Echoed \/ Delayed))

PopoutInv ==
  /\ part = "hasty" => EchoInv
  /\ part = "careful" => CareInv

\* A field set in a presentation leaves a presentation.
LEMMA FieldSet ==
  ASSUME NEW S, NEW p \in FieldsIn(S), NEW f \in Hasty!Fields, NEW n \in S
  PROVE  [p EXCEPT ![f] = n] \in FieldsIn(S)
BY DEF FieldsIn

\* What is appended to a queue of presentations is its last entry.
LEMMA QueueGrows ==
  ASSUME NEW S, NEW q \in Seq(FieldsIn(S)), NEW p \in FieldsIn(S)
  PROVE  /\ Append(q, p) \in Seq(FieldsIn(S)) /\ Append(q, p) # <<>>
         /\ Append(q, p)[Len(Append(q, p))] = p
<1>1. Append(q, p) \in Seq(FieldsIn(S)) /\ Len(Append(q, p)) = Len(q) + 1 /\ Append(q, p)[Len(q) + 1] = p
  BY AppendProperties
<1>2. Len(q) \in Nat /\ Len(q) + 1 # 0
  BY LenProperties
<1> QED BY <1>1, <1>2, EmptySeq

\* What is taken off a queue of presentations is its first entry; the last
\* stays while there is one.
LEMMA QueueShrinks ==
  ASSUME NEW S, NEW q \in Seq(FieldsIn(S)), q # <<>>
  PROVE  /\ Head(q) \in FieldsIn(S) /\ Tail(q) \in Seq(FieldsIn(S))
         /\ Tail(q) # <<>> => Tail(q)[Len(Tail(q))] = q[Len(q)]
         /\ Tail(q) = <<>> => Head(q) = q[Len(q)]
<1>1. /\ Head(q) \in FieldsIn(S) /\ Tail(q) \in Seq(FieldsIn(S)) /\ Len(Tail(q)) = Len(q) - 1
      /\ \A i \in 1 .. Len(Tail(q)) : Tail(q)[i] = q[i + 1]
  BY HeadTailProperties
<1>2. Len(q) \in Nat \ {0} /\ Len(Tail(q)) \in Nat
  BY <1>1, EmptySeq, LenProperties
<1>3. ASSUME Tail(q) # <<>> PROVE Tail(q)[Len(Tail(q))] = q[Len(q)]
  <2>1. Len(Tail(q)) \in Nat \ {0}
    BY <1>1, <1>3, EmptySeq
  <2> QED BY <1>1, <1>2, <2>1
<1>4. ASSUME Tail(q) = <<>> PROVE Head(q) = q[Len(q)]
  <2> DEFINE n == Len(q)
  <2>0. Len(Tail(q)) = 0 /\ Len(Tail(q)) = n - 1 /\ n \in Nat
    BY <1>1, <1>2, <1>4, EmptySeq
  <2> HIDE DEF n
  <2>2. n = 1
    BY <2>0
  <2>1. Len(q) = 1
    BY <2>2 DEF n
  <2> QED BY <2>1
<1> QED BY <1>1, <1>3, <1>4

\* The invariants of both users hold at the start.
LEMMA PopoutInit == ASSUME Hasty!Init PROVE EchoInv /\ CareInv
<1>1. /\ record = [f \in Hasty!Fields |-> 0] /\ window = record /\ given = record
      /\ orders = <<>> /\ echoes = <<>> /\ sheet = [open |-> FALSE, copy |-> record]
      /\ geometry = [f \in {"size", "position"} |-> 0] /\ moves = 0
      /\ created = FALSE /\ visible = FALSE /\ delay = FALSE /\ left = FALSE
  BY DEF Hasty!Init, Hasty!Default, Hasty!NoDialog
<1>2. record \in FieldsIn(Nat) /\ window \in FieldsIn(Nat) /\ given \in FieldsIn(Nat) /\ geometry \in [{"size", "position"} -> Nat]
  BY <1>1 DEF FieldsIn
<1>3. orders \in Seq(FieldsIn(Nat)) /\ echoes \in Seq(FieldsIn(Nat))
  BY <1>1, EmptySeq
<1>4. sheet \in [open : BOOLEAN, copy : FieldsIn(Nat)]
  BY <1>1, <1>2
<1>5. PopoutIn(Nat)
  BY <1>1, <1>2, <1>3, <1>4 DEF PopoutIn
<1>6. LastEcho /\ Hasty!ShownIsSaved
  BY <1>1 DEF LastEcho, Hasty!ShownIsSaved
<1>7. SizeKept /\ Rests
  BY <1>1 DEF SizeKept, Rests
<1> QED BY <1>5, <1>6, <1>7 DEF EchoInv, CareInv

\* The shape of the state is kept by both users.
LEMMA PopoutTyped ==
  ASSUME NEW S, 0 \in S, PopoutIn(S), moves' \in S, Hasty!Next \/ Careful!Next PROVE PopoutIn(S)'
<1> USE DEF Hasty!popout, Careful!popout, Hasty!ActsOnWindow, Careful!ActsOnWindow, Hasty!Acts, Careful!Acts,
            Hasty!Post, Careful!Post, Hasty!Gives, Careful!Gives, Hasty!Preview, Careful!Preview
<1>t. /\ record \in FieldsIn(S) /\ window \in FieldsIn(S) /\ given \in FieldsIn(S)
      /\ orders \in Seq(FieldsIn(S)) /\ echoes \in Seq(FieldsIn(S))
      /\ sheet.open \in BOOLEAN /\ sheet.copy \in FieldsIn(S) /\ geometry.size \in S /\ geometry.position \in S
      /\ moves \in S /\ record.size \in S /\ record.position \in S /\ sheet.copy.color \in S
  BY DEF PopoutIn, FieldsIn, Hasty!Fields
<1>f. {"opacity", "color", "size", "position", "ratio", "detached"} \subseteq Hasty!Fields
  BY DEF Hasty!Fields
<1>1. CASE Hasty!Detach \/ Careful!Detach
  <2>1. /\ moves' = moves + 1 /\ created' = TRUE /\ visible' = TRUE /\ UNCHANGED <<record, echoes, delay, sheet, left>>
        /\ window' = IF created THEN window ELSE record
        /\ geometry' = [f \in {"size", "position"} |-> record[f]]
        /\ given' = [given EXCEPT !["detached"] = moves']
        /\ orders' = Append(orders, [record EXCEPT !["detached"] = moves'])
    BY <1>1 DEF Hasty!Detach, Careful!Detach
  <2>2. given' \in FieldsIn(S) /\ [record EXCEPT !["detached"] = moves'] \in FieldsIn(S)
    BY <1>t, <1>f, <2>1, FieldSet
  <2>3. orders' \in Seq(FieldsIn(S))
    BY <1>t, <2>1, <2>2, QueueGrows
  <2>4. geometry' \in [{"size", "position"} -> S]
    BY <1>t, <2>1
  <2>5. window' \in FieldsIn(S)
    BY <1>t, <2>1
  <2> QED BY <2>1, <2>2, <2>3, <2>4, <2>5 DEF PopoutIn
<1>2. CASE Hasty!Attach \/ Careful!Attach
  <2> DEFINE one == [record EXCEPT !["detached"] = moves']
             two == [one EXCEPT !["position"] = geometry.position]
             three == [two EXCEPT !["size"] = geometry.size]
             first == [given EXCEPT !["detached"] = moves']
  <2>1. /\ moves' = moves + 1 /\ visible' = FALSE /\ UNCHANGED <<record, echoes, created, window, geometry, delay, sheet, left>>
        /\ given' = [first EXCEPT !["position"] = geometry.position]
        /\ orders' = Append(orders, three)
    BY <1>2 DEF Hasty!Attach, Careful!Attach
  <2>2. first \in FieldsIn(S) /\ one \in FieldsIn(S)
    BY <1>t, <1>f, <2>1, FieldSet
  <2> HIDE DEF one, first
  <2>3. given' \in FieldsIn(S) /\ two \in FieldsIn(S)
    BY <1>t, <1>f, <2>1, <2>2, FieldSet
  <2> HIDE DEF two
  <2>4. three \in FieldsIn(S)
    BY <1>t, <1>f, <2>3, FieldSet
  <2> HIDE DEF three
  <2>5. orders' \in Seq(FieldsIn(S))
    BY <1>t, <2>1, <2>4, QueueGrows
  <2> QED BY <2>1, <2>2, <2>3, <2>5 DEF PopoutIn
<1>3. CASE Hasty!Wheel \/ Careful!Wheel
  <2>1. /\ moves' = moves + 1 /\ UNCHANGED <<record, echoes, created, visible, geometry, delay, sheet, left>>
        /\ given' = [given EXCEPT !["opacity"] = moves'] /\ window' = [window EXCEPT !["opacity"] = moves']
        /\ orders' = Append(orders, window')
    BY <1>3 DEF Hasty!Wheel, Careful!Wheel
  <2>2. given' \in FieldsIn(S) /\ window' \in FieldsIn(S)
    BY <1>t, <1>f, <2>1, FieldSet
  <2>3. orders' \in Seq(FieldsIn(S))
    BY <1>t, <2>1, <2>2, QueueGrows
  <2> QED BY <2>1, <2>2, <2>3 DEF PopoutIn
<1>4. CASE Hasty!Resize \/ Careful!Resize
  <2>1. /\ moves' = moves + 1 /\ UNCHANGED <<record, echoes, created, visible, delay, sheet, left>>
        /\ geometry' = [geometry EXCEPT !["size"] = moves']
        /\ given' = [given EXCEPT !["size"] = moves'] /\ window' = [window EXCEPT !["size"] = moves']
        /\ orders' = Append(orders, window')
    BY <1>4 DEF Hasty!Resize, Careful!Resize
  <2>2. given' \in FieldsIn(S) /\ window' \in FieldsIn(S)
    BY <1>t, <1>f, <2>1, FieldSet
  <2>3. orders' \in Seq(FieldsIn(S))
    BY <1>t, <2>1, <2>2, QueueGrows
  <2>4. geometry' \in [{"size", "position"} -> S]
    BY <2>1, <2>2 DEF PopoutIn
  <2> QED BY <2>1, <2>2, <2>3, <2>4 DEF PopoutIn
<1>5. CASE Hasty!Drag \/ Careful!Drag
  <2>1. /\ moves' = moves + 1
        /\ UNCHANGED <<record, orders, echoes, created, window, visible, delay, sheet, left, given>>
        /\ geometry' = [geometry EXCEPT !["position"] = moves']
    BY <1>5 DEF Hasty!Drag, Careful!Drag
  <2>3. geometry' \in [{"size", "position"} -> S]
    BY <2>1 DEF PopoutIn
  <2> QED BY <2>1, <2>3 DEF PopoutIn
<1>6. CASE Hasty!Split \/ Careful!Split
  <2>1. /\ moves' = moves + 1 /\ delay' = TRUE
        /\ UNCHANGED <<record, orders, echoes, created, visible, geometry, sheet, left>>
        /\ given' = [given EXCEPT !["ratio"] = moves'] /\ window' = [window EXCEPT !["ratio"] = moves']
    BY <1>6 DEF Hasty!Split, Careful!Split
  <2>2. given' \in FieldsIn(S) /\ window' \in FieldsIn(S)
    BY <1>t, <1>f, <2>1, FieldSet
  <2> QED BY <2>1, <2>2 DEF PopoutIn
<1>7. CASE Hasty!SplitterTimeout \/ Careful!SplitterTimeout
  <2>1. /\ delay' = FALSE /\ orders' = Append(orders, window)
        /\ UNCHANGED <<record, echoes, created, window, visible, geometry, sheet, left, moves, given>>
    BY <1>7 DEF Hasty!SplitterTimeout, Careful!SplitterTimeout
  <2>2. orders' \in Seq(FieldsIn(S))
    BY <1>t, <2>1, QueueGrows
  <2> QED BY <2>1, <2>2 DEF PopoutIn
<1>8. CASE Hasty!OpenDialog \/ Careful!OpenDialog
  <2>1. /\ moves' = moves + 1 /\ sheet' = [open |-> TRUE, copy |-> record]
        /\ UNCHANGED <<record, orders, echoes, created, window, visible, geometry, delay, left, given>>
    BY <1>8 DEF Hasty!OpenDialog, Careful!OpenDialog
  <2>3. sheet' \in [open : BOOLEAN, copy : FieldsIn(S)]
    BY <1>t, <2>1
  <2> QED BY <2>1, <2>3 DEF PopoutIn
<1>9. CASE Hasty!Edit \/ Careful!Edit
  <2> DEFINE edited == [sheet.copy EXCEPT !["color"] = moves']
  <2>1. /\ moves' = moves + 1 /\ sheet' = [sheet EXCEPT !.copy = edited]
        /\ window' = IF created THEN sheet'.copy ELSE window
        /\ UNCHANGED <<record, orders, echoes, created, visible, geometry, delay, left, given>>
    BY <1>9 DEF Hasty!Edit, Careful!Edit
  <2>3. edited \in FieldsIn(S)
    BY <1>t, <1>f, FieldSet
  <2> HIDE DEF edited
  <2>4. sheet' \in [open : BOOLEAN, copy : FieldsIn(S)] /\ sheet'.copy = edited
    BY <2>1, <2>3 DEF PopoutIn
  <2>5. window' \in FieldsIn(S)
    BY <1>t, <2>1, <2>3, <2>4
  <2> QED BY <2>1, <2>4, <2>5 DEF PopoutIn
<1>10. CASE Hasty!Confirm \/ Careful!Confirm
  <2>1. /\ moves' = moves + 1 /\ sheet' = [open |-> FALSE, copy |-> [f \in Hasty!Fields |-> 0]]
        /\ orders' = Append(orders, sheet.copy) /\ given' = [given EXCEPT !["color"] = sheet.copy.color]
        /\ UNCHANGED <<record, echoes, created, window, visible, geometry, delay, left>>
    BY <1>10 DEF Hasty!Confirm, Careful!Confirm, Hasty!NoDialog, Careful!NoDialog, Hasty!Default, Careful!Default,
                 Hasty!Fields, Careful!Fields
  <2>2. sheet.copy.color \in S
    BY <1>t, <1>f, <2>1 DEF FieldsIn
  <2>3. sheet' \in [open : BOOLEAN, copy : FieldsIn(S)]
    BY <2>1 DEF FieldsIn
  <2>4. orders' \in Seq(FieldsIn(S)) /\ given' \in FieldsIn(S)
    BY <1>t, <1>f, <2>1, <2>2, QueueGrows, FieldSet
  <2> QED BY <2>1, <2>2, <2>3, <2>4 DEF PopoutIn
<1>11. CASE Hasty!Cancel \/ Careful!Cancel
  <2>1. /\ moves' = moves + 1 /\ sheet' = [open |-> FALSE, copy |-> [f \in Hasty!Fields |-> 0]]
        /\ window' = (IF created THEN record ELSE window)
        /\ UNCHANGED <<record, orders, echoes, created, visible, geometry, delay, left, given>>
    BY <1>11 DEF Hasty!Cancel, Careful!Cancel, Hasty!NoDialog, Careful!NoDialog, Hasty!Default, Careful!Default,
                 Hasty!Fields, Careful!Fields
  <2>2. window' \in FieldsIn(S)
    BY <1>t, <2>1
  <2>3. sheet' \in [open : BOOLEAN, copy : FieldsIn(S)]
    BY <2>1 DEF FieldsIn
  <2> QED BY <2>1, <2>2, <2>3 DEF PopoutIn
<1>12. CASE Hasty!Save \/ Careful!Save
  <2>1. /\ orders # <<>> /\ orders' = Tail(orders) /\ record' = Head(orders) /\ echoes' = Append(echoes, Head(orders))
        /\ UNCHANGED <<created, window, visible, geometry, delay, sheet, left, moves, given>>
    BY <1>12 DEF Hasty!Save, Careful!Save
  <2>2. record' \in FieldsIn(S) /\ orders' \in Seq(FieldsIn(S))
    BY <1>t, <2>1, QueueShrinks
  <2>3. echoes' \in Seq(FieldsIn(S))
    BY <1>t, <2>1, <2>2, QueueGrows
  <2> QED BY <2>1, <2>2, <2>3 DEF PopoutIn
<1>13. CASE Hasty!Deliver \/ Careful!Deliver
  <2>1. /\ echoes # <<>> /\ echoes' = Tail(echoes) /\ window' = (IF created THEN Head(echoes) ELSE window)
        /\ UNCHANGED <<record, orders, created, visible, geometry, delay, sheet, left, moves, given>>
    BY <1>13 DEF Hasty!Deliver, Careful!Deliver
  <2>2. echoes' \in Seq(FieldsIn(S)) /\ window' \in FieldsIn(S)
    BY <1>t, <2>1, QueueShrinks
  <2> QED BY <2>1, <2>2 DEF PopoutIn
<1>14. CASE Hasty!Exit \/ Careful!Exit
  <2>1. /\ left' = TRUE /\ orders' = <<>> /\ sheet' = [open |-> FALSE, copy |-> [f \in Hasty!Fields |-> 0]]
        /\ UNCHANGED <<record, echoes, created, window, visible, geometry, delay, moves, given>>
    BY <1>14 DEF Hasty!Exit, Careful!Exit, Hasty!NoDialog, Careful!NoDialog, Hasty!Default, Careful!Default,
                 Hasty!Fields, Careful!Fields
  <2>2. orders' \in Seq(FieldsIn(S))
    BY <2>1, EmptySeq
  <2>3. sheet' \in [open : BOOLEAN, copy : FieldsIn(S)]
    BY <2>1 DEF FieldsIn
  <2> QED BY <2>1, <2>2, <2>3 DEF PopoutIn
<1> QED
  BY <1>1, <1>2, <1>3, <1>4, <1>5, <1>6, <1>7, <1>8, <1>9, <1>10, <1>11, <1>12, <1>13, <1>14 DEF Hasty!Next, Careful!Next

\* A step of either user is counted.
LEMMA MovesCount ==
  ASSUME Hasty!Next \/ Careful!Next, moves \in Nat
  PROVE  /\ moves' \in Nat
         /\ Hasty!Next => moves' = moves \/ (moves' = moves + 1 /\ moves < Window)
         /\ Careful!Next => moves' = moves \/ (moves' = moves + 1 /\ moves < Shown)
<1>1. Hasty!Next => moves' = moves \/ (moves' = moves + 1 /\ moves < Window)
  BY DEF Hasty!Next, Hasty!Detach, Hasty!Attach, Hasty!Wheel, Hasty!Resize, Hasty!Drag, Hasty!Split,
         Hasty!SplitterTimeout, Hasty!OpenDialog, Hasty!Edit, Hasty!Confirm, Hasty!Cancel, Hasty!Save,
         Hasty!Deliver, Hasty!Exit, Hasty!ActsOnWindow, Hasty!Acts
<1>2. Careful!Next => moves' = moves \/ (moves' = moves + 1 /\ moves < Shown)
  BY DEF Careful!Next, Careful!Detach, Careful!Attach, Careful!Wheel, Careful!Resize, Careful!Drag, Careful!Split,
         Careful!SplitterTimeout, Careful!OpenDialog, Careful!Edit, Careful!Confirm, Careful!Cancel, Careful!Save,
         Careful!Deliver, Careful!Exit, Careful!ActsOnWindow, Careful!Acts
<1> QED BY <1>1, <1>2

\* For the hasty user: the window follows the last echo.
LEMMA ShownMeans ==
  /\ Hasty!ShownIsSaved <=>
       (created /\ orders = <<>> /\ echoes = <<>> /\ ~delay /\ ~sheet.open /\ ~left => window = record)
  /\ Hasty!ShownIsSaved' <=>
       (created' /\ orders' = <<>> /\ echoes' = <<>> /\ ~delay' /\ ~sheet'.open /\ ~left' => window' = record')
BY DEF Hasty!ShownIsSaved, Hasty!Settled

\* Every step of the hasty user, the window and the session keeps the
\* invariant of the echoes.
LEMMA EchoStep == ASSUME EchoInv, Hasty!Next PROVE EchoInv'
<1> USE DEF Hasty!popout, Hasty!ActsOnWindow, Hasty!Acts, Hasty!Post, Hasty!Preview
<1>t. PopoutIn(Nat)' /\ PopoutIn(Nat)
  <2>1. PopoutIn(Nat) /\ moves \in Nat
    BY DEF EchoInv, PopoutIn
  <2> QED BY <2>1, MovesCount, PopoutTyped
<1>q. orders \in Seq(FieldsIn(Nat)) /\ echoes \in Seq(FieldsIn(Nat))
  BY <1>t DEF PopoutIn
<1> SUFFICES LastEcho' /\ Hasty!ShownIsSaved'
  BY <1>t DEF EchoInv
<1>1. CASE Hasty!Detach \/ Hasty!Attach \/ Hasty!Wheel \/ Hasty!Resize \/ Hasty!SplitterTimeout \/ Hasty!Confirm
  <2>1. PICK p : orders' = Append(orders, p) /\ UNCHANGED <<record, echoes>>
    BY <1>1 DEF Hasty!Detach, Hasty!Attach, Hasty!Wheel, Hasty!Resize, Hasty!SplitterTimeout, Hasty!Confirm
  <2>2. orders' # <<>>
    <3>1. Len(Append(orders, p)) = Len(orders) + 1 /\ Len(orders) \in Nat
      BY <1>q, LenProperties
    <3>2. Len(orders') # 0
      BY <2>1, <3>1
    <3> QED BY <3>2, EmptySeq
  <2>3. LastEcho'
    BY <2>1 DEF EchoInv, LastEcho
  <2> QED BY <2>2, <2>3, ShownMeans
<1>2. CASE Hasty!Drag \/ Hasty!Split \/ Hasty!OpenDialog
  <2>1. UNCHANGED <<record, orders, echoes, created, left>>
        /\ (UNCHANGED <<window, delay, sheet>> \/ delay' = TRUE \/ sheet'.open = TRUE)
    BY <1>2 DEF Hasty!Drag, Hasty!Split, Hasty!OpenDialog
  <2> QED BY <2>1, ShownMeans DEF EchoInv, LastEcho
<1>3. CASE Hasty!Edit
  <2>1. sheet.open /\ sheet' = [sheet EXCEPT !.copy = sheet'.copy] /\ UNCHANGED <<record, echoes>>
    BY <1>3, <1>t DEF Hasty!Edit, PopoutIn
  <2>2. sheet'.open
    BY <1>t, <2>1 DEF PopoutIn
  <2> QED BY <2>1, <2>2, ShownMeans DEF EchoInv, LastEcho
<1>4. CASE Hasty!Cancel
  <2>1. UNCHANGED <<record, echoes, created>> /\ window' = IF created THEN record ELSE window
    BY <1>4 DEF Hasty!Cancel
  <2> QED BY <2>1, ShownMeans DEF EchoInv, LastEcho
<1>5. CASE Hasty!Save
  <2>1. orders # <<>> /\ record' = Head(orders) /\ echoes' = Append(echoes, Head(orders))
    BY <1>5 DEF Hasty!Save
  <2>2. Head(orders) \in FieldsIn(Nat)
    BY <1>q, <2>1, QueueShrinks
  <2>3. echoes' # <<>> /\ echoes'[Len(echoes')] = record'
    BY <1>q, <2>1, <2>2, QueueGrows
  <2> QED BY <2>3, ShownMeans DEF LastEcho
<1>6. CASE Hasty!Deliver
  <2>1. /\ echoes # <<>> /\ echoes' = Tail(echoes) /\ UNCHANGED <<record, created>>
        /\ window' = IF created THEN Head(echoes) ELSE window
    BY <1>6 DEF Hasty!Deliver
  <2>2. /\ echoes' # <<>> => echoes'[Len(echoes')] = echoes[Len(echoes)]
        /\ echoes' = <<>> => Head(echoes) = echoes[Len(echoes)]
    BY <1>q, <2>1, QueueShrinks
  <2>3. echoes[Len(echoes)] = record
    BY <2>1 DEF EchoInv, LastEcho
  <2>4. LastEcho'
    BY <2>1, <2>2, <2>3 DEF LastEcho
  <2> QED BY <2>1, <2>2, <2>3, <2>4, ShownMeans
<1>7. CASE Hasty!Exit
  <2>1. left' = TRUE /\ UNCHANGED <<record, echoes>>
    BY <1>7 DEF Hasty!Exit
  <2> QED BY <2>1, ShownMeans DEF EchoInv, LastEcho
<1> QED BY <1>1, <1>2, <1>3, <1>4, <1>5, <1>6, <1>7 DEF Hasty!Next

\* For the careful user: an action finds everything at rest.
LEMMA CareActs == ASSUME CareInv, Careful!Acts PROVE left = FALSE /\ Rests /\ SizeKept /\ moves' = moves + 1 /\ moves' \in Nat
<1>1. ~left /\ orders = <<>> /\ echoes = <<>> /\ ~delay /\ moves' = moves + 1
  BY DEF Careful!Acts, Careful!Settled
<1>2. left = FALSE /\ delay = FALSE /\ moves' \in Nat
  BY <1>1 DEF CareInv, PopoutIn
<1>3. ~Ordered /\ ~Echoed /\ ~Delayed
  BY <1>1, <1>2, EmptySeq DEF Ordered, Echoed, Delayed
<1> QED BY <1>1, <1>2, <1>3 DEF CareInv

\* What an action of the window posts is what the user has given.
LEMMA CarePosted ==
  ASSUME Rests, sheet.open = FALSE, SizeKept', orders' = Append(orders, given'), UNCHANGED <<echoes, delay, sheet, left>>
  PROVE  SizeKept' /\ Ordered'
<1>1. orders' = <<given'>>
  BY DEF Rests
<1> QED BY <1>1 DEF Rests, Ordered

\* What the careful user does in the window leaves his record in one place
\* on its way.
LEMMA CareWindow ==
  ASSUME CareInv,
         Careful!Detach \/ Careful!Attach \/ Careful!Wheel \/ Careful!Resize \/ Careful!Drag \/ Careful!Split
  PROVE  left' = FALSE => SizeKept' /\ (Rests \/ Ordered \/ Echoed \/ Delayed)'
<1> USE DEF Careful!Post, Careful!Gives
<1>1. Careful!Acts /\ ~sheet.open
  BY DEF Careful!Detach, Careful!Attach, Careful!Wheel, Careful!Resize, Careful!Drag, Careful!Split, Careful!ActsOnWindow
<1>2. left = FALSE /\ Rests /\ SizeKept /\ moves' \in Nat
  BY <1>1, CareActs
<1>3. sheet.open = FALSE
  BY <1>1 DEF CareInv, PopoutIn
<1>t. given \in FieldsIn(Nat) /\ window \in FieldsIn(Nat) /\ record = given /\ geometry \in [{"size", "position"} -> Nat]
      /\ (created = TRUE => window = given) /\ created \in BOOLEAN /\ visible \in BOOLEAN
  BY <1>2, <1>3 DEF CareInv, PopoutIn, Rests
<1>4. CASE Careful!Detach
  <2>1. /\ visible' = TRUE /\ created' = TRUE /\ UNCHANGED <<echoes, delay, sheet, left>>
        /\ geometry' = [f \in {"size", "position"} |-> record[f]]
        /\ given' = [given EXCEPT !["detached"] = moves']
        /\ orders' = Append(orders, [record EXCEPT !["detached"] = moves'])
    BY <1>4 DEF Careful!Detach
  <2>2. orders' = Append(orders, given')
    BY <1>t, <2>1
  <2>3. geometry'.size = given'.size
    BY <1>t, <2>1 DEF FieldsIn, Hasty!Fields
  <2>4. SizeKept'
    BY <2>1, <2>3 DEF SizeKept
  <2> QED BY <1>2, <1>3, <2>1, <2>2, <2>4, CarePosted
<1>5. CASE Careful!Attach
  <2>1. /\ visible /\ visible' = FALSE /\ UNCHANGED <<echoes, delay, sheet, left>>
        /\ given' = [given EXCEPT !["detached"] = moves', !["position"] = geometry.position]
        /\ orders' = Append(orders, [record EXCEPT !["detached"] = moves', !["position"] = geometry.position,
                                                   !["size"] = geometry.size])
    BY <1>5 DEF Careful!Attach
  <2>2. geometry.size = given.size
    BY <1>2, <1>t, <2>1 DEF SizeKept
  <2>3. [record EXCEPT !["detached"] = moves', !["position"] = geometry.position, !["size"] = geometry.size] = given'
    BY <1>t, <2>1, <2>2 DEF FieldsIn, Hasty!Fields
  <2>4. SizeKept'
    BY <2>1 DEF SizeKept
  <2> QED BY <1>2, <1>3, <2>1, <2>3, <2>4, CarePosted
<1>6. CASE Careful!Wheel
  <2>1. /\ visible /\ UNCHANGED <<visible, created, geometry, echoes, delay, sheet, left>>
        /\ given' = [given EXCEPT !["opacity"] = moves'] /\ window' = [window EXCEPT !["opacity"] = moves']
        /\ orders' = Append(orders, window')
    BY <1>6 DEF Careful!Wheel
  <2>2. created = TRUE /\ geometry.size = given.size
    BY <1>2, <1>t, <2>1 DEF SizeKept
  <2>3. window' = given' /\ given'.size = given.size
    BY <1>t, <2>1, <2>2 DEF FieldsIn, Hasty!Fields
  <2>4. SizeKept'
    BY <2>1, <2>2, <2>3 DEF SizeKept
  <2> QED BY <1>2, <1>3, <2>1, <2>3, <2>4, CarePosted
<1>7. CASE Careful!Resize
  <2>1. /\ visible /\ UNCHANGED <<visible, created, echoes, delay, sheet, left>>
        /\ geometry' = [geometry EXCEPT !["size"] = moves']
        /\ given' = [given EXCEPT !["size"] = moves'] /\ window' = [window EXCEPT !["size"] = moves']
        /\ orders' = Append(orders, window')
    BY <1>7 DEF Careful!Resize
  <2>2. created = TRUE
    BY <1>2, <1>t, <2>1 DEF SizeKept
  <2>3. window' = given' /\ given'.size = geometry'.size
    BY <1>t, <2>1, <2>2 DEF FieldsIn, Hasty!Fields
  <2>4. SizeKept'
    BY <2>1, <2>2, <2>3 DEF SizeKept
  <2> QED BY <1>2, <1>3, <2>1, <2>3, <2>4, CarePosted
<1>8. CASE Careful!Drag
  <2>1. /\ UNCHANGED <<record, orders, echoes, created, window, visible, delay, sheet, left, given>>
        /\ geometry' = [geometry EXCEPT !["position"] = moves']
    BY <1>8 DEF Careful!Drag
  <2>2. geometry'.size = geometry.size
    BY <1>t, <2>1
  <2>3. SizeKept'
    BY <1>2, <2>1, <2>2 DEF SizeKept
  <2>4. Rests'
    BY <1>2, <2>1 DEF Rests
  <2> QED BY <2>3, <2>4
<1>9. CASE Careful!Split
  <2>1. /\ visible /\ delay' = TRUE /\ UNCHANGED <<orders, echoes, created, visible, geometry, sheet, left>>
        /\ given' = [given EXCEPT !["ratio"] = moves'] /\ window' = [window EXCEPT !["ratio"] = moves']
    BY <1>9 DEF Careful!Split
  <2>2. created = TRUE /\ geometry.size = given.size
    BY <1>2, <1>t, <2>1 DEF SizeKept
  <2>3. window' = given' /\ given'.size = given.size
    BY <1>t, <2>1, <2>2 DEF FieldsIn, Hasty!Fields
  <2>4. SizeKept'
    BY <2>1, <2>2, <2>3 DEF SizeKept
  <2>5. Delayed'
    BY <1>2, <1>3, <2>1, <2>3 DEF Rests, Delayed
  <2> QED BY <2>4, <2>5
<1> QED BY <1>4, <1>5, <1>6, <1>7, <1>8, <1>9

\* So does what he does in the dialog.
LEMMA CareDialog ==
  ASSUME CareInv, Careful!OpenDialog \/ Careful!Edit \/ Careful!Confirm \/ Careful!Cancel
  PROVE  left' = FALSE => SizeKept' /\ (Rests \/ Ordered \/ Echoed \/ Delayed)'
<1> USE DEF Careful!Post, Careful!Preview, Careful!popout
<1>1. Careful!Acts
  BY DEF Careful!OpenDialog, Careful!Edit, Careful!Confirm, Careful!Cancel
<1>2. left = FALSE /\ Rests /\ SizeKept /\ moves' \in Nat
  BY <1>1, CareActs
<1>t. given \in FieldsIn(Nat) /\ sheet \in [open : BOOLEAN, copy : FieldsIn(Nat)] /\ created \in BOOLEAN
      /\ record = given /\ orders = <<>> /\ echoes = <<>> /\ delay = FALSE
  BY <1>2 DEF CareInv, PopoutIn, Rests
<1>3. CASE Careful!OpenDialog
  <2>1. /\ sheet' = [open |-> TRUE, copy |-> record]
        /\ UNCHANGED <<record, orders, echoes, created, window, visible, geometry, delay, given>>
    BY <1>3 DEF Careful!OpenDialog
  <2>2. SizeKept'
    BY <1>2, <2>1 DEF SizeKept
  <2>3. Rests'
    BY <1>2, <2>1 DEF Rests
  <2> QED BY <2>2, <2>3
<1>4. CASE Careful!Edit
  <2>1. /\ sheet.open /\ sheet' = [sheet EXCEPT !.copy = [sheet.copy EXCEPT !["color"] = moves']]
        /\ UNCHANGED <<record, orders, echoes, created, visible, geometry, delay, given>>
    BY <1>4 DEF Careful!Edit
  <2>2. SizeKept'
    BY <1>2, <2>1 DEF SizeKept
  <2>3. sheet.open = TRUE /\ sheet'.open = TRUE /\ sheet'.copy = [sheet.copy EXCEPT !["color"] = moves']
    BY <1>t, <2>1
  <2>4. \A f \in Hasty!Fields \ {"color"} : sheet'.copy[f] = given[f]
    BY <1>2, <1>t, <2>3 DEF Rests, FieldsIn
  <2>5. Rests'
    BY <1>2, <2>1, <2>3, <2>4 DEF Rests
  <2> QED BY <2>2, <2>5
<1>5. CASE Careful!Confirm
  <2>1. /\ sheet.open /\ sheet' = Careful!NoDialog
        /\ orders' = Append(orders, sheet.copy) /\ given' = [given EXCEPT !["color"] = sheet.copy.color]
        /\ UNCHANGED <<record, echoes, created, window, visible, geometry, delay>>
    BY <1>5 DEF Careful!Confirm
  <2>2. sheet'.open = FALSE
    BY <2>1 DEF Careful!NoDialog
  <2>3. \A f \in Hasty!Fields \ {"color"} : sheet.copy[f] = given[f]
    BY <1>2, <1>t, <2>1 DEF Rests
  <2>4. given' = sheet.copy /\ given'.size = given.size
    BY <1>t, <2>1, <2>3 DEF FieldsIn, Hasty!Fields
  <2>5. SizeKept'
    BY <1>2, <2>1, <2>4 DEF SizeKept
  <2>6. orders' = <<given'>>
    BY <1>t, <2>1, <2>4
  <2>7. Ordered'
    BY <1>t, <2>1, <2>2, <2>6 DEF Ordered
  <2> QED BY <2>5, <2>7
<1>6. CASE Careful!Cancel
  <2>1. /\ sheet' = Careful!NoDialog /\ window' = (IF created THEN record ELSE window)
        /\ UNCHANGED <<record, orders, echoes, created, visible, geometry, delay, given>>
    BY <1>6 DEF Careful!Cancel
  <2>2. sheet'.open = FALSE
    BY <2>1 DEF Careful!NoDialog
  <2>3. SizeKept'
    BY <1>2, <2>1 DEF SizeKept
  <2>4. Rests'
    BY <1>2, <1>t, <2>1, <2>2 DEF Rests
  <2> QED BY <2>3, <2>4
<1> QED BY <1>3, <1>4, <1>5, <1>6

\* The timer posts the window, the control thread saves, the echo arrives.
LEMMA CareAnswers ==
  ASSUME CareInv, Careful!SplitterTimeout \/ Careful!Save \/ Careful!Deliver \/ Careful!Exit
  PROVE  left' = FALSE => SizeKept' /\ (Rests \/ Ordered \/ Echoed \/ Delayed)'
<1> USE DEF Careful!Post, Careful!Preview, Careful!popout
<1>1. CASE Careful!Exit
  BY <1>1 DEF Careful!Exit
<1>2. CASE ~Careful!Exit
  <2>1. UNCHANGED <<left, visible, created, geometry, given, sheet>>
    BY <1>2 DEF Careful!SplitterTimeout, Careful!Save, Careful!Deliver
  <2> SUFFICES ASSUME left = FALSE PROVE (Rests \/ Ordered \/ Echoed \/ Delayed)'
    BY <2>1 DEF CareInv, SizeKept
  <2>2. Rests \/ Ordered \/ Echoed \/ Delayed
    BY DEF CareInv
  <2>3. CASE Careful!SplitterTimeout
    <3>1. delay /\ delay' = FALSE /\ orders' = Append(orders, window) /\ UNCHANGED <<record, echoes, window>>
      BY <2>3 DEF Careful!SplitterTimeout
    <3>2. Delayed
      BY <2>2, <3>1 DEF Rests, Ordered, Echoed
    <3>3. orders' = <<given>>
      BY <3>1, <3>2 DEF Delayed
    <3>4. Ordered'
      BY <2>1, <3>1, <3>2, <3>3 DEF Delayed, Ordered
    <3> QED BY <3>4
  <2>4. CASE Careful!Save
    <3>1. /\ orders # <<>> /\ orders' = Tail(orders) /\ record' = Head(orders) /\ echoes' = Append(echoes, Head(orders))
          /\ UNCHANGED <<window, delay>>
      BY <2>4 DEF Careful!Save
    <3>2. Ordered
      BY <2>2, <3>1 DEF Rests, Echoed, Delayed
    <3>3. Head(orders) = given /\ Tail(orders) = <<>>
      BY <3>2 DEF Ordered
    <3>4. Append(<<>>, given) = <<given>>
      OBVIOUS
    <3>5. Echoed'
      BY <2>1, <3>1, <3>2, <3>3, <3>4 DEF Ordered, Echoed
    <3> QED BY <3>5
  <2>5. CASE Careful!Deliver
    <3>1. /\ echoes # <<>> /\ echoes' = Tail(echoes) /\ window' = (IF created THEN Head(echoes) ELSE window)
          /\ UNCHANGED <<record, orders, delay>>
      BY <2>5 DEF Careful!Deliver
    <3>2. Echoed
      BY <2>2, <3>1 DEF Rests, Ordered, Delayed
    <3>3. Head(echoes) = given /\ Tail(echoes) = <<>>
      BY <3>2 DEF Echoed
    <3>4. Rests'
      BY <2>1, <3>1, <3>2, <3>3 DEF Echoed, Rests
    <3> QED BY <3>4
  <2> QED BY <1>2, <2>3, <2>4, <2>5
<1> QED BY <1>1, <1>2

\* Every step of the careful user, the window and the session keeps his
\* invariant.
LEMMA CareStep == ASSUME CareInv, Careful!Next PROVE CareInv'
<1>1. PopoutIn(Nat)'
  <2>1. PopoutIn(Nat) /\ moves \in Nat
    BY DEF CareInv, PopoutIn
  <2> QED BY <2>1, MovesCount, PopoutTyped
<1>2. left' = FALSE => SizeKept' /\ (Rests \/ Ordered \/ Echoed \/ Delayed)'
  BY CareWindow, CareDialog, CareAnswers DEF Careful!Next
<1> QED BY <1>1, <1>2 DEF CareInv

\* While another part runs, the invariant of the window stays.
LEMMA PopoutKept == ASSUME UNCHANGED part, UNCHANGED popoutVars, PopoutInv PROVE PopoutInv'
BY DEF popoutVars, PopoutInv, EchoInv, CareInv, PopoutIn, LastEcho, Hasty!ShownIsSaved, Hasty!Settled,
       SizeKept, Rests, Ordered, Echoed, Delayed

\* For every number of steps the last echo under way is what is saved, and
\* the careful user's record is in one place on its way (window.py,
\* presentation.py, presenter.py).
THEOREM PopoutInvariance == DesktopSpec => []PopoutInv
<1>1. ASSUME DesktopInit PROVE PopoutInv
  BY <1>1, PopoutInit DEF DesktopInit, Starts, PopoutInv
<1>2. ASSUME PopoutInv, DesktopNext PROVE PopoutInv'
  <2>1. CASE part = "hasty" /\ Hasty!Next
    BY <1>2, <2>1, EchoStep DEF PopoutInv, DesktopNext
  <2>2. CASE part = "careful" /\ Careful!Next
    BY <1>2, <2>2, CareStep DEF PopoutInv, DesktopNext
  <2>3. CASE UNCHANGED popoutVars
    BY <1>2, <2>3, PopoutKept DEF DesktopNext
  <2> QED BY <1>2, <2>1, <2>2, <2>3 DEF DesktopNext
<1>3. ASSUME PopoutInv, UNCHANGED <<part, vars, popoutVars, fileVars, monitorVars, feedVars, avatarVars>>
      PROVE  PopoutInv'
  BY <1>3, PopoutKept
<1> QED BY <1>1, <1>2, <1>3, PTL DEF DesktopSpec

\* What the comment window shows is what is saved once every save is through,
\* and for a user who takes one step at a time every field is saved with the
\* last value it was given (window.py, shell/presenter.py apply_presentation).
THEOREM WindowShowsWhatIsSaved == DesktopSpec => []WindowIsSaved
<1>1. ASSUME CareInv PROVE Careful!NothingLost
  <2>1. SUFFICES ASSUME orders = <<>>, echoes = <<>>, ~delay, ~left PROVE record = given
    BY DEF Careful!NothingLost, Careful!Settled
  <2>2. left = FALSE /\ delay = FALSE
    BY <1>1, <2>1 DEF CareInv, PopoutIn
  <2>3. Rests
    BY <1>1, <2>1, <2>2 DEF CareInv, Ordered, Echoed, Delayed
  <2> QED BY <2>3 DEF Rests
<1>2. PopoutInv => WindowIsSaved
  BY <1>1 DEF PopoutInv, EchoInv, WindowIsSaved
<1> QED BY <1>2, PopoutInvariance, PTL

-----------------------------------------------------------------------------
(***************************************************************************)
(* Sequences of records, by the kind of their elements.                    *)
(***************************************************************************)
Of(q, kind) == {i \in DOMAIN q : q[i].kind = kind}

Extends(longer, q, x, kind) ==
  /\ Of(longer, kind) = Of(q, kind) \cup (IF x.kind = kind THEN {Len(q) + 1} ELSE {})
  /\ \A i \in Of(q, kind) : i \in 1 .. Len(q) /\ longer[i] = q[i]
\* What is appended to a queue adds to its own kind only.
LEMMA KindsGrown ==
  ASSUME NEW S, NEW q \in Seq(S), NEW x \in S, NEW kind
  PROVE  /\ Append(q, x) \in Seq(S) /\ Len(q) \in Nat /\ Append(q, x)[Len(q) + 1] = x
         /\ Extends(Append(q, x), q, x, kind)
<1> DEFINE longer == Append(q, x)
<1>1. /\ longer \in Seq(S) /\ Len(longer) = Len(q) + 1
      /\ \A i \in 1 .. Len(q) : longer[i] = q[i]
      /\ longer[Len(q) + 1] = x
  BY AppendProperties
<1> HIDE DEF longer
<1>2. Len(q) \in Nat /\ DOMAIN q = 1 .. Len(q) /\ DOMAIN longer = 1 .. Len(longer)
  BY <1>1, LenProperties
<1>3. DOMAIN longer = DOMAIN q \cup {Len(q) + 1}
  BY <1>1, <1>2
<1>4. Of(longer, kind) = Of(q, kind) \cup (IF x.kind = kind THEN {Len(q) + 1} ELSE {})
  BY <1>1, <1>2, <1>3 DEF Of
<1>5. \A i \in Of(q, kind) : i \in 1 .. Len(q) /\ longer[i] = q[i]
  BY <1>1, <1>2 DEF Of
<1> QED BY <1>1, <1>2, <1>4, <1>5 DEF longer, Extends

Shifts(q, kind) ==
  /\ \A i \in Of(Tail(q), kind) : i \in Nat /\ i + 1 \in Of(q, kind) /\ Tail(q)[i] = q[i + 1]
  /\ \A i \in Of(q, kind) : i \in Nat /\ (i = 1 \/ i - 1 \in Of(Tail(q), kind))
  /\ 1 \in Of(q, kind) <=> Head(q).kind = kind
\* What is taken off a queue moves the others of every kind up.
LEMMA KindsShrunk ==
  ASSUME NEW S, NEW q \in Seq(S), q # <<>>, NEW kind
  PROVE  /\ Head(q) \in S /\ Tail(q) \in Seq(S) /\ Head(q) = q[1] /\ 1 \in DOMAIN q
         /\ Shifts(q, kind)
<1> DEFINE rest == Tail(q)
<1>1. /\ Head(q) \in S /\ rest \in Seq(S) /\ Len(rest) = Len(q) - 1
      /\ \A i \in 1 .. Len(rest) : rest[i] = q[i + 1]
  BY HeadTailProperties
<1> HIDE DEF rest
<1>2. Len(q) \in Nat \ {0} /\ DOMAIN q = 1 .. Len(q) /\ DOMAIN rest = 1 .. Len(rest) /\ Len(rest) \in Nat
  BY <1>1, LenProperties, EmptySeq
<1>3. Head(q) = q[1] /\ 1 \in DOMAIN q
  BY <1>2
<1>4. \A i \in Of(rest, kind) : i \in Nat /\ i + 1 \in Of(q, kind) /\ rest[i] = q[i + 1]
  BY <1>1, <1>2 DEF Of
<1>5. \A i \in Of(q, kind) : i \in Nat /\ (i = 1 \/ i - 1 \in Of(rest, kind))
  <2> SUFFICES ASSUME NEW i \in Of(q, kind), i # 1 PROVE i - 1 \in Of(rest, kind)
    BY <1>2 DEF Of
  <2>1. i \in 1 .. Len(q) /\ q[i].kind = kind
    BY <1>2 DEF Of
  <2>2. i - 1 \in 1 .. Len(rest) /\ (i - 1) + 1 = i
    BY <1>1, <1>2, <2>1
  <2>3. rest[i - 1] = q[i]
    BY <1>1, <2>2
  <2> QED BY <1>2, <2>1, <2>2, <2>3 DEF Of
<1>6. 1 \in Of(q, kind) <=> Head(q).kind = kind
  BY <1>3 DEF Of
<1> QED BY <1>1, <1>3, <1>4, <1>5, <1>6 DEF rest, Shifts

-----------------------------------------------------------------------------
(***************************************************************************)
(* The dialog.  What it shows differs from what it was last told exactly   *)
(* where the user edited; and while a setting was saved at most once since *)
(* the dialog was opened, every value of it that is on its way is the one  *)
(* of the baseline or the one that is saved.                               *)
(***************************************************************************)
Typings == [Keys -> Values \cup {Untouched}]
Commands ==
  [kind : {"start"}, source : Values] \cup [kind : {"view"}, view : Values]
  \cup [kind : {"plugin"}, key : Keys, value : Values]
  \cup [kind : {"apply"}, config : Configs, typed : Typings]
News == [kind : {"applied"}, config : Configs] \cup [kind : {"answer"}, error : BOOLEAN]
Results == [before : Configs, after : Configs, base : [Keys -> Values], typed : Typings, since : [Keys -> Nat]]

SavedType ==
  /\ saved \in Configs /\ config \in Configs /\ baseline \in [Keys -> Values]
  /\ commands \in Seq(Commands) /\ news \in Seq(News)
DialogType ==
  /\ draft \in [Keys -> Values] /\ mark \in [Keys -> Values]
  /\ dialog \in {"none", "create", "open", "flush", "saving"}
  /\ typed \in Typings /\ since \in [Keys -> Nat]
ResultType == result \in Results

OneSave ==
  /\ \A i, j \in Of(commands, "apply") : i = j
  /\ \A i, j \in Of(news, "answer") : i = j
  /\ Of(commands, "apply") = {} \/ Of(news, "answer") = {}
  /\ dialog # "saving" => Of(commands, "apply") = {} /\ Of(news, "answer") = {}

IsShown == dialog \in {"open", "flush", "saving"}
EditsDiffer ==
  /\ dialog = "create" => typed = Untyped
  /\ IsShown => \A k \in Keys : IF typed[k] = Untouched THEN draft[k] = mark[k]
                                                      ELSE draft[k] = typed[k] /\ draft[k] # mark[k]

Between(k, value) == value \in {baseline[k], saved.engine[k]}
CopyHolds(copy, edits) == \A k \in Keys :
  /\ edits[k] # Untouched => copy.engine[k] = edits[k]
  /\ edits[k] = Untouched /\ since[k] <= 1 => Between(k, copy.engine[k])
CopiesHold ==
  /\ dialog = "flush" => CopyHolds(config, typed)
  /\ \A i \in Of(commands, "apply") : CopyHolds(commands[i].config, commands[i].typed)

LastIsSaved == \A i \in Of(news, "applied") :
  (\A j \in Of(news, "applied") : j <= i) => news[i].config.engine = saved.engine
UnsavedIsBaseline == dialog # "none" => \A k \in Keys : since[k] = 0 => saved.engine[k] = baseline[k]
NewsBetween == IsShown => \A k \in Keys : since[k] <= 1 =>
  Between(k, mark[k]) /\ \A i \in Of(news, "applied") : Between(k, news[i].config.engine[k])

DraftInv ==
  /\ SavedType /\ DialogType /\ ResultType /\ OneSave /\ EditsDiffer /\ CopiesHold
  /\ LastIsSaved /\ UnsavedIsBaseline /\ NewsBetween /\ EditIsSaved /\ OneSaveSurvives

\* The invariant of the dialog holds at the start.
LEMMA DraftInit == ASSUME Init PROVE DraftInv
<1>1. /\ saved = Default /\ baseline = Default.engine /\ commands = <<>> /\ news = <<>>
      /\ dialog = "none" /\ config = Default /\ draft = Default.engine /\ mark = Default.engine
      /\ typed = Untyped /\ since = Never /\ result = NoResult
  BY DEF Init
<1>2. Default \in Configs /\ Default.engine \in [Keys -> Values] /\ Untyped \in Typings /\ Never \in [Keys -> Nat]
  BY DraftAssumption DEF Default, Configs, Untyped, Untouched, Typings, Never
<1>3. SavedType
  BY <1>1, <1>2, EmptySeq DEF SavedType
<1>4. DialogType
  BY <1>1, <1>2 DEF DialogType
<1>5. ResultType
  BY <1>1, <1>2 DEF ResultType, Results, NoResult
<1>6. Of(commands, "apply") = {} /\ Of(news, "answer") = {} /\ Of(news, "applied") = {}
  BY <1>1 DEF Of
<1>7. OneSave /\ EditsDiffer /\ CopiesHold /\ LastIsSaved /\ UnsavedIsBaseline /\ NewsBetween
  BY <1>1, <1>6 DEF OneSave, EditsDiffer, IsShown, CopiesHold, LastIsSaved, UnsavedIsBaseline, NewsBetween
<1>8. \A k \in Keys : result.typed[k] = Untouched /\ result.after.engine[k] = result.before.engine[k]
  BY <1>1 DEF NoResult, Untyped
<1>9. EditIsSaved /\ OneSaveSurvives
  BY <1>8 DEF EditIsSaved, OneSaveSurvives
<1> QED BY <1>3, <1>4, <1>5, <1>7, <1>9 DEF DraftInv

\* The result changes only when an apply is taken.
ResultInv == ResultType /\ EditIsSaved /\ OneSaveSurvives
\* Where no result arrives, what is said of the results stays.
LEMMA ResultRests == ASSUME ResultInv, UNCHANGED result PROVE ResultInv'
BY DEF ResultInv, ResultType, EditIsSaved, OneSaveSurvives

\* What is posted without an apply leaves the one on its way alone.
LEMMA DraftPosts ==
  ASSUME DraftInv, NEW c \in Commands, c.kind # "apply", commands' = Append(commands, c),
         UNCHANGED <<saved, baseline, news, form, history>>
  PROVE  DraftInv'
<1> USE DEF form, history
<1>1. /\ commands' \in Seq(Commands) /\ Of(commands', "apply") = Of(commands, "apply")
      /\ \A i \in Of(commands, "apply") : commands'[i] = commands[i]
  <2> DEFINE longer == Append(commands, c)
  <2>1. commands \in Seq(Commands)
    BY DEF DraftInv, SavedType
  <2>2. /\ longer \in Seq(Commands)
        /\ Extends(longer, commands, c, "apply")
    BY <2>1, KindsGrown
  <2> HIDE DEF longer
  <2> QED BY <2>2 DEF longer, Extends
<1>2. SavedType' /\ DialogType'
  BY <1>1 DEF DraftInv, SavedType, DialogType
<1>3. OneSave'
  BY <1>1 DEF DraftInv, OneSave
<1>4. CopiesHold'
  <2>1. \A copy, edits : CopyHolds(copy, edits)' <=> CopyHolds(copy, edits)
    BY DEF CopyHolds, Between
  <2>2. dialog' = "flush" => CopyHolds(config', typed')
    BY DEF DraftInv, CopiesHold
  <2> QED BY <1>1, <2>1, <2>2 DEF DraftInv, CopiesHold
<1>5. EditsDiffer' /\ LastIsSaved' /\ UnsavedIsBaseline' /\ NewsBetween'
  BY DEF DraftInv, EditsDiffer, IsShown, LastIsSaved, UnsavedIsBaseline, NewsBetween, Between
<1>6. ResultInv'
  BY ResultRests DEF DraftInv, ResultInv
<1> QED BY <1>2, <1>3, <1>4, <1>5, <1>6 DEF DraftInv, ResultInv

\* The dialog is opened: its baseline, and then its copy, are what is saved.
LEMMA DraftBegins == ASSUME DraftInv, BeginSettings PROVE DraftInv'
<1>1. /\ dialog = "none" /\ dialog' = "create" /\ baseline' = saved.engine /\ typed' = Untyped /\ since' = Never
      /\ UNCHANGED <<saved, commands, news, config, draft, mark, result>>
  BY DEF BeginSettings
<1>2. saved.engine \in [Keys -> Values] /\ Untyped \in Typings /\ Never \in [Keys -> Nat]
  BY DEF DraftInv, SavedType, Configs, Untyped, Untouched, Typings, Never
<1>3. SavedType' /\ DialogType'
  BY <1>1, <1>2 DEF DraftInv, SavedType, DialogType
<1>4. Of(commands, "apply") = {} /\ Of(news, "answer") = {}
  BY <1>1 DEF DraftInv, OneSave
<1>5. OneSave' /\ CopiesHold'
  BY <1>1, <1>4 DEF OneSave, CopiesHold
<1>6. EditsDiffer' /\ LastIsSaved' /\ UnsavedIsBaseline' /\ NewsBetween'
  BY <1>1 DEF DraftInv, EditsDiffer, IsShown, LastIsSaved, UnsavedIsBaseline, NewsBetween
<1>7. ResultInv'
  BY <1>1, ResultRests DEF DraftInv, ResultInv
<1> QED BY <1>3, <1>5, <1>6, <1>7 DEF DraftInv, ResultInv

\* A dialog that opens shows what is saved.
LEMMA DraftCreated == ASSUME DraftInv, CreateDialog PROVE DraftInv'
<1> DEFINE waiting == {i \in 1..Len(news) : news[i].kind = "applied"}
<1>1. /\ dialog = "create" /\ dialog' = "open" /\ config' = saved /\ draft' = saved.engine /\ mark' = saved.engine
      /\ since' = [k \in Keys |-> since[k] + Cardinality(waiting)]
      /\ UNCHANGED <<saved, baseline, commands, news, typed, result>>
  BY DEF CreateDialog
<1>2. news \in Seq(News) /\ since \in [Keys -> Nat] /\ saved \in Configs /\ saved.engine \in [Keys -> Values]
  BY DEF DraftInv, SavedType, DialogType, Configs
<1>3. waiting = Of(news, "applied") /\ IsFiniteSet(waiting) /\ Cardinality(waiting) \in Nat
  <2>1. Len(news) \in Nat /\ DOMAIN news = 1 .. Len(news)
    BY <1>2, LenProperties
  <2>2. IsFiniteSet(1 .. Len(news)) /\ waiting \subseteq 1 .. Len(news)
    BY <2>1, FS_Interval
  <2>3. IsFiniteSet(waiting) /\ Cardinality(waiting) \in Nat
    BY <2>2, FS_Subset, FS_CardinalityType
  <2> QED BY <2>1, <2>3 DEF Of
<1>4. Cardinality(waiting) = 0 => waiting = {}
  BY <1>3, FS_EmptySet
<1>5. Cardinality(waiting) = 1 => \A i \in waiting : news[i].config.engine = saved.engine
  <2>1. ASSUME Cardinality(waiting) = 1 PROVE \A i, j \in waiting : i = j
    <3>1. PICK x : waiting = {x}
      BY <1>3, <2>1, FS_Singleton
    <3> QED BY <3>1
  <2> SUFFICES ASSUME Cardinality(waiting) = 1, NEW i \in waiting PROVE news[i].config.engine = saved.engine
    OBVIOUS
  <2>2. i \in Nat
    BY <1>2, LenProperties
  <2>3. \A j \in Of(news, "applied") : j <= i
    BY <1>3, <2>1, <2>2
  <2> QED BY <1>3, <2>3 DEF DraftInv, LastIsSaved
<1> DEFINE n == Cardinality(waiting)
<1>6. n \in Nat /\ since' = [k \in Keys |-> since[k] + n]
  BY <1>1, <1>3
<1> HIDE DEF n
<1>a. since' \in [Keys -> Nat] /\ \A k \in Keys : since'[k] = since[k] + n
  BY <1>2, <1>6
<1>7. SavedType' /\ DialogType'
  BY <1>1, <1>2, <1>a DEF DraftInv, SavedType, DialogType
<1>8. OneSave' /\ CopiesHold'
  BY <1>1 DEF DraftInv, OneSave, CopiesHold
<1>9. EditsDiffer'
  BY <1>1 DEF DraftInv, EditsDiffer, Untyped
<1>10. LastIsSaved'
  BY <1>1 DEF DraftInv, LastIsSaved
<1>11. UnsavedIsBaseline'
  BY <1>1, <1>2, <1>6, <1>a DEF DraftInv, UnsavedIsBaseline
<1>12. NewsBetween'
  <2> SUFFICES ASSUME NEW k \in Keys, since'[k] <= 1
               PROVE  \A i \in Of(news, "applied") : Between(k, news[i].config.engine[k])
    BY <1>1 DEF NewsBetween, Between
  <2>1. n = 0 \/ n = 1
    BY <1>2, <1>6, <1>a
  <2>2. \A i \in Of(news, "applied") : news[i].config.engine = saved.engine
    BY <1>3, <1>4, <1>5, <2>1 DEF n
  <2> QED BY <2>2 DEF Between
<1>13. ResultInv'
  BY <1>1, ResultRests DEF DraftInv, ResultInv
<1> QED BY <1>7, <1>8, <1>9, <1>10, <1>11, <1>12, <1>13 DEF DraftInv, ResultInv

\* The user edits: an edit differs from what was last told.
LEMMA DraftEdited == ASSUME DraftInv, NEW key \in Keys, NEW v \in Values, Edit(key, v) PROVE DraftInv'
<1>1. /\ dialog = "open" /\ draft' = [draft EXCEPT ![key] = v]
      /\ typed' = [typed EXCEPT ![key] = IF v = mark[key] THEN Untouched ELSE v]
      /\ UNCHANGED <<saved, baseline, commands, news, dialog, config, mark, since, result>>
  BY DEF Edit
<1>2. draft \in [Keys -> Values] /\ typed \in Typings /\ v # Untouched
  BY DraftAssumption DEF DraftInv, DialogType, Untouched
<1>3. draft' \in [Keys -> Values] /\ typed' \in Typings
  BY <1>1, <1>2 DEF Typings
<1>4. SavedType' /\ DialogType'
  BY <1>1, <1>3 DEF DraftInv, SavedType, DialogType
<1>5. OneSave' /\ LastIsSaved' /\ UnsavedIsBaseline'
  BY <1>1 DEF DraftInv, OneSave, LastIsSaved, UnsavedIsBaseline
<1>6. CopiesHold'
  BY <1>1 DEF DraftInv, CopiesHold, CopyHolds, Between
<1>7. EditsDiffer'
  <2> SUFFICES ASSUME NEW k \in Keys
               PROVE  IF typed'[k] = Untouched THEN draft'[k] = mark[k] ELSE draft'[k] = typed'[k] /\ draft'[k] # mark[k]
    BY <1>1 DEF EditsDiffer
  <2>1. IF typed[k] = Untouched THEN draft[k] = mark[k] ELSE draft[k] = typed[k] /\ draft[k] # mark[k]
    BY <1>1 DEF DraftInv, EditsDiffer, IsShown
  <2>2. typed'[k] = (IF k = key THEN IF v = mark[key] THEN Untouched ELSE v ELSE typed[k])
        /\ draft'[k] = IF k = key THEN v ELSE draft[k]
    BY <1>1, <1>2 DEF Typings
  <2> QED BY <1>2, <2>1, <2>2
<1>8. NewsBetween'
  BY <1>1 DEF DraftInv, NewsBetween, IsShown, Between
<1>9. ResultInv'
  BY <1>1, ResultRests DEF DraftInv, ResultInv
<1> QED BY <1>4, <1>5, <1>6, <1>7, <1>8, <1>9 DEF DraftInv, ResultInv

\* OK: the copy takes the draft, which is what was typed or between.
LEMMA DraftAccepted == ASSUME DraftInv, NEW v \in Values, Accept(v) PROVE DraftInv'
<1>1. /\ dialog = "open" /\ dialog' = "flush" /\ config' = [config EXCEPT !.engine = draft, !.view = v]
      /\ UNCHANGED <<saved, baseline, commands, news, draft, mark, typed, since, result>>
  BY DEF Accept, history
<1>2. config \in Configs /\ draft \in [Keys -> Values]
  BY DEF DraftInv, SavedType, DialogType
<1>3. config'.engine = draft /\ config' = [engine |-> draft, source |-> config.source, view |-> v]
  BY <1>1, <1>2 DEF Configs
<1>4. config' \in Configs
  BY <1>2, <1>3 DEF Configs
<1>5. SavedType' /\ DialogType'
  BY <1>1, <1>4 DEF DraftInv, SavedType, DialogType
<1>6. OneSave' /\ LastIsSaved' /\ UnsavedIsBaseline' /\ EditsDiffer' /\ NewsBetween'
  BY <1>1 DEF DraftInv, OneSave, LastIsSaved, UnsavedIsBaseline, EditsDiffer, IsShown, NewsBetween, Between
<1>7. CopyHolds(config', typed)
  BY <1>1, <1>3 DEF DraftInv, CopyHolds, EditsDiffer, IsShown, NewsBetween
<1>8. CopiesHold'
  BY <1>1, <1>7 DEF DraftInv, CopiesHold, CopyHolds, Between
<1>9. ResultInv'
  BY <1>1, ResultRests DEF DraftInv, ResultInv
<1> QED BY <1>5, <1>6, <1>8, <1>9 DEF DraftInv, ResultInv

\* A dialog that is cancelled, or cannot save, keeps the invariant.
LEMMA DraftLeft == ASSUME DraftInv, FlushFails \/ Cancel PROVE DraftInv'
<1>1. /\ dialog \in {"flush", "open"} /\ dialog' \in {"open", "none"}
      /\ UNCHANGED <<saved, baseline, commands, news, config, draft, mark, typed, since, result>>
  BY DEF FlushFails, Cancel, history
<1>2. SavedType' /\ DialogType' /\ OneSave' /\ LastIsSaved' /\ UnsavedIsBaseline'
  BY <1>1 DEF DraftInv, SavedType, DialogType, OneSave, LastIsSaved, UnsavedIsBaseline
<1>3. EditsDiffer' /\ NewsBetween'
  BY <1>1 DEF DraftInv, EditsDiffer, IsShown, NewsBetween, Between
<1>4. CopiesHold'
  BY <1>1 DEF DraftInv, CopiesHold, CopyHolds, Between
<1>5. ResultInv'
  BY <1>1, ResultRests DEF DraftInv, ResultInv
<1> QED BY <1>2, <1>3, <1>4, <1>5 DEF DraftInv, ResultInv

\* OK sends what the dialog shows.
LEMMA DraftFlushed == ASSUME DraftInv, Flushed PROVE DraftInv'
<1> DEFINE c == [kind |-> "apply", config |-> config, typed |-> typed]
<1>1. /\ dialog = "flush" /\ dialog' = "saving" /\ commands' = Append(commands, c)
      /\ UNCHANGED <<saved, baseline, news, config, draft, mark, typed, since, result>>
  BY DEF Flushed, Post, history
<1>2. c \in Commands /\ c.kind = "apply" /\ c.config = config /\ c.typed = typed
  BY DEF DraftInv, SavedType, DialogType, Commands
<1> HIDE DEF c
<1>3. Of(commands, "apply") = {} /\ Of(news, "answer") = {}
  BY <1>1 DEF DraftInv, OneSave
<1>4. /\ commands' \in Seq(Commands) /\ Of(commands', "apply") = {Len(commands) + 1}
      /\ commands'[Len(commands) + 1] = c
  <2>1. commands \in Seq(Commands)
    BY DEF DraftInv, SavedType
  <2>2. /\ commands' \in Seq(Commands) /\ commands'[Len(commands) + 1] = c
        /\ Extends(commands', commands, c, "apply")
    BY <1>1, <1>2, <2>1, KindsGrown
  <2> QED BY <1>2, <1>3, <2>2 DEF Extends
<1>5. SavedType' /\ DialogType'
  BY <1>1, <1>4 DEF DraftInv, SavedType, DialogType
<1>6. OneSave'
  BY <1>1, <1>3, <1>4 DEF OneSave
<1>7. EditsDiffer' /\ NewsBetween' /\ LastIsSaved' /\ UnsavedIsBaseline'
  BY <1>1 DEF DraftInv, EditsDiffer, IsShown, NewsBetween, Between, LastIsSaved, UnsavedIsBaseline
<1>8. CopyHolds(config, typed)
  BY <1>1 DEF DraftInv, CopiesHold
<1>9. CopiesHold'
  BY <1>1, <1>2, <1>4, <1>8 DEF CopiesHold, CopyHolds, Between
<1>10. ResultInv'
  BY <1>1, ResultRests DEF DraftInv, ResultInv
<1> QED BY <1>5, <1>6, <1>7, <1>9, <1>10 DEF DraftInv, ResultInv

\* What is left of the news when the first is delivered.
LEMMA NewsTaken ==
  ASSUME DraftInv, news # <<>>, news' = Tail(news), UNCHANGED saved
  PROVE  /\ Head(news) \in News /\ news' \in Seq(News)
         /\ \A i, j \in Of(news', "answer") : i = j
         /\ Of(news, "answer") = {} => Of(news', "answer") = {}
         /\ LastIsSaved'
         /\ \A i \in Of(news', "applied") : \E j \in Of(news, "applied") : news'[i] = news[j]
         /\ Head(news).kind = "applied" => \E j \in Of(news, "applied") : Head(news) = news[j]
         /\ Head(news).kind = "answer" =>
              Of(news', "answer") = {} /\ Of(commands, "apply") = {} /\ dialog = "saving"
<1>1. news \in Seq(News)
  BY DEF DraftInv, SavedType
<1>a. Head(news) \in News /\ Tail(news) \in Seq(News) /\ Head(news) = news[1]
  BY <1>1, KindsShrunk
<1>b. Shifts(news, "answer") /\ Shifts(news, "applied")
  BY <1>1, KindsShrunk
<1>2. /\ Head(news) \in News /\ Tail(news) \in Seq(News) /\ Head(news) = news[1]
      /\ \A i \in Of(Tail(news), "answer") : i \in Nat /\ i + 1 \in Of(news, "answer")
      /\ 1 \in Of(news, "answer") <=> Head(news).kind = "answer"
  BY <1>a, <1>b DEF Shifts
<1>3. /\ \A i \in Of(Tail(news), "applied") : i \in Nat /\ i + 1 \in Of(news, "applied") /\ Tail(news)[i] = news[i + 1]
      /\ \A i \in Of(news, "applied") : i \in Nat /\ (i = 1 \/ i - 1 \in Of(Tail(news), "applied"))
      /\ 1 \in Of(news, "applied") <=> Head(news).kind = "applied"
  BY <1>b DEF Shifts
<1>4. \A i, j \in Of(news, "answer") : i = j
  BY DEF DraftInv, OneSave
<1>5. \A i, j \in Of(news', "answer") : i = j
  BY <1>2, <1>4
<1>6. LastIsSaved'
  <2> SUFFICES ASSUME NEW i \in Of(news', "applied"), \A j \in Of(news', "applied") : j <= i
               PROVE  news'[i].config.engine = saved.engine
    BY DEF LastIsSaved
  <2>1. i \in Nat /\ i + 1 \in Of(news, "applied") /\ news'[i] = news[i + 1]
    BY <1>3
  <2>2. \A j \in Of(news, "applied") : j <= i + 1
    BY <1>3, <2>1
  <2> QED BY <2>1, <2>2 DEF DraftInv, LastIsSaved
<1>7. ASSUME Head(news).kind = "answer"
      PROVE  Of(news', "answer") = {} /\ Of(commands, "apply") = {} /\ dialog = "saving"
  <2>1. 1 \in Of(news, "answer")
    BY <1>2, <1>7
  <2>2. Of(news', "answer") = {}
    <3> SUFFICES ASSUME NEW i \in Of(news', "answer") PROVE FALSE
      OBVIOUS
    <3>1. i \in Nat /\ i + 1 = 1 /\ i + 1 \in DOMAIN news /\ i \in DOMAIN news'
      BY <1>2, <1>4, <2>1 DEF Of
    <3>2. DOMAIN news' = 1 .. Len(news') /\ Len(news') \in Nat
      BY <1>2, LenProperties
    <3> QED BY <3>1, <3>2
  <2> QED BY <2>1, <2>2 DEF DraftInv, OneSave
<1> QED BY <1>2, <1>3, <1>5, <1>6, <1>7

\* The dialog is told what was saved: what was edited stays.
LEMMA DraftTold == ASSUME DraftInv, DeliverApplied PROVE DraftInv'
<1> DEFINE latest == Head(news).config.engine
<1>1. /\ news # <<>> /\ Head(news).kind = "applied" /\ news' = Tail(news)
      /\ UNCHANGED <<saved, baseline, commands, dialog, config, since, result>>
  BY DEF DeliverApplied
<1>2. /\ Head(news) \in News /\ news' \in Seq(News) /\ LastIsSaved'
      /\ \A i, j \in Of(news', "answer") : i = j
      /\ Of(news, "answer") = {} => Of(news', "answer") = {}
      /\ \A i \in Of(news', "applied") : \E j \in Of(news, "applied") : news'[i] = news[j]
      /\ \E j \in Of(news, "applied") : Head(news) = news[j]
  BY <1>1, NewsTaken
<1>3. latest \in [Keys -> Values]
  BY <1>1, <1>2 DEF News, Configs
<1>4. SavedType'
  BY <1>1, <1>2 DEF DraftInv, SavedType
<1>5. OneSave' /\ UnsavedIsBaseline'
  BY <1>1, <1>2 DEF DraftInv, OneSave, UnsavedIsBaseline
<1>6. ResultInv'
  BY <1>1, ResultRests DEF DraftInv, ResultInv
<1>7. CASE dialog \in {"none", "create"}
  <2>1. UNCHANGED <<draft, mark, typed>>
    BY <1>7 DEF DeliverApplied
  <2>2. DialogType' /\ EditsDiffer' /\ NewsBetween'
    BY <1>1, <1>7, <2>1 DEF DraftInv, DialogType, EditsDiffer, IsShown, NewsBetween
  <2>3. CopiesHold'
    BY <1>1, <1>7, <2>1 DEF DraftInv, OneSave, CopiesHold
  <2> QED BY <1>2, <1>4, <1>5, <1>6, <2>2, <2>3 DEF DraftInv, ResultInv
<1>8. CASE dialog \notin {"none", "create"}
  <2>1. /\ draft' = [k \in Keys |-> Refresh(latest, k)] /\ mark' = latest
        /\ typed' = [k \in Keys |-> IF typed[k] = latest[k] THEN Untouched ELSE typed[k]]
    BY <1>8 DEF DeliverApplied
  <2>2. draft \in [Keys -> Values] /\ mark \in [Keys -> Values] /\ typed \in Typings /\ IsShown
    BY <1>8 DEF DraftInv, DialogType, IsShown
  <2>3. \A k \in Keys : IF typed[k] = Untouched THEN draft[k] = mark[k] ELSE draft[k] = typed[k] /\ draft[k] # mark[k]
    BY <2>2 DEF DraftInv, EditsDiffer
  <2>4. \A k \in Keys : Between(k, latest[k]) \/ ~(since[k] <= 1)
    BY <1>2, <2>2 DEF DraftInv, NewsBetween
  <2> HIDE DEF latest
  <2>5. draft' \in [Keys -> Values] /\ mark' \in [Keys -> Values]
    BY <1>3, <2>1, <2>2 DEF Refresh
  <2>6. typed' \in Typings
    BY <2>1, <2>2 DEF Typings
  <2>7. DialogType'
    BY <1>1, <2>5, <2>6 DEF DraftInv, DialogType
  <2>8. \A k \in Keys : latest[k] # Untouched
    BY <1>3, DraftAssumption DEF Untouched
  <2>9. \A k \in Keys : IF typed'[k] = Untouched THEN draft'[k] = mark'[k] ELSE draft'[k] = typed'[k] /\ draft'[k] # mark'[k]
    BY <2>1, <2>3, <2>8 DEF Refresh
  <2>10. EditsDiffer'
    BY <1>1, <1>8, <2>9 DEF EditsDiffer
  <2>11. NewsBetween'
    BY <1>1, <1>2, <2>1, <2>2, <2>4 DEF DraftInv, NewsBetween, IsShown, Between
  <2>12. CopyHolds(config, typed) => CopyHolds(config, typed')
    BY <2>1, <2>4 DEF CopyHolds
  <2>13. \A copy, edits : CopyHolds(copy, edits)' <=> CopyHolds(copy, edits)
    BY <1>1 DEF CopyHolds, Between
  <2>14. dialog' = "flush" => CopyHolds(config', typed')
    BY <1>1, <2>12 DEF DraftInv, CopiesHold
  <2>15. \A i \in Of(commands', "apply") : CopyHolds(commands'[i].config, commands'[i].typed)
    BY <1>1 DEF DraftInv, CopiesHold
  <2>16. CopiesHold'
    BY <2>13, <2>14, <2>15 DEF CopiesHold
  <2> QED BY <1>2, <1>4, <1>5, <1>6, <2>7, <2>10, <2>11, <2>16 DEF DraftInv, ResultInv
<1> QED BY <1>7, <1>8

\* The answer to OK keeps it.
LEMMA DraftAnswered == ASSUME DraftInv, DeliverAnswer PROVE DraftInv'
<1>1. /\ news # <<>> /\ Head(news).kind = "answer" /\ news' = Tail(news)
      /\ dialog' \in {"open", "none"}
      /\ UNCHANGED <<saved, baseline, commands, config, draft, mark, typed, since, result>>
  BY DEF DeliverAnswer, history
<1>2. /\ news' \in Seq(News) /\ LastIsSaved'
      /\ \A i \in Of(news', "applied") : \E j \in Of(news, "applied") : news'[i] = news[j]
      /\ Of(news', "answer") = {} /\ Of(commands, "apply") = {} /\ dialog = "saving"
  BY <1>1, NewsTaken
<1>3. SavedType' /\ DialogType'
  BY <1>1, <1>2 DEF DraftInv, SavedType, DialogType
<1>4. OneSave' /\ CopiesHold'
  BY <1>1, <1>2 DEF OneSave, CopiesHold
<1>5. UnsavedIsBaseline' /\ EditsDiffer'
  BY <1>1, <1>2 DEF DraftInv, UnsavedIsBaseline, EditsDiffer, IsShown
<1>6. NewsBetween'
  BY <1>1, <1>2 DEF DraftInv, NewsBetween, IsShown, Between
<1>7. ResultInv'
  BY <1>1, ResultRests DEF DraftInv, ResultInv
<1> QED BY <1>2, <1>3, <1>4, <1>5, <1>6, <1>7 DEF DraftInv, ResultInv

\* What is left of the commands when the first is taken.
LEMMA CommandTaken ==
  ASSUME DraftInv, commands # <<>>, commands' = Tail(commands)
  PROVE  /\ Head(commands) \in Commands /\ commands' \in Seq(Commands)
         /\ \A i, j \in Of(commands', "apply") : i = j
         /\ Of(commands, "apply") = {} => Of(commands', "apply") = {}
         /\ \A i \in Of(commands', "apply") : \E j \in Of(commands, "apply") : commands'[i] = commands[j]
         /\ Head(commands).kind = "apply" =>
              /\ Of(commands', "apply") = {} /\ Of(news, "answer") = {} /\ dialog = "saving"
              /\ CopyHolds(Head(commands).config, Head(commands).typed)
<1>1. commands \in Seq(Commands)
  BY DEF DraftInv, SavedType
<1>2. Head(commands) \in Commands /\ commands' \in Seq(Commands) /\ Head(commands) = commands[1] /\ Shifts(commands, "apply")
  BY <1>1, KindsShrunk
<1>3. /\ \A i \in Of(commands', "apply") : i \in Nat /\ i + 1 \in Of(commands, "apply") /\ commands'[i] = commands[i + 1]
      /\ 1 \in Of(commands, "apply") <=> Head(commands).kind = "apply"
  BY <1>2 DEF Shifts
<1>4. \A i, j \in Of(commands, "apply") : i = j
  BY DEF DraftInv, OneSave
<1>5. \A i, j \in Of(commands', "apply") : i = j
  BY <1>3, <1>4
<1>6. ASSUME Head(commands).kind = "apply"
      PROVE  /\ Of(commands', "apply") = {} /\ Of(news, "answer") = {} /\ dialog = "saving"
             /\ CopyHolds(Head(commands).config, Head(commands).typed)
  <2>1. 1 \in Of(commands, "apply")
    BY <1>3, <1>6
  <2>2. Of(commands', "apply") = {}
    <3> SUFFICES ASSUME NEW i \in Of(commands', "apply") PROVE FALSE
      OBVIOUS
    <3>1. i \in Nat /\ i + 1 = 1 /\ i \in DOMAIN commands'
      BY <1>3, <1>4, <2>1 DEF Of
    <3>2. DOMAIN commands' = 1 .. Len(commands') /\ Len(commands') \in Nat
      BY <1>2, LenProperties
    <3> QED BY <3>1, <3>2
  <2>3. Of(news, "answer") = {} /\ dialog = "saving"
    BY <2>1 DEF DraftInv, OneSave
  <2>4. CopyHolds(Head(commands).config, Head(commands).typed)
    BY <1>2, <2>1 DEF DraftInv, CopiesHold
  <2> QED BY <2>2, <2>3, <2>4
<1> QED BY <1>2, <1>3, <1>5, <1>6

\* A value stays between as long as a setting is saved at most once.
Counted == \A k \in Keys :
  \/ saved'.engine[k] = saved.engine[k] /\ since'[k] = since[k]
  \/ since'[k] = since[k] + 1

Fresh(k, value) == value \in {baseline'[k], saved'.engine[k]}

\* A save behind an open dialog counts for the settings it changes.
LEMMA BetweenKept ==
  ASSUME DraftInv, UNCHANGED <<baseline, dialog>>, Counted, dialog # "none"
  PROVE  /\ UnsavedIsBaseline'
         /\ \A k \in Keys : since'[k] <= 1 => since[k] <= 1
         /\ \A k \in Keys : \A v : since'[k] <= 1 /\ Between(k, v) => Fresh(k, v)
         /\ \A copy, edits : CopyHolds(copy, edits) => CopyHolds(copy, edits)'
<1>1. since \in [Keys -> Nat]
  BY DEF DraftInv, DialogType
<1>2. \A k \in Keys : since[k] = 0 => saved.engine[k] = baseline[k]
  BY DEF DraftInv, UnsavedIsBaseline
<1>3. \A k \in Keys : since'[k] <= 1 => since[k] <= 1
  BY <1>1 DEF Counted
<1>4. UnsavedIsBaseline'
  BY <1>1, <1>2 DEF Counted, UnsavedIsBaseline
<1>5. ASSUME NEW k \in Keys, NEW v, since'[k] <= 1, Between(k, v) PROVE Fresh(k, v)
  <2>1. CASE saved'.engine[k] = saved.engine[k] /\ since'[k] = since[k]
    BY <1>5, <2>1 DEF Between, Fresh
  <2>2. CASE since'[k] = since[k] + 1
    <3>1. since[k] = 0
      BY <1>1, <1>5, <2>2
    <3> QED BY <1>2, <1>5, <3>1 DEF Between, Fresh
  <2> QED BY <2>1, <2>2 DEF Counted
<1>6. ASSUME NEW copy, NEW edits, CopyHolds(copy, edits) PROVE CopyHolds(copy, edits)'
  <2>1. \A k \in Keys : edits[k] = Untouched /\ since'[k] <= 1 => Fresh(k, copy.engine[k])
    BY <1>3, <1>5, <1>6 DEF CopyHolds
  <2> QED BY <1>6, <2>1 DEF CopyHolds, Between, Fresh
<1> QED BY <1>3, <1>4, <1>5, <1>6

\* What is saved is announced at the end of the news.
Announces(longer, e) ==
  /\ longer \in Seq(News) /\ Of(longer, "answer") = Of(news, "answer")
  /\ \A i \in Of(longer, "applied") : longer[i] = e \/ \E j \in Of(news, "applied") : longer[i] = news[j]
  /\ \A i \in Of(longer, "applied") : (\A j \in Of(longer, "applied") : j <= i) => longer[i] = e
\* The news of an apply announces what it saved.
LEMMA NewsApplied ==
  ASSUME DraftInv, NEW e \in News, e.kind = "applied"
  PROVE  Announces(Append(news, e), e)
<1> DEFINE longer == Append(news, e)
<1>1. news \in Seq(News)
  BY DEF DraftInv, SavedType
<1>2. /\ longer \in Seq(News) /\ Len(news) \in Nat /\ longer[Len(news) + 1] = e
      /\ Extends(longer, news, e, "applied") /\ Extends(longer, news, e, "answer")
  BY <1>1, KindsGrown
<1> HIDE DEF longer
<1>3. /\ Of(longer, "applied") = Of(news, "applied") \cup {Len(news) + 1} /\ Of(longer, "answer") = Of(news, "answer")
      /\ \A i \in Of(news, "applied") : i \in 1 .. Len(news) /\ longer[i] = news[i]
  BY <1>2 DEF Extends
<1>4. ASSUME NEW i \in Of(longer, "applied"), \A j \in Of(longer, "applied") : j <= i PROVE longer[i] = e
  <2>1. Len(news) + 1 <= i /\ (i = Len(news) + 1 \/ i \in 1 .. Len(news))
    BY <1>3, <1>4
  <2>2. i = Len(news) + 1
    BY <1>2, <2>1
  <2> QED BY <1>2, <2>2
<1> QED BY <1>2, <1>3, <1>4 DEF longer, Announces

\* A save by another command than an apply keeps the invariant.
LEMMA DraftSaves ==
  ASSUME DraftInv, commands # <<>>, Head(commands).kind # "apply", commands' = Tail(commands),
         saved' \in Configs, since' \in [Keys -> Nat], Counted,
         \/ UNCHANGED news /\ saved'.engine = saved.engine
         \/ news' = Append(news, [kind |-> "applied", config |-> saved']),
         UNCHANGED <<baseline, form, typed, result>>
  PROVE  DraftInv'
<1> USE DEF form
<1>1. /\ commands' \in Seq(Commands) /\ \A i, j \in Of(commands', "apply") : i = j
      /\ Of(commands, "apply") = {} => Of(commands', "apply") = {}
      /\ \A i \in Of(commands', "apply") : \E j \in Of(commands, "apply") : commands'[i] = commands[j]
  BY CommandTaken
<1> DEFINE e == [kind |-> "applied", config |-> saved']
<1>2. e \in News /\ e.kind = "applied" /\ e.config = saved'
  BY DEF News
<1> HIDE DEF e
<1>3. /\ news' \in Seq(News) /\ Of(news', "answer") = Of(news, "answer")
      /\ \A i \in Of(news', "applied") :
           news'[i].config.engine = saved'.engine \/ \E j \in Of(news, "applied") : news'[i] = news[j]
      /\ LastIsSaved'
  <2>1. CASE UNCHANGED news /\ saved'.engine = saved.engine
    BY <2>1 DEF DraftInv, SavedType, LastIsSaved
  <2>2. CASE news' = Append(news, e)
    <3>1. /\ news' \in Seq(News) /\ Of(news', "answer") = Of(news, "answer")
          /\ \A i \in Of(news', "applied") : news'[i] = e \/ \E j \in Of(news, "applied") : news'[i] = news[j]
          /\ \A i \in Of(news', "applied") : (\A j \in Of(news', "applied") : j <= i) => news'[i] = e
      BY <1>2, <2>2, NewsApplied DEF Announces
    <3> QED BY <1>2, <3>1 DEF LastIsSaved
  <2> QED BY <2>1, <2>2 DEF e
<1>4. SavedType' /\ DialogType'
  BY <1>1, <1>3 DEF DraftInv, SavedType, DialogType
<1>5. OneSave'
  BY <1>1, <1>3 DEF DraftInv, OneSave
<1>6. EditsDiffer'
  BY DEF DraftInv, EditsDiffer, IsShown
<1>7. ResultInv'
  BY ResultRests DEF DraftInv, ResultInv
<1>8. CASE dialog = "none"
  <2>1. UnsavedIsBaseline' /\ NewsBetween'
    BY <1>8 DEF UnsavedIsBaseline, NewsBetween, IsShown
  <2>2. CopiesHold'
    BY <1>1, <1>8 DEF DraftInv, OneSave, CopiesHold
  <2> QED BY <1>3, <1>4, <1>5, <1>6, <1>7, <2>1, <2>2 DEF DraftInv, ResultInv
<1>9. CASE dialog # "none"
  <2>1. /\ UnsavedIsBaseline'
        /\ \A k \in Keys : since'[k] <= 1 => since[k] <= 1
        /\ \A k \in Keys : \A v : since'[k] <= 1 /\ Between(k, v) => Fresh(k, v)
        /\ \A copy, edits : CopyHolds(copy, edits) => CopyHolds(copy, edits)'
    BY <1>9, BetweenKept
  <2>2. CopiesHold'
    BY <1>1, <2>1 DEF DraftInv, CopiesHold
  <2>3. NewsBetween'
    <3>1. ASSUME IsShown, NEW k \in Keys, since'[k] <= 1
          PROVE  Fresh(k, mark'[k]) /\ \A i \in Of(news', "applied") : Fresh(k, news'[i].config.engine[k])
      <4>1. Between(k, mark[k]) /\ \A j \in Of(news, "applied") : Between(k, news[j].config.engine[k])
        BY <2>1, <3>1 DEF DraftInv, NewsBetween
      <4>2. Fresh(k, mark'[k]) /\ Fresh(k, saved'.engine[k])
        BY <2>1, <3>1, <4>1 DEF Fresh
      <4>3. ASSUME NEW i \in Of(news', "applied") PROVE Fresh(k, news'[i].config.engine[k])
        <5>1. CASE news'[i].config.engine = saved'.engine
          BY <4>2, <5>1
        <5>2. CASE \E j \in Of(news, "applied") : news'[i] = news[j]
          <6>1. Between(k, news'[i].config.engine[k])
            BY <4>1, <5>2
          <6> QED BY <2>1, <3>1, <6>1
        <5> QED BY <1>3, <5>1, <5>2
      <4> QED BY <4>2, <4>3
    <3> QED BY <3>1 DEF NewsBetween, IsShown, Between, Fresh
  <2> QED BY <1>3, <1>4, <1>5, <1>6, <1>7, <2>1, <2>2, <2>3 DEF DraftInv, ResultInv
<1> QED BY <1>8, <1>9

\* The dialog's settings are merged, saved, announced and answered.
LEMMA DraftApplied == ASSUME DraftInv, NEW error \in BOOLEAN, TakeApply(error) PROVE DraftInv'
<1> USE DEF form
<1> DEFINE c == Head(commands)
           e == [kind |-> "applied", config |-> saved']
           a == [kind |-> "answer", error |-> error]
           told == Append(news, e)
<1>1. /\ commands # <<>> /\ c.kind = "apply" /\ commands' = Tail(commands)
      /\ saved' = Merged(c.config)
      /\ result' = [before |-> saved, after |-> saved', base |-> baseline, typed |-> c.typed, since |-> since]
      /\ news' = told \o <<a>> /\ since' = [k \in Keys |-> since[k] + 1]
      /\ UNCHANGED <<baseline, dialog, config, draft, mark, typed>>
  BY DEF TakeApply, Command, Applied, Answer
<1>2. /\ c \in Commands /\ commands' \in Seq(Commands) /\ Of(commands', "apply") = {}
      /\ Of(news, "answer") = {} /\ dialog = "saving" /\ CopyHolds(c.config, c.typed)
  BY <1>1, CommandTaken
<1>3. c.config \in Configs /\ c.typed \in Typings
  BY <1>1, <1>2 DEF Commands
<1> HIDE DEF c
<1>t. saved \in Configs /\ baseline \in [Keys -> Values] /\ since \in [Keys -> Nat] /\ saved.engine \in [Keys -> Values]
      /\ c.config.engine \in [Keys -> Values]
  BY <1>3 DEF DraftInv, SavedType, DialogType, Configs
<1>4. \A k \in Keys : Merge(c.config, k) \in Values
  BY <1>t DEF Merge
<1>5. /\ saved' = [engine |-> [k \in Keys |-> Merge(c.config, k)], source |-> c.config.source, view |-> c.config.view]
      /\ saved'.engine = [k \in Keys |-> Merge(c.config, k)]
  BY <1>1, <1>3 DEF Merged, Configs
<1>6. saved' \in Configs /\ \A k \in Keys : saved'.engine[k] = Merge(c.config, k)
  BY <1>3, <1>4, <1>5 DEF Configs
<1>7. since' \in [Keys -> Nat] /\ Counted
  BY <1>1, <1>t DEF Counted
<1>8. e \in News /\ e.kind = "applied" /\ e.config = saved' /\ a \in News /\ a.kind = "answer"
  BY <1>6 DEF News
<1> HIDE DEF e, a
<1>9. Announces(told, e)
  BY <1>8, NewsApplied
<1> HIDE DEF told
<1>10. /\ told \in Seq(News) /\ Of(told, "answer") = {}
       /\ \A i \in Of(told, "applied") : told[i] = e \/ \E j \in Of(news, "applied") : told[i] = news[j]
       /\ \A i \in Of(told, "applied") : (\A j \in Of(told, "applied") : j <= i) => told[i] = e
  BY <1>2, <1>9 DEF Announces
<1>11. news' = Append(told, a)
  BY <1>1, <1>8, <1>10, AppendIsConcat
<1>12. news' \in Seq(News) /\ Extends(news', told, a, "applied") /\ Extends(news', told, a, "answer")
  BY <1>8, <1>10, <1>11, KindsGrown
<1>13. /\ Of(news', "answer") = {Len(told) + 1} /\ Of(news', "applied") = Of(told, "applied")
       /\ \A i \in Of(news', "applied") : news'[i] = told[i]
  BY <1>8, <1>10, <1>12 DEF Extends
<1>14. SavedType' /\ DialogType'
  BY <1>1, <1>2, <1>6, <1>7, <1>12 DEF DraftInv, SavedType, DialogType
<1>15. OneSave' /\ CopiesHold'
  BY <1>1, <1>2, <1>13 DEF OneSave, CopiesHold
<1>16. EditsDiffer'
  BY <1>1 DEF DraftInv, EditsDiffer, IsShown
<1>17. LastIsSaved'
  BY <1>8, <1>10, <1>13 DEF LastIsSaved
<1>18. /\ UnsavedIsBaseline'
       /\ \A k \in Keys : since'[k] <= 1 => since[k] <= 1
       /\ \A k \in Keys : \A v : since'[k] <= 1 /\ Between(k, v) => Fresh(k, v)
  BY <1>1, <1>2, <1>7, BetweenKept
<1>19. NewsBetween'
  <2>1. ASSUME NEW k \in Keys, since'[k] <= 1
        PROVE  Fresh(k, mark'[k]) /\ \A i \in Of(news', "applied") : Fresh(k, news'[i].config.engine[k])
    <3>1. Between(k, mark[k]) /\ \A j \in Of(news, "applied") : Between(k, news[j].config.engine[k])
      BY <1>2, <1>18, <2>1 DEF DraftInv, NewsBetween, IsShown
    <3>2. Fresh(k, mark'[k]) /\ Fresh(k, saved'.engine[k])
      BY <1>1, <1>18, <2>1, <3>1 DEF Fresh
    <3>3. ASSUME NEW i \in Of(news', "applied") PROVE Fresh(k, news'[i].config.engine[k])
      <4>1. CASE news'[i] = e
        BY <1>8, <3>2, <4>1
      <4>2. CASE \E j \in Of(news, "applied") : news'[i] = news[j]
        <5>1. Between(k, news'[i].config.engine[k])
          BY <3>1, <4>2
        <5> QED BY <1>18, <2>1, <5>1
      <4> QED BY <1>10, <1>13, <4>1, <4>2
    <3> QED BY <3>2, <3>3
  <2> QED BY <2>1 DEF NewsBetween, IsShown, Between, Fresh
<1>20. ResultInv'
  <2>1. ResultType'
    BY <1>1, <1>3, <1>6, <1>t DEF ResultType, Results
  <2>2. EditIsSaved'
    <3> SUFFICES ASSUME NEW k \in Keys, c.typed[k] # Untouched, c.typed[k] # baseline[k]
                 PROVE  saved'.engine[k] = c.typed[k]
      BY <1>1 DEF EditIsSaved
    <3>1. c.config.engine[k] = c.typed[k]
      BY <1>2 DEF CopyHolds
    <3> QED BY <1>6, <3>1 DEF Merge
  <2>3. OneSaveSurvives'
    <3> SUFFICES ASSUME NEW k \in Keys, c.typed[k] = Untouched, since[k] <= 1
                 PROVE  saved'.engine[k] = saved.engine[k]
      BY <1>1 DEF OneSaveSurvives
    <3>1. c.config.engine[k] = baseline[k] \/ c.config.engine[k] = saved.engine[k]
      BY <1>2 DEF CopyHolds, Between
    <3> QED BY <1>6, <3>1 DEF Merge
  <2> QED BY <2>1, <2>2, <2>3 DEF ResultInv
<1> QED BY <1>14, <1>15, <1>16, <1>17, <1>18, <1>19, <1>20 DEF DraftInv, ResultInv

\* An apply that is refused keeps it.
LEMMA DraftRefused == ASSUME DraftInv, RefuseApply PROVE DraftInv'
<1> USE DEF form, history
<1> DEFINE a == [kind |-> "answer", error |-> TRUE]
<1>1. /\ commands # <<>> /\ Head(commands).kind = "apply" /\ commands' = Tail(commands) /\ news' = news \o <<a>>
      /\ UNCHANGED <<saved, baseline, dialog, config, draft, mark, typed, since, result>>
  BY DEF RefuseApply, Command, Answer
<1>2. /\ commands' \in Seq(Commands) /\ Of(commands', "apply") = {} /\ Of(news, "answer") = {} /\ dialog = "saving"
  BY <1>1, CommandTaken
<1>3. a \in News /\ a.kind = "answer" /\ news \in Seq(News)
  BY DEF News, DraftInv, SavedType
<1> HIDE DEF a
<1>4. news' = Append(news, a)
  BY <1>1, <1>3, AppendIsConcat
<1>5. news' \in Seq(News) /\ Extends(news', news, a, "applied") /\ Extends(news', news, a, "answer")
  BY <1>3, <1>4, KindsGrown
<1>6. /\ Of(news', "answer") = {Len(news) + 1} /\ Of(news', "applied") = Of(news, "applied")
      /\ \A i \in Of(news', "applied") : news'[i] = news[i]
  BY <1>2, <1>3, <1>5 DEF Extends
<1>7. SavedType' /\ DialogType'
  BY <1>1, <1>2, <1>5 DEF DraftInv, SavedType, DialogType
<1>8. OneSave' /\ CopiesHold'
  BY <1>1, <1>2, <1>6 DEF OneSave, CopiesHold
<1>9. EditsDiffer' /\ UnsavedIsBaseline'
  BY <1>1 DEF DraftInv, EditsDiffer, IsShown, UnsavedIsBaseline
<1>10. LastIsSaved' /\ NewsBetween'
  BY <1>1, <1>6 DEF DraftInv, LastIsSaved, NewsBetween, IsShown, Between
<1>11. ResultInv'
  BY <1>1, ResultRests DEF DraftInv, ResultInv
<1> QED BY <1>7, <1>8, <1>9, <1>10, <1>11 DEF DraftInv, ResultInv

\* The saves of a start, of the comment window and of a plugin.
LEMMA DraftOthers == ASSUME DraftInv, TakeStart \/ TakeView \/ TakePlugin PROVE DraftInv'
<1> DEFINE c == Head(commands)
<1>1. commands # <<>> /\ commands' = Tail(commands) /\ c.kind \in {"start", "view", "plugin"}
      /\ UNCHANGED <<baseline, form, typed, result>>
  BY DEF TakeStart, TakeView, TakePlugin, Command, history
<1>2. c \in Commands
  BY <1>1, CommandTaken
<1>3. saved \in Configs /\ since \in [Keys -> Nat] /\ saved.engine \in [Keys -> Values]
  BY DEF DraftInv, SavedType, DialogType, Configs
<1>4. CASE TakeStart
  <2>1. c.kind = "start" /\ saved' = [saved EXCEPT !.source = c.source] /\ UNCHANGED <<news, since>>
    BY <1>4 DEF TakeStart, Command
  <2>2. c.source \in Values
    BY <1>2, <2>1 DEF Commands
  <2>3. saved' \in Configs /\ saved'.engine = saved.engine
    BY <1>3, <2>1, <2>2 DEF Configs
  <2> QED BY <1>1, <1>3, <2>1, <2>3, DraftSaves DEF Counted
<1>5. CASE TakeView
  <2>1. c.kind = "view" /\ saved' = [saved EXCEPT !.view = c.view] /\ UNCHANGED since
        /\ news' = Append(news, [kind |-> "applied", config |-> saved'])
    BY <1>5 DEF TakeView, Command, history, Applied
  <2>2. c.view \in Values
    BY <1>2, <2>1 DEF Commands
  <2>3. saved' \in Configs /\ saved'.engine = saved.engine
    BY <1>3, <2>1, <2>2 DEF Configs
  <2> QED BY <1>1, <1>3, <2>1, <2>3, DraftSaves DEF Counted
<1>6. CASE TakePlugin
  <2>1. /\ c.kind = "plugin" /\ saved' = [saved EXCEPT !.engine = [saved.engine EXCEPT ![c.key] = c.value]]
        /\ since' = [since EXCEPT ![c.key] = @ + 1]
        /\ news' = Append(news, [kind |-> "applied", config |-> saved'])
    BY <1>6 DEF TakePlugin, Command, Applied
  <2>2. c.key \in Keys /\ c.value \in Values
    BY <1>2, <2>1 DEF Commands
  <2>3. since' \in [Keys -> Nat] /\ \A k \in Keys : since'[k] = IF k = c.key THEN since[k] + 1 ELSE since[k]
    BY <1>3, <2>1, <2>2
  <2> DEFINE written == [saved.engine EXCEPT ![c.key] = c.value]
  <2>4. written \in [Keys -> Values] /\ \A k \in Keys : k # c.key => written[k] = saved.engine[k]
    BY <1>3, <2>2
  <2> HIDE DEF written
  <2>5. saved' \in Configs /\ saved'.engine = written
    BY <1>3, <2>1, <2>4 DEF Configs, written
  <2>6. Counted
    BY <2>3, <2>4, <2>5 DEF Counted
  <2> QED BY <1>1, <2>1, <2>3, <2>5, <2>6, DraftSaves
<1> QED BY <1>4, <1>5, <1>6

\* Every step of the dialog and of the control thread keeps it.
LEMMA DraftStep == ASSUME DraftInv, Next PROVE DraftInv'
<1>1. ASSUME NEW v \in Values, ClickStart(v) \/ MoveWindow(v) PROVE DraftInv'
  <2>1. PICK c \in {[kind |-> "start", source |-> v], [kind |-> "view", view |-> v]} : commands' = Append(commands, c)
    BY <1>1 DEF ClickStart, MoveWindow, Post
  <2>2. c \in Commands /\ c.kind # "apply"
    BY <2>1 DEF Commands
  <2>3. UNCHANGED <<saved, baseline, news, form, history>>
    BY <1>1 DEF ClickStart, MoveWindow
  <2> QED BY <2>1, <2>2, <2>3, DraftPosts
<1>2. ASSUME NEW k \in Keys, NEW v \in Values, PluginSave(k, v) PROVE DraftInv'
  <2> DEFINE c == [kind |-> "plugin", key |-> k, value |-> v]
  <2>1. commands' = Append(commands, c) /\ UNCHANGED <<saved, baseline, news, form, history>>
    BY <1>2 DEF PluginSave, Post
  <2>2. c \in Commands /\ c.kind # "apply"
    BY DEF Commands
  <2> HIDE DEF c
  <2> QED BY <2>1, <2>2, DraftPosts
<1>3. CASE Deliver
  BY <1>3, DraftCreated, DraftLeft, DraftFlushed, DraftTold, DraftAnswered DEF Deliver
<1>4. CASE Save
  BY <1>4, DraftOthers, DraftApplied, DraftRefused DEF Save
<1> QED BY <1>1, <1>2, <1>3, <1>4, DraftBegins, DraftLeft, DraftAccepted, DraftEdited DEF Next

DialogInv == part = "draft" => DraftInv
\* While another part runs, it stays.
LEMMA DialogKept == ASSUME UNCHANGED part, UNCHANGED vars, DialogInv PROVE DialogInv'
<1>1. UNCHANGED <<saved, baseline, commands, news, dialog, config, draft, mark, typed, since, result>>
  BY DEF vars, form, history
<1> SUFFICES ASSUME part = "draft" PROVE DraftInv'
  BY DEF DialogInv
<1>2. SavedType' /\ DialogType' /\ OneSave' /\ EditsDiffer' /\ LastIsSaved' /\ UnsavedIsBaseline' /\ NewsBetween'
  BY <1>1 DEF DialogInv, DraftInv, SavedType, DialogType, OneSave, EditsDiffer, IsShown, LastIsSaved, UnsavedIsBaseline,
              NewsBetween, Between
<1>3. CopiesHold'
  BY <1>1 DEF DialogInv, DraftInv, CopiesHold, CopyHolds, Between
<1>4. ResultInv'
  BY <1>1, ResultRests DEF DialogInv, DraftInv, ResultInv
<1> QED BY <1>2, <1>3, <1>4 DEF DraftInv, ResultInv

\* For any settings, edits and saves behind the dialog, it differs from
\* what it was told exactly where the user edited (view.py, engines.py,
\* service.py).
THEOREM DialogInvariance == DesktopSpec => []DialogInv
<1>1. ASSUME DesktopInit PROVE DialogInv
  BY <1>1, DraftInit DEF DesktopInit, Starts, DialogInv
<1>2. ASSUME DialogInv, DesktopNext PROVE DialogInv'
  <2>1. CASE part = "draft" /\ Next
    BY <1>2, <2>1, DraftStep DEF DialogInv
  <2>2. CASE UNCHANGED vars
    BY <1>2, <2>2, DialogKept DEF DesktopNext
  <2> QED BY <1>2, <2>1, <2>2 DEF DesktopNext
<1>3. ASSUME DialogInv, UNCHANGED <<part, vars, popoutVars, fileVars, monitorVars, feedVars, avatarVars>>
      PROVE  DialogInv'
  BY <1>3, DialogKept
<1> QED BY <1>1, <1>2, <1>3, PTL DEF DesktopSpec

\* Whatever plugins, starts and the comment window save while the dialog is
\* open, an edit stays in it, is what its save saves, and takes no setting
\* with it that was saved once meanwhile and not edited (engines.py
\* apply_saved, service.py apply_settings).
THEOREM EditsGetThrough == DesktopSpec => []EditsAreSaved
<1>1. ASSUME DraftInv PROVE EditStays
  BY <1>1 DEF DraftInv, EditsDiffer, IsShown, EditStays
<1>2. DialogInv => EditsAreSaved
  BY <1>1 DEF DialogInv, DraftInv, EditsAreSaved
<1> QED BY <1>2, DialogInvariance, PTL

-----------------------------------------------------------------------------
(***************************************************************************)
(* The file of the settings: one program that crashes and fails, and two   *)
(* that start beside each other.                                           *)
(***************************************************************************)
Papers == [schema : {0, 1, 3}, value : Nat, whole : BOOLEAN]
Saves == {"open", "write", "replace"}
Places == {"off", "read", "backup", "copy", "plugins", "lock", "run"} \cup Saves
Processes == [at : Places, memory : Nat, saving : Nat, then : {"off", "plugins", "lock", "run"}, file : Nat]

\* The two names, and what is behind them.
DiskType(F) ==
  /\ file \in F \cup {0} /\ temp \in F \cup {0} /\ content \in [F -> Papers]
  /\ saves \in Nat /\ crashes \in Nat /\ faults \in Nat
NamesDiffer == file = temp => file = 0
WholeFile == file # 0 => content[file].whole = TRUE

\* One program: where it is tells what is in the temporary file.
TempKnown ==
  /\ program[p1].at = "write" => temp # 0 /\ program[p1].file = temp
  /\ program[p1].at # "write" => program[p1].file = 0
  /\ program[p1].at = "replace" => temp # 0 /\ content[temp] = File!Current(program[p1].saving)
BackedUp ==
  original = File!Old =>
    /\ file # 0
    /\ program[p1].at \in {"plugins", "lock", "run"} \cup Saves \/ content[file].schema = 3 => backup = File!Old
Remembers ==
  \/ program[p1].at \in {"lock", "run"}
  \/ program[p1].at \in Saves /\ program[p1].then = "run"
  => file # 0 /\ content[file] = File!Current(program[p1].memory)
OneInv ==
  /\ DiskType(File!Files) /\ program \in [{p1} -> Processes]
  /\ NamesDiffer /\ WholeFile /\ TempKnown /\ BackedUp /\ Remembers

Pair == {p1, p2}
\* Two programs: what is open is the temporary file, which is whole as soon as
\* nobody writes it.
OpenIsTemp == \A p \in {p1, p2} : IF program[p].at = "write" THEN temp # 0 /\ program[p].file = temp
                                                              ELSE program[p].file = 0
TempWhole == temp # 0 /\ (\A p \in {p1, p2} : program[p].file # temp) => content[temp].whole = TRUE
TwoInv ==
  /\ DiskType(Two!Files) /\ program \in [{p1, p2} -> Processes]
  /\ NamesDiffer /\ WholeFile /\ OpenIsTemp /\ TempWhole

\* There is a file that nobody uses: the first or the second.
LEMMA SomeFileIsFree ==
  ASSUME NEW S, S \subseteq Nat \ {0}, 1 \in S \/ 2 \in S
  PROVE  File!Min(S) \in S /\ Two!Min(S) \in S
<1> DEFINE least == IF 1 \in S THEN 1 ELSE 2
<1>1. least \in S /\ \A y \in S : least =< y
  <2>1. \A y \in S : y \in Nat /\ y >= 1
    OBVIOUS
  <2> QED BY <2>1
<1>2. \E x \in S : \A y \in S : x =< y
  BY <1>1
<1> QED BY <1>2 DEF File!Min, Two!Min

\* Two files at least can be told apart, by their numbers.
LEMMA FilesAreNumbered ==
  /\ File!Files \subseteq Nat \ {0} /\ 1 \in File!Files /\ 2 \in File!Files
  /\ Two!Files \subseteq Nat \ {0} /\ 1 \in Two!Files /\ 2 \in Two!Files
<1>1. Cardinality({p1}) \in Nat /\ Cardinality({p1, p2}) \in Nat
  <2>1. IsFiniteSet({p1})
    BY FS_Singleton
  <2>2. IsFiniteSet({p1} \cup {p2})
    BY <2>1, FS_AddElement
  <2>3. {p1, p2} = {p1} \cup {p2}
    OBVIOUS
  <2> QED BY <2>1, <2>2, <2>3, FS_CardinalityType
<1>2. File!Cardinality({p1}) = Cardinality({p1}) /\ Two!Cardinality({p1, p2}) = Cardinality({p1, p2})
  BY DEF File!Cardinality, Two!Cardinality, Cardinality
<1> QED BY <1>1, <1>2 DEF File!Files, Two!Files

\* The invariant of one program and its file holds at the start.
LEMMA OneInit == ASSUME File!Init PROVE OneInv
<1>1. /\ original \in {File!NoDocument, File!Old, File!Current(0)}
      /\ content = [f \in File!Files |-> IF f = 1 THEN original ELSE File!NoDocument]
      /\ file = (IF original = File!NoDocument THEN 0 ELSE 1) /\ temp = 0
      /\ saves = 0 /\ crashes = 0 /\ faults = 0
      /\ program = [p \in {p1} |-> File!NoProgram]
  BY DEF File!Init, File!Nowhere
<1>2. program \in [{p1} -> Processes] /\ program[p1].at = "off" /\ program[p1].file = 0
  BY <1>1 DEF Processes, Places, File!NoProgram, File!Nowhere
<1>3. /\ File!NoDocument \in Papers /\ File!Old \in Papers /\ File!Current(0) \in Papers
      /\ File!Old.whole = TRUE /\ File!Current(0).whole = TRUE /\ File!Old.schema = 1 /\ File!NoDocument.schema = 0
  BY DEF Papers, File!NoDocument, File!Old, File!Current
<1>4. original \in Papers /\ content \in [File!Files -> Papers] /\ content[1] = original
  BY <1>1, <1>3, FilesAreNumbered
<1>5. file \in File!Files \cup {0} /\ temp \in File!Files \cup {0}
  BY <1>1, FilesAreNumbered
<1>6. file # 0 => content[file].whole = TRUE
  BY <1>1, <1>3, <1>4
<1>7. original = File!Old => file # 0 /\ content[file].schema # 3
  BY <1>1, <1>3, <1>4
<1>8. DiskType(File!Files)
  BY <1>1, <1>4, <1>5 DEF DiskType
<1>9. NamesDiffer /\ WholeFile /\ TempKnown /\ BackedUp /\ Remembers
  BY <1>1, <1>2, <1>6, <1>7 DEF NamesDiffer, WholeFile, TempKnown, BackedUp, Remembers, Saves
<1> QED BY <1>2, <1>8, <1>9 DEF OneInv

\* What touches no file.
LEMMA OneRests ==
  ASSUME OneInv, UNCHANGED <<original, file, temp, content>>,
         saves' \in Nat, crashes' \in Nat, faults' \in Nat,
         program' \in [{p1} -> Processes], program'[p1].file = 0, program'[p1].at \notin {"write", "replace"},
         backup = File!Old => backup' = File!Old,
         original = File!Old /\ program'[p1].at \in {"plugins", "lock", "run", "open"} => backup' = File!Old,
         Remembers'
  PROVE  OneInv'
<1>1. DiskType(File!Files)' /\ NamesDiffer' /\ WholeFile'
  BY DEF OneInv, DiskType, NamesDiffer, WholeFile
<1>2. TempKnown'
  BY DEF TempKnown
<1>3. BackedUp'
  BY DEF OneInv, BackedUp, Saves
<1> QED BY <1>1, <1>2, <1>3 DEF OneInv

\* What a process is after it moves, begins a save, or ends.
Moves(P, p, at) ==
  /\ program' \in [P -> Processes] /\ program'[p].at = at
  /\ \A q \in P : q # p => program'[q] = program[q]
KeepsRest(p) ==
  /\ program'[p].memory = program[p].memory /\ program'[p].saving = program[p].saving
  /\ program'[p].then = program[p].then /\ program'[p].file = program[p].file
BeginsSave(p, v, then) ==
  /\ program'[p].memory = program[p].memory /\ program'[p].saving = v
  /\ program'[p].then = then /\ program'[p].file = program[p].file
\* A program given a new state has its place.
LEMMA ProcessBecomes ==
  ASSUME NEW P, program \in [P -> Processes], NEW p \in P, NEW r \in Processes, program' = [program EXCEPT ![p] = r]
  PROVE  Moves(P, p, r.at) /\ program'[p] = r
BY DEF Moves

\* A program that goes to a place keeps its memory and its file.
LEMMA ProcessGoes ==
  ASSUME NEW P, program \in [P -> Processes], NEW p \in P, NEW at \in Places, File!GoTo(p, at) \/ Two!GoTo(p, at)
  PROVE  Moves(P, p, at) /\ KeepsRest(p)
<1> DEFINE r == [program[p] EXCEPT !.at = at]
<1>1. program' = [program EXCEPT ![p] = r]
  BY DEF File!GoTo, Two!GoTo, File!Becomes, Two!Becomes
<1>2. program[p] \in Processes
  OBVIOUS
<1>3. /\ r \in Processes /\ r.at = at /\ r.memory = program[p].memory /\ r.saving = program[p].saving
      /\ r.then = program[p].then /\ r.file = program[p].file
  BY <1>2 DEF Processes
<1> HIDE DEF r
<1>4. Moves(P, p, r.at) /\ program'[p] = r
  BY <1>1, <1>3, ProcessBecomes
<1> QED BY <1>3, <1>4 DEF KeepsRest

\* A program that begins a save has the value and the place to go on at.
LEMMA ProcessSaves ==
  ASSUME NEW P, program \in [P -> Processes], NEW p \in P, NEW v \in Nat, NEW then \in {"plugins", "lock", "run"},
         File!Saving(p, v, then) \/ Two!Saving(p, v, then)
  PROVE  Moves(P, p, "open") /\ BeginsSave(p, v, then)
<1> DEFINE r == [program[p] EXCEPT !.at = "open", !.saving = v, !.then = then]
<1>1. program' = [program EXCEPT ![p] = r]
  BY DEF File!Saving, Two!Saving, File!Becomes, Two!Becomes
<1>2. program[p] \in Processes
  OBVIOUS
<1>3. /\ r \in Processes /\ r.at = "open" /\ r.memory = program[p].memory /\ r.saving = v
      /\ r.then = then /\ r.file = program[p].file
  BY <1>2 DEF Processes, Places, Saves
<1> HIDE DEF r
<1>4. Moves(P, p, r.at) /\ program'[p] = r
  BY <1>1, <1>3, ProcessBecomes
<1> QED BY <1>3, <1>4 DEF BeginsSave

\* A program that ends has no file open.
LEMMA ProcessEnds ==
  ASSUME NEW P, program \in [P -> Processes], NEW p \in P,
         File!Becomes(p, File!NoProgram) \/ Two!Becomes(p, Two!NoProgram)
  PROVE  Moves(P, p, "off") /\ program'[p].file = 0
<1> DEFINE r == [at |-> "off", memory |-> 0, saving |-> 0, then |-> "off", file |-> 0]
<1>1. program' = [program EXCEPT ![p] = r]
  BY DEF File!Becomes, Two!Becomes, File!NoProgram, Two!NoProgram, File!Nowhere, Two!Nowhere
<1>2. r \in Processes /\ r.at = "off" /\ r.file = 0
  BY DEF Processes, Places
<1> HIDE DEF r
<1>3. Moves(P, p, r.at) /\ program'[p] = r
  BY <1>1, <1>2, ProcessBecomes
<1> QED BY <1>2, <1>3

\* The steps of a start and of a user: they touch no file but the backup.
OneQuiet ==
  \/ File!Start(p1) \/ File!Read(p1) \/ File!Refuse(p1) \/ File!OpenBackup(p1) \/ File!WriteBackup(p1)
  \/ File!LoadPlugins(p1) \/ File!OpenDictionary(p1) \/ File!Apply(p1) \/ File!BackupFails(p1)
  \/ File!Exit(p1) \/ File!Crash(p1)
\* The quiet steps leave the files alone.
LEMMA OneCounts ==
  ASSUME OneInv, OneQuiet
  PROVE  /\ UNCHANGED <<original, file, temp, content>>
         /\ saves' \in Nat /\ crashes' \in Nat /\ faults' \in Nat
<1>1. saves \in Nat /\ crashes \in Nat /\ faults \in Nat
  BY DEF OneInv, DiskType
<1>2. /\ UNCHANGED <<original, file, temp, content>>
      /\ saves' \in {saves, saves + 1} /\ crashes' \in {crashes, crashes + 1} /\ faults' \in {faults, faults + 1}
  BY DEF OneQuiet, File!Start, File!Read, File!Refuse, File!OpenBackup, File!WriteBackup, File!LoadPlugins,
         File!OpenDictionary, File!Apply, File!BackupFails, File!Exit, File!Crash, File!Paths, File!counters
<1> QED BY <1>1, <1>2

\* The quiet steps of one program keep its invariant.
LEMMA OneQuietStep == ASSUME OneInv, OneQuiet PROVE OneInv'
<1>1. /\ UNCHANGED <<original, file, temp, content>>
      /\ saves' \in Nat /\ crashes' \in Nat /\ faults' \in Nat
  BY OneCounts
<1>2. program \in [{p1} -> Processes] /\ p1 \in {p1} /\ TempKnown /\ BackedUp /\ Remembers
  BY DEF OneInv
<1>3. ASSUME program[p1].at \notin {"write", "replace"}, NEW at \in Places \ Saves, File!GoTo(p1, at),
             backup = File!Old => backup' = File!Old,
             at \in {"plugins", "lock", "run"} /\ original = File!Old => backup' = File!Old,
             at \in {"lock", "run"} => program[p1].at = "lock"
      PROVE  OneInv'
  <2>1. Moves({p1}, p1, at) /\ KeepsRest(p1)
    BY <1>2, <1>3, ProcessGoes
  <2>2. program' \in [{p1} -> Processes] /\ program'[p1].at = at /\ program'[p1].file = 0
        /\ program'[p1].memory = program[p1].memory
    BY <1>2, <1>3, <2>1 DEF Moves, KeepsRest, TempKnown
  <2>3. Remembers'
    BY <1>1, <1>2, <1>3, <2>2 DEF Remembers, Saves, File!Current
  <2> QED BY <1>1, <1>3, <2>2, <2>3, OneRests DEF Saves
<1>4. ASSUME program[p1].at \notin {"write", "replace"}, NEW v \in Nat, NEW then \in {"plugins", "lock", "run"},
             File!Saving(p1, v, then), backup = File!Old => backup' = File!Old,
             original = File!Old => backup' = File!Old,
             then = "run" => program[p1].at = "run"
      PROVE  OneInv'
  <2>1. Moves({p1}, p1, "open") /\ BeginsSave(p1, v, then)
    BY <1>2, <1>4, ProcessSaves
  <2>2. program' \in [{p1} -> Processes] /\ program'[p1].at = "open" /\ program'[p1].file = 0
        /\ program'[p1].memory = program[p1].memory /\ program'[p1].then = then
    BY <1>2, <1>4, <2>1 DEF Moves, BeginsSave, TempKnown
  <2>3. Remembers'
    BY <1>1, <1>2, <1>4, <2>2 DEF Remembers, Saves, File!Current
  <2> QED BY <1>1, <1>4, <2>2, <2>3, OneRests
<1>5. ASSUME File!Becomes(p1, File!NoProgram), backup = File!Old => backup' = File!Old PROVE OneInv'
  <2>1. program' \in [{p1} -> Processes] /\ program'[p1].at = "off" /\ program'[p1].file = 0
    BY <1>2, <1>5, ProcessEnds DEF Moves
  <2>2. Remembers'
    BY <2>1 DEF Remembers, Saves
  <2> QED BY <1>1, <1>5, <2>1, <2>2, OneRests
<1>6. CASE File!Start(p1)
  <2>1. program[p1].at = "off" /\ File!GoTo(p1, "read") /\ backup' = backup
    BY <1>6 DEF File!Start
  <2> QED BY <1>3, <2>1 DEF Places, Saves
<1>7. CASE File!Read(p1)
  <2>1. program[p1].at = "read" /\ backup' = backup
    BY <1>7 DEF File!Read
  <2>2. CASE file = 0 /\ File!Saving(p1, 0, "plugins")
    BY <1>2, <1>4, <2>1, <2>2 DEF BackedUp
  <2>3. CASE File!GoTo(p1, "backup")
    BY <1>3, <2>1, <2>3 DEF Places, Saves
  <2>4. CASE /\ file # 0 /\ content[file].schema = 3
             /\ File!Becomes(p1, [program[p1] EXCEPT !.at = "plugins", !.memory = content[file].value])
    <3> DEFINE r == [program[p1] EXCEPT !.at = "plugins", !.memory = content[file].value]
    <3>1. content[file].value \in Nat
      BY <2>4 DEF OneInv, DiskType, Papers
    <3>2. program[p1] \in Processes /\ program[p1].file = 0
      BY <1>2, <2>1 DEF TempKnown
    <3>3. r \in Processes /\ r.at = "plugins" /\ r.file = 0
      BY <3>1, <3>2 DEF Processes, Places
    <3>4. program' = [program EXCEPT ![p1] = r]
      BY <2>4 DEF File!Becomes
    <3> HIDE DEF r
    <3>5. program' \in [{p1} -> Processes] /\ program'[p1].at = "plugins" /\ program'[p1].file = 0
      BY <1>2, <3>3, <3>4, ProcessBecomes DEF Moves
    <3>6. original = File!Old => backup' = File!Old
      BY <1>2, <2>1, <2>4 DEF BackedUp
    <3>7. Remembers'
      BY <3>5 DEF Remembers, Saves
    <3> QED BY <1>1, <2>1, <3>5, <3>6, <3>7, OneRests
  <2> QED BY <1>7, <2>2, <2>3, <2>4 DEF File!Read, File!Nowhere
<1>8. CASE File!OpenBackup(p1)
  <2>1. program[p1].at = "backup"
    BY <1>8 DEF File!OpenBackup
  <2>2. CASE backup = File!NoDocument /\ File!GoTo(p1, "copy")
    <3>1. backup # File!Old
      <4>1. File!NoDocument.schema # File!Old.schema
        BY DEF File!NoDocument, File!Old
      <4> QED BY <2>2, <4>1
    <3> QED BY <1>3, <2>1, <2>2, <3>1 DEF Places, Saves
  <2>3. CASE backup = File!Old /\ File!Saving(p1, 0, "plugins") /\ backup' = backup
    BY <1>4, <2>1, <2>3
  <2>4. CASE File!Ends(p1) /\ backup' = backup
    BY <1>5, <2>4 DEF File!Ends
  <2> QED BY <1>8, <2>2, <2>3, <2>4 DEF File!OpenBackup
<1>9. CASE File!WriteBackup(p1)
  <2>1. program[p1].at = "copy" /\ backup' = File!Old /\ File!Saving(p1, 0, "plugins")
    BY <1>9 DEF File!WriteBackup
  <2> QED BY <1>4, <2>1
<1>10. CASE File!LoadPlugins(p1)
  <2>1. program[p1].at = "plugins" /\ File!Saving(p1, program[p1].memory, "lock") /\ backup' = backup
    BY <1>10 DEF File!LoadPlugins
  <2>2. program[p1].memory \in Nat
    BY <1>2 DEF Processes
  <2> QED BY <1>2, <1>4, <2>1, <2>2 DEF BackedUp
<1>11. CASE File!OpenDictionary(p1)
  <2>1. program[p1].at = "lock" /\ backup' = backup /\ (File!GoTo(p1, "run") \/ File!Ends(p1))
    BY <1>11 DEF File!OpenDictionary
  <2> QED BY <1>2, <1>3, <1>5, <2>1 DEF BackedUp, File!Ends, Places, Saves
<1>12. CASE File!Apply(p1)
  <2>1. program[p1].at = "run" /\ File!Saving(p1, saves', "run") /\ backup' = backup
    BY <1>12 DEF File!Apply
  <2> QED BY <1>1, <1>2, <1>4, <2>1 DEF BackedUp
<1>13. CASE File!Refuse(p1) \/ File!BackupFails(p1) \/ File!Exit(p1) \/ File!Crash(p1)
  <2>1. File!Ends(p1) /\ backup' = backup
    BY <1>13 DEF File!Refuse, File!BackupFails, File!Exit, File!Crash
  <2> QED BY <1>5, <2>1 DEF File!Ends
<1> QED BY <1>6, <1>7, <1>8, <1>9, <1>10, <1>11, <1>12, <1>13 DEF OneQuiet

\* What a save writes is a whole document, and a part of it is a document
\* too.
LEMMA DocumentKinds ==
  ASSUME NEW v \in Nat
  PROVE  /\ File!Current(v) \in Papers /\ File!Current(v).whole = TRUE /\ File!Part(File!Current(v)) \in Papers
         /\ Two!Current(v) \in Papers /\ Two!Current(v).whole = TRUE /\ Two!Part(Two!Current(v)) \in Papers
BY DEF File!Current, File!Part, Two!Current, Two!Part, Papers

\* What keeps the settings file.
LEMMA OneKeepsFile ==
  ASSUME OneInv, UNCHANGED <<original, file, backup>>, file = temp' => file = 0,
         content' \in [File!Files -> Papers], file # 0 => content'[file] = content[file],
         temp' \in File!Files \cup {0}, saves' \in Nat, crashes' \in Nat, faults' \in Nat,
         program' \in [{p1} -> Processes], TempKnown', program[p1].at \in Saves,
         \/ program'[p1].at \in Saves /\ program'[p1].then = program[p1].then
         \/ program'[p1].at = "run" /\ program[p1].then = "run"
         \/ program'[p1].at = "off",
         program'[p1].at # "off" => program'[p1].memory = program[p1].memory
  PROVE  OneInv'
<1>1. DiskType(File!Files)' /\ NamesDiffer'
  BY DEF OneInv, DiskType, NamesDiffer
<1>2. WholeFile'
  BY DEF OneInv, WholeFile
<1>3. BackedUp'
  BY DEF OneInv, BackedUp, Saves
<1>4. Remembers'
  BY DEF OneInv, Remembers, Saves, File!Current
<1> QED BY <1>1, <1>2, <1>3, <1>4 DEF OneInv

\* Opening the temporary file keeps it.
LEMMA OneOpens == ASSUME OneInv, File!OpenTemp(p1) PROVE OneInv'
<1> DEFINE f == IF temp = 0 THEN File!Unused ELSE temp
           r == [program[p1] EXCEPT !.at = "write", !.file = f]
<1>1. /\ program[p1].at = "open" /\ temp' = f
      /\ content' = [content EXCEPT ![f] = File!Part(File!Current(0))] /\ program' = [program EXCEPT ![p1] = r]
      /\ UNCHANGED <<original, file, backup, saves, crashes, faults>>
  BY DEF File!OpenTemp, File!Nowhere, File!Becomes, File!counters
<1>2. /\ program \in [{p1} -> Processes] /\ program[p1] \in Processes /\ p1 \in {p1} /\ program[p1].file = 0
      /\ file \in File!Files \cup {0} /\ temp \in File!Files \cup {0} /\ content \in [File!Files -> Papers]
      /\ saves \in Nat /\ crashes \in Nat /\ faults \in Nat /\ (file = temp => file = 0)
  BY <1>1 DEF OneInv, DiskType, NamesDiffer, TempKnown
<1>3. f \in File!Files /\ f # file
  <2>1. CASE temp = 0
    <3> DEFINE S == File!Files \ ({file, temp} \cup {program[p].file : p \in {p1}})
    <3>1. S \subseteq Nat \ {0} /\ (1 \in S \/ 2 \in S)
      <4>1. S = File!Files \ {file, 0}
        BY <1>2, <2>1
      <4> HIDE DEF S
      <4>2. \A g : g \in S <=> g \in File!Files /\ g # file /\ g # 0
        BY <4>1
      <4>3. \A g \in File!Files : g \in Nat \ {0}
        BY FilesAreNumbered
      <4>4. 1 \in File!Files /\ 2 \in File!Files
        BY FilesAreNumbered
      <4>5. S \subseteq Nat \ {0}
        BY <4>2, <4>3
      <4>6. 1 \in S \/ 2 \in S
        BY <4>2, <4>4
      <4> QED BY <4>5, <4>6
    <3>2. File!Min(S) \in S
      BY <3>1, SomeFileIsFree
    <3>3. File!Unused = File!Min(S)
      BY DEF File!Unused
    <3> QED BY <2>1, <3>2, <3>3
  <2>2. CASE temp # 0
    BY <1>2, <2>2
  <2> QED BY <2>1, <2>2
<1>4. f \in Nat /\ f # 0
  BY <1>3, FilesAreNumbered
<1> HIDE DEF f
<1>5. r \in Processes /\ r.at = "write" /\ r.file = f /\ r.then = program[p1].then /\ r.memory = program[p1].memory
  BY <1>2, <1>4 DEF Processes, Places, Saves
<1> HIDE DEF r
<1>6. program' \in [{p1} -> Processes] /\ program'[p1] = r
  BY <1>1, <1>2, <1>5, ProcessBecomes DEF Moves
<1>7. content' \in [File!Files -> Papers] /\ (file # 0 => content'[file] = content[file])
  <2> DEFINE d == File!Part(File!Current(0))
  <2>1. d \in Papers
    BY DocumentKinds
  <2> HIDE DEF d
  <2> QED BY <1>1, <1>2, <1>3, <2>1 DEF d
<1>8. TempKnown'
  BY <1>1, <1>4, <1>5, <1>6 DEF TempKnown
<1>9. program[p1].at \in Saves /\ program'[p1].at \in Saves /\ program'[p1].then = program[p1].then
      /\ program'[p1].memory = program[p1].memory
  BY <1>1, <1>5, <1>6 DEF Saves
<1>10. temp' \in File!Files \cup {0} /\ (file = temp' => file = 0) /\ saves' \in Nat /\ crashes' \in Nat /\ faults' \in Nat
  BY <1>1, <1>2, <1>3
<1> QED BY <1>1, <1>6, <1>7, <1>8, <1>9, <1>10, OneKeepsFile

\* Writing it keeps it: nobody else has it open.
LEMMA OneWrites == ASSUME OneInv, File!WriteTemp(p1) PROVE OneInv'
<1> DEFINE r == [program[p1] EXCEPT !.at = "replace", !.file = 0]
           d == File!Current(program[p1].saving)
<1>1. /\ program[p1].at = "write" /\ content' = [content EXCEPT ![program[p1].file] = d]
      /\ program' = [program EXCEPT ![p1] = r]
      /\ UNCHANGED <<original, file, temp, backup, saves, crashes, faults>>
  BY DEF File!WriteTemp, File!Nowhere, File!Becomes, File!counters
<1>2. /\ program \in [{p1} -> Processes] /\ program[p1] \in Processes /\ p1 \in {p1}
      /\ program[p1].file = temp /\ temp # 0
      /\ file \in File!Files \cup {0} /\ temp \in File!Files \cup {0} /\ content \in [File!Files -> Papers]
      /\ saves \in Nat /\ crashes \in Nat /\ faults \in Nat /\ (file = temp => file = 0)
  BY <1>1 DEF OneInv, DiskType, NamesDiffer, TempKnown
<1>3. program[p1].saving \in Nat
  BY <1>2 DEF Processes
<1>4. d \in Papers
  BY <1>3, DocumentKinds
<1> HIDE DEF d
<1>5. /\ r \in Processes /\ r.at = "replace" /\ r.file = 0 /\ r.then = program[p1].then /\ r.memory = program[p1].memory
      /\ r.saving = program[p1].saving
  BY <1>2 DEF Processes, Places, Saves
<1> HIDE DEF r
<1>6. program' \in [{p1} -> Processes] /\ program'[p1] = r
  BY <1>1, <1>2, <1>5, ProcessBecomes DEF Moves
<1>7. content' \in [File!Files -> Papers] /\ (file # 0 => content'[file] = content[file]) /\ content'[temp] = d
  BY <1>1, <1>2, <1>4
<1>8. TempKnown'
  BY <1>1, <1>2, <1>5, <1>6, <1>7 DEF TempKnown, d, File!Current
<1>9. program[p1].at \in Saves /\ program'[p1].at \in Saves /\ program'[p1].then = program[p1].then
      /\ program'[p1].memory = program[p1].memory
  BY <1>1, <1>5, <1>6 DEF Saves
<1>10. temp' \in File!Files \cup {0} /\ (file = temp' => file = 0) /\ saves' \in Nat /\ crashes' \in Nat /\ faults' \in Nat
  BY <1>1, <1>2
<1> QED BY <1>1, <1>6, <1>7, <1>8, <1>9, <1>10, OneKeepsFile

\* Putting it in the place of the file keeps it: it is whole.
LEMMA OneReplaces == ASSUME OneInv, File!Replace(p1) PROVE OneInv'
<1> DEFINE r == [program[p1] EXCEPT !.at = program[p1].then, !.memory = program[p1].saving]
<1>1. /\ program[p1].at = "replace" /\ file' = temp /\ temp' = 0 /\ program' = [program EXCEPT ![p1] = r]
      /\ UNCHANGED <<original, content, backup, saves, crashes, faults>>
  BY DEF File!Replace, File!Nowhere, File!Becomes, File!counters
<1>2. /\ program \in [{p1} -> Processes] /\ program[p1] \in Processes /\ p1 \in {p1}
      /\ program[p1].file = 0 /\ temp # 0 /\ content[temp] = File!Current(program[p1].saving)
  BY <1>1 DEF OneInv, TempKnown
<1>3. program[p1].saving \in Nat /\ program[p1].then \in {"off", "plugins", "lock", "run"}
  BY <1>2 DEF Processes
<1>4. r \in Processes /\ r.at = program[p1].then /\ r.file = 0 /\ r.memory = program[p1].saving
  BY <1>2, <1>3 DEF Processes, Places
<1> HIDE DEF r
<1>5. program' \in [{p1} -> Processes] /\ program'[p1] = r
  BY <1>1, <1>2, <1>4, ProcessBecomes DEF Moves
<1>6. DiskType(File!Files)' /\ NamesDiffer'
  BY <1>1 DEF OneInv, DiskType, NamesDiffer
<1>7. WholeFile'
  BY <1>1, <1>2, <1>3, DocumentKinds DEF WholeFile
<1>8. TempKnown'
  BY <1>3, <1>4, <1>5 DEF TempKnown
<1>9. BackedUp'
  BY <1>1, <1>2 DEF OneInv, BackedUp, Saves
<1>10. Remembers'
  BY <1>1, <1>2, <1>4, <1>5 DEF Remembers, Saves, File!Current
<1> QED BY <1>5, <1>6, <1>7, <1>8, <1>9, <1>10 DEF OneInv

\* An error of a save keeps it.
LEMMA OneFails == ASSUME OneInv, File!SaveFails(p1) \/ File!ReplaceFails(p1) PROVE OneInv'
<1>1. /\ program[p1].at \in Saves /\ File!Unlink(p1) /\ File!GivesUp(p1) /\ faults' \in {faults, faults + 1}
  BY DEF File!SaveFails, File!ReplaceFails, Saves
<1>2. UNCHANGED <<original, file, content, backup, saves, crashes>> /\ temp' = 0
  BY <1>1 DEF File!GivesUp, File!Unlink, File!Nowhere
<1>3. /\ program \in [{p1} -> Processes] /\ program[p1] \in Processes /\ p1 \in {p1} /\ content \in [File!Files -> Papers]
      /\ saves \in Nat /\ crashes \in Nat /\ faults \in Nat
  BY DEF OneInv, DiskType
<1>4. CASE program[p1].then = "run" /\ File!Becomes(p1, [program[p1] EXCEPT !.at = "run", !.file = File!Nowhere])
  <2> DEFINE r == [program[p1] EXCEPT !.at = "run", !.file = 0]
  <2>1. program' = [program EXCEPT ![p1] = r]
    BY <1>4 DEF File!Becomes, File!Nowhere
  <2>2. r \in Processes /\ r.at = "run" /\ r.file = 0 /\ r.memory = program[p1].memory
    BY <1>3 DEF Processes, Places
  <2> HIDE DEF r
  <2>3. program' \in [{p1} -> Processes] /\ program'[p1] = r
    BY <1>3, <2>1, <2>2, ProcessBecomes DEF Moves
  <2>4. TempKnown'
    BY <2>2, <2>3 DEF TempKnown
  <2> QED BY <1>1, <1>2, <1>3, <1>4, <2>2, <2>3, <2>4, OneKeepsFile
<1>5. CASE File!Ends(p1)
  <2>1. program' \in [{p1} -> Processes] /\ program'[p1].at = "off" /\ program'[p1].file = 0
    BY <1>3, <1>5, ProcessEnds DEF Moves, File!Ends
  <2>2. TempKnown'
    BY <2>1 DEF TempKnown
  <2> QED BY <1>1, <1>2, <1>3, <2>1, <2>2, OneKeepsFile
<1> QED BY <1>1, <1>4, <1>5 DEF File!GivesUp

\* Every step of one program, its crashes and errors keep it.
LEMMA OneStep == ASSUME OneInv, File!Next PROVE OneInv'
<1>1. CASE OneQuiet
  BY <1>1, OneQuietStep
<1>2. CASE File!OpenTemp(p1) \/ File!WriteTemp(p1) \/ File!Replace(p1) \/ File!SaveFails(p1) \/ File!ReplaceFails(p1)
  BY <1>2, OneOpens, OneWrites, OneReplaces, OneFails
<1> QED BY <1>1, <1>2 DEF OneQuiet, File!Next, File!Steps

\* The invariant of two programs holds at the start.
LEMMA TwoInit == ASSUME Two!Init PROVE TwoInv
<1>1. /\ original \in {Two!NoDocument, Two!Old, Two!Current(0)}
      /\ content = [f \in Two!Files |-> IF f = 1 THEN original ELSE Two!NoDocument]
      /\ file = (IF original = Two!NoDocument THEN 0 ELSE 1) /\ temp = 0
      /\ saves = 0 /\ crashes = 0 /\ faults = 0
      /\ program = [p \in {p1, p2} |-> Two!NoProgram]
  BY DEF Two!Init, Two!Nowhere
<1>2. program \in [{p1, p2} -> Processes] /\ \A p \in {p1, p2} : program[p].at = "off" /\ program[p].file = 0
  BY <1>1 DEF Processes, Places, Two!NoProgram, Two!Nowhere
<1>3. /\ Two!NoDocument \in Papers /\ Two!Old \in Papers /\ Two!Current(0) \in Papers
      /\ Two!Old.whole = TRUE /\ Two!Current(0).whole = TRUE
  BY DEF Papers, Two!NoDocument, Two!Old, Two!Current
<1>4. original \in Papers /\ content \in [Two!Files -> Papers] /\ content[1] = original
  BY <1>1, <1>3, FilesAreNumbered
<1>5. file \in Two!Files \cup {0} /\ temp \in Two!Files \cup {0}
  BY <1>1, FilesAreNumbered
<1>6. file # 0 => content[file].whole = TRUE
  BY <1>1, <1>3, <1>4
<1>7. DiskType(Two!Files)
  BY <1>1, <1>4, <1>5 DEF DiskType
<1>8. NamesDiffer /\ WholeFile /\ OpenIsTemp /\ TempWhole
  BY <1>1, <1>2, <1>6 DEF NamesDiffer, WholeFile, OpenIsTemp, TempWhole
<1> QED BY <1>2, <1>7, <1>8 DEF TwoInv

\* A step of one of two programs that leaves the files alone keeps it.
LEMMA TwoRests ==
  ASSUME TwoInv, UNCHANGED <<file, temp, content>>, saves' \in Nat, crashes' \in Nat, faults' \in Nat,
         NEW p \in Pair, program[p].at # "write", NEW at \in Places, at # "write", Moves(Pair, p, at),
         program'[p].file = program[p].file \/ program'[p].file = 0
  PROVE  TwoInv'
<1>1. DiskType(Two!Files)' /\ NamesDiffer' /\ WholeFile'
  BY DEF TwoInv, DiskType, NamesDiffer, WholeFile
<1>2. /\ program' \in [Pair -> Processes] /\ program'[p].at = at /\ program'[p].file = 0 /\ program[p].file = 0
      /\ \A q \in Pair : q # p => program'[q] = program[q]
  BY DEF TwoInv, OpenIsTemp, Moves, Pair
<1>3. \A q \in Pair : program'[q].file = program[q].file /\ (program'[q].at = "write" <=> program[q].at = "write")
  BY <1>2
<1>4. OpenIsTemp' /\ TempWhole'
  BY <1>3 DEF TwoInv, OpenIsTemp, TempWhole, Pair
<1> QED BY <1>1, <1>2, <1>4 DEF TwoInv, Pair

\* The quiet steps of two programs keep it.
LEMMA TwoQuietStep ==
  ASSUME TwoInv, NEW p \in Pair,
         \/ Two!Start(p) \/ Two!Read(p) \/ Two!Refuse(p) \/ Two!OpenBackup(p) \/ Two!WriteBackup(p)
         \/ Two!LoadPlugins(p) \/ Two!OpenDictionary(p) \/ Two!Apply(p) \/ Two!Exit(p)
  PROVE  TwoInv'
<1>1. saves \in Nat /\ crashes \in Nat /\ faults \in Nat /\ program \in [Pair -> Processes] /\ program[p] \in Processes
  BY DEF TwoInv, DiskType, Pair
<1>2. /\ UNCHANGED <<file, temp, content>> /\ program[p].at # "write"
      /\ saves' \in {saves, saves + 1} /\ crashes' = crashes /\ faults' = faults
  BY DEF Two!Start, Two!Read, Two!Refuse, Two!OpenBackup, Two!WriteBackup, Two!LoadPlugins,
         Two!OpenDictionary, Two!Apply, Two!Exit, Two!Paths, Two!counters
<1>3. saves' \in Nat /\ crashes' \in Nat /\ faults' \in Nat
  BY <1>1, <1>2
<1>4. ASSUME NEW at \in Places, at # "write", Two!GoTo(p, at) PROVE TwoInv'
  BY <1>1, <1>2, <1>3, <1>4, ProcessGoes, TwoRests DEF KeepsRest
<1>5. ASSUME NEW v \in Nat, NEW then \in {"plugins", "lock", "run"}, Two!Saving(p, v, then) PROVE TwoInv'
  BY <1>1, <1>2, <1>3, <1>5, ProcessSaves, TwoRests DEF BeginsSave, Places, Saves
<1>6. ASSUME Two!Ends(p) PROVE TwoInv'
  BY <1>1, <1>2, <1>3, <1>6, ProcessEnds, TwoRests DEF Two!Ends, Places
<1>7. CASE Two!Start(p)
  BY <1>4, <1>7 DEF Two!Start, Places
<1>8. CASE Two!Read(p)
  <2>1. CASE Two!Saving(p, 0, "plugins") \/ Two!GoTo(p, "backup")
    BY <1>4, <1>5, <2>1 DEF Places
  <2>2. CASE /\ file # 0
             /\ Two!Becomes(p, [program[p] EXCEPT !.at = "plugins", !.memory = content[file].value])
    <3> DEFINE r == [program[p] EXCEPT !.at = "plugins", !.memory = content[file].value]
    <3>1. content[file].value \in Nat
      BY <2>2 DEF TwoInv, DiskType, Papers
    <3>2. r \in Processes /\ r.at = "plugins" /\ r.file = program[p].file
      BY <1>1, <3>1 DEF Processes, Places
    <3>3. program' = [program EXCEPT ![p] = r]
      BY <2>2 DEF Two!Becomes
    <3> HIDE DEF r
    <3>4. Moves(Pair, p, "plugins") /\ program'[p].file = program[p].file
      BY <1>1, <3>2, <3>3, ProcessBecomes
    <3> QED BY <1>2, <1>3, <3>4, TwoRests DEF Places
  <2> QED BY <1>8, <2>1, <2>2 DEF Two!Read, Two!Nowhere
<1>9. CASE Two!OpenBackup(p)
  BY <1>4, <1>5, <1>6, <1>9 DEF Two!OpenBackup, Places
<1>10. CASE Two!WriteBackup(p)
  BY <1>5, <1>10 DEF Two!WriteBackup
<1>11. CASE Two!LoadPlugins(p)
  <2>1. program[p].memory \in Nat
    BY <1>1 DEF Processes
  <2> QED BY <1>5, <1>11, <2>1 DEF Two!LoadPlugins
<1>12. CASE Two!OpenDictionary(p)
  BY <1>4, <1>6, <1>12 DEF Two!OpenDictionary, Places
<1>13. CASE Two!Apply(p)
  BY <1>3, <1>5, <1>13 DEF Two!Apply
<1>14. CASE Two!Refuse(p) \/ Two!Exit(p)
  BY <1>6, <1>14 DEF Two!Refuse, Two!Exit
<1> QED BY <1>7, <1>8, <1>9, <1>10, <1>11, <1>12, <1>13, <1>14

\* Opening the temporary file keeps it: both programs write to the same
\* one.
LEMMA TwoOpens == ASSUME TwoInv, NEW p \in Pair, Two!OpenTemp(p) PROVE TwoInv'
<1> DEFINE f == IF temp = 0 THEN Two!Unused ELSE temp
           r == [program[p] EXCEPT !.at = "write", !.file = f]
           d == Two!Part(Two!Current(0))
<1>1. /\ program[p].at = "open" /\ temp' = f /\ content' = [content EXCEPT ![f] = d]
      /\ program' = [program EXCEPT ![p] = r] /\ UNCHANGED <<file, saves, crashes, faults>>
  BY DEF Two!OpenTemp, Two!Nowhere, Two!Becomes, Two!counters
<1>2. /\ program \in [Pair -> Processes] /\ program[p] \in Processes /\ OpenIsTemp
      /\ file \in Two!Files \cup {0} /\ temp \in Two!Files \cup {0} /\ content \in [Two!Files -> Papers]
      /\ saves \in Nat /\ crashes \in Nat /\ faults \in Nat /\ (file = temp => file = 0)
  BY DEF TwoInv, DiskType, NamesDiffer, Pair
<1>3. f \in Two!Files /\ f # file /\ f \in Nat /\ f # 0
  <2>1. CASE temp = 0
    <3> DEFINE S == Two!Files \ ({file, temp} \cup {program[q].file : q \in {p1, p2}})
    <3>1. \A q \in {p1, p2} : program[q].file = 0
      BY <1>2, <2>1 DEF OpenIsTemp
    <3>2. \A g : g \in S <=> g \in Two!Files /\ g # file /\ g # 0
      BY <2>1, <3>1
    <3>3. Two!Unused = Two!Min(S)
      BY DEF Two!Unused
    <3> HIDE DEF S
    <3>4. \A g \in Two!Files : g \in Nat \ {0}
      BY FilesAreNumbered
    <3>5. 1 \in Two!Files /\ 2 \in Two!Files
      BY FilesAreNumbered
    <3>6. S \subseteq Nat \ {0}
      BY <3>2, <3>4
    <3>7. 1 \in S \/ 2 \in S
      BY <3>2, <3>5
    <3>8. Two!Min(S) \in S
      BY <3>6, <3>7, SomeFileIsFree
    <3> QED BY <2>1, <3>2, <3>3, <3>4, <3>8
  <2>2. CASE temp # 0
    BY <1>2, <2>2, FilesAreNumbered
  <2> QED BY <2>1, <2>2
<1> HIDE DEF f
<1>4. r \in Processes /\ r.at = "write" /\ r.file = f
  BY <1>2, <1>3 DEF Processes, Places, Saves
<1> HIDE DEF r
<1>5. program' \in [Pair -> Processes] /\ program'[p] = r /\ \A q \in Pair : q # p => program'[q] = program[q]
  BY <1>1, <1>2, <1>4, ProcessBecomes DEF Moves
<1>6. d \in Papers
  BY DocumentKinds
<1> HIDE DEF d
<1>7. content' \in [Two!Files -> Papers] /\ (file # 0 => content'[file] = content[file])
  BY <1>1, <1>2, <1>3, <1>6
<1>8. DiskType(Two!Files)' /\ NamesDiffer'
  BY <1>1, <1>2, <1>3, <1>7 DEF DiskType, NamesDiffer
<1>9. WholeFile'
  BY <1>1, <1>7 DEF TwoInv, WholeFile
<1>10. \A q \in Pair : q # p => (program[q].at = "write" => program[q].file = f)
  BY <1>2 DEF OpenIsTemp, Pair, f
<1>11. OpenIsTemp'
  BY <1>1, <1>2, <1>3, <1>4, <1>5, <1>10 DEF OpenIsTemp, Pair
<1>12. TempWhole'
  BY <1>1, <1>4, <1>5 DEF TempWhole, Pair
<1> QED BY <1>5, <1>8, <1>9, <1>11, <1>12 DEF TwoInv, Pair

\* Writing it keeps it.
LEMMA TwoWrites == ASSUME TwoInv, NEW p \in Pair, Two!WriteTemp(p) PROVE TwoInv'
<1> DEFINE r == [program[p] EXCEPT !.at = "replace", !.file = 0]
           d == Two!Current(program[p].saving)
<1>1. /\ program[p].at = "write" /\ content' = [content EXCEPT ![program[p].file] = d]
      /\ program' = [program EXCEPT ![p] = r] /\ UNCHANGED <<file, temp, saves, crashes, faults>>
  BY DEF Two!WriteTemp, Two!Nowhere, Two!Becomes, Two!counters
<1>2. /\ program \in [Pair -> Processes] /\ program[p] \in Processes /\ program[p].file = temp /\ temp # 0
      /\ file \in Two!Files \cup {0} /\ temp \in Two!Files \cup {0} /\ content \in [Two!Files -> Papers]
      /\ saves \in Nat /\ crashes \in Nat /\ faults \in Nat /\ (file = temp => file = 0)
  BY <1>1 DEF TwoInv, OpenIsTemp, DiskType, NamesDiffer, Pair
<1>3. program[p].saving \in Nat
  BY <1>2 DEF Processes
<1>4. d \in Papers /\ d.whole = TRUE
  BY <1>3, DocumentKinds
<1> HIDE DEF d
<1>5. r \in Processes /\ r.at = "replace" /\ r.file = 0
  BY <1>2 DEF Processes, Places, Saves
<1> HIDE DEF r
<1>6. program' \in [Pair -> Processes] /\ program'[p] = r /\ \A q \in Pair : q # p => program'[q] = program[q]
  BY <1>1, <1>2, <1>5, ProcessBecomes DEF Moves
<1>7. content' \in [Two!Files -> Papers] /\ (file # 0 => content'[file] = content[file]) /\ content'[temp] = d
  BY <1>1, <1>2, <1>4
<1>8. DiskType(Two!Files)' /\ NamesDiffer'
  BY <1>1, <1>2, <1>7 DEF DiskType, NamesDiffer
<1>9. WholeFile'
  BY <1>1, <1>7 DEF TwoInv, WholeFile
<1>10. OpenIsTemp'
  BY <1>1, <1>5, <1>6 DEF TwoInv, OpenIsTemp, Pair
<1>11. TempWhole'
  BY <1>1, <1>4, <1>7 DEF TempWhole
<1> QED BY <1>6, <1>8, <1>9, <1>10, <1>11 DEF TwoInv, Pair

\* Putting it in the place of the file keeps it: nobody writes to it.
LEMMA TwoReplaces == ASSUME TwoInv, NEW p \in Pair, Two!Replace(p) PROVE TwoInv'
<1> DEFINE r == [program[p] EXCEPT !.at = program[p].then, !.memory = program[p].saving]
<1>1. /\ program[p].at = "replace" /\ temp # 0 /\ file' = temp /\ temp' = 0
      /\ program' = [program EXCEPT ![p] = r] /\ UNCHANGED <<content, saves, crashes, faults>>
  BY DEF Two!Replace, Two!CanReplace, Two!Nowhere, Two!Becomes, Two!counters
<1>2. program \in [Pair -> Processes] /\ program[p] \in Processes /\ OpenIsTemp /\ program[p].file = 0
  BY <1>1 DEF TwoInv, OpenIsTemp, Pair
<1>3. \A q \in Pair : program[q].file # temp
  BY <1>1, <1>2 DEF Two!Replace, Two!CanReplace, Two!OthersHold, Pair
<1>4. content[temp].whole = TRUE
  BY <1>1, <1>3 DEF TwoInv, TempWhole, Pair
<1>5. r \in Processes /\ r.at = program[p].then /\ r.at # "write" /\ r.file = 0
  BY <1>2 DEF Processes, Places
<1> HIDE DEF r
<1>6. program' \in [Pair -> Processes] /\ program'[p] = r /\ \A q \in Pair : q # p => program'[q] = program[q]
  BY <1>1, <1>2, <1>5, ProcessBecomes DEF Moves
<1>7. DiskType(Two!Files)' /\ NamesDiffer'
  BY <1>1 DEF TwoInv, DiskType, NamesDiffer
<1>8. WholeFile' /\ TempWhole'
  BY <1>1, <1>4 DEF WholeFile, TempWhole
<1>9. \A q \in Pair : program'[q].at # "write" /\ program'[q].file = 0
  BY <1>2, <1>3, <1>5, <1>6 DEF OpenIsTemp, Pair
<1>10. OpenIsTemp'
  BY <1>9 DEF OpenIsTemp, Pair
<1> QED BY <1>6, <1>7, <1>8, <1>10 DEF TwoInv, Pair

\* A replacement that is refused keeps it.
LEMMA TwoGivesUp == ASSUME TwoInv, NEW p \in Pair, Two!ReplaceFails(p) PROVE TwoInv'
<1>1. program[p].at = "replace" /\ ~Two!CanReplace(p) /\ Two!Unlink(p) /\ Two!GivesUp(p) /\ faults' = faults
  BY DEF Two!ReplaceFails
<1>2. temp' = temp
  BY <1>1 DEF Two!CanReplace, Two!Unlink, Two!Nowhere
<1>3. UNCHANGED <<file, temp, content>> /\ saves' \in Nat /\ crashes' \in Nat /\ faults' \in Nat
  BY <1>1, <1>2 DEF Two!GivesUp, TwoInv, DiskType
<1>4. program \in [Pair -> Processes] /\ program[p] \in Processes
  BY DEF TwoInv, Pair
<1>5. CASE Two!Becomes(p, [program[p] EXCEPT !.at = "run", !.file = Two!Nowhere])
  <2> DEFINE r == [program[p] EXCEPT !.at = "run", !.file = 0]
  <2>1. program' = [program EXCEPT ![p] = r]
    BY <1>5 DEF Two!Becomes, Two!Nowhere
  <2>2. r \in Processes /\ r.at = "run" /\ r.file = 0
    BY <1>4 DEF Processes, Places
  <2> HIDE DEF r
  <2>3. Moves(Pair, p, "run") /\ program'[p].file = 0
    BY <1>4, <2>1, <2>2, ProcessBecomes
  <2> QED BY <1>1, <1>3, <2>3, TwoRests DEF Places
<1>6. CASE Two!Ends(p)
  BY <1>1, <1>3, <1>4, <1>6, ProcessEnds, TwoRests DEF Two!Ends, Places
<1> QED BY <1>1, <1>5, <1>6 DEF Two!GivesUp

\* Every step of two programs keeps it.
LEMMA TwoStep == ASSUME TwoInv, Two!Next PROVE TwoInv'
<1>1. PICK p \in Pair :
        \/ Two!Start(p) \/ Two!Steps(p) \/ Two!Apply(p) \/ Two!BackupFails(p) \/ Two!SaveFails(p)
        \/ Two!Exit(p) \/ Two!Crash(p)
  BY DEF Two!Next, Pair
<1>2. ~Two!BackupFails(p) /\ ~Two!SaveFails(p) /\ ~Two!Crash(p)
  BY DEF TwoInv, DiskType, Two!BackupFails, Two!SaveFails, Two!Crash
<1> QED BY <1>1, <1>2, TwoQuietStep, TwoOpens, TwoWrites, TwoReplaces, TwoGivesUp DEF Two!Steps

StoreInv == (part = "file" => OneInv) /\ (part = "two" => TwoInv)
\* While another part runs, the invariants of the file stay.
LEMMA StoreKept == ASSUME UNCHANGED part, UNCHANGED fileVars, StoreInv PROVE StoreInv'
<1>1. UNCHANGED <<original, file, temp, content, backup, program, saves, crashes, faults>>
  BY DEF fileVars
<1>2. ASSUME OneInv PROVE OneInv'
  <2>1. DiskType(File!Files)' /\ NamesDiffer' /\ WholeFile'
    BY <1>1, <1>2 DEF OneInv, DiskType, NamesDiffer, WholeFile
  <2>2. TempKnown' /\ BackedUp' /\ Remembers'
    BY <1>1, <1>2 DEF OneInv, TempKnown, BackedUp, Remembers, File!Current
  <2> QED BY <1>1, <1>2, <2>1, <2>2 DEF OneInv
<1>3. ASSUME TwoInv PROVE TwoInv'
  <2>1. DiskType(Two!Files)' /\ NamesDiffer' /\ WholeFile'
    BY <1>1, <1>3 DEF TwoInv, DiskType, NamesDiffer, WholeFile
  <2>2. OpenIsTemp' /\ TempWhole'
    BY <1>1, <1>3 DEF TwoInv, OpenIsTemp, TempWhole
  <2> QED BY <1>1, <1>3, <2>1, <2>2 DEF TwoInv
<1> QED BY <1>2, <1>3 DEF StoreInv

\* For any number of saves, crashes and errors of one program the file is
\* whole, or its backup is there; and it is whole with two programs, where
\* an open file cannot be replaced (config.py, composition.py).
THEOREM StoreInvariance == DesktopSpec => []StoreInv
<1>1. ASSUME DesktopInit PROVE StoreInv
  BY <1>1, OneInit, TwoInit DEF DesktopInit, Starts, StoreInv
<1>2. ASSUME StoreInv, DesktopNext PROVE StoreInv'
  <2>1. CASE part = "file" /\ File!Next
    BY <1>2, <2>1, OneStep DEF StoreInv, DesktopNext
  <2>2. CASE part = "two" /\ Two!Next
    BY <1>2, <2>2, TwoStep DEF StoreInv, DesktopNext
  <2>3. CASE UNCHANGED fileVars
    BY <1>2, <2>3, StoreKept DEF DesktopNext
  <2> QED BY <1>2, <2>1, <2>2, <2>3 DEF DesktopNext
<1>3. ASSUME StoreInv, UNCHANGED <<part, vars, popoutVars, fileVars, monitorVars, feedVars, avatarVars>>
      PROVE  StoreInv'
  BY <1>3, StoreKept
<1> QED BY <1>1, <1>2, <1>3, PTL DEF DesktopSpec

\* Whenever a program is cut off or a write fails, the settings file is a
\* whole document, what was converted has its backup, and what a program works
\* with is what a start would find; and the file is whole while two programs
\* start beside each other (storage/config.py save and _backup).
THEOREM TheFileIsSafe == DesktopSpec => []FileIsSafe
<1>1. ASSUME OneInv PROVE File!ConfigIsWhole /\ File!BackupIsOriginal /\ File!MemoryIsFile
  <2>1. File!ConfigIsWhole
    BY <1>1 DEF OneInv, WholeFile, File!ConfigIsWhole, File!Nowhere
  <2>2. File!BackupIsOriginal
    BY <1>1 DEF OneInv, BackedUp, File!BackupIsOriginal
  <2>3. File!MemoryIsFile
    BY <1>1 DEF OneInv, Remembers, File!MemoryIsFile
  <2> QED BY <2>1, <2>2, <2>3
<1>2. ASSUME TwoInv PROVE Two!ConfigIsWhole
  BY <1>2 DEF TwoInv, WholeFile, Two!ConfigIsWhole, Two!Nowhere
<1>3. StoreInv => FileIsSafe
  BY <1>1, <1>2 DEF StoreInv, FileIsSafe
<1> QED BY <1>3, StoreInvariance, PTL

-----------------------------------------------------------------------------
(***************************************************************************)
(* The types of the desktop.  The invariants above already say what most   *)
(* of the variables hold; what follows adds the bounds.  First the         *)
(* measurements: a revision is a change of the view that was scheduled.    *)
(***************************************************************************)
Waiting == IF scheduled = TRUE THEN 1 ELSE 0
MetricsTypes ==
  /\ shown \in Watched /\ scheduled \in BOOLEAN
  /\ changed \in [view : 0 .. Views, failed : Nat]
  /\ revision + Waiting <= changed.view + 1 /\ sampleRevision >= -1

\* The types hold when the monitor starts.
LEMMA MetricsTypesStart == ASSUME Metrics!MonitorAssumption, Metrics!Init PROVE MetricsTypes
<1>1. /\ shown = nothing /\ scheduled = TRUE /\ changed = [view |-> 0, failed |-> 0]
      /\ revision = 0 /\ sampleRevision = -1
  BY DEF Metrics!Init
<1>2. Views \in Nat
  BY DEF Metrics!MonitorAssumption
<1>3. 0 \in 0 .. Views
  BY <1>2
<1> QED BY <1>1, <1>3 DEF MetricsTypes, Waiting, Watched

\* Every step of the monitor keeps the types.
LEMMA MetricsTyped ==
  ASSUME Metrics!MonitorAssumption, SampleInv, MetricsTypes, Metrics!Next PROVE MetricsTypes'
<1> USE DEF Metrics!session, Metrics!flags, Metrics!thread, Metrics!screen
<1>t. /\ request \in Watched /\ stored \in Watched /\ view \in Watched /\ revision \in Nat /\ sampleRevision \in Int
      /\ shown \in Watched /\ scheduled \in BOOLEAN /\ changed \in [view : 0 .. Views, failed : Nat]
      /\ revision + Waiting <= changed.view + 1 /\ sampleRevision >= -1 /\ Views \in Nat
  BY DEF SampleInv, SampleType, MetricsTypes, Metrics!MonitorAssumption
<1>1. CASE \E r \in {nothing, every} : Metrics!ChangeView(r)
  <2>1. /\ changed.view < Views /\ changed' = [changed EXCEPT !.view = @ + 1] /\ scheduled' = TRUE
        /\ UNCHANGED <<revision, sampleRevision, shown>>
    BY <1>1 DEF Metrics!ChangeView, Metrics!Counts
  <2>2. changed.view + 1 \in 0 .. Views
    BY <1>t, <2>1
  <2>3. changed'.view = changed.view + 1 /\ changed' \in [view : 0 .. Views, failed : Nat]
    BY <1>t, <2>1, <2>2
  <2>4. Waiting \in {0, 1} /\ Waiting' = 1 /\ changed.view \in Nat
    BY <1>t, <2>1 DEF Waiting
  <2>5. revision' + Waiting' <= changed'.view + 1
    BY <1>t, <2>1, <2>3, <2>4
  <2> QED BY <1>t, <2>1, <2>3, <2>5 DEF MetricsTypes
<1>2. CASE Metrics!UpdateRequest
  <2>1. /\ scheduled = TRUE /\ scheduled' = FALSE /\ UNCHANGED <<sampleRevision, shown, changed>>
        /\ revision' = revision \/ revision' = revision + 1
    BY <1>2 DEF Metrics!UpdateRequest
  <2>2. Waiting = 1 /\ Waiting' = 0 /\ changed.view \in Nat
    BY <1>t, <2>1 DEF Waiting
  <2>3. revision' + Waiting' <= changed'.view + 1
    BY <1>t, <2>1, <2>2
  <2> QED BY <1>t, <2>1, <2>3 DEF MetricsTypes
<1>3. CASE Metrics!Observe
  <2>1. /\ UNCHANGED <<revision, scheduled, shown>>
        /\ sampleRevision' \in {sampleRevision, revision}
        /\ UNCHANGED changed \/ (changed' = [changed EXCEPT !.failed = @ + 1])
    BY <1>3 DEF Metrics!Observe, Metrics!Top, Metrics!Clear, Metrics!Take, Metrics!SetRequest, Metrics!Discover,
         Metrics!Sample, Metrics!Record, Metrics!Publish, Metrics!Wait, Metrics!Counts
  <2>2. changed'.view = changed.view /\ changed' \in [view : 0 .. Views, failed : Nat]
    BY <1>t, <2>1
  <2>3. sampleRevision' >= -1
    BY <1>t, <2>1
  <2>4. Waiting' = Waiting
    BY <2>1 DEF Waiting
  <2> QED BY <1>t, <2>1, <2>2, <2>3, <2>4 DEF MetricsTypes
<1>4. CASE Metrics!AskCatalog \/ Metrics!Deliver \/ Metrics!Acknowledge \/ Metrics!Read \/ Metrics!Close
           \/ Metrics!Shutdown \/ Metrics!Complete
  <2>1. /\ UNCHANGED <<revision, sampleRevision, scheduled, changed>> /\ shown' \in {shown, stored}
    BY <1>4 DEF Metrics!AskCatalog, Metrics!Deliver, Metrics!Acknowledge, Metrics!Read, Metrics!Close,
         Metrics!Shutdown, Metrics!Complete
  <2>2. shown' \in Watched /\ Waiting' = Waiting
    BY <1>t, <2>1 DEF Waiting
  <2> QED BY <1>t, <2>1, <2>2 DEF MetricsTypes
<1> QED BY <1>1, <1>2, <1>3, <1>4 DEF Metrics!Next

\* With the invariants of the monitor they are the types of its variables.
LEMMA MetricsTypesAre ==
  ASSUME Metrics!MonitorAssumption, SampleInv, NoticeInv, MetricsTypes PROVE Metrics!TypeOK
<1>1. /\ {request, stored, collector, view, shown} \subseteq {nothing, every}
  BY DEF SampleInv, SampleType, MetricsTypes, Watched
<1>2. revision \in 0 .. Views + 1 /\ sampleRevision \in -1 .. revision
  <2>1. /\ revision \in Nat /\ sampleRevision \in Int /\ sampleRevision <= revision /\ sampleRevision >= -1
        /\ changed.view \in 0 .. Views /\ revision + Waiting <= changed.view + 1 /\ Views \in Nat
    BY DEF SampleInv, SampleType, WatcherType, MetricsTypes, Metrics!MonitorAssumption
  <2>2. Waiting \in {0, 1}
    BY DEF Waiting
  <2> QED BY <2>1, <2>2
<1>3. monitor.pc \in Metrics!Places /\ lock = (monitor.pc = "publish")
      /\ screen \in {"idle", "acknowledge", "read", "closed"}
  BY DEF SampleInv, WatcherType, Watchers, NoticeInv, NoticeType
<1>4. \A i \in DOMAIN notices : notices[i] \in {"metrics", "catalog", "completed"}
  <2>1. notices \in Seq(Notices)
    BY DEF NoticeInv, NoticeType
  <2> QED BY <2>1, ElementOfSeq, LenProperties DEF Notices
<1> QED BY <1>1, <1>2, <1>3, <1>4 DEF Metrics!TypeOK, Metrics!At

\* The comment window: what a field holds is the number of a step, and the
\* colours that were confirmed are among them.
PopoutTypes(S) ==
  PopoutIn(S) /\ confirmed \subseteq S /\ (visible = TRUE => created = TRUE)

\* The types of the window hold when nothing has been shown yet.
LEMMA PopoutTypesStart == ASSUME NEW S, 0 \in S, Hasty!Init PROVE PopoutTypes(S)
<1>1. /\ record = [f \in Hasty!Fields |-> 0] /\ window = record /\ given = record
      /\ orders = <<>> /\ echoes = <<>> /\ sheet = [open |-> FALSE, copy |-> record]
      /\ geometry = [f \in {"size", "position"} |-> 0] /\ moves = 0 /\ confirmed = {0}
      /\ created = FALSE /\ visible = FALSE /\ delay = FALSE /\ left = FALSE
  BY DEF Hasty!Init, Hasty!Default, Hasty!NoDialog
<1>2. record \in FieldsIn(S) /\ window \in FieldsIn(S) /\ given \in FieldsIn(S) /\ geometry \in [{"size", "position"} -> S]
  BY <1>1 DEF FieldsIn
<1>3. orders \in Seq(FieldsIn(S)) /\ echoes \in Seq(FieldsIn(S))
  BY <1>1, EmptySeq
<1>4. sheet \in [open : BOOLEAN, copy : FieldsIn(S)]
  BY <1>1, <1>2
<1> QED BY <1>1, <1>2, <1>3, <1>4 DEF PopoutTypes, PopoutIn

\* Every step of either user keeps them, while its number is one of them.
LEMMA PopoutTypesKeep ==
  ASSUME NEW S, 0 \in S, moves' \in S, PopoutTypes(S), Hasty!Next \/ Careful!Next
  PROVE  PopoutTypes(S)'
<1>1. PopoutIn(S)'
  BY PopoutTyped DEF PopoutTypes
<1>2. confirmed' = confirmed \/ confirmed' = confirmed \cup {sheet.copy.color}
  BY DEF Hasty!Next, Hasty!Detach, Hasty!Attach, Hasty!Wheel, Hasty!Resize, Hasty!Drag, Hasty!Split,
         Hasty!SplitterTimeout, Hasty!OpenDialog, Hasty!Edit, Hasty!Confirm, Hasty!Cancel, Hasty!Save,
         Hasty!Deliver, Hasty!Exit, Careful!Next, Careful!Detach, Careful!Attach, Careful!Wheel, Careful!Resize,
         Careful!Drag, Careful!Split, Careful!SplitterTimeout, Careful!OpenDialog, Careful!Edit, Careful!Confirm,
         Careful!Cancel, Careful!Save, Careful!Deliver, Careful!Exit
<1>3. sheet.copy.color \in S
  BY DEF PopoutTypes, PopoutIn, FieldsIn, Hasty!Fields
<1>4. confirmed' \subseteq S
  BY <1>2, <1>3 DEF PopoutTypes
<1>5. UNCHANGED <<created, visible>> \/ created' = TRUE \/ visible' = FALSE
  BY DEF Hasty!popout, Careful!popout, Hasty!Next, Hasty!Detach, Hasty!Attach, Hasty!Wheel, Hasty!Resize, Hasty!Drag,
         Hasty!Split, Hasty!SplitterTimeout, Hasty!OpenDialog, Hasty!Edit, Hasty!Confirm, Hasty!Cancel, Hasty!Save,
         Hasty!Deliver, Hasty!Exit, Careful!Next, Careful!Detach, Careful!Attach, Careful!Wheel, Careful!Resize,
         Careful!Drag, Careful!Split, Careful!SplitterTimeout, Careful!OpenDialog, Careful!Edit, Careful!Confirm,
         Careful!Cancel, Careful!Save, Careful!Deliver, Careful!Exit
<1>6. visible' = TRUE => created' = TRUE
  BY <1>5 DEF PopoutTypes
<1> QED BY <1>1, <1>4, <1>6 DEF PopoutTypes

\* They are the types of the variables of both users.
LEMMA HastyTypesAre == ASSUME PopoutTypes(0 .. Window) PROVE Hasty!TypeOK
<1>1. /\ {record, window, sheet.copy, given} \subseteq Hasty!Presentations
      /\ orders \in Seq(Hasty!Presentations) /\ echoes \in Seq(Hasty!Presentations)
  BY DEF PopoutTypes, PopoutIn, FieldsIn, Hasty!Presentations
<1>2. (visible => created) /\ confirmed \subseteq 0 .. Window
  BY DEF PopoutTypes, PopoutIn
<1> QED BY <1>1, <1>2 DEF Hasty!TypeOK

\* So for the careful one.
LEMMA CarefulTypesAre == ASSUME PopoutTypes(0 .. Shown) PROVE Careful!TypeOK
<1>1. /\ {record, window, sheet.copy, given} \subseteq Careful!Presentations
      /\ orders \in Seq(Careful!Presentations) /\ echoes \in Seq(Careful!Presentations)
  BY DEF PopoutTypes, PopoutIn, FieldsIn, Hasty!Fields, Careful!Fields, Careful!Presentations
<1>2. (visible => created) /\ confirmed \subseteq 0 .. Shown
  BY DEF PopoutTypes, PopoutIn
<1> QED BY <1>1, <1>2 DEF Careful!TypeOK

\* The dialog: while it saves, its command or the answer to it is on its way.
AnswerDue == dialog = "saving" => Of(commands, "apply") # {} \/ Of(news, "answer") # {}

Grown(q, x, kind) == Of(q, kind) # {} \/ x.kind = kind => Of(Append(q, x), kind) # {}
\* A queue that has an entry of a kind, or is given one, has one.
LEMMA KindGrown ==
  ASSUME NEW S, NEW q \in Seq(S), NEW x, NEW kind
  PROVE  /\ Append(q, x) \in Seq(S \cup {x}) /\ Append(q, x) = q \o <<x>>
         /\ Grown(q, x, kind)
<1> DEFINE T == S \cup {x}
<1>1. x \in T /\ q \in Seq(T)
  <2>1. Len(q) \in Nat /\ DOMAIN q = 1 .. Len(q) /\ \A i \in 1 .. Len(q) : q[i] \in S
    BY LenProperties, ElementOfSeq
  <2>2. q \in [1 .. Len(q) -> S] /\ \A y \in S : y \in T
    BY LenProperties
  <2>3. q \in [1 .. Len(q) -> T]
    BY <2>2
  <2> QED BY <2>1, <2>3, SeqDef
<1> HIDE DEF T
<1>2. /\ Append(q, x) \in Seq(T) /\ Extends(Append(q, x), q, x, kind)
  BY <1>1, KindsGrown
<1>3. Append(q, x) = q \o <<x>>
  BY <1>1, AppendIsConcat
<1> QED BY <1>2, <1>3 DEF Extends, Grown, T

\* An entry of another kind than the first stays when the first is taken.
LEMMA KindStays ==
  ASSUME NEW S, NEW q \in Seq(S), q # <<>>, NEW kind, Head(q).kind # kind, Of(q, kind) # {}
  PROVE  Of(Tail(q), kind) # {}
<1>1. Shifts(q, kind)
  BY KindsShrunk
<1>2. PICK i \in Of(q, kind) : TRUE
  OBVIOUS
<1> QED BY <1>1, <1>2 DEF Shifts

\* Every step of the dialog and of the control thread keeps it: an answer is
\* put where the command is taken.
LEMMA AnswerStaysDue == ASSUME DraftInv, AnswerDue, Next PROVE AnswerDue'
<1> USE DEF form, history
<1>t. commands \in Seq(Commands) /\ news \in Seq(News)
  BY DEF DraftInv, SavedType
<1>1. CASE BeginSettings \/ Cancel \/ CreateDialog \/ FlushFails \/ DeliverAnswer
           \/ (\E v \in Values : Accept(v)) \/ (\E k \in Keys, v \in Values : Edit(k, v))
  <2>1. dialog' # "saving"
    BY <1>1 DEF BeginSettings, Cancel, CreateDialog, FlushFails, DeliverAnswer, Accept, Edit
  <2> QED BY <2>1 DEF AnswerDue
<1>2. CASE (\E v \in Values : ClickStart(v) \/ MoveWindow(v)) \/ (\E k \in Keys, v \in Values : PluginSave(k, v))
  <2>1. PICK c : commands' = Append(commands, c) /\ UNCHANGED <<news, dialog>>
    BY <1>2 DEF ClickStart, MoveWindow, PluginSave, Post
  <2>2. Grown(commands, c, "apply")
    BY <1>t, KindGrown
  <2> QED BY <2>1, <2>2 DEF AnswerDue, Grown
<1>3. CASE Flushed
  <2>1. PICK c : commands' = Append(commands, c) /\ c.kind = "apply"
    BY <1>3 DEF Flushed, Post
  <2>2. Grown(commands, c, "apply")
    BY <1>t, KindGrown
  <2> QED BY <2>1, <2>2 DEF AnswerDue, Grown
<1>4. CASE DeliverApplied
  <2>1. news # <<>> /\ Head(news).kind # "answer" /\ news' = Tail(news) /\ UNCHANGED <<commands, dialog>>
    BY <1>4 DEF DeliverApplied
  <2>2. Of(news, "answer") # {} => Of(news', "answer") # {}
    BY <1>t, <2>1, KindStays
  <2> QED BY <2>1, <2>2 DEF AnswerDue
<1>5. CASE TakeStart \/ TakeView \/ TakePlugin
  <2>1. /\ commands # <<>> /\ Head(commands).kind # "apply" /\ commands' = Tail(commands) /\ UNCHANGED dialog
        /\ news' = news \/ news' = Append(news, Applied)
    BY <1>5 DEF TakeStart, TakeView, TakePlugin, Command
  <2>2. Of(commands, "apply") # {} => Of(commands', "apply") # {}
    BY <1>t, <2>1, KindStays
  <2>3. Grown(news, Applied, "answer")
    BY <1>t, KindGrown
  <2> QED BY <2>1, <2>2, <2>3 DEF AnswerDue, Grown
<1>6. CASE (\E error \in BOOLEAN : TakeApply(error)) \/ RefuseApply
  <2>1. PICK a, q : news' = q \o <<a>> /\ a.kind = "answer" /\ (q = news \/ q = Append(news, Applied))
    BY <1>6 DEF TakeApply, RefuseApply, Answer
  <2>2. PICK T : q \in Seq(T)
    <3>1. CASE q = news
      BY <1>t, <3>1
    <3>2. CASE q = Append(news, Applied)
      <4>1. Applied.kind = "applied"
        BY DEF Applied
      <4> QED BY <1>t, <3>2, <4>1, KindGrown
    <3> QED BY <2>1, <3>1, <3>2
  <2>3. Grown(q, a, "answer") /\ Append(q, a) = q \o <<a>>
    BY <2>2, KindGrown
  <2> QED BY <2>1, <2>3 DEF AnswerDue, Grown
<1> QED BY <1>1, <1>2, <1>3, <1>4, <1>5, <1>6 DEF Next, Deliver, Save

\* With the invariant of the dialog these are the types of its variables.
LEMMA DraftTypesAre == ASSUME DraftInv, AnswerDue PROVE TypeOK
<1> DEFINE sent == {i \in 1 .. Len(commands) : commands[i].kind = "apply"}
           told == {i \in 1 .. Len(news) : news[i].kind = "answer"}
<1>1. sent = Of(commands, "apply") /\ told = Of(news, "answer")
  BY LenProperties DEF DraftInv, SavedType, Of
<1> HIDE DEF sent, told
<1>2. /\ \A i, j \in sent : i = j
      /\ \A i, j \in told : i = j
      /\ sent = {} \/ told = {}
      /\ dialog # "saving" <=> sent = {} /\ told = {}
  BY <1>1 DEF DraftInv, OneSave, AnswerDue
<1>3. Cardinality(sent) = (IF sent = {} THEN 0 ELSE 1) /\ Cardinality(told) = (IF told = {} THEN 0 ELSE 1)
  <2>1. /\ Icons!Cardinality(sent) = (IF sent = {} THEN 0 ELSE 1)
        /\ Icons!Cardinality(told) = (IF told = {} THEN 0 ELSE 1)
    BY <1>2, CountOf
  <2> QED BY <2>1 DEF Icons!Cardinality, Cardinality
<1>4. Cardinality(sent) + Cardinality(told) = IF dialog = "saving" THEN 1 ELSE 0
  BY <1>2, <1>3
<1>5. /\ saved \in Configs /\ config \in Configs /\ baseline \in [Keys -> Values]
      /\ draft \in [Keys -> Values] /\ mark \in [Keys -> Values]
      /\ dialog \in {"none", "create", "open", "flush", "saving"}
  BY DEF DraftInv, SavedType, DialogType
<1> QED BY <1>4, <1>5 DEF TypeOK, sent, told

\* The settings file: what is in it, in the backup and in memory has the
\* number of a save, and the dictionary is held by the one program that runs,
\* also while that program saves.
Documented(N) == [schema : {0, 1, 3}, value : 0 .. N, whole : BOOLEAN]
Numbered(N) == [at : Places, memory : 0 .. N, saving : 0 .. N, then : {"off", "plugins", "lock", "run"}, file : Nat]
Owns(r) == r.at = "run" \/ (r.then = "run" /\ r.at \in Saves)
StoreTypes(P, F, N) ==
  /\ original \in Documented(N) /\ backup \in Documented(N) /\ content \in [F -> Documented(N)]
  /\ program \in [P -> Numbered(N)] /\ saves \in 0 .. N
  /\ owner = {p \in P : Owns(program[p])}
  /\ \A p, q \in owner : p = q

\* The documents there are.
LEMMA DocumentsAre ==
  ASSUME NEW N \in Nat
  PROVE  /\ File!NoDocument \in Documented(N) /\ File!Old \in Documented(N) /\ File!Part(File!Old) \in Documented(N)
         /\ File!Current(0) \in Documented(N) /\ File!Part(File!Current(0)) \in Documented(N)
         /\ \A v \in 0 .. N : File!Current(v) \in Documented(N)
<1>1. 0 \in 0 .. N
  OBVIOUS
<1> QED BY <1>1 DEF File!NoDocument, File!Old, File!Current, File!Part, Documented

\* The types hold at the first start.
LEMMA StoreTypesStart ==
  ASSUME NEW P, NEW F, NEW N \in Nat,
         original \in {File!NoDocument, File!Old, File!Current(0)},
         content = [f \in F |-> IF f = 1 THEN original ELSE File!NoDocument],
         backup = File!NoDocument, owner = {}, saves = 0, program = [p \in P |-> File!NoProgram]
  PROVE  StoreTypes(P, F, N)
<1>1. original \in Documented(N) /\ backup \in Documented(N) /\ content \in [F -> Documented(N)]
  BY DocumentsAre
<1>2. saves \in 0 .. N
  OBVIOUS
<1>3. File!NoProgram \in Numbered(N) /\ ~Owns(File!NoProgram)
  BY <1>2 DEF File!NoProgram, File!Nowhere, Numbered, Owns, Places, Saves
<1>4. program \in [P -> Numbered(N)] /\ \A p \in P : ~Owns(program[p])
  BY <1>3
<1> QED BY <1>1, <1>2, <1>4 DEF StoreTypes

\* How a step of a program may change what it is and who holds the dictionary:
\* it goes on, lets go, or takes the dictionary that nobody holds.
Holds(p, r) ==
  \/ (Owns(r) <=> Owns(program[p])) /\ owner' = owner
  \/ ~Owns(r) /\ owner' = owner \ {p}
  \/ Owns(r) /\ owner = {} /\ owner' = {p}

\* A step that changes no more than that keeps the types.
LEMMA StoreTypesKeep ==
  ASSUME NEW P, NEW F, NEW N \in Nat, StoreTypes(P, F, N), NEW p \in P, saves' \in 0 .. N,
         NEW r \in Numbered(N), program' = [program EXCEPT ![p] = r], Holds(p, r),
         original' = original, backup' \in Documented(N), content' \in [F -> Documented(N)]
  PROVE  StoreTypes(P, F, N)'
<1>1. program \in [P -> Numbered(N)] /\ owner = {q \in P : Owns(program[q])} /\ \A q, o \in owner : q = o
  BY DEF StoreTypes
<1>2. program' \in [P -> Numbered(N)] /\ program'[p] = r /\ \A q \in P : q # p => program'[q] = program[q]
  BY <1>1
<1>3. owner' = {q \in P : Owns(program'[q])} /\ \A q, o \in owner' : q = o
  BY <1>1, <1>2 DEF Holds
<1> QED BY <1>2, <1>3 DEF StoreTypes

\* What a program is after it moves, begins a save, or ends.
LEMMA ProgramsNumbered ==
  ASSUME NEW N \in Nat, NEW r \in Numbered(N)
  PROVE  /\ r.at \in Places /\ r.memory \in 0 .. N /\ r.saving \in 0 .. N /\ r.file \in Nat
         /\ r.then \in {"off", "plugins", "lock", "run"}
         /\ \A at \in Places : [r EXCEPT !.at = at] \in Numbered(N)
         /\ \A v \in 0 .. N, then \in {"plugins", "lock", "run"} :
              [r EXCEPT !.at = "open", !.saving = v, !.then = then] \in Numbered(N)
         /\ File!NoProgram \in Numbered(N) /\ ~Owns(File!NoProgram)
         /\ Two!NoProgram = File!NoProgram
<1>1. 0 \in 0 .. N
  OBVIOUS
<1> QED BY <1>1 DEF Numbered, Places, Saves, Owns, File!NoProgram, Two!NoProgram, File!Nowhere, Two!Nowhere

StoreStep(p) ==
  \/ File!Start(p) \/ File!Steps(p) \/ File!Apply(p) \/ File!BackupFails(p) \/ File!SaveFails(p) \/ File!Exit(p)
     \/ File!Crash(p)
  \/ Two!Start(p) \/ Two!Steps(p) \/ Two!Apply(p) \/ Two!BackupFails(p) \/ Two!SaveFails(p) \/ Two!Exit(p)
     \/ Two!Crash(p)

\* Every step of a program keeps them.
LEMMA StoreTyped ==
  ASSUME NEW P, NEW F, NEW N \in Nat, StoreTypes(P, F, N), NEW p \in P, StoreStep(p),
         saves' \in 0 .. N, file \in F \cup {0}, program' \in [P -> Processes]
  PROVE  StoreTypes(P, F, N)'
<1> DEFINE was == program[p]
<1> USE DEF File!Paths, Two!Paths, File!counters, Two!counters
<1>t. /\ original \in Documented(N) /\ backup \in Documented(N) /\ content \in [F -> Documented(N)]
      /\ program \in [P -> Numbered(N)] /\ was \in Numbered(N) /\ 0 \in 0 .. N
  BY DEF StoreTypes
<1>n. /\ was.at \in Places /\ was.memory \in 0 .. N /\ was.saving \in 0 .. N
      /\ was.then \in {"off", "plugins", "lock", "run"}
      /\ \A at \in Places : [was EXCEPT !.at = at] \in Numbered(N)
      /\ \A v \in 0 .. N, then \in {"plugins", "lock", "run"} :
           [was EXCEPT !.at = "open", !.saving = v, !.then = then] \in Numbered(N)
      /\ File!NoProgram \in Numbered(N) /\ ~Owns(File!NoProgram) /\ Two!NoProgram = File!NoProgram
  BY <1>t, ProgramsNumbered
<1>d. /\ File!Old \in Documented(N) /\ File!Part(File!Old) \in Documented(N)
      /\ File!Part(File!Current(0)) \in Documented(N) /\ \A v \in 0 .. N : File!Current(v) \in Documented(N)
      /\ Two!Old = File!Old /\ Two!Part(Two!Old) = File!Part(File!Old)
      /\ Two!Part(Two!Current(0)) = File!Part(File!Current(0)) /\ \A v : Two!Current(v) = File!Current(v)
  BY DocumentsAre DEF File!Old, Two!Old, File!Part, Two!Part, File!Current, Two!Current
<1>1. ASSUME NEW at \in Places, File!GoTo(p, at) \/ Two!GoTo(p, at), Holds(p, [was EXCEPT !.at = at]),
             UNCHANGED <<original, content>>, backup' \in {backup, File!Part(File!Old)}
      PROVE  StoreTypes(P, F, N)'
  <2> DEFINE r == [was EXCEPT !.at = at]
  <2>1. r \in Numbered(N) /\ Holds(p, r) /\ program' = [program EXCEPT ![p] = r]
    BY <1>n, <1>1 DEF File!GoTo, Two!GoTo, File!Becomes, Two!Becomes
  <2> HIDE DEF r, was
  <2> QED BY <1>t, <1>d, <1>1, <2>1, StoreTypesKeep
<1>2. ASSUME NEW v \in 0 .. N, NEW then \in {"plugins", "lock", "run"}, File!Saving(p, v, then) \/ Two!Saving(p, v, then),
             Owns(was) <=> then = "run", owner' = owner, UNCHANGED <<original, content>>, backup' \in {backup, File!Old}
      PROVE  StoreTypes(P, F, N)'
  <2> DEFINE r == [was EXCEPT !.at = "open", !.saving = v, !.then = then]
  <2>1. r \in Numbered(N) /\ program' = [program EXCEPT ![p] = r]
    BY <1>n, <1>2 DEF File!Saving, Two!Saving, File!Becomes, Two!Becomes
  <2>2. r.at = "open" /\ r.then = then
    BY <1>t DEF Numbered
  <2>3. Holds(p, r)
    BY <1>2, <2>2 DEF Holds, Owns, Saves
  <2> HIDE DEF r, was
  <2> QED BY <1>t, <1>d, <1>2, <2>1, <2>3, StoreTypesKeep
<1>3. ASSUME File!Ends(p) \/ Two!Ends(p), UNCHANGED <<original, content, backup>> PROVE StoreTypes(P, F, N)'
  <2>1. program' = [program EXCEPT ![p] = File!NoProgram] /\ owner' = owner \ {p}
    BY <1>n, <1>3 DEF File!Ends, Two!Ends, File!Becomes, Two!Becomes
  <2>2. Holds(p, File!NoProgram)
    BY <1>n, <2>1 DEF Holds
  <2> HIDE DEF was
  <2> QED BY <1>t, <1>n, <1>3, <2>1, <2>2, StoreTypesKeep
<1>4. CASE File!Start(p) \/ Two!Start(p)
  <2>1. was.at = "off" /\ (File!GoTo(p, "read") \/ Two!GoTo(p, "read")) /\ UNCHANGED <<original, content, backup, owner>>
    BY <1>4 DEF File!Start, Two!Start
  <2>2. [was EXCEPT !.at = "read"].at = "read"
    BY <1>t DEF Numbered
  <2>3. Holds(p, [was EXCEPT !.at = "read"])
    BY <2>1, <2>2 DEF Holds, Owns, Saves
  <2> QED BY <1>1, <2>1, <2>3 DEF Places
<1>5. CASE File!Read(p) \/ Two!Read(p)
  <2>1. was.at = "read" /\ UNCHANGED <<original, content, backup, owner>>
    BY <1>5 DEF File!Read, Two!Read
  <2>2. ~Owns(was)
    BY <2>1 DEF Owns, Saves
  <2>3. CASE File!Saving(p, 0, "plugins") \/ Two!Saving(p, 0, "plugins")
    BY <1>t, <1>2, <2>1, <2>2, <2>3
  <2>4. CASE File!GoTo(p, "backup") \/ Two!GoTo(p, "backup")
    <3>1. [was EXCEPT !.at = "backup"].at = "backup"
      BY <1>t DEF Numbered
    <3>2. Holds(p, [was EXCEPT !.at = "backup"])
      BY <2>1, <2>2, <3>1 DEF Holds, Owns, Saves
    <3> QED BY <1>1, <2>1, <2>4, <3>2 DEF Places
  <2>5. CASE /\ file # 0
             /\ program' = [program EXCEPT ![p] = [was EXCEPT !.at = "plugins", !.memory = content[file].value]]
    <3> DEFINE r == [was EXCEPT !.at = "plugins", !.memory = content[file].value]
    <3>1. content[file].value \in 0 .. N
      BY <1>t, <2>5 DEF Documented
    <3>2. r \in Numbered(N) /\ r.at = "plugins"
      BY <1>t, <3>1 DEF Numbered, Places
    <3>3. program' = [program EXCEPT ![p] = r]
      BY <2>5
    <3> HIDE DEF r
    <3>4. Holds(p, r)
      BY <2>1, <2>2, <3>2 DEF Holds, Owns, Saves
    <3> HIDE DEF was
    <3> QED BY <1>t, <2>1, <3>2, <3>3, <3>4, StoreTypesKeep
  <2> QED BY <1>5, <2>3, <2>4, <2>5 DEF File!Read, Two!Read, File!Becomes, Two!Becomes, File!Nowhere, Two!Nowhere
<1>6. CASE File!OpenBackup(p) \/ Two!OpenBackup(p)
  <2>1. was.at = "backup" /\ UNCHANGED <<original, content>>
    BY <1>6 DEF File!OpenBackup, Two!OpenBackup
  <2>2. ~Owns(was)
    BY <2>1 DEF Owns, Saves
  <2>3. CASE (File!GoTo(p, "copy") \/ Two!GoTo(p, "copy")) /\ backup' = File!Part(File!Old) /\ owner' = owner
    <3>1. [was EXCEPT !.at = "copy"].at = "copy"
      BY <1>t DEF Numbered
    <3>2. Holds(p, [was EXCEPT !.at = "copy"])
      BY <2>2, <2>3, <3>1 DEF Holds, Owns, Saves
    <3> QED BY <1>1, <2>1, <2>3, <3>2 DEF Places
  <2>4. CASE (File!Saving(p, 0, "plugins") \/ Two!Saving(p, 0, "plugins")) /\ UNCHANGED <<backup, owner>>
    BY <1>t, <1>2, <2>1, <2>2, <2>4
  <2>5. CASE (File!Ends(p) \/ Two!Ends(p)) /\ UNCHANGED backup
    BY <1>3, <2>1, <2>5
  <2>6. /\ File!OpenBackup(p) => \/ File!GoTo(p, "copy") /\ backup' = File!Part(File!Old) /\ owner' = owner
                                 \/ File!Saving(p, 0, "plugins") /\ UNCHANGED <<backup, owner>>
                                 \/ File!Ends(p) /\ UNCHANGED backup
        /\ Two!OpenBackup(p) => \/ Two!GoTo(p, "copy") /\ backup' = Two!Part(Two!Old) /\ owner' = owner
                                \/ Two!Saving(p, 0, "plugins") /\ UNCHANGED <<backup, owner>>
                                \/ Two!Ends(p) /\ UNCHANGED backup
    BY DEF File!OpenBackup, Two!OpenBackup
  <2> QED BY <1>d, <1>6, <2>3, <2>4, <2>5, <2>6
<1>7. CASE File!WriteBackup(p) \/ Two!WriteBackup(p)
  <2>1. /\ was.at = "copy" /\ UNCHANGED <<original, content, owner>> /\ backup' = File!Old
        /\ File!Saving(p, 0, "plugins") \/ Two!Saving(p, 0, "plugins")
    BY <1>d, <1>7 DEF File!WriteBackup, Two!WriteBackup
  <2>2. ~Owns(was)
    BY <2>1 DEF Owns, Saves
  <2> QED BY <1>t, <1>2, <2>1, <2>2
<1>8. CASE File!LoadPlugins(p) \/ Two!LoadPlugins(p)
  <2>1. /\ was.at = "plugins" /\ UNCHANGED <<original, content, backup, owner>>
        /\ File!Saving(p, was.memory, "lock") \/ Two!Saving(p, was.memory, "lock")
    BY <1>8 DEF File!LoadPlugins, Two!LoadPlugins
  <2>2. ~Owns(was)
    BY <2>1 DEF Owns, Saves
  <2> QED BY <1>n, <1>2, <2>1, <2>2
<1>9. CASE File!Apply(p) \/ Two!Apply(p)
  <2>1. /\ was.at = "run" /\ UNCHANGED <<original, content, backup, owner>>
        /\ File!Saving(p, saves', "run") \/ Two!Saving(p, saves', "run")
    BY <1>9 DEF File!Apply, Two!Apply
  <2>2. Owns(was)
    BY <2>1 DEF Owns
  <2> QED BY <1>2, <2>1, <2>2
<1>10. CASE File!OpenDictionary(p) \/ Two!OpenDictionary(p)
  <2>1. /\ was.at = "lock" /\ UNCHANGED <<original, content, backup>>
        /\ \/ owner = {} /\ owner' = {p} /\ (File!GoTo(p, "run") \/ Two!GoTo(p, "run"))
           \/ File!Ends(p) \/ Two!Ends(p)
    BY <1>10 DEF File!OpenDictionary, Two!OpenDictionary
  <2>2. CASE owner = {} /\ owner' = {p} /\ (File!GoTo(p, "run") \/ Two!GoTo(p, "run"))
    <3>1. [was EXCEPT !.at = "run"].at = "run"
      BY <1>t DEF Numbered
    <3>2. Holds(p, [was EXCEPT !.at = "run"])
      BY <2>2, <3>1 DEF Holds, Owns
    <3> QED BY <1>1, <2>1, <2>2, <3>2 DEF Places
  <2> QED BY <1>3, <2>1, <2>2
<1>11. CASE File!OpenTemp(p) \/ Two!OpenTemp(p)
  <2>1. PICK f : /\ was.at = "open" /\ UNCHANGED <<original, backup, owner>>
                 /\ content' = [content EXCEPT ![f] = File!Part(File!Current(0))]
                 /\ program' = [program EXCEPT ![p] = [was EXCEPT !.at = "write", !.file = f]]
    BY <1>d, <1>11 DEF File!OpenTemp, Two!OpenTemp, File!Becomes, Two!Becomes
  <2> DEFINE r == [was EXCEPT !.at = "write", !.file = f]
  <2>2. f \in Nat
    <3>1. program'[p] \in Processes /\ program'[p] = r
      BY <1>t, <2>1
    <3>2. r.file = f
      BY <1>t DEF Numbered
    <3> QED BY <3>1, <3>2 DEF Processes
  <2>3. r \in Numbered(N) /\ r.at = "write" /\ r.then = was.then
    BY <1>t, <2>2 DEF Numbered, Places, Saves
  <2>4. content' \in [F -> Documented(N)]
    BY <1>t, <1>d, <2>1
  <2>5. program' = [program EXCEPT ![p] = r]
    BY <2>1
  <2> HIDE DEF r
  <2>6. Holds(p, r)
    BY <2>1, <2>3 DEF Holds, Owns, Saves
  <2> HIDE DEF was
  <2> QED BY <1>t, <2>1, <2>3, <2>4, <2>5, <2>6, StoreTypesKeep
<1>12. CASE File!WriteTemp(p) \/ Two!WriteTemp(p)
  <2>1. /\ was.at = "write" /\ UNCHANGED <<original, backup, owner>>
        /\ content' = [content EXCEPT ![was.file] = File!Current(was.saving)]
        /\ program' = [program EXCEPT ![p] = [was EXCEPT !.at = "replace", !.file = 0]]
    BY <1>d, <1>12 DEF File!WriteTemp, Two!WriteTemp, File!Becomes, Two!Becomes, File!Nowhere, Two!Nowhere
  <2> DEFINE r == [was EXCEPT !.at = "replace", !.file = 0]
  <2>2. r \in Numbered(N) /\ r.at = "replace" /\ r.then = was.then
    BY <1>t DEF Numbered, Places, Saves
  <2>3. File!Current(was.saving) \in Documented(N)
    BY <1>n, <1>d
  <2>4. content' \in [F -> Documented(N)]
    BY <1>t, <2>1, <2>3
  <2>5. program' = [program EXCEPT ![p] = r]
    BY <2>1
  <2> HIDE DEF r
  <2>6. Holds(p, r)
    BY <2>1, <2>2 DEF Holds, Owns, Saves
  <2> HIDE DEF was
  <2> QED BY <1>t, <2>1, <2>2, <2>4, <2>5, <2>6, StoreTypesKeep
<1>13. CASE File!Replace(p) \/ Two!Replace(p)
  <2>1. /\ was.at = "replace" /\ UNCHANGED <<original, content, backup, owner>>
        /\ program' = [program EXCEPT ![p] = [was EXCEPT !.at = was.then, !.memory = was.saving]]
    BY <1>13 DEF File!Replace, Two!Replace, File!Becomes, Two!Becomes
  <2> DEFINE r == [was EXCEPT !.at = was.then, !.memory = was.saving]
  <2>2. r \in Numbered(N) /\ r.at = was.then /\ r.then = was.then
    BY <1>t DEF Numbered, Places
  <2>5. program' = [program EXCEPT ![p] = r]
    BY <2>1
  <2> HIDE DEF r
  <2>6. Holds(p, r)
    BY <1>n, <2>1, <2>2 DEF Holds, Owns, Saves
  <2> HIDE DEF was
  <2> QED BY <1>t, <2>1, <2>2, <2>5, <2>6, StoreTypesKeep
<1>14. CASE File!SaveFails(p) \/ Two!SaveFails(p) \/ File!ReplaceFails(p) \/ Two!ReplaceFails(p)
  <2>1. was.at \in Saves /\ UNCHANGED <<original, content, backup>>
        /\ (File!GivesUp(p) \/ Two!GivesUp(p))
    BY <1>14 DEF File!SaveFails, Two!SaveFails, File!ReplaceFails, Two!ReplaceFails, File!GivesUp, Two!GivesUp, Saves
  <2>2. CASE File!Ends(p) \/ Two!Ends(p)
    BY <1>3, <2>1, <2>2
  <2>3. CASE /\ was.then = "run" /\ owner' = owner
             /\ program' = [program EXCEPT ![p] = [was EXCEPT !.at = "run", !.file = 0]]
    <3> DEFINE r == [was EXCEPT !.at = "run", !.file = 0]
    <3>1. r \in Numbered(N) /\ r.at = "run"
      BY <1>t DEF Numbered, Places
    <3>2. program' = [program EXCEPT ![p] = r]
      BY <2>3
    <3> HIDE DEF r
    <3>3. Holds(p, r)
      BY <2>1, <2>3, <3>1 DEF Holds, Owns
    <3> HIDE DEF was
    <3> QED BY <1>t, <2>1, <3>1, <3>2, <3>3, StoreTypesKeep
  <2> QED BY <2>1, <2>2, <2>3 DEF File!GivesUp, Two!GivesUp, File!Becomes, Two!Becomes, File!Nowhere, Two!Nowhere
<1>15. CASE File!Refuse(p) \/ Two!Refuse(p) \/ File!BackupFails(p) \/ Two!BackupFails(p) \/ File!Exit(p)
            \/ Two!Exit(p) \/ File!Crash(p) \/ Two!Crash(p)
  <2>1. UNCHANGED <<original, content, backup>> /\ (File!Ends(p) \/ Two!Ends(p))
    BY <1>15 DEF File!Refuse, Two!Refuse, File!BackupFails, Two!BackupFails, File!Exit, Two!Exit, File!Crash, Two!Crash
  <2> QED BY <1>3, <2>1
<1> QED
  BY <1>4, <1>5, <1>6, <1>7, <1>8, <1>9, <1>10, <1>11, <1>12, <1>13, <1>14, <1>15
     DEF StoreStep, File!Steps, Two!Steps

\* Every step of one program, and of two, keeps the types: a save is counted
\* below its bound.
LEMMA OneFileTyped ==
  ASSUME Crashes \in Nat, OneInv, OneInv', StoreTypes({p1}, File!Files, Crashes), File!Next
  PROVE  StoreTypes({p1}, File!Files, Crashes)'
<1>1. PICK p \in {p1} : \/ File!Start(p) \/ File!Steps(p) \/ File!Apply(p) \/ File!BackupFails(p)
                        \/ File!SaveFails(p) \/ File!Exit(p) \/ File!Crash(p)
  BY DEF File!Next
<1>2. saves \in 0 .. Crashes
  BY DEF StoreTypes
<1>3. UNCHANGED saves \/ (saves < Crashes /\ saves' = saves + 1)
  BY <1>1 DEF File!Start, File!Steps, File!Read, File!Refuse, File!OpenBackup, File!WriteBackup, File!LoadPlugins,
       File!OpenDictionary, File!OpenTemp, File!WriteTemp, File!Replace, File!ReplaceFails, File!Apply,
       File!BackupFails, File!SaveFails, File!Exit, File!Crash, File!GivesUp, File!counters
<1>4. saves' \in 0 .. Crashes
  BY <1>2, <1>3
<1>5. file \in File!Files \cup {0} /\ program' \in [{p1} -> Processes]
  BY DEF OneInv, DiskType
<1>6. StoreStep(p)
  BY <1>1 DEF StoreStep
<1> QED BY <1>4, <1>5, <1>6, StoreTyped

\* So for two programs.
LEMMA TwoFilesTyped ==
  ASSUME TwoInv, TwoInv', StoreTypes({p1, p2}, Two!Files, 2), Two!Next
  PROVE  StoreTypes({p1, p2}, Two!Files, 2)'
<1>1. PICK p \in {p1, p2} : \/ Two!Start(p) \/ Two!Steps(p) \/ Two!Apply(p) \/ Two!BackupFails(p)
                            \/ Two!SaveFails(p) \/ Two!Exit(p) \/ Two!Crash(p)
  BY DEF Two!Next
<1>2. saves \in 0 .. 2
  BY DEF StoreTypes
<1>3. UNCHANGED saves \/ (saves < 2 /\ saves' = saves + 1)
  BY <1>1 DEF Two!Start, Two!Steps, Two!Read, Two!Refuse, Two!OpenBackup, Two!WriteBackup, Two!LoadPlugins,
       Two!OpenDictionary, Two!OpenTemp, Two!WriteTemp, Two!Replace, Two!ReplaceFails, Two!Apply,
       Two!BackupFails, Two!SaveFails, Two!Exit, Two!Crash, Two!GivesUp, Two!counters
<1>4. saves' \in 0 .. 2
  BY <1>2, <1>3
<1>5. file \in Two!Files \cup {0} /\ program' \in [{p1, p2} -> Processes]
  BY DEF TwoInv, DiskType
<1>6. StoreStep(p)
  BY <1>1 DEF StoreStep
<1> QED BY <1>4, <1>5, <1>6, StoreTyped

\* With the invariants of the file they are the types of its variables; who
\* owns the dictionary is alone.
LEMMA OneFileTypesAre == ASSUME OneInv, StoreTypes({p1}, File!Files, Crashes) PROVE File!TypeOK
<1>1. /\ original \in File!Documents /\ backup \in File!Documents /\ content \in [File!Files -> File!Documents]
  BY DEF StoreTypes, Documented, File!Documents
<1>2. /\ file \in File!Files \cup {0} /\ temp \in File!Files \cup {0}
      /\ \A p \in {p1} : program[p].file \in File!Files \cup {0}
  BY DEF OneInv, DiskType, TempKnown
<1>3. owner = {p \in {p1} : program[p].at = "run"
                              \/ (program[p].then = "run" /\ program[p].at \in {"open", "write", "replace"})}
  BY DEF StoreTypes, Owns, Saves
<1>4. File!Cardinality(owner) =< 1
  <2>1. \A p, q \in owner : p = q
    BY DEF StoreTypes
  <2>2. Icons!Cardinality(owner) = IF owner = {} THEN 0 ELSE 1
    BY <2>1, CountOf
  <2> QED BY <2>2 DEF Icons!Cardinality, File!Cardinality
<1>5. file = temp => file = 0
  BY DEF OneInv, NamesDiffer
<1> QED BY <1>1, <1>2, <1>3, <1>4, <1>5 DEF File!TypeOK, File!Nowhere

\* So for two programs.
LEMMA TwoFilesTypesAre == ASSUME TwoInv, StoreTypes({p1, p2}, Two!Files, 2) PROVE Two!TypeOK
<1>1. /\ original \in Two!Documents /\ backup \in Two!Documents /\ content \in [Two!Files -> Two!Documents]
  BY DEF StoreTypes, Documented, Two!Documents
<1>2. /\ file \in Two!Files \cup {0} /\ temp \in Two!Files \cup {0}
      /\ \A p \in {p1, p2} : program[p].file \in Two!Files \cup {0}
  BY DEF TwoInv, DiskType, OpenIsTemp
<1>3. owner = {p \in {p1, p2} : program[p].at = "run"
                                  \/ (program[p].then = "run" /\ program[p].at \in {"open", "write", "replace"})}
  BY DEF StoreTypes, Owns, Saves
<1>4. Two!Cardinality(owner) =< 1
  <2>1. \A p, q \in owner : p = q
    BY DEF StoreTypes
  <2>2. Icons!Cardinality(owner) = IF owner = {} THEN 0 ELSE 1
    BY <2>1, CountOf
  <2> QED BY <2>2 DEF Icons!Cardinality, Two!Cardinality
<1>5. file = temp => file = 0
  BY DEF TwoInv, NamesDiffer
<1> QED BY <1>1, <1>2, <1>3, <1>4, <1>5 DEF Two!TypeOK, Two!Nowhere

-----------------------------------------------------------------------------
(***************************************************************************)
(* The types of the feed.  A list and a buffer hold positive numbers, as   *)
(* many as their limits allow; the invariant of the feed says that none is *)
(* beyond the last item.  The items that threads are about to append count *)
(* among those that are allowed.                                           *)
(***************************************************************************)
Positive == Seq(Nat \ {0})
Writers(k) == {p \in {p1, p2} : publisher[p] = <<"append", k>>}
Fits(s, n) == s \in Positive /\ Len(s) <= n

ListsFit == \A k \in Feeds : Fits(buffer[k], cap[k]) /\ Fits(rows[k], limit[k])
ItemsAllowed == \A k \in Feeds : items[k] + Cardinality(Writers(k)) <= Items
FeedTypes ==
  /\ ListsFit /\ ItemsAllowed /\ closed \in BOOLEAN
  /\ gui \in {"idle", "flush", "clear", "limit", "logs", "end"}

\* The last items of a list fit into what is left for them.
LEMMA LastFits ==
  ASSUME NEW s \in Positive, NEW n \in Nat
  PROVE  Fits(Feed!Last(s, n), n)
<1> DEFINE m == Len(s)
           a == IF m > n THEN m - n + 1 ELSE 1
           t == SubSeq(s, a, m)
<1>1. m \in Nat
  BY LenProperties DEF Positive
<1> HIDE DEF m
<1>2. a \in 1 .. m + 1 /\ m - a + 1 <= n
  BY <1>1
<1> HIDE DEF a
<1>3. t \in Positive /\ Len(t) = m - a + 1
  BY <1>1, <1>2, SubSeqProperties DEF Positive, m
<1>4. t = Feed!Last(s, n)
  BY DEF Feed!Last, a, m
<1> HIDE DEF t
<1> QED BY <1>2, <1>3, <1>4 DEF Fits

\* So do those of two lists joined, and those of a list with one more item.
LEMMA BatchFits ==
  ASSUME NEW r \in Positive, NEW b \in Positive, NEW n \in Nat
  PROVE  Fits(Feed!AppendBatch(r, b, n), n)
<1> DEFINE c == Feed!Last(b, n)
           u == r \o c
<1>1. c \in Positive
  BY LastFits DEF Fits
<1> HIDE DEF c
<1>2. u \in Positive
  BY <1>1, ConcatProperties DEF Positive
<1>3. Feed!AppendBatch(r, b, n) = Feed!Last(u, n)
  BY DEF Feed!AppendBatch, c
<1> HIDE DEF u
<1> QED BY <1>2, <1>3, LastFits

\* So does an item that is appended.
LEMMA ItemFits ==
  ASSUME NEW b \in Positive, NEW N \in Nat, NEW n \in Nat
  PROVE  Fits(Feed!Last(Append(b, N + 1), n), n)
<1> DEFINE u == Append(b, N + 1)
<1>1. N + 1 \in Nat \ {0}
  OBVIOUS
<1>2. u \in Positive
  BY <1>1, AppendProperties DEF Positive
<1> HIDE DEF u
<1>3. Fits(Feed!Last(u, n), n)
  BY <1>2, LastFits
<1> QED BY <1>3 DEF u

\* The types of the feed at the start.
LEMMA FeedTypesStart == ASSUME Feed!Init PROVE FeedTypes
<1>1. FeedLimit \in Nat \ {0} /\ Items \in Nat
  BY DesktopAssumption DEF DesktopAssumption, Feed!FeedAssumption
<1>2. /\ buffer = [k \in Feeds |-> <<>>] /\ rows = [k \in Feeds |-> <<>>]
      /\ cap = [k \in Feeds |-> IF k = "progress" THEN 1 ELSE FeedLimit]
      /\ limit = [k \in Feeds |-> IF k = "progress" THEN 1 ELSE FeedLimit]
      /\ publisher = [p \in {p1, p2} |-> <<"idle", "none">>] /\ items = [k \in Feeds |-> 0]
      /\ gui = "idle" /\ closed = FALSE
  BY DEF Feed!Init
<1>3. <<>> \in Positive /\ Len(<<>>) = 0
  BY EmptySeq DEF Positive
<1>4. ASSUME NEW k \in Feeds PROVE Fits(buffer[k], cap[k]) /\ Fits(rows[k], limit[k])
  <2>1. cap[k] \in Nat /\ limit[k] \in Nat /\ buffer[k] = <<>> /\ rows[k] = <<>>
    BY <1>1, <1>2
  <2> QED BY <1>3, <2>1 DEF Fits
<1>5. ASSUME NEW k \in Feeds PROVE items[k] + Cardinality(Writers(k)) <= Items
  <2>1. Writers(k) = {} /\ items[k] = 0
    BY <1>2 DEF Writers
  <2>2. Cardinality(Writers(k)) = 0
    BY <2>1, FS_EmptySet
  <2> QED BY <1>1, <2>1, <2>2
<1> QED BY <1>2, <1>4, <1>5 DEF FeedTypes, ListsFit, ItemsAllowed

\* How a list and a buffer may change, so that they fit.
RowsChange(k) ==
  \/ rows'[k] = rows[k] /\ limit'[k] = limit[k]
  \/ rows'[k] = <<>> /\ limit'[k] = limit[k]
  \/ rows'[k] = Feed!AppendBatch(rows[k], buffer[k], limit[k]) /\ limit'[k] = limit[k]
  \/ rows'[k] = Feed!Last(rows[k], limit'[k])
BufferChange(k) ==
  \/ buffer'[k] = buffer[k] /\ cap'[k] = cap[k]
  \/ buffer'[k] = <<>> /\ cap'[k] = cap[k]
  \/ buffer'[k] = Feed!Last(Append(buffer[k], items[k] + 1), cap[k]) /\ cap'[k] = cap[k]
  \/ buffer'[k] = Feed!Last(buffer[k], cap'[k])

\* Lists and buffers that change in one of these ways fit.
LEMMA ListsStayFit ==
  ASSUME ListType, ListType', ListsFit, \A k \in Feeds : RowsChange(k) /\ BufferChange(k)
  PROVE  ListsFit'
<1>1. <<>> \in Positive /\ Len(<<>>) = 0
  BY EmptySeq DEF Positive
<1>2. ASSUME NEW k \in Feeds PROVE Fits(rows'[k], limit'[k])
  <2>1. limit[k] \in Nat /\ limit'[k] \in Nat
    BY DEF ListType
  <2>2. Fits(rows[k], limit[k]) /\ rows[k] \in Positive /\ buffer[k] \in Positive
    BY DEF ListsFit, Fits
  <2>3. RowsChange(k)
    OBVIOUS
  <2>4. CASE rows'[k] = Feed!AppendBatch(rows[k], buffer[k], limit[k]) /\ limit'[k] = limit[k]
    <3>1. Fits(Feed!AppendBatch(rows[k], buffer[k], limit[k]), limit[k])
      BY <2>1, <2>2, BatchFits
    <3> QED BY <2>4, <3>1
  <2>5. CASE rows'[k] = Feed!Last(rows[k], limit'[k])
    <3>1. Fits(Feed!Last(rows[k], limit'[k]), limit'[k])
      BY <2>1, <2>2, LastFits
    <3> QED BY <2>5, <3>1
  <2>6. CASE rows'[k] = <<>> /\ limit'[k] = limit[k]
    BY <1>1, <2>1, <2>6 DEF Fits
  <2> QED BY <2>2, <2>3, <2>4, <2>5, <2>6 DEF RowsChange
<1>3. ASSUME NEW k \in Feeds PROVE Fits(buffer'[k], cap'[k])
  <2>1. cap[k] \in Nat /\ cap'[k] \in Nat /\ items[k] \in Nat
    BY DEF ListType
  <2>2. Fits(buffer[k], cap[k]) /\ buffer[k] \in Positive
    BY DEF ListsFit, Fits
  <2>3. BufferChange(k)
    OBVIOUS
  <2>4. CASE buffer'[k] = Feed!Last(Append(buffer[k], items[k] + 1), cap[k]) /\ cap'[k] = cap[k]
    <3>1. Fits(Feed!Last(Append(buffer[k], items[k] + 1), cap[k]), cap[k])
      BY <2>1, <2>2, ItemFits
    <3> QED BY <2>4, <3>1
  <2>5. CASE buffer'[k] = Feed!Last(buffer[k], cap'[k])
    <3>1. Fits(Feed!Last(buffer[k], cap'[k]), cap'[k])
      BY <2>1, <2>2, LastFits
    <3> QED BY <2>5, <3>1
  <2>6. CASE buffer'[k] = <<>> /\ cap'[k] = cap[k]
    BY <1>1, <2>1, <2>6 DEF Fits
  <2> QED BY <2>2, <2>3, <2>4, <2>5, <2>6 DEF BufferChange
<1> QED BY <1>2, <1>3 DEF ListsFit

\* Every step of the feed changes lists and buffers in one of these ways.
LEMMA ListsChange ==
  ASSUME ListInv, WayInv, Feed!Next
  PROVE  \A k \in Feeds : RowsChange(k) /\ BufferChange(k)
<1>1. /\ buffer \in [Feeds -> Numbers] /\ rows \in [Feeds -> Numbers]
      /\ cap \in [Feeds -> Nat \ {0}] /\ limit \in [Feeds -> Nat \ {0}]
  BY DEF ListInv, ListType
<1>2. ASSUME UNCHANGED <<buffer, cap, rows, limit>>
      PROVE  \A k \in Feeds : RowsChange(k) /\ BufferChange(k)
  BY <1>2 DEF RowsChange, BufferChange
<1>3. CASE \E p \in {p1, p2} : (\E k \in Feeds : Feed!Publish(p, k)) \/ Feed!Emit(p)
  BY <1>2, <1>3 DEF Feed!Publish, Feed!Emit, Feed!events, Feed!shell
<1>4. ASSUME NEW p \in {p1, p2}, Feed!AppendItem(p)
      PROVE  \A k \in Feeds : RowsChange(k) /\ BufferChange(k)
  <2> DEFINE j == publisher[p][2]
  <2>1. /\ buffer' = [buffer EXCEPT ![j] = Feed!Last(Append(buffer[j], items[j] + 1), cap[j])]
        /\ UNCHANGED <<cap, rows, limit>>
    <3>1. publisher[p] \in Callers /\ publisher[p][1] = "append"
      BY <1>4 DEF Feed!AppendItem, Feed!At, WayInv, WayType
    <3>2. j \in Feeds
      BY <3>1 DEF Callers
    <3> QED BY <1>1, <1>4, <3>2 DEF Feed!AppendItem, Feed!shell
  <2> HIDE DEF j
  <2>2. ASSUME NEW k \in Feeds PROVE RowsChange(k) /\ BufferChange(k)
    BY <1>1, <2>1 DEF RowsChange, BufferChange
  <2> QED BY <2>2
<1>5. CASE Feed!Shutdown \/ Feed!DeliverReady \/ Feed!End
  BY <1>2, <1>5 DEF Feed!Shutdown, Feed!DeliverReady, Feed!End, Feed!events, Feed!shell
<1>6. ASSUME NEW j, buffer' = [buffer EXCEPT ![j] = <<>>], UNCHANGED <<cap, limit>>,
             rows' = rows \/ rows' = [rows EXCEPT ![j] = <<>>] \/ Feed!Receive(j)
      PROVE  \A k \in Feeds : RowsChange(k) /\ BufferChange(k)
  <2>1. ASSUME NEW k \in Feeds PROVE BufferChange(k)
    BY <1>1, <1>6 DEF BufferChange
  <2>2. ASSUME NEW k \in Feeds PROVE RowsChange(k)
    <3>1. CASE j = k
      <4>1. Feed!Receive(j) => rows'[k] = Feed!AppendBatch(rows[k], buffer[k], limit[k])
        BY <1>1, <3>1 DEF Feed!Receive
      <4> QED BY <1>1, <1>6, <3>1, <4>1 DEF RowsChange
    <3>2. CASE j # k
      BY <1>1, <1>6, <3>2 DEF RowsChange, Feed!Receive
    <3> QED BY <3>1, <3>2
  <2> QED BY <2>1, <2>2
<1>7. CASE Feed!RefreshProgress
  <2>1. Feed!Take("progress") /\ (rows' = rows \/ Feed!Receive("progress")) /\ UNCHANGED <<cap, limit>>
    BY <1>7 DEF Feed!RefreshProgress
  <2>2. buffer' = [buffer EXCEPT !["progress"] = <<>>]
    BY <2>1 DEF Feed!Take
  <2> QED BY <1>6, <2>1, <2>2
<1>8. CASE Feed!FlushLogs
  <2>1. UNCHANGED <<cap, limit>> /\ (UNCHANGED <<buffer, rows>> \/ (Feed!Take("log") /\ Feed!Receive("log")))
    BY <1>8 DEF Feed!FlushLogs
  <2>2. Feed!Take("log") => buffer' = [buffer EXCEPT !["log"] = <<>>]
    BY DEF Feed!Take
  <2> QED BY <1>2, <1>6, <2>1, <2>2
<1>9. CASE Feed!FlushComments
  <2>1. /\ UNCHANGED <<cap, limit>>
        /\ (UNCHANGED <<buffer, rows>> \/ (Feed!Take("comment") /\ Feed!Receive("comment")))
    BY <1>9 DEF Feed!FlushComments
  <2>2. Feed!Take("comment") => buffer' = [buffer EXCEPT !["comment"] = <<>>]
    BY DEF Feed!Take
  <2> QED BY <1>2, <1>6, <2>1, <2>2
<1>10. CASE Feed!ClearLogs
  <2>1. UNCHANGED <<cap, limit>> /\ (UNCHANGED <<buffer, rows>> \/ Feed!ClearKind("log"))
    BY <1>10 DEF Feed!ClearLogs
  <2>2. Feed!ClearKind("log") => buffer' = [buffer EXCEPT !["log"] = <<>>] /\ rows' = [rows EXCEPT !["log"] = <<>>]
    BY DEF Feed!ClearKind, Feed!Take
  <2> QED BY <1>2, <1>6, <2>1, <2>2
<1>11. CASE Feed!ClearComments
  <2>1. UNCHANGED <<cap, limit>> /\ (UNCHANGED <<buffer, rows>> \/ Feed!ClearKind("comment"))
    BY <1>11 DEF Feed!ClearComments
  <2>2. Feed!ClearKind("comment")
          => buffer' = [buffer EXCEPT !["comment"] = <<>>] /\ rows' = [rows EXCEPT !["comment"] = <<>>]
    BY DEF Feed!ClearKind, Feed!Take
  <2> QED BY <1>2, <1>6, <2>1, <2>2
<1>12. ASSUME NEW j, NEW n, Feed!LimitRows(j, n) \/ UNCHANGED <<rows, limit>> PROVE \A k \in Feeds : RowsChange(k)
  <2>1. ASSUME NEW k \in Feeds, Feed!LimitRows(j, n) PROVE RowsChange(k)
    <3>1. CASE j = k
      BY <1>1, <2>1, <3>1 DEF RowsChange, Feed!LimitRows
    <3>2. CASE j # k
      BY <1>1, <2>1, <3>2 DEF RowsChange, Feed!LimitRows
    <3> QED BY <3>1, <3>2
  <2> QED BY <1>12, <2>1 DEF RowsChange
<1>13. ASSUME NEW j, NEW n, Feed!LimitBuffer(j, n) \/ UNCHANGED <<buffer, cap>>
       PROVE  \A k \in Feeds : BufferChange(k)
  <2>1. ASSUME NEW k \in Feeds, Feed!LimitBuffer(j, n) PROVE BufferChange(k)
    <3>1. CASE j = k
      BY <1>1, <2>1, <3>1 DEF BufferChange, Feed!LimitBuffer
    <3>2. CASE j # k
      BY <1>1, <2>1, <3>2 DEF BufferChange, Feed!LimitBuffer
    <3> QED BY <3>1, <3>2
  <2> QED BY <1>13, <2>1 DEF BufferChange
<1>14. CASE Feed!Limit
  <2>1. PICK n \in FeedLimits : Feed!LimitRows("comment", n) \/ UNCHANGED <<rows, limit>>
    BY <1>14 DEF Feed!Limit
  <2>2. UNCHANGED <<buffer, cap>>
    BY <1>14 DEF Feed!Limit, Feed!events
  <2> QED BY <1>12, <1>13, <2>1, <2>2
<1>15. CASE Feed!LimitComments
  <2>1. (Feed!LimitBuffer("comment", want) \/ UNCHANGED <<buffer, cap>>) /\ UNCHANGED <<rows, limit>>
    BY <1>15 DEF Feed!LimitComments
  <2> QED BY <1>12, <1>13, <2>1
<1>16. CASE Feed!LimitLogs
  <2>1. /\ Feed!LimitBuffer("log", want) \/ UNCHANGED <<buffer, cap>>
        /\ Feed!LimitRows("log", want) \/ UNCHANGED <<rows, limit>>
    BY <1>16 DEF Feed!LimitLogs
  <2> QED BY <1>12, <1>13, <2>1
<1>17. CASE Feed!CloseEvents
  <2>1. buffer' = [k \in Feeds |-> <<>>] /\ UNCHANGED <<cap, rows, limit>>
    BY <1>17 DEF Feed!CloseEvents
  <2> QED BY <2>1 DEF RowsChange, BufferChange
<1> QED BY <1>3, <1>4, <1>5, <1>7, <1>8, <1>9, <1>10, <1>11, <1>14, <1>15, <1>16, <1>17 DEF Feed!Next, Feed!Gui

\* A thread that is about to append is one more, or one less.
LEMMA WritersCount ==
  ASSUME NEW k, NEW p \in {p1, p2}
  PROVE  /\ Cardinality(Writers(k)) \in Nat
         /\ Cardinality(Writers(k) \cup {p}) <= Cardinality(Writers(k)) + 1
         /\ Cardinality(Writers(k) \ {p})
              = IF p \in Writers(k) THEN Cardinality(Writers(k)) - 1 ELSE Cardinality(Writers(k))
<1>1. IsFiniteSet({p1, p2})
  <2>1. {p1, p2} = {p1} \cup {p2} /\ IsFiniteSet({p1}) /\ IsFiniteSet({p2})
    BY FS_Singleton
  <2> QED BY <2>1, FS_Union
<1>2. IsFiniteSet(Writers(k))
  BY <1>1, FS_Subset DEF Writers
<1> DEFINE W == Writers(k)
<1>3. IsFiniteSet(W) /\ Cardinality(W) \in Nat
  BY <1>2, FS_CardinalityType
<1> HIDE DEF W
<1>4. Cardinality(W \cup {p}) = IF p \in W THEN Cardinality(W) ELSE Cardinality(W) + 1
  BY <1>3, FS_AddElement
<1>5. Cardinality(W \ {p}) = IF p \in W THEN Cardinality(W) - 1 ELSE Cardinality(W)
  BY <1>3, FS_RemoveElement
<1>6. Cardinality(W \cup {p}) <= Cardinality(W) + 1
  BY <1>3, <1>4
<1> QED BY <1>3, <1>5, <1>6 DEF W

\* A step of the threads keeps the items within what is allowed.
LEMMA PublishedAllowed ==
  ASSUME ListType, WayType, ItemsAllowed, NEW p \in {p1, p2},
         (\E k \in Feeds : Feed!Publish(p, k)) \/ Feed!AppendItem(p) \/ Feed!Emit(p)
  PROVE  ItemsAllowed'
<1>1. items \in [Feeds -> Nat] /\ publisher \in [{p1, p2} -> Callers] /\ Items \in Nat
  BY DesktopAssumption DEF ListType, WayType, DesktopAssumption, Feed!FeedAssumption
<1>2. ASSUME NEW j \in Feeds, Feed!Publish(p, j), NEW k \in Feeds
      PROVE  items'[k] + Cardinality(Writers(k)') <= Items
  <2>1. /\ publisher[p][1] = "idle" /\ publisher' = [publisher EXCEPT ![p] = <<"append", j>>]
        /\ UNCHANGED items /\ Feed!Total[j] < Items
    BY <1>2 DEF Feed!Publish, Feed!At, Feed!Moves, Feed!bounds
  <2>2. CASE k = j
    <3>1. Writers(k)' = Writers(k) \cup {p}
      BY <1>1, <2>1, <2>2 DEF Writers
    <3>2. items[k] + Cardinality(Writers(k)) < Items
      BY <2>1, <2>2 DEF Feed!Total, Feed!Cardinality, Cardinality, Writers
    <3>3. items[k] \in Nat /\ Cardinality(Writers(k)) \in Nat
      BY <1>1, WritersCount
    <3>4. Cardinality(Writers(k) \cup {p}) <= Cardinality(Writers(k)) + 1
      BY WritersCount
    <3>5. Cardinality(Writers(k) \cup {p}) \in Nat
      <4>1. IsFiniteSet(Writers(k) \cup {p})
        <5>1. IsFiniteSet({p1} \cup {p2}) /\ Writers(k) \cup {p} \subseteq {p1} \cup {p2}
          BY FS_Singleton, FS_Union DEF Writers
        <5> QED BY <5>1, FS_Subset
      <4> QED BY <4>1, FS_CardinalityType
    <3> DEFINE c == Cardinality(Writers(k))
               d == Cardinality(Writers(k) \cup {p})
               n == items[k]
    <3>6. n \in Nat /\ c \in Nat /\ d \in Nat /\ d <= c + 1 /\ n + c < Items
      BY <3>2, <3>3, <3>4, <3>5
    <3> HIDE DEF c, d, n
    <3>7. n + d <= Items
      BY <1>1, <3>6
    <3> QED BY <2>1, <3>1, <3>7 DEF d, n
  <2>3. CASE k # j
    <3>1. <<"append", j>> # <<"append", k>> /\ publisher[p] # <<"append", k>>
      BY <2>1, <2>3
    <3>2. Writers(k)' = Writers(k)
      BY <1>1, <2>1, <3>1 DEF Writers
    <3> QED BY <2>1, <3>2 DEF ItemsAllowed
  <2> QED BY <2>2, <2>3
<1>3. ASSUME Feed!AppendItem(p), NEW k \in Feeds PROVE items'[k] + Cardinality(Writers(k)') <= Items
  <2>1. PICK j \in Feeds : publisher[p] = <<"append", j>>
    BY <1>1, <1>3 DEF Feed!AppendItem, Feed!At, Callers
  <2>2. /\ items' = [items EXCEPT ![j] = items[j] + 1]
        /\ publisher' = [publisher EXCEPT ![p] = <<"idle", "none">>]
             \/ publisher' = [publisher EXCEPT ![p] = <<"notify", j>>]
    BY <1>1, <1>3, <2>1 DEF Feed!AppendItem, Feed!Moves
  <2>3. Writers(k)' = Writers(k) \ {p}
    BY <1>1, <2>1, <2>2 DEF Writers
  <2>4. items[k] + Cardinality(Writers(k)) <= Items
    BY DEF ItemsAllowed
  <2>5. p \in Writers(k) <=> k = j
    BY <2>1 DEF Writers
  <2>6. items[k] \in Nat /\ Cardinality(Writers(k)) \in Nat
    BY <1>1, WritersCount
  <2>7. Cardinality(Writers(k) \ {p})
          = IF p \in Writers(k) THEN Cardinality(Writers(k)) - 1 ELSE Cardinality(Writers(k))
    BY WritersCount
  <2>8. items'[k] = IF k = j THEN items[k] + 1 ELSE items[k]
    BY <1>1, <2>2
  <2> DEFINE c == Cardinality(Writers(k))
             n == items[k]
  <2>9. n \in Nat /\ c \in Nat /\ n + c <= Items
    BY <2>4, <2>6
  <2>10. CASE k = j
    <3>1. items'[k] = n + 1 /\ Cardinality(Writers(k)') = c - 1
      BY <2>3, <2>5, <2>7, <2>8, <2>10
    <3> HIDE DEF c, n
    <3>2. (n + 1) + (c - 1) <= Items
      BY <1>1, <2>9
    <3> QED BY <3>1, <3>2
  <2>11. CASE k # j
    <3>1. items'[k] = n /\ Cardinality(Writers(k)') = c
      BY <2>3, <2>5, <2>7, <2>8, <2>11
    <3> QED BY <2>9, <3>1
  <2> QED BY <2>10, <2>11
<1>4. ASSUME Feed!Emit(p), NEW k \in Feeds PROVE items'[k] + Cardinality(Writers(k)') <= Items
  <2>1. /\ publisher[p][1] = "notify" /\ publisher' = [publisher EXCEPT ![p] = <<"idle", "none">>]
        /\ UNCHANGED items
    BY <1>4 DEF Feed!Emit, Feed!At, Feed!Moves, Feed!bounds
  <2>2. publisher[p] # <<"append", k>>
    BY <2>1
  <2>3. Writers(k)' = Writers(k)
    BY <1>1, <2>1, <2>2 DEF Writers
  <2> QED BY <2>1, <2>3 DEF ItemsAllowed
<1> QED BY <1>2, <1>3, <1>4 DEF ItemsAllowed

\* Every step of the feed keeps the types.
LEMMA FeedTyped ==
  ASSUME ListInv, WayInv, ListInv', FeedTypes, Feed!Next
  PROVE  FeedTypes'
<1>1. ListType /\ ListType' /\ WayType /\ ListsFit /\ ItemsAllowed
  BY DEF ListInv, WayInv, FeedTypes
<1>2. ListsFit'
  BY <1>1, ListsChange, ListsStayFit
<1>3. ItemsAllowed'
  <2>1. ASSUME UNCHANGED <<publisher, items>> PROVE ItemsAllowed'
    BY <1>1, <2>1 DEF ItemsAllowed, Writers
  <2>2. Feed!Gui \/ Feed!ClearLogs \/ Feed!Limit \/ Feed!Shutdown => UNCHANGED <<publisher, items>>
    BY DEF Feed!Gui, Feed!DeliverReady, Feed!RefreshProgress, Feed!FlushLogs, Feed!FlushComments, Feed!ClearComments,
           Feed!LimitComments, Feed!LimitLogs, Feed!End, Feed!CloseEvents, Feed!ClearLogs, Feed!Limit,
           Feed!Shutdown, Feed!bounds
  <2> QED BY <1>1, <2>1, <2>2, PublishedAllowed DEF Feed!Next
<1>4. /\ closed' = closed \/ closed' = TRUE
      /\ gui' = gui \/ gui' \in {"idle", "flush", "clear", "limit", "logs", "end"}
  <2>1. ASSUME NEW p \in {p1, p2}, (\E k \in Feeds : Feed!Publish(p, k)) \/ Feed!AppendItem(p) \/ Feed!Emit(p)
        PROVE  closed' = closed /\ gui' = gui
    BY <2>1 DEF Feed!Publish, Feed!AppendItem, Feed!Emit, Feed!events, Feed!shell
  <2>2. ASSUME Feed!ClearLogs \/ Feed!Limit \/ Feed!Shutdown
        PROVE  closed' = closed /\ (gui' = gui \/ gui' \in {"clear", "limit"})
    BY <2>2 DEF Feed!ClearLogs, Feed!Limit, Feed!Shutdown, Feed!events, Feed!shell
  <2>3. ASSUME Feed!Gui
        PROVE  (closed' = closed \/ closed' = TRUE) /\ (gui' = gui \/ gui' \in {"idle", "flush", "logs", "end"})
    BY <2>3 DEF Feed!Gui, Feed!DeliverReady, Feed!RefreshProgress, Feed!FlushLogs, Feed!FlushComments,
                Feed!ClearComments, Feed!LimitComments, Feed!LimitLogs, Feed!End, Feed!CloseEvents, Feed!events
  <2> QED BY <2>1, <2>2, <2>3 DEF Feed!Next
<1> QED BY <1>2, <1>3, <1>4 DEF FeedTypes

\* With the invariant of the feed they are the types of its variables.
LEMMA FeedTypesAre == ASSUME ListInv, WayInv, FeedTypes PROVE Feed!TypeOK
<1>1. ListType /\ WayType /\ Items \in Nat
  BY DesktopAssumption DEF ListInv, WayInv, DesktopAssumption, Feed!FeedAssumption
<1>2. ASSUME NEW k \in Feeds PROVE buffer[k] \in Seq(1 .. Items) /\ rows[k] \in Seq(1 .. Items)
  <2>1. InRow(rows[k], buffer[k], items[k])
    BY DEF ListInv, AllShow, Shows
  <2>2. buffer[k] \in Positive /\ rows[k] \in Positive
    BY DEF FeedTypes, ListsFit, Fits
  <2>3. items[k] \in Nat /\ items[k] <= Items
    <3>1. items[k] + Cardinality(Writers(k)) <= Items
      BY DEF FeedTypes, ItemsAllowed
    <3>2. items[k] \in Nat /\ Cardinality(Writers(k)) \in Nat
      BY <1>1, WritersCount DEF ListType
    <3> DEFINE c == Cardinality(Writers(k))
    <3>3. c \in Nat /\ items[k] + c <= Items
      BY <3>1, <3>2
    <3> HIDE DEF c
    <3> QED BY <1>1, <3>2, <3>3
  <2> DEFINE b == buffer[k]
             r == rows[k]
             N == items[k]
  <2>4. /\ Len(b) \in Nat /\ DOMAIN b = 1 .. Len(b) /\ Len(r) \in Nat /\ DOMAIN r = 1 .. Len(r)
        /\ \A i \in 1 .. Len(b) : b[i] \in Nat \ {0}
        /\ \A i \in 1 .. Len(r) : r[i] \in Nat \ {0}
    BY <2>2, LenProperties, ElementOfSeq DEF Positive
  <2>5. (\A i \in DOMAIN b : b[i] = N - Len(b) + i) /\ (\A i \in DOMAIN r : r[i] <= N - Len(b))
    BY <2>1 DEF InRow, EndsAt, UpTo
  <2>6. b \in Seq(Nat \ {0}) /\ r \in Seq(Nat \ {0}) /\ N \in Nat /\ N <= Items
    BY <2>2, <2>3 DEF Positive
  <2> HIDE DEF b, r, N
  <2>7. ASSUME NEW i \in 1 .. Len(b) PROVE b[i] \in 1 .. Items
    <3>1. b[i] = N - Len(b) + i /\ b[i] \in Nat \ {0}
      BY <2>4, <2>5
    <3> DEFINE m == Len(b)
               v == b[i]
    <3>2. m \in Nat /\ i \in 1 .. m /\ v = N - m + i /\ v \in Nat /\ v # 0
      BY <2>4, <2>7, <3>1
    <3> HIDE DEF m, v
    <3>3. v \in 1 .. Items
      BY <1>1, <2>6, <3>2
    <3> QED BY <3>3 DEF v
  <2>8. ASSUME NEW i \in 1 .. Len(r) PROVE r[i] \in 1 .. Items
    <3>1. r[i] <= N - Len(b) /\ r[i] \in Nat \ {0}
      BY <2>4, <2>5
    <3> QED BY <1>1, <2>4, <2>6, <3>1
  <2>9. b \in Seq(1 .. Items) /\ r \in Seq(1 .. Items)
    <3>1. b = [i \in 1 .. Len(b) |-> b[i]] /\ r = [i \in 1 .. Len(r) |-> r[i]]
      BY <2>4, <2>6, SeqDef
    <3>2. b \in [1 .. Len(b) -> 1 .. Items] /\ r \in [1 .. Len(r) -> 1 .. Items]
      BY <2>7, <2>8, <3>1
    <3> DEFINE m == Len(b)
               n == Len(r)
               S == 1 .. Items
    <3>3. m \in Nat /\ n \in Nat /\ b \in [1 .. m -> S] /\ r \in [1 .. n -> S]
      BY <2>4, <3>2
    <3> HIDE DEF m, n, S
    <3>4. b \in Seq(S)
      BY <3>3, SeqDef
    <3>5. r \in Seq(S)
      BY <3>3, SeqDef
    <3> QED BY <3>4, <3>5 DEF S
  <2> QED BY <2>9 DEF b, r
<1>3. buffer \in [Feeds -> Seq(1 .. Items)] /\ rows \in [Feeds -> Seq(1 .. Items)]
  BY <1>1, <1>2 DEF ListType
<1>4. \A k \in Feeds : Len(buffer[k]) <= cap[k] /\ Len(rows[k]) <= limit[k]
  BY DEF FeedTypes, ListsFit, Fits
<1>5. publisher \in [{p1, p2} -> {"idle", "append", "notify"} \X (Feeds \cup {"none"})]
  BY <1>1 DEF WayType, Callers
<1> QED BY <1>1, <1>3, <1>4, <1>5 DEF Feed!TypeOK, FeedTypes, ListType, WayType

-----------------------------------------------------------------------------
(***************************************************************************)
(* The types of the pictures.  Also after the end, when jobs are           *)
(* cancelled with their slots, a slot is taken for every job there is.     *)
(***************************************************************************)
Failures == Seq([key : Pictures, hot : BOOLEAN])
FailuresFit == failed \in Failures /\ Len(failed) <= MaxFailures
SlotsTaken == Len(queue) + Cardinality(Busy) <= slots /\ slots <= AvatarSlots
IconTypes == FailuresFit /\ SlotsTaken

\* The types of the pictures at the start.
LEMMA IconTypesStart == ASSUME Icons!Init PROVE IconTypes
<1>1. MaxFailures \in Nat \ {0} /\ AvatarSlots \in Nat \ {0}
  BY DesktopAssumption DEF DesktopAssumption, Icons!AvatarAssumption
<1>2. /\ failed = <<>> /\ slots = 0 /\ queue = <<>>
      /\ running = [w \in 1 .. MediaWorkers |-> Icons!Free]
  BY DEF Icons!Init
<1>3. <<>> \in Failures /\ Len(<<>>) = 0
  BY EmptySeq DEF Failures
<1>4. Busy = {}
  BY <1>2 DEF Busy
<1>5. Cardinality(Busy) = 0
  BY <1>4, FS_EmptySet
<1> QED BY <1>1, <1>2, <1>3, <1>5 DEF IconTypes, FailuresFit, SlotsTaken

\* A failure that is remembered, and one that cools.
LEMMA FailureFits ==
  ASSUME FailuresFit, NEW k \in Pictures, Icons!Fail(k)
  PROVE  FailuresFit'
<1> DEFINE new == [key |-> k, hot |-> TRUE]
           F == [key : Pictures, hot : BOOLEAN]
           m == Len(failed)
           mapped == [i \in 1 .. m |-> IF failed[i].key = k THEN new ELSE failed[i]]
           longer == Append(failed, new)
<1>1. MaxFailures \in Nat \ {0} /\ failed \in Seq(F) /\ m <= MaxFailures /\ new \in F
  BY DesktopAssumption DEF DesktopAssumption, Icons!AvatarAssumption, FailuresFit, Failures
<1>2. m \in Nat /\ \A i \in 1 .. m : failed[i] \in F
  BY <1>1, LenProperties, ElementOfSeq
<1>3. failed' = (IF Len(mapped) > MaxFailures THEN Tail(mapped) ELSE mapped)
        \/ failed' = (IF Len(longer) > MaxFailures THEN Tail(longer) ELSE longer)
  BY DEF Icons!Fail
<1> HIDE DEF F, new, m
<1>4. mapped \in Seq(F) /\ Len(mapped) = m
  <2>1. mapped \in [1 .. m -> F]
    BY <1>1, <1>2
  <2> HIDE DEF mapped
  <2>2. mapped \in Seq(F)
    BY <1>2, <2>1, SeqDef
  <2>3. DOMAIN mapped = 1 .. m
    BY <2>1
  <2> QED BY <1>2, <2>2, <2>3, LenProperties
<1>5. longer \in Seq(F) /\ Len(longer) = m + 1 /\ longer # <<>>
  <2>1. longer \in Seq(F) /\ Len(longer) = m + 1
    BY <1>1, AppendProperties DEF m
  <2> HIDE DEF longer
  <2>2. longer # <<>>
    BY <1>2, <2>1, EmptySeq
  <2> QED BY <2>1, <2>2
<1> HIDE DEF mapped, longer
<1>6. CASE failed' = (IF Len(mapped) > MaxFailures THEN Tail(mapped) ELSE mapped)
  <2>1. failed' = mapped
    BY <1>1, <1>4, <1>6 DEF m
  <2> QED BY <1>1, <1>4, <2>1 DEF FailuresFit, Failures, F, m
<1>7. CASE failed' = (IF Len(longer) > MaxFailures THEN Tail(longer) ELSE longer)
  <2>1. CASE Len(longer) > MaxFailures
    <3>1. Tail(longer) \in Seq(F) /\ Len(Tail(longer)) = m
      <4>1. Tail(longer) \in Seq(F) /\ Len(Tail(longer)) = Len(longer) - 1
        BY <1>5, HeadTailProperties
      <4> QED BY <1>2, <1>5, <4>1
    <3>2. failed' = Tail(longer)
      BY <1>7, <2>1
    <3> QED BY <1>1, <3>1, <3>2 DEF FailuresFit, Failures, F
  <2>2. CASE ~(Len(longer) > MaxFailures)
    <3>1. failed' = longer /\ m + 1 <= MaxFailures
      BY <1>1, <1>2, <1>5, <1>7, <2>2
    <3> QED BY <1>5, <3>1 DEF FailuresFit, Failures, F
  <2> QED BY <2>1, <2>2
<1> QED BY <1>3, <1>6, <1>7

\* Every step of the pictures remembers as many failures as are allowed.
LEMMA FailuresStayFit == ASSUME IconType, FailuresFit, Icons!Next PROVE FailuresFit'
<1>1. ASSUME UNCHANGED failed PROVE FailuresFit'
  BY <1>1 DEF FailuresFit
<1>2. ASSUME NEW k \in Pictures, NEW good, Icons!OnAvatar(k, good) PROVE FailuresFit'
  BY <1>1, <1>2, FailureFits DEF Icons!OnAvatar
<1>3. ASSUME NEW k \in Pictures, Icons!Request(k) \/ Icons!Refused(k) \/ Icons!Ignored(k) \/ Icons!Paint(k)
      PROVE  FailuresFit'
  BY <1>1, <1>2, <1>3 DEF Icons!Request, Icons!Refused, Icons!Ignored, Icons!Paint
<1>4. ASSUME NEW k \in Pictures, Icons!Cool(k) PROVE FailuresFit'
  <2> DEFINE old == [key |-> k, hot |-> FALSE]
             F == [key : Pictures, hot : BOOLEAN]
             m == Len(failed)
             mapped == [i \in 1 .. m |-> IF failed[i].key = k THEN old ELSE failed[i]]
  <2>1. failed \in Seq(F) /\ m <= MaxFailures /\ old \in F /\ failed' = mapped
    BY <1>4 DEF FailuresFit, Failures, Icons!Cool
  <2>2. m \in Nat /\ \A i \in 1 .. m : failed[i] \in F
    BY <2>1, LenProperties, ElementOfSeq
  <2> HIDE DEF F, old, m
  <2>3. mapped \in [1 .. m -> F]
    BY <2>1, <2>2
  <2> HIDE DEF mapped
  <2>4. mapped \in Seq(F) /\ DOMAIN mapped = 1 .. m
    BY <2>2, <2>3, SeqDef
  <2>5. Len(mapped) = m
    BY <2>2, <2>4, LenProperties
  <2> QED BY <2>1, <2>4, <2>5 DEF FailuresFit, Failures, F
<1>5. ASSUME NEW w \in 1 .. MediaWorkers, Icons!Work(w) PROVE FailuresFit'
  BY <1>1, <1>5 DEF Icons!Work, Icons!Begin, Icons!Complete, Icons!Release
<1>6. CASE Icons!Receive
  <2>1. received \in Seq(Answers) /\ received # <<>> /\ Icons!OnAvatar(Head(received)[1], Head(received)[2])
    BY <1>6 DEF Icons!Receive, IconType
  <2>2. Head(received) \in Answers
    BY <2>1, HeadTailProperties
  <2>3. Head(received)[1] \in Pictures
    BY <2>2 DEF Answers
  <2> QED BY <1>2, <2>1, <2>3
<1>7. ASSUME (\E n \in CacheLimits : Icons!SetLimit(n)) \/ Icons!Close \/ Icons!Cancel PROVE FailuresFit'
  BY <1>1, <1>7 DEF Icons!SetLimit, Icons!Close, Icons!Cancel
<1> QED BY <1>3, <1>4, <1>5, <1>6, <1>7 DEF Icons!Next

\* Every step of the pictures keeps a slot taken for every job.
LEMMA SlotsStayTaken == ASSUME IconType, SlotsTaken, Icons!Next PROVE SlotsTaken'
<1>1. /\ queue \in Seq(Pictures) /\ slots \in Int /\ Len(queue) \in Nat /\ AvatarSlots \in Nat
      /\ running \in [1 .. MediaWorkers -> Jobs]
  BY IconConstants, LenProperties DEF IconType, Albums
<1>2. Cardinality(Busy) \in Nat
  <2>1. 1 \in 1 .. MediaWorkers
    BY IconConstants
  <2> QED BY <2>1, BusyOf
<1> DEFINE c == Cardinality(Busy)
           n == Len(queue)
<1>3. c \in Nat /\ n \in Nat /\ n + c <= slots /\ slots <= AvatarSlots
  BY <1>1, <1>2 DEF SlotsTaken
<1> HIDE DEF c, n
<1>4. ASSUME UNCHANGED <<slots, queue, running>> PROVE SlotsTaken'
  BY <1>4 DEF SlotsTaken, Busy
<1>5. ASSUME NEW k \in Pictures, Icons!Request(k) PROVE SlotsTaken'
  <2>1. slots < AvatarSlots /\ slots' = slots + 1 /\ queue' = Append(queue, k) /\ UNCHANGED running
    BY <1>5 DEF Icons!Request
  <2>2. Len(queue') = n + 1
    BY <1>1, <2>1, AppendProperties DEF n
  <2>3. Cardinality(Busy') = c
    BY <2>1 DEF Busy, c
  <2>4. (n + 1) + c <= slots + 1 /\ slots + 1 <= AvatarSlots
    BY <1>1, <1>3, <2>1
  <2> QED BY <2>1, <2>2, <2>3, <2>4 DEF SlotsTaken
<1>6. ASSUME NEW k \in Pictures, Icons!Refused(k) \/ Icons!Ignored(k) \/ Icons!Paint(k) \/ Icons!Cool(k)
      PROVE  SlotsTaken'
  BY <1>4, <1>6 DEF Icons!Refused, Icons!Ignored, Icons!Paint, Icons!Cool, Icons!media
<1>7. ASSUME NEW w \in 1 .. MediaWorkers, Icons!Work(w) PROVE SlotsTaken'
  <2>1. Icons!Free[1] = "free"
    BY DEF Icons!Free
  <2>2. CASE Icons!Begin(w)
    <3>1. /\ queue # <<>> /\ running[w] = Icons!Free /\ queue' = Tail(queue) /\ UNCHANGED slots
          /\ running' = [running EXCEPT ![w] = <<"load", Head(queue)>>]
      BY <2>2 DEF Icons!Begin, Icons!Goes
    <3>2. Len(queue') = n - 1
      BY <1>1, <3>1, HeadTailProperties DEF n
    <3>3. <<"load", Head(queue)>> # Icons!Free
      BY DEF Icons!Free
    <3>4. Busy' = Busy \cup {w} /\ w \notin Busy
      BY <1>1, <3>1, <3>3 DEF Busy
    <3>5. Cardinality(Busy') = c + 1
      BY <3>4, BusyOf DEF c
    <3>6. (n - 1) + (c + 1) <= slots
      BY <1>1, <1>3
    <3> QED BY <1>3, <3>1, <3>2, <3>5, <3>6 DEF SlotsTaken
  <2>3. ASSUME NEW good \in BOOLEAN, Icons!Complete(w, good) PROVE SlotsTaken'
    <3>1. /\ running[w][1] = "load" /\ running' = [running EXCEPT ![w] = <<"release", running[w][2]>>]
          /\ UNCHANGED <<slots, queue>>
      BY <2>3 DEF Icons!Complete, Icons!Goes
    <3>2. <<"release", running[w][2]>> # Icons!Free /\ running[w] # Icons!Free
      BY <2>1, <3>1 DEF Icons!Free
    <3>3. Busy' = Busy
      BY <1>1, <3>1, <3>2 DEF Busy
    <3> QED BY <3>1, <3>3 DEF SlotsTaken
  <2>4. CASE Icons!Release(w)
    <3>1. /\ running[w][1] = "release" /\ running' = [running EXCEPT ![w] = Icons!Free] /\ slots' = slots - 1
          /\ UNCHANGED queue
      BY <2>4 DEF Icons!Release, Icons!Goes, Icons!ReleaseSlot
    <3>2. running[w] # Icons!Free
      BY <2>1, <3>1
    <3>3. Busy' = Busy \ {w} /\ w \in Busy
      BY <1>1, <3>1, <3>2 DEF Busy
    <3>4. Cardinality(Busy') = c - 1
      BY <3>3, BusyOf DEF c
    <3>5. n + (c - 1) <= slots - 1 /\ slots - 1 <= AvatarSlots
      BY <1>1, <1>3
    <3>6. Len(queue') = n
      BY <3>1 DEF n
    <3> QED BY <3>1, <3>4, <3>5, <3>6 DEF SlotsTaken
  <2> QED BY <1>7, <2>2, <2>3, <2>4 DEF Icons!Work
<1>8. CASE Icons!Receive \/ (\E q \in CacheLimits : Icons!SetLimit(q)) \/ Icons!Close
  BY <1>4, <1>8 DEF Icons!Receive, Icons!SetLimit, Icons!Close, Icons!media
<1>9. CASE Icons!Cancel
  <2>1. queue' = <<>> /\ UNCHANGED <<slots, running>>
    BY <1>9 DEF Icons!Cancel
  <2>2. Len(queue') = 0 /\ Cardinality(Busy') = c
    BY <2>1, EmptySeq DEF Busy, c
  <2>3. 0 + c <= slots
    BY <1>1, <1>3
  <2> QED BY <1>3, <2>1, <2>2, <2>3 DEF SlotsTaken
<1> QED BY <1>5, <1>6, <1>7, <1>8, <1>9 DEF Icons!Next

\* With the invariants of the pictures they are the types of its variables.
LEMMA IconTypesAre == ASSUME CacheInv, PlaceInv, IconTypes PROVE Icons!TypeOK
<1>1. IconType /\ images \in Seq(Pictures)
  BY DEF CacheInv, PlaceInv, Albums
<1>2. slots \in 0 .. AvatarSlots
  <2>1. Len(queue) \in Nat /\ slots \in Int /\ AvatarSlots \in Nat
    BY <1>1, IconConstants, LenProperties DEF IconType, Albums
  <2>2. Cardinality(Busy) \in Nat
    <3>1. 1 \in 1 .. MediaWorkers
      BY IconConstants
    <3> QED BY <1>1, <3>1, BusyOf
  <2> DEFINE c == Cardinality(Busy)
             n == Len(queue)
  <2>3. n \in Nat /\ c \in Nat /\ n + c <= slots /\ slots <= AvatarSlots
    BY <2>1, <2>2 DEF IconTypes, SlotsTaken
  <2> HIDE DEF c, n
  <2> QED BY <2>1, <2>3
<1>3. failed \in Seq([key : Pictures, hot : BOOLEAN]) /\ Len(failed) <= MaxFailures
  BY DEF IconTypes, FailuresFit, Failures
<1> QED BY <1>1, <1>2, <1>3 DEF Icons!TypeOK, IconType, Albums, Answers, Jobs

-----------------------------------------------------------------------------
(***************************************************************************)
(* The types of the desktop together.                                      *)
(***************************************************************************)
DesktopInv == MonitorInv /\ PopoutInv /\ DialogInv /\ StoreInv /\ FeedInv /\ IconInv

WindowTypes ==
  /\ part = "hasty" => PopoutTypes(0 .. Window)
  /\ part = "careful" => PopoutTypes(0 .. Shown)
DiskTypes ==
  /\ part = "file" => StoreTypes({p1}, File!Files, Crashes)
  /\ part = "two" => StoreTypes({p1, p2}, Two!Files, 2)
DesktopTypes ==
  /\ part \in Parts /\ WindowTypes /\ DiskTypes
  /\ part = "draft" => AnswerDue
  /\ part = "metrics" => MetricsTypes
  /\ part = "feed" => FeedTypes
  /\ part = "icons" => IconTypes

\* All the invariants of the parts hold in every state.
LEMMA DesktopInvariance == DesktopSpec => []DesktopInv
BY MonitorInvariance, PopoutInvariance, DialogInvariance, StoreInvariance, FeedInvariance, IconInvariance, PTL
   DEF DesktopInv

\* What the constants are.
LEMMA DesktopConstants ==
  /\ Parts \subseteq {"draft", "hasty", "careful", "file", "two", "metrics", "feed", "icons"}
  /\ Window \in Nat /\ Shown \in Nat /\ Crashes \in Nat /\ Metrics!MonitorAssumption
  /\ 0 \in 0 .. Window /\ 0 \in 0 .. Shown
<1>1. Window \in Nat /\ Shown \in Nat /\ Crashes \in Nat
  BY DesktopAssumption DEF DesktopAssumption, Hasty!PopoutAssumption, Careful!PopoutAssumption, File!StoreAssumption
<1>2. 0 \in 0 .. Window /\ 0 \in 0 .. Shown
  BY <1>1
<1> QED BY <1>1, <1>2, DesktopAssumption DEF DesktopAssumption

\* The types hold at the start.
LEMMA DesktopTypesStart == ASSUME DesktopInit PROVE DesktopTypes
<1>1. /\ part \in Parts /\ Init /\ Hasty!Init /\ Metrics!Init /\ Feed!Init /\ Icons!Init
      /\ IF part = "two" THEN Two!Init ELSE File!Init
  BY DEF DesktopInit, Starts
<1>2. WindowTypes
  BY <1>1, PopoutTypesStart, DesktopConstants DEF WindowTypes
<1>3. ASSUME part = "file" PROVE StoreTypes({p1}, File!Files, Crashes)
  <2>1. /\ original \in {File!NoDocument, File!Old, File!Current(0)}
        /\ content = [f \in File!Files |-> IF f = 1 THEN original ELSE File!NoDocument]
        /\ backup = File!NoDocument /\ owner = {} /\ saves = 0 /\ program = [p \in {p1} |-> File!NoProgram]
    BY <1>1, <1>3 DEF File!Init
  <2> QED BY <2>1, StoreTypesStart, DesktopConstants
<1>4. ASSUME part = "two" PROVE StoreTypes({p1, p2}, Two!Files, 2)
  <2>1. /\ original \in {File!NoDocument, File!Old, File!Current(0)}
        /\ content = [f \in Two!Files |-> IF f = 1 THEN original ELSE File!NoDocument]
        /\ backup = File!NoDocument /\ owner = {} /\ saves = 0 /\ program = [p \in {p1, p2} |-> File!NoProgram]
    <3>1. /\ Two!NoDocument = File!NoDocument /\ Two!Old = File!Old /\ Two!Current(0) = File!Current(0)
          /\ Two!NoProgram = File!NoProgram
      <4>1. Two!NoDocument = File!NoDocument
        BY DEF Two!NoDocument, File!NoDocument
      <4>2. Two!Old = File!Old
        BY DEF Two!Old, File!Old
      <4>3. Two!Current(0) = File!Current(0)
        BY DEF Two!Current, File!Current
      <4>4. Two!NoProgram = File!NoProgram
        BY DEF Two!NoProgram, File!NoProgram, Two!Nowhere, File!Nowhere
      <4> QED BY <4>1, <4>2, <4>3, <4>4
    <3>2. /\ original \in {Two!NoDocument, Two!Old, Two!Current(0)}
          /\ content = [f \in Two!Files |-> IF f = 1 THEN original ELSE Two!NoDocument]
          /\ backup = Two!NoDocument /\ owner = {} /\ saves = 0 /\ program = [p \in {p1, p2} |-> Two!NoProgram]
      BY <1>1, <1>4 DEF Two!Init
    <3> QED BY <3>1, <3>2
  <2>2. 2 \in Nat
    OBVIOUS
  <2> QED BY <2>1, <2>2, StoreTypesStart
<1>5. AnswerDue
  BY <1>1 DEF Init, AnswerDue
<1> QED BY <1>1, <1>2, <1>3, <1>4, <1>5, MetricsTypesStart, FeedTypesStart, IconTypesStart, DesktopConstants
      DEF DesktopTypes, DiskTypes

\* What does not run keeps the types of the part that does.
LEMMA DesktopTypesRest ==
  /\ UNCHANGED popoutVars /\ UNCHANGED part /\ WindowTypes => WindowTypes'
  /\ UNCHANGED fileVars /\ UNCHANGED part /\ DiskTypes => DiskTypes'
  /\ UNCHANGED vars /\ AnswerDue => AnswerDue'
  /\ UNCHANGED monitorVars /\ MetricsTypes => MetricsTypes'
  /\ UNCHANGED feedVars /\ FeedTypes => FeedTypes'
  /\ UNCHANGED avatarVars /\ IconTypes => IconTypes'
<1>1. UNCHANGED popoutVars /\ UNCHANGED part /\ WindowTypes => WindowTypes'
  BY DEF popoutVars, WindowTypes, PopoutTypes, PopoutIn
<1>2. UNCHANGED fileVars /\ UNCHANGED part /\ DiskTypes => DiskTypes'
  BY DEF fileVars, DiskTypes, StoreTypes
<1>3. UNCHANGED vars /\ AnswerDue => AnswerDue'
  BY DEF vars, form, AnswerDue, Of
<1>4. UNCHANGED monitorVars /\ MetricsTypes => MetricsTypes'
  BY DEF monitorVars, MetricsTypes, Waiting
<1>5. UNCHANGED feedVars /\ FeedTypes => FeedTypes'
  BY DEF feedVars, FeedTypes, ListsFit, ItemsAllowed, Writers
<1>6. UNCHANGED avatarVars /\ IconTypes => IconTypes'
  BY DEF avatarVars, IconTypes, FailuresFit, SlotsTaken, Busy
<1> QED BY <1>1, <1>2, <1>3, <1>4, <1>5, <1>6

\* A step of the window that runs.
LEMMA WindowTyped ==
  ASSUME WindowTypes, UNCHANGED part, (part = "hasty" /\ Hasty!Next) \/ (part = "careful" /\ Careful!Next)
  PROVE  WindowTypes'
<1>1. CASE part = "hasty" /\ Hasty!Next
  <2>1. PopoutTypes(0 .. Window) /\ moves \in 0 .. Window
    BY <1>1 DEF WindowTypes, PopoutTypes, PopoutIn
  <2>2. moves' \in 0 .. Window
    <3>1. moves \in Nat
      BY <2>1
    <3>2. moves' = moves \/ (moves' = moves + 1 /\ moves < Window)
      BY <1>1, <3>1, MovesCount
    <3> QED BY <2>1, <3>1, <3>2, DesktopConstants
  <2>3. PopoutTypes(0 .. Window)'
    BY <1>1, <2>1, <2>2, PopoutTypesKeep, DesktopConstants
  <2> QED BY <1>1, <2>3 DEF WindowTypes
<1>2. CASE part = "careful" /\ Careful!Next
  <2>1. PopoutTypes(0 .. Shown) /\ moves \in 0 .. Shown
    BY <1>2 DEF WindowTypes, PopoutTypes, PopoutIn
  <2>2. moves' \in 0 .. Shown
    <3>1. moves \in Nat
      BY <2>1
    <3>2. moves' = moves \/ (moves' = moves + 1 /\ moves < Shown)
      BY <1>2, <3>1, MovesCount
    <3> QED BY <2>1, <3>1, <3>2, DesktopConstants
  <2>3. PopoutTypes(0 .. Shown)'
    BY <1>2, <2>1, <2>2, PopoutTypesKeep, DesktopConstants
  <2> QED BY <1>2, <2>3 DEF WindowTypes
<1> QED BY <1>1, <1>2

\* Every step keeps the types.
LEMMA DesktopTyped ==
  ASSUME DesktopInv, DesktopInv', DesktopTypes,
         [DesktopNext]_<<part, vars, popoutVars, fileVars, monitorVars, feedVars, avatarVars>>
  PROVE  DesktopTypes'
<1>0. /\ MonitorInv /\ DialogInv /\ StoreInv /\ StoreInv' /\ FeedInv /\ FeedInv' /\ IconInv
      /\ part \in Parts /\ WindowTypes /\ DiskTypes
  BY DEF DesktopInv, DesktopTypes
<1>1. part' = part
  BY DEF DesktopNext
<1>2. WindowTypes'
  <2>1. (part = "hasty" /\ Hasty!Next) \/ (part = "careful" /\ Careful!Next) \/ UNCHANGED popoutVars
    BY DEF DesktopNext
  <2> QED BY <1>0, <1>1, <2>1, WindowTyped, DesktopTypesRest
<1>3. DiskTypes'
  <2>1. (part = "file" /\ File!Next) \/ (part = "two" /\ Two!Next) \/ UNCHANGED fileVars
    BY DEF DesktopNext
  <2>2. ASSUME part = "file", File!Next PROVE DiskTypes'
    <3>1. OneInv /\ OneInv' /\ StoreTypes({p1}, File!Files, Crashes)
      BY <1>0, <1>1, <2>2 DEF StoreInv, DiskTypes
    <3>2. StoreTypes({p1}, File!Files, Crashes)'
      BY <2>2, <3>1, OneFileTyped, DesktopConstants
    <3> QED BY <1>1, <2>2, <3>2 DEF DiskTypes
  <2>3. ASSUME part = "two", Two!Next PROVE DiskTypes'
    <3>1. TwoInv /\ TwoInv' /\ StoreTypes({p1, p2}, Two!Files, 2)
      BY <1>0, <1>1, <2>3 DEF StoreInv, DiskTypes
    <3>2. StoreTypes({p1, p2}, Two!Files, 2)'
      BY <2>3, <3>1, TwoFilesTyped
    <3> QED BY <1>1, <2>3, <3>2 DEF DiskTypes
  <2> QED BY <1>0, <1>1, <2>1, <2>2, <2>3, DesktopTypesRest
<1>4. ASSUME part = "draft" PROVE AnswerDue'
  <2>1. DraftInv /\ AnswerDue /\ (Next \/ UNCHANGED vars)
    BY <1>0, <1>4 DEF DesktopTypes, DialogInv, DesktopNext
  <2> QED BY <2>1, AnswerStaysDue, DesktopTypesRest
<1>5. ASSUME part = "metrics" PROVE MetricsTypes'
  <2>1. SampleInv /\ MetricsTypes /\ (Metrics!Next \/ UNCHANGED monitorVars)
    BY <1>0, <1>5 DEF DesktopTypes, MonitorInv, DesktopNext
  <2> QED BY <2>1, MetricsTyped, DesktopTypesRest, DesktopConstants
<1>6. ASSUME part = "feed" PROVE FeedTypes'
  <2>1. ListInv /\ WayInv /\ ListInv' /\ FeedTypes /\ (Feed!Next \/ UNCHANGED feedVars)
    BY <1>0, <1>1, <1>6 DEF DesktopTypes, FeedInv, DesktopNext
  <2> QED BY <2>1, FeedTyped, DesktopTypesRest
<1>7. ASSUME part = "icons" PROVE IconTypes'
  <2>1. IconType /\ IconTypes /\ (Icons!Next \/ UNCHANGED avatarVars)
    BY <1>0, <1>7 DEF DesktopTypes, IconInv, PlaceInv, DesktopNext
  <2>2. CASE Icons!Next
    BY <2>1, <2>2, FailuresStayFit, SlotsStayTaken DEF IconTypes
  <2> QED BY <2>1, <2>2, DesktopTypesRest
<1> QED BY <1>0, <1>1, <1>2, <1>3, <1>4, <1>5, <1>6, <1>7 DEF DesktopTypes

\* Every variable of the component that runs has its type (DesktopTypeOK, an
\* invariant of the run of MCDesktop): revisions and samples stay in their
\* order, a dialog that saves has one command or one answer under way, one
\* program at a time owns the dictionary, no buffer, list or memory of
\* failures exceeds its limit, and no slot is given back twice.
THEOREM DesktopIsTyped == DesktopSpec => []DesktopTypeOK
<1>1. ASSUME DesktopInv, DesktopTypes PROVE DesktopTypeOK
  <2>0. /\ MonitorInv /\ DialogInv /\ StoreInv /\ FeedInv /\ IconInv
        /\ part \in Parts /\ WindowTypes /\ DiskTypes
    BY <1>1 DEF DesktopInv, DesktopTypes
  <2>1. part = "draft" => TypeOK
    BY <1>1, <2>0, DraftTypesAre DEF DesktopTypes, DialogInv
  <2>2. part = "hasty" => Hasty!TypeOK
    BY <2>0, HastyTypesAre DEF WindowTypes
  <2>3. part = "careful" => Careful!TypeOK
    BY <2>0, CarefulTypesAre DEF WindowTypes
  <2>4. part = "file" => File!TypeOK
    BY <2>0, OneFileTypesAre DEF DiskTypes, StoreInv
  <2>5. part = "two" => Two!TypeOK
    BY <2>0, TwoFilesTypesAre DEF DiskTypes, StoreInv
  <2>6. part = "metrics" => Metrics!TypeOK
    BY <1>1, <2>0, MetricsTypesAre, DesktopConstants DEF DesktopTypes, MonitorInv
  <2>7. part = "feed" => Feed!TypeOK
    BY <1>1, <2>0, FeedTypesAre DEF DesktopTypes, FeedInv
  <2>8. part = "icons" => Icons!TypeOK
    BY <1>1, <2>0, IconTypesAre DEF DesktopTypes, IconInv
  <2>9. part \in {"draft", "hasty", "careful", "file", "two", "metrics", "feed", "icons"}
    BY <2>0, DesktopConstants
  <2> QED BY <2>1, <2>2, <2>3, <2>4, <2>5, <2>6, <2>7, <2>8, <2>9 DEF DesktopTypeOK
<1>2. DesktopInit => DesktopTypes
  BY DesktopTypesStart
<1>3. DesktopInv /\ DesktopInv' /\ DesktopTypes
        /\ [DesktopNext]_<<part, vars, popoutVars, fileVars, monitorVars, feedVars, avatarVars>> => DesktopTypes'
  BY DesktopTyped
<1>4. DesktopInv /\ DesktopTypes => DesktopTypeOK
  BY <1>1
<1> QED BY <1>2, <1>3, <1>4, DesktopInvariance, PTL DEF DesktopSpec
=============================================================================
