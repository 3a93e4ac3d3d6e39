------------------------------ MODULE MCDesktop ------------------------------
(***************************************************************************)
(* The desktop: the dialog of the settings, the comment window, the        *)
(* settings file, the monitor, the feed of comments and the avatars, one   *)
(* of them at a time: part names the one that runs while the others stay   *)
(* as they start.  They share no variable, so the states are those of      *)
(* each, side by side, and a property speaks of the one that runs.         *)
(***************************************************************************)
EXTENDS SettingsDraft, TLC

CONSTANTS
  Parts,                 \* which of the components run
  p1, p2,                \* programs, and threads that publish
  nothing, every,        \* what may be measured
  Window, Shown,         \* bounds of the comment window, see Popout
  Crashes,               \* bound: saves, crashes and errors of the settings file
  Views,                 \* bound: changes of the view
  Feeds, Items, Changes, \* what is published, how much, changes of the limit
  FeedLimits, FeedLimit, \* the limits there are, and the first one
  Pictures, PictureCost, \* addresses of pictures, and what each costs
  AvatarSlots, MediaWorkers, CacheLimits, MaxFailures, \* see Avatars
  Fetches                \* bound: requests of pictures

VARIABLES
  part,
  record, orders, echoes, created, window, visible, geometry, delay, sheet, left, moves, given, confirmed,
  original, file, temp, content, backup, program, owner, saves, crashes, faults,
  request, revision, sampleRevision, updates, catalog, stored, lock, wake, closing, shutdown,
  collector, monitor, due, notice, notices, view, scheduled, screen, shown, unread, asks, changed,
  buffer, pending, cap, closed, publisher, signals, timer, gui, want, rows, limit, ending,
  items, changes, cleared, raised,
  wanted, failed, images, bytes, quota, slots, queue, running, received, ended, steps

popoutVars ==
  <<record, orders, echoes, created, window, visible, geometry, delay, sheet, left, moves, given, confirmed>>
fileVars == <<original, file, temp, content, backup, program, owner, saves, crashes, faults>>
monitorVars ==
  <<request, revision, sampleRevision, updates, catalog, stored, lock, wake, closing, shutdown,
    collector, monitor, due, notice, notices, view, scheduled, screen, shown, unread, asks, changed>>
feedVars ==
  <<buffer, pending, cap, closed, publisher, signals, timer, gui, want, rows, limit, ending,
    items, changes, cleared, raised>>
avatarVars == <<wanted, failed, images, bytes, quota, slots, queue, running, received, ended, steps>>

\* A user who does everything at once, and one who waits for every save and
\* leaves the window alone while the dialog is open.
Hasty == INSTANCE Popout WITH
  MaxSteps <- Window, Waits <- FALSE, Apart <- FALSE,
  saved <- record, commands <- orders, news <- echoes, dialog <- sheet,
  closed <- left, timer <- delay, steps <- moves
Careful == INSTANCE Popout WITH
  MaxSteps <- Shown, Waits <- TRUE, Apart <- TRUE,
  saved <- record, commands <- orders, news <- echoes, dialog <- sheet,
  closed <- left, timer <- delay, steps <- moves

\* A program that crashes, and two programs where an open file stays.
File == INSTANCE ConfigStore WITH
  Programs <- {p1}, Windows <- FALSE, config <- file,
  MaxSaves <- Crashes, MaxCrashes <- Crashes, MaxFaults <- Crashes
Two == INSTANCE ConfigStore WITH
  Programs <- {p1, p2}, Windows <- TRUE, config <- file,
  MaxSaves <- 2, MaxCrashes <- 0, MaxFaults <- 0

Metrics == INSTANCE Monitor WITH
  Suspended <- nothing, Requests <- {nothing, every}, MaxViews <- Views, MaxFailed <- 1,
  changes <- updates, pending <- notice, news <- notices, gui <- screen, count <- changed

\* Two threads, so that one publishes between the append and the signal of
\* the other; the runs have limits smaller than the number of items.
Feed == INSTANCE CommentFeed WITH
  Publishers <- {p1, p2}, Kinds <- Feeds, MaxItems <- Items, Limits <- FeedLimits, FirstLimit <- FeedLimit,
  MaxChanges <- Changes, count <- items

\* The runs have three addresses over two slots and two workers, and the
\* largest picture does not fit into the smaller cache.
OneByOne == [k \in Pictures |-> k]
Icons == INSTANCE Avatars WITH
  Keys <- Pictures, Cost <- PictureCost, Slots <- AvatarSlots, Workers <- MediaWorkers, Limits <- CacheLimits,
  MaxFailed <- MaxFailures, MaxSteps <- Fetches,
  pending <- wanted, limit <- quota, signals <- received, closing <- ended

ASSUME DesktopAssumption ==
  /\ Parts \subseteq {"draft", "hasty", "careful", "file", "two", "metrics", "feed", "icons"}
  /\ Hasty!PopoutAssumption /\ Careful!PopoutAssumption /\ File!StoreAssumption /\ Two!StoreAssumption
  /\ Metrics!MonitorAssumption /\ Feed!FeedAssumption /\ Icons!AvatarAssumption

\* The threads that publish are alike; so are the two programs.
Symmetry == Permutations({p1, p2})

\* A component that does not run has but one initial state.
Starts(parts) ==
  /\ part \in parts
  /\ Init /\ Hasty!Init /\ Metrics!Init /\ Feed!Init /\ Icons!Init
  /\ IF part = "two" THEN Two!Init ELSE File!Init
  /\ part \in {"file", "two"} \/ original = File!NoDocument
  /\ part = "icons" \/ quota = CHOOSE n \in CacheLimits : TRUE
DesktopInit == Starts(Parts)

DesktopNext ==
  /\ UNCHANGED part
  /\ \/ /\ part = "draft" /\ Next
        /\ UNCHANGED <<popoutVars, fileVars, monitorVars, feedVars, avatarVars>>
     \/ /\ part = "hasty" /\ Hasty!Next
        /\ UNCHANGED <<vars, fileVars, monitorVars, feedVars, avatarVars>>
     \/ /\ part = "careful" /\ Careful!Next
        /\ UNCHANGED <<vars, fileVars, monitorVars, feedVars, avatarVars>>
     \/ /\ part = "file" /\ File!Next
        /\ UNCHANGED <<vars, popoutVars, monitorVars, feedVars, avatarVars>>
     \/ /\ part = "two" /\ Two!Next
        /\ UNCHANGED <<vars, popoutVars, monitorVars, feedVars, avatarVars>>
     \/ /\ part = "metrics" /\ Metrics!Next
        /\ UNCHANGED <<vars, popoutVars, fileVars, feedVars, avatarVars>>
     \/ /\ part = "feed" /\ Feed!Next
        /\ UNCHANGED <<vars, popoutVars, fileVars, monitorVars, avatarVars>>
     \/ /\ part = "icons" /\ Icons!Next
        /\ UNCHANGED <<vars, popoutVars, fileVars, monitorVars, feedVars>>

DesktopSpec ==
  DesktopInit
  /\ [][DesktopNext]_<<part, vars, popoutVars, fileVars, monitorVars, feedVars, avatarVars>>

\* The fairness that each module states, for the component that runs.
FairParts ==
  /\ WF_vars(part = "draft" /\ Save) /\ WF_vars(part = "draft" /\ Deliver)
  /\ WF_fileVars(part = "file" /\ File!Steps(p1)) /\ WF_fileVars(part = "file" /\ File!Start(p1))
  /\ WF_monitorVars(part = "metrics" /\ Metrics!Observe)
  /\ WF_monitorVars(part = "metrics" /\ Metrics!Complete)
  /\ WF_monitorVars(part = "metrics" /\ Metrics!Shutdown)
  /\ WF_monitorVars(part = "metrics" /\ Metrics!Deliver)
  /\ WF_monitorVars(part = "metrics" /\ Metrics!Acknowledge)
  /\ SF_monitorVars(part = "metrics" /\ Metrics!Read)
  /\ SF_monitorVars(part = "metrics" /\ Metrics!UpdateRequest)
  /\ WF_feedVars(part = "feed" /\ Feed!Gui)
  /\ \A p \in {p1, p2} : WF_feedVars(part = "feed" /\ (Feed!AppendItem(p) \/ Feed!Emit(p)))
  /\ WF_avatarVars(part = "icons" /\ Icons!Receive)
  /\ \A w \in 1 .. MediaWorkers : WF_avatarVars(part = "icons" /\ Icons!Work(w))

-----------------------------------------------------------------------------
\* Every variable of the component that runs has its type.
DesktopTypeOK ==
  CASE part = "draft" -> TypeOK
    [] part = "hasty" -> Hasty!TypeOK
    [] part = "careful" -> Careful!TypeOK
    [] part = "file" -> File!TypeOK
    [] part = "two" -> Two!TypeOK
    [] part = "metrics" -> Metrics!TypeOK
    [] part = "feed" -> Feed!TypeOK
    [] part = "icons" -> Icons!TypeOK

\* Whatever plugins save while the dialog is open, an edit stays, is saved,
\* and takes nothing with it that it did not touch.
EditsAreSaved == part = "draft" => EditStays /\ EditIsSaved /\ OneSaveSurvives

\* What the comment window shows is what is saved, and for a user who takes
\* one step at a time nothing is lost.
WindowIsSaved ==
  /\ part = "hasty" => Hasty!ShownIsSaved
  /\ part = "careful" => Careful!NothingLost

\* The settings file is whole and what the program works with, and what it
\* was before its conversion can be had back, whatever crashes and fails.
FileIsSafe ==
  /\ part = "file" => File!ConfigIsWhole /\ File!BackupIsOriginal /\ File!MemoryIsFile
  /\ part = "two" => Two!ConfigIsWhole

\* A measurement is of what is visible, and gets there.
MetricsAreCurrent == part = "metrics" => Metrics!SampleIsForRequest /\ Metrics!NoticeIsComing

\* No comment is stuck, lost or out of order, and no picture is fetched
\* twice, forgotten or miscounted.
FeedIsComplete ==
  /\ part = "feed" => Feed!NothingStranded /\ Feed!NewestAreShown /\ Feed!InOrder
  /\ part = "icons" => Icons!PendingIsInFlight /\ Icons!SlotsConserved /\ Icons!BytesAgree

\* The monitor is silent after the end.
EndIsLast == Metrics!CompletedIsLast

\* Saves are answered, the program starts after a crash, what is visible is
\* measured and displayed, the monitor ends, comments are shown and pictures
\* arrive.
PartsGetOn ==
  /\ part = "draft" => SaveAnswered
  /\ part = "file" => File!StartSucceeds
  /\ part = "metrics" => Metrics!ViewIsShown /\ Metrics!CatalogIsAnswered /\ Metrics!Completes
  /\ part = "feed" => Feed!Taken
  /\ part = "icons" => Icons!Answered
=============================================================================
