-------------------------- MODULE DictionaryEditor --------------------------
(***************************************************************************)
(* The dictionary page of the settings dialog: a table that holds a few    *)
(* blocks of rows (desktop/dictionary/model.py), the presenter that asks   *)
(* for them and sends the edits (desktop/dictionary/presenter.py), the one *)
(* worker that runs every operation on the draft in the order it was       *)
(* submitted, and the comments that teach readings to the same database.   *)
(*                                                                         *)
(* A block is one row.  Names of groups, the texts of a row but for one    *)
(* value, and the cursor that opens on an appended row are left out; a     *)
(* failing database is, too.  A message box is modal: what the handler     *)
(* does after it happens when it is dismissed, and results of the worker   *)
(* are delivered meanwhile.                                                *)
(***************************************************************************)
EXTENDS Integers, Sequences, FiniteSets, Functions, SequencesExt

CONSTANTS
  Homes,       \* the groups of the rows that the database starts with
  CacheBlocks, \* CACHE_BLOCKS
  Actions,     \* the operations of the buttons that the user tries
  MaxActs,     \* bound: what the user does in the dialogs
  MaxTaught,   \* bound: lessons of the comments
  MaxDialogs   \* bound: dialogs opened, and saves tried

AllActions == {"append", "delete", "import", "add_group", "rename_group", "delete_group"}

ASSUME EditorAssumption ==
  /\ Homes \in Seq(Nat \ {0}) /\ Homes # <<>> /\ CacheBlocks \in Nat \ {0}
  /\ Actions \subseteq AllActions
  /\ MaxActs \in Nat /\ MaxTaught \in Nat /\ MaxDialogs \in Nat

VARIABLES
  store,    \* the database and its one draft
  queue,    \* what the worker has still to do
  done,     \* results on their way to the GUI thread
  ui,       \* the presenter and the table
  alerts,   \* open message boxes, each with what its handler does after it
  count,    \* what the user and the comments have done
  typed     \* history: the last value the user gave a row, in this dialog

editorVars == <<store, queue, done, ui, alerts, count, typed>>

NoBlock == -1
NoGroup == 0
Nobody == 0
NoMap == [i \in {} |-> 0]

-----------------------------------------------------------------------------
(***************************************************************************)
(* The draft: rows of the database under the copies that were edited.      *)
(***************************************************************************)
RowOf(s, w) == IF w \in DOMAIN s.copy THEN s.copy[w] ELSE s.rows[w]
Ids(s) == DOMAIN s.rows \cup DOMAIN s.copy
Live(s, g) == {w \in Ids(s) : RowOf(s, w).group = g /\ ~RowOf(s, w).dead}

\* page: what block b of a group holds; an empty sequence past its end.
Page(s, g, b) ==
  LET at == {w \in Live(s, g) : Cardinality({v \in Live(s, g) : v < w}) = b}
  IN  IF at = {} THEN <<>>
      ELSE LET w == CHOOSE w \in at : TRUE
           IN  <<[id |-> w, version |-> RowOf(s, w).version, value |-> RowOf(s, w).value]>>

\* edit: the first edit of a row copies it, at the version it was read with;
\* and any edit but a delete brings a row back.
CanEdit(s, e) ==
  \/ e.id \in DOMAIN s.copy
  \/ e.id \in DOMAIN s.rows /\ s.rows[e.id].version = e.version
Edited(s, e, dead) ==
  LET row == [RowOf(s, e.id) EXCEPT !.value = e.value, !.dead = dead]
  IN  [s EXCEPT !.copy = [i \in DOMAIN s.copy \cup {e.id} |-> IF i = e.id THEN row ELSE s.copy[i]]]

Appended(s, g) ==
  LET row == [group |-> g, value |-> 0, version |-> -1, dead |-> FALSE]
  IN  [s EXCEPT !.last = @ + 1,
                !.copy = [i \in DOMAIN s.copy \cup {s.last + 1} |-> IF i > s.last THEN row ELSE s.copy[i]]]

\* What an operation of the buttons may leave; the same store when refused.
Mutations(s, j) ==
  CASE j.act = "append" -> {IF j.group \in s.listed THEN Appended(s, j.group) ELSE s}
    [] j.act = "import" -> {s, IF j.group \in s.listed THEN Appended(s, j.group) ELSE s}
    [] j.act = "delete" -> {IF CanEdit(s, j.entry) THEN Edited(s, j.entry, TRUE) ELSE s}
    [] j.act = "add_group" -> {s, [s EXCEPT !.listed = @ \cup {s.lastGroup + 1}, !.lastGroup = @ + 1]}
    [] j.act = "rename_group" -> {s}
    [] j.act = "delete_group" -> {IF j.group \in s.listed /\ Cardinality(s.listed) > 1
                                  THEN [s EXCEPT !.listed = @ \ {j.group}] ELSE s}

\* Renaming changes nothing here and succeeds or not; deleting a row twice
\* succeeds and changes nothing.
Refused(s, t, j) ==
  CASE j.act = "rename_group" -> {FALSE, j.group \notin s.listed}
    [] j.act = "delete" -> {~CanEdit(s, j.entry)}
    [] OTHER -> {t = s}

-----------------------------------------------------------------------------
(***************************************************************************)
(* Jobs of the worker.                                                     *)
(***************************************************************************)
NoEntry == [id |-> 0, version |-> 0, value |-> 0]
Job(kind) == [kind |-> kind, dialog |-> count.dialog, generation |-> 0, group |-> NoGroup,
              block |-> NoBlock, entry |-> NoEntry, act |-> "", selected |-> NoGroup, last |-> FALSE]
GroupsJob(selected, last) == [Job("groups") EXCEPT !.selected = selected, !.last = last]
PageJob(u) == [Job("page") EXCEPT !.generation = u.generation, !.group = u.group, !.block = u.pending.block]

NoPage == [generation |-> 0, block |-> NoBlock]
Fresh == [open |-> FALSE, draft |-> FALSE, busy |-> TRUE, saving |-> "no", writeError |-> FALSE,
          known |-> NoMap, combo |-> NoGroup, revision |-> -1, loaded |-> FALSE,
          group |-> NoGroup, rows |-> 0, generation |-> 0, requested |-> NoBlock, cache |-> <<>>,
          pageBusy |-> FALSE, pending |-> NoPage]

\* The cache is ordered by use, and holds a block once.
HasBlock(u, b) == \E i \in DOMAIN u.cache : u.cache[i].block = b
At(u, b) == CHOOSE i \in DOMAIN u.cache : u.cache[i].block = b
Cached(u, b) == u.cache[At(u, b)].rows
Others(u, b) == IF HasBlock(u, b) THEN RemoveAt(u.cache, At(u, b)) ELSE u.cache

EditorInit ==
  /\ store = [rows |-> [w \in DOMAIN Homes |-> [group |-> Homes[w], value |-> 0, version |-> 0, dead |-> FALSE]],
              groups |-> Range(Homes), revision |-> 0,
              owner |-> Nobody, copy |-> NoMap, listed |-> {}, last |-> Len(Homes), lastGroup |-> Cardinality(Range(Homes))]
  /\ queue = <<>> /\ done = <<>> /\ alerts = <<>> /\ ui = Fresh
  /\ count = [act |-> 0, taught |-> 0, dialog |-> 0, save |-> 0]
  /\ typed = NoMap

Counts(what, max) == count[what] < max /\ count' = [count EXCEPT ![what] = @ + 1]

-----------------------------------------------------------------------------
(***************************************************************************)
(* The worker.  Nothing is delivered to a dialog that has been closed.     *)
(***************************************************************************)
Answer(j, error) == [job |-> j, error |-> error, rows |-> <<>>, known |-> NoMap, revision |-> -1, added |-> NoGroup]

Reply(r) == done' = IF ui.open /\ r.job.dialog = count.dialog THEN Append(done, r) ELSE done

\* check(draft) and the operation.
Owned(j) == store.owner = j.dialog

DoBegin(j) ==
  /\ store' = IF store.owner # Nobody THEN store
              ELSE [store EXCEPT !.owner = j.dialog, !.copy = NoMap, !.listed = store.groups]
  /\ Reply(Answer(j, store.owner # Nobody))

DoGroups(j) ==
  /\ Reply([Answer(j, ~Owned(j)) EXCEPT !.revision = store.revision,
              !.known = [g \in store.listed |-> Cardinality(Live(store, g))]])
  /\ UNCHANGED store

DoPage(j) ==
  /\ Reply([Answer(j, ~Owned(j) \/ j.group \notin store.listed) EXCEPT !.revision = store.revision,
              !.rows = Page(store, j.group, j.block)])
  /\ UNCHANGED store

DoEdit(j) ==
  LET allowed == Owned(j) /\ CanEdit(store, j.entry)
  IN  /\ store' = IF allowed THEN Edited(store, j.entry, FALSE) ELSE store
      /\ Reply(Answer(j, ~allowed))

DoMutate(j) ==
  \E t \in IF Owned(j) THEN Mutations(store, j) ELSE {store} :
  \E refused \in IF Owned(j) THEN Refused(store, t, j) ELSE {TRUE} :
    /\ store' = t
    /\ Reply([Answer(j, refused) EXCEPT !.added = t.lastGroup])

DoFlush(j) == Reply(Answer(j, FALSE)) /\ UNCHANGED store

DoDiscard(j) ==
  /\ store' = IF Owned(j) THEN [store EXCEPT !.owner = Nobody, !.copy = NoMap, !.listed = {}] ELSE store
  /\ UNCHANGED done

Work ==
  /\ queue # <<>> /\ queue' = Tail(queue)
  /\ LET j == Head(queue)
     IN  \/ j.kind = "begin" /\ DoBegin(j)
         \/ j.kind = "groups" /\ DoGroups(j)
         \/ j.kind = "page" /\ DoPage(j)
         \/ j.kind = "edit" /\ DoEdit(j)
         \/ j.kind = "mutate" /\ DoMutate(j)
         \/ j.kind = "flush" /\ DoFlush(j)
         \/ j.kind = "discard" /\ DoDiscard(j)
  /\ UNCHANGED <<ui, alerts, count, typed>>

\* A comment teaches a word another reading; the draft does not hold it up.
Learn(w) ==
  /\ Counts("taught", MaxTaught) /\ w \in DOMAIN store.rows
  /\ store' = [store EXCEPT !.revision = @ + 1,
                            !.rows[w].version = @ + 1, !.rows[w].value = -count'.taught]
  /\ UNCHANGED <<queue, done, ui, alerts, typed>>

-----------------------------------------------------------------------------
(***************************************************************************)
(* Parts of the handlers of the GUI thread.                                *)
(***************************************************************************)
Controls(u, enabled) == [u EXCEPT !.busy = ~enabled]

\* _select and set_group
Selected(u, g) ==
  [u EXCEPT !.pending = NoPage, !.cache = <<>>, !.requested = NoBlock, !.generation = @ + 1,
            !.group = IF g \in DOMAIN u.known THEN g ELSE NoGroup,
            !.rows = IF g \in DOMAIN u.known THEN u.known[g] ELSE 0]

\* _pump_page: one page at a time, and the newest request.
Pumps(u) == ~u.pageBusy /\ u.pending # NoPage /\ u.draft /\ u.open /\ u.saving = "no"
Wanted(u) == Pumps(u) /\ u.pending.generation = u.generation /\ ~HasBlock(u, u.pending.block)
Pumped(u) == IF Pumps(u) THEN [u EXCEPT !.pending = NoPage, !.pageBusy = Wanted(u)] ELSE u
PumpJobs(u) == IF Wanted(u) THEN <<PageJob(u)>> ELSE <<>>

Settle(u, jobs) == ui' = Pumped(u) /\ queue' = queue \o jobs \o PumpJobs(u)

\* entry: the table asks once for a block it does not hold; _request_page.
Requests(u, b) == b < u.rows /\ ~HasBlock(u, b) /\ b # u.requested
Looked(u, b) ==
  IF HasBlock(u, b) THEN [u EXCEPT !.cache = Append(Others(u, b), [block |-> b, rows |-> Cached(u, b)])]
  ELSE IF ~Requests(u, b) THEN u
  ELSE IF u.saving # "no" \/ ~u.draft THEN [u EXCEPT !.requested = b]
  ELSE [u EXCEPT !.requested = b, !.pending = [generation |-> u.generation, block |-> b]]

\* receive: the oldest block goes when there are too many.  Mutant: none goes.
ReceivedAll(u, b, rows) ==
  [u EXCEPT !.requested = NoBlock, !.cache = Append(Others(u, b), [block |-> b, rows |-> rows])]
Received(u, b, rows) ==
  LET all == Append(Others(u, b), [block |-> b, rows |-> rows])
  IN  [u EXCEPT !.requested = NoBlock,
                !.cache = SubSeq(all, Len(all) - (IF Len(all) > CacheBlocks THEN CacheBlocks ELSE Len(all)) + 1, Len(all))]

Alert(after) == alerts' = Append(alerts, after)

-----------------------------------------------------------------------------
(***************************************************************************)
(* Results, delivered in the order the worker finished them.               *)
(***************************************************************************)
Begun(r) ==
  IF r.error
  THEN ui' = [ui EXCEPT !.writeError = TRUE] /\ Alert("nothing") /\ UNCHANGED queue
  ELSE /\ ui' = Controls([ui EXCEPT !.draft = TRUE], FALSE)
       /\ queue' = Append(queue, GroupsJob(ui.combo, FALSE))
       /\ UNCHANGED alerts

\* _refresh, received: the group that was selected, or else the first; the
\* first time, the one that the configuration names.
GroupsReceived(r) ==
  LET ids == DOMAIN r.known
      first == CHOOSE g \in ids : \A h \in ids : g <= h
      shown(g) == [Controls(ui, TRUE) EXCEPT !.known = r.known, !.revision = r.revision, !.combo = g]
      lastRow(u) == IF r.job.last /\ u.rows > 0 THEN Looked(u, u.rows - 1) ELSE u
  IN  IF r.error THEN ui' = Controls(ui, TRUE) /\ Alert("nothing") /\ UNCHANGED queue
      ELSE \E g \in IF r.job.selected \in ids THEN {r.job.selected}
                    ELSE IF r.job.selected = NoGroup THEN ids ELSE {first} :
             /\ IF ui.loaded THEN Settle(lastRow(Selected(shown(g), g)), <<>>)
                ELSE ui' = shown(g) /\ UNCHANGED queue
             /\ UNCHANGED alerts

\* _pump_page, received: a page of an earlier generation is dropped, one of
\* another revision has everything listed again.  Mutants: the generation is
\* not compared; a dropped page leaves the table waiting for it.
PageOfAnyGeneration(r) ==
  LET u == [ui EXCEPT !.pageBusy = FALSE]
  IN  IF r.error THEN ui' = u /\ Alert("pump") /\ UNCHANGED queue
      ELSE Settle(Received(u, r.job.block, r.rows), <<>>) /\ UNCHANGED alerts
PageKeepsBusy(r) ==
  \/ r.job.generation # ui.generation /\ UNCHANGED <<ui, queue, alerts>>
  \/ r.job.generation = ui.generation /\ PageOfAnyGeneration(r)
PageReceived(r) ==
  LET u == [ui EXCEPT !.pageBusy = FALSE]
      current == r.job.generation = ui.generation
  IN  \/ ~current /\ Settle(u, <<>>) /\ UNCHANGED alerts
      \/ current /\ r.error /\ ui' = u /\ Alert("pump") /\ UNCHANGED queue
      \/ /\ current /\ ~r.error /\ r.revision # ui.revision
         /\ Settle(Controls(u, FALSE), <<GroupsJob(r.job.group, FALSE)>>) /\ UNCHANGED alerts
      \/ /\ current /\ ~r.error /\ r.revision = ui.revision
         /\ Settle(Received(u, r.job.block, r.rows), <<>>) /\ UNCHANGED alerts

EditReceived(r) ==
  /\ IF r.error THEN ui' = [ui EXCEPT !.writeError = TRUE] /\ Alert("refresh") ELSE UNCHANGED <<ui, alerts>>
  /\ UNCHANGED queue

\* Mutant: the buttons stay off when the operation is refused.
MutateKeepsBusy(r) ==
  IF r.error THEN Alert("nothing") /\ UNCHANGED <<ui, queue>>
  ELSE /\ ui' = Controls(ui, FALSE) /\ UNCHANGED alerts
       /\ queue' = Append(queue, GroupsJob(r.job.group, FALSE))
MutateReceived(r) ==
  IF r.error THEN ui' = Controls(ui, TRUE) /\ Alert("nothing") /\ UNCHANGED queue
  ELSE /\ ui' = Controls(ui, FALSE)
       /\ queue' = Append(queue, GroupsJob(IF r.job.act = "add_group" THEN r.added ELSE r.job.group,
                                           r.job.act = "append"))
       /\ UNCHANGED alerts

\* resume: the buttons as they were, and what is shown is asked for again.
Resumed(u) == [u EXCEPT !.saving = "no", !.requested = NoBlock]

\* The barrier is through: complete.  Mutants: a failed edit is forgotten; a
\* refused save leaves the dialog off.
FlushForgets(r) ==
  /\ ui' = [ui EXCEPT !.saving = "commit"] /\ UNCHANGED <<alerts, queue>>
FlushStaysOff(r) ==
  /\ IF ui.writeError \/ ~ui.draft
     THEN Alert("nothing") /\ UNCHANGED ui
     ELSE ui' = [ui EXCEPT !.saving = "commit"] /\ UNCHANGED alerts
  /\ UNCHANGED queue
FlushReceived(r) ==
  /\ IF ui.writeError \/ ~ui.draft
     THEN ui' = Resumed(ui) /\ Alert("nothing")
     ELSE ui' = [ui EXCEPT !.saving = "commit"] /\ UNCHANGED alerts
  /\ UNCHANGED queue

Deliver ==
  /\ done # <<>> /\ done' = Tail(done)
  /\ LET r == Head(done)
     IN  \/ r.job.kind = "begin" /\ Begun(r)
         \/ r.job.kind = "groups" /\ GroupsReceived(r)
         \/ r.job.kind = "page" /\ PageReceived(r)
         \/ r.job.kind = "edit" /\ EditReceived(r)
         \/ r.job.kind = "mutate" /\ MutateReceived(r)
         \/ r.job.kind = "flush" /\ FlushReceived(r)
  /\ UNCHANGED <<store, count, typed>>

\* The box on top is dismissed, and its handler goes on.
Dismiss ==
  /\ ui.open /\ alerts # <<>> /\ alerts' = Front(alerts)
  /\ \/ Last(alerts) = "nothing" /\ UNCHANGED <<ui, queue>>
     \/ Last(alerts) = "pump" /\ Settle(ui, <<>>)
     \/ /\ Last(alerts) = "refresh" /\ ui' = Controls(ui, FALSE)
        /\ queue' = Append(queue, GroupsJob(ui.combo, FALSE))
  /\ UNCHANGED <<store, done, count, typed>>

-----------------------------------------------------------------------------
(***************************************************************************)
(* The user.                                                               *)
(***************************************************************************)
Idle == ui.open /\ ui.saving = "no" /\ alerts = <<>>

OpenDialog ==
  /\ ~ui.open /\ Counts("dialog", MaxDialogs)
  /\ ui' = [Fresh EXCEPT !.open = TRUE]
  /\ queue' = Append(queue, [Job("begin") EXCEPT !.dialog = count'.dialog])
  /\ typed' = NoMap
  /\ UNCHANGED <<store, done, alerts>>

\* The dictionary page is shown: _action, load.
ShowPage ==
  /\ Idle /\ ~ui.loaded
  /\ LET u == [ui EXCEPT !.loaded = TRUE]
     IN  ui' = IF u.draft /\ u.known # NoMap /\ u.group # u.combo THEN Selected(u, u.combo) ELSE u
  /\ UNCHANGED <<store, queue, done, alerts, count, typed>>

\* A row is painted, whatever else goes on: data, entry.
Paint(b) ==
  /\ ui.open /\ ui.loaded /\ Requests(ui, b)
  /\ Settle(Looked(ui, b), <<>>)
  /\ UNCHANGED <<store, done, alerts, count, typed>>

\* on_group_changed: _action, select.
SelectGroup(g) ==
  /\ Idle /\ ~ui.busy /\ ui.loaded /\ g \in DOMAIN ui.known /\ g # ui.combo /\ Counts("act", MaxActs)
  /\ ui' = Selected([ui EXCEPT !.combo = g], g)
  /\ UNCHANGED <<store, queue, done, alerts, typed>>

\* setData and _edit.
EditCell(b) ==
  /\ Idle /\ ~ui.busy /\ HasBlock(ui, b) /\ Cached(ui, b) # <<>> /\ Counts("act", MaxActs)
  /\ LET e == [Cached(ui, b)[1] EXCEPT !.value = count'.act]
     IN  /\ ui' = [ui EXCEPT !.cache = Append(Others(ui, b), [block |-> b, rows |-> <<e>>])]
         /\ queue' = Append(queue, [Job("edit") EXCEPT !.entry = e])
         /\ typed' = [w \in DOMAIN typed \cup {e.id} |-> IF w = e.id THEN e.value ELSE typed[w]]
  /\ UNCHANGED <<store, done, alerts>>

\* _action, for the buttons: the entry of a delete is the row as it is shown.
Act(act, b) ==
  /\ Idle /\ ~ui.busy /\ ui.draft /\ ui.combo # NoGroup /\ Counts("act", MaxActs)
  /\ act = "delete" => HasBlock(ui, b) /\ Cached(ui, b) # <<>>
  /\ act # "delete" => b = 0
  /\ ui' = Controls(ui, FALSE)
  /\ queue' = Append(queue, [Job("mutate") EXCEPT !.act = act, !.group = ui.combo,
                             !.entry = IF act = "delete" THEN Cached(ui, b)[1] ELSE NoEntry])
  /\ UNCHANGED <<store, done, alerts, typed>>

\* _save and flush: the barrier behind every edit.
Save ==
  /\ Idle /\ ~ui.busy /\ Counts("save", MaxDialogs)
  /\ ui' = [ui EXCEPT !.saving = "flush", !.pending = NoPage]
  /\ queue' = Append(queue, Job("flush"))
  /\ UNCHANGED <<store, done, alerts, typed>>

Conflict == \E w \in DOMAIN store.copy : w \in DOMAIN store.rows /\ store.copy[w].version # store.rows[w].version

\* The settings are saved and the draft is committed; close(True).
Committed ==
  /\ ui.saving = "commit" /\ ~Conflict
  /\ LET kept == {w \in Ids(store) : ~RowOf(store, w).dead /\ RowOf(store, w).group \in store.listed}
         bump(w) == IF w \in DOMAIN store.copy THEN [RowOf(store, w) EXCEPT !.version = @ + 1] ELSE store.rows[w]
     IN  store' = [store EXCEPT !.rows = [w \in kept |-> bump(w)], !.groups = store.listed,
                                !.revision = @ + 1, !.owner = Nobody, !.copy = NoMap, !.listed = {}]
  /\ ui' = Fresh /\ done' = <<>> /\ alerts' = <<>>
  /\ UNCHANGED <<queue, count, typed>>

\* A conflict, or the settings cannot be saved: resume.
NotCommitted ==
  /\ ui.saving = "commit"
  /\ ui' = Resumed(ui) /\ Alert("nothing")
  /\ UNCHANGED <<store, queue, done, count, typed>>

\* Cancel: close(False).  Mutant: a draft that is not known yet is not
\* discarded.
CancelKnown ==
  /\ Idle
  /\ ui' = Fresh /\ done' = <<>>
  /\ queue' = IF ui.draft THEN Append(queue, Job("discard")) ELSE queue
  /\ UNCHANGED <<store, alerts, count, typed>>
Cancel ==
  /\ Idle
  /\ ui' = Fresh /\ done' = <<>>
  /\ queue' = Append(queue, Job("discard"))
  /\ UNCHANGED <<store, alerts, count, typed>>

Blocks == 0 .. Len(Homes) + MaxActs

EditorNext ==
  \/ Work \/ Deliver \/ Dismiss
  \/ \E w \in DOMAIN Homes : Learn(w)
  \/ OpenDialog \/ ShowPage \/ Save \/ Committed \/ NotCommitted \/ Cancel
  \/ \E b \in Blocks : Paint(b) \/ EditCell(b)
  \/ \E g \in DOMAIN ui.known : SelectGroup(g)
  \/ \E act \in Actions, b \in Blocks : Act(act, b)

EditorSpec == EditorInit /\ [][EditorNext]_editorVars

(***************************************************************************)
(* The worker and the GUI thread run, a save has an outcome, the user      *)
(* dismisses boxes, and a visible row is painted again (resume and every   *)
(* reset of the table update the view).                                    *)
(***************************************************************************)
Outcome == Committed \/ NotCommitted
Fairness ==
  /\ WF_editorVars(Work) /\ WF_editorVars(Deliver) /\ WF_editorVars(Dismiss) /\ WF_editorVars(Outcome)
  /\ WF_editorVars(Paint(0))

LiveSpec == EditorSpec /\ Fairness

-----------------------------------------------------------------------------
Kinds == {"begin", "groups", "page", "edit", "mutate", "flush", "discard"}

\* The shape of the state, and the bound of the table.
EditorTypeOK ==
  /\ store.owner \in 0 .. MaxDialogs /\ DOMAIN store.rows \subseteq 1 .. store.last
  /\ \A i \in DOMAIN queue : queue[i].kind \in Kinds
  /\ \A i \in DOMAIN done : done[i].job.kind \in Kinds \ {"discard"}
  /\ ui.saving \in {"no", "flush", "commit"} /\ Len(ui.cache) <= CacheBlocks
  /\ \A i \in DOMAIN alerts : alerts[i] \in {"nothing", "pump", "refresh"}

\* Work that will change the draft or have the table filled again.
Alters(kind) == kind \in {"edit", "mutate", "groups"}
Quiet ==
  /\ \A i \in DOMAIN queue : ~Alters(queue[i].kind)
  /\ \A i \in DOMAIN done : ~Alters(done[i].job.kind)
  /\ \A i \in DOMAIN alerts : alerts[i] # "refresh"

\* When nothing is under way, what the table shows is the draft: every block
\* holds the row that is there in the selected group, as it stands, but for
\* what comments have taught since the table was filled.
ShownIsDraft ==
  ui.open /\ Quiet => \A i \in DOMAIN ui.cache :
    LET c == ui.cache[i]
        p == Page(store, ui.group, c.block)
    IN  IF c.rows = <<>> THEN p = <<>>
        ELSE /\ p # <<>> /\ p[1].id = c.rows[1].id
             /\ p[1].version = c.rows[1].version => p[1].value = c.rows[1].value

\* No dialog is refused the draft because the one before still has it: its
\* discard or its commit comes first.
DraftIsFree == \A i \in DOMAIN done : done[i].job.kind = "begin" => ~done[i].error

\* The draft is what the dialog shows, and it is the dialog's.
TableIsDraft == ShownIsDraft /\ DraftIsFree

\* What is committed is what was typed: every cell has the last value that
\* the user gave it, or its row or group has been deleted.
TypedIsCommitted ==
  [][\A w \in DOMAIN typed :
       Committed => \/ w \notin DOMAIN store'.rows
                    \/ store'.rows[w].value = typed[w]]_editorVars

\* The buttons come back after every operation, while the dialog is open and
\* has its draft.
ControlsReturn == ui.draft /\ ui.busy ~> ~ui.busy \/ ~ui.open

\* A row that is visible is filled in, unless the table loses it.
RowArrives == ui.open /\ ui.loaded /\ ui.rows > 0 ~> HasBlock(ui, 0) \/ ui.rows = 0 \/ ~ui.open \/ ui.saving # "no"

\* A save is answered: the dialog closes or can be used again.
SaveIsAnswered == ui.saving # "no" ~> ui.saving = "no"

\* The dialog answers: its controls, its rows and its save.
DialogAnswers == ControlsReturn /\ RowArrives /\ SaveIsAnswered
=============================================================================
