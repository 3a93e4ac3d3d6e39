------------------------------ MODULE Dictionary ------------------------------
(***************************************************************************)
(* The reading dictionary (native/src/dictionary): groups of rows in a     *)
(* database, one draft that the settings dialog edits, lessons that        *)
(* comments teach meanwhile, and the published snapshot that every         *)
(* utterance is read with.  Every operation holds the lock of the store    *)
(* and is one transaction, so it is one action; the dialog, the comments   *)
(* and the end of the program interleave in any order.                     *)
(*                                                                         *)
(* A row's part of speech and comment are left out: they travel with the   *)
(* reading.  An operation that is refused changes nothing and has no step. *)
(***************************************************************************)
EXTENDS Integers, FiniteSets, Functions

CONSTANTS
  Words, Readings,   \* what rows may hold besides the empty string
  Names,             \* the names of groups
  Default, Lessons,  \* the first group, and the group of the comments
  MaxGroups,         \* bound: group identifiers
  MaxRows,           \* bound: row identifiers
  MaxTouched,        \* bound: groups and rows that one draft touches
  MaxRevision        \* bound: revisions

Blank == ""

ASSUME DictionaryAssumption ==
  /\ Blank \notin Words /\ Blank \notin Readings
  /\ Default \in Names /\ Lessons \in Names /\ Default # Lessons
  /\ MaxGroups \in Nat \ {0} /\ MaxRows \in Nat /\ MaxTouched \in Nat /\ MaxRevision \in Nat

VARIABLES
  groups,        \* id -> name and version
  rows,          \* id -> group, word, reading and version
  lastGroup, lastRow,   \* the last identifiers given out (AUTOINCREMENT)
  draft,         \* a draft is open; a call for an earlier one is refused
  draftGroups,   \* id -> name, base version, changed, deleted
  draftRows,     \* id -> group, base version, word, reading, deleted
  latest,        \* the snapshot: revision, and the reading of each word
  taught         \* history: rows taught since the open draft listed their group

base == <<groups, rows, lastGroup, lastRow>>
edits == <<draft, draftGroups, draftRows>>
vars == <<base, edits, latest, taught>>

NoRows == [i \in {} |-> Blank]

\* A table over another one, and a table with one entry set.
Over(f, g) == [i \in DOMAIN f \cup DOMAIN g |-> IF i \in DOMAIN f THEN f[i] ELSE g[i]]
With(f, id, x) == [i \in DOMAIN f \cup {id} |-> IF i = id THEN x ELSE f[i]]

NoReading == Blank

\* The row that decides how a word is read: in the group with the largest
\* identifier, the row with the largest identifier.
Decides(table, i) ==
  \A j \in DOMAIN table : table[j].word = table[i].word =>
    \/ table[j].group < table[i].group
    \/ table[j].group = table[i].group /\ j <= i

Deciding(table, word) == {i \in DOMAIN table : table[i].word = word /\ Decides(table, i)}

\* effective_reading
Effective(table, word) ==
  IF Deciding(table, word) = {} THEN NoReading
  ELSE table[CHOOSE i \in Deciding(table, word) : TRUE].reading

Init ==
  /\ groups = [i \in {1} |-> [name |-> Default, version |-> 0]] /\ rows = NoRows
  /\ lastGroup = 1 /\ lastRow = 0
  /\ draft = FALSE
  /\ draftGroups = NoRows /\ draftRows = NoRows
  /\ latest = [revision |-> 0, reading |-> [w \in Words |-> NoReading]]
  /\ taught = {}

-----------------------------------------------------------------------------
(***************************************************************************)
(* The draft.                                                              *)
(***************************************************************************)
\* The groups a draft starts from, or lists later.
Listed(ids) == [g \in ids |-> [name |-> groups[g].name, base |-> groups[g].version,
                               changed |-> FALSE, deleted |-> FALSE]]

Begin ==
  /\ ~draft /\ draft' = TRUE
  /\ draftGroups' = Listed(DOMAIN groups) /\ draftRows' = NoRows
  /\ UNCHANGED <<base, latest, taught>>

\* groups: the dialog lists the groups, those taught meanwhile included.
List ==
  LET new == DOMAIN groups \ DOMAIN draftGroups
  IN  /\ draft /\ new # {}
      /\ draftGroups' = Over(draftGroups, Listed(new))
      /\ taught' = {i \in taught : i \in DOMAIN rows /\ rows[i].group \notin new}
      /\ UNCHANGED <<base, draft, draftRows, latest>>

\* The next, negative, identifier.  (Those of an import that was undone are
\* not given out again, which nobody can tell.)
NextId == -1 - Cardinality({i \in DOMAIN draftGroups \cup DOMAIN draftRows : i < 0})

Open == {g \in DOMAIN draftGroups : ~draftGroups[g].deleted}

Free(name) == \A g \in Open : draftGroups[g].name # name

NewGroup(name) == [name |-> name, base |-> -1, changed |-> TRUE, deleted |-> FALSE]

AddGroup(name) ==
  /\ draft /\ Free(name)
  /\ draftGroups' = With(draftGroups, NextId, NewGroup(name))
  /\ UNCHANGED <<base, draft, draftRows, latest, taught>>

RenameGroup(g, name) ==
  /\ draft /\ g \in Open /\ \A h \in Open \ {g} : draftGroups[h].name # name
  /\ draftGroups' = [draftGroups EXCEPT ![g].name = name, ![g].changed = TRUE]
  /\ UNCHANGED <<base, draft, draftRows, latest, taught>>

\* The last group is not deleted.  Mutant: deleted groups count as well.
AnyLeft == Cardinality(DOMAIN draftGroups) > 1
OtherLeft == Cardinality(Open) > 1

DeleteGroup(g) ==
  /\ draft /\ g \in Open /\ OtherLeft
  /\ draftGroups' = [draftGroups EXCEPT ![g].deleted = TRUE, ![g].changed = TRUE]
  /\ UNCHANGED <<base, draft, draftRows, latest, taught>>

NewRow(g, word, reading) ==
  [group |-> g, base |-> -1, word |-> word, reading |-> reading, deleted |-> FALSE]

\* A row is appended: a blank one to be filled in, or one of an imported file.
AppendRow(g, word, reading) ==
  /\ draft /\ g \in Open
  /\ draftRows' = With(draftRows, NextId, NewRow(g, word, reading))
  /\ UNCHANGED <<base, draft, draftGroups, latest, taught>>

\* An imported file names a new group and holds one row for it.  (Longer
\* files repeat this; a bad row undoes the whole file.)
ImportGroup(name, word, reading) ==
  /\ draft /\ Free(name)
  /\ draftGroups' = With(draftGroups, NextId, NewGroup(name))
  /\ draftRows' = With(draftRows, NextId - 1, NewRow(NextId, word, reading))
  /\ UNCHANGED <<base, draft, latest, taught>>

\* The rows a draft of a group shows, and so the rows the dialog can edit.
Shown(g) ==
  {i \in DOMAIN rows \ DOMAIN draftRows : rows[i].group = g}
  \cup {i \in DOMAIN draftRows : draftRows[i].group = g /\ ~draftRows[i].deleted}

Copied(i) == [group |-> rows[i].group, base |-> rows[i].version,
              word |-> rows[i].word, reading |-> rows[i].reading, deleted |-> FALSE]

\* edit: the first edit copies the row, unless its version has moved on.
Drafted(i) == IF i \in DOMAIN draftRows THEN draftRows[i] ELSE Copied(i)

Edit(i, row) ==
  /\ draft /\ draftRows' = With(draftRows, i, row)
  /\ UNCHANGED <<base, draft, draftGroups, latest, taught>>

Discard ==
  /\ draft /\ draft' = FALSE /\ draftGroups' = NoRows /\ draftRows' = NoRows /\ taught' = {}
  /\ UNCHANGED <<base, latest>>

-----------------------------------------------------------------------------
(***************************************************************************)
(* commit, one transaction.                                                *)
(***************************************************************************)
\* First what comes to nothing is removed from the draft.
Unrenamed(g) == /\ g \in DOMAIN groups /\ ~draftGroups[g].deleted
                /\ draftGroups[g].name = groups[g].name

TidyGroups ==
  [g \in {h \in DOMAIN draftGroups : ~(h < 0 /\ draftGroups[h].deleted)} |->
     IF Unrenamed(g) THEN [draftGroups[g] EXCEPT !.changed = FALSE] ELSE draftGroups[g]]

\* Mutant: the readings are not compared.
SameWord(i) ==
  /\ i \in DOMAIN rows /\ ~draftRows[i].deleted
  /\ draftRows[i].word = rows[i].word
Unedited(i) == SameWord(i) /\ draftRows[i].reading = rows[i].reading

ComesToNothing(i) ==
  LET d == draftRows[i]
  IN  \/ d.group < 0 /\ draftGroups[d.group].deleted
      \/ i < 0 /\ (d.deleted \/ d.word = Blank)
      \/ Unedited(i)

TidyRows == Restrict(draftRows, {i \in DOMAIN draftRows : ~ComesToNothing(i)})

\* Mutants: nobody looks whether a group, or a row, was changed meanwhile.
AnyGroup == FALSE
GroupConflict ==
  \E g \in DOMAIN TidyGroups : g > 0 /\
    \/ TidyGroups[g].changed /\ (g \notin DOMAIN groups \/ groups[g].version # TidyGroups[g].base)
    \/ ~TidyGroups[g].deleted /\ g \notin DOMAIN groups

AnyRow == FALSE
RowConflict ==
  \E i \in DOMAIN TidyRows : i > 0 /\
    (i \notin DOMAIN rows \/ rows[i].version # TidyRows[i].base)

Unread ==
  \E i \in DOMAIN TidyRows :
    /\ ~TidyRows[i].deleted /\ TidyRows[i].word # Blank /\ TidyRows[i].reading = Blank
    /\ TidyRows[i].group \in Open

Removed == {g \in DOMAIN TidyGroups : TidyGroups[g].deleted}

\* Words whose reading may change.  Mutants: those of deleted groups are left
\* out; an edited row counts under the word it gets, not the one it had.
AffectedRows ==
  {rows[i].word : i \in DOMAIN rows \cap DOMAIN TidyRows}
  \cup {TidyRows[i].word : i \in DOMAIN TidyRows}
AffectedNow ==
  {TidyRows[i].word : i \in DOMAIN TidyRows}
  \cup {rows[i].word : i \in {j \in DOMAIN rows : rows[j].group \in Removed}}
Affected == AffectedRows \cup AffectedNow

\* Mutant: deleting a group does not count as a change.
RowsChanged == TidyRows # NoRows
Changed == TidyRows # NoRows \/ \E g \in DOMAIN TidyGroups : TidyGroups[g].changed

\* New groups and rows get their identifiers in the order they were made.
Rank(i, new) == Cardinality({j \in new : j >= i})
AddedGroups == {g \in DOMAIN TidyGroups : g < 0}
Place(g) == IF g > 0 THEN g ELSE lastGroup + Rank(g, AddedGroups)

KeptGroups == DOMAIN groups \ Removed
Bumps(g) == (IF g \in DOMAIN TidyGroups /\ TidyGroups[g].changed THEN 1 ELSE 0)
            + (IF \E i \in DOMAIN TidyRows : TidyRows[i].group = g THEN 1 ELSE 0)
KeptGroup(g) == [name |-> IF g \in DOMAIN TidyGroups THEN TidyGroups[g].name ELSE groups[g].name,
                 version |-> groups[g].version + Bumps(g)]
AddedGroup(g) == [name |-> TidyGroups[g].name, version |-> 0]
SavedGroups ==
  Over([g \in KeptGroups |-> KeptGroup(g)],
       [id \in {Place(g) : g \in AddedGroups} |-> AddedGroup(CHOOSE g \in AddedGroups : Place(g) = id)])

NewRows == {i \in DOMAIN TidyRows : i < 0 /\ TidyRows[i].group \in Open}
RowPlace(i) == lastRow + Rank(i, NewRows)

\* Rows go with their group (ON DELETE CASCADE).  Mutant: they do not.
EditedRows == {i \in DOMAIN TidyRows : ~TidyRows[i].deleted /\ TidyRows[i].word # Blank}
Undeleted == {i \in DOMAIN rows : i \in DOMAIN TidyRows => i \in EditedRows}
KeptRows == {i \in Undeleted : rows[i].group \notin Removed}

KeptRow(i) == IF i \in EditedRows
              THEN [rows[i] EXCEPT !.word = TidyRows[i].word, !.reading = TidyRows[i].reading,
                                   !.version = @ + 1]
              ELSE rows[i]
AddedRow(i) == [group |-> Place(TidyRows[i].group), word |-> TidyRows[i].word,
                reading |-> TidyRows[i].reading, version |-> 0]
SavedRows ==
  Over([i \in KeptRows |-> KeptRow(i)],
       [id \in {RowPlace(i) : i \in NewRows} |-> AddedRow(CHOOSE i \in NewRows : RowPlace(i) = id)])

\* The snapshot after the words given have been looked up again.
Published(table, words) ==
  [revision |-> latest.revision + 1,
   reading  |-> [w \in Words |-> IF w \in words THEN Effective(table, w) ELSE latest.reading[w]]]

DistinctNames(table) ==
  \A g, h \in DOMAIN table : table[g].name = table[h].name => g = h

Commit ==
  /\ draft /\ draft' = FALSE /\ draftGroups' = NoRows /\ draftRows' = NoRows /\ taught' = {}
  /\ latest.revision < MaxRevision /\ lastRow + Cardinality(NewRows) <= MaxRows
  /\ ~GroupConflict /\ ~RowConflict /\ ~Unread
  /\ DistinctNames(SavedGroups)
  /\ groups' = SavedGroups /\ rows' = SavedRows
  /\ lastGroup' = lastGroup + Cardinality(AddedGroups)
  /\ lastGroup' <= MaxGroups
  /\ lastRow' = lastRow + Cardinality(NewRows)
  /\ latest' = IF Changed THEN Published(SavedRows, Affected) ELSE latest

-----------------------------------------------------------------------------
(***************************************************************************)
(* educate: a comment teaches a reading, or with NoReading forgets it.     *)
(***************************************************************************)
LessonGroup == IF \E g \in DOMAIN groups : groups[g].name = Lessons
               THEN CHOOSE g \in DOMAIN groups : groups[g].name = Lessons
               ELSE lastGroup + 1

WithLessons ==
  IF LessonGroup \in DOMAIN groups THEN groups
  ELSE With(groups, LessonGroup, [name |-> Lessons, version |-> 0])

Educate(word, reading) ==
  LET old == {i \in DOMAIN rows : rows[i].group = LessonGroup /\ rows[i].word = word}
      known == \/ reading = NoReading /\ old = {}
               \/ \E i \in old : old = {i} /\ rows[i].reading = reading
      kept == Restrict(rows, DOMAIN rows \ old)
      new == lastRow + 1
      lesson == [group |-> LessonGroup, word |-> word, reading |-> reading, version |-> 0]
  IN  /\ LessonGroup <= MaxGroups
      /\ lastGroup' = IF LessonGroup > lastGroup THEN LessonGroup ELSE lastGroup
      /\ IF known
         THEN groups' = WithLessons /\ UNCHANGED <<rows, lastRow, latest, taught>>
         ELSE /\ latest.revision < MaxRevision
              /\ groups' = [WithLessons EXCEPT ![LessonGroup].version = @ + 1]
              /\ IF reading = NoReading
                 THEN rows' = kept /\ UNCHANGED <<lastRow, taught>>
                 ELSE /\ new <= MaxRows /\ lastRow' = new
                      /\ rows' = With(kept, new, lesson)
                      /\ taught' = IF draft THEN taught \cup {new} ELSE taught
              /\ latest' = Published(rows', {word})
      /\ UNCHANGED edits

\* The program ends, in whatever way, and starts again: the draft is lost and
\* the snapshot is built from the rows in their order.
Restart ==
  /\ draft' = FALSE /\ draftGroups' = NoRows /\ draftRows' = NoRows
  /\ latest' = [latest EXCEPT !.reading = [w \in Words |-> Effective(rows, w)]]
  /\ taught' = {}
  /\ UNCHANGED base

\* What a draft touches, bounded.
Touched == Cardinality(DOMAIN draftRows)
           + Cardinality({g \in DOMAIN draftGroups : draftGroups[g].changed})

Editing ==
  \/ List \/ Discard \/ Commit
  \/ \E name \in Names :
       \/ AddGroup(name) \/ \E g \in Open : RenameGroup(g, name)
       \/ \E word \in Words, reading \in Readings : ImportGroup(name, word, reading)
  \/ \E g \in Open :
       \/ DeleteGroup(g) \/ AppendRow(g, Blank, Blank)
       \/ \E word \in Words, reading \in Readings : AppendRow(g, word, reading)
       \/ \E i \in Shown(g) :
            \/ Edit(i, [Drafted(i) EXCEPT !.deleted = TRUE])
            \/ \E word \in Words \cup {Blank}, reading \in Readings \cup {Blank} :
                 Edit(i, [Drafted(i) EXCEPT !.word = word, !.reading = reading])

Next ==
  \/ Begin \/ Restart
  \/ Editing /\ Touched' <= MaxTouched
  \/ \E word \in Words, reading \in Readings \cup {NoReading} : Educate(word, reading)

Spec == Init /\ [][Next]_vars

-----------------------------------------------------------------------------
(***************************************************************************)
(* Properties.                                                             *)
(***************************************************************************)
\* Every variable has its type; rows are in groups that exist.
TypeOK ==
  /\ DOMAIN groups \subseteq 1..lastGroup /\ DOMAIN rows \subseteq 1..lastRow
  /\ \A g \in DOMAIN groups : groups[g].name \in Names /\ groups[g].version \in Nat
  /\ \A i \in DOMAIN rows :
       /\ rows[i].group \in DOMAIN groups
       /\ rows[i].word \in Words /\ rows[i].reading \in Readings /\ rows[i].version \in Nat
  /\ lastGroup \in 0..MaxGroups /\ lastRow \in 0..MaxRows
  /\ draft \in BOOLEAN /\ NextId \in (-MaxTouched - 1)..(-1)
  /\ DOMAIN draftGroups \subseteq 1..lastGroup \cup (NextId + 1)..(-1)
  /\ DOMAIN draftRows \subseteq 1..lastRow \cup (NextId + 1)..(-1)
  /\ latest.revision \in 0..MaxRevision
  /\ latest.reading \in [Words -> Readings \cup {NoReading}]
  /\ taught \subseteq 1..lastRow

\* The snapshot says for every word what the rows say, although commit and
\* educate look up only the words they believe to be affected.
SnapshotAgrees == \A w \in Words : latest.reading[w] = Effective(rows, w)

\* There is always a group, and names are distinct: what the draft was asked
\* to keep cannot have gone when it is committed.
GroupsSound == groups # NoRows /\ DistinctNames(groups)

\* The snapshot and the groups agree with the tables.
TablesSound == SnapshotAgrees /\ GroupsSound

\* What the dialog showed is what a commit saves, whatever was taught and
\* forgotten while it was open.
Content(table, ids) ==
  {<<table[i].word, table[i].reading>> : i \in {j \in ids : table[j].word # Blank}}
ShownContent(g) == Content(rows, Shown(g) \ DOMAIN draftRows)
                   \cup Content(draftRows, Shown(g) \cap DOMAIN draftRows)
SavesWhatIsShown ==
  Commit => \A g \in Open :
    LET id == Place(g)
    IN  /\ id \in DOMAIN groups' /\ groups'[id].name = draftGroups[g].name
        /\ Content(rows', {i \in DOMAIN rows' : rows'[i].group = id}) = ShownContent(g)

\* A commit never takes away a lesson that was taught after the draft listed
\* its group, neither with its group nor under a row edited before; a lesson
\* edited in the draft itself is the user's to change.
KeepsLessons ==
  Commit => \A i \in taught \cap DOMAIN rows :
    i \notin DOMAIN draftRows => i \in DOMAIN rows' /\ rows'[i] = rows[i]

\* The revision moves with the rows: a page of rows that carries the current
\* revision is never out of date.
RevisionMoves == rows' # rows => latest'.revision > latest.revision

\* What a step may never do: a commit saves what the dialog shows, keeps what
\* was taught beside it, and is noticed (native/src/dictionary/draft.rs:290-400).
Faithful == SavesWhatIsShown /\ KeepsLessons /\ RevisionMoves
=============================================================================
