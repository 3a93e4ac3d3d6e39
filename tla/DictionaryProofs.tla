-------------------------- MODULE DictionaryProofs --------------------------
(***************************************************************************)
(* Proofs about the reading dictionary, for every value of its constants:  *)
(* the tables keep their shape, the snapshot says what the rows say, and a *)
(* commit is faithful to what the dialog showed and to what was taught     *)
(* beside it.                                                              *)
(***************************************************************************)
EXTENDS MCDictionary, FiniteSetTheorems, TLAPS

-----------------------------------------------------------------------------
(***************************************************************************)
(* The inductive invariant.  Identifiers of the tables are never given out *)
(* again, and those of the draft are -1, -2, ... without a gap.  What the  *)
(* draft holds is based on a version that the table had; a group in which  *)
(* something was taught since it was listed has a later one, so that a     *)
(* draft that deletes it is refused.                                       *)
(***************************************************************************)
Groups == [name : Names, version : Nat]
Rows(ids) == [group : ids, word : Words, reading : Readings, version : Nat]
DraftGroups == [name : Names, base : Int, changed : BOOLEAN, deleted : BOOLEAN]
DraftRows == [group : Int, base : Int, word : Words \cup {Blank},
              reading : Readings \cup {Blank}, deleted : BOOLEAN]
Snapshots == [revision : Nat, reading : [Words -> Readings \cup {NoReading}]]

TablesType ==
  /\ lastGroup \in Nat /\ lastRow \in Nat
  /\ DOMAIN groups \subseteq 1..lastGroup /\ groups \in [DOMAIN groups -> Groups]
  /\ DOMAIN rows \subseteq 1..lastRow /\ rows \in [DOMAIN rows -> Rows(DOMAIN groups)]
  /\ latest \in Snapshots

Minus == {i \in Int : i < 0}
NewIds == {i \in DOMAIN draftGroups \cup DOMAIN draftRows : i < 0}
DraftType ==
  /\ draft \in BOOLEAN /\ taught \subseteq 1..lastRow
  /\ DOMAIN draftGroups \subseteq 1..lastGroup \cup Minus
  /\ DOMAIN draftRows \subseteq 1..lastRow \cup Minus
  /\ draftGroups \in [DOMAIN draftGroups -> DraftGroups]
  /\ draftRows \in [DOMAIN draftRows -> DraftRows]
NewIdsInRow == \E n \in Nat : NewIds = (-n)..(-1)

\* Without a draft there is nothing in it.
Closed == ~draft => draftGroups = NoRows /\ draftRows = NoRows /\ taught = {}

\* A draft always shows a group.
SomeOpen == draft => Open # {}

GroupsFollow == \A g \in DOMAIN draftGroups :
  /\ draftGroups[g].deleted = TRUE \/ g < 0 => draftGroups[g].changed = TRUE
  /\ g \in DOMAIN groups => draftGroups[g].base <= groups[g].version
RowsFollow == \A i \in DOMAIN draftRows :
  /\ draftRows[i].group \in DOMAIN draftGroups
  /\ i > 0 => draftRows[i].group > 0
  /\ i \in DOMAIN rows => draftRows[i].group = rows[i].group
LessonsAhead == \A i \in taught \cap DOMAIN rows :
  rows[i].group \in DOMAIN draftGroups =>
    draftGroups[rows[i].group].base < groups[rows[i].group].version

DictInv ==
  /\ TablesType /\ DraftType /\ NewIdsInRow /\ Closed /\ SomeOpen
  /\ GroupsFollow /\ RowsFollow /\ LessonsAhead
  /\ SnapshotAgrees /\ GroupsSound

\* The bounds, which the actions respect one by one.
Bounded ==
  /\ lastGroup <= MaxGroups /\ lastRow <= MaxRows /\ latest.revision <= MaxRevision
  /\ Touched <= MaxTouched

-----------------------------------------------------------------------------
(***************************************************************************)
(* Tables, and the identifiers of a draft.                                 *)
(***************************************************************************)
\* A table with one entry set has entries of the same kind.
LEMMA WithIn ==
  ASSUME NEW f, NEW id, NEW S, f \in [DOMAIN f -> S], NEW x \in S
  PROVE  With(f, id, x) \in [DOMAIN f \cup {id} -> S]
BY DEF With

\* One table over another one has entries of the same kind.
LEMMA OverIn ==
  ASSUME NEW f, NEW g, NEW S, f \in [DOMAIN f -> S], g \in [DOMAIN g -> S]
  PROVE  Over(f, g) \in [DOMAIN f \cup DOMAIN g -> S]
BY DEF Over

\* The next identifier comes behind those that the draft has.
LEMMA NextIdIs ==
  ASSUME DraftType, NewIdsInRow
  PROVE  \E n \in Nat : NewIds = (-n)..(-1) /\ NextId = -1 - n
<1>1. PICK n \in Nat : NewIds = (-n)..(-1)
  BY DEF NewIdsInRow
<1>2. Cardinality((-n)..(-1)) = IF -n > -1 THEN 0 ELSE -1 - (-n) + 1
  BY FS_Interval
<1>3. Cardinality(NewIds) = n
  BY <1>1, <1>2
<1> QED BY <1>1, <1>3 DEF NextId, NewIds

\* The next identifier is a new one, and those with it are in a row again.
LEMMA NextIdIsNew ==
  ASSUME DraftType, NewIdsInRow
  PROVE  /\ NextId \in Int /\ NextId < 0
         /\ NextId \notin DOMAIN draftGroups \cup DOMAIN draftRows
         /\ NextId - 1 \notin DOMAIN draftGroups \cup DOMAIN draftRows
         /\ \E n \in Nat : NewIds \cup {NextId} = (-n)..(-1)
         /\ \E n \in Nat : NewIds \cup {NextId, NextId - 1} = (-n)..(-1)
<1>1. PICK n \in Nat : NewIds = (-n)..(-1) /\ NextId = -1 - n
  BY NextIdIs
<1>2. NextId \in Int /\ NextId < 0 /\ NextId - 1 < 0 /\ NextId - 1 \in Int
  BY <1>1
<1>3. NextId \notin NewIds /\ NextId - 1 \notin NewIds
  BY <1>1
<1>4. n + 1 \in Nat /\ n + 2 \in Nat
  OBVIOUS
<1>5. NewIds \cup {NextId} = (-(n + 1))..(-1)
  BY <1>1
<1>6. NewIds \cup {NextId, NextId - 1} = (-(n + 2))..(-1)
  BY <1>1
<1> QED BY <1>2, <1>3, <1>4, <1>5, <1>6 DEF NewIds

-----------------------------------------------------------------------------
(***************************************************************************)
(* The beginning, and steps that leave the tables alone.                   *)
(***************************************************************************)
\* A draft that is closed is empty.
LEMMA ClosedIsEmpty ==
  ASSUME draft' = FALSE, draftGroups' = NoRows, draftRows' = NoRows, taught' = {}
  PROVE  /\ DraftType' /\ NewIdsInRow' /\ Closed' /\ SomeOpen'
         /\ GroupsFollow' /\ RowsFollow' /\ LessonsAhead'
<1>1. DOMAIN draftGroups' = {} /\ DOMAIN draftRows' = {}
  BY DEF NoRows
<1>2. NewIds' = {}
  BY <1>1 DEF NewIds
<1>3. 0 \in Nat /\ {} = (-0)..(-1)
  OBVIOUS
<1>4. NewIdsInRow'
  BY <1>2, <1>3 DEF NewIdsInRow
<1>5. DraftType'
  BY <1>1 DEF DraftType, NoRows
<1> QED BY <1>1, <1>4, <1>5 DEF Closed, SomeOpen, GroupsFollow, RowsFollow, LessonsAhead

\* What is said of the tables stays true while they and the snapshot do.
LEMMA TablesStay ==
  ASSUME TablesType, SnapshotAgrees, GroupsSound, UNCHANGED <<base, latest>>
  PROVE  TablesType' /\ SnapshotAgrees' /\ GroupsSound'
BY DEF TablesType, SnapshotAgrees, GroupsSound, base

\* A table without rows decides nothing.
LEMMA NothingDecides ==
  ASSUME NEW w
  PROVE  Effective(NoRows, w) = NoReading
BY DEF Effective, Deciding, NoRows

\* What is read is a reading of the rows, or none.
LEMMA EffectiveIn ==
  ASSUME NEW table, NEW ids, table \in [DOMAIN table -> Rows(ids)], NEW w
  PROVE  Effective(table, w) \in Readings \cup {NoReading}
<1>1. CASE Deciding(table, w) = {}
  BY <1>1 DEF Effective
<1>2. CASE Deciding(table, w) # {}
  <2>1. PICK i \in Deciding(table, w) : i = CHOOSE j \in Deciding(table, w) : TRUE
    BY <1>2
  <2>2. i \in DOMAIN table
    BY DEF Deciding
  <2>3. table[i].reading \in Readings
    BY <2>2 DEF Rows
  <2> QED BY <1>2, <2>1, <2>3 DEF Effective
<1> QED BY <1>1, <1>2

\* The invariant holds when the program starts for the first time.
LEMMA DictInit ==
  ASSUME DictionaryAssumption, Init
  PROVE  DictInv
<1>1. DOMAIN groups = {1} /\ groups[1] = [name |-> Default, version |-> 0]
  BY DEF Init
<1>2. DOMAIN rows = {} /\ DOMAIN draftGroups = {} /\ DOMAIN draftRows = {}
  BY DEF Init, NoRows
<1>3. groups \in [DOMAIN groups -> Groups]
  <2>1. [name |-> Default, version |-> 0] \in Groups
    BY DEF DictionaryAssumption, Groups
  <2> QED BY <2>1, <1>1 DEF Init
<1>4. latest \in Snapshots
  BY DEF Init, Snapshots
<1>5. TablesType
  BY <1>1, <1>2, <1>3, <1>4 DEF TablesType, Init, NoRows
<1>6. DraftType
  BY <1>2 DEF DraftType, Init, NoRows
<1>7. NewIdsInRow
  <2>1. NewIds = {} /\ 0 \in Nat /\ {} = (-0)..(-1)
    BY <1>2 DEF NewIds
  <2> QED BY <2>1 DEF NewIdsInRow
<1>8. Closed /\ SomeOpen /\ GroupsFollow /\ RowsFollow /\ LessonsAhead
  BY <1>2 DEF Closed, SomeOpen, GroupsFollow, RowsFollow, LessonsAhead, Init
<1>9. SnapshotAgrees
  BY NothingDecides DEF SnapshotAgrees, Init, NoReading
<1>10. GroupsSound
  <2>1. DOMAIN groups # DOMAIN NoRows
    BY <1>1 DEF NoRows
  <2>2. groups # NoRows
    BY <2>1
  <2> QED BY <1>1, <2>2 DEF GroupsSound, DistinctNames
<1> QED BY <1>5, <1>6, <1>7, <1>8, <1>9, <1>10 DEF DictInv

-----------------------------------------------------------------------------
(***************************************************************************)
(* The dialog: the draft is opened, listed, edited and discarded.          *)
(***************************************************************************)
\* A draft starts with the groups as they are.
LEMMA BeginKeeps == DictInv /\ Begin => DictInv'
<1> SUFFICES ASSUME DictInv, Begin
             PROVE  DictInv'
  OBVIOUS
<1>1. /\ draftGroups' = Listed(DOMAIN groups) /\ DOMAIN draftGroups' = DOMAIN groups
      /\ draftRows' = NoRows /\ DOMAIN draftRows' = {} /\ taught' = {} /\ taught = {}
  BY DEF Begin, Listed, NoRows, DictInv, Closed
<1>2. UNCHANGED <<base, latest>> /\ draft' = TRUE
  BY <1>1 DEF Begin
<1>3. TablesType' /\ SnapshotAgrees' /\ GroupsSound'
  BY <1>2, TablesStay DEF DictInv
<1>4. \A g \in DOMAIN groups : groups[g] \in Groups /\ g \in 1..lastGroup
  BY DEF DictInv, TablesType
<1>5. draftGroups' \in [DOMAIN draftGroups' -> DraftGroups]
  BY <1>1, <1>4 DEF Listed, Groups, DraftGroups
<1>6. DraftType'
  BY <1>1, <1>2, <1>4, <1>5 DEF DraftType, base, NoRows
<1>7. NewIds' = {} /\ 0 \in Nat /\ {} = (-0)..(-1)
  BY <1>1, <1>4 DEF NewIds
<1>8. NewIdsInRow'
  BY <1>7 DEF NewIdsInRow
<1>9. DOMAIN groups # {}
  BY DEF DictInv, GroupsSound, TablesType, NoRows
<1>10. SomeOpen'
  BY <1>1, <1>9 DEF SomeOpen, Open, Listed
<1>11. GroupsFollow'
  BY <1>1, <1>2, <1>4 DEF GroupsFollow, Listed, base, Groups
<1>12. RowsFollow' /\ LessonsAhead' /\ Closed'
  BY <1>1, <1>2 DEF RowsFollow, LessonsAhead, Closed
<1> QED BY <1>3, <1>6, <1>8, <1>10, <1>11, <1>12 DEF DictInv

\* Groups that came since are listed; what was taught in them is not ahead.
LEMMA ListKeeps == DictInv /\ List => DictInv'
<1> SUFFICES ASSUME DictInv, List
             PROVE  DictInv'
  OBVIOUS
<1> DEFINE new == DOMAIN groups \ DOMAIN draftGroups
<1>1. /\ draftGroups' = Over(draftGroups, Listed(new))
      /\ taught' = {i \in taught : i \in DOMAIN rows /\ rows[i].group \notin new}
      /\ UNCHANGED <<base, latest>> /\ draft /\ draft' = draft /\ draftRows' = draftRows
  BY DEF List
<1>2. TablesType' /\ SnapshotAgrees' /\ GroupsSound'
  BY <1>1, TablesStay DEF DictInv
<1>3. DOMAIN Listed(new) = new /\ \A g \in new : Listed(new)[g] =
        [name |-> groups[g].name, base |-> groups[g].version, changed |-> FALSE, deleted |-> FALSE]
  BY DEF Listed
<1>4. \A g \in DOMAIN groups : groups[g] \in Groups /\ g \in 1..lastGroup
  BY DEF DictInv, TablesType
<1>5. Listed(new) \in [new -> DraftGroups]
  BY <1>3, <1>4 DEF Listed, Groups, DraftGroups
<1>6. /\ DOMAIN draftGroups' = DOMAIN draftGroups \cup new
      /\ \A g \in DOMAIN draftGroups : draftGroups'[g] = draftGroups[g]
      /\ \A g \in new : draftGroups'[g] = Listed(new)[g]
  BY <1>1, <1>3 DEF Over
<1>7. draftGroups' \in [DOMAIN draftGroups' -> DraftGroups]
  <2>1. draftGroups \in [DOMAIN draftGroups -> DraftGroups]
    BY DEF DictInv, DraftType
  <2> HIDE DEF new
  <2> QED BY <1>1, <1>3, <1>5, <1>6, <2>1, OverIn
<1>8. DraftType'
  BY <1>1, <1>4, <1>6, <1>7 DEF DictInv, DraftType, base
<1>9. NewIds' = NewIds
  BY <1>1, <1>4, <1>6 DEF NewIds
<1>10. NewIdsInRow'
  BY <1>9 DEF DictInv, NewIdsInRow
<1>11. SomeOpen'
  <2>1. PICK g \in DOMAIN draftGroups : ~draftGroups[g].deleted
    BY <1>1 DEF DictInv, SomeOpen, Open
  <2> QED BY <1>6, <2>1 DEF SomeOpen, Open
<1>12. GroupsFollow'
  <2>1. ASSUME NEW g \in DOMAIN draftGroups
        PROVE  /\ draftGroups'[g].deleted = TRUE \/ g < 0 => draftGroups'[g].changed = TRUE
               /\ g \in DOMAIN groups' => draftGroups'[g].base <= groups'[g].version
    BY <1>1, <1>6 DEF DictInv, GroupsFollow, base
  <2>2. ASSUME NEW g \in new
        PROVE  /\ draftGroups'[g].deleted = FALSE /\ ~(g < 0)
               /\ draftGroups'[g].base <= groups'[g].version
    <3>1. g \in 1..lastGroup /\ groups[g].version \in Nat
      BY <1>4 DEF Groups
    <3>2. draftGroups'[g] = [name |-> groups[g].name, base |-> groups[g].version,
                             changed |-> FALSE, deleted |-> FALSE]
      BY <1>3, <1>6
    <3>3. draftGroups'[g].deleted = FALSE /\ draftGroups'[g].base = groups[g].version
      BY <3>2
    <3> QED BY <1>1, <3>1, <3>3 DEF base
  <2> QED BY <1>6, <2>1, <2>2 DEF GroupsFollow
<1>13. RowsFollow'
  BY <1>1, <1>6 DEF DictInv, RowsFollow, base
<1>14. LessonsAhead'
  <2>1. ASSUME NEW i \in taught' \cap DOMAIN rows, rows[i].group \in DOMAIN draftGroups'
        PROVE  draftGroups'[rows[i].group].base < groups[rows[i].group].version
    <3>1. i \in taught \cap DOMAIN rows /\ rows[i].group \in DOMAIN draftGroups
      BY <1>1, <1>6, <2>1
    <3> QED BY <1>6, <3>1 DEF DictInv, LessonsAhead
  <2> QED BY <1>1, <2>1 DEF LessonsAhead, base
<1>15. Closed'
  BY <1>1 DEF Closed
<1> QED BY <1>2, <1>8, <1>10, <1>11, <1>12, <1>13, <1>14, <1>15 DEF DictInv

\* A new group, with or without a row, gets the next identifier.
LEMMA GroupIsAdded ==
  ASSUME DictInv, draft, NEW name \in Names, UNCHANGED <<base, draft, latest, taught>>,
         draftGroups' = With(draftGroups, NextId, NewGroup(name)),
         \/ draftRows' = draftRows
         \/ \E word \in Words, reading \in Readings :
              draftRows' = With(draftRows, NextId - 1, NewRow(NextId, word, reading))
  PROVE  DictInv'
<1>1. TablesType' /\ SnapshotAgrees' /\ GroupsSound'
  BY TablesStay DEF DictInv
<1>2. /\ NextId \in Int /\ NextId < 0
      /\ NextId \notin DOMAIN draftGroups \cup DOMAIN draftRows
      /\ NextId - 1 \notin DOMAIN draftGroups \cup DOMAIN draftRows
      /\ \E n \in Nat : NewIds \cup {NextId} = (-n)..(-1)
      /\ \E n \in Nat : NewIds \cup {NextId, NextId - 1} = (-n)..(-1)
  BY NextIdIsNew DEF DictInv
<1>3. /\ DOMAIN draftGroups' = DOMAIN draftGroups \cup {NextId}
      /\ draftGroups'[NextId] = NewGroup(name)
      /\ \A g \in DOMAIN draftGroups : draftGroups'[g] = draftGroups[g]
  BY <1>2 DEF With
<1>4. NewGroup(name) \in DraftGroups
  BY DEF NewGroup, DraftGroups
<1>5. draftGroups' \in [DOMAIN draftGroups' -> DraftGroups]
  <2>1. draftGroups \in [DOMAIN draftGroups -> DraftGroups]
    BY DEF DictInv, DraftType
  <2> QED BY <1>3, <1>4, <2>1, WithIn
<1>6. /\ \A i \in DOMAIN draftRows : i \in DOMAIN draftRows' /\ draftRows'[i] = draftRows[i]
      /\ \/ DOMAIN draftRows' = DOMAIN draftRows
         \/ /\ DOMAIN draftRows' = DOMAIN draftRows \cup {NextId - 1}
            /\ draftRows'[NextId - 1].group = NextId
      /\ draftRows' \in [DOMAIN draftRows' -> DraftRows]
  <2>1. CASE draftRows' = draftRows
    BY <2>1 DEF DictInv, DraftType
  <2>2. CASE \E word \in Words, reading \in Readings :
               draftRows' = With(draftRows, NextId - 1, NewRow(NextId, word, reading))
    <3>1. PICK word \in Words, reading \in Readings :
            draftRows' = With(draftRows, NextId - 1, NewRow(NextId, word, reading))
      BY <2>2
    <3>2. NewRow(NextId, word, reading) \in DraftRows /\ NewRow(NextId, word, reading).group = NextId
      BY <1>2 DEF NewRow, DraftRows
    <3>3. draftRows \in [DOMAIN draftRows -> DraftRows]
      BY DEF DictInv, DraftType
    <3>4. /\ DOMAIN draftRows' = DOMAIN draftRows \cup {NextId - 1}
          /\ draftRows'[NextId - 1] = NewRow(NextId, word, reading)
          /\ \A i \in DOMAIN draftRows : draftRows'[i] = draftRows[i]
      BY <1>2, <3>1 DEF With
    <3>5. draftRows' \in [DOMAIN draftRows' -> DraftRows]
      BY <3>1, <3>2, <3>3, <3>4, WithIn
    <3> QED BY <3>2, <3>4, <3>5
  <2> QED BY <2>1, <2>2
<1>7. DraftType'
  <2>1. DOMAIN draftGroups' \subseteq 1..lastGroup \cup Minus
    BY <1>2, <1>3 DEF DictInv, DraftType, Minus
  <2>2. NextId - 1 \in Minus
    BY <1>2 DEF Minus
  <2>3. DOMAIN draftRows' \subseteq 1..lastRow \cup Minus
    BY <1>6, <2>2 DEF DictInv, DraftType
  <2> QED BY <1>5, <1>6, <2>1, <2>3 DEF DictInv, DraftType, base
<1>8. NewIdsInRow'
  <2>1. CASE DOMAIN draftRows' = DOMAIN draftRows
    <3>1. NewIds' = NewIds \cup {NextId}
      BY <1>2, <1>3, <2>1 DEF NewIds
    <3> QED BY <1>2, <3>1 DEF NewIdsInRow
  <2>2. CASE DOMAIN draftRows' = DOMAIN draftRows \cup {NextId - 1}
    <3>1. NextId - 1 < 0
      BY <1>2
    <3>2. NewIds' = NewIds \cup {NextId, NextId - 1}
      BY <1>2, <1>3, <2>2, <3>1 DEF NewIds
    <3> QED BY <1>2, <3>2 DEF NewIdsInRow
  <2> QED BY <1>6, <2>1, <2>2
<1>9. Closed'
  BY DEF Closed
<1>10. SomeOpen'
  BY <1>3 DEF SomeOpen, Open, NewGroup
<1>11. GroupsFollow'
  <2>1. NextId \notin DOMAIN groups
    BY <1>2 DEF DictInv, TablesType
  <2>2. draftGroups'[NextId].changed = TRUE
    BY <1>3 DEF NewGroup
  <2>3. groups' = groups
    BY DEF base
  <2> QED BY <1>3, <2>1, <2>2, <2>3 DEF DictInv, GroupsFollow
<1>12. RowsFollow'
  <2>1. NextId - 1 \notin DOMAIN rows /\ ~(NextId - 1 > 0)
    BY <1>2 DEF DictInv, TablesType
  <2>2. ASSUME NEW i \in DOMAIN draftRows
        PROVE  /\ draftRows'[i].group \in DOMAIN draftGroups'
               /\ i > 0 => draftRows'[i].group > 0
               /\ i \in DOMAIN rows => draftRows'[i].group = rows[i].group
    BY <1>3, <1>6 DEF DictInv, RowsFollow
  <2>3. CASE DOMAIN draftRows' = DOMAIN draftRows
    BY <2>2, <2>3 DEF RowsFollow, base
  <2>4. CASE /\ DOMAIN draftRows' = DOMAIN draftRows \cup {NextId - 1}
             /\ draftRows'[NextId - 1].group = NextId
    BY <1>3, <2>1, <2>2, <2>4 DEF RowsFollow, base
  <2> QED BY <1>6, <2>3, <2>4
<1>13. LessonsAhead'
  <2>1. ASSUME NEW i \in taught \cap DOMAIN rows, rows[i].group \in DOMAIN draftGroups'
        PROVE  draftGroups'[rows[i].group].base < groups[rows[i].group].version
    <3>1. rows[i].group \in DOMAIN groups /\ rows[i].group # NextId
      BY <1>2 DEF DictInv, TablesType, Rows
    <3>2. rows[i].group \in DOMAIN draftGroups
      BY <1>3, <2>1, <3>1
    <3> QED BY <1>3, <3>2 DEF DictInv, LessonsAhead
  <2> QED BY <2>1 DEF LessonsAhead, base
<1> QED BY <1>1, <1>7, <1>8, <1>9, <1>10, <1>11, <1>12, <1>13 DEF DictInv

\* A new group gets the next identifier.
LEMMA AddGroupKeeps ==
  ASSUME DictInv, NEW name \in Names, AddGroup(name)
  PROVE  DictInv'
BY GroupIsAdded DEF AddGroup, base

\* So does the one of an imported file, and its row the one behind.
LEMMA ImportKeeps ==
  ASSUME DictInv, NEW name \in Names, NEW word \in Words, NEW reading \in Readings,
         ImportGroup(name, word, reading)
  PROVE  DictInv'
BY GroupIsAdded DEF ImportGroup, base

\* A group that is renamed or deleted is marked as changed; one is left.
LEMMA GroupIsEdited ==
  ASSUME DictInv, draft, NEW g \in DOMAIN draftGroups, NEW entry \in DraftGroups,
         entry.base = draftGroups[g].base, entry.changed = TRUE,
         \E h \in Open : h # g \/ ~entry.deleted,
         draftGroups' = [draftGroups EXCEPT ![g] = entry],
         UNCHANGED <<base, draft, draftRows, latest, taught>>
  PROVE  DictInv'
<1>1. TablesType' /\ SnapshotAgrees' /\ GroupsSound'
  BY TablesStay DEF DictInv
<1>2. /\ DOMAIN draftGroups' = DOMAIN draftGroups /\ draftGroups'[g] = entry
      /\ \A h \in DOMAIN draftGroups : h # g => draftGroups'[h] = draftGroups[h]
      /\ \A h \in DOMAIN draftGroups : draftGroups'[h].base = draftGroups[h].base
      /\ draftGroups' \in [DOMAIN draftGroups' -> DraftGroups]
  BY DEF DictInv, DraftType
<1>3. DraftType'
  BY <1>2 DEF DictInv, DraftType, base
<1>4. NewIds' = NewIds
  BY <1>2 DEF NewIds
<1>5. NewIdsInRow' /\ Closed'
  BY <1>4 DEF DictInv, NewIdsInRow, Closed
<1>6. SomeOpen'
  BY <1>2 DEF SomeOpen, Open
<1>7. GroupsFollow'
  BY <1>2 DEF DictInv, GroupsFollow, base
<1>8. RowsFollow'
  BY <1>2 DEF DictInv, RowsFollow, base
<1>9. LessonsAhead'
  BY <1>2 DEF DictInv, LessonsAhead, base
<1> QED BY <1>1, <1>3, <1>5, <1>6, <1>7, <1>8, <1>9 DEF DictInv

\* A group is given another name.
LEMMA RenameKeeps ==
  ASSUME DictInv, NEW g, NEW name \in Names, RenameGroup(g, name)
  PROVE  DictInv'
<1> DEFINE entry == [draftGroups[g] EXCEPT !.name = name, !.changed = TRUE]
<1>1. g \in Open /\ g \in DOMAIN draftGroups /\ draftGroups[g].deleted = FALSE /\ draftGroups[g] \in DraftGroups
  BY DEF RenameGroup, Open, DictInv, DraftType, DraftGroups
<1>2. entry \in DraftGroups /\ entry.base = draftGroups[g].base /\ entry.changed = TRUE /\ entry.deleted = FALSE
  BY <1>1 DEF DraftGroups
<1>3. /\ draftGroups' = [draftGroups EXCEPT ![g] = entry] /\ draft
      /\ UNCHANGED <<base, draft, draftRows, latest, taught>>
  BY <1>1 DEF RenameGroup
<1>4. \E h \in Open : h # g \/ ~entry.deleted
  BY <1>1, <1>2
<1> HIDE DEF entry
<1> QED BY <1>1, <1>2, <1>3, <1>4, GroupIsEdited

\* A group is deleted, but never the last one.
LEMMA DeleteKeeps ==
  ASSUME DictInv, NEW g, DeleteGroup(g)
  PROVE  DictInv'
<1> DEFINE entry == [draftGroups[g] EXCEPT !.deleted = TRUE, !.changed = TRUE]
<1>1. g \in Open /\ g \in DOMAIN draftGroups /\ draftGroups[g] \in DraftGroups
  BY DEF DeleteGroup, Open, DictInv, DraftType
<1>2. entry \in DraftGroups /\ entry.base = draftGroups[g].base /\ entry.changed = TRUE
  BY <1>1 DEF DraftGroups
<1>3. /\ draftGroups' = [draftGroups EXCEPT ![g] = entry] /\ draft
      /\ UNCHANGED <<base, draft, draftRows, latest, taught>>
  BY <1>1 DEF DeleteGroup
<1>4. \E h \in Open : h # g
  <2>1. SUFFICES ASSUME \A h \in Open : h = g
                 PROVE  FALSE
    OBVIOUS
  <2>2. Open = {g}
    BY <1>1, <2>1
  <2>3. Cardinality({g}) = 1
    BY FS_Singleton
  <2> QED BY <2>2, <2>3 DEF DeleteGroup, OtherLeft
<1> HIDE DEF entry
<1> QED BY <1>1, <1>2, <1>3, <1>4, GroupIsEdited

\* The entry of a row is a new one, or the row's own with other words.
LEMMA RowIsEdited ==
  ASSUME DictInv, draft, NEW i \in DOMAIN draftRows \cup DOMAIN rows \cup {NextId}, NEW entry \in DraftRows,
         entry.group \in DOMAIN draftGroups,
         i \in DOMAIN draftRows => entry.group = draftRows[i].group,
         i \in DOMAIN rows => entry.group = rows[i].group,
         draftRows' = With(draftRows, i, entry),
         UNCHANGED <<base, draft, draftGroups, latest, taught>>
  PROVE  DictInv'
<1>1. TablesType' /\ SnapshotAgrees' /\ GroupsSound'
  BY TablesStay DEF DictInv
<1>2. /\ DOMAIN draftRows' = DOMAIN draftRows \cup {i} /\ draftRows'[i] = entry
      /\ \A j \in DOMAIN draftRows : j # i => draftRows'[j] = draftRows[j]
  BY DEF With
<1>3. draftRows' \in [DOMAIN draftRows' -> DraftRows]
  <2>1. draftRows \in [DOMAIN draftRows -> DraftRows]
    BY DEF DictInv, DraftType
  <2> QED BY <1>2, <2>1, WithIn
<1>4. /\ NextId \in Int /\ NextId < 0 /\ \E n \in Nat : NewIds \cup {NextId} = (-n)..(-1)
  BY NextIdIsNew DEF DictInv
<1>5. DOMAIN rows \subseteq 1..lastRow /\ DOMAIN draftRows \subseteq 1..lastRow \cup Minus
  BY DEF DictInv, TablesType, DraftType
<1>6. i \in 1..lastRow \cup Minus
  BY <1>4, <1>5 DEF Minus
<1>7. DraftType'
  BY <1>2, <1>3, <1>5, <1>6 DEF DictInv, DraftType, base
<1>8. NewIdsInRow'
  <2>1. CASE i = NextId
    <3>1. NewIds' = NewIds \cup {NextId}
      BY <1>2, <1>4, <2>1 DEF NewIds
    <3> QED BY <1>4, <3>1 DEF NewIdsInRow
  <2>2. CASE i \in DOMAIN draftRows
    <3>1. NewIds' = NewIds
      BY <1>2, <2>2 DEF NewIds
    <3> QED BY <3>1 DEF NewIdsInRow, DictInv
  <2>3. CASE i \in DOMAIN rows
    <3>1. ~(i < 0)
      BY <1>5, <2>3
    <3>2. NewIds' = NewIds
      BY <1>2, <3>1 DEF NewIds
    <3> QED BY <3>2 DEF NewIdsInRow, DictInv
  <2> QED BY <2>1, <2>2, <2>3
<1>9. Closed'
  BY DEF Closed
<1>10. SomeOpen'
  BY DEF DictInv, SomeOpen, Open
<1>11. GroupsFollow'
  BY DEF DictInv, GroupsFollow, base
<1>12. RowsFollow'
  <2>1. i > 0 => entry.group > 0
    <3>1. CASE i \in DOMAIN draftRows
      BY <3>1 DEF DictInv, RowsFollow
    <3>2. CASE i \in DOMAIN rows
      <4>1. rows[i].group \in DOMAIN groups
        BY <3>2 DEF DictInv, TablesType, Rows
      <4>2. rows[i].group \in 1..lastGroup
        BY <4>1 DEF DictInv, TablesType
      <4> QED BY <3>2, <4>2
    <3>3. CASE i = NextId
      BY <1>4, <3>3
    <3> QED BY <3>1, <3>2, <3>3
  <2>2. ASSUME NEW j \in DOMAIN draftRows, j # i
        PROVE  /\ draftRows'[j].group \in DOMAIN draftGroups
               /\ j > 0 => draftRows'[j].group > 0
               /\ j \in DOMAIN rows => draftRows'[j].group = rows[j].group
    BY <1>2, <2>2 DEF DictInv, RowsFollow
  <2> QED BY <1>2, <2>1, <2>2 DEF RowsFollow, base
<1>13. LessonsAhead'
  BY DEF DictInv, LessonsAhead, base
<1> QED BY <1>1, <1>7, <1>8, <1>9, <1>10, <1>11, <1>12, <1>13 DEF DictInv

\* A row is appended.
LEMMA AppendKeeps ==
  ASSUME DictInv, NEW g, NEW word \in Words \cup {Blank}, NEW reading \in Readings \cup {Blank},
         AppendRow(g, word, reading)
  PROVE  DictInv'
<1>1. g \in DOMAIN draftGroups /\ g \in Int
  BY DEF AppendRow, Open, DictInv, DraftType, TablesType, Minus
<1>2. NewRow(g, word, reading) \in DraftRows /\ NewRow(g, word, reading).group = g
  BY <1>1 DEF NewRow, DraftRows
<1>3. NextId \notin DOMAIN draftRows /\ NextId \in Int /\ NextId < 0
  BY NextIdIsNew DEF DictInv
<1>4. NextId \notin DOMAIN rows
  BY <1>3 DEF DictInv, TablesType
<1>5. /\ draftRows' = With(draftRows, NextId, NewRow(g, word, reading)) /\ draft
      /\ UNCHANGED <<base, draft, draftGroups, latest, taught>>
  BY DEF AppendRow
<1> QED BY <1>1, <1>2, <1>3, <1>4, <1>5, RowIsEdited

\* A row that the dialog shows is edited, or deleted.
LEMMA EditKeeps ==
  ASSUME DictInv, NEW g \in Open, NEW i \in Shown(g), NEW entry \in DraftRows,
         entry.group = Drafted(i).group, Edit(i, entry)
  PROVE  DictInv'
<1>1. i \in DOMAIN draftRows \cup DOMAIN rows
  BY DEF Shown
<1>2. g \in DOMAIN draftGroups
  BY DEF Open
<1>3. i \in DOMAIN draftRows => entry.group = draftRows[i].group
  BY DEF Drafted
<1>4. i \in DOMAIN rows => entry.group = rows[i].group
  BY <1>1 DEF Drafted, Copied, DictInv, RowsFollow
<1>5. entry.group = g
  BY <1>1, <1>3, <1>4 DEF Shown
<1>6. /\ draftRows' = With(draftRows, i, entry) /\ draft
      /\ UNCHANGED <<base, draft, draftGroups, latest, taught>>
  BY DEF Edit
<1> QED BY <1>1, <1>2, <1>3, <1>4, <1>5, <1>6, RowIsEdited

\* What the dialog shows of a row can be edited.
LEMMA DraftedIs ==
  ASSUME DictInv, NEW g, NEW i \in Shown(g)
  PROVE  Drafted(i) \in DraftRows
<1>1. CASE i \in DOMAIN draftRows
  BY <1>1 DEF Drafted, DictInv, DraftType
<1>2. CASE i \notin DOMAIN draftRows
  <2>1. i \in DOMAIN rows
    BY <1>2 DEF Shown
  <2>2. rows[i] \in Rows(DOMAIN groups) /\ DOMAIN groups \subseteq Int
    BY <2>1 DEF DictInv, TablesType
  <2>3. Copied(i) \in DraftRows
    BY <2>2 DEF Copied, DraftRows, Rows
  <2> QED BY <1>2, <2>3 DEF Drafted
<1> QED BY <1>1, <1>2

\* The draft is thrown away.
LEMMA DiscardKeeps == DictInv /\ Discard => DictInv'
<1> SUFFICES ASSUME DictInv, Discard
             PROVE  DictInv'
  OBVIOUS
<1>1. TablesType' /\ SnapshotAgrees' /\ GroupsSound'
  BY TablesStay DEF DictInv, Discard
<1> QED BY <1>1, ClosedIsEmpty DEF DictInv, Discard

\* The program starts again: the snapshot is made of the rows.
LEMMA RestartKeeps == DictInv /\ Restart => DictInv'
<1> SUFFICES ASSUME DictInv, Restart
             PROVE  DictInv'
  OBVIOUS
<1>1. /\ UNCHANGED <<groups, rows, lastGroup, lastRow>>
      /\ latest' = [latest EXCEPT !.reading = [w \in Words |-> Effective(rows, w)]]
  BY DEF Restart, base
<1>2. \A w \in Words : Effective(rows, w) \in Readings \cup {NoReading}
  BY EffectiveIn DEF DictInv, TablesType
<1>3. latest' \in Snapshots /\ \A w \in Words : latest'.reading[w] = Effective(rows, w)
  BY <1>1, <1>2 DEF DictInv, TablesType, Snapshots
<1>4. TablesType'
  BY <1>1, <1>3 DEF DictInv, TablesType
<1>5. SnapshotAgrees'
  BY <1>1, <1>3 DEF SnapshotAgrees
<1>6. GroupsSound'
  BY <1>1 DEF DictInv, GroupsSound
<1> QED BY <1>4, <1>5, <1>6, ClosedIsEmpty DEF DictInv, Restart

-----------------------------------------------------------------------------
(***************************************************************************)
(* Lessons.  A word that is not taught has the same rows before and after. *)
(***************************************************************************)
\* How a word is read depends on its rows alone.
LEMMA ReadByItsRows ==
  ASSUME NEW t, NEW u, NEW w,
         \A i : i \in DOMAIN t /\ t[i].word = w <=> i \in DOMAIN u /\ u[i].word = w,
         \A i \in DOMAIN t : t[i].word = w => t[i].group = u[i].group /\ t[i].reading = u[i].reading
  PROVE  Effective(t, w) = Effective(u, w)
<1>1. ASSUME NEW i, i \in DOMAIN t, t[i].word = w
      PROVE  Decides(t, i) <=> Decides(u, i)
  BY <1>1 DEF Decides
<1>2. Deciding(t, w) = Deciding(u, w)
  BY <1>1 DEF Deciding
<1>3. CASE Deciding(t, w) = {}
  BY <1>2, <1>3 DEF Effective
<1>4. CASE Deciding(t, w) # {}
  <2>1. PICK i \in Deciding(t, w) : i = CHOOSE j \in Deciding(t, w) : TRUE
    BY <1>4
  <2>2. t[i].reading = u[i].reading
    BY <2>1 DEF Deciding
  <2> QED BY <1>2, <1>4, <2>1, <2>2 DEF Effective
<1> QED BY <1>3, <1>4

\* The snapshot is right about the words that are looked up again, and about
\* those whose rows are the same as before.
LEMMA PublishedAgrees ==
  ASSUME TablesType, SnapshotAgrees, NEW table, NEW ids, table \in [DOMAIN table -> Rows(ids)], NEW words,
         \A w \in Words \ words : Effective(table, w) = Effective(rows, w)
  PROVE  /\ Published(table, words) \in Snapshots
         /\ Published(table, words).revision = latest.revision + 1
         /\ \A w \in Words : Published(table, words).reading[w] = Effective(table, w)
<1>1. latest \in Snapshots
  BY DEF TablesType
<1>2. \A w \in Words : Effective(table, w) \in Readings \cup {NoReading}
  BY EffectiveIn
<1>3. \A w \in Words : latest.reading[w] = Effective(rows, w)
  BY DEF SnapshotAgrees
<1> QED BY <1>1, <1>2, <1>3 DEF Published, Snapshots

\* The group of the lessons is there, or comes behind all others.
LEMMA LessonGroupIs ==
  ASSUME DictionaryAssumption, DictInv
  PROVE  /\ \/ LessonGroup \in DOMAIN groups /\ groups[LessonGroup].name = Lessons
            \/ /\ LessonGroup = lastGroup + 1 /\ LessonGroup \notin DOMAIN groups
               /\ \A g \in DOMAIN groups : groups[g].name # Lessons
         /\ LessonGroup \in Nat \ {0} /\ lastGroup \in Nat
         /\ DOMAIN WithLessons = DOMAIN groups \cup {LessonGroup}
         /\ WithLessons \in [DOMAIN WithLessons -> Groups]
         /\ \A g \in DOMAIN groups : WithLessons[g] = groups[g]
         /\ DistinctNames(WithLessons)
<1>1. DOMAIN groups \subseteq 1..lastGroup /\ lastGroup \in Nat /\ groups \in [DOMAIN groups -> Groups]
  BY DEF DictInv, TablesType
<1>2. \A g, h \in DOMAIN groups : groups[g].name = groups[h].name => g = h
  BY DEF DictInv, GroupsSound, DistinctNames
<1>3. CASE \E g \in DOMAIN groups : groups[g].name = Lessons
  <2>1. LessonGroup \in DOMAIN groups /\ groups[LessonGroup].name = Lessons
    BY <1>3 DEF LessonGroup
  <2>2. WithLessons = groups
    BY <2>1 DEF WithLessons
  <2>3. LessonGroup \in Nat \ {0} /\ DOMAIN WithLessons = DOMAIN groups \cup {LessonGroup}
    BY <1>1, <2>1, <2>2
  <2>4. DistinctNames(WithLessons)
    BY <1>2, <2>2 DEF DistinctNames
  <2> QED BY <1>1, <2>1, <2>2, <2>3, <2>4
<1>4. CASE \A g \in DOMAIN groups : groups[g].name # Lessons
  <2>1. LessonGroup = lastGroup + 1
    BY <1>4 DEF LessonGroup
  <2>2. LessonGroup \notin DOMAIN groups /\ LessonGroup \in Nat \ {0}
    BY <1>1, <2>1
  <2>3. WithLessons = With(groups, LessonGroup, [name |-> Lessons, version |-> 0])
    BY <2>2 DEF WithLessons
  <2>4. [name |-> Lessons, version |-> 0] \in Groups
    BY DEF DictionaryAssumption, Groups
  <2>5. /\ DOMAIN WithLessons = DOMAIN groups \cup {LessonGroup}
        /\ WithLessons[LessonGroup] = [name |-> Lessons, version |-> 0]
        /\ \A g \in DOMAIN groups : WithLessons[g] = groups[g]
    BY <2>2, <2>3 DEF With
  <2>6. WithLessons \in [DOMAIN WithLessons -> Groups]
    BY <1>1, <2>3, <2>4, <2>5, WithIn
  <2>7. DistinctNames(WithLessons)
    BY <1>2, <1>4, <2>5 DEF DistinctNames
  <2> QED BY <1>1, <1>4, <2>1, <2>2, <2>5, <2>6, <2>7
<1> QED BY <1>3, <1>4

\* The groups after a lesson: none goes, no name changes, no version goes
\* back, and that of the lessons moves on with the rows.
LEMMA LessonGroups ==
  ASSUME DictionaryAssumption, DictInv, NEW moves \in BOOLEAN,
         groups' = IF moves THEN [WithLessons EXCEPT ![LessonGroup].version = @ + 1] ELSE WithLessons,
         lastGroup' = IF LessonGroup > lastGroup THEN LessonGroup ELSE lastGroup
  PROVE  /\ lastGroup' \in Nat /\ lastGroup <= lastGroup'
         /\ DOMAIN groups' = DOMAIN groups \cup {LessonGroup}
         /\ DOMAIN groups' \subseteq 1..lastGroup' /\ groups' \in [DOMAIN groups' -> Groups]
         /\ \A g \in DOMAIN groups : groups[g].version <= groups'[g].version
         /\ moves /\ LessonGroup \in DOMAIN groups =>
              groups[LessonGroup].version < groups'[LessonGroup].version
         /\ LessonGroup \in DOMAIN groups \/ LessonGroup = lastGroup + 1
         /\ GroupsSound'
<1>1. /\ \/ LessonGroup \in DOMAIN groups /\ groups[LessonGroup].name = Lessons
         \/ LessonGroup = lastGroup + 1 /\ LessonGroup \notin DOMAIN groups
      /\ LessonGroup \in Nat \ {0} /\ lastGroup \in Nat
      /\ DOMAIN WithLessons = DOMAIN groups \cup {LessonGroup}
      /\ WithLessons \in [DOMAIN WithLessons -> Groups]
      /\ \A g \in DOMAIN groups : WithLessons[g] = groups[g]
      /\ DistinctNames(WithLessons)
  BY LessonGroupIs
<1>2. DOMAIN groups \subseteq 1..lastGroup
  BY DEF DictInv, TablesType
<1>3. lastGroup' \in Nat /\ lastGroup <= lastGroup' /\ LessonGroup <= lastGroup'
  BY <1>1
<1>4. DOMAIN groups' = DOMAIN groups \cup {LessonGroup}
  BY <1>1
<1>5. DOMAIN groups' \subseteq 1..lastGroup'
  BY <1>1, <1>2, <1>3, <1>4
<1>6. \A g \in DOMAIN groups' :
        /\ groups'[g] \in Groups /\ groups'[g].name = WithLessons[g].name
        /\ WithLessons[g].version <= groups'[g].version
        /\ moves /\ g = LessonGroup => WithLessons[g].version < groups'[g].version
  <2>1. ASSUME NEW g \in DOMAIN groups \cup {LessonGroup}
        PROVE  /\ groups'[g] \in Groups /\ groups'[g].name = WithLessons[g].name
               /\ WithLessons[g].version <= groups'[g].version
               /\ moves /\ g = LessonGroup => WithLessons[g].version < groups'[g].version
    <3>1. WithLessons[g] \in Groups /\ WithLessons[g].version \in Nat
      BY <1>1, <2>1 DEF Groups
    <3>2. CASE moves /\ g = LessonGroup
      <4>1. groups'[g] = [WithLessons[g] EXCEPT !.version = @ + 1]
        BY <1>1, <3>2
      <4>2. groups'[g].version = WithLessons[g].version + 1 /\ groups'[g].name = WithLessons[g].name
        BY <3>1, <4>1 DEF Groups
      <4>3. groups'[g] \in Groups
        BY <3>1, <4>1 DEF Groups
      <4> QED BY <3>1, <4>2, <4>3
    <3>3. CASE ~(moves /\ g = LessonGroup)
      <4>1. groups'[g] = WithLessons[g]
        BY <1>1, <3>3
      <4> QED BY <3>1, <3>3, <4>1
    <3> QED BY <3>2, <3>3
  <2> QED BY <1>4, <2>1
<1>7. groups' \in [DOMAIN groups' -> Groups]
  <2>1. groups' = [g \in DOMAIN groups' |-> groups'[g]]
    BY <1>1
  <2> QED BY <1>6, <2>1
<1>8. GroupsSound'
  <2>1. DistinctNames(groups')
    BY <1>1, <1>4, <1>6 DEF DistinctNames
  <2>2. groups' # NoRows
    <3>1. DOMAIN groups' # {} /\ DOMAIN NoRows = {}
      BY <1>4 DEF NoRows
    <3> QED BY <3>1
  <2> QED BY <2>1, <2>2 DEF GroupsSound, DistinctNames
<1>9. \A g \in DOMAIN groups : groups[g].version <= groups'[g].version
  BY <1>1, <1>4, <1>6
<1>10. moves /\ LessonGroup \in DOMAIN groups => groups[LessonGroup].version < groups'[LessonGroup].version
  BY <1>1, <1>4, <1>6
<1> QED BY <1>1, <1>3, <1>4, <1>5, <1>7, <1>8, <1>9, <1>10

\* The rows after a lesson: those of the word in its group may have gone, one
\* may have come, and every other row is as it was.
LEMMA LessonRows ==
  ASSUME DictionaryAssumption, DictInv, NEW word \in Words, NEW reading \in Readings \cup {NoReading},
         Educate(word, reading), rows' # rows \/ latest' # latest
  PROVE  /\ lastRow' \in Nat /\ lastRow <= lastRow' /\ DOMAIN rows' \subseteq 1..lastRow'
         /\ rows' \in [DOMAIN rows' -> Rows(DOMAIN groups \cup {LessonGroup})]
         /\ \A i \in DOMAIN rows \cap DOMAIN rows' : rows'[i] = rows[i]
         /\ \A i \in DOMAIN rows \ DOMAIN rows' : rows[i].word = word
         /\ \A i \in DOMAIN rows' \ DOMAIN rows :
              i = lastRow + 1 /\ rows'[i].word = word /\ rows'[i].group = LessonGroup
         /\ taught' \subseteq 1..lastRow' /\ taught' \subseteq taught \cup {lastRow + 1}
         /\ draft = FALSE => taught' = taught
         /\ groups' = [WithLessons EXCEPT ![LessonGroup].version = @ + 1]
         /\ latest' = Published(rows', {word})
<1> DEFINE old == {i \in DOMAIN rows : rows[i].group = LessonGroup /\ rows[i].word = word}
           kept == Restrict(rows, DOMAIN rows \ old)
           lesson == [group |-> LessonGroup, word |-> word, reading |-> reading, version |-> 0]
           ids == DOMAIN groups \cup {LessonGroup}
<1>1. /\ groups' = [WithLessons EXCEPT ![LessonGroup].version = @ + 1]
      /\ latest' = Published(rows', {word})
      /\ \/ reading = NoReading /\ rows' = kept /\ UNCHANGED <<lastRow, taught>>
         \/ /\ reading # NoReading /\ lastRow' = lastRow + 1
            /\ rows' = With(kept, lastRow + 1, lesson)
            /\ taught' = IF draft THEN taught \cup {lastRow + 1} ELSE taught
  BY DEF Educate
<1>2. /\ DOMAIN rows \subseteq 1..lastRow /\ lastRow \in Nat /\ rows \in [DOMAIN rows -> Rows(DOMAIN groups)]
      /\ taught \subseteq 1..lastRow /\ draft \in BOOLEAN
  BY DEF DictInv, TablesType, DraftType
<1>3. rows \in [DOMAIN rows -> Rows(ids)]
  BY <1>2 DEF Rows
<1>4. /\ DOMAIN kept = DOMAIN rows \ old /\ \A i \in DOMAIN kept : kept[i] = rows[i]
      /\ kept \in [DOMAIN kept -> Rows(ids)]
  <2> HIDE DEF old, ids
  <2> QED BY <1>3 DEF Restrict
<1>5. \A i \in DOMAIN rows \ DOMAIN kept : rows[i].word = word
  BY <1>4
<1> HIDE DEF kept
<1>6. CASE reading = NoReading /\ rows' = kept /\ UNCHANGED <<lastRow, taught>>
  <2>1. rows' \in [DOMAIN rows' -> Rows(DOMAIN groups \cup {LessonGroup})]
    BY <1>4, <1>6
  <2>2. DOMAIN rows' \subseteq DOMAIN rows /\ \A i \in DOMAIN rows \cap DOMAIN rows' : rows'[i] = rows[i]
    BY <1>4, <1>6
  <2>3. \A i \in DOMAIN rows \ DOMAIN rows' : rows[i].word = word
    BY <1>5, <1>6
  <2>4. lastRow' \in Nat /\ lastRow <= lastRow' /\ DOMAIN rows' \subseteq 1..lastRow' /\ taught' \subseteq 1..lastRow'
    BY <1>2, <1>6, <2>2
  <2> QED BY <1>1, <1>6, <2>1, <2>2, <2>3, <2>4
<1>7. CASE /\ reading # NoReading /\ lastRow' = lastRow + 1
           /\ rows' = With(kept, lastRow + 1, lesson)
           /\ taught' = IF draft THEN taught \cup {lastRow + 1} ELSE taught
  <2>1. lesson \in Rows(ids) /\ lesson.word = word /\ lesson.group = LessonGroup
    BY <1>7 DEF Rows
  <2> HIDE DEF lesson, ids
  <2>2. /\ DOMAIN rows' = DOMAIN kept \cup {lastRow + 1} /\ rows'[lastRow + 1] = lesson
        /\ \A i \in DOMAIN kept : i # lastRow + 1 => rows'[i] = kept[i]
    BY <1>7 DEF With
  <2>3. rows' \in [DOMAIN rows' -> Rows(ids)]
    BY <1>4, <1>7, <2>1, <2>2, WithIn
  <2>4. lastRow + 1 \notin DOMAIN rows /\ lastRow + 1 \in 1..lastRow' /\ 1..lastRow \subseteq 1..lastRow'
    BY <1>2, <1>7
  <2>5. /\ DOMAIN rows' \subseteq 1..lastRow' /\ lastRow' \in Nat /\ lastRow <= lastRow'
        /\ taught' \subseteq 1..lastRow'
    BY <1>2, <1>4, <1>7, <2>2, <2>4
  <2>6. \A i \in DOMAIN rows' \ DOMAIN rows :
          i = lastRow + 1 /\ rows'[i].word = word /\ rows'[i].group = LessonGroup
    BY <1>4, <2>1, <2>2
  <2>7. /\ \A i \in DOMAIN rows \cap DOMAIN rows' : rows'[i] = rows[i]
        /\ \A i \in DOMAIN rows \ DOMAIN rows' : rows[i].word = word
    BY <1>4, <1>5, <2>2, <2>4
  <2>8. taught' \subseteq taught \cup {lastRow + 1} /\ (draft = FALSE => taught' = taught)
    BY <1>7
  <2> QED BY <1>1, <2>3, <2>5, <2>6, <2>7, <2>8 DEF ids
<1> QED BY <1>1, <1>6, <1>7

\* A lesson keeps the invariant.
LEMMA EducateKeeps ==
  ASSUME DictionaryAssumption, DictInv, NEW word \in Words, NEW reading \in Readings \cup {NoReading},
         Educate(word, reading)
  PROVE  DictInv'
<1>1. UNCHANGED <<draft, draftGroups, draftRows>>
  BY DEF Educate, edits
<1>2. lastGroup' = IF LessonGroup > lastGroup THEN LessonGroup ELSE lastGroup
  BY DEF Educate
<1>3. \/ groups' = WithLessons /\ UNCHANGED <<rows, lastRow, latest, taught>>
      \/ /\ latest' = Published(rows', {word})
         /\ groups' = [WithLessons EXCEPT ![LessonGroup].version = @ + 1]
  BY DEF Educate
<1>4. /\ lastRow \in Nat /\ DOMAIN rows \subseteq 1..lastRow /\ rows \in [DOMAIN rows -> Rows(DOMAIN groups)]
      /\ latest \in Snapshots /\ taught \subseteq 1..lastRow /\ lastGroup \in Nat
      /\ DOMAIN groups \subseteq 1..lastGroup /\ DOMAIN draftGroups \subseteq 1..lastGroup \cup Minus
      /\ DOMAIN draftRows \subseteq 1..lastRow \cup Minus /\ groups \in [DOMAIN groups -> Groups]
      /\ draftGroups \in [DOMAIN draftGroups -> DraftGroups]
  BY DEF DictInv, TablesType, DraftType
<1>5. \E moves \in BOOLEAN :
        /\ groups' = IF moves THEN [WithLessons EXCEPT ![LessonGroup].version = @ + 1] ELSE WithLessons
        /\ ~moves => UNCHANGED <<rows, lastRow, latest, taught>>
        /\ moves => latest' = Published(rows', {word})
  BY <1>3
<1>6. PICK moves \in BOOLEAN :
        /\ groups' = IF moves THEN [WithLessons EXCEPT ![LessonGroup].version = @ + 1] ELSE WithLessons
        /\ ~moves => UNCHANGED <<rows, lastRow, latest, taught>>
        /\ moves => latest' = Published(rows', {word})
  BY <1>5
<1>7. /\ lastGroup' \in Nat /\ lastGroup <= lastGroup'
      /\ DOMAIN groups' = DOMAIN groups \cup {LessonGroup}
      /\ DOMAIN groups' \subseteq 1..lastGroup' /\ groups' \in [DOMAIN groups' -> Groups]
      /\ \A g \in DOMAIN groups : groups[g].version <= groups'[g].version
      /\ moves /\ LessonGroup \in DOMAIN groups =>
           groups[LessonGroup].version < groups'[LessonGroup].version
      /\ LessonGroup \in DOMAIN groups \/ LessonGroup = lastGroup + 1
      /\ GroupsSound'
  BY <1>2, <1>6, LessonGroups
<1>8. /\ lastRow' \in Nat /\ lastRow <= lastRow' /\ DOMAIN rows' \subseteq 1..lastRow'
      /\ rows' \in [DOMAIN rows' -> Rows(DOMAIN groups \cup {LessonGroup})]
      /\ \A i \in DOMAIN rows \cap DOMAIN rows' : rows'[i] = rows[i]
      /\ \A i \in DOMAIN rows \ DOMAIN rows' : rows[i].word = word
      /\ \A i \in DOMAIN rows' \ DOMAIN rows :
           i = lastRow + 1 /\ rows'[i].word = word /\ rows'[i].group = LessonGroup
      /\ taught' \subseteq 1..lastRow' /\ taught' \subseteq taught \cup {lastRow + 1}
      /\ draft = FALSE => taught' = taught
      /\ lastRow + 1 \in taught' \cap DOMAIN rows' => moves
  <2>1. CASE rows' = rows /\ latest' = latest /\ ~moves
    <3>1. rows \in [DOMAIN rows -> Rows(DOMAIN groups \cup {LessonGroup})]
      BY <1>4 DEF Rows
    <3>2. lastRow + 1 \notin taught /\ lastRow' = lastRow /\ taught' = taught
      BY <1>4, <1>6, <2>1
    <3>3. rows' \in [DOMAIN rows' -> Rows(DOMAIN groups \cup {LessonGroup})]
      BY <2>1, <3>1
    <3>4. /\ lastRow' \in Nat /\ lastRow <= lastRow' /\ DOMAIN rows' \subseteq 1..lastRow'
          /\ taught' \subseteq 1..lastRow' /\ taught' \subseteq taught \cup {lastRow + 1}
      BY <1>4, <2>1, <3>2
    <3> QED BY <2>1, <3>2, <3>3, <3>4
  <2>2. CASE moves
    <3>1. latest' # latest
      <4>1. Published(rows', {word}).revision = latest.revision + 1
        BY DEF Published
      <4>2. latest.revision \in Nat
        BY <1>4 DEF Snapshots
      <4> QED BY <1>6, <2>2, <4>1, <4>2
    <3> QED BY <2>2, <3>1, LessonRows
  <2> QED BY <1>6, <2>1, <2>2
<1>9. /\ latest' \in Snapshots /\ \A w \in Words : latest'.reading[w] = Effective(rows', w)
  <2>1. CASE moves
    <3>1. \A w \in Words \ {word} : Effective(rows', w) = Effective(rows, w)
      <4>1. TAKE w \in Words \ {word}
      <4>2. \A i : i \in DOMAIN rows' /\ rows'[i].word = w <=> i \in DOMAIN rows /\ rows[i].word = w
        BY <1>8
      <4>3. \A i \in DOMAIN rows' :
              rows'[i].word = w => rows'[i].group = rows[i].group /\ rows'[i].reading = rows[i].reading
        BY <1>8
      <4> QED BY <4>2, <4>3, ReadByItsRows
    <3>2. TablesType /\ SnapshotAgrees
      BY DEF DictInv
    <3>3. /\ Published(rows', {word}) \in Snapshots
          /\ \A w \in Words : Published(rows', {word}).reading[w] = Effective(rows', w)
      BY <1>8, <3>1, <3>2, PublishedAgrees
    <3> QED BY <1>6, <2>1, <3>3
  <2>2. CASE ~moves
    BY <1>4, <1>6, <2>2 DEF DictInv, SnapshotAgrees
  <2> QED BY <2>1, <2>2
<1>10. TablesType'
  BY <1>7, <1>8, <1>9 DEF TablesType
<1>11. SnapshotAgrees'
  BY <1>9 DEF SnapshotAgrees
<1>12. DraftType'
  <2>1. 1..lastGroup \subseteq 1..lastGroup' /\ 1..lastRow \subseteq 1..lastRow'
    BY <1>4, <1>7, <1>8
  <2> QED BY <1>1, <1>4, <1>8, <2>1 DEF DictInv, DraftType
<1>13. NewIdsInRow' /\ SomeOpen'
  BY <1>1 DEF DictInv, NewIdsInRow, NewIds, SomeOpen, Open
<1>14. Closed'
  BY <1>1, <1>8 DEF DictInv, Closed, DraftType
<1>15. ASSUME NEW g \in DOMAIN draftGroups, g \in DOMAIN groups'
       PROVE  g \in DOMAIN groups
  BY <1>4, <1>7, <1>15 DEF Minus
<1>16. GroupsFollow'
  <2>1. ASSUME NEW g \in DOMAIN draftGroups
        PROVE  g \in DOMAIN groups' => draftGroups[g].base <= groups'[g].version
    <3>1. SUFFICES ASSUME g \in DOMAIN groups'
                   PROVE  draftGroups[g].base <= groups'[g].version
      OBVIOUS
    <3>2. /\ g \in DOMAIN groups /\ draftGroups[g].base <= groups[g].version
          /\ groups[g].version <= groups'[g].version
      BY <1>7, <1>15, <3>1 DEF DictInv, GroupsFollow
    <3>3. groups[g].version \in Nat /\ groups'[g].version \in Nat /\ draftGroups[g].base \in Int
      BY <1>4, <1>7, <3>1, <3>2 DEF Groups, DraftGroups
    <3> QED BY <3>2, <3>3
  <2> QED BY <1>1, <2>1 DEF DictInv, GroupsFollow
<1>17. RowsFollow'
  <2>1. \A i \in DOMAIN draftRows : i \in DOMAIN rows' => i \in DOMAIN rows /\ rows'[i].group = rows[i].group
    BY <1>4, <1>8 DEF Minus
  <2> QED BY <1>1, <2>1 DEF DictInv, RowsFollow
<1>18. LessonsAhead'
  <2>1. ASSUME NEW i \in taught' \cap DOMAIN rows', rows'[i].group \in DOMAIN draftGroups
        PROVE  draftGroups[rows'[i].group].base < groups'[rows'[i].group].version
    <3> DEFINE g == rows'[i].group
    <3>1. g \in DOMAIN groups' /\ g \in DOMAIN groups
      BY <1>7, <1>8, <1>15, <2>1 DEF Rows
    <3>2. groups[g].version \in Nat /\ groups'[g].version \in Nat /\ draftGroups[g].base \in Int
      BY <1>4, <1>7, <2>1, <3>1 DEF Groups, DraftGroups
    <3>3. groups[g].version <= groups'[g].version /\ draftGroups[g].base <= groups[g].version
      BY <1>7, <2>1, <3>1 DEF DictInv, GroupsFollow
    <3>4. CASE i \in DOMAIN rows
      <4>1. i \in taught /\ rows'[i] = rows[i]
        BY <1>4, <1>8, <3>4
      <4>2. draftGroups[g].base < groups[g].version
        BY <2>1, <3>4, <4>1 DEF DictInv, LessonsAhead
      <4> HIDE DEF g
      <4>3. draftGroups[g].base < groups'[g].version
        BY <3>2, <3>3, <4>2
      <4> QED BY <4>3 DEF g
    <3>5. CASE i \notin DOMAIN rows
      <4>1. i = lastRow + 1 /\ g = LessonGroup /\ moves
        BY <1>8, <3>5
      <4>2. groups[g].version < groups'[g].version
        BY <1>7, <3>1, <4>1
      <4> HIDE DEF g
      <4>3. draftGroups[g].base < groups'[g].version
        BY <3>2, <3>3, <4>2
      <4> QED BY <4>3 DEF g
    <3> QED BY <3>4, <3>5
  <2> QED BY <1>1, <2>1 DEF LessonsAhead
<1> QED BY <1>7, <1>10, <1>11, <1>12, <1>13, <1>14, <1>16, <1>17, <1>18 DEF DictInv

-----------------------------------------------------------------------------
(***************************************************************************)
(* A commit.  First what is left of the draft, and the identifiers that    *)
(* new groups and rows get.                                                *)
(***************************************************************************)
\* Ranks in a finite set of numbers differ and count from one.
LEMMA RankIs ==
  ASSUME NEW new \in SUBSET Int, IsFiniteSet(new)
  PROVE  /\ Cardinality(new) \in Nat
         /\ \A i \in new : Rank(i, new) \in 1..Cardinality(new)
         /\ \A i, j \in new : Rank(i, new) = Rank(j, new) => i = j
<1> DEFINE Above(i) == {j \in new : j >= i}
<1>1. ASSUME NEW i \in new
      PROVE  /\ IsFiniteSet(Above(i)) /\ Cardinality(Above(i)) \in Nat /\ Cardinality(Above(i)) <= Cardinality(new)
             /\ Cardinality(Above(i)) # 0 /\ Rank(i, new) = Cardinality(Above(i))
  <2>1. Above(i) \in SUBSET new
    OBVIOUS
  <2>2. IsFiniteSet(Above(i)) /\ Cardinality(Above(i)) <= Cardinality(new)
    BY <2>1, FS_Subset
  <2>3. i \in Above(i)
    OBVIOUS
  <2>4. Cardinality(Above(i)) # 0
    BY <2>2, <2>3, FS_EmptySet
  <2>5. Cardinality(Above(i)) \in Nat
    BY <2>2, FS_CardinalityType
  <2> QED BY <2>2, <2>4, <2>5 DEF Rank
<1>2. Cardinality(new) \in Nat
  BY FS_CardinalityType
<1>3. ASSUME NEW i \in new, NEW j \in new, i < j
      PROVE  Rank(i, new) # Rank(j, new)
  <2>1. Above(j) \in SUBSET Above(i)
    <3>1. \A k \in new : k >= j => k >= i
      BY <1>3
    <3> QED BY <3>1
  <2>2. i \in Above(i) /\ i \notin Above(j)
    BY <1>3
  <2>3. Cardinality(Above(i)) # Cardinality(Above(j))
    BY <1>1, <2>1, <2>2, FS_Subset
  <2> QED BY <1>1, <2>3
<1>4. \A i, j \in new : Rank(i, new) = Rank(j, new) => i = j
  <2>1. ASSUME NEW i \in new, NEW j \in new, i # j
        PROVE  Rank(i, new) # Rank(j, new)
    <3>1. i < j \/ j < i
      BY <2>1
    <3> QED BY <1>3, <3>1
  <2> QED BY <2>1
<1>5. \A i \in new : Rank(i, new) \in 1..Cardinality(new)
  <2>1. TAKE i \in new
  <2>2. /\ Cardinality(Above(i)) \in Nat /\ Cardinality(Above(i)) <= Cardinality(new)
        /\ Cardinality(Above(i)) # 0 /\ Rank(i, new) = Cardinality(Above(i))
    BY <1>1
  <2> HIDE DEF Above
  <2> QED BY <1>2, <2>2
<1> QED BY <1>2, <1>4, <1>5

\* What a commit finds in the draft is what was there, without what comes to
\* nothing; the groups that are removed are those of the database.
LEMMA TidyIs ==
  ASSUME DictInv
  PROVE  /\ DOMAIN TidyGroups \subseteq DOMAIN draftGroups /\ Open \subseteq DOMAIN TidyGroups
         /\ \A g \in DOMAIN TidyGroups :
              /\ TidyGroups[g] \in DraftGroups
              /\ TidyGroups[g].name = draftGroups[g].name /\ TidyGroups[g].base = draftGroups[g].base
              /\ TidyGroups[g].deleted = draftGroups[g].deleted
              /\ draftGroups[g].deleted = TRUE => TidyGroups[g].changed = TRUE
         /\ DOMAIN TidyRows \subseteq DOMAIN draftRows
         /\ \A i \in DOMAIN TidyRows : TidyRows[i] = draftRows[i] /\ ~ComesToNothing(i)
         /\ \A i \in DOMAIN draftRows : ~ComesToNothing(i) => i \in DOMAIN TidyRows
         /\ Removed = {g \in DOMAIN draftGroups : g > 0 /\ draftGroups[g].deleted}
         /\ AddedGroups = {g \in Open : g < 0}
<1>1. /\ draftGroups \in [DOMAIN draftGroups -> DraftGroups]
      /\ \A g \in DOMAIN draftGroups : g \in Int /\ g # 0
      /\ \A g \in DOMAIN draftGroups : draftGroups[g].deleted = TRUE => draftGroups[g].changed = TRUE
  BY DEF DictInv, DraftType, TablesType, GroupsFollow, Minus
<1>2. DOMAIN TidyGroups = {h \in DOMAIN draftGroups : ~(h < 0 /\ draftGroups[h].deleted)}
  BY DEF TidyGroups
<1>3. ASSUME NEW g \in DOMAIN TidyGroups
      PROVE  /\ TidyGroups[g] \in DraftGroups
             /\ TidyGroups[g].name = draftGroups[g].name /\ TidyGroups[g].base = draftGroups[g].base
             /\ TidyGroups[g].deleted = draftGroups[g].deleted
             /\ draftGroups[g].deleted = TRUE => TidyGroups[g].changed = TRUE
  <2>1. g \in DOMAIN draftGroups /\ draftGroups[g] \in DraftGroups
    BY <1>1, <1>2, <1>3
  <2>2. CASE Unrenamed(g)
    <3>1. TidyGroups[g] = [draftGroups[g] EXCEPT !.changed = FALSE]
      BY <1>2, <2>2, <1>3 DEF TidyGroups
    <3>2. draftGroups[g].deleted = FALSE
      BY <2>1, <2>2 DEF Unrenamed, DraftGroups
    <3> QED BY <2>1, <3>1, <3>2 DEF DraftGroups
  <2>3. CASE ~Unrenamed(g)
    <3>1. TidyGroups[g] = draftGroups[g]
      BY <1>2, <2>3, <1>3 DEF TidyGroups
    <3> QED BY <1>1, <2>1, <3>1
  <2> QED BY <2>2, <2>3
<1>4. /\ DOMAIN TidyRows = {i \in DOMAIN draftRows : ~ComesToNothing(i)}
      /\ \A i \in DOMAIN TidyRows : TidyRows[i] = draftRows[i]
  BY DEF TidyRows, Restrict
<1>5. Open \subseteq DOMAIN TidyGroups
  BY <1>2 DEF Open
<1>6. Removed = {g \in DOMAIN draftGroups : g > 0 /\ draftGroups[g].deleted}
  <2>1. ASSUME NEW g \in DOMAIN draftGroups
        PROVE  g \in DOMAIN TidyGroups /\ TidyGroups[g].deleted <=> g > 0 /\ draftGroups[g].deleted
    <3>1. g \in DOMAIN TidyGroups <=> ~(g < 0 /\ draftGroups[g].deleted)
      BY <1>2
    <3>2. g \in DOMAIN TidyGroups => TidyGroups[g].deleted = draftGroups[g].deleted
      BY <1>3
    <3>3. g > 0 <=> ~(g < 0)
      BY <1>1
    <3> QED BY <3>1, <3>2, <3>3
  <2>2. DOMAIN TidyGroups \subseteq DOMAIN draftGroups
    BY <1>2
  <2> QED BY <2>1, <2>2 DEF Removed
<1>7. AddedGroups = {g \in Open : g < 0}
  BY <1>2 DEF AddedGroups, Open
<1> QED BY <1>2, <1>3, <1>4, <1>5, <1>6, <1>7

\* New groups and rows are finitely many.
LEMMA NewAreFinite ==
  ASSUME DictInv
  PROVE  /\ AddedGroups \in SUBSET Int /\ IsFiniteSet(AddedGroups)
         /\ NewRows \in SUBSET Int /\ IsFiniteSet(NewRows)
<1>1. PICK n \in Nat : NewIds = (-n)..(-1)
  BY DEF DictInv, NewIdsInRow
<1>2. IsFiniteSet(NewIds)
  BY <1>1, FS_Interval
<1>3. AddedGroups \in SUBSET NewIds
  BY TidyIs DEF NewIds, AddedGroups
<1>4. NewRows \in SUBSET NewIds
  BY TidyIs DEF NewIds, NewRows
<1>5. NewIds \subseteq Int
  BY <1>1
<1> QED BY <1>2, <1>3, <1>4, <1>5, FS_Subset

\* The identifiers of new groups differ from each other and from all others.
LEMMA PlaceIs ==
  ASSUME DictInv
  PROVE  /\ Cardinality(AddedGroups) \in Nat
         /\ \A g \in AddedGroups : /\ g < 0 /\ g \in Open
                                   /\ Place(g) \in (lastGroup + 1)..(lastGroup + Cardinality(AddedGroups))
         /\ \A g, h \in AddedGroups : Place(g) = Place(h) => g = h
         /\ \A g \in Open : g > 0 => Place(g) = g /\ g <= lastGroup
         /\ \A g \in Open : g > 0 \/ g \in AddedGroups
<1>1. /\ lastGroup \in Nat /\ DOMAIN draftGroups \subseteq 1..lastGroup \cup Minus
  BY DEF DictInv, TablesType, DraftType
<1>2. AddedGroups = {g \in Open : g < 0} /\ Open \subseteq DOMAIN draftGroups
  BY TidyIs DEF Open
<1>3. \A g \in AddedGroups : Place(g) = lastGroup + Rank(g, AddedGroups)
  BY <1>1, <1>2 DEF Place, Minus
<1>4. /\ Cardinality(AddedGroups) \in Nat
      /\ \A i \in AddedGroups : Rank(i, AddedGroups) \in 1..Cardinality(AddedGroups)
      /\ \A i, j \in AddedGroups : Rank(i, AddedGroups) = Rank(j, AddedGroups) => i = j
  BY NewAreFinite, RankIs
<1>5. \A g \in AddedGroups : Place(g) \in (lastGroup + 1)..(lastGroup + Cardinality(AddedGroups))
  BY <1>1, <1>3, <1>4
<1>6. \A g, h \in AddedGroups : Place(g) = Place(h) => g = h
  BY <1>1, <1>3, <1>4
<1>7. \A g \in Open : g > 0 => Place(g) = g /\ g <= lastGroup
  BY <1>1, <1>2 DEF Place, Minus
<1>8. \A g \in Open : g > 0 \/ g \in AddedGroups
  BY <1>1, <1>2 DEF Minus
<1> QED BY <1>2, <1>4, <1>5, <1>6, <1>7, <1>8

\* So do those of new rows.
LEMMA RowPlaceIs ==
  ASSUME DictInv
  PROVE  /\ Cardinality(NewRows) \in Nat
         /\ \A i \in NewRows : RowPlace(i) \in (lastRow + 1)..(lastRow + Cardinality(NewRows))
         /\ \A i, j \in NewRows : RowPlace(i) = RowPlace(j) => i = j
<1>1. lastRow \in Nat
  BY DEF DictInv, TablesType
<1>2. /\ Cardinality(NewRows) \in Nat
      /\ \A i \in NewRows : Rank(i, NewRows) \in 1..Cardinality(NewRows)
      /\ \A i, j \in NewRows : Rank(i, NewRows) = Rank(j, NewRows) => i = j
  BY NewAreFinite, RankIs
<1>3. \A i \in NewRows : RowPlace(i) \in (lastRow + 1)..(lastRow + Cardinality(NewRows))
  BY <1>1, <1>2 DEF RowPlace
<1>4. \A i, j \in NewRows : RowPlace(i) = RowPlace(j) => i = j
  BY <1>1, <1>2 DEF RowPlace
<1> QED BY <1>2, <1>3, <1>4

\* The groups that are saved: those that are kept and those that are new.  One
\* that the draft shows is there under its name, unless it had gone.
LEMMA SavedGroupsAre ==
  ASSUME DictInv, ~GroupConflict
  PROVE  /\ DOMAIN SavedGroups = KeptGroups \cup {Place(g) : g \in AddedGroups}
         /\ DOMAIN SavedGroups \subseteq 1..(lastGroup + Cardinality(AddedGroups))
         /\ SavedGroups \in [DOMAIN SavedGroups -> Groups]
         /\ \A g \in Open : /\ Place(g) \in DOMAIN SavedGroups
                            /\ SavedGroups[Place(g)].name = draftGroups[g].name
<1> DEFINE new == {Place(g) : g \in AddedGroups}
           Of(id) == CHOOSE g \in AddedGroups : Place(g) = id
           kept == [g \in KeptGroups |-> KeptGroup(g)]
           added == [id \in new |-> AddedGroup(Of(id))]
<1>1. /\ lastGroup \in Nat /\ DOMAIN groups \subseteq 1..lastGroup /\ groups \in [DOMAIN groups -> Groups]
      /\ KeptGroups \subseteq DOMAIN groups
  BY DEF DictInv, TablesType, KeptGroups
<1>2. /\ Cardinality(AddedGroups) \in Nat
      /\ \A g \in AddedGroups : /\ g < 0 /\ g \in Open
                                /\ Place(g) \in (lastGroup + 1)..(lastGroup + Cardinality(AddedGroups))
      /\ \A g, h \in AddedGroups : Place(g) = Place(h) => g = h
      /\ \A g \in Open : g > 0 => Place(g) = g /\ g <= lastGroup
      /\ \A g \in Open : g > 0 \/ g \in AddedGroups
  BY PlaceIs
<1>3. /\ Open \subseteq DOMAIN TidyGroups
      /\ \A g \in DOMAIN TidyGroups : /\ TidyGroups[g] \in DraftGroups
                                      /\ TidyGroups[g].name = draftGroups[g].name
                                      /\ TidyGroups[g].deleted = draftGroups[g].deleted
      /\ Removed = {g \in DOMAIN draftGroups : g > 0 /\ draftGroups[g].deleted}
  BY TidyIs
<1>4. \A g \in AddedGroups : Of(Place(g)) = g
  BY <1>2
<1>5. \A g \in KeptGroups : KeptGroup(g) \in Groups
  <2>1. TAKE g \in KeptGroups
  <2>2. groups[g].name \in Names /\ groups[g].version \in Nat /\ Bumps(g) \in Nat
    BY <1>1 DEF Groups, Bumps
  <2>3. g \in DOMAIN TidyGroups => TidyGroups[g].name \in Names
    BY <1>3 DEF DraftGroups
  <2>4. groups[g].version + Bumps(g) \in Nat
    BY <2>2
  <2> QED BY <2>2, <2>3, <2>4 DEF KeptGroup, Groups
<1>6. \A g \in AddedGroups : AddedGroup(g) \in Groups /\ AddedGroup(g).name = draftGroups[g].name
  <2>1. \A g \in AddedGroups : TidyGroups[g].name \in Names /\ TidyGroups[g].name = draftGroups[g].name
    BY <1>2, <1>3 DEF DraftGroups
  <2> QED BY <2>1 DEF AddedGroup, Groups
<1>7. SavedGroups = Over(kept, added)
  BY DEF SavedGroups
<1>8. kept \in [KeptGroups -> Groups] /\ DOMAIN kept = KeptGroups
  BY <1>5
<1>9. added \in [new -> Groups] /\ DOMAIN added = new
  <2>1. \A id \in new : Of(id) \in AddedGroups
    BY <1>4
  <2> HIDE DEF Of, new
  <2> QED BY <1>6, <2>1
<1>10. /\ DOMAIN SavedGroups = KeptGroups \cup new
       /\ SavedGroups \in [DOMAIN SavedGroups -> Groups]
       /\ \A g \in KeptGroups : SavedGroups[g] = kept[g]
       /\ \A id \in new : id \notin KeptGroups => SavedGroups[id] = added[id]
  <2> HIDE DEF kept, added, new
  <2>1. DOMAIN SavedGroups = KeptGroups \cup new
    BY <1>7, <1>8, <1>9 DEF Over
  <2>2. SavedGroups \in [DOMAIN SavedGroups -> Groups]
    BY <1>7, <1>8, <1>9, <2>1, OverIn
  <2> QED BY <1>7, <1>8, <1>9, <2>1, <2>2 DEF Over
<1>11. DOMAIN SavedGroups \subseteq 1..(lastGroup + Cardinality(AddedGroups))
  <2>1. KeptGroups \subseteq 1..(lastGroup + Cardinality(AddedGroups))
    BY <1>1, <1>2
  <2>2. new \subseteq 1..(lastGroup + Cardinality(AddedGroups))
    BY <1>1, <1>2
  <2> QED BY <1>10, <2>1, <2>2
<1>12. ASSUME NEW g \in Open
       PROVE  /\ Place(g) \in DOMAIN SavedGroups /\ SavedGroups[Place(g)].name = draftGroups[g].name
  <2>1. CASE g > 0
    <3>1. g \in DOMAIN TidyGroups /\ TidyGroups[g].deleted = draftGroups[g].deleted /\ ~draftGroups[g].deleted
      BY <1>3 DEF Open
    <3>2. g \in DOMAIN groups
      BY <2>1, <3>1 DEF GroupConflict
    <3>3. g \in KeptGroups
      BY <1>3, <3>1, <3>2 DEF KeptGroups
    <3>4. KeptGroup(g).name = draftGroups[g].name
      BY <1>3, <3>1 DEF KeptGroup
    <3>5. Place(g) = g
      BY <1>2, <2>1
    <3>6. SavedGroups[g] = KeptGroup(g) /\ g \in DOMAIN SavedGroups
      BY <1>8, <1>10, <3>3
    <3> QED BY <3>4, <3>5, <3>6
  <2>2. CASE g \in AddedGroups
    <3>1. Place(g) \in new /\ Place(g) \notin KeptGroups
      BY <1>1, <1>2, <2>2
    <3>2. SavedGroups[Place(g)] = AddedGroup(g)
      BY <1>4, <1>10, <2>2, <3>1
    <3> QED BY <1>6, <1>10, <2>2, <3>1, <3>2
  <2> QED BY <1>2, <2>1, <2>2
<1> QED BY <1>10, <1>11, <1>12

\* The rows that are saved: those that are kept, as they were or as they were
\* edited, and those that are new; all of them in groups that are saved.
LEMMA SavedRowsAre ==
  ASSUME DictionaryAssumption, DictInv, ~GroupConflict, ~Unread
  PROVE  /\ DOMAIN SavedRows = KeptRows \cup {RowPlace(i) : i \in NewRows} /\ KeptRows \subseteq DOMAIN rows
         /\ DOMAIN SavedRows \subseteq 1..(lastRow + Cardinality(NewRows))
         /\ \A i \in KeptRows : SavedRows[i] = KeptRow(i)
         /\ \A i \in NewRows : RowPlace(i) \notin KeptRows /\ SavedRows[RowPlace(i)] = AddedRow(i)
         /\ SavedRows \in [DOMAIN SavedRows -> Rows(DOMAIN SavedGroups)]
<1> DEFINE new == {RowPlace(i) : i \in NewRows}
           Of(id) == CHOOSE i \in NewRows : RowPlace(i) = id
           kept == [i \in KeptRows |-> KeptRow(i)]
           added == [id \in new |-> AddedRow(Of(id))]
           ids == DOMAIN SavedGroups
<1>1. /\ lastRow \in Nat /\ DOMAIN rows \subseteq 1..lastRow /\ rows \in [DOMAIN rows -> Rows(DOMAIN groups)]
      /\ KeptRows \subseteq DOMAIN rows
  BY DEF DictInv, TablesType, KeptRows, Undeleted
<1>2. /\ Cardinality(NewRows) \in Nat
      /\ \A i \in NewRows : RowPlace(i) \in (lastRow + 1)..(lastRow + Cardinality(NewRows))
      /\ \A i, j \in NewRows : RowPlace(i) = RowPlace(j) => i = j
  BY RowPlaceIs
<1>3. /\ \A i \in DOMAIN TidyRows : /\ i \in DOMAIN draftRows /\ TidyRows[i] = draftRows[i]
                                    /\ TidyRows[i] \in DraftRows /\ ~ComesToNothing(i)
      /\ Removed = {g \in DOMAIN draftGroups : g > 0 /\ draftGroups[g].deleted}
  BY TidyIs DEF DictInv, DraftType
<1>4. /\ DOMAIN SavedGroups = KeptGroups \cup {Place(g) : g \in AddedGroups}
      /\ \A g \in Open : Place(g) \in DOMAIN SavedGroups
  BY SavedGroupsAre
<1>5. \A i \in NewRows : Of(RowPlace(i)) = i
  BY <1>2
<1>6. \A i \in KeptRows : KeptRow(i) \in Rows(ids)
  <2>1. TAKE i \in KeptRows
  <2>2. rows[i] \in Rows(DOMAIN groups) /\ i \in DOMAIN rows
    BY <1>1
  <2>3. rows[i].group \in ids
    BY <1>4, <2>2 DEF KeptGroups, KeptRows, Rows
  <2>4. CASE i \in EditedRows
    <3>1. /\ i \in DOMAIN TidyRows /\ ~TidyRows[i].deleted /\ TidyRows[i].word # Blank
          /\ TidyRows[i] \in DraftRows /\ TidyRows[i] = draftRows[i]
      BY <1>3, <2>4 DEF EditedRows
    <3>2. TidyRows[i].group = rows[i].group /\ TidyRows[i].group \in DOMAIN draftGroups
      BY <1>3, <2>2, <3>1 DEF DictInv, RowsFollow
    <3>3. rows[i].group > 0
      BY <2>2 DEF DictInv, TablesType, Rows
    <3>4. TidyRows[i].group \in Open
      BY <1>3, <3>2, <3>3 DEF KeptRows, Open
    <3>5. TidyRows[i].reading # Blank
      BY <3>1, <3>4 DEF Unread
    <3>6. TidyRows[i].word \in Words /\ TidyRows[i].reading \in Readings
      BY <3>1, <3>5 DEF DraftRows
    <3>7. KeptRow(i) = [rows[i] EXCEPT !.word = TidyRows[i].word, !.reading = TidyRows[i].reading,
                                       !.version = @ + 1]
      BY <2>4 DEF KeptRow
    <3>8. rows[i].version \in Nat /\ rows[i] = [group |-> rows[i].group, word |-> rows[i].word,
                                               reading |-> rows[i].reading, version |-> rows[i].version]
      BY <2>2 DEF Rows
    <3>9. KeptRow(i) = [group |-> rows[i].group, word |-> TidyRows[i].word,
                        reading |-> TidyRows[i].reading, version |-> rows[i].version + 1]
      BY <3>7, <3>8
    <3> HIDE DEF ids
    <3> QED BY <2>3, <3>6, <3>8, <3>9 DEF Rows
  <2>5. CASE i \notin EditedRows
    <3>1. KeptRow(i) = rows[i]
      BY <2>5 DEF KeptRow
    <3> QED BY <2>2, <2>3, <3>1 DEF Rows
  <2> QED BY <2>4, <2>5
<1>7. \A i \in NewRows : AddedRow(i) \in Rows(ids)
  <2>1. TAKE i \in NewRows
  <2>2. i \in DOMAIN TidyRows /\ i < 0 /\ TidyRows[i].group \in Open
    BY DEF NewRows
  <2>3. TidyRows[i] \in DraftRows /\ TidyRows[i] = draftRows[i] /\ ~ComesToNothing(i)
    BY <1>3, <2>2
  <2>4. ~TidyRows[i].deleted /\ TidyRows[i].word # Blank
    BY <2>2, <2>3 DEF ComesToNothing
  <2>5. TidyRows[i].reading # Blank
    BY <2>2, <2>4 DEF Unread
  <2>6. TidyRows[i].word \in Words /\ TidyRows[i].reading \in Readings
    BY <2>3, <2>4, <2>5 DEF DraftRows
  <2>7. Place(TidyRows[i].group) \in ids
    BY <1>4, <2>2
  <2> QED BY <2>6, <2>7 DEF AddedRow, Rows
<1>8. SavedRows = Over(kept, added)
  BY DEF SavedRows
<1> HIDE DEF ids
<1>9. kept \in [KeptRows -> Rows(ids)] /\ DOMAIN kept = KeptRows
  BY <1>6
<1>10. added \in [new -> Rows(ids)] /\ DOMAIN added = new
  <2>1. \A id \in new : Of(id) \in NewRows
    BY <1>5
  <2> HIDE DEF Of, new
  <2> QED BY <1>7, <2>1
<1>11. /\ DOMAIN SavedRows = KeptRows \cup new
       /\ SavedRows \in [DOMAIN SavedRows -> Rows(ids)]
       /\ \A i \in KeptRows : SavedRows[i] = kept[i]
       /\ \A id \in new : id \notin KeptRows => SavedRows[id] = added[id]
  <2> HIDE DEF kept, added, new
  <2>1. DOMAIN SavedRows = KeptRows \cup new
    BY <1>8, <1>9, <1>10 DEF Over
  <2>2. SavedRows \in [DOMAIN SavedRows -> Rows(ids)]
    BY <1>8, <1>9, <1>10, <2>1, OverIn
  <2> QED BY <1>8, <1>9, <1>10, <2>1, <2>2 DEF Over
<1>12. DOMAIN SavedRows \subseteq 1..(lastRow + Cardinality(NewRows))
  <2>1. KeptRows \subseteq 1..(lastRow + Cardinality(NewRows))
    BY <1>1, <1>2
  <2>2. new \subseteq 1..(lastRow + Cardinality(NewRows))
    BY <1>1, <1>2
  <2> QED BY <1>11, <2>1, <2>2
<1>13. \A i \in KeptRows : SavedRows[i] = KeptRow(i)
  BY <1>11
<1>14. \A i \in NewRows : RowPlace(i) \notin KeptRows /\ SavedRows[RowPlace(i)] = AddedRow(i)
  <2>1. TAKE i \in NewRows
  <2>2. RowPlace(i) \notin KeptRows /\ RowPlace(i) \in new
    BY <1>1, <1>2
  <2>3. SavedRows[RowPlace(i)] = AddedRow(Of(RowPlace(i)))
    BY <1>11, <2>2
  <2> QED BY <1>5, <2>2, <2>3
<1> QED BY <1>1, <1>11, <1>12, <1>13, <1>14 DEF ids

\* A word that is not affected is read as before.
LEMMA UnaffectedRead ==
  ASSUME DictionaryAssumption, DictInv, ~GroupConflict, ~Unread, NEW w, w \notin Affected
  PROVE  Effective(SavedRows, w) = Effective(rows, w)
<1>1. /\ DOMAIN SavedRows = KeptRows \cup {RowPlace(i) : i \in NewRows} /\ KeptRows \subseteq DOMAIN rows
      /\ \A i \in KeptRows : SavedRows[i] = KeptRow(i)
      /\ \A i \in NewRows : RowPlace(i) \notin KeptRows /\ SavedRows[RowPlace(i)] = AddedRow(i)
  BY SavedRowsAre
<1>2. \A i \in DOMAIN TidyRows : TidyRows[i].word # w /\ (i \in DOMAIN rows => rows[i].word # w)
  BY DEF Affected, AffectedRows
<1>3. \A i \in DOMAIN rows : rows[i].word = w => rows[i].group \notin Removed
  BY DEF Affected, AffectedNow
<1>4. ASSUME NEW i \in DOMAIN rows, rows[i].word = w
      PROVE  i \in DOMAIN SavedRows /\ SavedRows[i] = rows[i]
  <2>1. i \notin DOMAIN TidyRows /\ rows[i].group \notin Removed
    BY <1>2, <1>3, <1>4
  <2>2. i \in KeptRows /\ i \notin EditedRows
    BY <2>1 DEF KeptRows, Undeleted, EditedRows
  <2> QED BY <1>1, <2>2 DEF KeptRow
<1>5. ASSUME NEW i \in DOMAIN SavedRows, SavedRows[i].word = w
      PROVE  i \in DOMAIN rows /\ SavedRows[i] = rows[i]
  <2>1. CASE i \in KeptRows
    <3>1. i \notin EditedRows
      <4>1. SUFFICES ASSUME i \in EditedRows
                     PROVE  FALSE
        OBVIOUS
      <4>2. i \in DOMAIN TidyRows /\ i \in DOMAIN rows
        BY <1>1, <2>1, <4>1 DEF EditedRows
      <4>3. rows[i] \in Rows(DOMAIN groups)
        BY <4>2 DEF DictInv, TablesType
      <4>4. KeptRow(i).word = TidyRows[i].word
        BY <4>1, <4>3 DEF KeptRow, Rows
      <4> QED BY <1>1, <1>2, <1>5, <2>1, <4>2, <4>4
    <3> QED BY <1>1, <2>1, <3>1 DEF KeptRow
  <2>2. CASE i \notin KeptRows
    <3>1. PICK j \in NewRows : i = RowPlace(j)
      BY <1>1, <2>2
    <3>2. AddedRow(j).word = TidyRows[j].word
      BY DEF AddedRow
    <3>3. SavedRows[i] = AddedRow(j)
      BY <1>1, <3>1
    <3>4. j \in DOMAIN TidyRows
      BY DEF NewRows
    <3> QED BY <1>2, <1>5, <3>2, <3>3, <3>4
  <2> QED BY <2>1, <2>2
<1>6. \A i : i \in DOMAIN SavedRows /\ SavedRows[i].word = w <=> i \in DOMAIN rows /\ rows[i].word = w
  BY <1>4, <1>5
<1>7. \A i \in DOMAIN SavedRows :
        SavedRows[i].word = w => SavedRows[i].group = rows[i].group /\ SavedRows[i].reading = rows[i].reading
  BY <1>5
<1> QED BY <1>6, <1>7, ReadByItsRows

\* A commit that finds nothing changed leaves the rows, and affects no word.
LEMMA NothingChanged ==
  ASSUME DictionaryAssumption, DictInv, ~GroupConflict, ~Unread, ~Changed
  PROVE  SavedRows = rows /\ Affected = {}
<1>1. DOMAIN TidyRows = {}
  <2>1. TidyRows = NoRows
    BY DEF Changed
  <2> QED BY <2>1 DEF NoRows
<1>2. Removed = {}
  <2>1. \A g \in DOMAIN TidyGroups : /\ TidyGroups[g].deleted = draftGroups[g].deleted
                                     /\ draftGroups[g].deleted = TRUE => TidyGroups[g].changed = TRUE
                                     /\ TidyGroups[g] \in DraftGroups
    BY TidyIs
  <2>2. \A g \in DOMAIN TidyGroups : ~TidyGroups[g].changed
    BY DEF Changed
  <2>3. \A g \in DOMAIN TidyGroups : TidyGroups[g].deleted = FALSE
    BY <2>1, <2>2 DEF DraftGroups
  <2> QED BY <2>3 DEF Removed
<1>3. Affected = {}
  BY <1>1, <1>2 DEF Affected, AffectedRows, AffectedNow
<1>4. KeptRows = DOMAIN rows /\ NewRows = {} /\ EditedRows = {}
  BY <1>1, <1>2 DEF KeptRows, Undeleted, EditedRows, NewRows
<1>5. /\ DOMAIN SavedRows = DOMAIN rows
      /\ \A i \in DOMAIN rows : SavedRows[i] = rows[i]
  <2>1. /\ DOMAIN SavedRows = KeptRows \cup {RowPlace(i) : i \in NewRows}
        /\ \A i \in KeptRows : SavedRows[i] = KeptRow(i)
    BY SavedRowsAre
  <2> QED BY <1>4, <2>1 DEF KeptRow
<1>6. SavedRows \in [DOMAIN SavedRows -> Rows(DOMAIN SavedGroups)] /\ rows \in [DOMAIN rows -> Rows(DOMAIN groups)]
  BY SavedRowsAre DEF DictInv, TablesType
<1>7. SavedRows = rows
  <2> DEFINE f == SavedRows
             S == Rows(DOMAIN SavedGroups)
             T == Rows(DOMAIN groups)
  <2>1. f \in [DOMAIN f -> S] /\ rows \in [DOMAIN rows -> T] /\ DOMAIN f = DOMAIN rows
        /\ \A i \in DOMAIN rows : f[i] = rows[i]
    BY <1>5, <1>6
  <2> HIDE DEF f, S, T
  <2>2. f = rows
    BY <2>1
  <2> QED BY <2>2 DEF f
<1> QED BY <1>3, <1>7

\* A commit keeps the invariant.
LEMMA CommitKeeps ==
  ASSUME DictionaryAssumption, DictInv, Commit
  PROVE  DictInv'
<1>1. /\ draft /\ draft' = FALSE /\ draftGroups' = NoRows /\ draftRows' = NoRows /\ taught' = {}
      /\ ~GroupConflict /\ ~RowConflict /\ ~Unread /\ DistinctNames(SavedGroups)
      /\ groups' = SavedGroups /\ rows' = SavedRows
      /\ lastGroup' = lastGroup + Cardinality(AddedGroups) /\ lastRow' = lastRow + Cardinality(NewRows)
      /\ latest' = IF Changed THEN Published(SavedRows, Affected) ELSE latest
  BY DEF Commit
<1>2. /\ DOMAIN SavedGroups \subseteq 1..(lastGroup + Cardinality(AddedGroups))
      /\ SavedGroups \in [DOMAIN SavedGroups -> Groups]
      /\ \A g \in Open : Place(g) \in DOMAIN SavedGroups
  BY <1>1, SavedGroupsAre
<1>3. /\ DOMAIN SavedRows \subseteq 1..(lastRow + Cardinality(NewRows))
      /\ SavedRows \in [DOMAIN SavedRows -> Rows(DOMAIN SavedGroups)]
  BY <1>1, SavedRowsAre
<1>4. lastGroup' \in Nat /\ lastRow' \in Nat
  <2>1. Cardinality(AddedGroups) \in Nat /\ lastGroup \in Nat /\ lastRow \in Nat
    BY PlaceIs DEF DictInv, TablesType
  <2>2. Cardinality(NewRows) \in Nat
    BY RowPlaceIs
  <2> QED BY <1>1, <2>1, <2>2
<1>5. latest' \in Snapshots /\ \A w \in Words : latest'.reading[w] = Effective(SavedRows, w)
  <2>1. \A w \in Words \ Affected : Effective(SavedRows, w) = Effective(rows, w)
    BY <1>1, UnaffectedRead
  <2>2. TablesType /\ SnapshotAgrees
    BY DEF DictInv
  <2>3. CASE Changed
    <3>1. /\ Published(SavedRows, Affected) \in Snapshots
          /\ \A w \in Words : Published(SavedRows, Affected).reading[w] = Effective(SavedRows, w)
      BY <1>3, <2>1, <2>2, PublishedAgrees
    <3> QED BY <1>1, <2>3, <3>1
  <2>4. CASE ~Changed
    <3>1. SavedRows = rows
      BY <1>1, <2>4, NothingChanged
    <3>2. latest' = latest
      BY <1>1, <2>4
    <3> QED BY <2>2, <3>1, <3>2 DEF TablesType, SnapshotAgrees
  <2> QED BY <2>3, <2>4
<1>6. TablesType'
  BY <1>1, <1>2, <1>3, <1>4, <1>5 DEF TablesType
<1>7. SnapshotAgrees'
  BY <1>1, <1>5 DEF SnapshotAgrees
<1>8. GroupsSound'
  <2>1. Open # {}
    BY <1>1 DEF DictInv, SomeOpen
  <2>2. DOMAIN SavedGroups # {} /\ DOMAIN NoRows = {}
    BY <1>2, <2>1 DEF NoRows
  <2>3. groups' # NoRows
    BY <1>1, <2>2
  <2> QED BY <1>1, <2>3 DEF GroupsSound, DistinctNames
<1> QED BY <1>1, <1>6, <1>7, <1>8, ClosedIsEmpty DEF DictInv

-----------------------------------------------------------------------------
(***************************************************************************)
(* Every step keeps the invariant.                                         *)
(***************************************************************************)
\* The entry that an edit of a shown row leaves is one of a draft.
LEMMA EntryKeeps ==
  ASSUME DictInv, NEW g \in Open, NEW i \in Shown(g), NEW entry,
         \/ entry = [Drafted(i) EXCEPT !.deleted = TRUE]
         \/ \E word \in Words \cup {Blank}, reading \in Readings \cup {Blank} :
              entry = [Drafted(i) EXCEPT !.word = word, !.reading = reading],
         Edit(i, entry)
  PROVE  DictInv'
<1>1. Drafted(i) \in DraftRows
  BY DraftedIs
<1>2. entry \in DraftRows /\ entry.group = Drafted(i).group
  BY <1>1 DEF DraftRows
<1> QED BY <1>2, EditKeeps

\* Whatever the dialog asks of its draft keeps the invariant.
LEMMA EditingKeeps ==
  ASSUME DictionaryAssumption, DictInv, Editing
  PROVE  DictInv'
<1>1. CASE List
  BY <1>1, ListKeeps
<1>2. CASE Discard
  BY <1>2, DiscardKeeps
<1>3. CASE Commit
  BY <1>3, CommitKeeps
<1>4. ASSUME NEW name \in Names, AddGroup(name)
      PROVE  DictInv'
  BY <1>4, AddGroupKeeps
<1>5. ASSUME NEW name \in Names, NEW g \in Open, RenameGroup(g, name)
      PROVE  DictInv'
  BY <1>5, RenameKeeps
<1>6. ASSUME NEW name \in Names, NEW word \in Words, NEW reading \in Readings,
             ImportGroup(name, word, reading)
      PROVE  DictInv'
  BY <1>6, ImportKeeps
<1>7. ASSUME NEW g \in Open, DeleteGroup(g)
      PROVE  DictInv'
  BY <1>7, DeleteKeeps
<1>8. ASSUME NEW g \in Open, NEW word \in Words \cup {Blank}, NEW reading \in Readings \cup {Blank},
             AppendRow(g, word, reading)
      PROVE  DictInv'
  BY <1>8, AppendKeeps
<1>9. ASSUME NEW g \in Open, NEW i \in Shown(g),
             Edit(i, [Drafted(i) EXCEPT !.deleted = TRUE])
      PROVE  DictInv'
  BY <1>9, EntryKeeps
<1>10. ASSUME NEW g \in Open, NEW i \in Shown(g),
              NEW word \in Words \cup {Blank}, NEW reading \in Readings \cup {Blank},
              Edit(i, [Drafted(i) EXCEPT !.word = word, !.reading = reading])
       PROVE  DictInv'
  BY <1>10, EntryKeeps
<1>11. Blank \in Words \cup {Blank} /\ Blank \in Readings \cup {Blank}
  OBVIOUS
<1> QED BY <1>1, <1>2, <1>3, <1>4, <1>5, <1>6, <1>7, <1>8, <1>9, <1>10, <1>11 DEF Editing

\* The invariant is inductive.
LEMMA DictKeeps ==
  ASSUME DictionaryAssumption, DictInv, [Next]_vars
  PROVE  DictInv'
<1>1. CASE Begin
  BY <1>1, BeginKeeps
<1>2. CASE Restart
  BY <1>2, RestartKeeps
<1>3. CASE Editing
  BY <1>3, EditingKeeps
<1>4. ASSUME NEW word \in Words, NEW reading \in Readings \cup {NoReading}, Educate(word, reading)
      PROVE  DictInv'
  BY <1>4, EducateKeeps
<1>5. CASE UNCHANGED vars
  <2>1. UNCHANGED <<base, edits, latest, taught>>
    BY <1>5 DEF vars
  <2>2. TablesType' /\ SnapshotAgrees' /\ GroupsSound'
    BY <2>1, TablesStay DEF DictInv
  <2>3. DraftType' /\ NewIdsInRow' /\ Closed' /\ SomeOpen'
    BY <2>1 DEF DictInv, DraftType, NewIdsInRow, NewIds, Closed, SomeOpen, Open, base, edits
  <2>4. GroupsFollow' /\ RowsFollow' /\ LessonsAhead'
    BY <2>1 DEF DictInv, GroupsFollow, RowsFollow, LessonsAhead, base, edits
  <2> QED BY <2>2, <2>3, <2>4 DEF DictInv
<1> QED BY <1>1, <1>2, <1>3, <1>4, <1>5 DEF Next

\* DictInv holds in every state.
LEMMA DictAlways == Spec => []DictInv
<1>1. Init => DictInv
  BY DictionaryAssumption, DictInit
<1>2. DictInv /\ [Next]_vars => DictInv'
  BY DictionaryAssumption, DictKeeps
<1> QED BY <1>1, <1>2, PTL DEF Spec

\* The snapshot says for every word what the rows say, and the groups are
\* sound (native/src/dictionary/draft.rs:279-289, 401-420).
THEOREM SnapshotIsRight == Spec => []TablesSound
<1>1. DictInv => TablesSound
  BY DEF DictInv, TablesSound
<1> QED BY <1>1, DictAlways, PTL

-----------------------------------------------------------------------------
(***************************************************************************)
(* A commit is faithful.                                                   *)
(***************************************************************************)
\* Two groups that the draft shows do not become one.
LEMMA PlacesDiffer ==
  ASSUME DictInv, NEW g \in Open, NEW h \in Open, Place(g) = Place(h)
  PROVE  g = h
<1>1. /\ Cardinality(AddedGroups) \in Nat /\ lastGroup \in Nat
      /\ \A k \in AddedGroups : Place(k) \in (lastGroup + 1)..(lastGroup + Cardinality(AddedGroups))
      /\ \A k, l \in AddedGroups : Place(k) = Place(l) => k = l
      /\ \A k \in Open : k > 0 => Place(k) = k /\ k <= lastGroup
      /\ \A k \in Open : k > 0 \/ k \in AddedGroups
  BY PlaceIs DEF DictInv, TablesType
<1>2. g \in Int /\ h \in Int
  BY DEF DictInv, DraftType, TablesType, Open, Minus
<1>3. \A k \in AddedGroups : Place(k) > lastGroup
  BY <1>1
<1>4. CASE g > 0 /\ h > 0
  BY <1>1, <1>4
<1>5. CASE g \in AddedGroups /\ h \in AddedGroups
  BY <1>1, <1>5
<1>6. CASE g > 0 /\ h \in AddedGroups
  <2>1. Place(g) <= lastGroup /\ Place(g) \in Int
    BY <1>1, <1>2, <1>6
  <2> QED BY <1>1, <1>3, <1>6, <2>1
<1>7. CASE g \in AddedGroups /\ h > 0
  <2>1. Place(h) <= lastGroup /\ Place(h) \in Int
    BY <1>1, <1>2, <1>7
  <2> QED BY <1>1, <1>3, <1>7, <2>1
<1> QED BY <1>1, <1>4, <1>5, <1>6, <1>7

\* A row that a commit keeps stays in its group, and has the word and the
\* reading that the draft gave it, if it did.
LEMMA KeptRowIs ==
  ASSUME DictInv, NEW i \in KeptRows
  PROVE  /\ i \in DOMAIN rows /\ KeptRow(i).group = rows[i].group
         /\ i \in EditedRows => /\ KeptRow(i).word = TidyRows[i].word
                                /\ KeptRow(i).reading = TidyRows[i].reading
         /\ i \notin EditedRows => KeptRow(i) = rows[i]
<1>1. i \in DOMAIN rows /\ rows[i] \in Rows(DOMAIN groups)
  BY DEF KeptRows, Undeleted, DictInv, TablesType
<1>2. CASE i \in EditedRows
  <2>1. KeptRow(i) = [rows[i] EXCEPT !.word = TidyRows[i].word, !.reading = TidyRows[i].reading,
                                     !.version = @ + 1]
    BY <1>2 DEF KeptRow
  <2> QED BY <1>1, <1>2, <2>1 DEF Rows
<1>3. CASE i \notin EditedRows
  <2>1. KeptRow(i) = rows[i]
    BY <1>3 DEF KeptRow
  <2> QED BY <1>1, <1>3, <2>1
<1> QED BY <1>2, <1>3

\* A row of the database that comes to nothing in the draft says there what
\* it says in the database; a new one was not to be kept.
LEMMA NothingComesOf ==
  ASSUME DictInv, NEW i \in DOMAIN draftRows, ComesToNothing(i), draftRows[i].group \in Open \/ i > 0
  PROVE  \/ i < 0 /\ (draftRows[i].deleted \/ draftRows[i].word = Blank)
         \/ /\ i \in DOMAIN rows /\ ~draftRows[i].deleted
            /\ draftRows[i].word = rows[i].word /\ draftRows[i].reading = rows[i].reading
            /\ draftRows[i].group = rows[i].group
<1>1. i \in Int /\ draftRows[i].group \in DOMAIN draftGroups /\ (i > 0 => draftRows[i].group > 0)
      /\ (i \in DOMAIN rows => draftRows[i].group = rows[i].group)
  BY DEF DictInv, DraftType, TablesType, RowsFollow, Minus
<1>2. draftRows[i].group \in Int
  BY DEF DictInv, DraftType, DraftRows
<1>3. ~(draftRows[i].group < 0 /\ draftGroups[draftRows[i].group].deleted)
  BY <1>1, <1>2 DEF Open
<1> QED BY <1>1, <1>3 DEF ComesToNothing, Unedited, SameWord

\* What a commit saves for a group was shown for it.
LEMMA SavedWasShown ==
  ASSUME DictionaryAssumption, DictInv, ~GroupConflict, ~Unread, NEW g \in Open,
         NEW i \in DOMAIN SavedRows, SavedRows[i].group = Place(g)
  PROVE  <<SavedRows[i].word, SavedRows[i].reading>> \in ShownContent(g)
<1>1. /\ DOMAIN SavedRows = KeptRows \cup {RowPlace(j) : j \in NewRows} /\ KeptRows \subseteq DOMAIN rows
      /\ \A j \in KeptRows : SavedRows[j] = KeptRow(j)
      /\ \A j \in NewRows : RowPlace(j) \notin KeptRows /\ SavedRows[RowPlace(j)] = AddedRow(j)
  BY SavedRowsAre
<1>2. \A j \in DOMAIN TidyRows : j \in DOMAIN draftRows /\ TidyRows[j] = draftRows[j] /\ ~ComesToNothing(j)
  BY TidyIs
<1>3. CASE i \in KeptRows
  <2>1. /\ i \in DOMAIN rows /\ rows[i].group = Place(g) /\ SavedRows[i] = KeptRow(i)
        /\ i \in EditedRows => /\ KeptRow(i).word = TidyRows[i].word
                               /\ KeptRow(i).reading = TidyRows[i].reading
        /\ i \notin EditedRows => KeptRow(i) = rows[i]
    BY <1>1, <1>3, KeptRowIs
  <2>2. /\ rows[i].group \in 1..lastGroup /\ lastGroup \in Nat /\ rows[i].word # Blank /\ i > 0
        /\ (i \in DOMAIN draftRows => draftRows[i].group = rows[i].group)
    BY <2>1 DEF DictInv, TablesType, Rows, RowsFollow, DictionaryAssumption
  <2>3. rows[i].group = g
    <3>1. g \notin AddedGroups
      <4>1. g \in AddedGroups => Place(g) > lastGroup
        BY <2>2, PlaceIs
      <4> QED BY <2>1, <2>2, <4>1
    <3>2. g > 0 /\ Place(g) = g
      BY <3>1, PlaceIs
    <3> QED BY <2>1, <3>2
  <2>4. CASE i \in EditedRows
    <3>1. /\ i \in DOMAIN TidyRows /\ ~TidyRows[i].deleted /\ TidyRows[i].word # Blank
          /\ i \in DOMAIN draftRows /\ TidyRows[i] = draftRows[i]
      BY <1>2, <2>4 DEF EditedRows
    <3>2. i \in Shown(g) \cap DOMAIN draftRows
      BY <2>2, <2>3, <3>1 DEF Shown
    <3>3. <<draftRows[i].word, draftRows[i].reading>> \in Content(draftRows, Shown(g) \cap DOMAIN draftRows)
      BY <3>1, <3>2 DEF Content
    <3> QED BY <2>1, <2>4, <3>1, <3>3 DEF ShownContent
  <2>5. CASE i \notin EditedRows /\ i \notin DOMAIN draftRows
    <3>1. i \in Shown(g) \ DOMAIN draftRows
      BY <2>1, <2>3, <2>5 DEF Shown
    <3>2. <<rows[i].word, rows[i].reading>> \in Content(rows, Shown(g) \ DOMAIN draftRows)
      BY <2>2, <3>1 DEF Content
    <3> QED BY <2>1, <2>5, <3>2 DEF ShownContent
  <2>6. CASE i \notin EditedRows /\ i \in DOMAIN draftRows
    <3>1. i \notin DOMAIN TidyRows
      BY <1>3, <2>6 DEF KeptRows, Undeleted
    <3>2. ComesToNothing(i)
      BY <2>6, <3>1, TidyIs
    <3>3. ~(i < 0)
      BY <2>1, <2>2 DEF DictInv, TablesType
    <3>4. /\ ~draftRows[i].deleted /\ draftRows[i].group = rows[i].group
          /\ draftRows[i].word = rows[i].word /\ draftRows[i].reading = rows[i].reading
      BY <2>2, <2>6, <3>2, <3>3, NothingComesOf
    <3>5. i \in Shown(g) \cap DOMAIN draftRows
      BY <2>3, <2>6, <3>4 DEF Shown
    <3>6. <<draftRows[i].word, draftRows[i].reading>> \in Content(draftRows, Shown(g) \cap DOMAIN draftRows)
      BY <2>2, <3>4, <3>5 DEF Content
    <3> QED BY <2>1, <2>6, <3>4, <3>6 DEF ShownContent
  <2> QED BY <2>4, <2>5, <2>6
<1>4. CASE i \notin KeptRows
  <2>1. PICK j \in NewRows : i = RowPlace(j)
    BY <1>1, <1>4
  <2>2. SavedRows[i] = AddedRow(j) /\ TidyRows[j].group \in Open /\ j < 0 /\ j \in DOMAIN TidyRows
    BY <1>1, <2>1 DEF NewRows
  <2>3. AddedRow(j).group = Place(TidyRows[j].group) /\ AddedRow(j).word = TidyRows[j].word
        /\ AddedRow(j).reading = TidyRows[j].reading
    BY DEF AddedRow
  <2>4. TidyRows[j].group = g
    BY <2>2, <2>3, PlacesDiffer
  <2>5. /\ j \in DOMAIN draftRows /\ TidyRows[j] = draftRows[j]
        /\ ~draftRows[j].deleted /\ draftRows[j].word # Blank
    BY <1>2, <2>2 DEF ComesToNothing
  <2>6. j \in Shown(g) \cap DOMAIN draftRows
    BY <2>4, <2>5 DEF Shown
  <2>7. <<draftRows[j].word, draftRows[j].reading>> \in Content(draftRows, Shown(g) \cap DOMAIN draftRows)
    BY <2>5, <2>6 DEF Content
  <2> QED BY <2>2, <2>3, <2>5, <2>7 DEF ShownContent
<1> QED BY <1>3, <1>4

\* What is shown for a group is saved for it.
LEMMA ShownIsSaved ==
  ASSUME DictionaryAssumption, DictInv, ~GroupConflict, ~RowConflict, ~Unread, NEW g \in Open,
         NEW x \in ShownContent(g)
  PROVE  \E i \in DOMAIN SavedRows : /\ SavedRows[i].group = Place(g) /\ SavedRows[i].word # Blank
                                     /\ x = <<SavedRows[i].word, SavedRows[i].reading>>
<1>1. /\ DOMAIN SavedRows = KeptRows \cup {RowPlace(j) : j \in NewRows}
      /\ \A j \in KeptRows : SavedRows[j] = KeptRow(j)
      /\ \A j \in NewRows : SavedRows[RowPlace(j)] = AddedRow(j)
  BY SavedRowsAre
<1>2. /\ \A j \in DOMAIN TidyRows : j \in DOMAIN draftRows /\ TidyRows[j] = draftRows[j]
      /\ \A j \in DOMAIN draftRows : ~ComesToNothing(j) => j \in DOMAIN TidyRows
      /\ Removed = {h \in DOMAIN draftGroups : h > 0 /\ draftGroups[h].deleted}
  BY TidyIs
<1>3. g \in DOMAIN draftGroups /\ ~draftGroups[g].deleted /\ g \notin Removed
  BY <1>2 DEF Open
<1>4. g > 0 => Place(g) = g
  BY PlaceIs
<1>5. \A i \in DOMAIN rows : i > 0 /\ rows[i].group > 0 /\ rows[i].word # Blank
  BY DEF DictInv, TablesType, Rows, DictionaryAssumption
<1>6. ASSUME NEW i \in DOMAIN rows, rows[i].group = g, i \notin DOMAIN TidyRows,
             x = <<rows[i].word, rows[i].reading>>
      PROVE  \E j \in DOMAIN SavedRows : /\ SavedRows[j].group = Place(g) /\ SavedRows[j].word # Blank
                                         /\ x = <<SavedRows[j].word, SavedRows[j].reading>>
  <2>1. i \in KeptRows /\ i \notin EditedRows
    BY <1>3, <1>6 DEF KeptRows, Undeleted, EditedRows
  <2>2. SavedRows[i] = rows[i] /\ i \in DOMAIN SavedRows
    BY <1>1, <2>1, KeptRowIs
  <2> QED BY <1>4, <1>5, <1>6, <2>2
<1>7. CASE x \in Content(rows, Shown(g) \ DOMAIN draftRows)
  <2>1. PICK i \in Shown(g) \ DOMAIN draftRows : x = <<rows[i].word, rows[i].reading>>
    BY <1>7 DEF Content
  <2>2. i \in DOMAIN rows /\ rows[i].group = g /\ i \notin DOMAIN TidyRows
    BY <1>2, <2>1 DEF Shown
  <2> QED BY <1>6, <2>1, <2>2
<1>8. CASE x \in Content(draftRows, Shown(g) \cap DOMAIN draftRows)
  <2>1. PICK i \in Shown(g) \cap DOMAIN draftRows : /\ x = <<draftRows[i].word, draftRows[i].reading>>
                                                    /\ draftRows[i].word # Blank
    BY <1>8 DEF Content
  <2>2. i \in DOMAIN draftRows /\ draftRows[i].group = g /\ ~draftRows[i].deleted
    BY <2>1 DEF Shown
  <2>3. i \in Int /\ i # 0 /\ (i \in DOMAIN rows => g = rows[i].group)
    BY <2>2 DEF DictInv, DraftType, TablesType, RowsFollow, Minus
  <2>4. CASE ComesToNothing(i)
    <3>1. /\ i \in DOMAIN rows /\ draftRows[i].word = rows[i].word
          /\ draftRows[i].reading = rows[i].reading /\ draftRows[i].group = rows[i].group
      BY <2>1, <2>2, <2>4, NothingComesOf
    <3>2. i \notin DOMAIN TidyRows
      BY <2>4, TidyIs
    <3> QED BY <1>6, <2>1, <2>2, <3>1, <3>2
  <2>5. CASE ~ComesToNothing(i) /\ i < 0
    <3>1. i \in DOMAIN TidyRows /\ TidyRows[i] = draftRows[i]
      BY <1>2, <2>2, <2>5
    <3>2. i \in NewRows
      BY <2>2, <2>5, <3>1 DEF NewRows
    <3>3. RowPlace(i) \in DOMAIN SavedRows /\ SavedRows[RowPlace(i)] = AddedRow(i)
      BY <1>1, <3>2
    <3>4. AddedRow(i).group = Place(g) /\ AddedRow(i).word = draftRows[i].word
          /\ AddedRow(i).reading = draftRows[i].reading
      BY <2>2, <3>1 DEF AddedRow
    <3> QED BY <2>1, <3>3, <3>4
  <2>6. CASE ~ComesToNothing(i) /\ i > 0
    <3>1. i \in DOMAIN TidyRows /\ TidyRows[i] = draftRows[i]
      BY <1>2, <2>2, <2>6
    <3>2. i \in DOMAIN rows
      BY <2>6, <3>1 DEF RowConflict
    <3>3. i \in EditedRows /\ i \in KeptRows
      BY <1>3, <2>1, <2>2, <2>3, <3>1, <3>2 DEF EditedRows, KeptRows, Undeleted
    <3>4. SavedRows[i] = KeptRow(i) /\ i \in DOMAIN SavedRows /\ KeptRow(i).group = rows[i].group
          /\ KeptRow(i).word = draftRows[i].word /\ KeptRow(i).reading = draftRows[i].reading
      BY <1>1, <3>1, <3>3, KeptRowIs
    <3>5. rows[i].group = g /\ g > 0
      BY <1>5, <2>3, <3>2
    <3> QED BY <1>4, <2>1, <3>4, <3>5
  <2> QED BY <2>3, <2>4, <2>5, <2>6
<1> QED BY <1>7, <1>8 DEF ShownContent

\* So a commit saves what is shown.
LEMMA CommitSaves ==
  ASSUME DictionaryAssumption, DictInv
  PROVE  SavesWhatIsShown
<1> SUFFICES ASSUME Commit, NEW g \in Open
             PROVE  /\ Place(g) \in DOMAIN groups' /\ groups'[Place(g)].name = draftGroups[g].name
                    /\ Content(rows', {i \in DOMAIN rows' : rows'[i].group = Place(g)}) = ShownContent(g)
  BY DEF SavesWhatIsShown
<1>1. /\ ~GroupConflict /\ ~RowConflict /\ ~Unread
      /\ groups' = SavedGroups /\ rows' = SavedRows
  BY DEF Commit
<1>2. Place(g) \in DOMAIN SavedGroups /\ SavedGroups[Place(g)].name = draftGroups[g].name
  BY <1>1, SavedGroupsAre
<1> DEFINE mine == {i \in DOMAIN SavedRows : SavedRows[i].group = Place(g)}
<1>3. Content(SavedRows, mine) = {<<SavedRows[i].word, SavedRows[i].reading>> :
                                    i \in {j \in mine : SavedRows[j].word # Blank}}
  BY DEF Content
<1>4. ASSUME NEW x \in Content(SavedRows, mine)
      PROVE  x \in ShownContent(g)
  <2>1. PICK i \in mine : x = <<SavedRows[i].word, SavedRows[i].reading>>
    BY <1>3, <1>4
  <2> QED BY <1>1, <2>1, SavedWasShown
<1>5. ASSUME NEW x \in ShownContent(g)
      PROVE  x \in Content(SavedRows, mine)
  BY <1>1, <1>3, <1>5, ShownIsSaved
<1>6. Content(SavedRows, mine) = ShownContent(g)
  BY <1>4, <1>5
<1>7. Content(rows', {i \in DOMAIN rows' : rows'[i].group = Place(g)}) = Content(SavedRows, mine)
  BY <1>1 DEF Content
<1> QED BY <1>1, <1>2, <1>6, <1>7

\* A commit takes no lesson away that the draft does not know of.
LEMMA CommitKeepsLessons ==
  ASSUME DictionaryAssumption, DictInv
  PROVE  KeepsLessons
<1> SUFFICES ASSUME Commit, NEW i \in taught \cap DOMAIN rows, i \notin DOMAIN draftRows
             PROVE  i \in DOMAIN rows' /\ rows'[i] = rows[i]
  BY DEF KeepsLessons
<1>1. ~GroupConflict /\ ~Unread /\ rows' = SavedRows
  BY DEF Commit
<1>2. i \notin DOMAIN TidyRows
  BY TidyIs
<1>3. rows[i].group \notin Removed
  <2> SUFFICES ASSUME rows[i].group \in Removed
               PROVE  FALSE
    OBVIOUS
  <2> DEFINE g == rows[i].group
  <2>1. g \in DOMAIN TidyGroups /\ g \in DOMAIN draftGroups /\ g > 0 /\ draftGroups[g].deleted
    BY TidyIs DEF Removed
  <2>2. draftGroups[g] \in DraftGroups
    BY <2>1 DEF DictInv, DraftType
  <2>3. TidyGroups[g].changed = TRUE /\ TidyGroups[g].base = draftGroups[g].base
    <3>1. draftGroups[g].deleted = TRUE
      BY <2>1, <2>2 DEF DraftGroups
    <3> QED BY <2>1, <3>1, TidyIs
  <2>4. draftGroups[g].base < groups[g].version
    BY <2>1 DEF DictInv, LessonsAhead
  <2>5. g \in DOMAIN groups /\ groups[g].version \in Nat /\ draftGroups[g].base \in Int
    BY <2>2 DEF DictInv, TablesType, Rows, Groups, DraftGroups
  <2>6. groups[g].version # TidyGroups[g].base
    BY <2>3, <2>4, <2>5
  <2> QED BY <1>1, <2>1, <2>3, <2>6 DEF GroupConflict
<1>4. i \in KeptRows /\ i \notin EditedRows
  BY <1>2, <1>3 DEF KeptRows, Undeleted, EditedRows
<1> QED BY <1>1, <1>4, SavedRowsAre, KeptRowIs

\* The revision moves with the rows.
LEMMA StepsMoveRevision ==
  ASSUME DictionaryAssumption, DictInv, [Next]_vars
  PROVE  RevisionMoves
<1> SUFFICES ASSUME rows' # rows
             PROVE  latest'.revision > latest.revision
  BY DEF RevisionMoves
<1>1. latest.revision \in Nat
  BY DEF DictInv, TablesType, Snapshots
<1>2. \A table, words : Published(table, words).revision > latest.revision
  BY <1>1 DEF Published
<1>3. CASE Commit
  <2>1. /\ ~GroupConflict /\ ~Unread /\ rows' = SavedRows
        /\ latest' = IF Changed THEN Published(SavedRows, Affected) ELSE latest
    BY <1>3 DEF Commit
  <2>2. Changed
    BY <2>1, NothingChanged
  <2> QED BY <1>2, <2>1, <2>2
<1>4. ASSUME NEW word \in Words, NEW reading \in Readings \cup {NoReading}, Educate(word, reading)
      PROVE  latest'.revision > latest.revision
  <2>1. latest' = Published(rows', {word})
    BY <1>4, LessonRows
  <2> QED BY <1>2, <2>1
<1>5. ~Begin /\ ~Restart /\ ~List /\ ~Discard
  BY DEF Begin, Restart, List, Discard, base
<1>6. \A name, word, reading, g :
        ~AddGroup(name) /\ ~RenameGroup(g, name) /\ ~ImportGroup(name, word, reading)
  BY DEF AddGroup, RenameGroup, ImportGroup, base
<1>7. \A g, i, row, word, reading : ~DeleteGroup(g) /\ ~AppendRow(g, word, reading) /\ ~Edit(i, row)
  BY DEF DeleteGroup, AppendRow, Edit, base
<1>8. ~UNCHANGED vars
  BY DEF vars, base
<1>9. Editing => Commit
  BY <1>5, <1>6, <1>7 DEF Editing
<1> QED BY <1>3, <1>4, <1>5, <1>8, <1>9 DEF Next

\* Whatever is shown, taught and renamed, a commit is faithful to it
\* (native/src/dictionary/draft.rs:290-400).
THEOREM CommitsFaithfully == Spec => CommitsAreFaithful
<1>1. DictInv /\ [Next]_vars => Faithful
  BY DictionaryAssumption, CommitSaves, CommitKeepsLessons, StepsMoveRevision DEF Faithful
<1> QED BY <1>1, DictAlways, PTL DEF Spec, CommitsAreFaithful

-----------------------------------------------------------------------------
(***************************************************************************)
(* The bounds, and with them the types.                                    *)
(***************************************************************************)
\* A draft without changes touches nothing.
LEMMA NothingTouched ==
  ASSUME DictionaryAssumption, draftRows' = NoRows,
         \A g \in DOMAIN draftGroups' : draftGroups'[g].changed = FALSE
  PROVE  Touched' <= MaxTouched
<1>1. DOMAIN draftRows' = {} /\ {g \in DOMAIN draftGroups' : draftGroups'[g].changed} = {}
  BY DEF NoRows
<1>2. Touched' = Cardinality(DOMAIN draftRows') + Cardinality({g \in DOMAIN draftGroups' : draftGroups'[g].changed})
  BY DEF Touched
<1>3. Touched' = 0
  BY <1>1, <1>2, FS_EmptySet
<1> QED BY <1>3 DEF DictionaryAssumption

\* The bounds hold at the beginning.
LEMMA BoundsInit ==
  ASSUME DictionaryAssumption, Init
  PROVE  Bounded
<1>1. DOMAIN draftRows = {} /\ {g \in DOMAIN draftGroups : draftGroups[g].changed} = {}
  BY DEF Init, NoRows
<1>2. Touched = 0
  <2>1. Touched = Cardinality(DOMAIN draftRows) + Cardinality({g \in DOMAIN draftGroups : draftGroups[g].changed})
    BY DEF Touched
  <2>2. Cardinality(DOMAIN draftRows) = 0
    BY <1>1, FS_EmptySet
  <2>3. Cardinality({g \in DOMAIN draftGroups : draftGroups[g].changed}) = 0
    BY <1>1, FS_EmptySet
  <2> QED BY <2>1, <2>2, <2>3
<1>3. lastGroup = 1 /\ lastRow = 0 /\ latest.revision = 0
  BY DEF Init
<1> QED BY <1>2, <1>3 DEF Bounded, DictionaryAssumption

\* Only a commit and a lesson give out identifiers or move the revision, and
\* each looks at the bounds.
LEMMA BoundsKept ==
  ASSUME DictionaryAssumption, DictInv, Bounded, [Next]_vars
  PROVE  Bounded'
<1>1. /\ lastGroup \in Nat /\ lastRow \in Nat /\ latest.revision \in Nat
      /\ MaxGroups \in Nat /\ MaxRows \in Nat /\ MaxRevision \in Nat
  BY DEF DictInv, TablesType, Snapshots, DictionaryAssumption
<1>2. \A table, words : Published(table, words).revision = latest.revision + 1
  BY DEF Published
<1>3. CASE Commit
  <2>1. lastGroup' <= MaxGroups /\ lastRow' <= MaxRows
    BY <1>3 DEF Commit
  <2>2. latest.revision < MaxRevision /\ (latest' = latest \/ latest' = Published(SavedRows, Affected))
    BY <1>3 DEF Commit
  <2>3. latest'.revision <= MaxRevision
    BY <1>1, <1>2, <2>2
  <2>4. draftRows' = NoRows /\ draftGroups' = NoRows
    BY <1>3 DEF Commit
  <2>5. Touched' <= MaxTouched
    BY <2>4, NothingTouched DEF NoRows
  <2> QED BY <2>1, <2>3, <2>5 DEF Bounded
<1>4. ASSUME NEW word \in Words, NEW reading \in Readings \cup {NoReading}, Educate(word, reading)
      PROVE  Bounded'
  <2>1. lastGroup' <= MaxGroups
    BY <1>4 DEF Educate, Bounded
  <2>2. \/ lastRow' = lastRow \/ lastRow' <= MaxRows
    BY <1>4 DEF Educate
  <2>3. latest' = latest \/ latest.revision < MaxRevision
    BY <1>4 DEF Educate
  <2>4. latest'.revision <= MaxRevision
    <3>1. latest' # latest => latest' = Published(rows', {word})
      BY <1>4, LessonRows
    <3>2. latest' # latest => latest'.revision = latest.revision + 1
      BY <1>2, <3>1
    <3> QED BY <1>1, <2>3, <3>2 DEF Bounded
  <2>5. draftRows' = draftRows /\ draftGroups' = draftGroups
    BY <1>4 DEF Educate, edits
  <2>6. Touched' = Touched
    BY <2>5 DEF Touched
  <2> QED BY <2>1, <2>2, <2>4, <2>6 DEF Bounded
<1>5. CASE Begin
  <2>1. UNCHANGED <<lastGroup, lastRow, latest>> /\ draftRows' = NoRows /\ draftGroups' = Listed(DOMAIN groups)
    BY <1>5 DEF Begin, base
  <2>2. Touched' <= MaxTouched
    BY <2>1, NothingTouched DEF Listed
  <2> QED BY <2>1, <2>2 DEF Bounded
<1>6. CASE Restart
  <2>1. UNCHANGED <<lastGroup, lastRow>> /\ draftRows' = NoRows /\ draftGroups' = NoRows
    BY <1>6 DEF Restart, base
  <2>2. latest'.revision = latest.revision
    BY <1>6 DEF Restart, DictInv, TablesType, Snapshots
  <2>3. Touched' <= MaxTouched
    BY <2>1, NothingTouched DEF NoRows
  <2> QED BY <2>1, <2>2, <2>3 DEF Bounded
<1>7. CASE UNCHANGED vars
  <2>1. UNCHANGED <<lastGroup, lastRow, latest, draftRows, draftGroups>>
    BY <1>7 DEF vars, base, edits
  <2> QED BY <2>1 DEF Bounded, Touched
<1>8. CASE Editing /\ Touched' <= MaxTouched /\ ~Commit
  <2>1. List \/ Discard => UNCHANGED <<lastGroup, lastRow, latest>>
    BY DEF List, Discard, base
  <2>2. \A name, word, reading, g :
          AddGroup(name) \/ RenameGroup(g, name) \/ ImportGroup(name, word, reading) =>
            UNCHANGED <<lastGroup, lastRow, latest>>
    BY DEF AddGroup, RenameGroup, ImportGroup, base
  <2>3. \A g, i, row, word, reading :
          DeleteGroup(g) \/ AppendRow(g, word, reading) \/ Edit(i, row) =>
            UNCHANGED <<lastGroup, lastRow, latest>>
    BY DEF DeleteGroup, AppendRow, Edit, base
  <2>4. UNCHANGED <<lastGroup, lastRow, latest>>
    BY <1>8, <2>1, <2>2, <2>3 DEF Editing
  <2> QED BY <1>8, <2>4 DEF Bounded
<1> QED BY <1>3, <1>4, <1>5, <1>6, <1>7, <1>8 DEF Next

\* What is new in the draft is touched, so that the bound on what is touched
\* bounds the identifiers.
LEMMA TypesHold ==
  ASSUME DictionaryAssumption, DictInv, Bounded
  PROVE  TypeOK
<1>1. PICK n \in Nat : NewIds = (-n)..(-1) /\ NextId = -1 - n
  BY NextIdIs DEF DictInv
<1> DEFINE changed == {g \in DOMAIN draftGroups : draftGroups[g].changed}
<1>2. IsFiniteSet(NewIds) /\ Cardinality(NewIds) = n
  <2>1. IsFiniteSet((-n)..(-1)) /\ Cardinality((-n)..(-1)) = IF -n > -1 THEN 0 ELSE -1 - (-n) + 1
    BY FS_Interval
  <2> QED BY <1>1, <2>1
<1>3. IsFiniteSet(DOMAIN draftRows) /\ IsFiniteSet(DOMAIN draftGroups)
  <2>1. IsFiniteSet(1..lastRow) /\ IsFiniteSet(1..lastGroup)
    <3>1. lastRow \in Int /\ lastGroup \in Int /\ 1 \in Int
      BY DEF DictInv, TablesType
    <3> QED BY <3>1, FS_Interval
  <2>2. IsFiniteSet(1..lastRow \cup NewIds) /\ IsFiniteSet(1..lastGroup \cup NewIds)
    BY <1>2, <2>1, FS_Union
  <2>3. DOMAIN draftRows \subseteq 1..lastRow \cup NewIds /\ DOMAIN draftGroups \subseteq 1..lastGroup \cup NewIds
    BY DEF DictInv, DraftType, NewIds, Minus
  <2> QED BY <2>2, <2>3, FS_Subset
<1>4. IsFiniteSet(changed)
  BY <1>3, FS_Subset
<1>5. NewIds \subseteq DOMAIN draftRows \cup changed
  BY DEF NewIds, DictInv, GroupsFollow
<1>6. n <= Touched /\ Touched \in Nat
  <2>1. Touched = Cardinality(DOMAIN draftRows) + Cardinality(changed)
    BY DEF Touched
  <2> HIDE DEF changed
  <2>2. /\ IsFiniteSet(DOMAIN draftRows \cup changed)
        /\ Cardinality(DOMAIN draftRows \cup changed) =
             Cardinality(DOMAIN draftRows) + Cardinality(changed) - Cardinality(DOMAIN draftRows \cap changed)
    BY <1>3, <1>4, FS_Union
  <2>3. IsFiniteSet(DOMAIN draftRows \cap changed)
    BY <1>4, FS_Subset
  <2>4. /\ Cardinality(DOMAIN draftRows) \in Nat /\ Cardinality(changed) \in Nat
        /\ Cardinality(DOMAIN draftRows \cap changed) \in Nat
    BY <1>3, <1>4, <2>3, FS_CardinalityType
  <2>5. n <= Cardinality(DOMAIN draftRows \cup changed)
    BY <1>2, <1>5, <2>2, FS_Subset
  <2> QED BY <2>1, <2>2, <2>4, <2>5
<1>7. NextId \in (-MaxTouched - 1)..(-1)
  <2>1. MaxTouched \in Nat /\ Touched <= MaxTouched
    BY DEF Bounded, DictionaryAssumption
  <2> HIDE DEF NextId
  <2> QED BY <1>1, <1>6, <2>1
<1>8. /\ DOMAIN draftGroups \subseteq 1..lastGroup \cup (NextId + 1)..(-1)
      /\ DOMAIN draftRows \subseteq 1..lastRow \cup (NextId + 1)..(-1)
  <2>1. (NextId + 1)..(-1) = NewIds
    BY <1>1
  <2> QED BY <2>1 DEF DictInv, DraftType, NewIds, Minus
<1>9. /\ DOMAIN groups \subseteq 1..lastGroup /\ DOMAIN rows \subseteq 1..lastRow
      /\ \A g \in DOMAIN groups : groups[g].name \in Names /\ groups[g].version \in Nat
      /\ \A i \in DOMAIN rows :
           /\ rows[i].group \in DOMAIN groups
           /\ rows[i].word \in Words /\ rows[i].reading \in Readings /\ rows[i].version \in Nat
  BY DEF DictInv, TablesType, Groups, Rows
<1>10. /\ lastGroup \in 0..MaxGroups /\ lastRow \in 0..MaxRows /\ latest.revision \in 0..MaxRevision
       /\ latest.reading \in [Words -> Readings \cup {NoReading}]
  BY DEF DictInv, TablesType, Snapshots, Bounded, DictionaryAssumption
<1>11. draft \in BOOLEAN /\ taught \subseteq 1..lastRow
  BY DEF DictInv, DraftType
<1> QED BY <1>7, <1>8, <1>9, <1>10, <1>11 DEF TypeOK

\* Every variable has its type; rows are in groups that exist
\* (native/src/dictionary/database.rs:23-74).
THEOREM TypesAreRight == Spec => []TypeOK
<1>1. Init => Bounded
  BY DictionaryAssumption, BoundsInit
<1>2. DictInv /\ Bounded /\ [Next]_vars => Bounded'
  BY DictionaryAssumption, BoundsKept
<1>3. Spec => []Bounded
  BY <1>1, <1>2, DictAlways, PTL DEF Spec
<1>4. DictInv /\ Bounded => TypeOK
  BY DictionaryAssumption, TypesHold
<1> QED BY <1>3, <1>4, DictAlways, PTL
=============================================================================
