---------------------------- MODULE EditorProofs ----------------------------
(***************************************************************************)
(* Proofs about the dictionary page of the settings dialog, for every      *)
(* value of its constants: the state keeps its shape, a dialog always gets *)
(* the draft, what is committed is what was typed, and what the table      *)
(* shows, when nothing is under way, is the draft.                         *)
(***************************************************************************)
EXTENDS DictionaryEditor, SequenceTheorems, FiniteSetTheorems, WellFoundedInduction, TLAPS

-----------------------------------------------------------------------------
(***************************************************************************)
(* The shape of the state.                                                 *)
(***************************************************************************)
Entries == [id : Nat, version : Int, value : Int]
Rows == [group : Nat, value : Int, version : Int, dead : BOOLEAN]
RowMaps == UNION {[S -> Rows] : S \in SUBSET Nat}
Lists == UNION {[S -> Nat] : S \in SUBSET Nat}
Dialogs == Nat \ {0}

Stores == [rows : RowMaps, groups : SUBSET Nat, revision : Nat, owner : Nat,
           copy : RowMaps, listed : SUBSET Nat, last : Nat, lastGroup : Nat]
Jobs == [kind : Kinds, dialog : Dialogs, generation : Nat, group : Nat, block : Int, entry : Entries,
         act : AllActions \cup {""}, selected : Nat, last : BOOLEAN]
Answers == [job : Jobs, error : BOOLEAN, rows : Seq(Entries), known : Lists, revision : Int, added : Nat]
Cells == [block : Int, rows : Seq(Entries)]
Uis == [open : BOOLEAN, draft : BOOLEAN, busy : BOOLEAN, saving : {"no", "flush", "commit"},
        writeError : BOOLEAN, known : Lists, combo : Nat, revision : Int, loaded : BOOLEAN,
        group : Nat, rows : Nat, generation : Nat, requested : Int, cache : Seq(Cells),
        pageBusy : BOOLEAN, pending : [generation : Nat, block : Int]]
Boxes == {"nothing", "pump", "refresh"}
Counters == [act : Nat, taught : Nat, dialog : Nat, save : Nat]

StoreType ==
  /\ store \in Stores
  /\ DOMAIN store.rows \subseteq 1 .. store.last /\ DOMAIN store.copy \subseteq 1 .. store.last
  /\ store.groups # {} /\ (store.owner # Nobody => store.listed # {})
\* The jobs are those of the dialogs so far.
JobType ==
  /\ queue \in Seq(Jobs) /\ store.owner <= count.dialog
  /\ \A i \in DOMAIN queue :
       queue[i].dialog <= count.dialog /\ (queue[i].kind = "mutate" => queue[i].act \in AllActions)
\* Only the open dialog is answered, and one that lists groups has some.
DoneType ==
  /\ done \in Seq(Answers)
  /\ \A i \in DOMAIN done :
       /\ ui.open /\ done[i].job.dialog = count.dialog /\ done[i].job.kind # "discard"
       /\ done[i].job.kind = "groups" /\ ~done[i].error => DOMAIN done[i].known # {}
\* A cache of few blocks, each of them once.
Apart(s) == \A i, j \in DOMAIN s : s[i].block = s[j].block => i = j
SmallCache(s) == s \in Seq(Cells) /\ Len(s) <= CacheBlocks /\ Apart(s)
Whole(u) == u \in Uis /\ SmallCache(u.cache)
UiType ==
  /\ Whole(ui) /\ alerts \in Seq(Boxes) /\ typed \in Lists
  /\ count \in Counters /\ count.dialog <= MaxDialogs
  /\ ui.open => count.dialog > 0
  /\ ~ui.open => ui.saving = "no" /\ ~ui.draft /\ alerts = <<>> /\ done = <<>> /\ ui.cache = <<>>
ShapeInv == StoreType /\ JobType /\ DoneType /\ UiType

\* A set of numbers that is not empty has a least one.
LEMMA LeastNumber == ASSUME NEW T \in SUBSET Nat, T # {} PROVE \E m \in T : \A n \in T : m <= n
<1> DEFINE R == {pair \in Nat \X Nat : pair[1] < pair[2]}
<1>1. IsWellFoundedOn(R, Nat)
  BY NatLessThanWellFounded DEF OpToRel
<1> HIDE DEF R
<1>2. PICK x \in T : \A y \in T : ~(<<y, x>> \in R)
  BY <1>1, WFMin
<1>3. \A y \in Nat : y < x => <<y, x>> \in R
  BY DEF R
<1>4. ASSUME NEW y \in T PROVE x <= y
  <2>1. ~(y < x) /\ x \in Nat /\ y \in Nat
    BY <1>2, <1>3
  <2> QED BY <2>1
<1> QED BY <1>4

\* A sequence and what is appended to it.
LEMMA Grown ==
  ASSUME NEW S, NEW q \in Seq(S), NEW r \in Seq(S)
  PROVE  /\ q \o r \in Seq(S) /\ Len(q \o r) = Len(q) + Len(r)
         /\ \A i \in DOMAIN q : i \in DOMAIN (q \o r) /\ (q \o r)[i] = q[i] /\ i <= Len(q)
         /\ \A i \in DOMAIN (q \o r) :
              \/ i \in DOMAIN q /\ (q \o r)[i] = q[i]
              \/ i > Len(q) /\ i - Len(q) \in DOMAIN r /\ (q \o r)[i] = r[i - Len(q)]
<1>1. q \o r \in Seq(S) /\ Len(q \o r) = Len(q) + Len(r)
      /\ \A i \in 1 .. Len(q) + Len(r) : (q \o r)[i] = IF i <= Len(q) THEN q[i] ELSE r[i - Len(q)]
  BY ConcatProperties
<1>2. DOMAIN q = 1 .. Len(q) /\ DOMAIN r = 1 .. Len(r) /\ Len(q) \in Nat /\ Len(r) \in Nat
  BY LenProperties
<1>3. DOMAIN (q \o r) = 1 .. Len(q) + Len(r)
  BY <1>1, LenProperties
<1> QED BY <1>1, <1>2, <1>3

\* A sequence with one element more.
LEMMA GrownByOne ==
  ASSUME NEW S, NEW q \in Seq(S), NEW e \in S
  PROVE  /\ Append(q, e) \in Seq(S) /\ Len(Append(q, e)) = Len(q) + 1
         /\ \A i \in DOMAIN q : i \in DOMAIN Append(q, e) /\ Append(q, e)[i] = q[i] /\ i <= Len(q)
         /\ \A i \in DOMAIN Append(q, e) :
              (i \in DOMAIN q /\ Append(q, e)[i] = q[i]) \/ (i = Len(q) + 1 /\ Append(q, e)[i] = e)
         /\ Len(q) + 1 \in DOMAIN Append(q, e) /\ Append(q, e)[Len(q) + 1] = e
         /\ Append(q, e) # <<>>
<1>1. Append(q, e) \in Seq(S) /\ Len(Append(q, e)) = Len(q) + 1
      /\ (\A i \in 1 .. Len(q) : Append(q, e)[i] = q[i]) /\ Append(q, e)[Len(q) + 1] = e
  BY AppendProperties
<1>2. DOMAIN q = 1 .. Len(q) /\ Len(q) \in Nat
  BY LenProperties
<1>3. DOMAIN Append(q, e) = 1 .. Len(q) + 1
  BY <1>1, LenProperties
<1>4. Append(q, e) # <<>>
  BY <1>1, <1>2, EmptySeq
<1> QED BY <1>1, <1>2, <1>3, <1>4

\* A sequence without its first element.
LEMMA WithoutFirst ==
  ASSUME NEW S, NEW q \in Seq(S), q # <<>>
  PROVE  /\ Head(q) \in S /\ 1 \in DOMAIN q /\ q[1] = Head(q)
         /\ Tail(q) \in Seq(S) /\ Len(Tail(q)) = Len(q) - 1
         /\ \A i \in DOMAIN Tail(q) : i + 1 \in DOMAIN q /\ Tail(q)[i] = q[i + 1]
         /\ \A i \in DOMAIN q : i = 1 \/ (i > 1 /\ i - 1 \in DOMAIN Tail(q) /\ Tail(q)[i - 1] = q[i])
<1>1. Head(q) \in S /\ Tail(q) \in Seq(S) /\ Len(Tail(q)) = Len(q) - 1
      /\ \A i \in 1 .. Len(Tail(q)) : Tail(q)[i] = q[i + 1]
  BY HeadTailProperties
<1>2. DOMAIN q = 1 .. Len(q) /\ Len(q) \in Nat /\ Len(q) # 0
  BY LenProperties, EmptySeq
<1>3. DOMAIN Tail(q) = 1 .. Len(q) - 1
  BY <1>1, LenProperties
<1>4. q[1] = Head(q)
  BY DEF Head
<1>5. 1 \in DOMAIN q
  BY <1>2
<1>6. ASSUME NEW i \in DOMAIN Tail(q) PROVE i + 1 \in DOMAIN q /\ Tail(q)[i] = q[i + 1]
  <2>1. i \in 1 .. Len(q) - 1 /\ i \in 1 .. Len(Tail(q))
    BY <1>1, <1>3
  <2>2. i + 1 \in 1 .. Len(q)
    BY <1>2, <2>1
  <2> QED BY <1>1, <1>2, <2>1, <2>2
<1>7. ASSUME NEW i \in DOMAIN q PROVE i = 1 \/ (i > 1 /\ i - 1 \in DOMAIN Tail(q) /\ Tail(q)[i - 1] = q[i])
  <2>1. CASE i = 1
    BY <2>1
  <2>2. CASE i # 1
    <3>1. i > 1 /\ i - 1 \in DOMAIN Tail(q) /\ (i - 1) + 1 = i
      BY <1>2, <1>3, <2>2
    <3> QED BY <1>6, <3>1
  <2> QED BY <2>1, <2>2
<1> QED BY <1>1, <1>4, <1>5, <1>6, <1>7

-----------------------------------------------------------------------------
(***************************************************************************)
(* The draft and the operations on it.                                     *)
(***************************************************************************)
InBounds(s) == DOMAIN s.rows \subseteq 1 .. s.last /\ DOMAIN s.copy \subseteq 1 .. s.last

\* A table of rows gives a row for each number that it has.
LEMMA RowMapIs == ASSUME NEW f \in RowMaps PROVE DOMAIN f \subseteq Nat /\ \A w \in DOMAIN f : f[w] \in Rows
BY DEF RowMaps

\* What has a row for each of its numbers is a table of rows.
LEMMA RowMapOf == ASSUME NEW S \in SUBSET Nat, NEW f \in [S -> Rows] PROVE f \in RowMaps
BY DEF RowMaps

\* A row that is there has the fields of a row.
LEMMA RowThere ==
  ASSUME NEW s \in Stores, NEW w \in Ids(s)
  PROVE  RowOf(s, w) \in Rows /\ w \in Nat
<1>1. s.rows \in RowMaps /\ s.copy \in RowMaps
  BY DEF Stores
<1> QED BY <1>1, RowMapIs DEF Ids, RowOf

\* The draft t is s but for the value of one row, and whether it is deleted.
EditOf(s, t, e, dead) ==
  /\ t \in Stores /\ InBounds(t)
  /\ t.rows = s.rows /\ t.groups = s.groups /\ t.revision = s.revision /\ t.owner = s.owner
  /\ t.listed = s.listed /\ t.last = s.last /\ t.lastGroup = s.lastGroup
  /\ DOMAIN t.copy = DOMAIN s.copy \cup {e.id}
  /\ \A w \in DOMAIN s.copy : w # e.id => t.copy[w] = s.copy[w]
  /\ t.copy[e.id].group = RowOf(s, e.id).group /\ t.copy[e.id].version = RowOf(s, e.id).version
  /\ t.copy[e.id].value = e.value /\ t.copy[e.id].dead = dead

\* An edit is such a change.
LEMMA EditedIs ==
  ASSUME NEW s \in Stores, InBounds(s), NEW e \in Entries, NEW dead \in BOOLEAN, e.id \in Ids(s)
  PROVE  EditOf(s, Edited(s, e, dead), e, dead)
<1> DEFINE row == [RowOf(s, e.id) EXCEPT !.value = e.value, !.dead = dead]
           S == DOMAIN s.copy \cup {e.id}
           copy == [i \in S |-> IF i = e.id THEN row ELSE s.copy[i]]
           t == Edited(s, e, dead)
<1>1. RowOf(s, e.id) \in Rows /\ e.id \in Nat /\ e.value \in Int /\ s.copy \in RowMaps
  BY RowThere DEF Stores, Entries
<1>2. row \in Rows /\ row.group = RowOf(s, e.id).group /\ row.version = RowOf(s, e.id).version
      /\ row.value = e.value /\ row.dead = dead
  BY <1>1 DEF Rows
<1> HIDE DEF row
<1>3. DOMAIN s.copy \subseteq Nat /\ \A w \in DOMAIN s.copy : s.copy[w] \in Rows
  BY <1>1, RowMapIs
<1>4. S \in SUBSET Nat
  BY <1>1, <1>3
<1>5. copy \in [S -> Rows]
  BY <1>2, <1>3
<1>6. copy \in RowMaps /\ DOMAIN copy = S
  BY <1>4, <1>5, RowMapOf
<1>7. t = [s EXCEPT !.copy = copy]
  BY DEF Edited, row
<1>8. copy[e.id] = row /\ \A w \in DOMAIN s.copy : w # e.id => copy[w] = s.copy[w]
  OBVIOUS
<1>9. e.id \in 1 .. s.last
  BY DEF Ids, InBounds
<1> HIDE DEF copy, t
<1>10. t \in Stores /\ t.copy = copy /\ t.rows = s.rows /\ t.groups = s.groups /\ t.revision = s.revision
       /\ t.owner = s.owner /\ t.listed = s.listed /\ t.last = s.last /\ t.lastGroup = s.lastGroup
  BY <1>6, <1>7 DEF Stores
<1>11. InBounds(t)
  BY <1>6, <1>9, <1>10 DEF InBounds
<1>12. t.copy[e.id].group = RowOf(s, e.id).group /\ t.copy[e.id].version = RowOf(s, e.id).version
       /\ t.copy[e.id].value = e.value /\ t.copy[e.id].dead = dead
  BY <1>2, <1>8, <1>10
<1> QED BY <1>6, <1>8, <1>10, <1>11, <1>12 DEF t, EditOf

\* A row that is appended is a row of its own.
LEMMA AppendedIs ==
  ASSUME NEW s \in Stores, InBounds(s), NEW g \in Nat
  PROVE  LET t == Appended(s, g)
         IN  /\ t \in Stores /\ InBounds(t)
             /\ t.rows = s.rows /\ t.groups = s.groups /\ t.revision = s.revision /\ t.owner = s.owner
             /\ t.listed = s.listed /\ t.lastGroup = s.lastGroup
             /\ DOMAIN s.copy \subseteq DOMAIN t.copy /\ \A w \in DOMAIN s.copy : t.copy[w] = s.copy[w]
<1> DEFINE row == [group |-> g, value |-> 0, version |-> -1, dead |-> FALSE]
           S == DOMAIN s.copy \cup {s.last + 1}
           copy == [i \in S |-> IF i > s.last THEN row ELSE s.copy[i]]
           t == Appended(s, g)
<1>1. s.copy \in RowMaps /\ s.last \in Nat
  BY DEF Stores
<1>2. row \in Rows
  BY DEF Rows
<1> HIDE DEF row
<1>3. DOMAIN s.copy \subseteq Nat /\ \A w \in DOMAIN s.copy : s.copy[w] \in Rows
  BY <1>1, RowMapIs
<1>4. S \in SUBSET Nat
  BY <1>1, <1>3
<1>5. copy \in [S -> Rows]
  BY <1>1, <1>2, <1>3
<1>6. copy \in RowMaps /\ DOMAIN copy = S
  BY <1>4, <1>5, RowMapOf
<1>7. t = [s EXCEPT !.last = s.last + 1, !.copy = copy]
  BY DEF Appended, row
<1>8. \A w \in DOMAIN s.copy : copy[w] = s.copy[w]
  BY <1>1 DEF InBounds
<1> HIDE DEF copy, t
<1>9. t \in Stores /\ t.copy = copy /\ t.last = s.last + 1
      /\ t.rows = s.rows /\ t.groups = s.groups /\ t.revision = s.revision
      /\ t.owner = s.owner /\ t.listed = s.listed /\ t.lastGroup = s.lastGroup
  <2>1. PICK m \in Nat : m = s.last + 1
    BY <1>1
  <2>2. t = [s EXCEPT !.last = m, !.copy = copy]
    BY <1>7, <2>1
  <2> QED BY <1>6, <2>1, <2>2 DEF Stores
<1>10. InBounds(t)
  <2>1. DOMAIN s.rows \subseteq 1 .. s.last + 1
    BY <1>1 DEF InBounds
  <2>2. DOMAIN copy \subseteq 1 .. s.last + 1
    BY <1>1, <1>6 DEF InBounds
  <2> QED BY <1>9, <2>1, <2>2 DEF InBounds
<1> QED BY <1>6, <1>8, <1>9, <1>10 DEF t

\* An operation of the buttons leaves a draft with the rows that it had, as
\* they were or deleted; it has a group left.
LEMMA MutationIs ==
  ASSUME NEW s \in Stores, InBounds(s), NEW j \in Jobs, j.act \in AllActions,
         NEW t \in Mutations(s, j), s.listed # {}
  PROVE  /\ t \in Stores /\ InBounds(t) /\ t.listed # {}
         /\ t.rows = s.rows /\ t.groups = s.groups /\ t.revision = s.revision /\ t.owner = s.owner
         /\ DOMAIN s.copy \subseteq DOMAIN t.copy
         /\ \A w \in DOMAIN s.copy : t.copy[w] = s.copy[w] \/ t.copy[w].dead = TRUE
         /\ \A error \in Refused(s, t, j) : error = TRUE => t = s
<1>1. j.group \in Nat /\ j.entry \in Entries /\ s.listed \in SUBSET Nat /\ s.lastGroup \in Nat
  BY DEF Jobs, Stores
<1>2. CASE t = s
  BY <1>2
<1>3. CASE j.act = "append" \/ j.act = "import"
  <2>1. t = s \/ t = Appended(s, j.group)
    BY <1>3 DEF Mutations
  <2>2. \A error \in Refused(s, t, j) : error = TRUE => t = s
    BY <1>3 DEF Refused
  <2>3. CASE t = Appended(s, j.group)
    BY <1>1, <2>2, <2>3, AppendedIs
  <2> QED BY <1>2, <2>1, <2>3
<1>4. CASE j.act = "delete"
  <2>1. CASE CanEdit(s, j.entry)
    <3>1. t = Edited(s, j.entry, TRUE) /\ j.entry.id \in Ids(s)
      BY <1>4, <2>1 DEF Mutations, CanEdit, Ids
    <3>2. \A error \in Refused(s, t, j) : error = FALSE
      BY <1>4, <2>1 DEF Refused
    <3>3. EditOf(s, t, j.entry, TRUE)
      <4>1. TRUE \in BOOLEAN
        OBVIOUS
      <4>2. EditOf(s, Edited(s, j.entry, TRUE), j.entry, TRUE)
        BY <1>1, <3>1, <4>1, EditedIs, Zenon
      <4> QED BY <3>1, <4>2
    <3> QED BY <3>2, <3>3 DEF EditOf
  <2>2. CASE ~CanEdit(s, j.entry)
    <3>1. t = s
      BY <1>4, <2>2 DEF Mutations
    <3> QED BY <1>2, <3>1
  <2> QED BY <2>1, <2>2
<1>5. CASE j.act = "add_group"
  <2>1. t = s \/ t = [s EXCEPT !.listed = @ \cup {s.lastGroup + 1}, !.lastGroup = @ + 1]
    BY <1>5 DEF Mutations
  <2>2. \A error \in Refused(s, t, j) : error = TRUE => t = s
    BY <1>5 DEF Refused
  <2>3. CASE t = [s EXCEPT !.listed = @ \cup {s.lastGroup + 1}, !.lastGroup = @ + 1]
    <3>1. t \in Stores /\ t.listed = s.listed \cup {s.lastGroup + 1} /\ t.rows = s.rows /\ t.groups = s.groups
          /\ t.revision = s.revision /\ t.owner = s.owner /\ t.copy = s.copy /\ t.last = s.last
      <4>1. PICK m \in Nat : m = s.lastGroup + 1
        BY <1>1
      <4>2. PICK more \in SUBSET Nat : more = s.listed \cup {m}
        BY <1>1
      <4>3. t = [s EXCEPT !.listed = more, !.lastGroup = m]
        BY <2>3, <4>1, <4>2
      <4> QED BY <4>1, <4>2, <4>3 DEF Stores
    <3>2. InBounds(t)
      BY <3>1 DEF InBounds
    <3> QED BY <2>2, <3>1, <3>2
  <2> QED BY <1>2, <2>1, <2>3
<1>6. CASE j.act = "delete_group"
  <2>1. t = s \/ (Cardinality(s.listed) > 1 /\ t = [s EXCEPT !.listed = @ \ {j.group}])
    BY <1>6 DEF Mutations
  <2>2. \A error \in Refused(s, t, j) : error = TRUE => t = s
    BY <1>6 DEF Refused
  <2>3. CASE Cardinality(s.listed) > 1 /\ t = [s EXCEPT !.listed = @ \ {j.group}]
    <3>1. t \in Stores /\ t.listed = s.listed \ {j.group} /\ t.rows = s.rows /\ t.groups = s.groups
          /\ t.revision = s.revision /\ t.owner = s.owner /\ t.copy = s.copy /\ t.last = s.last
      BY <1>1, <2>3 DEF Stores
    <3>2. s.listed # {j.group}
      <4>1. Cardinality({j.group}) = 1
        BY FS_Singleton
      <4> QED BY <2>3, <4>1
    <3>3. InBounds(t)
      BY <3>1 DEF InBounds
    <3> QED BY <2>2, <3>1, <3>2, <3>3
  <2> QED BY <1>2, <2>1, <2>3
<1>7. CASE j.act = "rename_group"
  BY <1>2, <1>7 DEF Mutations
<1> QED BY <1>1, <1>3, <1>4, <1>5, <1>6, <1>7 DEF AllActions
-----------------------------------------------------------------------------
(***************************************************************************)
(* The table and the jobs.                                                 *)
(***************************************************************************)
\* A cell taken out of the cache.
LEMMA CellOut ==
  ASSUME NEW s \in Seq(Cells), Apart(s), NEW i \in DOMAIN s
  PROVE  LET r == RemoveAt(s, i)
         IN  /\ r \in Seq(Cells) /\ Len(r) = Len(s) - 1 /\ Apart(r)
             /\ \A k \in DOMAIN r : \E n \in DOMAIN s : n # i /\ r[k] = s[n]
<1> DEFINE m == Len(s)
           front == SubSeq(s, 1, i - 1)
           back == SubSeq(s, i + 1, m)
           r == front \o back
           From(k) == IF k < i THEN k ELSE k + 1
<1>1. m \in Nat /\ DOMAIN s = 1 .. m /\ i \in 1 .. m /\ i \in Nat /\ i >= 1 /\ i <= m
  BY LenProperties
<1> HIDE DEF m
<1>2. front \in Seq(Cells) /\ Len(front) = i - 1 /\ \A k \in 1 .. i - 1 : front[k] = s[k]
  <2>1. PICK k \in Nat : k = i - 1
    BY <1>1
  <2>2. SubSeq(s, 1, k) \in Seq(Cells) /\ Len(SubSeq(s, 1, k)) = (IF 1 <= k THEN k - 1 + 1 ELSE 0)
        /\ \A n \in 1 .. k - 1 + 1 : SubSeq(s, 1, k)[n] = s[1 + n - 1]
    BY <1>1, <2>1, SubSeqProperties DEF m
  <2> QED BY <1>1, <2>1, <2>2
<1>3. back \in Seq(Cells) /\ Len(back) = m - i /\ \A k \in 1 .. m - i : back[k] = s[i + k]
  <2>1. PICK k \in Nat : k = i + 1
    BY <1>1
  <2>2. SubSeq(s, k, m) \in Seq(Cells) /\ Len(SubSeq(s, k, m)) = (IF k <= m THEN m - k + 1 ELSE 0)
        /\ \A n \in 1 .. m - k + 1 : SubSeq(s, k, m)[n] = s[k + n - 1]
    BY <1>1, <2>1, SubSeqProperties DEF m
  <2>3. \A n \in 1 .. m - i : k + n - 1 = i + n /\ n \in 1 .. m - k + 1
    BY <1>1, <2>1
  <2>4. Len(SubSeq(s, k, m)) = m - i
    <3>1. CASE k <= m
      BY <1>1, <2>1, <2>2, <3>1
    <3>2. CASE ~(k <= m)
      BY <1>1, <2>1, <2>2, <3>2
    <3> QED BY <3>1, <3>2
  <2> QED BY <2>1, <2>2, <2>3, <2>4
<1> HIDE DEF front, back
<1>4. r \in Seq(Cells) /\ Len(r) = (i - 1) + (m - i)
      /\ \A k \in 1 .. (i - 1) + (m - i) : r[k] = IF k <= i - 1 THEN front[k] ELSE back[k - (i - 1)]
  <2>1. r \in Seq(Cells) /\ Len(r) = Len(front) + Len(back)
        /\ \A k \in 1 .. Len(front) + Len(back) : r[k] = IF k <= Len(front) THEN front[k] ELSE back[k - Len(front)]
    BY <1>2, <1>3, ConcatProperties
  <2> QED BY <1>2, <1>3, <2>1
<1>5. (i - 1) + (m - i) = m - 1
  BY <1>1
<1>6. DOMAIN r = 1 .. m - 1
  BY <1>4, <1>5, LenProperties
<1> HIDE DEF r
<1>7. ASSUME NEW k \in DOMAIN r PROVE From(k) \in DOMAIN s /\ From(k) # i /\ r[k] = s[From(k)]
  <2>1. k \in 1 .. m - 1 /\ k \in Nat
    BY <1>6
  <2>2. CASE k < i
    <3>1. k <= i - 1 /\ k \in 1 .. i - 1 /\ k \in 1 .. m
      BY <1>1, <2>1, <2>2
    <3>2. r[k] = front[k]
      BY <1>4, <1>5, <2>1, <3>1
    <3> QED BY <1>1, <1>2, <2>2, <3>1, <3>2
  <2>3. CASE ~(k < i)
    <3>1. ~(k <= i - 1) /\ k - (i - 1) \in 1 .. m - i /\ i + (k - (i - 1)) = k + 1 /\ k + 1 \in 1 .. m /\ k + 1 # i
      BY <1>1, <2>1, <2>3
    <3>2. r[k] = back[k - (i - 1)]
      BY <1>4, <1>5, <2>1, <3>1
    <3> QED BY <1>1, <1>3, <2>3, <3>1, <3>2
  <2> QED BY <2>2, <2>3
<1>8. \A j, k \in DOMAIN r : From(j) = From(k) => j = k
  BY <1>1, <1>6
<1> HIDE DEF From
<1>9. Apart(r)
  BY <1>7, <1>8 DEF Apart
<1>10. r = RemoveAt(s, i) /\ Len(r) = Len(s) - 1
  BY <1>4, <1>5 DEF RemoveAt, r, front, back, m
<1> QED BY <1>4, <1>7, <1>9, <1>10

\* Where a block that is held is.
LEMMA AtIs ==
  ASSUME NEW u, NEW b, HasBlock(u, b)
  PROVE  At(u, b) \in DOMAIN u.cache /\ u.cache[At(u, b)].block = b
BY DEF HasBlock, At

\* The cells of other blocks.
LEMMA OthersAre ==
  ASSUME NEW u \in Uis, SmallCache(u.cache), NEW b
  PROVE  LET r == Others(u, b)
         IN  /\ r \in Seq(Cells) /\ Apart(r)
             /\ Len(r) <= Len(u.cache) /\ (HasBlock(u, b) => Len(r) < Len(u.cache))
             /\ \A k \in DOMAIN r : \E n \in DOMAIN u.cache : r[k] = u.cache[n] /\ r[k].block # b
<1>1. u.cache \in Seq(Cells) /\ Apart(u.cache) /\ Len(u.cache) \in Nat
  BY LenProperties DEF SmallCache
<1>2. CASE HasBlock(u, b)
  <2> DEFINE i == At(u, b)
             r == RemoveAt(u.cache, i)
  <2>1. i \in DOMAIN u.cache /\ u.cache[i].block = b
    BY <1>2, AtIs
  <2> HIDE DEF i
  <2>2. r \in Seq(Cells) /\ Len(r) = Len(u.cache) - 1 /\ Apart(r)
        /\ \A k \in DOMAIN r : \E n \in DOMAIN u.cache : n # i /\ r[k] = u.cache[n]
    BY <1>1, <2>1, CellOut
  <2>3. \A n \in DOMAIN u.cache : n # i => u.cache[n].block # b
    BY <1>1, <2>1 DEF Apart
  <2>4. Others(u, b) = r
    BY <1>2 DEF Others, i
  <2> HIDE DEF r
  <2>5. Len(r) <= Len(u.cache) /\ Len(r) < Len(u.cache)
    BY <1>1, <2>2
  <2> QED BY <2>2, <2>3, <2>4, <2>5
<1>3. CASE ~HasBlock(u, b)
  <2>1. Others(u, b) = u.cache /\ \A n \in DOMAIN u.cache : u.cache[n].block # b
    BY <1>3 DEF Others, HasBlock
  <2> QED BY <1>1, <1>3, <2>1
<1> QED BY <1>2, <1>3

\* r is the cache with the cell c of block b put at its end.
PutAtEnd(u, b, c, r) ==
  /\ r \in Seq(Cells) /\ Apart(r)
  /\ Len(r) <= Len(u.cache) + 1 /\ (HasBlock(u, b) => SmallCache(r))
  /\ r # <<>> /\ \A k \in DOMAIN r : r[k] = c \/ \E n \in DOMAIN u.cache : r[k] = u.cache[n] /\ r[k].block # b

\* The cell of a block is put at the end.
LEMMA CellIn ==
  ASSUME NEW u \in Uis, SmallCache(u.cache), NEW b, NEW c \in Cells, c.block = b
  PROVE  PutAtEnd(u, b, c, Append(Others(u, b), c))
<1> DEFINE o == Others(u, b)
           r == Append(o, c)
<1>1. o \in Seq(Cells) /\ Apart(o) /\ Len(o) <= Len(u.cache) /\ (HasBlock(u, b) => Len(o) < Len(u.cache))
      /\ \A k \in DOMAIN o : \E n \in DOMAIN u.cache : o[k] = u.cache[n] /\ o[k].block # b
  BY OthersAre
<1>2. Len(o) \in Nat /\ Len(u.cache) \in Nat /\ Len(u.cache) <= CacheBlocks /\ CacheBlocks \in Nat
  BY <1>1, LenProperties, EditorAssumption DEF SmallCache
<1> HIDE DEF o
<1>3. r \in Seq(Cells) /\ Len(r) = Len(o) + 1 /\ r # <<>>
      /\ \A k \in DOMAIN r : (k \in DOMAIN o /\ r[k] = o[k]) \/ (k = Len(o) + 1 /\ r[k] = c)
  BY <1>1, GrownByOne
<1> HIDE DEF r
<1>4. Apart(r)
  BY <1>1, <1>3 DEF Apart
<1>5. Len(r) <= Len(u.cache) + 1 /\ (HasBlock(u, b) => Len(r) <= CacheBlocks)
  BY <1>1, <1>2, <1>3
<1>6. \A k \in DOMAIN r : r[k] = c \/ \E n \in DOMAIN u.cache : r[k] = u.cache[n] /\ r[k].block # b
  BY <1>1, <1>3
<1> QED BY <1>3, <1>4, <1>5, <1>6 DEF SmallCache, PutAtEnd, r, o
\* The same dialog, in the same phase.
Alike(u, v) ==
  /\ v.open = u.open /\ v.draft = u.draft /\ v.saving = u.saving /\ v.writeError = u.writeError
  /\ v.loaded = u.loaded
\* The same rows of the same group.
SameTable(u, v) ==
  v.cache = u.cache /\ v.generation = u.generation /\ v.group = u.group /\ v.pageBusy = u.pageBusy

\* The buttons on or off.
LEMMA ControlsIs ==
  ASSUME NEW u, Whole(u), NEW enabled \in BOOLEAN
  PROVE  LET v == Controls(u, enabled) IN Whole(v) /\ Alike(u, v) /\ SameTable(u, v)
<1> DEFINE b == ~enabled
           v == [u EXCEPT !.busy = b]
<1>1. b \in BOOLEAN /\ u \in Uis
  BY DEF Whole
<1> HIDE DEF b
<1>2. v \in Uis /\ v.cache = u.cache /\ v.generation = u.generation /\ v.group = u.group /\ v.pageBusy = u.pageBusy
  BY <1>1 DEF Uis
<1>3. Alike(u, v)
  BY <1>1 DEF Uis, Alike
<1>4. v = Controls(u, enabled)
  BY DEF Controls, b
<1> HIDE DEF v
<1> QED BY <1>2, <1>3, <1>4 DEF Whole, SameTable

\* Another group: the table is empty, and its generation is new.
LEMMA SelectedIs ==
  ASSUME NEW u, Whole(u), NEW g \in Nat
  PROVE  LET v == Selected(u, g)
         IN  /\ Whole(v) /\ Alike(u, v) /\ v.cache = <<>> /\ v.generation = u.generation + 1
             /\ v.pageBusy = u.pageBusy /\ v.pending = NoPage
<1> DEFINE n == u.generation + 1
           h == IF g \in DOMAIN u.known THEN g ELSE NoGroup
           m == IF g \in DOMAIN u.known THEN u.known[g] ELSE 0
           v == [u EXCEPT !.pending = NoPage, !.cache = <<>>, !.requested = NoBlock, !.generation = n,
                          !.group = h, !.rows = m]
<1>1. u \in Uis /\ u.generation \in Nat /\ u.known \in Lists
  BY DEF Whole, Uis
<1>2. n \in Nat /\ h \in Nat
  BY <1>1 DEF NoGroup
<1>3. m \in Nat
  BY <1>1 DEF Lists
<1>4. NoPage \in [generation : Nat, block : Int] /\ <<>> \in Seq(Cells) /\ NoBlock \in Int
  BY EmptySeq DEF NoPage, NoBlock
<1> HIDE DEF n, h, m
<1>5. v \in Uis /\ v.cache = <<>> /\ v.generation = n /\ v.pageBusy = u.pageBusy /\ v.pending = NoPage
  BY <1>1, <1>2, <1>3, <1>4 DEF Uis
<1>6. Alike(u, v)
  BY <1>1 DEF Uis, Alike
<1>7. v = Selected(u, g)
  BY DEF Selected, n, h, m
<1> HIDE DEF v
<1>8. SmallCache(v.cache)
  BY <1>5, EmptySeq, EditorAssumption DEF SmallCache, Apart
<1> QED BY <1>5, <1>6, <1>7, <1>8 DEF Whole, n

\* A page is asked for when it is wanted, and then only.
LEMMA PumpedIs ==
  ASSUME NEW u, Whole(u)
  PROVE  LET v == Pumped(u)
         IN  /\ Whole(v) /\ Alike(u, v)
             /\ v.cache = u.cache /\ v.generation = u.generation /\ v.group = u.group
             /\ Wanted(u) => v.pageBusy = TRUE /\ u.pageBusy = FALSE /\ u.draft = TRUE /\ u.open = TRUE
             /\ ~Wanted(u) => v.pageBusy = u.pageBusy
             /\ v.pending = u.pending \/ v.pending = NoPage
<1> DEFINE w == Wanted(u)
           v == [u EXCEPT !.pending = NoPage, !.pageBusy = w]
<1>1. u \in Uis /\ u.pageBusy \in BOOLEAN /\ u.open \in BOOLEAN /\ u.draft \in BOOLEAN
  BY DEF Whole, Uis
<1>2. CASE ~Pumps(u)
  <2>1. Pumped(u) = u /\ ~Wanted(u)
    BY <1>2 DEF Pumped, Wanted
  <2> QED BY <2>1 DEF Alike
<1>3. CASE Pumps(u)
  <2>1. Pumped(u) = v
    BY <1>3 DEF Pumped
  <2>2. w \in BOOLEAN /\ NoPage \in [generation : Nat, block : Int]
    BY DEF Wanted, NoPage, NoBlock, Pumps
  <2>3. (w => u.pageBusy = FALSE /\ u.draft = TRUE /\ u.open = TRUE) /\ u.pageBusy = FALSE
    BY <1>1, <1>3 DEF Pumps
  <2>4. (w => w = TRUE) /\ (~w => w = FALSE)
    BY <2>2
  <2> HIDE DEF w
  <2>5. v \in Uis /\ v.cache = u.cache /\ v.generation = u.generation /\ v.group = u.group /\ v.pageBusy = w
        /\ v.pending = NoPage
    BY <1>1, <2>2 DEF Uis
  <2>6. Alike(u, v)
    BY <1>1 DEF Uis, Alike
  <2> HIDE DEF v
  <2>7. (w => v.pageBusy = TRUE) /\ (~w => v.pageBusy = u.pageBusy)
    BY <2>3, <2>4, <2>5
  <2>8. Whole(v)
    BY <2>5 DEF Whole
  <2> QED BY <2>1, <2>3, <2>5, <2>6, <2>7, <2>8 DEF w
<1> QED BY <1>2, <1>3

\* A row is looked at: the cells are those that were there.
LEMMA LookedIs ==
  ASSUME NEW u, Whole(u), NEW b \in Int
  PROVE  LET v == Looked(u, b)
         IN  /\ Whole(v) /\ Alike(u, v)
             /\ v.generation = u.generation /\ v.group = u.group /\ v.pageBusy = u.pageBusy
             /\ \A k \in DOMAIN v.cache : \E n \in DOMAIN u.cache : v.cache[k] = u.cache[n]
             /\ ~HasBlock(u, b) => v.cache = u.cache
             /\ v.pending = u.pending \/ (v.pending.generation = u.generation /\ u.draft)
<1>1. u \in Uis /\ SmallCache(u.cache) /\ u.cache \in Seq(Cells) /\ u.generation \in Nat
  BY DEF Whole, SmallCache, Uis
<1>2. CASE HasBlock(u, b)
  <2> DEFINE c == [block |-> b, rows |-> Cached(u, b)]
             r == Append(Others(u, b), c)
             v == [u EXCEPT !.cache = r]
  <2>1. At(u, b) \in DOMAIN u.cache /\ u.cache[At(u, b)].block = b /\ u.cache[At(u, b)] \in Cells
    BY <1>1, <1>2, AtIs, ElementOfSeq, LenProperties
  <2>2. c \in Cells /\ c.block = b /\ c = u.cache[At(u, b)]
    BY <2>1 DEF Cells, Cached
  <2> HIDE DEF c
  <2>3. SmallCache(r) /\ \A k \in DOMAIN r : r[k] = c \/ \E n \in DOMAIN u.cache : r[k] = u.cache[n] /\ r[k].block # b
    <3>1. PutAtEnd(u, b, c, Append(Others(u, b), c))
      BY <1>1, <2>2, CellIn
    <3> QED BY <1>2, <3>1 DEF PutAtEnd
  <2>4. \A k \in DOMAIN r : \E n \in DOMAIN u.cache : r[k] = u.cache[n]
    BY <2>1, <2>2, <2>3
  <2>5. r \in Seq(Cells)
    BY <2>3 DEF SmallCache
  <2>6. Looked(u, b) = v
    BY <1>2 DEF Looked, c
  <2> HIDE DEF r
  <2>7. v \in Uis /\ v.cache = r /\ v.generation = u.generation /\ v.group = u.group /\ v.pageBusy = u.pageBusy
        /\ v.pending = u.pending
    BY <1>1, <2>5 DEF Uis
  <2>8. Alike(u, v)
    BY <1>1 DEF Uis, Alike
  <2> HIDE DEF v
  <2> QED BY <1>2, <2>3, <2>4, <2>6, <2>7, <2>8 DEF Whole
<1>3. CASE ~HasBlock(u, b)
  <2> DEFINE v1 == [u EXCEPT !.requested = b]
             v2 == [u EXCEPT !.requested = b, !.pending = [generation |-> u.generation, block |-> b]]
  <2>1. Looked(u, b) = u \/ Looked(u, b) = v1 \/ (Looked(u, b) = v2 /\ u.draft)
    BY <1>3 DEF Looked
  <2>2. v1 \in Uis /\ SameTable(u, v1) /\ v1.pending = u.pending
    BY <1>1 DEF Uis, SameTable
  <2>3. [generation |-> u.generation, block |-> b] \in [generation : Nat, block : Int]
    BY <1>1
  <2>4. v2 \in Uis /\ SameTable(u, v2) /\ v2.pending.generation = u.generation
    BY <1>1, <2>3 DEF Uis, SameTable
  <2>5. Alike(u, v1) /\ Alike(u, v2) /\ Alike(u, u)
    BY <1>1 DEF Uis, Alike
  <2> HIDE DEF v1, v2
  <2>6. Whole(v1) /\ Whole(v2)
    BY <1>1, <2>2, <2>4 DEF Whole, SameTable
  <2> QED BY <1>3, <2>1, <2>2, <2>4, <2>5, <2>6 DEF SameTable
<1> QED BY <1>2, <1>3

\* A page is received: its cell is the last one, and others may have gone.
LEMMA ReceivedIs ==
  ASSUME NEW u, Whole(u), NEW b \in Int, NEW rows \in Seq(Entries)
  PROVE  LET v == Received(u, b, rows)
         IN  /\ Whole(v) /\ Alike(u, v)
             /\ v.generation = u.generation /\ v.group = u.group /\ v.pageBusy = u.pageBusy
             /\ v.pending = u.pending
             /\ \A k \in DOMAIN v.cache : \/ v.cache[k] = [block |-> b, rows |-> rows]
                                          \/ \E n \in DOMAIN u.cache : v.cache[k] = u.cache[n] /\ v.cache[k].block # b
<1> DEFINE c == [block |-> b, rows |-> rows]
           all == Append(Others(u, b), c)
           m == Len(all)
           a == m - (IF m > CacheBlocks THEN CacheBlocks ELSE m) + 1
           r == SubSeq(all, a, m)
           v == [u EXCEPT !.requested = NoBlock, !.cache = r]
<1>1. u \in Uis /\ SmallCache(u.cache) /\ c \in Cells /\ c.block = b
  BY DEF Whole, Cells
<1>2. Received(u, b, rows) = v
  BY DEF Received
<1> HIDE DEF c
<1>3. all \in Seq(Cells) /\ Apart(all)
      /\ \A k \in DOMAIN all : all[k] = c \/ \E n \in DOMAIN u.cache : all[k] = u.cache[n] /\ all[k].block # b
  <2>1. PutAtEnd(u, b, c, Append(Others(u, b), c))
    BY <1>1, CellIn
  <2> QED BY <2>1 DEF PutAtEnd
<1> HIDE DEF all
<1>4. m \in Nat /\ DOMAIN all = 1 .. m /\ CacheBlocks \in Nat
  BY <1>3, LenProperties, EditorAssumption
<1>5. \A k \in 1 .. m : all[k] \in Cells
  BY <1>3, <1>4, ElementOfSeq
<1> HIDE DEF m
<1>6. a \in Nat /\ a >= 1 /\ a <= m + 1 /\ m - a + 1 <= CacheBlocks /\ m - a + 1 \in Nat
  <2>1. CASE m > CacheBlocks
    BY <1>4, <2>1
  <2>2. CASE ~(m > CacheBlocks)
    BY <1>4, <2>2
  <2> QED BY <2>1, <2>2
<1> HIDE DEF a
<1>7. r \in Seq(Cells) /\ Len(r) = m - a + 1 /\ \A k \in 1 .. m - a + 1 : r[k] = all[a + k - 1]
  <2>1. \A k \in a .. m : all[k] \in Cells
    BY <1>4, <1>5, <1>6
  <2>2. r \in Seq(Cells) /\ Len(r) = (IF a <= m THEN m - a + 1 ELSE 0) /\ \A k \in 1 .. m - a + 1 : r[k] = all[a + k - 1]
    BY <1>4, <1>6, <2>1, SubSeqProperties
  <2>3. CASE a <= m
    BY <2>2, <2>3
  <2>4. CASE ~(a <= m)
    BY <1>4, <1>6, <2>2, <2>4
  <2> QED BY <2>3, <2>4
<1>8. DOMAIN r = 1 .. m - a + 1
  BY <1>7, LenProperties
<1> HIDE DEF r
<1>9. \A k \in DOMAIN r : a + k - 1 \in DOMAIN all /\ r[k] = all[a + k - 1]
  BY <1>4, <1>6, <1>7, <1>8
<1>10. Apart(r)
  <2>1. \A i, j \in DOMAIN r : a + i - 1 = a + j - 1 => i = j
    BY <1>4, <1>6, <1>8
  <2> QED BY <1>3, <1>9, <2>1 DEF Apart
<1>11. SmallCache(r)
  BY <1>6, <1>7, <1>10 DEF SmallCache
<1>12. \A k \in DOMAIN r : r[k] = c \/ \E n \in DOMAIN u.cache : r[k] = u.cache[n] /\ r[k].block # b
  BY <1>3, <1>9
<1>13. v \in Uis /\ v.cache = r /\ v.generation = u.generation /\ v.group = u.group /\ v.pageBusy = u.pageBusy
       /\ v.pending = u.pending
  <2>1. NoBlock \in Int
    BY DEF NoBlock
  <2> QED BY <1>1, <1>7, <2>1 DEF Uis
<1>14. Alike(u, v)
  BY <1>1 DEF Uis, Alike
<1>15. v = Received(u, b, rows)
  BY <1>2 DEF r, all, a, m, c
<1> HIDE DEF v
<1> QED BY <1>11, <1>12, <1>13, <1>14, <1>15 DEF Whole, c
\* A job of the open dialog.
LEMMA JobIs ==
  ASSUME count.dialog \in Dialogs, NEW kind \in Kinds
  PROVE  Job(kind) \in Jobs /\ Job(kind).kind = kind /\ Job(kind).dialog = count.dialog /\ Job(kind).act = ""
<1>1. NoEntry \in Entries
  BY DEF NoEntry, Entries
<1>2. NoBlock \in Int /\ NoGroup \in Nat
  BY DEF NoBlock, NoGroup
<1> QED BY <1>1, <1>2 DEF Job, Jobs

\* The groups are asked for.
LEMMA GroupsJobIs ==
  ASSUME count.dialog \in Dialogs, NEW g \in Nat, NEW last \in BOOLEAN
  PROVE  LET j == GroupsJob(g, last) IN j \in Jobs /\ j.kind = "groups" /\ j.dialog = count.dialog
<1>1. PICK j \in Jobs : j = Job("groups") /\ j.kind = "groups" /\ j.dialog = count.dialog
  <2>1. "groups" \in Kinds
    BY DEF Kinds
  <2> QED BY <2>1, JobIs
<1>2. GroupsJob(g, last) = [j EXCEPT !.selected = g, !.last = last]
  BY <1>1 DEF GroupsJob
<1> QED BY <1>1, <1>2 DEF Jobs

\* A page is asked for, of the group and the generation of the table.
LEMMA PageJobIs ==
  ASSUME count.dialog \in Dialogs, NEW u, Whole(u)
  PROVE  LET j == PageJob(u)
         IN  /\ j \in Jobs /\ j.kind = "page" /\ j.dialog = count.dialog
             /\ j.generation = u.generation /\ j.group = u.group /\ j.block = u.pending.block
<1>1. PICK j \in Jobs : j = Job("page") /\ j.kind = "page" /\ j.dialog = count.dialog
  <2>1. "page" \in Kinds
    BY DEF Kinds
  <2> QED BY <2>1, JobIs
<1>2. u.generation \in Nat /\ u.group \in Nat /\ u.pending.block \in Int
  BY DEF Whole, Uis
<1>3. PageJob(u) = [j EXCEPT !.generation = u.generation, !.group = u.group, !.block = u.pending.block]
  BY <1>1 DEF PageJob
<1> QED BY <1>1, <1>2, <1>3 DEF Jobs

\* js is what the dialog submits in this step.
Sends(js) ==
  /\ js \in Seq(Jobs) /\ queue' = queue \o js
  /\ \A i \in DOMAIN js :
       /\ js[i].dialog = count.dialog /\ js[i].kind \notin {"begin", "discard"}
       /\ js[i].kind = "mutate" => js[i].act \in AllActions
\* Groups, and the page that the table u wants, if it does.
Asks(u, js) ==
  /\ \A i \in DOMAIN js : js[i].kind = "groups" \/ (Wanted(u) /\ js[i] = PageJob(u) /\ js[i].kind = "page")
  /\ \A i, k \in DOMAIN js : js[i].kind = "page" /\ js[k].kind = "page" => i = k
  /\ Wanted(u) => \E i \in DOMAIN js : js[i].kind = "page"
\* One page at most is asked for: of the table, which does not hold it, and
\* when no other one is under way.
Fetches(busy, js) ==
  /\ \A i \in DOMAIN js : js[i].kind = "page" =>
       /\ js[i].generation = ui'.generation /\ js[i].group = ui'.group /\ ~HasBlock(ui', js[i].block)
       /\ ui'.draft = TRUE /\ ui'.open = TRUE /\ busy = FALSE /\ ui'.pageBusy = TRUE
  /\ \A i, k \in DOMAIN js : js[i].kind = "page" /\ js[k].kind = "page" => i = k
  /\ (\A i \in DOMAIN js : js[i].kind # "page") => ui'.pageBusy = busy
\* The table u after that.
SameCells(u, v) == v.cache = u.cache /\ v.generation = u.generation /\ v.group = u.group

\* Nothing is submitted.
LEMMA SendsNothing ==
  ASSUME queue \in Seq(Jobs), UNCHANGED queue
  PROVE  Sends(<<>>)
<1>1. queue \o <<>> = queue
  BY ConcatEmptySeq
<1>2. <<>> \in Seq(Jobs) /\ DOMAIN <<>> = {}
  BY EmptySeq
<1> QED BY <1>1, <1>2 DEF Sends

\* One job is submitted.
LEMMA SendsOne ==
  ASSUME queue \in Seq(Jobs), NEW j \in Jobs, queue' = Append(queue, j), j.dialog = count.dialog,
         j.kind \notin {"begin", "discard"}, j.kind = "mutate" => j.act \in AllActions
  PROVE  Sends(<<j>>)
<1>1. queue \o <<j>> = Append(queue, j)
  BY AppendIsConcat
<1>2. <<j>> \in Seq(Jobs) /\ DOMAIN <<j>> = {1} /\ <<j>>[1] = j
  OBVIOUS
<1> QED BY <1>1, <1>2 DEF Sends

\* What the table wants is asked for, behind the groups if they are.
LEMMA SettleIs ==
  ASSUME queue \in Seq(Jobs), count.dialog \in Dialogs, NEW u, Whole(u), NEW jobs, Settle(u, jobs),
         jobs = <<>> \/ \E g \in Nat : jobs = <<GroupsJob(g, FALSE)>>
  PROVE  /\ Whole(ui') /\ Alike(u, ui') /\ SameCells(u, ui')
         /\ \E js : /\ Sends(js) /\ Fetches(u.pageBusy, js)
                    /\ \A i \in DOMAIN js : js[i].kind \in {"groups", "page"}
                    /\ jobs # <<>> => \E i \in DOMAIN js : js[i].kind = "groups"
                    /\ jobs = <<>> => \A i \in DOMAIN js : js[i].kind = "page"
<1> DEFINE p == PumpJobs(u)
           js == jobs \o p
<1>1. /\ Whole(ui') /\ Alike(u, ui') /\ SameCells(u, ui')
      /\ Wanted(u) => ui'.pageBusy = TRUE /\ u.pageBusy = FALSE /\ u.draft = TRUE /\ u.open = TRUE
      /\ ~Wanted(u) => ui'.pageBusy = u.pageBusy
  BY PumpedIs DEF Settle, SameCells
<1>2. /\ p \in Seq(Jobs) /\ \A i \in DOMAIN p : i = 1 /\ Wanted(u) /\ p[i] = PageJob(u)
      /\ Wanted(u) => 1 \in DOMAIN p /\ p[1] = PageJob(u)
  <2>1. CASE Wanted(u)
    <3>1. PageJob(u) \in Jobs
      BY PageJobIs
    <3>2. p = <<PageJob(u)>>
      BY <2>1 DEF PumpJobs
    <3>3. p \in Seq(Jobs) /\ DOMAIN p = {1} /\ p[1] = PageJob(u)
      BY <3>1, <3>2
    <3> QED BY <2>1, <3>3
  <2>2. CASE ~Wanted(u)
    <3>1. p = <<>>
      BY <2>2 DEF PumpJobs
    <3>2. p \in Seq(Jobs) /\ DOMAIN p = {}
      BY <3>1
    <3> QED BY <2>2, <3>2
  <2> QED BY <2>1, <2>2
<1>3. /\ jobs \in Seq(Jobs)
      /\ \A i \in DOMAIN jobs : jobs[i].kind = "groups" /\ jobs[i].dialog = count.dialog
      /\ jobs # <<>> => 1 \in DOMAIN jobs
  <2>1. CASE jobs = <<>>
    BY <2>1, EmptySeq
  <2>2. ASSUME NEW g \in Nat, jobs = <<GroupsJob(g, FALSE)>>
        PROVE  /\ jobs \in Seq(Jobs) /\ 1 \in DOMAIN jobs
               /\ \A i \in DOMAIN jobs : jobs[i].kind = "groups" /\ jobs[i].dialog = count.dialog
    <3>1. PICK j \in Jobs : j = GroupsJob(g, FALSE) /\ j.kind = "groups" /\ j.dialog = count.dialog
      BY GroupsJobIs
    <3>2. jobs = <<j>>
      BY <2>2, <3>1
    <3>3. <<j>> \in Seq(Jobs) /\ DOMAIN <<j>> = {1} /\ <<j>>[1] = j
      OBVIOUS
    <3> QED BY <3>1, <3>2, <3>3
  <2> QED BY <2>1, <2>2
<1>4. /\ PageJob(u).kind = "page" /\ PageJob(u).dialog = count.dialog
      /\ PageJob(u).generation = u.generation /\ PageJob(u).group = u.group /\ PageJob(u).block = u.pending.block
  BY PageJobIs
<1>5. queue' = (queue \o jobs) \o p
  BY DEF Settle
<1> HIDE DEF p
<1>6. (queue \o jobs) \o p = queue \o js
  <2>1. p \in Seq(Jobs) /\ jobs \in Seq(Jobs)
    BY <1>2, <1>3
  <2> QED BY <2>1, ConcatAssociative
<1>7. js \in Seq(Jobs)
      /\ (\A i \in DOMAIN jobs : i \in DOMAIN js /\ js[i] = jobs[i])
      /\ \A i \in DOMAIN js : \/ i \in DOMAIN jobs /\ js[i] = jobs[i]
                              \/ i - Len(jobs) \in DOMAIN p /\ js[i] = p[i - Len(jobs)]
  BY <1>2, <1>3, Grown
<1>71. Wanted(u) => \E i \in DOMAIN js : js[i].kind = "page"
  <2>1. ASSUME Wanted(u) PROVE 1 + Len(jobs) \in DOMAIN js /\ js[1 + Len(jobs)] = p[1]
    <3>1. /\ Len(js) = Len(jobs) + Len(p) /\ \A i \in 1 .. Len(jobs) + Len(p) : js[i] = IF i <= Len(jobs) THEN jobs[i] ELSE p[i - Len(jobs)]
      BY <1>2, <1>3, ConcatProperties
    <3>2. Len(jobs) \in Nat /\ DOMAIN p = 1 .. Len(p) /\ Len(p) \in Nat /\ DOMAIN js = 1 .. Len(js)
      BY <1>2, <1>3, <1>7, LenProperties
    <3>3. 1 \in DOMAIN p
      BY <1>2, <2>1
    <3>4. 1 + Len(jobs) \in 1 .. Len(jobs) + Len(p) /\ ~(1 + Len(jobs) <= Len(jobs)) /\ (1 + Len(jobs)) - Len(jobs) = 1
      BY <3>2, <3>3
    <3> HIDE DEF js
    <3> QED BY <3>1, <3>2, <3>4
  <2> QED BY <1>2, <1>4, <2>1
<1>8. DOMAIN js \subseteq Nat /\ Len(jobs) \in Nat
  BY <1>3, <1>7, LenProperties
<1> HIDE DEF js
<1>9. \A i \in DOMAIN js : js[i].kind = "groups" \/ (Wanted(u) /\ js[i] = PageJob(u) /\ js[i].kind = "page" /\ i - Len(jobs) = 1)
  BY <1>2, <1>3, <1>4, <1>7
<1>10. \A i, k \in DOMAIN js : i - Len(jobs) = 1 /\ k - Len(jobs) = 1 => i = k
  BY <1>8
<1>11. Asks(u, js)
  BY <1>71, <1>9, <1>10 DEF Asks
<1>14. Fetches(u.pageBusy, js)
  <2>1. \A b : HasBlock(ui', b) <=> HasBlock(u, b)
    BY <1>1 DEF HasBlock, SameCells
  <2>2. Wanted(u) => ~HasBlock(u, u.pending.block)
    BY DEF Wanted
  <2>3. ui'.draft = u.draft /\ ui'.open = u.open
    BY <1>1 DEF Alike
  <2>4. ASSUME NEW i \in DOMAIN js, js[i].kind = "page"
        PROVE  /\ js[i].generation = ui'.generation /\ js[i].group = ui'.group /\ ~HasBlock(ui', js[i].block)
               /\ ui'.draft = TRUE /\ ui'.open = TRUE /\ u.pageBusy = FALSE /\ ui'.pageBusy = TRUE
    <3>1. Wanted(u) /\ js[i] = PageJob(u)
      BY <1>11, <2>4 DEF Asks
    <3> QED BY <1>1, <1>4, <2>1, <2>2, <2>3, <3>1 DEF SameCells
  <2>5. (\A i \in DOMAIN js : js[i].kind # "page") => ui'.pageBusy = u.pageBusy
    BY <1>1, <1>11 DEF Asks
  <2> QED BY <1>11, <2>4, <2>5 DEF Asks, Fetches
<1>15. \A i \in DOMAIN js : js[i].kind \in {"groups", "page"}
  BY <1>11 DEF Asks
<1>12. Sends(js)
  <2>1. \A i \in DOMAIN js : js[i].dialog = count.dialog
    BY <1>2, <1>3, <1>4, <1>7
  <2> QED BY <1>5, <1>6, <1>7, <1>15, <2>1 DEF Sends
<1>13. jobs # <<>> => \E i \in DOMAIN js : js[i].kind = "groups"
  BY <1>3, <1>7
<1>16. jobs = <<>> => \A i \in DOMAIN js : js[i].kind = "page"
  <2>1. jobs = <<>> => DOMAIN jobs = {}
    OBVIOUS
  <2> QED BY <1>2, <1>4, <1>7, <2>1
<1> QED BY <1>1, <1>12, <1>13, <1>14, <1>15, <1>16
-----------------------------------------------------------------------------
(***************************************************************************)
(* What a step of the GUI thread does while the dialog stays open: what it *)
(* submits, what becomes of the table, and which boxes open.               *)
(***************************************************************************)
Goes(js) ==
  /\ ui.open = TRUE /\ ui'.open = TRUE /\ Sends(js) /\ Whole(ui')
  /\ alerts' \in Seq(Boxes) /\ typed' \in Lists /\ count' \in Counters /\ count'.dialog = count.dialog
  /\ UNCHANGED store
Clears(u, v) == v.cache = <<>> /\ v.generation = u.generation + 1
OnlyGroups(js) == \A i \in DOMAIN js : js[i].kind = "groups"
HasGroups(js) == \E i \in DOMAIN js : js[i].kind = "groups"
\* The dialog and its table stay as they are.
Calm == Alike(ui, ui') /\ SameTable(ui, ui')

\* A result is for the open dialog.
LEMMA ResultIs ==
  ASSUME ShapeInv, done # <<>>
  PROVE  LET r == Head(done)
         IN  /\ r \in Answers /\ r = done[1] /\ 1 \in DOMAIN done
             /\ ui.open = TRUE /\ count.dialog \in Dialogs
             /\ r.job.dialog = count.dialog /\ r.job.kind # "discard"
             /\ r.job.kind = "groups" /\ ~r.error => DOMAIN r.known # {}
<1>1. Head(done) \in Answers /\ 1 \in DOMAIN done /\ done[1] = Head(done)
  BY WithoutFirst DEF ShapeInv, DoneType
<1>2. ui.open \in BOOLEAN /\ count.dialog \in Nat
  BY DEF ShapeInv, UiType, Whole, Uis, Counters
<1>3. ui.open = TRUE /\ Head(done).job.dialog = count.dialog /\ Head(done).job.kind # "discard"
  BY <1>1, <1>2 DEF ShapeInv, DoneType
<1>4. count.dialog > 0
  BY <1>3 DEF ShapeInv, UiType
<1>5. Head(done).job.kind = "groups" /\ ~Head(done).error => DOMAIN Head(done).known # {}
  BY <1>1 DEF ShapeInv, DoneType
<1> QED BY <1>1, <1>2, <1>3, <1>4, <1>5 DEF Dialogs

\* The open dialog has a number, and its state the shape of one.
LEMMA OpenIs ==
  ASSUME ShapeInv, ui.open
  PROVE  /\ ui.open = TRUE /\ count.dialog \in Dialogs /\ Whole(ui) /\ ui \in Uis /\ queue \in Seq(Jobs)
         /\ alerts \in Seq(Boxes) /\ typed \in Lists /\ count \in Counters
<1>1. ui.open \in BOOLEAN /\ count.dialog \in Nat /\ count.dialog > 0
  BY DEF ShapeInv, UiType, Whole, Uis, Counters
<1> QED BY <1>1 DEF ShapeInv, UiType, JobType, Dialogs, Whole

\* A box more.
LEMMA AlertIs ==
  ASSUME alerts \in Seq(Boxes), NEW what \in Boxes, Alert(what)
  PROVE  alerts' \in Seq(Boxes) /\ alerts' = Append(alerts, what)
BY GrownByOne DEF Alert

\* The dialog has its draft: its groups are asked for.
LEMMA BegunIs ==
  ASSUME ShapeInv, done # <<>>, Begun(Head(done)), UNCHANGED <<store, count, typed>>
  PROVE  \E js : /\ Goes(js) /\ SameTable(ui, ui') /\ ui'.saving = ui.saving /\ ui'.loaded = ui.loaded
                 /\ OnlyGroups(js)
                 /\ ~Head(done).error => ui'.draft = TRUE /\ ui'.writeError = ui.writeError /\ UNCHANGED alerts
                 /\ Head(done).error => ui'.draft = ui.draft
<1> DEFINE r == Head(done)
<1>1. ui.open = TRUE /\ count.dialog \in Dialogs /\ r \in Answers
  BY ResultIs
<1>2. Whole(ui) /\ ui \in Uis /\ queue \in Seq(Jobs) /\ alerts \in Seq(Boxes) /\ typed \in Lists /\ count \in Counters
  BY <1>1, OpenIs
<1>3. CASE r.error
  <2>1. ui' = [ui EXCEPT !.writeError = TRUE] /\ UNCHANGED queue /\ Alert("nothing")
    BY <1>3 DEF Begun
  <2>2. ui' \in Uis /\ SameTable(ui, ui') /\ ui'.open = ui.open /\ ui'.saving = ui.saving /\ ui'.loaded = ui.loaded
        /\ ui'.draft = ui.draft
    BY <1>2, <2>1 DEF Uis, SameTable
  <2>3. Whole(ui')
    BY <1>2, <2>2 DEF Whole, SameTable
  <2>4. "nothing" \in Boxes
    BY DEF Boxes
  <2>5. alerts' \in Seq(Boxes)
    BY <1>2, <2>1, <2>4, AlertIs
  <2>6. Sends(<<>>) /\ OnlyGroups(<<>>)
    BY <1>2, <2>1, SendsNothing DEF OnlyGroups
  <2>7. Goes(<<>>)
    BY <1>1, <1>2, <2>2, <2>3, <2>5, <2>6 DEF Goes
  <2> QED BY <1>3, <2>2, <2>6, <2>7
<1>4. CASE ~r.error
  <2> DEFINE u == [ui EXCEPT !.draft = TRUE]
             j == GroupsJob(ui.combo, FALSE)
  <2>1. ui' = Controls(u, FALSE) /\ queue' = Append(queue, j) /\ UNCHANGED alerts
    BY <1>4 DEF Begun
  <2>2. u \in Uis /\ SameTable(ui, u) /\ u.open = ui.open /\ u.saving = ui.saving /\ u.loaded = ui.loaded
        /\ u.draft = TRUE /\ u.writeError = ui.writeError
    BY <1>2 DEF Uis, SameTable
  <2>3. Whole(u)
    BY <1>2, <2>2 DEF Whole, SameTable
  <2>4. ui.combo \in Nat
    BY <1>2 DEF Uis
  <2>5. j \in Jobs /\ j.kind = "groups" /\ j.dialog = count.dialog
    BY <1>1, <2>4, GroupsJobIs
  <2> HIDE DEF u, j
  <2>6. FALSE \in BOOLEAN
    OBVIOUS
  <2>7. Whole(ui') /\ Alike(u, ui') /\ SameTable(u, ui')
    BY <2>1, <2>3, <2>6, ControlsIs
  <2>8. Sends(<<j>>)
    BY <1>2, <2>1, <2>5, SendsOne
  <2>9. OnlyGroups(<<j>>)
    BY <2>5 DEF OnlyGroups
  <2>10. ui'.open = TRUE
    BY <1>1, <2>2, <2>7 DEF Alike
  <2>11. Goes(<<j>>)
    BY <1>1, <1>2, <2>1, <2>7, <2>8, <2>10 DEF Goes
  <2> QED BY <1>4, <2>1, <2>2, <2>7, <2>9, <2>11 DEF Alike, SameTable
<1> QED BY <1>3, <1>4

\* The answer of an edit.
LEMMA EditReceivedIs ==
  ASSUME ShapeInv, done # <<>>, EditReceived(Head(done)), UNCHANGED <<store, count, typed>>
  PROVE  /\ Goes(<<>>) /\ SameTable(ui, ui') /\ UNCHANGED queue
         /\ ui'.draft = ui.draft /\ ui'.saving = ui.saving /\ ui'.loaded = ui.loaded
         /\ ~Head(done).error => UNCHANGED <<ui, alerts>>
         /\ Head(done).error => ui'.writeError = TRUE /\ alerts' = Append(alerts, "refresh")
<1> DEFINE r == Head(done)
<1>1. ui.open = TRUE /\ count.dialog \in Dialogs /\ r \in Answers
  BY ResultIs
<1>2. Whole(ui) /\ ui \in Uis /\ queue \in Seq(Jobs) /\ alerts \in Seq(Boxes) /\ typed \in Lists /\ count \in Counters
  BY <1>1, OpenIs
<1>3. UNCHANGED queue /\ Sends(<<>>)
  BY <1>2, SendsNothing DEF EditReceived
<1>4. CASE ~r.error
  <2>1. UNCHANGED <<ui, alerts>>
    BY <1>4 DEF EditReceived
  <2> QED BY <1>1, <1>2, <1>3, <1>4, <2>1 DEF Goes, SameTable
<1>5. CASE r.error
  <2>1. ui' = [ui EXCEPT !.writeError = TRUE] /\ Alert("refresh")
    BY <1>5 DEF EditReceived
  <2>2. ui' \in Uis /\ SameTable(ui, ui') /\ ui'.open = ui.open /\ ui'.saving = ui.saving /\ ui'.loaded = ui.loaded
        /\ ui'.draft = ui.draft /\ ui'.writeError = TRUE
    BY <1>2, <2>1 DEF Uis, SameTable
  <2>3. Whole(ui')
    BY <1>2, <2>2 DEF Whole, SameTable
  <2>4. "refresh" \in Boxes
    BY DEF Boxes
  <2>5. alerts' \in Seq(Boxes) /\ alerts' = Append(alerts, "refresh")
    BY <1>2, <2>1, <2>4, AlertIs
  <2> QED BY <1>1, <1>2, <1>3, <1>5, <2>2, <2>3, <2>5 DEF Goes
<1> QED BY <1>4, <1>5

\* The answer of an operation of the buttons.
LEMMA MutateReceivedIs ==
  ASSUME ShapeInv, done # <<>>, MutateReceived(Head(done)), UNCHANGED <<store, count, typed>>
  PROVE  \E js : /\ Goes(js) /\ Calm /\ OnlyGroups(js) /\ (~Head(done).error => HasGroups(js))
                 /\ UNCHANGED alerts \/ alerts' = Append(alerts, "nothing")
<1> DEFINE r == Head(done)
<1>1. ui.open = TRUE /\ count.dialog \in Dialogs /\ r \in Answers
  BY ResultIs
<1>2. Whole(ui) /\ ui \in Uis /\ queue \in Seq(Jobs) /\ alerts \in Seq(Boxes) /\ typed \in Lists /\ count \in Counters
  BY <1>1, OpenIs
<1>3. Whole(ui') /\ Calm
  <2>1. ui' = Controls(ui, TRUE) \/ ui' = Controls(ui, FALSE)
    BY DEF MutateReceived
  <2>2. TRUE \in BOOLEAN /\ FALSE \in BOOLEAN
    OBVIOUS
  <2> QED BY <1>2, <2>1, <2>2, ControlsIs DEF Calm
<1>4. ui'.open = TRUE
  BY <1>1, <1>3 DEF Calm, Alike
<1>5. CASE r.error
  <2>1. UNCHANGED queue /\ Alert("nothing")
    BY <1>5 DEF MutateReceived
  <2>2. "nothing" \in Boxes
    BY DEF Boxes
  <2>3. alerts' \in Seq(Boxes) /\ alerts' = Append(alerts, "nothing")
    BY <1>2, <2>1, <2>2, AlertIs
  <2>4. Sends(<<>>) /\ OnlyGroups(<<>>)
    BY <1>2, <2>1, SendsNothing DEF OnlyGroups
  <2>5. Goes(<<>>)
    BY <1>1, <1>2, <1>3, <1>4, <2>3, <2>4 DEF Goes
  <2> QED BY <1>3, <1>5, <2>3, <2>4, <2>5
<1>6. CASE ~r.error
  <2> DEFINE g == IF r.job.act = "add_group" THEN r.added ELSE r.job.group
             last == (r.job.act = "append")
             j == GroupsJob(g, last)
  <2>1. queue' = Append(queue, j) /\ UNCHANGED alerts
    BY <1>6 DEF MutateReceived
  <2>2. g \in Nat
    BY <1>1 DEF Answers, Jobs
  <2>3. last \in BOOLEAN
    OBVIOUS
  <2>4. j \in Jobs /\ j.kind = "groups" /\ j.dialog = count.dialog
    BY <1>1, <2>2, <2>3, GroupsJobIs
  <2> HIDE DEF j
  <2>5. Sends(<<j>>)
    BY <1>2, <2>1, <2>4, SendsOne
  <2>6. OnlyGroups(<<j>>) /\ HasGroups(<<j>>)
    BY <2>4 DEF OnlyGroups, HasGroups
  <2>7. Goes(<<j>>)
    BY <1>1, <1>2, <1>3, <1>4, <2>1, <2>5 DEF Goes
  <2> QED BY <1>3, <2>1, <2>6, <2>7
<1> QED BY <1>5, <1>6
\* The groups are listed: what is shown starts anew, if anything is.
LEMMA GroupsReceivedIs ==
  ASSUME ShapeInv, done # <<>>, Head(done).job.kind = "groups", GroupsReceived(Head(done)),
         UNCHANGED <<store, count, typed>>
  PROVE  \E js : /\ Goes(js) /\ Alike(ui, ui') /\ Fetches(ui.pageBusy, js)
                 /\ \A i \in DOMAIN js : js[i].kind \in {"groups", "page"}
                 /\ UNCHANGED alerts \/ alerts' = Append(alerts, "nothing")
                 /\ \/ (Head(done).error \/ ~ui.loaded) /\ js = <<>> /\ SameTable(ui, ui')
                    \/ ~Head(done).error /\ ui.loaded /\ Clears(ui, ui')
<1> DEFINE r == Head(done)
           ids == DOMAIN r.known
           first == CHOOSE g \in ids : \A h \in ids : g <= h
           shown(g) == [Controls(ui, TRUE) EXCEPT !.known = r.known, !.revision = r.revision, !.combo = g]
           lastRow(u) == IF r.job.last /\ u.rows > 0 THEN Looked(u, u.rows - 1) ELSE u
<1>1. ui.open = TRUE /\ count.dialog \in Dialogs /\ r \in Answers /\ (~r.error => ids # {})
  BY ResultIs
<1>2. Whole(ui) /\ ui \in Uis /\ queue \in Seq(Jobs) /\ alerts \in Seq(Boxes) /\ typed \in Lists /\ count \in Counters
  BY <1>1, OpenIs
<1>3. Whole(Controls(ui, TRUE)) /\ Alike(ui, Controls(ui, TRUE)) /\ SameTable(ui, Controls(ui, TRUE))
  <2>1. TRUE \in BOOLEAN
    OBVIOUS
  <2> QED BY <1>2, <2>1, ControlsIs
<1>4. CASE r.error
  <2>1. ui' = Controls(ui, TRUE) /\ UNCHANGED queue /\ Alert("nothing")
    BY <1>4 DEF GroupsReceived
  <2>2. "nothing" \in Boxes
    BY DEF Boxes
  <2>3. alerts' \in Seq(Boxes) /\ alerts' = Append(alerts, "nothing")
    BY <1>2, <2>1, <2>2, AlertIs
  <2>4. Sends(<<>>)
    BY <1>2, <2>1, SendsNothing
  <2>5. Whole(ui') /\ Alike(ui, ui') /\ SameTable(ui, ui') /\ ui'.open = TRUE
    BY <1>1, <1>3, <2>1 DEF Alike
  <2>6. Goes(<<>>)
    BY <1>1, <1>2, <2>3, <2>4, <2>5 DEF Goes
  <2>7. Fetches(ui.pageBusy, <<>>)
    BY <2>5 DEF Fetches, SameTable
  <2> QED BY <1>4, <2>3, <2>5, <2>6, <2>7
<1>5. CASE ~r.error
  <2>1. PICK g \in IF r.job.selected \in ids THEN {r.job.selected}
                   ELSE IF r.job.selected = NoGroup THEN ids ELSE {first} :
          /\ IF ui.loaded THEN Settle(lastRow(Selected(shown(g), g)), <<>>)
             ELSE ui' = shown(g) /\ UNCHANGED queue
          /\ UNCHANGED alerts
    BY <1>5 DEF GroupsReceived
  <2>2. ids \subseteq Nat /\ r.known \in Lists /\ r.revision \in Int
    BY <1>1 DEF Answers, Lists
  <2>3. first \in ids
    BY <1>1, <1>5, <2>2, LeastNumber
  <2> HIDE DEF first
  <2>4. g \in Nat
    BY <2>1, <2>2, <2>3
  <2> DEFINE c == Controls(ui, TRUE)
             s == [c EXCEPT !.known = r.known, !.revision = r.revision, !.combo = g]
  <2>5. s = shown(g)
    OBVIOUS
  <2>6. c \in Uis /\ Alike(ui, c) /\ SameTable(ui, c) /\ SmallCache(c.cache)
    BY <1>3 DEF Whole
  <2> HIDE DEF c
  <2>7. s \in Uis /\ SameTable(c, s) /\ Alike(c, s)
    BY <2>2, <2>4, <2>6 DEF Uis, SameTable, Alike
  <2> HIDE DEF s
  <2>8. Whole(s) /\ Alike(ui, s) /\ SameTable(ui, s)
    BY <2>6, <2>7 DEF Whole, Alike, SameTable
  <2>9. CASE ~ui.loaded
    <3>1. ui' = s /\ UNCHANGED queue /\ UNCHANGED alerts
      BY <2>1, <2>5, <2>9
    <3>2. Sends(<<>>)
      BY <1>2, <3>1, SendsNothing
    <3>3. ui'.open = TRUE
      BY <1>1, <2>8, <3>1 DEF Alike
    <3>4. Goes(<<>>)
      BY <1>1, <1>2, <2>8, <3>1, <3>2, <3>3 DEF Goes
    <3>5. Fetches(ui.pageBusy, <<>>)
      BY <2>8, <3>1 DEF Fetches, SameTable
    <3> QED BY <2>8, <2>9, <3>1, <3>4, <3>5
  <2>10. CASE ui.loaded
    <3> DEFINE e == Selected(s, g)
               u == lastRow(e)
    <3>1. Settle(u, <<>>) /\ UNCHANGED alerts
      BY <2>1, <2>5, <2>10
    <3>2. Whole(e) /\ Alike(s, e) /\ e.cache = <<>> /\ e.generation = s.generation + 1 /\ e.pageBusy = s.pageBusy
      BY <2>4, <2>8, SelectedIs
    <3> HIDE DEF e
    <3>3. Whole(u) /\ Alike(e, u) /\ u.cache = <<>> /\ u.generation = e.generation /\ u.pageBusy = e.pageBusy
      <4>1. CASE r.job.last /\ e.rows > 0
        <5>1. e.rows - 1 \in Int
          BY <3>2 DEF Whole, Uis
        <5>2. ~HasBlock(e, e.rows - 1)
          BY <3>2 DEF HasBlock
        <5> DEFINE m == e.rows - 1
        <5>3. u = Looked(e, m)
          BY <4>1
        <5> HIDE DEF m, u
        <5>4. Whole(u) /\ Alike(e, u) /\ u.cache = e.cache /\ u.generation = e.generation /\ u.pageBusy = e.pageBusy
          BY <3>2, <5>1, <5>2, <5>3, LookedIs DEF m
        <5> QED BY <3>2, <5>4
      <4>2. CASE ~(r.job.last /\ e.rows > 0)
        BY <3>2, <4>2 DEF Alike
      <4> QED BY <4>1, <4>2
    <3> HIDE DEF u
    <3>4. /\ Whole(ui') /\ Alike(u, ui') /\ SameCells(u, ui')
          /\ \E js : /\ Sends(js) /\ Fetches(u.pageBusy, js)
                     /\ \A i \in DOMAIN js : js[i].kind \in {"groups", "page"}
      BY <1>1, <1>2, <3>1, <3>3, SettleIs
    <3>5. PICK js : Sends(js) /\ Fetches(u.pageBusy, js) /\ \A i \in DOMAIN js : js[i].kind \in {"groups", "page"}
      BY <3>4
    <3>6. Alike(ui, ui') /\ Clears(ui, ui') /\ u.pageBusy = ui.pageBusy
      BY <2>8, <3>2, <3>3, <3>4 DEF Alike, SameTable, SameCells, Clears
    <3>7. ui'.open = TRUE
      BY <1>1, <3>6 DEF Alike
    <3>8. Goes(js)
      BY <1>1, <1>2, <3>1, <3>4, <3>5, <3>7 DEF Goes
    <3> QED BY <1>5, <2>10, <3>1, <3>5, <3>6, <3>8
  <2> QED BY <2>9, <2>10
<1> QED BY <1>4, <1>5
\* A page arrives: it is dropped, or the groups are listed again, or the table
\* has it.
LEMMA PageReceivedIs ==
  ASSUME ShapeInv, done # <<>>, PageReceived(Head(done)), UNCHANGED <<store, count, typed>>
  PROVE  \E js : /\ Goes(js) /\ Alike(ui, ui') /\ Fetches(FALSE, js)
                 /\ ui'.generation = ui.generation /\ ui'.group = ui.group
                 /\ \A i \in DOMAIN js : js[i].kind \in {"groups", "page"}
                 /\ UNCHANGED alerts \/ alerts' = Append(alerts, "pump")
                 /\ \/ ui'.cache = ui.cache
                    \/ /\ Head(done).job.generation = ui.generation /\ ~Head(done).error
                       /\ \A k \in DOMAIN ui'.cache :
                            \/ ui'.cache[k] = [block |-> Head(done).job.block, rows |-> Head(done).rows]
                            \/ \E n \in DOMAIN ui.cache : ui'.cache[k] = ui.cache[n]
<1> DEFINE r == Head(done)
           u == [ui EXCEPT !.pageBusy = FALSE]
<1>1. ui.open = TRUE /\ count.dialog \in Dialogs /\ r \in Answers
  BY ResultIs
<1>2. Whole(ui) /\ ui \in Uis /\ queue \in Seq(Jobs) /\ alerts \in Seq(Boxes) /\ typed \in Lists /\ count \in Counters
  BY <1>1, OpenIs
<1>3. u \in Uis /\ Alike(ui, u) /\ SameCells(ui, u) /\ u.pageBusy = FALSE
  BY <1>2 DEF Uis, Alike, SameCells
<1>4. Whole(u)
  BY <1>2, <1>3 DEF Whole, SameCells
<1>5. r.job.block \in Int /\ r.rows \in Seq(Entries) /\ r.job.group \in Nat
  BY <1>1 DEF Answers, Jobs
<1>6. /\ r.job.generation # ui.generation => Settle(u, <<>>) /\ UNCHANGED alerts
      /\ \/ Settle(u, <<>>) /\ UNCHANGED alerts
         \/ ui' = u /\ Alert("pump") /\ UNCHANGED queue
         \/ Settle(Controls(u, FALSE), <<GroupsJob(r.job.group, FALSE)>>) /\ UNCHANGED alerts
         \/ /\ r.job.generation = ui.generation /\ ~r.error
            /\ Settle(Received(u, r.job.block, r.rows), <<>>) /\ UNCHANGED alerts
  BY DEF PageReceived
<1> HIDE DEF u
\* What is settled when the table is v.
<1>7. ASSUME NEW v, Whole(v), Alike(ui, v), v.pageBusy = FALSE, v.generation = ui.generation, v.group = ui.group,
             NEW jobs, Settle(v, jobs), UNCHANGED alerts,
             jobs = <<>> \/ \E g \in Nat : jobs = <<GroupsJob(g, FALSE)>>
      PROVE  /\ Alike(ui, ui') /\ ui'.generation = ui.generation /\ ui'.group = ui.group /\ ui'.cache = v.cache
             /\ \E js : Goes(js) /\ Fetches(FALSE, js) /\ \A i \in DOMAIN js : js[i].kind \in {"groups", "page"}
  <2>1. /\ Whole(ui') /\ Alike(v, ui') /\ SameCells(v, ui')
        /\ \E js : Sends(js) /\ Fetches(v.pageBusy, js) /\ \A i \in DOMAIN js : js[i].kind \in {"groups", "page"}
    BY <1>1, <1>2, <1>7, SettleIs
  <2>2. PICK js : Sends(js) /\ Fetches(FALSE, js) /\ \A i \in DOMAIN js : js[i].kind \in {"groups", "page"}
    BY <1>7, <2>1
  <2>3. Alike(ui, ui') /\ ui'.open = TRUE
    BY <1>1, <1>7, <2>1 DEF Alike
  <2>4. Goes(js)
    BY <1>1, <1>2, <1>7, <2>1, <2>2, <2>3 DEF Goes
  <2>5. ui'.generation = ui.generation /\ ui'.group = ui.group /\ ui'.cache = v.cache
    BY <1>7, <2>1 DEF SameCells
  <2> QED BY <2>2, <2>3, <2>4, <2>5
<1>8. CASE Settle(u, <<>>) /\ UNCHANGED alerts
  <2>1. u.generation = ui.generation /\ u.group = ui.group /\ u.cache = ui.cache
    BY <1>3 DEF SameCells
  <2>2. /\ Alike(ui, ui') /\ ui'.generation = ui.generation /\ ui'.group = ui.group /\ ui'.cache = u.cache
        /\ \E js : Goes(js) /\ Fetches(FALSE, js) /\ \A i \in DOMAIN js : js[i].kind \in {"groups", "page"}
    BY <1>3, <1>4, <1>7, <1>8, <2>1
  <2> QED BY <1>8, <2>1, <2>2
<1>9. CASE ui' = u /\ Alert("pump") /\ UNCHANGED queue
  <2>1. "pump" \in Boxes
    BY DEF Boxes
  <2>2. alerts' \in Seq(Boxes) /\ alerts' = Append(alerts, "pump")
    BY <1>2, <1>9, <2>1, AlertIs
  <2>3. Sends(<<>>)
    BY <1>2, <1>9, SendsNothing
  <2>4. ui'.open = TRUE
    BY <1>1, <1>3, <1>9 DEF Alike
  <2>5. Goes(<<>>)
    BY <1>1, <1>2, <1>4, <1>9, <2>2, <2>3, <2>4 DEF Goes
  <2>6. Fetches(FALSE, <<>>)
    BY <1>3, <1>9 DEF Fetches
  <2>7. Alike(ui, ui') /\ ui'.generation = ui.generation /\ ui'.group = ui.group /\ ui'.cache = ui.cache
    BY <1>3, <1>9 DEF SameCells
  <2>8. \A i \in DOMAIN <<>> : <<>>[i].kind \in {"groups", "page"}
    OBVIOUS
  <2> QED BY <2>2, <2>5, <2>6, <2>7, <2>8
<1>10. CASE Settle(Controls(u, FALSE), <<GroupsJob(r.job.group, FALSE)>>) /\ UNCHANGED alerts
  <2> DEFINE v == Controls(u, FALSE)
             jobs == <<GroupsJob(r.job.group, FALSE)>>
  <2>1. FALSE \in BOOLEAN
    OBVIOUS
  <2>2. Whole(v) /\ Alike(u, v) /\ SameTable(u, v)
    BY <1>4, <2>1, ControlsIs
  <2>3. Settle(v, jobs) /\ UNCHANGED alerts /\ \E g \in Nat : jobs = <<GroupsJob(g, FALSE)>>
    BY <1>5, <1>10
  <2> HIDE DEF v, jobs
  <2>4. Alike(ui, v) /\ v.pageBusy = FALSE /\ v.generation = ui.generation /\ v.group = ui.group /\ v.cache = ui.cache
    BY <1>3, <2>2 DEF Alike, SameTable, SameCells
  <2>5. /\ Alike(ui, ui') /\ ui'.generation = ui.generation /\ ui'.group = ui.group /\ ui'.cache = v.cache
        /\ \E js : Goes(js) /\ Fetches(FALSE, js) /\ \A i \in DOMAIN js : js[i].kind \in {"groups", "page"}
    BY <1>7, <2>2, <2>3, <2>4
  <2> QED BY <2>3, <2>4, <2>5
<1>11. CASE /\ r.job.generation = ui.generation /\ ~r.error
            /\ Settle(Received(u, r.job.block, r.rows), <<>>) /\ UNCHANGED alerts
  <2> DEFINE v == Received(u, r.job.block, r.rows)
  <2>1. /\ Whole(v) /\ Alike(u, v)
        /\ v.generation = u.generation /\ v.group = u.group /\ v.pageBusy = u.pageBusy
        /\ \A k \in DOMAIN v.cache : \/ v.cache[k] = [block |-> r.job.block, rows |-> r.rows]
                                     \/ \E n \in DOMAIN u.cache : v.cache[k] = u.cache[n] /\ v.cache[k].block # r.job.block
    BY <1>4, <1>5, ReceivedIs
  <2>2. Settle(v, <<>>) /\ UNCHANGED alerts
    BY <1>11
  <2> HIDE DEF v
  <2>3. Alike(ui, v) /\ v.pageBusy = FALSE /\ v.generation = ui.generation /\ v.group = ui.group
    BY <1>3, <2>1 DEF Alike, SameCells
  <2>4. /\ Alike(ui, ui') /\ ui'.generation = ui.generation /\ ui'.group = ui.group /\ ui'.cache = v.cache
        /\ \E js : Goes(js) /\ Fetches(FALSE, js) /\ \A i \in DOMAIN js : js[i].kind \in {"groups", "page"}
    BY <1>7, <2>1, <2>2, <2>3
  <2>5. \A k \in DOMAIN ui'.cache : \/ ui'.cache[k] = [block |-> r.job.block, rows |-> r.rows]
                                    \/ \E n \in DOMAIN ui.cache : ui'.cache[k] = ui.cache[n]
    BY <1>3, <2>1, <2>4 DEF SameCells
  <2> QED BY <1>11, <2>2, <2>4, <2>5
<1> QED BY <1>6, <1>8, <1>9, <1>10, <1>11

\* The barrier is through.
LEMMA FlushReceivedIs ==
  ASSUME ShapeInv, done # <<>>, FlushReceived(Head(done)), UNCHANGED <<store, count, typed>>
  PROVE  /\ Goes(<<>>) /\ SameTable(ui, ui') /\ UNCHANGED queue
         /\ ui'.draft = ui.draft /\ ui'.loaded = ui.loaded /\ ui'.writeError = ui.writeError
         /\ ui'.saving = "no" \/ (ui'.saving = "commit" /\ ui.draft = TRUE /\ ui.writeError = FALSE)
         /\ UNCHANGED alerts \/ alerts' = Append(alerts, "nothing")
<1>1. ui.open = TRUE /\ count.dialog \in Dialogs
  BY ResultIs
<1>2. Whole(ui) /\ ui \in Uis /\ queue \in Seq(Jobs) /\ alerts \in Seq(Boxes) /\ typed \in Lists /\ count \in Counters
  BY <1>1, OpenIs
<1>3. UNCHANGED queue /\ Sends(<<>>)
  BY <1>2, SendsNothing DEF FlushReceived
<1>4. CASE ui.writeError \/ ~ui.draft
  <2>1. ui' = [ui EXCEPT !.saving = "no", !.requested = NoBlock] /\ Alert("nothing")
    BY <1>4 DEF FlushReceived, Resumed
  <2>2. NoBlock \in Int /\ "nothing" \in Boxes
    BY DEF NoBlock, Boxes
  <2>3. ui' \in Uis /\ SameTable(ui, ui') /\ ui'.open = ui.open /\ ui'.saving = "no" /\ ui'.loaded = ui.loaded
        /\ ui'.draft = ui.draft /\ ui'.writeError = ui.writeError
    BY <1>2, <2>1, <2>2 DEF Uis, SameTable
  <2>4. Whole(ui')
    BY <1>2, <2>3 DEF Whole, SameTable
  <2>5. alerts' \in Seq(Boxes) /\ alerts' = Append(alerts, "nothing")
    BY <1>2, <2>1, <2>2, AlertIs
  <2> QED BY <1>1, <1>2, <1>3, <2>3, <2>4, <2>5 DEF Goes
<1>5. CASE ~(ui.writeError \/ ~ui.draft)
  <2>1. ui' = [ui EXCEPT !.saving = "commit"] /\ UNCHANGED alerts
    BY <1>5 DEF FlushReceived
  <2>2. ui' \in Uis /\ SameTable(ui, ui') /\ ui'.open = ui.open /\ ui'.saving = "commit" /\ ui'.loaded = ui.loaded
        /\ ui'.draft = ui.draft /\ ui'.writeError = ui.writeError
    BY <1>2, <2>1 DEF Uis, SameTable
  <2>3. Whole(ui')
    BY <1>2, <2>2 DEF Whole, SameTable
  <2>4. ui.draft = TRUE /\ ui.writeError = FALSE
    BY <1>2, <1>5 DEF Uis
  <2> QED BY <1>1, <1>2, <1>3, <2>1, <2>2, <2>3, <2>4 DEF Goes
<1> QED BY <1>4, <1>5

\* A box is dismissed.
LEMMA DismissIs ==
  ASSUME ShapeInv, Dismiss
  PROVE  \E js : /\ Goes(js) /\ Alike(ui, ui') /\ SameCells(ui, ui') /\ Fetches(ui.pageBusy, js)
                 /\ \A i \in DOMAIN js : js[i].kind \in {"groups", "page"}
                 /\ alerts # <<>> /\ alerts' = Front(alerts)
                 /\ Last(alerts) = "refresh" => HasGroups(js)
                 /\ \A i \in DOMAIN js : js[i].kind = "page" => Last(alerts) = "pump"
                 /\ \A i \in DOMAIN js : js[i].kind = "groups" => Last(alerts) = "refresh"
                 /\ UNCHANGED <<done, typed, count>>
<1>1. ui.open = TRUE /\ count.dialog \in Dialogs /\ Whole(ui) /\ ui \in Uis /\ queue \in Seq(Jobs)
      /\ alerts \in Seq(Boxes) /\ typed \in Lists /\ count \in Counters
  BY OpenIs DEF Dismiss
<1>2. alerts # <<>> /\ alerts' = Front(alerts) /\ UNCHANGED <<store, done, count, typed>>
  BY DEF Dismiss
<1>3. alerts' \in Seq(Boxes)
  <2> DEFINE n == Len(alerts) - 1
  <2>1. n \in Nat /\ \A i \in 1 .. n : alerts[i] \in Boxes
    BY <1>1, <1>2, LenProperties, EmptySeq, ElementOfSeq
  <2>2. SubSeq(alerts, 1, n) \in Seq(Boxes)
    <3> HIDE DEF n
    <3> QED BY <2>1, SubSeqProperties
  <2> QED BY <1>2, <2>2 DEF Front
<1>4. CASE Last(alerts) = "nothing"
  <2>1. UNCHANGED <<ui, queue>>
    BY <1>4 DEF Dismiss
  <2>2. Sends(<<>>)
    BY <1>1, <2>1, SendsNothing
  <2>3. Goes(<<>>)
    BY <1>1, <1>2, <1>3, <2>1, <2>2 DEF Goes
  <2>4. Alike(ui, ui') /\ SameCells(ui, ui') /\ Fetches(ui.pageBusy, <<>>) /\ DOMAIN <<>> = {}
    BY <2>1 DEF Alike, SameCells, Fetches
  <2> QED BY <1>2, <1>4, <2>2, <2>3, <2>4
<1>5. CASE Last(alerts) = "pump"
  <2>1. Settle(ui, <<>>)
    BY <1>5 DEF Dismiss
  <2>2. /\ Whole(ui') /\ Alike(ui, ui') /\ SameCells(ui, ui')
        /\ \E js : Sends(js) /\ Fetches(ui.pageBusy, js) /\ \A i \in DOMAIN js : js[i].kind = "page"
    BY <1>1, <2>1, SettleIs
  <2>3. PICK js : Sends(js) /\ Fetches(ui.pageBusy, js) /\ \A i \in DOMAIN js : js[i].kind = "page"
    BY <2>2
  <2>4. ui'.open = TRUE
    BY <1>1, <2>2 DEF Alike
  <2>6. Goes(js)
    BY <1>1, <1>2, <1>3, <2>2, <2>3, <2>4 DEF Goes
  <2> QED BY <1>2, <1>5, <2>2, <2>3, <2>6
<1>6. CASE Last(alerts) = "refresh"
  <2> DEFINE j == GroupsJob(ui.combo, FALSE)
  <2>1. ui' = Controls(ui, FALSE) /\ queue' = Append(queue, j)
    BY <1>6 DEF Dismiss
  <2>2. FALSE \in BOOLEAN /\ ui.combo \in Nat
    BY <1>1 DEF Uis
  <2>3. j \in Jobs /\ j.kind = "groups" /\ j.dialog = count.dialog
    BY <1>1, <2>2, GroupsJobIs
  <2> HIDE DEF j
  <2>4. Whole(ui') /\ Alike(ui, ui') /\ SameTable(ui, ui')
    BY <1>1, <2>1, <2>2, ControlsIs
  <2>5. Sends(<<j>>)
    BY <1>1, <2>1, <2>3, SendsOne
  <2>9. HasGroups(<<j>>)
    BY <2>3 DEF HasGroups
  <2>6. ui'.open = TRUE
    BY <1>1, <2>4 DEF Alike
  <2>7. Goes(<<j>>)
    BY <1>1, <1>2, <1>3, <2>4, <2>5, <2>6 DEF Goes
  <2>8. SameCells(ui, ui') /\ Fetches(ui.pageBusy, <<j>>) /\ \A i \in DOMAIN <<j>> : <<j>>[i].kind = "groups"
    BY <2>3, <2>4 DEF SameTable, SameCells, Fetches
  <2> QED BY <1>2, <1>6, <2>4, <2>7, <2>8, <2>9
<1> QED BY <1>4, <1>5, <1>6 DEF Dismiss
-----------------------------------------------------------------------------
(***************************************************************************)
(* What the user does.                                                     *)
(***************************************************************************)
\* A counter goes up.
LEMMA CountsIs ==
  ASSUME count \in Counters, NEW what \in {"act", "taught", "dialog", "save"}, NEW max, Counts(what, max)
  PROVE  /\ count' \in Counters /\ count[what] < max /\ count'[what] = count[what] + 1
         /\ what # "dialog" => count'.dialog = count.dialog
<1>1. PICK m \in Nat : m = count[what] + 1
  BY DEF Counters
<1>2. count' = [count EXCEPT ![what] = m] /\ count[what] < max
  BY <1>1 DEF Counts
<1> QED BY <1>1, <1>2 DEF Counters

\* The page of the dictionary is shown.
LEMMA ShowPageIs ==
  ASSUME ShapeInv, ShowPage
  PROVE  /\ Goes(<<>>) /\ UNCHANGED <<queue, done, alerts, count, typed>>
         /\ ui'.draft = ui.draft /\ ui'.saving = ui.saving /\ ui'.writeError = ui.writeError /\ ui'.loaded = TRUE
         /\ ui'.pageBusy = ui.pageBusy /\ ui.loaded = FALSE
         /\ SameTable(ui, ui') \/ Clears(ui, ui')
<1> DEFINE u == [ui EXCEPT !.loaded = TRUE]
<1>1. /\ ui.open /\ ~ui.loaded /\ UNCHANGED <<store, queue, done, alerts, count, typed>>
      /\ ui' = u \/ ui' = Selected(u, u.combo)
  BY DEF ShowPage, Idle
<1>2. ui.open = TRUE /\ Whole(ui) /\ ui \in Uis /\ queue \in Seq(Jobs)
      /\ alerts \in Seq(Boxes) /\ typed \in Lists /\ count \in Counters
  BY <1>1, OpenIs
<1>3. /\ u \in Uis /\ u.cache = ui.cache /\ u.generation = ui.generation /\ u.group = ui.group /\ u.pageBusy = ui.pageBusy
      /\ u.open = TRUE /\ u.draft = ui.draft /\ u.saving = ui.saving /\ u.writeError = ui.writeError /\ u.loaded = TRUE
      /\ ui.loaded = FALSE
  BY <1>1, <1>2 DEF Uis
<1> HIDE DEF u
<1>4. Whole(u) /\ SameTable(ui, u) /\ u.combo \in Nat
  BY <1>2, <1>3 DEF Whole, SameTable, Uis
<1>5. Whole(ui') /\ Alike(u, ui') /\ ui'.pageBusy = u.pageBusy /\ (SameTable(ui, ui') \/ Clears(ui, ui'))
  <2>1. CASE ui' = u
    BY <1>4, <2>1 DEF Alike
  <2>2. CASE ui' = Selected(u, u.combo)
    BY <1>3, <1>4, <2>2, SelectedIs DEF Clears
  <2> QED BY <1>1, <2>1, <2>2
<1>6. Sends(<<>>)
  BY <1>1, <1>2, SendsNothing
<1>7. /\ ui'.open = TRUE /\ ui'.draft = ui.draft /\ ui'.saving = ui.saving /\ ui'.writeError = ui.writeError
      /\ ui'.loaded = TRUE /\ ui'.pageBusy = ui.pageBusy
  BY <1>3, <1>5 DEF Alike
<1>8. Goes(<<>>)
  BY <1>1, <1>2, <1>5, <1>6, <1>7 DEF Goes
<1> QED BY <1>1, <1>3, <1>5, <1>7, <1>8

\* A row is painted.
LEMMA PaintIs ==
  ASSUME ShapeInv, NEW b \in Int, Paint(b)
  PROVE  \E js : /\ Goes(js) /\ Alike(ui, ui') /\ SameCells(ui, ui') /\ Fetches(ui.pageBusy, js)
                 /\ \A i \in DOMAIN js : js[i].kind = "page"
                 /\ UNCHANGED <<done, alerts, count, typed>> /\ ui.loaded
<1> DEFINE v == Looked(ui, b)
<1>1. ui.open /\ ui.loaded /\ ~HasBlock(ui, b) /\ Settle(v, <<>>) /\ UNCHANGED <<store, done, alerts, count, typed>>
  BY DEF Paint, Requests
<1>2. ui.open = TRUE /\ count.dialog \in Dialogs /\ Whole(ui) /\ ui \in Uis /\ queue \in Seq(Jobs)
      /\ alerts \in Seq(Boxes) /\ typed \in Lists /\ count \in Counters
  BY <1>1, OpenIs
<1>3. Whole(v) /\ Alike(ui, v) /\ v.generation = ui.generation /\ v.group = ui.group /\ v.pageBusy = ui.pageBusy
      /\ v.cache = ui.cache
  BY <1>1, <1>2, LookedIs
<1> HIDE DEF v
<1>4. /\ Whole(ui') /\ Alike(v, ui') /\ SameCells(v, ui')
      /\ \E js : Sends(js) /\ Fetches(v.pageBusy, js) /\ \A i \in DOMAIN js : js[i].kind = "page"
  <2>1. Settle(v, <<>>) /\ queue \in Seq(Jobs) /\ count.dialog \in Dialogs /\ Whole(v)
    BY <1>1, <1>2, <1>3
  <2> QED BY <2>1, SettleIs
<1>5. PICK js : Sends(js) /\ Fetches(ui.pageBusy, js) /\ \A i \in DOMAIN js : js[i].kind = "page"
  BY <1>3, <1>4
<1>6. Alike(ui, ui') /\ SameCells(ui, ui')
  BY <1>3, <1>4 DEF Alike, SameCells
<1>7. ui'.open = TRUE
  BY <1>2, <1>6 DEF Alike
<1>8. Goes(js)
  BY <1>1, <1>2, <1>4, <1>5, <1>7 DEF Goes
<1> QED BY <1>1, <1>5, <1>6, <1>8

\* Another group is selected.
LEMMA SelectGroupIs ==
  ASSUME ShapeInv, NEW g, SelectGroup(g)
  PROVE  /\ Goes(<<>>) /\ UNCHANGED <<queue, done, alerts, typed>>
         /\ Alike(ui, ui') /\ Clears(ui, ui') /\ ui'.pageBusy = ui.pageBusy /\ ui.loaded
<1> DEFINE u == [ui EXCEPT !.combo = g]
<1>1. /\ ui.open /\ ui.loaded /\ g \in DOMAIN ui.known /\ ui' = Selected(u, g) /\ Counts("act", MaxActs)
      /\ UNCHANGED <<store, queue, done, alerts, typed>>
  BY DEF SelectGroup, Idle
<1>2. ui.open = TRUE /\ Whole(ui) /\ ui \in Uis /\ queue \in Seq(Jobs)
      /\ alerts \in Seq(Boxes) /\ typed \in Lists /\ count \in Counters
  BY <1>1, OpenIs
<1>3. g \in Nat
  <2>1. ui.known \in Lists
    BY <1>2 DEF Uis
  <2> QED BY <1>1, <2>1 DEF Lists
<1>4. u \in Uis /\ SameTable(ui, u) /\ Alike(ui, u)
  BY <1>2, <1>3 DEF Uis, SameTable, Alike
<1> HIDE DEF u
<1>5. Whole(u)
  BY <1>2, <1>4 DEF Whole, SameTable
<1>6. Whole(ui') /\ Alike(u, ui') /\ ui'.cache = <<>> /\ ui'.generation = u.generation + 1 /\ ui'.pageBusy = u.pageBusy
  BY <1>1, <1>3, <1>5, SelectedIs
<1>7. Alike(ui, ui') /\ Clears(ui, ui') /\ ui'.pageBusy = ui.pageBusy /\ ui'.open = TRUE
  BY <1>2, <1>4, <1>6 DEF Alike, SameTable, Clears
<1>8. count' \in Counters /\ count'.dialog = count.dialog
  BY <1>1, <1>2, CountsIs
<1>9. Sends(<<>>)
  BY <1>1, <1>2, SendsNothing
<1>10. Goes(<<>>)
  BY <1>1, <1>2, <1>6, <1>7, <1>8, <1>9 DEF Goes
<1> QED BY <1>1, <1>7, <1>10

\* The cell old of block b gets a value: e is what it becomes.
CellEdited(b, old, e) ==
  /\ \E n \in DOMAIN ui.cache : ui.cache[n].block = b /\ ui.cache[n].rows # <<>> /\ ui.cache[n].rows[1] = old
  /\ e \in Entries /\ e.id = old.id /\ e.version = old.version
  /\ \A k \in DOMAIN ui'.cache : \/ ui'.cache[k] = [block |-> b, rows |-> <<e>>]
                                 \/ \E n \in DOMAIN ui.cache : ui'.cache[k] = ui.cache[n] /\ ui'.cache[k].block # b
  /\ typed' \in Lists /\ DOMAIN typed' = DOMAIN typed \cup {e.id} /\ typed'[e.id] = e.value
  /\ \A w \in DOMAIN typed : w # e.id => typed'[w] = typed[w]

\* A cell is edited, and so is its row.
LEMMA EditCellIs ==
  ASSUME ShapeInv, NEW b \in Int, EditCell(b)
  PROVE  \E old \in Entries, e \in Entries, j \in Jobs :
           /\ Goes(<<j>>) /\ j.kind = "edit" /\ j.entry = e /\ j.dialog = count.dialog
           /\ CellEdited(b, old, e)
           /\ Alike(ui, ui') /\ ui'.generation = ui.generation /\ ui'.group = ui.group /\ ui'.pageBusy = ui.pageBusy
           /\ UNCHANGED <<done, alerts>> /\ ui.saving = "no"
<1> DEFINE n == At(ui, b)
           old == Cached(ui, b)[1]
           m == count'.act
           e == [old EXCEPT !.value = m]
           c == [block |-> b, rows |-> <<e>>]
           r == Append(Others(ui, b), c)
           j == [Job("edit") EXCEPT !.entry = e]
<1>1. /\ ui.open /\ ui.saving = "no" /\ HasBlock(ui, b) /\ Cached(ui, b) # <<>> /\ Counts("act", MaxActs)
      /\ ui' = [ui EXCEPT !.cache = r] /\ queue' = Append(queue, j)
      /\ typed' = [w \in DOMAIN typed \cup {e.id} |-> IF w = e.id THEN e.value ELSE typed[w]]
      /\ UNCHANGED <<store, done, alerts>>
  BY DEF EditCell, Idle
<1>2. ui.open = TRUE /\ count.dialog \in Dialogs /\ Whole(ui) /\ ui \in Uis /\ queue \in Seq(Jobs)
      /\ alerts \in Seq(Boxes) /\ typed \in Lists /\ count \in Counters
  BY <1>1, OpenIs
<1>3. count' \in Counters /\ count'.dialog = count.dialog
  BY <1>1, <1>2, CountsIs
<1>4. n \in DOMAIN ui.cache /\ ui.cache[n].block = b /\ ui.cache[n].rows = Cached(ui, b)
  BY <1>1, AtIs DEF Cached
<1>5. ui.cache[n] \in Cells
  <2>1. ui.cache \in Seq(Cells)
    BY <1>2 DEF Uis
  <2> HIDE DEF n
  <2> QED BY <1>4, <2>1, ElementOfSeq, LenProperties
<1> HIDE DEF n
<1>6. Cached(ui, b) \in Seq(Entries)
  BY <1>4, <1>5 DEF Cells
<1>7. old \in Entries /\ m \in Int
  <2>1. 1 \in DOMAIN Cached(ui, b)
    BY <1>1, <1>6, WithoutFirst
  <2>2. old \in Entries
    BY <1>6, <2>1, ElementOfSeq, LenProperties
  <2> QED BY <1>3, <2>2 DEF Counters
<1>8. ui.cache[n].rows # <<>> /\ ui.cache[n].rows[1] = old
  BY <1>1, <1>4
<1> HIDE DEF old, m
<1>9. e \in Entries /\ e.id = old.id /\ e.version = old.version
  BY <1>7 DEF Entries
<1> HIDE DEF e
<1>10. c \in Cells /\ c.block = b
  <2>1. <<e>> \in Seq(Entries)
    BY <1>9
  <2> QED BY <2>1 DEF Cells
<1>11. SmallCache(r) /\ \A k \in DOMAIN r : r[k] = c \/ \E i \in DOMAIN ui.cache : r[k] = ui.cache[i] /\ r[k].block # b
  <2>1. SmallCache(ui.cache)
    BY <1>2 DEF Whole
  <2> HIDE DEF c
  <2>2. PutAtEnd(ui, b, c, Append(Others(ui, b), c))
    BY <1>2, <1>10, <2>1, CellIn
  <2> QED BY <1>1, <2>2 DEF PutAtEnd
<1>12. r \in Seq(Cells)
  BY <1>11 DEF SmallCache
<1> HIDE DEF r
<1>13. /\ ui' \in Uis /\ ui'.cache = r /\ ui'.generation = ui.generation /\ ui'.group = ui.group
       /\ ui'.pageBusy = ui.pageBusy
  BY <1>1, <1>2, <1>12 DEF Uis
<1>14. Alike(ui, ui')
  BY <1>1, <1>2, <1>12 DEF Uis, Alike
<1>15. Whole(ui') /\ ui'.open = TRUE
  BY <1>2, <1>11, <1>13, <1>14 DEF Whole, Alike
<1>16. j \in Jobs /\ j.kind = "edit" /\ j.entry = e /\ j.dialog = count.dialog
  <2>1. PICK k \in Jobs : k = Job("edit") /\ k.kind = "edit" /\ k.dialog = count.dialog
    <3>1. "edit" \in Kinds
      BY DEF Kinds
    <3> QED BY <1>2, <3>1, JobIs
  <2>2. j = [k EXCEPT !.entry = e]
    BY <2>1
  <2> HIDE DEF j
  <2> QED BY <1>9, <2>1, <2>2 DEF Jobs
<1> HIDE DEF j
<1>17. Sends(<<j>>)
  BY <1>1, <1>2, <1>16, SendsOne
<1>18. /\ typed' \in Lists /\ DOMAIN typed' = DOMAIN typed \cup {e.id} /\ typed'[e.id] = e.value
       /\ \A w \in DOMAIN typed : w # e.id => typed'[w] = typed[w]
  <2>1. e.value \in Nat
    BY <1>3, <1>7, <1>9 DEF e, Entries, m, Counters
  <2>2. e.id \in Nat
    BY <1>9 DEF Entries
  <2>3. DOMAIN typed \subseteq Nat /\ \A w \in DOMAIN typed : typed[w] \in Nat
    BY <1>2 DEF Lists
  <2>4. DOMAIN typed \cup {e.id} \in SUBSET Nat
    BY <2>2, <2>3
  <2>5. typed' \in [DOMAIN typed \cup {e.id} -> Nat]
    BY <1>1, <2>1, <2>3
  <2>6. typed' \in Lists
    BY <2>4, <2>5 DEF Lists
  <2> QED BY <1>1, <2>6
<1>19. Goes(<<j>>)
  BY <1>1, <1>2, <1>3, <1>15, <1>17, <1>18 DEF Goes
<1>20. CellEdited(b, old, e)
  BY <1>4, <1>8, <1>9, <1>11, <1>13, <1>18 DEF CellEdited, c
<1> QED BY <1>1, <1>7, <1>9, <1>13, <1>14, <1>16, <1>19, <1>20

\* A button is pressed.
LEMMA ActIs ==
  ASSUME ShapeInv, NEW act \in Actions, NEW b \in Int, Act(act, b)
  PROVE  \E j \in Jobs : /\ Goes(<<j>>) /\ j.kind = "mutate" /\ j.dialog = count.dialog
                         /\ Calm /\ ui.draft = TRUE /\ ui.saving = "no" /\ UNCHANGED <<done, alerts, typed>>
<1> DEFINE g == ui.combo
           e == IF act = "delete" THEN Cached(ui, b)[1] ELSE NoEntry
           j == [Job("mutate") EXCEPT !.act = act, !.group = g, !.entry = e]
<1>1. /\ ui.open /\ ui.saving = "no" /\ ui.draft /\ Counts("act", MaxActs)
      /\ act = "delete" => HasBlock(ui, b) /\ Cached(ui, b) # <<>>
      /\ ui' = Controls(ui, FALSE) /\ queue' = Append(queue, j)
      /\ UNCHANGED <<store, done, alerts, typed>>
  BY DEF Act, Idle
<1>2. ui.open = TRUE /\ count.dialog \in Dialogs /\ Whole(ui) /\ ui \in Uis /\ queue \in Seq(Jobs)
      /\ alerts \in Seq(Boxes) /\ typed \in Lists /\ count \in Counters
  BY <1>1, OpenIs
<1>3. count' \in Counters /\ count'.dialog = count.dialog
  BY <1>1, <1>2, CountsIs
<1>4. e \in Entries
  <2>1. CASE act = "delete"
    <3> DEFINE n == At(ui, b)
    <3>1. n \in DOMAIN ui.cache /\ ui.cache[n].rows = Cached(ui, b)
      BY <1>1, <2>1, AtIs DEF Cached
    <3>2. ui.cache \in Seq(Cells)
      BY <1>2 DEF Uis
    <3> HIDE DEF n
    <3>3. ui.cache[n] \in Cells
      BY <3>1, <3>2, ElementOfSeq, LenProperties
    <3>4. Cached(ui, b) \in Seq(Entries)
      BY <3>1, <3>3 DEF Cells
    <3>5. 1 \in DOMAIN Cached(ui, b)
      BY <1>1, <2>1, <3>4, WithoutFirst
    <3>6. Cached(ui, b)[1] \in Entries
      BY <3>4, <3>5, ElementOfSeq, LenProperties
    <3> QED BY <2>1, <3>6
  <2>2. CASE act # "delete"
    <3>1. NoEntry \in Entries
      BY DEF NoEntry, Entries
    <3> QED BY <2>2, <3>1
  <2> QED BY <2>1, <2>2
<1>5. act \in AllActions /\ g \in Nat
  BY <1>2, EditorAssumption DEF Uis
<1> HIDE DEF e, g
<1>6. j \in Jobs /\ j.kind = "mutate" /\ j.act = act /\ j.dialog = count.dialog
  <2>1. PICK k \in Jobs : k = Job("mutate") /\ k.kind = "mutate" /\ k.dialog = count.dialog
    <3>1. "mutate" \in Kinds
      BY DEF Kinds
    <3> QED BY <1>2, <3>1, JobIs
  <2>2. j = [k EXCEPT !.act = act, !.group = g, !.entry = e]
    BY <2>1
  <2> HIDE DEF j
  <2> QED BY <1>4, <1>5, <2>1, <2>2 DEF Jobs
<1> HIDE DEF j
<1>7. Sends(<<j>>)
  BY <1>1, <1>2, <1>5, <1>6, SendsOne
<1>8. Whole(ui') /\ Calm
  <2>1. FALSE \in BOOLEAN
    OBVIOUS
  <2> QED BY <1>1, <1>2, <2>1, ControlsIs DEF Calm
<1>9. ui'.open = TRUE /\ ui.draft = TRUE
  BY <1>1, <1>2, <1>8 DEF Calm, Alike, Uis
<1>10. Goes(<<j>>)
  BY <1>1, <1>2, <1>3, <1>7, <1>8, <1>9 DEF Goes
<1> QED BY <1>1, <1>6, <1>8, <1>9, <1>10

\* The dialog saves: the barrier goes behind every edit.
LEMMA SaveIs ==
  ASSUME ShapeInv, Save
  PROVE  \E j \in Jobs : /\ Goes(<<j>>) /\ j.kind = "flush" /\ j.dialog = count.dialog
                         /\ SameTable(ui, ui') /\ ui.saving = "no" /\ ui'.saving = "flush"
                         /\ ui'.draft = ui.draft /\ ui'.writeError = ui.writeError /\ ui'.loaded = ui.loaded
                         /\ UNCHANGED <<done, alerts, typed>>
<1>1. /\ ui.open /\ ui.saving = "no" /\ Counts("save", MaxDialogs)
      /\ ui' = [ui EXCEPT !.saving = "flush", !.pending = NoPage] /\ queue' = Append(queue, Job("flush"))
      /\ UNCHANGED <<store, done, alerts, typed>>
  BY DEF Save, Idle
<1>2. ui.open = TRUE /\ count.dialog \in Dialogs /\ Whole(ui) /\ ui \in Uis /\ queue \in Seq(Jobs)
      /\ alerts \in Seq(Boxes) /\ typed \in Lists /\ count \in Counters
  BY <1>1, OpenIs
<1>3. count' \in Counters /\ count'.dialog = count.dialog
  BY <1>1, <1>2, CountsIs
<1>4. NoPage \in [generation : Nat, block : Int]
  BY DEF NoPage, NoBlock
<1>5. /\ ui' \in Uis /\ SameTable(ui, ui') /\ ui'.open = TRUE /\ ui'.saving = "flush" /\ ui'.loaded = ui.loaded
      /\ ui'.draft = ui.draft /\ ui'.writeError = ui.writeError
  BY <1>1, <1>2, <1>4 DEF Uis, SameTable
<1>6. Whole(ui')
  BY <1>2, <1>5 DEF Whole, SameTable
<1>7. PICK j \in Jobs : j = Job("flush") /\ j.kind = "flush" /\ j.dialog = count.dialog
  <2>1. "flush" \in Kinds
    BY DEF Kinds
  <2> QED BY <1>2, <2>1, JobIs
<1>8. Sends(<<j>>)
  BY <1>1, <1>2, <1>7, SendsOne
<1>9. Goes(<<j>>)
  BY <1>1, <1>2, <1>3, <1>5, <1>6, <1>8 DEF Goes
<1> QED BY <1>1, <1>5, <1>7, <1>9

\* The save does not go through: the dialog goes on.
LEMMA NotCommittedIs ==
  ASSUME ShapeInv, NotCommitted
  PROVE  /\ Goes(<<>>) /\ UNCHANGED <<queue, done, count, typed>> /\ alerts' = Append(alerts, "nothing")
         /\ SameTable(ui, ui') /\ ui'.saving = "no"
         /\ ui'.draft = ui.draft /\ ui'.writeError = ui.writeError /\ ui'.loaded = ui.loaded
<1>1. /\ ui.saving = "commit" /\ ui' = [ui EXCEPT !.saving = "no", !.requested = NoBlock] /\ Alert("nothing")
      /\ UNCHANGED <<store, queue, done, count, typed>>
  BY DEF NotCommitted, Resumed
<1>2. ui.open
  BY <1>1 DEF ShapeInv, UiType
<1>3. ui.open = TRUE /\ Whole(ui) /\ ui \in Uis /\ queue \in Seq(Jobs)
      /\ alerts \in Seq(Boxes) /\ typed \in Lists /\ count \in Counters
  BY <1>2, OpenIs
<1>4. NoBlock \in Int /\ "nothing" \in Boxes
  BY DEF NoBlock, Boxes
<1>5. /\ ui' \in Uis /\ SameTable(ui, ui') /\ ui'.open = TRUE /\ ui'.saving = "no" /\ ui'.loaded = ui.loaded
      /\ ui'.draft = ui.draft /\ ui'.writeError = ui.writeError
  BY <1>1, <1>3, <1>4 DEF Uis, SameTable
<1>6. Whole(ui')
  BY <1>3, <1>5 DEF Whole, SameTable
<1>7. alerts' \in Seq(Boxes) /\ alerts' = Append(alerts, "nothing")
  BY <1>1, <1>3, <1>4, AlertIs
<1>8. Sends(<<>>)
  BY <1>1, <1>3, SendsNothing
<1>9. Goes(<<>>)
  BY <1>1, <1>3, <1>5, <1>6, <1>7, <1>8 DEF Goes
<1> QED BY <1>1, <1>5, <1>7, <1>9

\* A dialog that is not open yet, or no more.
LEMMA FreshIs ==
  /\ Whole(Fresh) /\ Fresh.open = FALSE /\ Fresh.draft = FALSE /\ Fresh.saving = "no" /\ Fresh.cache = <<>>
  /\ Fresh.writeError = FALSE /\ Fresh.loaded = FALSE /\ Fresh.pageBusy = FALSE
<1>1. NoMap \in Lists
  <2>1. NoMap \in [{} -> Nat]
    BY DEF NoMap
  <2> QED BY <2>1 DEF Lists
<1>2. NoPage \in [generation : Nat, block : Int] /\ NoBlock \in Int /\ NoGroup \in Nat /\ <<>> \in Seq(Cells) /\ -1 \in Int
  BY DEF NoPage, NoBlock, NoGroup
<1>3. Fresh \in Uis
  BY <1>1, <1>2 DEF Fresh, Uis
<1>4. /\ Fresh.open = FALSE /\ Fresh.draft = FALSE /\ Fresh.saving = "no" /\ Fresh.cache = <<>>
      /\ Fresh.writeError = FALSE /\ Fresh.loaded = FALSE /\ Fresh.pageBusy = FALSE
  BY DEF Fresh
<1>5. SmallCache(Fresh.cache)
  BY <1>4, EmptySeq, EditorAssumption DEF SmallCache, Apart
<1> QED BY <1>3, <1>4, <1>5 DEF Whole

\* The store after a step has the shape of one.
Sound(s) == s \in Stores /\ InBounds(s) /\ s.groups # {} /\ (s.owner # Nobody => s.listed # {})

\* The draft is committed: a row that stays has the value of its copy.
LEMMA CommittedIs ==
  ASSUME ShapeInv, Committed, store.owner # Nobody
  PROVE  /\ Sound(store') /\ store'.owner = Nobody
         /\ ui' = Fresh /\ done' = <<>> /\ alerts' = <<>> /\ UNCHANGED <<queue, count, typed>>
         /\ ui.saving = "commit"
         /\ \A w \in DOMAIN store'.rows : w \in DOMAIN store.copy =>
              store.copy[w].dead = FALSE /\ store'.rows[w].value = store.copy[w].value
<1> DEFINE kept == {w \in Ids(store) : ~RowOf(store, w).dead /\ RowOf(store, w).group \in store.listed}
           bump(w) == IF w \in DOMAIN store.copy THEN [RowOf(store, w) EXCEPT !.version = @ + 1] ELSE store.rows[w]
           rows == [w \in kept |-> bump(w)]
           m == store.revision + 1
<1>1. /\ ui.saving = "commit" /\ ui' = Fresh /\ done' = <<>> /\ alerts' = <<>> /\ UNCHANGED <<queue, count, typed>>
      /\ store' = [store EXCEPT !.rows = rows, !.groups = store.listed,
                                !.revision = m, !.owner = Nobody, !.copy = NoMap, !.listed = {}]
  BY DEF Committed
<1>2. store \in Stores /\ InBounds(store) /\ store.listed # {}
  BY DEF ShapeInv, StoreType, InBounds
<1>3. store.rows \in RowMaps /\ store.copy \in RowMaps /\ m \in Nat /\ store.listed \in SUBSET Nat /\ store.last \in Nat
  BY <1>2 DEF Stores
<1>4. ASSUME NEW w \in kept
      PROVE  /\ w \in Nat /\ w \in 1 .. store.last /\ bump(w) \in Rows
             /\ w \in DOMAIN store.copy => store.copy[w].dead = FALSE /\ bump(w).value = store.copy[w].value
  <2>1. w \in Ids(store) /\ ~RowOf(store, w).dead
    OBVIOUS
  <2>2. RowOf(store, w) \in Rows /\ w \in Nat
    BY <1>2, <2>1, RowThere
  <2>3. w \in 1 .. store.last
    BY <1>2, <2>1 DEF Ids, InBounds
  <2>4. CASE w \in DOMAIN store.copy
    <3>1. RowOf(store, w) = store.copy[w] /\ store.copy[w] \in Rows /\ store.copy[w].dead = FALSE
      BY <2>1, <2>2, <2>4 DEF RowOf, Rows
    <3>2. PICK v \in Int : v = store.copy[w].version + 1
      BY <3>1 DEF Rows
    <3>3. bump(w) = [store.copy[w] EXCEPT !.version = v]
      BY <2>4, <3>1, <3>2
    <3>4. bump(w) \in Rows /\ bump(w).value = store.copy[w].value
      <4> HIDE DEF bump
      <4> QED BY <3>1, <3>2, <3>3 DEF Rows
    <3> QED BY <2>2, <2>3, <3>1, <3>4
  <2>5. CASE w \notin DOMAIN store.copy
    <3>1. bump(w) = store.rows[w] /\ RowOf(store, w) = store.rows[w]
      BY <2>5 DEF RowOf
    <3> QED BY <2>2, <2>3, <2>5, <3>1
  <2> QED BY <2>4, <2>5
<1> HIDE DEF kept, bump
<1>5. rows \in RowMaps /\ DOMAIN rows = kept /\ kept \subseteq 1 .. store.last
  <2>1. kept \in SUBSET Nat /\ rows \in [kept -> Rows]
    BY <1>4
  <2> HIDE DEF rows
  <2>2. rows \in RowMaps /\ DOMAIN rows = kept
    BY <2>1, RowMapOf
  <2> QED BY <1>4, <2>2
<1>6. \A w \in kept : rows[w] = bump(w)
  OBVIOUS
<1>7. NoMap \in RowMaps /\ DOMAIN NoMap = {}
  <2>1. NoMap \in [{} -> Rows] /\ {} \in SUBSET Nat
    BY DEF NoMap
  <2> QED BY <2>1, RowMapOf
<1> HIDE DEF rows, m
<1>8. /\ store' \in Stores /\ store'.rows = rows /\ store'.groups = store.listed /\ store'.owner = Nobody
      /\ store'.copy = NoMap /\ store'.last = store.last
  <2>1. Nobody \in Nat
    BY DEF Nobody
  <2> QED BY <1>1, <1>2, <1>3, <1>5, <1>7, <2>1 DEF Stores
<1>9. Sound(store')
  <2>1. InBounds(store')
    BY <1>5, <1>7, <1>8 DEF InBounds
  <2> QED BY <1>2, <1>8, <2>1 DEF Sound
<1>10. \A w \in DOMAIN store'.rows : w \in DOMAIN store.copy =>
              store.copy[w].dead = FALSE /\ store'.rows[w].value = store.copy[w].value
  BY <1>4, <1>5, <1>6, <1>8
<1> QED BY <1>1, <1>8, <1>9, <1>10

\* The dialog is cancelled: its draft will be discarded.
LEMMA CancelIs ==
  ASSUME ShapeInv, Cancel
  PROVE  /\ ui.open = TRUE /\ ui' = Fresh /\ done' = <<>> /\ alerts' = <<>> /\ UNCHANGED <<store, count, typed>>
         /\ \E j \in Jobs : j.kind = "discard" /\ j.dialog = count.dialog /\ queue' = Append(queue, j)
<1>1. ui.open /\ ui' = Fresh /\ done' = <<>> /\ alerts = <<>> /\ queue' = Append(queue, Job("discard"))
      /\ UNCHANGED <<store, alerts, count, typed>>
  BY DEF Cancel, Idle
<1>2. ui.open = TRUE /\ count.dialog \in Dialogs
  BY <1>1, OpenIs
<1>3. "discard" \in Kinds
  BY DEF Kinds
<1>4. Job("discard") \in Jobs /\ Job("discard").kind = "discard" /\ Job("discard").dialog = count.dialog
  BY <1>2, <1>3, JobIs
<1> QED BY <1>1, <1>2, <1>4

\* A dialog opens: its begin is submitted.
LEMMA OpenDialogIs ==
  ASSUME ShapeInv, OpenDialog
  PROVE  /\ ui.open = FALSE /\ Whole(ui') /\ ui'.open = TRUE /\ ui'.draft = FALSE /\ ui'.saving = "no" /\ ui'.cache = <<>>
         /\ ui'.writeError = FALSE /\ ui'.loaded = FALSE /\ ui'.pageBusy = FALSE
         /\ count' \in Counters /\ count'.dialog = count.dialog + 1 /\ count'.dialog <= MaxDialogs
         /\ count'.dialog \in Dialogs /\ typed' = NoMap /\ NoMap \in Lists
         /\ UNCHANGED <<store, done, alerts>>
         /\ \E j \in Jobs : j.kind = "begin" /\ j.dialog = count'.dialog /\ queue' = Append(queue, j)
<1> DEFINE j == [Job("begin") EXCEPT !.dialog = count'.dialog]
<1>1. /\ ~ui.open /\ Counts("dialog", MaxDialogs) /\ ui' = [Fresh EXCEPT !.open = TRUE]
      /\ queue' = Append(queue, j) /\ typed' = NoMap /\ UNCHANGED <<store, done, alerts>>
  BY DEF OpenDialog
<1>2. ui \in Uis /\ count \in Counters /\ MaxDialogs \in Nat
  BY EditorAssumption DEF ShapeInv, UiType, Whole
<1>3. count' \in Counters /\ count.dialog < MaxDialogs /\ count'.dialog = count.dialog + 1
  <2>1. count' \in Counters /\ count["dialog"] < MaxDialogs /\ count'["dialog"] = count["dialog"] + 1
    BY <1>1, <1>2, CountsIs
  <2> QED BY <2>1
<1>4. count'.dialog <= MaxDialogs /\ count'.dialog \in Dialogs
  BY <1>2, <1>3 DEF Dialogs, Counters
<1>5. /\ Whole(ui') /\ ui'.open = TRUE /\ ui'.draft = FALSE /\ ui'.saving = "no" /\ ui'.cache = <<>>
      /\ ui'.writeError = FALSE /\ ui'.loaded = FALSE /\ ui'.pageBusy = FALSE
  <2>1. Fresh \in Uis /\ SmallCache(Fresh.cache)
    BY FreshIs DEF Whole
  <2>2. ui' \in Uis /\ ui'.cache = Fresh.cache /\ ui'.open = TRUE /\ ui'.draft = Fresh.draft /\ ui'.saving = Fresh.saving
        /\ ui'.writeError = Fresh.writeError /\ ui'.loaded = Fresh.loaded /\ ui'.pageBusy = Fresh.pageBusy
    BY <1>1, <2>1 DEF Uis
  <2> QED BY <2>1, <2>2, FreshIs DEF Whole
<1>6. j \in Jobs /\ j.kind = "begin" /\ j.dialog = count'.dialog
  <2> DEFINE k == Job("begin")
  <2>1. k \in [kind : Kinds, dialog : Nat, generation : Nat, group : Nat, block : Int, entry : Entries,
               act : AllActions \cup {""}, selected : Nat, last : BOOLEAN] /\ k.kind = "begin"
    <3>1. NoEntry \in Entries /\ NoBlock \in Int /\ NoGroup \in Nat /\ "begin" \in Kinds
      BY DEF NoEntry, Entries, NoBlock, NoGroup, Kinds
    <3>2. count.dialog \in Nat
      BY <1>2 DEF Counters
    <3> QED BY <3>1, <3>2 DEF Job
  <2>2. PICK d \in Dialogs : d = count'.dialog
    BY <1>4
  <2>3. j = [k EXCEPT !.dialog = d]
    BY <2>2
  <2> HIDE DEF j, k
  <2> QED BY <2>1, <2>2, <2>3 DEF Jobs
<1>7. NoMap \in Lists
  <2>1. NoMap \in [{} -> Nat]
    BY DEF NoMap
  <2> QED BY <2>1 DEF Lists
<1>8. ui.open = FALSE
  BY <1>1, <1>2 DEF Uis
<1> QED BY <1>1, <1>3, <1>4, <1>5, <1>6, <1>7, <1>8

\* A comment teaches: a row of the database gets another value and version.
LEMMA LearnIs ==
  ASSUME ShapeInv, NEW w, Learn(w)
  PROVE  /\ Sound(store') /\ UNCHANGED <<queue, done, ui, alerts, typed>>
         /\ count' \in Counters /\ count'.dialog = count.dialog
         /\ store'.owner = store.owner /\ store'.copy = store.copy /\ store'.groups = store.groups
         /\ store'.listed = store.listed /\ w \in DOMAIN store.rows
         /\ DOMAIN store'.rows = DOMAIN store.rows
         /\ \A v \in DOMAIN store.rows : v # w => store'.rows[v] = store.rows[v]
         /\ store'.rows[w].version = store.rows[w].version + 1
         /\ store'.rows[w].group = store.rows[w].group /\ store'.rows[w].dead = store.rows[w].dead
<1>1. /\ Counts("taught", MaxTaught) /\ w \in DOMAIN store.rows
      /\ store' = [store EXCEPT !.revision = @ + 1,
                                !.rows[w].version = @ + 1, !.rows[w].value = -count'.taught]
      /\ UNCHANGED <<queue, done, ui, alerts, typed>>
  BY DEF Learn
<1>2. store \in Stores /\ InBounds(store) /\ store.groups # {} /\ (store.owner # Nobody => store.listed # {})
      /\ count \in Counters
  BY DEF ShapeInv, StoreType, InBounds, UiType
<1>3. count' \in Counters /\ count'.dialog = count.dialog
  BY <1>1, <1>2, CountsIs
<1>4. store.rows \in RowMaps /\ store.revision \in Nat /\ DOMAIN store.rows \in SUBSET Nat /\ store.rows[w] \in Rows
      /\ \A v \in DOMAIN store.rows : store.rows[v] \in Rows
  <2>1. store.rows \in RowMaps /\ store.revision \in Nat
    BY <1>2 DEF Stores
  <2> QED BY <1>1, <2>1, RowMapIs
<1>5. PICK n \in Nat : n = store.revision + 1
  BY <1>4
<1>6. PICK m \in Int : m = store.rows[w].version + 1
  BY <1>4 DEF Rows
<1>7. PICK x \in Int : x = -count'.taught
  BY <1>3 DEF Counters
<1> DEFINE row == [store.rows[w] EXCEPT !.version = m, !.value = x]
           rows == [store.rows EXCEPT ![w] = row]
<1>8. store' = [store EXCEPT !.revision = n, !.rows = rows]
  BY <1>1, <1>2, <1>4, <1>5, <1>6, <1>7 DEF Stores
<1>9. row \in Rows /\ row.version = m /\ row.group = store.rows[w].group /\ row.dead = store.rows[w].dead
  BY <1>4 DEF Rows
<1> HIDE DEF row
<1>10. DOMAIN rows = DOMAIN store.rows /\ rows[w] = row /\ \A v \in DOMAIN store.rows : v # w => rows[v] = store.rows[v]
  BY <1>1
<1>11. rows \in RowMaps
  <2>1. rows \in [DOMAIN store.rows -> Rows]
    BY <1>4, <1>9, <1>10
  <2> HIDE DEF rows
  <2> QED BY <1>4, <2>1, RowMapOf
<1> HIDE DEF rows
<1>12. /\ store' \in Stores /\ store'.rows = rows /\ store'.owner = store.owner /\ store'.copy = store.copy
       /\ store'.groups = store.groups /\ store'.listed = store.listed /\ store'.last = store.last
  BY <1>2, <1>8, <1>11 DEF Stores
<1>13. Sound(store')
  <2>1. InBounds(store')
    BY <1>2, <1>10, <1>12 DEF InBounds
  <2> QED BY <1>2, <1>12, <2>1 DEF Sound
<1> QED BY <1>1, <1>3, <1>6, <1>9, <1>10, <1>12, <1>13
-----------------------------------------------------------------------------
(***************************************************************************)
(* What the worker does.                                                   *)
(***************************************************************************)
\* r answers the job j, if its dialog is still open.
Answered(j, r) ==
  /\ r \in Answers /\ r.job = j
  /\ done' = IF ui.open /\ j.dialog = count.dialog THEN Append(done, r) ELSE done

\* An answer without more is one.
LEMMA AnswerIs ==
  ASSUME NEW j \in Jobs, NEW error \in BOOLEAN
  PROVE  Answer(j, error) \in Answers /\ Answer(j, error).job = j /\ Answer(j, error).error = error
<1>1. NoMap \in Lists
  <2>1. NoMap \in [{} -> Nat]
    BY DEF NoMap
  <2> QED BY <2>1 DEF Lists
<1>2. <<>> \in Seq(Entries) /\ -1 \in Int /\ NoGroup \in Nat
  BY DEF NoGroup
<1> QED BY <1>1, <1>2 DEF Answer, Answers

\* The store as it is.
LEMMA SoundNow == ASSUME ShapeInv PROVE Sound(store)
BY DEF ShapeInv, StoreType, Sound, InBounds

\* The draft is given to the dialog, unless one has it.
LEMMA DoBeginIs ==
  ASSUME ShapeInv, NEW j \in Jobs, DoBegin(j)
  PROVE  \E r : /\ Answered(j, r) /\ Sound(store') /\ store'.rows = store.rows
                /\ \/ store.owner # Nobody /\ r.error = TRUE /\ UNCHANGED store
                   \/ /\ store.owner = Nobody /\ r.error = FALSE
                      /\ store'.owner = j.dialog /\ DOMAIN store'.copy = {} /\ store'.listed = store.groups
<1> DEFINE e == (store.owner # Nobody)
<1>1. e \in BOOLEAN
  OBVIOUS
<1>2. Reply(Answer(j, e)) /\ (e => UNCHANGED store)
      /\ (~e => store' = [store EXCEPT !.owner = j.dialog, !.copy = NoMap, !.listed = store.groups])
  BY DEF DoBegin
<1> HIDE DEF e
<1>3. Answered(j, Answer(j, e)) /\ Answer(j, e).error = e
  BY <1>1, <1>2, AnswerIs DEF Answered, Reply
<1>4. Sound(store)
  BY SoundNow
<1>5. CASE e
  BY <1>1, <1>2, <1>3, <1>4, <1>5 DEF e
<1>6. CASE ~e
  <2>1. NoMap \in RowMaps /\ DOMAIN NoMap = {}
    <3>1. NoMap \in [{} -> Rows] /\ {} \in SUBSET Nat
      BY DEF NoMap
    <3> QED BY <3>1, RowMapOf
  <2>2. store.groups \in SUBSET Nat /\ j.dialog \in Nat /\ store.groups # {}
    BY <1>4 DEF Sound, Stores, Jobs, Dialogs
  <2>3. /\ store' \in Stores /\ store'.rows = store.rows /\ store'.groups = store.groups /\ store'.owner = j.dialog
        /\ store'.copy = NoMap /\ store'.listed = store.groups /\ store'.last = store.last
    BY <1>2, <1>4, <1>6, <2>1, <2>2 DEF Sound, Stores
  <2>4. InBounds(store')
    BY <1>4, <2>1, <2>3 DEF Sound, InBounds
  <2>5. Sound(store')
    BY <2>2, <2>3, <2>4 DEF Sound
  <2>6. store.owner = Nobody /\ Answer(j, e).error = FALSE
    BY <1>1, <1>3, <1>6 DEF e
  <2> QED BY <1>3, <2>1, <2>3, <2>5, <2>6
<1> QED BY <1>5, <1>6

\* The live rows of a group are some of finitely many.
LEMMA LiveIsFinite ==
  ASSUME NEW s \in Stores, InBounds(s), NEW g
  PROVE  IsFiniteSet(Live(s, g)) /\ Cardinality(Live(s, g)) \in Nat /\ Live(s, g) \subseteq Ids(s) /\ Ids(s) \subseteq Nat
<1>1. IsFiniteSet(1 .. s.last) /\ s.last \in Nat
  BY FS_Interval DEF Stores
<1>2. Live(s, g) \subseteq 1 .. s.last /\ Live(s, g) \subseteq Ids(s) /\ Ids(s) \subseteq Nat
  BY <1>1 DEF Live, Ids, InBounds
<1>3. IsFiniteSet(Live(s, g))
  BY <1>1, <1>2, FS_Subset
<1> QED BY <1>2, <1>3, FS_CardinalityType

\* A page holds one row at most: a live one of the group, with as many before
\* it as the block counts.
LEMMA PageIs ==
  ASSUME NEW s \in Stores, InBounds(s), NEW g, NEW b
  PROVE  LET at == {w \in Live(s, g) : Cardinality({v \in Live(s, g) : v < w}) = b}
         IN  /\ Page(s, g, b) \in Seq(Entries)
             /\ at = {} => Page(s, g, b) = <<>>
             /\ at # {} => \E w \in at : /\ Page(s, g, b) # <<>>
                                         /\ Page(s, g, b)[1] = [id |-> w, version |-> RowOf(s, w).version, value |-> RowOf(s, w).value]
<1> DEFINE at == {w \in Live(s, g) : Cardinality({v \in Live(s, g) : v < w}) = b}
           w == CHOOSE w \in at : TRUE
           e == [id |-> w, version |-> RowOf(s, w).version, value |-> RowOf(s, w).value]
<1>1. CASE at = {}
  <2>1. Page(s, g, b) = <<>>
    BY <1>1 DEF Page
  <2>2. <<>> \in Seq(Entries)
    OBVIOUS
  <2> QED BY <1>1, <2>1, <2>2
<1>2. CASE at # {}
  <2>1. w \in at /\ w \in Ids(s)
    BY <1>2, LiveIsFinite
  <2>2. Page(s, g, b) = <<e>>
    BY <1>2 DEF Page
  <2> HIDE DEF w, at
  <2>3. e \in Entries
    BY <2>1, RowThere DEF Rows, Entries
  <2> HIDE DEF e
  <2>4. <<e>> \in Seq(Entries) /\ <<e>> # <<>> /\ <<e>>[1] = e
    BY <2>3
  <2> QED BY <1>2, <2>1, <2>2, <2>4 DEF e, at
<1> QED BY <1>1, <1>2

\* The groups are listed, with what each of them holds.
LEMMA DoGroupsIs ==
  ASSUME ShapeInv, NEW j \in Jobs, DoGroups(j)
  PROVE  \E r : /\ Answered(j, r) /\ UNCHANGED store
                /\ r.error = ~Owned(j) /\ (~r.error => DOMAIN r.known # {})
<1> DEFINE e == ~Owned(j)
           known == [g \in store.listed |-> Cardinality(Live(store, g))]
           a == Answer(j, e)
           r == [a EXCEPT !.revision = store.revision, !.known = known]
<1>1. e \in BOOLEAN
  BY DEF Owned
<1>2. Reply(r) /\ UNCHANGED store
  BY DEF DoGroups
<1>3. Sound(store) /\ store \in Stores /\ InBounds(store) /\ store.revision \in Int /\ store.listed \in SUBSET Nat
  BY SoundNow DEF Sound, Stores
<1>4. known \in Lists /\ DOMAIN known = store.listed
  <2>1. known \in [store.listed -> Nat]
    BY <1>3, LiveIsFinite
  <2> HIDE DEF known
  <2> QED BY <1>3, <2>1 DEF Lists
<1> HIDE DEF known, e
<1>5. a \in Answers /\ a.job = j /\ a.error = e
  BY <1>1, AnswerIs
<1> HIDE DEF a
<1>6. r \in Answers /\ r.job = j /\ r.error = e /\ r.known = known
  BY <1>3, <1>4, <1>5 DEF Answers
<1> HIDE DEF r
<1>7. ~e => store.listed # {}
  <2>1. ~e => store.owner = j.dialog /\ j.dialog # Nobody
    BY DEF e, Owned, Jobs, Dialogs, Nobody
  <2> QED BY <1>3, <2>1 DEF Sound
<1>8. Answered(j, r)
  BY <1>2, <1>6 DEF Answered, Reply
<1> QED BY <1>2, <1>4, <1>6, <1>7, <1>8 DEF e

\* A page is read.
LEMMA DoPageIs ==
  ASSUME ShapeInv, NEW j \in Jobs, DoPage(j)
  PROVE  \E r : Answered(j, r) /\ UNCHANGED store /\ r.rows = Page(store, j.group, j.block)
<1> DEFINE e == (~Owned(j) \/ j.group \notin store.listed)
           rows == Page(store, j.group, j.block)
           a == Answer(j, e)
           r == [a EXCEPT !.revision = store.revision, !.rows = rows]
<1>1. e \in BOOLEAN
  BY DEF Owned
<1>2. Reply(r) /\ UNCHANGED store
  BY DEF DoPage
<1>3. store \in Stores /\ InBounds(store) /\ store.revision \in Int
  BY SoundNow DEF Sound, Stores
<1>4. rows \in Seq(Entries)
  BY <1>3, PageIs
<1> HIDE DEF rows, e
<1>5. a \in Answers /\ a.job = j /\ a.error = e
  BY <1>1, AnswerIs
<1> HIDE DEF a
<1>6. r \in Answers /\ r.job = j /\ r.rows = rows
  BY <1>3, <1>4, <1>5 DEF Answers
<1> HIDE DEF r
<1>7. Answered(j, r)
  BY <1>2, <1>6 DEF Answered, Reply
<1> QED BY <1>2, <1>6, <1>7 DEF rows

\* A row is edited, if it may be.
LEMMA DoEditIs ==
  ASSUME ShapeInv, NEW j \in Jobs, DoEdit(j)
  PROVE  \E r : /\ Answered(j, r) /\ Sound(store') /\ store'.rows = store.rows /\ store'.owner = store.owner
                /\ \/ r.error = TRUE /\ UNCHANGED store
                   \/ /\ r.error = FALSE /\ Owned(j) /\ CanEdit(store, j.entry)
                      /\ EditOf(store, store', j.entry, FALSE)
<1> DEFINE allowed == (Owned(j) /\ CanEdit(store, j.entry))
           e == ~allowed
<1>1. allowed \in BOOLEAN /\ e \in BOOLEAN
  BY DEF Owned
<1>2. Reply(Answer(j, e)) /\ (e => UNCHANGED store) /\ (~e => store' = Edited(store, j.entry, FALSE))
  BY DEF DoEdit
<1>3. ~e => Owned(j) /\ CanEdit(store, j.entry)
  OBVIOUS
<1> HIDE DEF e
<1>4. Answered(j, Answer(j, e)) /\ Answer(j, e).error = e
  BY <1>1, <1>2, AnswerIs DEF Answered, Reply
<1>5. Sound(store)
  BY SoundNow
<1>6. CASE e
  <2>1. e = TRUE
    BY <1>1, <1>6
  <2> QED BY <1>2, <1>4, <1>5, <1>6, <2>1
<1>7. CASE ~e
  <2>1. e = FALSE
    BY <1>1, <1>7
  <2>2. j.entry \in Entries /\ j.entry.id \in Ids(store) /\ FALSE \in BOOLEAN /\ store \in Stores /\ InBounds(store)
    BY <1>3, <1>5, <1>7 DEF Jobs, CanEdit, Ids, Sound
  <2>3. EditOf(store, Edited(store, j.entry, FALSE), j.entry, FALSE)
    BY <2>2, EditedIs, Zenon
  <2>4. EditOf(store, store', j.entry, FALSE)
    BY <1>2, <1>7, <2>3
  <2>5. Sound(store') /\ store'.rows = store.rows /\ store'.owner = store.owner
    BY <1>5, <2>4 DEF Sound, EditOf
  <2> QED BY <1>3, <1>4, <1>7, <2>1, <2>4, <2>5
<1> QED BY <1>6, <1>7

\* An operation of the buttons is done, or refused.
LEMMA DoMutateIs ==
  ASSUME ShapeInv, NEW j \in Jobs, j.act \in AllActions, DoMutate(j)
  PROVE  \E r : /\ Answered(j, r) /\ Sound(store') /\ store'.rows = store.rows /\ store'.owner = store.owner
                /\ r.error = TRUE => UNCHANGED store
                /\ r.error = FALSE => Owned(j)
                /\ DOMAIN store.copy \subseteq DOMAIN store'.copy
                /\ \A w \in DOMAIN store.copy : store'.copy[w] = store.copy[w] \/ store'.copy[w].dead = TRUE
<1>0. PICK t \in IF Owned(j) THEN Mutations(store, j) ELSE {store} :
        \E e \in IF Owned(j) THEN Refused(store, t, j) ELSE {TRUE} :
          store' = t /\ Reply([Answer(j, e) EXCEPT !.added = t.lastGroup])
  BY DEF DoMutate
<1>1. PICK e \in IF Owned(j) THEN Refused(store, t, j) ELSE {TRUE} :
        store' = t /\ Reply([Answer(j, e) EXCEPT !.added = t.lastGroup])
  BY <1>0
<1>2. Sound(store) /\ store \in Stores /\ InBounds(store)
  BY SoundNow DEF Sound
<1>3. /\ Sound(t) /\ t.rows = store.rows /\ t.owner = store.owner
      /\ e \in BOOLEAN /\ (e = TRUE => t = store) /\ (e = FALSE => Owned(j))
      /\ DOMAIN store.copy \subseteq DOMAIN t.copy
      /\ \A w \in DOMAIN store.copy : t.copy[w] = store.copy[w] \/ t.copy[w].dead = TRUE
  <2>1. CASE Owned(j)
    <3>1. t \in Mutations(store, j) /\ e \in Refused(store, t, j)
      BY <1>1, <2>1
    <3>2. store.listed # {} /\ store.groups # {}
      BY <1>2, <2>1 DEF Sound, Owned, Jobs, Dialogs, Nobody
    <3>3. /\ t \in Stores /\ InBounds(t) /\ t.listed # {}
          /\ t.rows = store.rows /\ t.groups = store.groups /\ t.owner = store.owner
          /\ DOMAIN store.copy \subseteq DOMAIN t.copy
          /\ \A w \in DOMAIN store.copy : t.copy[w] = store.copy[w] \/ t.copy[w].dead = TRUE
          /\ e = TRUE => t = store
      BY <1>2, <3>1, <3>2, MutationIs
    <3>4. e \in BOOLEAN
      BY <3>1 DEF Refused
    <3> QED BY <2>1, <3>2, <3>3, <3>4 DEF Sound
  <2>2. CASE ~Owned(j)
    BY <1>1, <1>2, <2>2
  <2> QED BY <2>1, <2>2
<1> DEFINE a == Answer(j, e)
           r == [a EXCEPT !.added = t.lastGroup]
<1>4. a \in Answers /\ a.job = j /\ a.error = e
  BY <1>3, AnswerIs
<1>5. t.lastGroup \in Nat
  BY <1>3 DEF Sound, Stores
<1>6. Reply(r)
  BY <1>1
<1> HIDE DEF a
<1>7. r \in Answers /\ r.job = j /\ r.error = e
  BY <1>4, <1>5 DEF Answers
<1> HIDE DEF r
<1>8. Answered(j, r)
  BY <1>6, <1>7 DEF Answered, Reply
<1> QED BY <1>1, <1>3, <1>7, <1>8

\* The barrier.
LEMMA DoFlushIs ==
  ASSUME NEW j \in Jobs, DoFlush(j)
  PROVE  \E r : Answered(j, r) /\ UNCHANGED store
<1>1. FALSE \in BOOLEAN
  OBVIOUS
<1>2. Answer(j, FALSE) \in Answers /\ Answer(j, FALSE).job = j
  BY <1>1, AnswerIs
<1> QED BY <1>2 DEF DoFlush, Answered, Reply

\* The draft is discarded, if it is the dialog's.
LEMMA DoDiscardIs ==
  ASSUME ShapeInv, NEW j \in Jobs, DoDiscard(j)
  PROVE  /\ Sound(store') /\ store'.rows = store.rows /\ UNCHANGED done
         /\ \/ store.owner = j.dialog /\ store'.owner = Nobody /\ DOMAIN store'.copy = {}
            \/ store.owner # j.dialog /\ UNCHANGED store
<1>1. UNCHANGED done
      /\ store' = IF Owned(j) THEN [store EXCEPT !.owner = Nobody, !.copy = NoMap, !.listed = {}] ELSE store
  BY DEF DoDiscard
<1>2. Sound(store)
  BY SoundNow
<1>3. CASE Owned(j)
  <2>1. NoMap \in RowMaps /\ DOMAIN NoMap = {}
    <3>1. NoMap \in [{} -> Rows] /\ {} \in SUBSET Nat
      BY DEF NoMap
    <3> QED BY <3>1, RowMapOf
  <2>2. Nobody \in Nat
    BY DEF Nobody
  <2>3. /\ store' \in Stores /\ store'.rows = store.rows /\ store'.groups = store.groups /\ store'.owner = Nobody
        /\ store'.copy = NoMap /\ store'.last = store.last
    BY <1>1, <1>2, <1>3, <2>1, <2>2 DEF Sound, Stores
  <2>4. InBounds(store')
    BY <1>2, <2>1, <2>3 DEF Sound, InBounds
  <2>5. Sound(store')
    BY <1>2, <2>3, <2>4 DEF Sound
  <2> QED BY <1>1, <1>3, <2>1, <2>3, <2>5 DEF Owned
<1>4. CASE ~Owned(j)
  BY <1>1, <1>2, <1>4 DEF Owned
<1> QED BY <1>3, <1>4
-----------------------------------------------------------------------------
(***************************************************************************)
(* The draft goes from dialog to dialog: before each begin in the queue    *)
(* stands the discard of whoever has the draft, or will have it by then.   *)
(***************************************************************************)
Discards(q, k, d) == q[k].kind = "discard" /\ q[k].dialog = d
Current(d) == ui.open /\ d = count.dialog

FirstDiscarded ==
  store.owner # Nobody => \A i \in DOMAIN queue : queue[i].kind = "begin" =>
                            \E k \in DOMAIN queue : k < i /\ Discards(queue, k, store.owner)
EachDiscarded ==
  \A n, i \in DOMAIN queue : n < i /\ queue[n].kind = "begin" /\ queue[i].kind = "begin" =>
    \E k \in DOMAIN queue : n < k /\ k < i /\ Discards(queue, k, queue[n].dialog)
\* But for the open dialog's, every draft is given back.
OwnerReturns == \/ store.owner = Nobody \/ Current(store.owner)
                \/ \E k \in DOMAIN queue : Discards(queue, k, store.owner)
BeginReturns == \A n \in DOMAIN queue : queue[n].kind = "begin" =>
                  Current(queue[n].dialog) \/ \E k \in DOMAIN queue : n < k /\ Discards(queue, k, queue[n].dialog)
KeptOpen == ui.open => \A k \in DOMAIN queue : ~Discards(queue, k, count.dialog)
\* The dialog that knows of its draft, or soon will, has it.
Known == ui.draft \/ \E i \in DOMAIN done : done[i].job.kind = "begin"
Granted ==
  /\ Known => /\ store.owner = count.dialog
              /\ \A n \in DOMAIN queue : queue[n].kind = "begin" => queue[n].dialog # count.dialog
  /\ \A i \in DOMAIN done : done[i].job.kind = "begin" => done[i].error = FALSE
  /\ ui.saving = "commit" => ui.draft
HandInv == FirstDiscarded /\ EachDiscarded /\ OwnerReturns /\ BeginReturns /\ KeptOpen /\ Granted

-----------------------------------------------------------------------------
(***************************************************************************)
(* A step keeps the shape of the state.                                    *)
(***************************************************************************)
Delivered == UNCHANGED done \/ (done # <<>> /\ done' = Tail(done))

\* What is left of the results has their shape.
LEMMA DeliveredIs ==
  ASSUME DoneType, Delivered
  PROVE  /\ done' \in Seq(Answers)
         /\ \A i \in DOMAIN done' : \E n \in DOMAIN done : done'[i] = done[n]
<1>1. CASE UNCHANGED done
  BY <1>1 DEF DoneType
<1>2. CASE done # <<>> /\ done' = Tail(done)
  <2>1. done' \in Seq(Answers) /\ \A i \in DOMAIN done' : i + 1 \in DOMAIN done /\ done'[i] = done[i + 1]
    BY <1>2, WithoutFirst DEF DoneType
  <2> QED BY <2>1
<1> QED BY <1>1, <1>2 DEF Delivered

\* A step of the open dialog.
LEMMA GoesKeepsShape ==
  ASSUME ShapeInv, NEW js, Goes(js), Delivered
  PROVE  ShapeInv'
<1>1. /\ ui.open = TRUE /\ ui'.open = TRUE /\ js \in Seq(Jobs) /\ queue' = queue \o js
      /\ \A i \in DOMAIN js : js[i].dialog = count.dialog /\ (js[i].kind = "mutate" => js[i].act \in AllActions)
      /\ Whole(ui') /\ alerts' \in Seq(Boxes) /\ typed' \in Lists /\ count' \in Counters
      /\ count'.dialog = count.dialog /\ UNCHANGED store
  BY DEF Goes, Sends
<1>2. StoreType'
  BY <1>1 DEF ShapeInv, StoreType
<1>3. JobType'
  <2>1. queue' \in Seq(Jobs) /\ \A i \in DOMAIN queue' : \/ i \in DOMAIN queue /\ queue'[i] = queue[i]
                                                         \/ i - Len(queue) \in DOMAIN js /\ queue'[i] = js[i - Len(queue)]
    BY <1>1, Grown DEF ShapeInv, JobType
  <2>2. ASSUME NEW i \in DOMAIN queue'
        PROVE  queue'[i].dialog <= count'.dialog /\ (queue'[i].kind = "mutate" => queue'[i].act \in AllActions)
    <3>1. CASE i \in DOMAIN queue /\ queue'[i] = queue[i]
      BY <1>1, <3>1 DEF ShapeInv, JobType
    <3>2. CASE i - Len(queue) \in DOMAIN js /\ queue'[i] = js[i - Len(queue)]
      BY <1>1, <3>2 DEF Counters
    <3> QED BY <2>1, <3>1, <3>2
  <2>3. store'.owner <= count'.dialog
    BY <1>1 DEF ShapeInv, JobType
  <2> QED BY <2>1, <2>2, <2>3 DEF JobType
<1>4. DoneType'
  <2>1. done' \in Seq(Answers) /\ \A i \in DOMAIN done' : \E n \in DOMAIN done : done'[i] = done[n]
    BY DeliveredIs DEF ShapeInv
  <2> QED BY <1>1, <2>1 DEF ShapeInv, DoneType
<1>5. UiType'
  BY <1>1 DEF ShapeInv, UiType
<1> QED BY <1>2, <1>3, <1>4, <1>5 DEF ShapeInv

\* A step that leaves the queue with one job more at most, and the dialog closed.
LEMMA ClosesKeepsShape ==
  ASSUME ShapeInv, Sound(store'), store'.owner <= count.dialog, ui' = Fresh, done' = <<>>, alerts' = <<>>,
         UNCHANGED <<count, typed>>,
         UNCHANGED queue \/ \E j \in Jobs : j.kind = "discard" /\ j.dialog = count.dialog /\ queue' = Append(queue, j)
  PROVE  ShapeInv'
<1>1. StoreType'
  BY DEF Sound, StoreType, InBounds
<1>2. JobType'
  <2>1. CASE UNCHANGED queue
    BY <2>1 DEF ShapeInv, JobType
  <2>2. ASSUME NEW j \in Jobs, j.kind = "discard", j.dialog = count.dialog, queue' = Append(queue, j)
        PROVE  JobType'
    <3>1. queue' \in Seq(Jobs) /\ \A i \in DOMAIN queue' : (i \in DOMAIN queue /\ queue'[i] = queue[i]) \/ queue'[i] = j
      BY <2>2, GrownByOne DEF ShapeInv, JobType
    <3>2. count.dialog <= count.dialog
      BY DEF ShapeInv, UiType, Counters
    <3> QED BY <2>2, <3>1, <3>2 DEF ShapeInv, JobType
  <2> QED BY <2>1, <2>2
<1>3. DoneType'
  <2>1. done' \in Seq(Answers) /\ DOMAIN done' = {}
    OBVIOUS
  <2> QED BY <2>1 DEF DoneType
<1>4. UiType'
  BY FreshIs DEF ShapeInv, UiType
<1> QED BY <1>1, <1>2, <1>3, <1>4 DEF ShapeInv

\* A dialog opens.
LEMMA OpensKeepsShape ==
  ASSUME ShapeInv, OpenDialog
  PROVE  ShapeInv'
<1>1. PICK j \in Jobs : j.kind = "begin" /\ j.dialog = count'.dialog /\ queue' = Append(queue, j)
  BY OpenDialogIs
<1>2. /\ ui.open = FALSE /\ Whole(ui') /\ ui'.open = TRUE
      /\ count' \in Counters /\ count'.dialog = count.dialog + 1 /\ count'.dialog <= MaxDialogs
      /\ count'.dialog \in Dialogs /\ typed' \in Lists /\ UNCHANGED <<store, done, alerts>>
  BY OpenDialogIs
<1>3. StoreType'
  BY <1>2 DEF ShapeInv, StoreType
<1>4. count.dialog \in Nat
  BY DEF ShapeInv, UiType, Counters
<1>5. JobType'
  <2>1. queue' \in Seq(Jobs) /\ \A i \in DOMAIN queue' : (i \in DOMAIN queue /\ queue'[i] = queue[i]) \/ queue'[i] = j
    BY <1>1, GrownByOne DEF ShapeInv, JobType
  <2>2. \A d \in Nat : d <= count.dialog => d <= count'.dialog
    BY <1>2, <1>4
  <2>3. store.owner \in Nat /\ \A i \in DOMAIN queue : queue[i].dialog \in Nat
    <3>1. \A i \in DOMAIN queue : queue[i] \in Jobs
      BY ElementOfSeq, LenProperties DEF ShapeInv, JobType
    <3> QED BY <3>1 DEF ShapeInv, StoreType, Stores, Jobs, Dialogs
  <2>4. store'.owner <= count'.dialog
    BY <1>2, <2>2, <2>3 DEF ShapeInv, JobType
  <2>5. ASSUME NEW i \in DOMAIN queue'
        PROVE  queue'[i].dialog <= count'.dialog /\ (queue'[i].kind = "mutate" => queue'[i].act \in AllActions)
    <3>1. CASE i \in DOMAIN queue /\ queue'[i] = queue[i]
      BY <2>2, <2>3, <3>1 DEF ShapeInv, JobType
    <3>2. CASE queue'[i] = j
      <4>1. count'.dialog <= count'.dialog
        BY <1>2, <1>4
      <4> QED BY <1>1, <3>2, <4>1
    <3> QED BY <2>1, <3>1, <3>2
  <2> QED BY <2>1, <2>4, <2>5 DEF JobType
<1>6. done = <<>> /\ alerts \in Seq(Boxes)
  BY <1>2 DEF ShapeInv, UiType
<1>7. DoneType'
  <2>1. done' \in Seq(Answers) /\ DOMAIN done' = {}
    BY <1>2, <1>6
  <2> QED BY <2>1 DEF DoneType
<1>8. UiType'
  <2>1. count'.dialog > 0
    BY <1>2, <1>4
  <2> QED BY <1>2, <1>6, <2>1 DEF ShapeInv, UiType
<1> QED BY <1>3, <1>5, <1>7, <1>8 DEF ShapeInv

\* A lesson.
LEMMA LearnKeepsShape ==
  ASSUME ShapeInv, NEW w, Learn(w)
  PROVE  ShapeInv'
<1>1. /\ Sound(store') /\ UNCHANGED <<queue, done, ui, alerts, typed>>
      /\ count' \in Counters /\ count'.dialog = count.dialog /\ store'.owner = store.owner
  BY LearnIs
<1>2. StoreType'
  BY <1>1 DEF Sound, StoreType, InBounds
<1>3. JobType' /\ DoneType' /\ UiType'
  BY <1>1 DEF ShapeInv, JobType, DoneType, UiType
<1> QED BY <1>2, <1>3 DEF ShapeInv

\* A job of the worker: the store keeps its shape, and an answer may be there.
Worked(j) ==
  /\ queue # <<>> /\ j = Head(queue) /\ j \in Jobs /\ j.dialog <= count.dialog
  /\ queue' = Tail(queue) /\ UNCHANGED <<ui, alerts, count, typed>>
  /\ Sound(store') /\ store'.owner \in {store.owner, j.dialog, Nobody}
  /\ \/ UNCHANGED done
     \/ \E r : /\ Answered(j, r) /\ j.kind # "discard"
               /\ j.kind = "groups" /\ ~r.error => DOMAIN r.known # {}

\* Every job is of that kind.
LEMMA WorkIs == ASSUME ShapeInv, Work PROVE Worked(Head(queue))
<1> DEFINE j == Head(queue)
<1>1. queue # <<>> /\ queue' = Tail(queue) /\ UNCHANGED <<ui, alerts, count, typed>>
  BY DEF Work
<1>2. j \in Jobs /\ 1 \in DOMAIN queue /\ queue[1] = j
  BY <1>1, WithoutFirst DEF ShapeInv, JobType
<1>3. j.dialog <= count.dialog /\ (j.kind = "mutate" => j.act \in AllActions)
  BY <1>2 DEF ShapeInv, JobType
<1>4. /\ Sound(store') /\ store'.owner \in {store.owner, j.dialog, Nobody}
      /\ \/ UNCHANGED done
         \/ \E r : /\ Answered(j, r) /\ j.kind # "discard"
                   /\ j.kind = "groups" /\ ~r.error => DOMAIN r.known # {}
  <2>1. CASE j.kind = "begin" /\ DoBegin(j)
    BY <1>2, <2>1, DoBeginIs
  <2>2. CASE j.kind = "groups" /\ DoGroups(j)
    BY <1>2, <2>2, DoGroupsIs, SoundNow
  <2>3. CASE j.kind = "page" /\ DoPage(j)
    BY <1>2, <2>3, DoPageIs, SoundNow
  <2>4. CASE j.kind = "edit" /\ DoEdit(j)
    BY <1>2, <2>4, DoEditIs
  <2>5. CASE j.kind = "mutate" /\ DoMutate(j)
    BY <1>2, <1>3, <2>5, DoMutateIs
  <2>6. CASE j.kind = "flush" /\ DoFlush(j)
    BY <1>2, <2>6, DoFlushIs, SoundNow
  <2>7. CASE j.kind = "discard" /\ DoDiscard(j)
    BY <1>2, <2>7, DoDiscardIs
  <2> QED BY <2>1, <2>2, <2>3, <2>4, <2>5, <2>6, <2>7 DEF Work
<1> QED BY <1>1, <1>2, <1>3, <1>4 DEF Worked

\* The worker.
LEMMA WorkKeepsShape ==
  ASSUME ShapeInv, NEW j, Worked(j)
  PROVE  ShapeInv'
<1>1. /\ queue # <<>> /\ j \in Jobs /\ j.dialog <= count.dialog /\ queue' = Tail(queue)
      /\ UNCHANGED <<ui, alerts, count, typed>> /\ Sound(store') /\ store'.owner \in {store.owner, j.dialog, Nobody}
  BY DEF Worked
<1>2. StoreType'
  BY <1>1 DEF Sound, StoreType, InBounds
<1>3. JobType'
  <2>1. queue' \in Seq(Jobs) /\ \A i \in DOMAIN queue' : i + 1 \in DOMAIN queue /\ queue'[i] = queue[i + 1]
    BY <1>1, WithoutFirst DEF ShapeInv, JobType
  <2>2. store'.owner <= count.dialog
    <3>1. Nobody <= count.dialog
      BY DEF ShapeInv, UiType, Counters, Nobody
    <3> QED BY <1>1, <3>1 DEF ShapeInv, JobType
  <2> QED BY <1>1, <2>1, <2>2 DEF ShapeInv, JobType
<1>4. DoneType' /\ (~ui.open => UNCHANGED done)
  <2>1. CASE UNCHANGED done
    BY <1>1, <2>1 DEF ShapeInv, DoneType
  <2>2. ASSUME NEW r, Answered(j, r), j.kind # "discard", j.kind = "groups" /\ ~r.error => DOMAIN r.known # {}
        PROVE  DoneType' /\ (~ui.open => UNCHANGED done)
    <3>1. r \in Answers /\ r.job = j
      BY <2>2 DEF Answered
    <3>2. CASE ui.open /\ j.dialog = count.dialog
      <4>1. done' = Append(done, r)
        BY <2>2, <3>2 DEF Answered
      <4>2. done' \in Seq(Answers) /\ \A i \in DOMAIN done' : (i \in DOMAIN done /\ done'[i] = done[i]) \/ done'[i] = r
        BY <3>1, <4>1, GrownByOne DEF ShapeInv, DoneType
      <4>3. ASSUME NEW i \in DOMAIN done'
            PROVE  /\ ui'.open /\ done'[i].job.dialog = count'.dialog /\ done'[i].job.kind # "discard"
                   /\ done'[i].job.kind = "groups" /\ ~done'[i].error => DOMAIN done'[i].known # {}
        <5>1. CASE i \in DOMAIN done /\ done'[i] = done[i]
          BY <1>1, <5>1 DEF ShapeInv, DoneType
        <5>2. CASE done'[i] = r
          BY <1>1, <2>2, <3>1, <3>2, <5>2
        <5> QED BY <4>2, <5>1, <5>2
      <4> QED BY <3>2, <4>2, <4>3 DEF DoneType
    <3>3. CASE ~(ui.open /\ j.dialog = count.dialog)
      <4>1. UNCHANGED done
        BY <2>2, <3>3 DEF Answered
      <4> QED BY <1>1, <4>1 DEF ShapeInv, DoneType
    <3> QED BY <3>2, <3>3
  <2> QED BY <2>1, <2>2 DEF Worked
<1>5. UiType'
  BY <1>1, <1>4 DEF ShapeInv, UiType
<1> QED BY <1>2, <1>3, <1>4, <1>5 DEF ShapeInv
-----------------------------------------------------------------------------
(***************************************************************************)
(* A step keeps the order of the dialogs.                                  *)
(***************************************************************************)
\* A step of the open dialog.
LEMMA GoesKeepsHand ==
  ASSUME ShapeInv, HandInv, NEW js, Goes(js), Delivered,
         ui'.draft => Known, ui'.saving = "commit" => ui'.draft
  PROVE  HandInv'
<1>1. /\ ui.open = TRUE /\ ui'.open = TRUE /\ js \in Seq(Jobs) /\ queue' = queue \o js /\ queue \in Seq(Jobs)
      /\ \A i \in DOMAIN js : js[i].kind \notin {"begin", "discard"}
      /\ count'.dialog = count.dialog /\ UNCHANGED store
  BY DEF Goes, Sends, ShapeInv, JobType
<1>2. /\ \A i \in DOMAIN queue : i \in DOMAIN queue' /\ queue'[i] = queue[i]
      /\ \A i \in DOMAIN queue' : queue'[i].kind \in {"begin", "discard"} => i \in DOMAIN queue /\ queue'[i] = queue[i]
  <2>1. /\ \A i \in DOMAIN queue : i \in DOMAIN queue' /\ queue'[i] = queue[i]
        /\ \A i \in DOMAIN queue' : \/ i \in DOMAIN queue /\ queue'[i] = queue[i]
                                    \/ i - Len(queue) \in DOMAIN js /\ queue'[i] = js[i - Len(queue)]
    BY <1>1, Grown
  <2>2. \A i \in DOMAIN queue' : i - Len(queue) \in DOMAIN js /\ queue'[i] = js[i - Len(queue)]
          => queue'[i].kind \notin {"begin", "discard"}
    BY <1>1
  <2> QED BY <2>1, <2>2
<1>3. \A k \in DOMAIN queue : \A d : Discards(queue, k, d) => Discards(queue', k, d)
  BY <1>2 DEF Discards
<1>4. \A k \in DOMAIN queue' : \A d : Discards(queue', k, d) => k \in DOMAIN queue /\ Discards(queue, k, d)
  BY <1>2 DEF Discards
<1>5. FirstDiscarded'
  BY <1>1, <1>2, <1>3 DEF HandInv, FirstDiscarded
<1>6. EachDiscarded'
  BY <1>2, <1>3 DEF HandInv, EachDiscarded
<1>7. \A d : Current(d) => Current(d)'
  BY <1>1 DEF Current
<1>8. OwnerReturns'
  BY <1>1, <1>2, <1>3, <1>7 DEF HandInv, OwnerReturns
<1>9. BeginReturns'
  BY <1>2, <1>3, <1>7 DEF HandInv, BeginReturns
<1>10. KeptOpen'
  BY <1>1, <1>4 DEF HandInv, KeptOpen
<1>11. Granted'
  <2>1. \A i \in DOMAIN done' : \E n \in DOMAIN done : done'[i] = done[n]
    BY DeliveredIs DEF ShapeInv
  <2>2. Known' => Known
    BY <2>1 DEF Known
  <2>3. \A n \in DOMAIN queue' : queue'[n].kind = "begin" => n \in DOMAIN queue /\ queue'[n] = queue[n]
    BY <1>2
  <2>4. \A i \in DOMAIN done' : done'[i].job.kind = "begin" => done'[i].error = FALSE
    BY <2>1 DEF HandInv, Granted
  <2> QED BY <1>1, <2>2, <2>3, <2>4 DEF HandInv, Granted
<1> QED BY <1>5, <1>6, <1>8, <1>9, <1>10, <1>11 DEF HandInv

\* A step that appends a job.
LEMMA QueuedOne ==
  ASSUME queue \in Seq(Jobs), NEW j \in Jobs, queue' = Append(queue, j)
  PROVE  /\ \A i \in DOMAIN queue : i \in DOMAIN queue' /\ queue'[i] = queue[i] /\ i < Len(queue) + 1
         /\ \A i \in DOMAIN queue' : (i \in DOMAIN queue /\ queue'[i] = queue[i]) \/ (i = Len(queue) + 1 /\ queue'[i] = j)
         /\ Len(queue) + 1 \in DOMAIN queue' /\ queue'[Len(queue) + 1] = j
<1>1. Len(queue) \in Nat /\ DOMAIN queue = 1 .. Len(queue)
  BY LenProperties
<1>2. \A i \in DOMAIN queue : i < Len(queue) + 1
  BY <1>1
<1> QED BY <1>2, GrownByOne

\* The dialog closes: its draft is committed, or will be discarded.
LEMMA ClosesKeepsHand ==
  ASSUME ShapeInv, HandInv, ui' = Fresh, done' = <<>>, UNCHANGED count,
         \/ UNCHANGED queue /\ store'.owner = Nobody /\ ui.draft
         \/ /\ UNCHANGED store
            /\ \E j \in Jobs : j.kind = "discard" /\ j.dialog = count.dialog /\ queue' = Append(queue, j)
  PROVE  HandInv'
<1>1. ui'.open = FALSE /\ ui'.draft = FALSE /\ ui'.saving = "no"
  BY FreshIs
<1>2. ~Known' /\ DOMAIN done' = {}
  BY <1>1 DEF Known
<1>3. Granted' /\ KeptOpen'
  BY <1>1, <1>2 DEF Granted, KeptOpen
<1>4. CASE UNCHANGED queue /\ store'.owner = Nobody /\ ui.draft
  <2>1. FirstDiscarded' /\ OwnerReturns'
    BY <1>4 DEF FirstDiscarded, OwnerReturns
  <2>2. EachDiscarded'
    BY <1>4 DEF HandInv, EachDiscarded, Discards
  <2>3. BeginReturns'
    <3>1. \A n \in DOMAIN queue : queue[n].kind = "begin" => ~Current(queue[n].dialog)
      BY <1>4 DEF HandInv, Granted, Known, Current
    <3>2. \A n \in DOMAIN queue : queue[n].kind = "begin" =>
             \E k \in DOMAIN queue : n < k /\ Discards(queue, k, queue[n].dialog)
      BY <3>1 DEF HandInv, BeginReturns
    <3> QED BY <1>4, <3>2 DEF BeginReturns, Discards
  <2> QED BY <1>3, <2>1, <2>2, <2>3 DEF HandInv
<1>5. ASSUME NEW j \in Jobs, j.kind = "discard", j.dialog = count.dialog, queue' = Append(queue, j), UNCHANGED store
      PROVE  HandInv'
  <2>1. /\ \A i \in DOMAIN queue : i \in DOMAIN queue' /\ queue'[i] = queue[i] /\ i < Len(queue) + 1
        /\ \A i \in DOMAIN queue' : (i \in DOMAIN queue /\ queue'[i] = queue[i]) \/ (i = Len(queue) + 1 /\ queue'[i] = j)
        /\ Len(queue) + 1 \in DOMAIN queue' /\ queue'[Len(queue) + 1] = j
    BY <1>5, QueuedOne DEF ShapeInv, JobType
  <2>2. \A i \in DOMAIN queue' : queue'[i].kind = "begin" => i \in DOMAIN queue /\ queue'[i] = queue[i]
    BY <1>5, <2>1
  <2>3. \A k \in DOMAIN queue : \A d : Discards(queue, k, d) => k \in DOMAIN queue' /\ Discards(queue', k, d)
    BY <2>1 DEF Discards
  <2>4. \A d : Current(d) => Discards(queue', Len(queue) + 1, d)
    BY <1>5, <2>1 DEF Current, Discards
  <2>5. FirstDiscarded'
    BY <1>5, <2>2, <2>3 DEF HandInv, FirstDiscarded
  <2>6. EachDiscarded'
    BY <2>2, <2>3 DEF HandInv, EachDiscarded
  <2>7. OwnerReturns'
    BY <1>5, <2>1, <2>3, <2>4 DEF HandInv, OwnerReturns
  <2>8. BeginReturns'
    <3>1. ASSUME NEW n \in DOMAIN queue', queue'[n].kind = "begin"
          PROVE  \E k \in DOMAIN queue' : n < k /\ Discards(queue', k, queue'[n].dialog)
      <4>1. n \in DOMAIN queue /\ queue'[n] = queue[n] /\ n < Len(queue) + 1
        BY <2>1, <2>2, <3>1
      <4>2. Current(queue[n].dialog) \/ \E k \in DOMAIN queue : n < k /\ Discards(queue, k, queue[n].dialog)
        BY <3>1, <4>1 DEF HandInv, BeginReturns
      <4> QED BY <2>1, <2>3, <2>4, <4>1, <4>2
    <3> QED BY <3>1 DEF BeginReturns
  <2> QED BY <1>3, <2>5, <2>6, <2>7, <2>8 DEF HandInv
<1> QED BY <1>4, <1>5

\* A dialog opens when the one before has closed.
LEMMA OpensKeepsHand ==
  ASSUME ShapeInv, HandInv, OpenDialog
  PROVE  HandInv'
<1>1. PICK j \in Jobs : j.kind = "begin" /\ j.dialog = count'.dialog /\ queue' = Append(queue, j)
  BY OpenDialogIs
<1>2. /\ ui.open = FALSE /\ ui'.open = TRUE /\ ui'.draft = FALSE /\ ui'.saving = "no"
      /\ count'.dialog = count.dialog + 1 /\ UNCHANGED <<store, done>>
  BY OpenDialogIs
<1>3. /\ \A i \in DOMAIN queue : i \in DOMAIN queue' /\ queue'[i] = queue[i] /\ i < Len(queue) + 1
      /\ \A i \in DOMAIN queue' : (i \in DOMAIN queue /\ queue'[i] = queue[i]) \/ (i = Len(queue) + 1 /\ queue'[i] = j)
  BY <1>1, QueuedOne DEF ShapeInv, JobType
<1>4. \A d : ~Current(d)
  BY <1>2 DEF Current
<1>5. \A k \in DOMAIN queue : \A d : Discards(queue, k, d) => k \in DOMAIN queue' /\ Discards(queue', k, d)
  BY <1>3 DEF Discards
<1>6. \A k \in DOMAIN queue' : \A d : Discards(queue', k, d) => k \in DOMAIN queue /\ Discards(queue, k, d)
  BY <1>1, <1>3 DEF Discards
<1>7. done = <<>>
  BY <1>2 DEF ShapeInv, UiType
<1>8. Granted'
  <2>1. DOMAIN done' = {}
    BY <1>2, <1>7
  <2>2. ~Known'
    BY <1>2, <2>1 DEF Known
  <2> QED BY <1>2, <2>1, <2>2 DEF Granted
<1>9. KeptOpen'
  <2>1. \A i \in DOMAIN queue : queue[i].dialog <= count.dialog
    BY DEF ShapeInv, JobType
  <2>2. \A i \in DOMAIN queue : queue[i].dialog # count'.dialog
    <3>1. count.dialog \in Nat
      BY DEF ShapeInv, UiType, Counters
    <3>2. ASSUME NEW i \in DOMAIN queue PROVE queue[i].dialog \in Nat
      <4>1. queue[i] \in Jobs
        BY ElementOfSeq, LenProperties DEF ShapeInv, JobType
      <4> QED BY <4>1 DEF Jobs, Dialogs
    <3> QED BY <1>2, <2>1, <3>1, <3>2
  <2> QED BY <1>6, <2>2 DEF KeptOpen, Discards
<1>10. FirstDiscarded'
  <2>1. store.owner # Nobody => \E k \in DOMAIN queue : Discards(queue, k, store.owner)
    BY <1>4 DEF HandInv, OwnerReturns
  <2>2. ASSUME store'.owner # Nobody, NEW i \in DOMAIN queue', queue'[i].kind = "begin"
        PROVE  \E k \in DOMAIN queue' : k < i /\ Discards(queue', k, store'.owner)
    <3>1. CASE i \in DOMAIN queue /\ queue'[i] = queue[i]
      BY <1>2, <1>5, <2>2, <3>1 DEF HandInv, FirstDiscarded
    <3>2. CASE i = Len(queue) + 1
      BY <1>2, <1>3, <1>5, <2>1, <2>2, <3>2
    <3> QED BY <1>3, <3>1, <3>2
  <2> QED BY <2>2 DEF FirstDiscarded
<1>11. EachDiscarded'
  <2>1. \A n \in DOMAIN queue : queue[n].kind = "begin" => \E k \in DOMAIN queue : n < k /\ Discards(queue, k, queue[n].dialog)
    BY <1>4 DEF HandInv, BeginReturns
  <2>2. ASSUME NEW n \in DOMAIN queue', NEW i \in DOMAIN queue', n < i, queue'[n].kind = "begin", queue'[i].kind = "begin"
        PROVE  \E k \in DOMAIN queue' : n < k /\ k < i /\ Discards(queue', k, queue'[n].dialog)
    <3>1. n \in DOMAIN queue /\ queue'[n] = queue[n]
      <4>1. Len(queue) \in Nat /\ DOMAIN queue = 1 .. Len(queue)
        BY LenProperties DEF ShapeInv, JobType
      <4>2. i \in Nat /\ i <= Len(queue) + 1
        BY <1>3, <4>1
      <4> QED BY <1>3, <2>2, <4>1, <4>2
    <3>2. CASE i \in DOMAIN queue /\ queue'[i] = queue[i]
      BY <1>5, <2>2, <3>1, <3>2 DEF HandInv, EachDiscarded
    <3>3. CASE i = Len(queue) + 1
      BY <1>3, <1>5, <2>1, <2>2, <3>1, <3>3
    <3> QED BY <1>3, <3>2, <3>3
  <2> QED BY <2>2 DEF EachDiscarded
<1>12. OwnerReturns'
  BY <1>2, <1>4, <1>5 DEF HandInv, OwnerReturns
<1>13. BeginReturns'
  <2>1. ASSUME NEW n \in DOMAIN queue', queue'[n].kind = "begin"
        PROVE  (ui'.open /\ queue'[n].dialog = count'.dialog) \/ \E k \in DOMAIN queue' : n < k /\ Discards(queue', k, queue'[n].dialog)
    <3>1. CASE n \in DOMAIN queue /\ queue'[n] = queue[n]
      BY <1>4, <1>5, <2>1, <3>1 DEF HandInv, BeginReturns
    <3>2. CASE queue'[n] = j
      BY <1>1, <1>2, <3>2 DEF Current
    <3> QED BY <1>3, <3>1, <3>2
  <2> QED BY <2>1 DEF BeginReturns, Current
<1> QED BY <1>8, <1>9, <1>10, <1>11, <1>12, <1>13 DEF HandInv

\* The rest of the queue.
LEMMA QueueRest ==
  ASSUME queue \in Seq(Jobs), queue # <<>>, queue' = Tail(queue)
  PROVE  /\ \A i \in DOMAIN queue' : i + 1 \in DOMAIN queue /\ queue'[i] = queue[i + 1] /\ i \in Nat /\ i + 1 > 1
         /\ \A i \in DOMAIN queue : i = 1 \/ (i > 1 /\ i - 1 \in DOMAIN queue' /\ queue'[i - 1] = queue[i])
         /\ \A i, n \in DOMAIN queue' : n < i <=> n + 1 < i + 1
         /\ DOMAIN queue \subseteq Nat
         /\ \A k \in DOMAIN queue : \A d : Discards(queue, k, d) /\ k # 1 => k - 1 \in DOMAIN queue' /\ Discards(queue', k - 1, d)
         /\ \A k \in DOMAIN queue' : \A d : Discards(queue', k, d) => Discards(queue, k + 1, d)
<1>1. /\ \A i \in DOMAIN queue' : i + 1 \in DOMAIN queue /\ queue'[i] = queue[i + 1]
      /\ \A i \in DOMAIN queue : i = 1 \/ (i > 1 /\ i - 1 \in DOMAIN queue' /\ queue'[i - 1] = queue[i])
      /\ queue' \in Seq(Jobs)
  BY WithoutFirst
<1>2. DOMAIN queue = 1 .. Len(queue) /\ DOMAIN queue' = 1 .. Len(queue') /\ Len(queue) \in Nat /\ Len(queue') \in Nat
  BY <1>1, LenProperties
<1>3. \A i \in DOMAIN queue' : i \in Nat /\ i + 1 > 1
  BY <1>2
<1>4. \A i, n \in DOMAIN queue' : n < i <=> n + 1 < i + 1
  BY <1>2
<1> QED BY <1>1, <1>2, <1>3, <1>4 DEF Discards

\* What the next begin needs is there before it, whoever the draft goes to.
LEMMA EachStillDiscarded ==
  ASSUME queue \in Seq(Jobs), queue # <<>>, queue' = Tail(queue), EachDiscarded
  PROVE  EachDiscarded'
<1> SUFFICES ASSUME NEW n \in DOMAIN queue', NEW i \in DOMAIN queue', n < i, queue'[n].kind = "begin", queue'[i].kind = "begin"
             PROVE  \E k \in DOMAIN queue' : n < k /\ k < i /\ Discards(queue', k, queue'[n].dialog)
  BY DEF EachDiscarded
<1>1. n \in Nat /\ i \in Nat /\ n + 1 \in DOMAIN queue /\ i + 1 \in DOMAIN queue /\ n + 1 < i + 1
      /\ queue'[n] = queue[n + 1] /\ queue'[i] = queue[i + 1]
  BY QueueRest
<1>2. PICK k \in DOMAIN queue : n + 1 < k /\ k < i + 1 /\ Discards(queue, k, queue[n + 1].dialog)
  BY <1>1 DEF EachDiscarded
<1>3. k \in Nat /\ k # 1 /\ n < k - 1 /\ k - 1 < i
  <2>1. k \in Nat
    BY QueueRest
  <2> QED BY <1>1, <1>2, <2>1
<1>4. k - 1 \in DOMAIN queue' /\ Discards(queue', k - 1, queue[n + 1].dialog)
  BY <1>2, <1>3, QueueRest
<1> QED BY <1>1, <1>3, <1>4

\* And every draft is still given back.
LEMMA BeginStillReturns ==
  ASSUME queue \in Seq(Jobs), queue # <<>>, queue' = Tail(queue), BeginReturns, UNCHANGED <<ui, count>>
  PROVE  BeginReturns'
<1> SUFFICES ASSUME NEW n \in DOMAIN queue', queue'[n].kind = "begin", ~(ui'.open /\ queue'[n].dialog = count'.dialog)
             PROVE  \E k \in DOMAIN queue' : n < k /\ Discards(queue', k, queue'[n].dialog)
  BY DEF BeginReturns, Current
<1>1. n \in Nat /\ n + 1 \in DOMAIN queue /\ queue'[n] = queue[n + 1]
  BY QueueRest
<1>2. PICK k \in DOMAIN queue : n + 1 < k /\ Discards(queue, k, queue[n + 1].dialog)
  BY <1>1 DEF BeginReturns, Current
<1>3. k \in Nat /\ k # 1 /\ n < k - 1
  <2>1. k \in Nat
    BY QueueRest
  <2> QED BY <1>1, <1>2, <2>1
<1>4. k - 1 \in DOMAIN queue' /\ Discards(queue', k - 1, queue[n + 1].dialog)
  BY <1>2, <1>3, QueueRest
<1> QED BY <1>1, <1>3, <1>4

\* The worker begins a draft: nobody had it.
LEMMA BeginKeepsHand ==
  ASSUME ShapeInv, HandInv, Worked(Head(queue)), Head(queue).kind = "begin", DoBegin(Head(queue))
  PROVE  HandInv'
<1> DEFINE j == Head(queue)
<1>1. /\ queue \in Seq(Jobs) /\ queue # <<>> /\ j \in Jobs /\ queue' = Tail(queue) /\ UNCHANGED <<ui, alerts, count, typed>>
      /\ 1 \in DOMAIN queue /\ queue[1] = j
  BY WithoutFirst DEF ShapeInv, JobType, Worked
<1>2. store.owner = Nobody
  <2>1. \A k \in DOMAIN queue : ~(k < 1)
    BY <1>1, QueueRest
  <2> QED BY <1>1, <2>1 DEF HandInv, FirstDiscarded
<1>3. PICK r : Answered(j, r) /\ r.error = FALSE /\ store'.owner = j.dialog
  BY <1>1, <1>2, DoBeginIs
<1>4. j.dialog # Nobody
  BY <1>1 DEF Jobs, Dialogs, Nobody
<1>5. FirstDiscarded'
  <2> SUFFICES ASSUME NEW i \in DOMAIN queue', queue'[i].kind = "begin"
               PROVE  \E k \in DOMAIN queue' : k < i /\ Discards(queue', k, store'.owner)
    BY DEF FirstDiscarded
  <2>1. i \in Nat /\ i + 1 \in DOMAIN queue /\ queue'[i] = queue[i + 1] /\ 1 < i + 1
    BY <1>1, QueueRest
  <2>2. PICK k \in DOMAIN queue : 1 < k /\ k < i + 1 /\ Discards(queue, k, j.dialog)
    BY <1>1, <2>1 DEF HandInv, EachDiscarded
  <2>3. k \in Nat /\ k # 1 /\ k - 1 < i
    <3>1. k \in Nat
      BY <1>1, QueueRest
    <3> QED BY <2>1, <2>2, <3>1
  <2> QED BY <1>1, <1>3, <2>2, <2>3, QueueRest
<1>6. EachDiscarded' /\ BeginReturns'
  BY <1>1, EachStillDiscarded, BeginStillReturns DEF HandInv
<1>7. OwnerReturns'
  <2>1. Current(j.dialog) \/ \E k \in DOMAIN queue : 1 < k /\ Discards(queue, k, j.dialog)
    BY <1>1 DEF HandInv, BeginReturns
  <2>2. CASE Current(j.dialog)
    BY <1>1, <1>3, <2>2 DEF OwnerReturns, Current
  <2>3. ASSUME NEW k \in DOMAIN queue, 1 < k, Discards(queue, k, j.dialog) PROVE OwnerReturns'
    <3>1. k # 1
      BY <1>1, <2>3, QueueRest
    <3>2. k - 1 \in DOMAIN queue' /\ Discards(queue', k - 1, j.dialog)
      BY <1>1, <2>3, <3>1, QueueRest
    <3> QED BY <1>3, <3>2 DEF OwnerReturns
  <2> QED BY <2>1, <2>2, <2>3
<1>8. KeptOpen'
  <2>1. \A k \in DOMAIN queue' : k + 1 \in DOMAIN queue /\ (Discards(queue', k, count.dialog) => Discards(queue, k + 1, count.dialog))
    BY <1>1, QueueRest
  <2> QED BY <1>1, <2>1 DEF HandInv, KeptOpen
<1>9. Granted'
  <2>1. CASE ui.open /\ j.dialog = count.dialog
    <3>1. r \in Answers /\ r.job = j /\ done' = Append(done, r)
      BY <1>3, <2>1 DEF Answered
    <3>2. \A i \in DOMAIN done' : (i \in DOMAIN done /\ done'[i] = done[i]) \/ done'[i] = r
      BY <3>1, GrownByOne DEF ShapeInv, DoneType
    <3>3. \A i \in DOMAIN done' : done'[i].job.kind = "begin" => done'[i].error = FALSE
      BY <1>3, <3>2 DEF HandInv, Granted
    <3>4. ASSUME NEW n \in DOMAIN queue', queue'[n].kind = "begin" PROVE queue'[n].dialog # count.dialog
      <4>1. n \in Nat /\ n + 1 \in DOMAIN queue /\ queue'[n] = queue[n + 1] /\ 1 < n + 1
        BY <1>1, QueueRest
      <4>2. queue[n + 1].dialog = count.dialog => \E k \in DOMAIN queue : Discards(queue, k, count.dialog)
        BY <1>1, <2>1, <3>4, <4>1 DEF HandInv, EachDiscarded
      <4> QED BY <2>1, <4>1, <4>2 DEF HandInv, KeptOpen
    <3> QED BY <1>1, <1>3, <2>1, <3>3, <3>4 DEF HandInv, Granted
  <2>2. CASE ~(ui.open /\ j.dialog = count.dialog)
    <3>1. UNCHANGED done
      BY <1>3, <2>2 DEF Answered
    <3>2. ~Known
      <4>1. Known => store.owner = count.dialog
        BY DEF HandInv, Granted
      <4>2. Known => ui.open
        BY DEF Known, ShapeInv, UiType, DoneType
      <4>3. ui.open => count.dialog # Nobody
        BY OpenIs DEF Dialogs, Nobody
      <4> QED BY <1>2, <4>1, <4>2, <4>3
    <3>3. ~Known'
      BY <1>1, <3>1, <3>2 DEF Known
    <3> QED BY <1>1, <3>1, <3>3 DEF HandInv, Granted
  <2> QED BY <2>1, <2>2
<1> QED BY <1>5, <1>6, <1>7, <1>8, <1>9 DEF HandInv

\* Any other answer does not say that a draft has begun.
LEMMA OtherAnswer ==
  ASSUME ShapeInv, HandInv, NEW j, Worked(j), j.kind # "begin"
  PROVE  /\ Known' => Known
         /\ \A i \in DOMAIN done' : done'[i].job.kind = "begin" => done'[i].error = FALSE
<1>1. UNCHANGED ui
  BY DEF Worked
<1>2. CASE UNCHANGED done
  BY <1>1, <1>2 DEF Known, HandInv, Granted
<1>3. ASSUME NEW r, Answered(j, r)
      PROVE  /\ \A i \in DOMAIN done' : done'[i].job.kind = "begin" => i \in DOMAIN done /\ done'[i] = done[i]
  <2>1. r \in Answers /\ r.job = j /\ (UNCHANGED done \/ done' = Append(done, r))
    BY <1>3 DEF Answered
  <2>2. CASE UNCHANGED done
    BY <2>2
  <2>3. CASE done' = Append(done, r)
    <3>1. \A i \in DOMAIN done' : (i \in DOMAIN done /\ done'[i] = done[i]) \/ done'[i] = r
      BY <2>1, <2>3, GrownByOne DEF ShapeInv, DoneType
    <3> QED BY <2>1, <3>1
  <2> QED BY <2>1, <2>2, <2>3
<1>4. ASSUME NEW r, Answered(j, r)
      PROVE  /\ Known' => Known
             /\ \A i \in DOMAIN done' : done'[i].job.kind = "begin" => done'[i].error = FALSE
  <2>1. \A i \in DOMAIN done' : done'[i].job.kind = "begin" => i \in DOMAIN done /\ done'[i] = done[i]
    BY <1>3, <1>4
  <2> QED BY <1>1, <2>1 DEF Known, HandInv, Granted
<1> QED BY <1>2, <1>4 DEF Worked

\* The worker discards a draft, or leaves it to another dialog.
LEMMA DiscardKeepsHand ==
  ASSUME ShapeInv, HandInv, Worked(Head(queue)), Head(queue).kind = "discard", DoDiscard(Head(queue))
  PROVE  HandInv'
<1> DEFINE j == Head(queue)
<1>1. /\ queue \in Seq(Jobs) /\ queue # <<>> /\ j \in Jobs /\ queue' = Tail(queue) /\ UNCHANGED <<ui, alerts, count, typed>>
      /\ 1 \in DOMAIN queue /\ queue[1] = j
  BY WithoutFirst DEF ShapeInv, JobType, Worked
<1>2. \/ store.owner = j.dialog /\ store'.owner = Nobody
      \/ store.owner # j.dialog /\ store'.owner = store.owner
  BY <1>1, DoDiscardIs
<1>3. ASSUME store'.owner # Nobody, NEW k \in DOMAIN queue, Discards(queue, k, store.owner)
      PROVE  k - 1 \in DOMAIN queue' /\ Discards(queue', k - 1, store'.owner)
  <2>1. k # 1
    BY <1>1, <1>2, <1>3 DEF Discards
  <2> QED BY <1>1, <1>2, <1>3, <2>1, QueueRest
<1>4. FirstDiscarded'
  <2> SUFFICES ASSUME store'.owner # Nobody, NEW i \in DOMAIN queue', queue'[i].kind = "begin"
               PROVE  \E k \in DOMAIN queue' : k < i /\ Discards(queue', k, store'.owner)
    BY DEF FirstDiscarded
  <2>1. i \in Nat /\ i + 1 \in DOMAIN queue /\ queue'[i] = queue[i + 1]
    BY <1>1, QueueRest
  <2>2. PICK k \in DOMAIN queue : k < i + 1 /\ Discards(queue, k, store.owner)
    BY <1>2, <2>1 DEF HandInv, FirstDiscarded
  <2>3. k \in Nat /\ k - 1 < i
    <3>1. k \in Nat
      BY <1>1, QueueRest
    <3> QED BY <2>1, <2>2, <3>1
  <2> QED BY <1>3, <2>2, <2>3
<1>5. EachDiscarded' /\ BeginReturns'
  BY <1>1, EachStillDiscarded, BeginStillReturns DEF HandInv
<1>6. OwnerReturns'
  BY <1>1, <1>2, <1>3 DEF HandInv, OwnerReturns, Current
<1>7. KeptOpen'
  <2>1. \A k \in DOMAIN queue' : k + 1 \in DOMAIN queue /\ (Discards(queue', k, count.dialog) => Discards(queue, k + 1, count.dialog))
    BY <1>1, QueueRest
  <2> QED BY <1>1, <2>1 DEF HandInv, KeptOpen
<1>8. Granted'
  <2>1. Known' => Known
    BY OtherAnswer
  <2>2. \A i \in DOMAIN done' : done'[i].job.kind = "begin" => done'[i].error = FALSE
    BY OtherAnswer
  <2>3. ASSUME Known PROVE store'.owner = count.dialog
    <3>1. ui.open /\ store.owner = count.dialog
      BY <2>3 DEF Known, ShapeInv, UiType, DoneType, HandInv, Granted
    <3>2. ~Discards(queue, 1, count.dialog)
      BY <1>1, <3>1 DEF HandInv, KeptOpen
    <3> QED BY <1>1, <1>2, <3>1, <3>2 DEF Discards
  <2>4. ASSUME Known, NEW n \in DOMAIN queue', queue'[n].kind = "begin" PROVE queue'[n].dialog # count.dialog
    <3>1. n + 1 \in DOMAIN queue /\ queue'[n] = queue[n + 1]
      BY <1>1, QueueRest
    <3> QED BY <2>4, <3>1 DEF HandInv, Granted
  <2> QED BY <1>1, <2>1, <2>2, <2>3, <2>4 DEF HandInv, Granted
<1> QED BY <1>4, <1>5, <1>6, <1>7, <1>8 DEF HandInv

\* Any other job leaves the draft to whom it belongs.
LEMMA OtherKeepsHand ==
  ASSUME ShapeInv, HandInv, Worked(Head(queue)), Head(queue).kind \notin {"begin", "discard"}, store'.owner = store.owner
  PROVE  HandInv'
<1> DEFINE j == Head(queue)
<1>1. /\ queue \in Seq(Jobs) /\ queue # <<>> /\ j \in Jobs /\ queue' = Tail(queue) /\ UNCHANGED <<ui, alerts, count, typed>>
      /\ 1 \in DOMAIN queue /\ queue[1] = j
  BY WithoutFirst DEF ShapeInv, JobType, Worked
<1>2. ASSUME NEW k \in DOMAIN queue, NEW d, Discards(queue, k, d)
      PROVE  k - 1 \in DOMAIN queue' /\ Discards(queue', k - 1, d)
  <2>1. k # 1
    BY <1>1, <1>2 DEF Discards
  <2> QED BY <1>1, <1>2, <2>1, QueueRest
<1>3. FirstDiscarded'
  <2> SUFFICES ASSUME store'.owner # Nobody, NEW i \in DOMAIN queue', queue'[i].kind = "begin"
               PROVE  \E k \in DOMAIN queue' : k < i /\ Discards(queue', k, store'.owner)
    BY DEF FirstDiscarded
  <2>1. i \in Nat /\ i + 1 \in DOMAIN queue /\ queue'[i] = queue[i + 1]
    BY <1>1, QueueRest
  <2>2. PICK k \in DOMAIN queue : k < i + 1 /\ Discards(queue, k, store.owner)
    BY <2>1 DEF HandInv, FirstDiscarded
  <2>3. k \in Nat /\ k - 1 < i
    <3>1. k \in Nat
      BY <1>1, QueueRest
    <3> QED BY <2>1, <2>2, <3>1
  <2> QED BY <1>2, <2>2, <2>3
<1>4. EachDiscarded' /\ BeginReturns'
  BY <1>1, EachStillDiscarded, BeginStillReturns DEF HandInv
<1>5. OwnerReturns'
  BY <1>1, <1>2 DEF HandInv, OwnerReturns, Current
<1>6. KeptOpen'
  <2>1. \A k \in DOMAIN queue' : k + 1 \in DOMAIN queue /\ (Discards(queue', k, count.dialog) => Discards(queue, k + 1, count.dialog))
    BY <1>1, QueueRest
  <2> QED BY <1>1, <2>1 DEF HandInv, KeptOpen
<1>7. Granted'
  <2>1. Known' => Known
    BY OtherAnswer
  <2>2. \A i \in DOMAIN done' : done'[i].job.kind = "begin" => done'[i].error = FALSE
    BY OtherAnswer
  <2>3. ASSUME Known, NEW n \in DOMAIN queue', queue'[n].kind = "begin" PROVE queue'[n].dialog # count.dialog
    <3>1. n + 1 \in DOMAIN queue /\ queue'[n] = queue[n + 1]
      BY <1>1, QueueRest
    <3> QED BY <2>3, <3>1 DEF HandInv, Granted
  <2> QED BY <1>1, <2>1, <2>2, <2>3 DEF HandInv, Granted
<1> QED BY <1>3, <1>4, <1>5, <1>6, <1>7 DEF HandInv
-----------------------------------------------------------------------------
(***************************************************************************)
(* Every step keeps both.                                                  *)
(***************************************************************************)
Orderly == ShapeInv /\ HandInv

\* The editor starts so.
LEMMA StartsOrderly == EditorInit => Orderly
<1> SUFFICES ASSUME EditorInit PROVE Orderly
  OBVIOUS
<1> DEFINE groups == Range(Homes)
           rows == [w \in DOMAIN Homes |-> [group |-> Homes[w], value |-> 0, version |-> 0, dead |-> FALSE]]
           n == Len(Homes)
           m == Cardinality(groups)
<1>1. /\ store = [rows |-> rows, groups |-> groups, revision |-> 0,
                  owner |-> Nobody, copy |-> NoMap, listed |-> {}, last |-> n, lastGroup |-> m]
      /\ queue = <<>> /\ done = <<>> /\ alerts = <<>> /\ ui = Fresh
      /\ count = [act |-> 0, taught |-> 0, dialog |-> 0, save |-> 0] /\ typed = NoMap
  BY DEF EditorInit
<1>2. Homes \in Seq(Nat \ {0}) /\ Homes # <<>> /\ n \in Nat /\ DOMAIN Homes = 1 .. n
      /\ \A w \in DOMAIN Homes : Homes[w] \in Nat \ {0}
  BY EditorAssumption, LenProperties, ElementOfSeq
<1>3. groups \in SUBSET Nat /\ groups # {}
  <2>1. 1 \in DOMAIN Homes
    BY <1>2, EmptySeq
  <2> QED BY <1>2, <2>1 DEF Range
<1>4. m \in Nat
  <2>1. IsFiniteSet(DOMAIN Homes)
    BY <1>2, FS_Interval
  <2>2. IsFiniteSet({Homes[w] : w \in DOMAIN Homes})
    <3> DEFINE f == [w \in DOMAIN Homes |-> Homes[w]]
    <3>1. f \in Surjection(DOMAIN Homes, groups)
      BY DEF Surjection, Range
    <3> HIDE DEF f
    <3>2. IsFiniteSet(groups)
      BY <2>1, <3>1, FS_Surjection
    <3> QED BY <3>2 DEF Range
  <2>3. IsFiniteSet(groups)
    BY <2>2 DEF Range
  <2> QED BY <2>3, FS_CardinalityType
<1>5. rows \in RowMaps /\ DOMAIN rows = DOMAIN Homes
  <2>1. rows \in [DOMAIN Homes -> Rows]
    BY <1>2 DEF Rows
  <2>2. DOMAIN Homes \in SUBSET Nat
    BY <1>2
  <2> HIDE DEF rows
  <2> QED BY <2>1, <2>2, RowMapOf
<1>6. NoMap \in RowMaps /\ NoMap \in Lists /\ DOMAIN NoMap = {}
  <2>1. NoMap \in [{} -> Rows] /\ NoMap \in [{} -> Nat] /\ {} \in SUBSET Nat
    BY DEF NoMap
  <2> QED BY <2>1, RowMapOf DEF Lists
<1> HIDE DEF rows, groups, n, m
<1>7. /\ store \in Stores /\ store.rows = rows /\ store.groups = groups /\ store.owner = Nobody
      /\ store.copy = NoMap /\ store.last = n
  <2>1. Nobody \in Nat /\ 0 \in Nat
    BY DEF Nobody
  <2> QED BY <1>1, <1>2, <1>3, <1>4, <1>5, <1>6, <2>1 DEF Stores
<1>8. StoreType
  BY <1>2, <1>3, <1>5, <1>6, <1>7 DEF StoreType
<1>9. count \in Counters /\ count.dialog = 0
  BY <1>1 DEF Counters
<1>10. JobType
  <2>1. queue \in Seq(Jobs) /\ DOMAIN queue = {}
    BY <1>1
  <2>2. store.owner <= count.dialog
    BY <1>7, <1>9 DEF Nobody
  <2> QED BY <2>1, <2>2 DEF JobType
<1>11. DoneType
  <2>1. done \in Seq(Answers) /\ DOMAIN done = {}
    BY <1>1
  <2> QED BY <2>1 DEF DoneType
<1>12. UiType
  <2>1. alerts \in Seq(Boxes) /\ count.dialog <= MaxDialogs
    BY <1>1, <1>9, EditorAssumption
  <2> QED BY <1>1, <1>6, <1>9, <2>1, FreshIs DEF UiType
<1>13. HandInv
  <2>1. DOMAIN queue = {} /\ DOMAIN done = {} /\ store.owner = Nobody
    BY <1>1, <1>7
  <2>2. ui.open = FALSE /\ ui.draft = FALSE /\ ui.saving = "no"
    BY <1>1, FreshIs
  <2>3. FirstDiscarded /\ EachDiscarded /\ OwnerReturns /\ BeginReturns /\ KeptOpen
    BY <2>1, <2>2 DEF FirstDiscarded, EachDiscarded, OwnerReturns, BeginReturns, KeptOpen
  <2>4. Granted
    BY <2>1, <2>2 DEF Granted, Known
  <2> QED BY <2>3, <2>4 DEF HandInv
<1> QED BY <1>8, <1>10, <1>11, <1>12, <1>13 DEF Orderly, ShapeInv

\* What the open dialog does keeps both when the dialog learns of a draft
\* from its begin alone.
LEMMA GoesKeepsOrder ==
  ASSUME Orderly, NEW js, Goes(js), Delivered, ui'.draft => Known, ui'.saving = "commit" => ui'.draft
  PROVE  Orderly'
BY GoesKeepsShape, GoesKeepsHand DEF Orderly

\* The worker keeps both.
LEMMA WorkKeepsOrder == ASSUME Orderly, Work PROVE Orderly'
<1> DEFINE j == Head(queue)
<1>1. ShapeInv /\ HandInv /\ Worked(j)
  BY WorkIs DEF Orderly
<1>2. ShapeInv'
  BY <1>1, WorkKeepsShape
<1>3. j \in Jobs /\ UNCHANGED ui
  BY <1>1 DEF Worked
<1>4. HandInv'
  <2>1. CASE j.kind = "begin" /\ DoBegin(j)
    BY <1>1, <2>1, BeginKeepsHand
  <2>2. CASE j.kind = "discard" /\ DoDiscard(j)
    BY <1>1, <2>2, DiscardKeepsHand
  <2>3. CASE (j.kind = "groups" /\ DoGroups(j)) \/ (j.kind = "page" /\ DoPage(j)) \/ (j.kind = "flush" /\ DoFlush(j))
    <3>1. UNCHANGED store
      BY <2>3 DEF DoGroups, DoPage, DoFlush
    <3> QED BY <1>1, <2>3, <3>1, OtherKeepsHand
  <2>4. CASE j.kind = "edit" /\ DoEdit(j)
    <3>1. store'.owner = store.owner
      BY <1>1, <1>3, <2>4, DoEditIs
    <3> QED BY <1>1, <2>4, <3>1, OtherKeepsHand
  <2>5. CASE j.kind = "mutate" /\ DoMutate(j)
    <3>1. j.act \in AllActions
      BY <1>1, <2>5, WithoutFirst DEF ShapeInv, JobType, Worked
    <3>2. store'.owner = store.owner
      BY <1>1, <1>3, <2>5, <3>1, DoMutateIs
    <3> QED BY <1>1, <2>5, <3>2, OtherKeepsHand
  <2> QED BY <2>1, <2>2, <2>3, <2>4, <2>5 DEF Work
<1> QED BY <1>2, <1>4 DEF Orderly

\* So does a result.
LEMMA DeliverKeepsOrder == ASSUME Orderly, Deliver PROVE Orderly'
<1> DEFINE r == Head(done)
<1>1. /\ ShapeInv /\ HandInv /\ done # <<>> /\ done' = Tail(done) /\ Delivered /\ UNCHANGED <<store, count, typed>>
  BY DEF Deliver, Delivered, Orderly
<1>2. r = done[1] /\ 1 \in DOMAIN done
  BY <1>1, ResultIs
<1>3. ui.saving = "commit" => ui.draft
  BY <1>1 DEF HandInv, Granted
<1>4. CASE r.job.kind = "begin" /\ Begun(r)
  <2>1. PICK js : Goes(js) /\ ui'.saving = ui.saving /\ (~r.error => ui'.draft = TRUE)
    BY <1>1, <1>4, BegunIs
  <2>2. Known /\ r.error = FALSE
    BY <1>1, <1>2, <1>4 DEF Known, HandInv, Granted
  <2> QED BY <1>1, <2>1, <2>2, GoesKeepsOrder
<1>5. CASE r.job.kind = "groups" /\ GroupsReceived(r)
  <2>1. PICK js : Goes(js) /\ Alike(ui, ui')
    BY <1>1, <1>5, GroupsReceivedIs
  <2> QED BY <1>1, <1>3, <2>1, GoesKeepsOrder DEF Alike, Known
<1>6. CASE r.job.kind = "page" /\ PageReceived(r)
  <2>1. PICK js : Goes(js) /\ Alike(ui, ui')
    BY <1>1, <1>6, PageReceivedIs
  <2> QED BY <1>1, <1>3, <2>1, GoesKeepsOrder DEF Alike, Known
<1>7. CASE r.job.kind = "edit" /\ EditReceived(r)
  <2>1. Goes(<<>>) /\ ui'.draft = ui.draft /\ ui'.saving = ui.saving
    BY <1>1, <1>7, EditReceivedIs
  <2> QED BY <1>1, <1>3, <2>1, GoesKeepsOrder DEF Known
<1>8. CASE r.job.kind = "mutate" /\ MutateReceived(r)
  <2>1. PICK js : Goes(js) /\ Calm
    BY <1>1, <1>8, MutateReceivedIs
  <2> QED BY <1>1, <1>3, <2>1, GoesKeepsOrder DEF Calm, Alike, Known
<1>9. CASE r.job.kind = "flush" /\ FlushReceived(r)
  <2>1. /\ Goes(<<>>) /\ ui'.draft = ui.draft
        /\ ui'.saving = "no" \/ (ui'.saving = "commit" /\ ui.draft = TRUE)
    BY <1>1, <1>9, FlushReceivedIs
  <2> QED BY <1>1, <2>1, GoesKeepsOrder DEF Known
<1> QED BY <1>4, <1>5, <1>6, <1>7, <1>8, <1>9 DEF Deliver

\* And the user.
LEMMA UserKeepsOrder ==
  ASSUME Orderly, NEW b \in Int, NEW g,
         \/ ShowPage \/ Paint(b) \/ SelectGroup(g) \/ EditCell(b) \/ Save \/ NotCommitted \/ Dismiss
         \/ \E act \in Actions : Act(act, b)
  PROVE  Orderly'
<1>1. ShapeInv /\ HandInv
  BY DEF Orderly
<1>2. ui.saving = "commit" => ui.draft
  BY <1>1 DEF HandInv, Granted
<1>3. CASE ShowPage
  <2>1. Goes(<<>>) /\ UNCHANGED done /\ ui'.draft = ui.draft /\ ui'.saving = ui.saving
    BY <1>1, <1>3, ShowPageIs
  <2> QED BY <1>2, <2>1, GoesKeepsOrder DEF Known, Delivered
<1>4. CASE Paint(b)
  <2>1. PICK js : Goes(js) /\ Alike(ui, ui') /\ UNCHANGED done
    BY <1>1, <1>4, PaintIs
  <2> QED BY <1>2, <2>1, GoesKeepsOrder DEF Alike, Known, Delivered
<1>5. CASE SelectGroup(g)
  <2>1. Goes(<<>>) /\ Alike(ui, ui') /\ UNCHANGED done
    BY <1>1, <1>5, SelectGroupIs
  <2> QED BY <1>2, <2>1, GoesKeepsOrder DEF Alike, Known, Delivered
<1>6. CASE EditCell(b)
  <2>1. PICK j \in Jobs : Goes(<<j>>) /\ Alike(ui, ui') /\ UNCHANGED done
    BY <1>1, <1>6, EditCellIs
  <2> QED BY <1>2, <2>1, GoesKeepsOrder DEF Alike, Known, Delivered
<1>7. ASSUME NEW act \in Actions, Act(act, b) PROVE Orderly'
  <2>1. PICK j \in Jobs : Goes(<<j>>) /\ Calm /\ UNCHANGED done
    BY <1>1, <1>7, ActIs
  <2> QED BY <1>2, <2>1, GoesKeepsOrder DEF Calm, Alike, Known, Delivered
<1>8. CASE Save
  <2>1. PICK j \in Jobs : Goes(<<j>>) /\ ui'.draft = ui.draft /\ ui'.saving = "flush" /\ UNCHANGED done
    BY <1>1, <1>8, SaveIs
  <2> QED BY <2>1, GoesKeepsOrder DEF Known, Delivered
<1>9. CASE NotCommitted
  <2>1. Goes(<<>>) /\ ui'.draft = ui.draft /\ ui'.saving = "no" /\ UNCHANGED done
    BY <1>1, <1>9, NotCommittedIs
  <2> QED BY <2>1, GoesKeepsOrder DEF Known, Delivered
<1>10. CASE Dismiss
  <2>1. PICK js : Goes(js) /\ Alike(ui, ui') /\ UNCHANGED done
    BY <1>1, <1>10, DismissIs
  <2> QED BY <1>2, <2>1, GoesKeepsOrder DEF Alike, Known, Delivered
<1> QED BY <1>3, <1>4, <1>5, <1>6, <1>7, <1>8, <1>9, <1>10

\* A dialog that commits has the draft.
LEMMA CommitterOwns ==
  ASSUME Orderly, ui.saving = "commit"
  PROVE  ui.open /\ ui.draft /\ store.owner = count.dialog /\ store.owner # Nobody
<1>1. ui.open /\ ui.draft
  BY DEF Orderly, ShapeInv, UiType, HandInv, Granted
<1>2. store.owner = count.dialog
  BY <1>1 DEF Orderly, HandInv, Granted, Known
<1>3. count.dialog \in Dialogs
  BY <1>1, OpenIs DEF Orderly
<1> QED BY <1>1, <1>2, <1>3 DEF Dialogs, Nobody

\* Dialogs open and close, comments teach.
LEMMA OthersKeepOrder ==
  ASSUME Orderly, NEW w, OpenDialog \/ Committed \/ Cancel \/ Learn(w)
  PROVE  Orderly'
<1>1. ShapeInv /\ HandInv
  BY DEF Orderly
<1>2. CASE OpenDialog
  BY <1>1, <1>2, OpensKeepsShape, OpensKeepsHand DEF Orderly
<1>3. CASE Committed
  <2>1. ui.saving = "commit"
    BY <1>3 DEF Committed
  <2>2. ui.draft /\ store.owner # Nobody
    BY <2>1, CommitterOwns
  <2>3. /\ Sound(store') /\ store'.owner = Nobody
        /\ ui' = Fresh /\ done' = <<>> /\ alerts' = <<>> /\ UNCHANGED <<queue, count, typed>>
    BY <1>1, <1>3, <2>2, CommittedIs
  <2>4. store'.owner <= count.dialog
    BY <1>1, <2>3 DEF ShapeInv, UiType, Counters, Nobody
  <2>5. ShapeInv'
    BY <1>1, <2>3, <2>4, ClosesKeepsShape
  <2>6. HandInv'
    BY <1>1, <2>2, <2>3, ClosesKeepsHand
  <2> QED BY <2>5, <2>6 DEF Orderly
<1>4. CASE Cancel
  <2>1. /\ ui' = Fresh /\ done' = <<>> /\ alerts' = <<>> /\ UNCHANGED <<store, count, typed>>
        /\ \E j \in Jobs : j.kind = "discard" /\ j.dialog = count.dialog /\ queue' = Append(queue, j)
    BY <1>1, <1>4, CancelIs
  <2>2. Sound(store') /\ store'.owner <= count.dialog
    BY <1>1, <2>1, SoundNow DEF ShapeInv, JobType, Sound, InBounds
  <2>3. ShapeInv'
    BY <1>1, <2>1, <2>2, ClosesKeepsShape
  <2>4. HandInv'
    BY <1>1, <2>1, ClosesKeepsHand
  <2> QED BY <2>3, <2>4 DEF Orderly
<1>5. CASE Learn(w)
  <2>1. UNCHANGED <<queue, done, ui>> /\ count'.dialog = count.dialog /\ store'.owner = store.owner
    BY <1>1, <1>5, LearnIs
  <2>2. FirstDiscarded' /\ EachDiscarded' /\ OwnerReturns' /\ BeginReturns' /\ KeptOpen'
    BY <1>1, <2>1 DEF HandInv, FirstDiscarded, EachDiscarded, OwnerReturns, BeginReturns, KeptOpen, Current, Discards
  <2>3. Granted'
    BY <1>1, <2>1 DEF HandInv, Granted, Known
  <2> QED BY <1>1, <1>5, <2>2, <2>3, LearnKeepsShape DEF HandInv, Orderly
<1> QED BY <1>2, <1>3, <1>4, <1>5

\* Every step.
LEMMA StepsKeepOrder == ASSUME Orderly, EditorNext PROVE Orderly'
<1>1. Blocks \subseteq Int
  BY DEF Blocks
<1>2. CASE Work \/ Deliver
  BY <1>2, WorkKeepsOrder, DeliverKeepsOrder
<1>3. CASE OpenDialog \/ Committed \/ Cancel \/ \E w \in DOMAIN Homes : Learn(w)
  BY <1>3, OthersKeepOrder
<1>4. CASE \/ ShowPage \/ Save \/ NotCommitted \/ Dismiss
            \/ \E g \in DOMAIN ui.known : SelectGroup(g)
  <2>1. 0 \in Int
    OBVIOUS
  <2> QED BY <1>4, <2>1, UserKeepsOrder
<1>5. CASE (\E b \in Blocks : Paint(b) \/ EditCell(b)) \/ \E act \in Actions, b \in Blocks : Act(act, b)
  BY <1>1, <1>5, UserKeepsOrder
<1> QED BY <1>2, <1>3, <1>4, <1>5 DEF EditorNext

\* Nothing happens: nothing changes.
LEMMA StutterKeepsOrder == ASSUME Orderly, UNCHANGED editorVars PROVE Orderly'
<1>1. UNCHANGED <<store, queue, done, ui, alerts, count, typed>>
  BY DEF editorVars
<1>2. ShapeInv'
  BY <1>1 DEF Orderly, ShapeInv, StoreType, JobType, DoneType, UiType
<1>3. FirstDiscarded' /\ EachDiscarded' /\ OwnerReturns' /\ BeginReturns' /\ KeptOpen'
  BY <1>1 DEF Orderly, HandInv, FirstDiscarded, EachDiscarded, OwnerReturns, BeginReturns, KeptOpen, Current, Discards
<1>4. Granted'
  BY <1>1 DEF Orderly, HandInv, Granted, Known
<1> QED BY <1>2, <1>3, <1>4 DEF Orderly, HandInv

\* The state of the editor keeps its shape, and the dialogs their order.
THEOREM EditorInOrder == EditorSpec => []Orderly
<1>1. EditorInit => Orderly
  BY StartsOrderly
<1>2. Orderly /\ [EditorNext]_editorVars => Orderly'
  BY StepsKeepOrder, StutterKeepsOrder
<1> QED BY <1>1, <1>2, PTL DEF EditorSpec

\* The state keeps its shape, and the table never holds more blocks than the
\* cache of model.py is meant to.
THEOREM EditorTypes == EditorSpec => []EditorTypeOK
<1>1. Orderly => EditorTypeOK
  <2> SUFFICES ASSUME Orderly PROVE EditorTypeOK
    OBVIOUS
  <2>1. ShapeInv
    BY DEF Orderly
  <2>2. store.owner \in 0 .. MaxDialogs
    <3>1. store.owner \in Nat /\ store.owner <= count.dialog /\ count.dialog <= MaxDialogs /\ count.dialog \in Nat /\ MaxDialogs \in Nat
      BY <2>1, EditorAssumption DEF ShapeInv, StoreType, Stores, JobType, UiType, Counters
    <3> QED BY <3>1
  <2>3. ASSUME NEW i \in DOMAIN queue PROVE queue[i].kind \in Kinds
    <3>1. queue[i] \in Jobs
      BY <2>1, ElementOfSeq, LenProperties DEF ShapeInv, JobType
    <3> QED BY <3>1 DEF Jobs
  <2>4. ASSUME NEW i \in DOMAIN done PROVE done[i].job.kind \in Kinds \ {"discard"}
    <3>1. done[i] \in Answers
      BY <2>1, ElementOfSeq, LenProperties DEF ShapeInv, DoneType
    <3>2. done[i].job.kind # "discard"
      BY <2>1 DEF ShapeInv, DoneType
    <3> QED BY <3>1, <3>2 DEF Answers, Jobs
  <2>5. \A i \in DOMAIN alerts : alerts[i] \in {"nothing", "pump", "refresh"}
    BY <2>1, ElementOfSeq, LenProperties DEF ShapeInv, UiType, Boxes
  <2>6. ui.saving \in {"no", "flush", "commit"} /\ Len(ui.cache) <= CacheBlocks /\ DOMAIN store.rows \subseteq 1 .. store.last
    BY <2>1 DEF ShapeInv, StoreType, UiType, Whole, Uis, SmallCache
  <2> QED BY <2>2, <2>3, <2>4, <2>5, <2>6 DEF EditorTypeOK
<1> QED BY <1>1, EditorInOrder, PTL

\* No dialog is refused the draft: the discard or the commit of the one before
\* comes first (window.py submits the begin after the last dialog has closed).
THEOREM DraftGoesOn == EditorSpec => []DraftIsFree
<1>1. Orderly => DraftIsFree
  BY DEF Orderly, HandInv, Granted, DraftIsFree
<1> QED BY <1>1, EditorInOrder, PTL
-----------------------------------------------------------------------------
(***************************************************************************)
(* What the user types: each row has the last value given to it, unless an *)
(* edit was refused, or is on its way there; and the barrier of a save is  *)
(* behind every edit.                                                      *)
(***************************************************************************)
Of(j, kind, d) == j.kind = kind /\ j.dialog = d
\* Pages, and so cells and edits, come from a draft.
KnownDraft ==
  ui.open => /\ ui.cache # <<>> => ui.draft
             /\ DOMAIN typed # {} => ui.draft
             /\ \A n \in DOMAIN queue : Of(queue[n], "page", count.dialog) => ui.draft
             /\ \A n \in DOMAIN done : done[n].job.kind = "page" => ui.draft

FlushQueued ==
  ui.open => \A n \in DOMAIN queue : Of(queue[n], "flush", count.dialog) =>
    /\ ui.saving = "flush" /\ \A m \in DOMAIN done : done[m].job.kind # "flush"
    /\ \A m \in DOMAIN queue : /\ n < m => ~Of(queue[m], "edit", count.dialog)
                               /\ m # n => ~Of(queue[m], "flush", count.dialog)
FlushDone ==
  ui.open => \A n \in DOMAIN done : done[n].job.kind = "flush" =>
    /\ ui.saving = "flush"
    /\ \A m \in DOMAIN queue : ~Of(queue[m], "edit", count.dialog) /\ ~Of(queue[m], "flush", count.dialog)
    /\ \A m \in DOMAIN done : (n < m => done[m].job.kind # "edit") /\ (m # n => done[m].job.kind # "flush")
Commits ==
  ui.saving = "commit" =>
    /\ ui.writeError = FALSE
    /\ \A m \in DOMAIN queue : ~Of(queue[m], "edit", count.dialog) /\ ~Of(queue[m], "flush", count.dialog)
    /\ \A m \in DOMAIN done : done[m].job.kind \notin {"edit", "flush"}

Edits(j, w, d) == Of(j, "edit", d) /\ j.entry.id = w
\* A failed edit is known to the dialog, or will be.
Failed == ui.writeError = TRUE \/ \E n \in DOMAIN done : done[n].job.kind = "edit" /\ done[n].error = TRUE
Pending(w) == \E n \in DOMAIN queue : /\ Edits(queue[n], w, count.dialog) /\ queue[n].entry.value = typed[w]
                                      /\ \A m \in DOMAIN queue : n < m => ~Edits(queue[m], w, count.dialog)
Written(w) == /\ \A n \in DOMAIN queue : ~Edits(queue[n], w, count.dialog)
              /\ w \in DOMAIN store.copy /\ (store.copy[w].dead = TRUE \/ store.copy[w].value = typed[w])
TypedArrive == ui.open => \A w \in DOMAIN typed : Failed \/ Pending(w) \/ Written(w)
BarrierInv == KnownDraft /\ FlushQueued /\ FlushDone /\ Commits
TypedInv == BarrierInv /\ TypedArrive

\* A queue with jobs appended.
LEMMA QueueMore ==
  ASSUME queue \in Seq(Jobs), NEW js \in Seq(Jobs), queue' = queue \o js
  PROVE  /\ \A i \in DOMAIN queue : i \in DOMAIN queue' /\ queue'[i] = queue[i] /\ i <= Len(queue)
         /\ \A i \in DOMAIN queue' : \/ i \in DOMAIN queue /\ queue'[i] = queue[i]
                                     \/ i > Len(queue) /\ \E k \in DOMAIN js : queue'[i] = js[k]
         /\ DOMAIN queue \subseteq Nat /\ DOMAIN queue' \subseteq Nat /\ Len(queue) \in Nat
<1>1. queue' \in Seq(Jobs)
      /\ (\A i \in DOMAIN queue : i \in DOMAIN queue' /\ queue'[i] = queue[i] /\ i <= Len(queue))
      /\ \A i \in DOMAIN queue' :
              \/ i \in DOMAIN queue /\ queue'[i] = queue[i]
              \/ i > Len(queue) /\ i - Len(queue) \in DOMAIN js /\ queue'[i] = js[i - Len(queue)]
  BY Grown
<1>2. DOMAIN queue \subseteq Nat /\ DOMAIN queue' \subseteq Nat /\ Len(queue) \in Nat
  BY <1>1, LenProperties
<1>3. \A i \in DOMAIN queue' : i - Len(queue) \in DOMAIN js /\ queue'[i] = js[i - Len(queue)]
        => \E k \in DOMAIN js : queue'[i] = js[k]
  OBVIOUS
<1> QED BY <1>1, <1>2, <1>3

\* The results that are left, and those that were there: s were delivered.
Shifted(s) ==
  /\ s \in {0, 1} /\ DOMAIN done \subseteq Nat /\ DOMAIN done' \subseteq Nat
  /\ \A i \in DOMAIN done' : i + s \in DOMAIN done /\ done'[i] = done[i + s]
  /\ \A n \in DOMAIN done : (n - s \in DOMAIN done' /\ done'[n - s] = done[n]) \/ (s = 1 /\ n = 1)

\* Nothing is delivered.
LEMMA NoneShifted == ASSUME done \in Seq(Answers), UNCHANGED done PROVE Shifted(0)
<1>1. DOMAIN done \subseteq Nat
  BY LenProperties
<1>2. \A i \in DOMAIN done : i + 0 = i /\ i - 0 = i
  BY <1>1
<1> QED BY <1>1, <1>2 DEF Shifted

\* The first result is delivered.
LEMMA OneShifted == ASSUME done \in Seq(Answers), done # <<>>, done' = Tail(done) PROVE Shifted(1)
<1>1. /\ done' \in Seq(Answers)
      /\ \A i \in DOMAIN done' : i + 1 \in DOMAIN done /\ done'[i] = done[i + 1]
      /\ \A i \in DOMAIN done : i = 1 \/ (i > 1 /\ i - 1 \in DOMAIN done' /\ done'[i - 1] = done[i])
  BY WithoutFirst
<1>2. DOMAIN done \subseteq Nat /\ DOMAIN done' \subseteq Nat
  BY <1>1, LenProperties
<1> QED BY <1>1, <1>2 DEF Shifted

\* A step that brings neither an edit nor a barrier.
Quietly(js) ==
  /\ Goes(js) /\ UNCHANGED typed
  /\ \A i \in DOMAIN js : js[i].kind \notin {"edit", "flush"} /\ (js[i].kind = "page" => ui'.draft)
  /\ ui.draft => ui'.draft
  /\ ui.writeError = TRUE => ui'.writeError = TRUE
  /\ ui.saving = "commit" => ui'.writeError = ui.writeError
  /\ ui'.saving = ui.saving \/ (ui.saving = "commit" /\ ui'.saving = "no")
  /\ ui'.cache # <<>> => ui.cache # <<>> \/ \E n \in DOMAIN done : done[n].job.kind = "page"
  /\ \/ UNCHANGED done
     \/ /\ done # <<>> /\ done' = Tail(done) /\ Head(done).job.kind # "flush"
        /\ Head(done).job.kind = "edit" /\ Head(done).error = TRUE => ui'.writeError = TRUE

\* It leaves the barrier where it is.
LEMMA QuietKeepsBarrier ==
  ASSUME Orderly, BarrierInv, NEW js, Quietly(js)
  PROVE  BarrierInv'
<1>1. /\ ui.open = TRUE /\ ui'.open = TRUE /\ queue \in Seq(Jobs) /\ js \in Seq(Jobs) /\ queue' = queue \o js
      /\ count'.dialog = count.dialog /\ UNCHANGED store /\ done \in Seq(Answers)
  BY DEF Quietly, Goes, Sends, Orderly, ShapeInv, JobType, DoneType
<1>2. /\ \A i \in DOMAIN queue : i \in DOMAIN queue' /\ queue'[i] = queue[i]
      /\ \A i \in DOMAIN queue' : \/ i \in DOMAIN queue /\ queue'[i] = queue[i]
                                  \/ \E k \in DOMAIN js : queue'[i] = js[k]
  BY <1>1, QueueMore
<1>3. \A i \in DOMAIN queue' : \A d : Of(queue'[i], "flush", d) \/ Of(queue'[i], "edit", d)
         => i \in DOMAIN queue /\ queue'[i] = queue[i]
  BY <1>2 DEF Quietly, Of
<1>4. PICK s : Shifted(s)
  BY <1>1, NoneShifted, OneShifted DEF Quietly
<1>5. \A n, m \in DOMAIN done' : (n < m => n + s < m + s) /\ (m # n => m + s # n + s)
  BY <1>4 DEF Shifted
<1>6. \A i \in DOMAIN done' : i + s \in DOMAIN done /\ done'[i] = done[i + s]
  BY <1>4 DEF Shifted
<1>7. KnownDraft'
  <2>1. ui'.cache # <<>> => ui'.draft
    BY <1>1 DEF Quietly, BarrierInv, KnownDraft
  <2>2. DOMAIN typed' # {} => ui'.draft
    BY <1>1 DEF Quietly, BarrierInv, KnownDraft
  <2>3. ASSUME NEW n \in DOMAIN queue', Of(queue'[n], "page", count'.dialog) PROVE ui'.draft
    BY <1>1, <1>2, <2>3 DEF Quietly, BarrierInv, KnownDraft, Of
  <2>4. ASSUME NEW n \in DOMAIN done', done'[n].job.kind = "page" PROVE ui'.draft
    BY <1>1, <1>6, <2>4 DEF Quietly, BarrierInv, KnownDraft
  <2> QED BY <2>1, <2>2, <2>3, <2>4 DEF KnownDraft
<1>8. FlushQueued'
  <2> SUFFICES ASSUME NEW n \in DOMAIN queue', Of(queue'[n], "flush", count'.dialog)
               PROVE  /\ ui'.saving = "flush" /\ \A m \in DOMAIN done' : done'[m].job.kind # "flush"
                      /\ \A m \in DOMAIN queue' : /\ n < m => ~Of(queue'[m], "edit", count'.dialog)
                                                  /\ m # n => ~Of(queue'[m], "flush", count'.dialog)
    BY DEF FlushQueued
  <2>1. n \in DOMAIN queue /\ Of(queue[n], "flush", count.dialog)
    BY <1>1, <1>3
  <2>2. /\ ui.saving = "flush" /\ \A m \in DOMAIN done : done[m].job.kind # "flush"
        /\ \A m \in DOMAIN queue : /\ n < m => ~Of(queue[m], "edit", count.dialog)
                                   /\ m # n => ~Of(queue[m], "flush", count.dialog)
    BY <1>1, <2>1 DEF BarrierInv, FlushQueued
  <2>3. ui'.saving = "flush"
    BY <2>2 DEF Quietly
  <2>4. \A m \in DOMAIN done' : done'[m].job.kind # "flush"
    BY <1>6, <2>2
  <2>5. \A m \in DOMAIN queue' : /\ n < m => ~Of(queue'[m], "edit", count'.dialog)
                                 /\ m # n => ~Of(queue'[m], "flush", count'.dialog)
    BY <1>1, <1>3, <2>2
  <2> QED BY <2>3, <2>4, <2>5
<1>9. FlushDone'
  <2> SUFFICES ASSUME NEW n \in DOMAIN done', done'[n].job.kind = "flush"
               PROVE  /\ ui'.saving = "flush"
                      /\ \A m \in DOMAIN queue' : ~Of(queue'[m], "edit", count'.dialog) /\ ~Of(queue'[m], "flush", count'.dialog)
                      /\ \A m \in DOMAIN done' : (n < m => done'[m].job.kind # "edit") /\ (m # n => done'[m].job.kind # "flush")
    BY DEF FlushDone
  <2>1. n + s \in DOMAIN done /\ done[n + s].job.kind = "flush"
    BY <1>6
  <2>2. /\ ui.saving = "flush"
        /\ \A m \in DOMAIN queue : ~Of(queue[m], "edit", count.dialog) /\ ~Of(queue[m], "flush", count.dialog)
        /\ \A m \in DOMAIN done : (n + s < m => done[m].job.kind # "edit") /\ (m # n + s => done[m].job.kind # "flush")
    BY <1>1, <2>1 DEF BarrierInv, FlushDone
  <2>3. ui'.saving = "flush"
    BY <2>2 DEF Quietly
  <2>4. \A m \in DOMAIN queue' : ~Of(queue'[m], "edit", count'.dialog) /\ ~Of(queue'[m], "flush", count'.dialog)
    BY <1>1, <1>3, <2>2
  <2>5. \A m \in DOMAIN done' : (n < m => done'[m].job.kind # "edit") /\ (m # n => done'[m].job.kind # "flush")
    BY <1>5, <1>6, <2>2
  <2> QED BY <2>3, <2>4, <2>5
<1>10. Commits'
  <2> SUFFICES ASSUME ui'.saving = "commit"
               PROVE  /\ ui'.writeError = FALSE
                      /\ \A m \in DOMAIN queue' : ~Of(queue'[m], "edit", count'.dialog) /\ ~Of(queue'[m], "flush", count'.dialog)
                      /\ \A m \in DOMAIN done' : done'[m].job.kind \notin {"edit", "flush"}
    BY DEF Commits
  <2>1. ui.saving = "commit" /\ ui'.writeError = ui.writeError
    BY DEF Quietly
  <2>2. /\ ui.writeError = FALSE
        /\ \A m \in DOMAIN queue : ~Of(queue[m], "edit", count.dialog) /\ ~Of(queue[m], "flush", count.dialog)
        /\ \A m \in DOMAIN done : done[m].job.kind \notin {"edit", "flush"}
    BY <2>1 DEF BarrierInv, Commits
  <2> QED BY <1>1, <1>3, <1>6, <2>1, <2>2
<1> QED BY <1>7, <1>8, <1>9, <1>10 DEF BarrierInv

\* And the values on their way.
LEMMA QuietKeepsTyped ==
  ASSUME Orderly, TypedArrive, NEW js, Quietly(js)
  PROVE  TypedArrive'
<1>1. /\ ui.open = TRUE /\ ui'.open = TRUE /\ queue \in Seq(Jobs) /\ js \in Seq(Jobs) /\ queue' = queue \o js
      /\ count'.dialog = count.dialog /\ UNCHANGED store /\ done \in Seq(Answers) /\ UNCHANGED typed
  BY DEF Quietly, Goes, Sends, Orderly, ShapeInv, JobType, DoneType
<1>2. /\ \A i \in DOMAIN queue : i \in DOMAIN queue' /\ queue'[i] = queue[i]
      /\ \A i \in DOMAIN queue' : \/ i \in DOMAIN queue /\ queue'[i] = queue[i]
                                  \/ \E k \in DOMAIN js : queue'[i] = js[k]
  BY <1>1, QueueMore
<1>3. \A i \in DOMAIN queue' : \A w, d : Edits(queue'[i], w, d) => i \in DOMAIN queue /\ queue'[i] = queue[i]
  BY <1>2 DEF Quietly, Of, Edits
<1>4. Failed => Failed'
  <2>1. CASE ui.writeError = TRUE
    BY <2>1 DEF Quietly, Failed
  <2>2. ASSUME NEW n \in DOMAIN done, done[n].job.kind = "edit", done[n].error = TRUE PROVE Failed'
    <3>1. CASE UNCHANGED done
      BY <2>2, <3>1 DEF Failed
    <3>2. CASE /\ done # <<>> /\ done' = Tail(done) /\ Head(done).job.kind # "flush"
               /\ Head(done).job.kind = "edit" /\ Head(done).error = TRUE => ui'.writeError = TRUE
      <4>1. /\ \A i \in DOMAIN done : i = 1 \/ (i > 1 /\ i - 1 \in DOMAIN done' /\ done'[i - 1] = done[i])
            /\ done[1] = Head(done)
        BY <1>1, <3>2, WithoutFirst
      <4>2. CASE n = 1
        BY <2>2, <3>2, <4>1, <4>2 DEF Failed
      <4>3. CASE n # 1
        BY <2>2, <4>1, <4>3 DEF Failed
      <4> QED BY <4>2, <4>3
    <3> QED BY <3>1, <3>2 DEF Quietly
  <2> QED BY <2>1, <2>2 DEF Failed
<1> SUFFICES ASSUME NEW w \in DOMAIN typed', ~Failed'
             PROVE  \/ \E n \in DOMAIN queue' : /\ Edits(queue'[n], w, count'.dialog) /\ queue'[n].entry.value = typed'[w]
                                                /\ \A m \in DOMAIN queue' : n < m => ~Edits(queue'[m], w, count'.dialog)
                    \/ /\ \A n \in DOMAIN queue' : ~Edits(queue'[n], w, count'.dialog)
                       /\ w \in DOMAIN store'.copy /\ (store'.copy[w].dead = TRUE \/ store'.copy[w].value = typed'[w])
  BY DEF TypedArrive, Pending, Written
<1>5. Pending(w) \/ Written(w)
  BY <1>1, <1>4 DEF TypedArrive
<1>6. CASE Pending(w)
  BY <1>1, <1>2, <1>3, <1>6 DEF Pending
<1>7. CASE Written(w)
  BY <1>1, <1>2, <1>3, <1>7 DEF Written
<1> QED BY <1>5, <1>6, <1>7

\* A cell is edited: no barrier is on its way, and its value is the last one.
LEMMA EditKeepsTyped ==
  ASSUME Orderly, TypedInv, NEW b \in Int, EditCell(b)
  PROVE  TypedInv'
<1>1. PICK old \in Entries, e \in Entries, j \in Jobs :
        /\ Goes(<<j>>) /\ j.kind = "edit" /\ j.entry = e /\ j.dialog = count.dialog
        /\ CellEdited(b, old, e) /\ Alike(ui, ui') /\ UNCHANGED <<done, alerts>> /\ ui.saving = "no"
  BY EditCellIs DEF Orderly
<1>2. /\ ui.open = TRUE /\ ui'.open = TRUE /\ queue \in Seq(Jobs) /\ queue' = Append(queue, j)
      /\ count'.dialog = count.dialog /\ UNCHANGED store
  <2>1. queue \o <<j>> = Append(queue, j)
    BY AppendIsConcat DEF Orderly, ShapeInv, JobType
  <2> QED BY <1>1, <2>1 DEF Goes, Sends, Orderly, ShapeInv, JobType
<1>3. /\ \A i \in DOMAIN queue : i \in DOMAIN queue' /\ queue'[i] = queue[i] /\ i < Len(queue) + 1
      /\ \A i \in DOMAIN queue' : (i \in DOMAIN queue /\ queue'[i] = queue[i]) \/ (i = Len(queue) + 1 /\ queue'[i] = j)
      /\ Len(queue) + 1 \in DOMAIN queue' /\ queue'[Len(queue) + 1] = j
  BY <1>2, QueuedOne
<1>4. ui.cache # <<>> /\ ui.draft /\ ui'.draft = ui.draft /\ ui'.saving = "no" /\ ui'.writeError = ui.writeError
  <2>1. ui.cache # <<>>
    BY <1>1 DEF CellEdited
  <2> QED BY <1>1, <1>2, <2>1 DEF TypedInv, BarrierInv, KnownDraft, Alike
<1>5. KnownDraft'
  BY <1>4 DEF KnownDraft
<1>6. /\ \A n \in DOMAIN queue' : ~Of(queue'[n], "flush", count'.dialog)
      /\ \A n \in DOMAIN done' : done'[n].job.kind # "flush"
  <2>1. /\ \A n \in DOMAIN queue : ~Of(queue[n], "flush", count.dialog)
        /\ \A n \in DOMAIN done : done[n].job.kind # "flush"
    BY <1>1, <1>2 DEF TypedInv, BarrierInv, FlushQueued, FlushDone
  <2> QED BY <1>1, <1>2, <1>3, <2>1 DEF Of
<1>7. FlushQueued' /\ FlushDone' /\ Commits'
  BY <1>4, <1>6 DEF FlushQueued, FlushDone, Commits
<1>8. TypedArrive'
  <2> SUFFICES ASSUME NEW w \in DOMAIN typed', ~Failed'
               PROVE  \/ \E n \in DOMAIN queue' : /\ Edits(queue'[n], w, count'.dialog) /\ queue'[n].entry.value = typed'[w]
                                                  /\ \A m \in DOMAIN queue' : n < m => ~Edits(queue'[m], w, count'.dialog)
                      \/ /\ \A n \in DOMAIN queue' : ~Edits(queue'[n], w, count'.dialog)
                         /\ w \in DOMAIN store'.copy /\ (store'.copy[w].dead = TRUE \/ store'.copy[w].value = typed'[w])
    BY DEF TypedArrive, Pending, Written
  <2>1. /\ DOMAIN typed' = DOMAIN typed \cup {e.id} /\ typed'[e.id] = e.value
        /\ \A v \in DOMAIN typed : v # e.id => typed'[v] = typed[v]
    BY <1>1 DEF CellEdited
  <2>2. CASE w = e.id
    <3> DEFINE n == Len(queue) + 1
    <3>1. Edits(queue'[n], w, count'.dialog) /\ queue'[n].entry.value = typed'[w]
      BY <1>1, <1>2, <1>3, <2>1, <2>2 DEF Edits, Of
    <3>2. \A m \in DOMAIN queue' : ~(n < m)
      <4>1. \A m \in DOMAIN queue : m \in Nat
        BY <1>2, LenProperties
      <4>2. Len(queue) \in Nat
        BY <1>2, LenProperties
      <4> QED BY <1>3, <4>1, <4>2
    <3> QED BY <1>3, <3>1, <3>2
  <2>3. CASE w # e.id
    <3>1. w \in DOMAIN typed /\ typed'[w] = typed[w] /\ ~Edits(j, w, count.dialog)
      BY <1>1, <2>1, <2>3 DEF Edits
    <3>2. Failed => Failed'
      BY <1>1, <1>4 DEF Failed
    <3>3. Pending(w) \/ Written(w)
      BY <1>2, <3>1, <3>2 DEF TypedInv, TypedArrive
    <3>4. CASE Pending(w)
      BY <1>2, <1>3, <3>1, <3>4 DEF Pending
    <3>5. CASE Written(w)
      BY <1>2, <1>3, <3>1, <3>5 DEF Written
    <3> QED BY <3>3, <3>4, <3>5
  <2> QED BY <2>2, <2>3
<1> QED BY <1>5, <1>7, <1>8 DEF TypedInv, BarrierInv

\* A save: no other barrier is on its way.
LEMMA SaveKeepsTyped ==
  ASSUME Orderly, TypedInv, Save
  PROVE  TypedInv'
<1>1. PICK j \in Jobs : /\ Goes(<<j>>) /\ j.kind = "flush" /\ j.dialog = count.dialog
                        /\ SameTable(ui, ui') /\ ui.saving = "no" /\ ui'.saving = "flush"
                        /\ ui'.draft = ui.draft /\ ui'.writeError = ui.writeError
                        /\ UNCHANGED <<done, alerts, typed>>
  BY SaveIs DEF Orderly
<1>2. /\ ui.open = TRUE /\ ui'.open = TRUE /\ queue \in Seq(Jobs) /\ queue' = Append(queue, j)
      /\ count'.dialog = count.dialog /\ UNCHANGED store /\ ui'.cache = ui.cache
  <2>1. queue \o <<j>> = Append(queue, j)
    BY AppendIsConcat DEF Orderly, ShapeInv, JobType
  <2> QED BY <1>1, <2>1 DEF Goes, Sends, Orderly, ShapeInv, JobType, SameTable
<1>3. /\ \A i \in DOMAIN queue : i \in DOMAIN queue' /\ queue'[i] = queue[i] /\ i < Len(queue) + 1
      /\ \A i \in DOMAIN queue' : (i \in DOMAIN queue /\ queue'[i] = queue[i]) \/ (i = Len(queue) + 1 /\ queue'[i] = j)
  BY <1>2, QueuedOne
<1>4. KnownDraft'
  <2>1. \A n \in DOMAIN queue' : Of(queue'[n], "page", count'.dialog) => n \in DOMAIN queue /\ Of(queue[n], "page", count.dialog)
    BY <1>1, <1>2, <1>3 DEF Of
  <2> QED BY <1>1, <1>2, <2>1 DEF TypedInv, BarrierInv, KnownDraft
<1>5. /\ \A n \in DOMAIN queue : ~Of(queue[n], "flush", count.dialog)
      /\ \A n \in DOMAIN done : done[n].job.kind # "flush"
  BY <1>1, <1>2 DEF TypedInv, BarrierInv, FlushQueued, FlushDone
<1>6. FlushDone' /\ Commits'
  BY <1>1, <1>5 DEF FlushDone, Commits
<1>7. FlushQueued'
  <2> SUFFICES ASSUME NEW n \in DOMAIN queue', Of(queue'[n], "flush", count'.dialog)
               PROVE  /\ ui'.saving = "flush" /\ \A m \in DOMAIN done' : done'[m].job.kind # "flush"
                      /\ \A m \in DOMAIN queue' : /\ n < m => ~Of(queue'[m], "edit", count'.dialog)
                                                  /\ m # n => ~Of(queue'[m], "flush", count'.dialog)
    BY DEF FlushQueued
  <2>1. n = Len(queue) + 1
    BY <1>2, <1>3, <1>5
  <2>2. \A m \in DOMAIN queue' : ~(n < m)
    <3>1. \A m \in DOMAIN queue : m \in Nat
      BY <1>2, LenProperties
    <3>2. Len(queue) \in Nat
      BY <1>2, LenProperties
    <3> QED BY <1>3, <2>1, <3>1, <3>2
  <2>3. \A m \in DOMAIN queue' : m # n => ~Of(queue'[m], "flush", count'.dialog)
    BY <1>2, <1>3, <1>5, <2>1
  <2> QED BY <1>1, <1>5, <2>2, <2>3
<1>8. TypedArrive'
  <2> SUFFICES ASSUME NEW w \in DOMAIN typed', ~Failed'
               PROVE  \/ \E n \in DOMAIN queue' : /\ Edits(queue'[n], w, count'.dialog) /\ queue'[n].entry.value = typed'[w]
                                                  /\ \A m \in DOMAIN queue' : n < m => ~Edits(queue'[m], w, count'.dialog)
                      \/ /\ \A n \in DOMAIN queue' : ~Edits(queue'[n], w, count'.dialog)
                         /\ w \in DOMAIN store'.copy /\ (store'.copy[w].dead = TRUE \/ store'.copy[w].value = typed'[w])
    BY DEF TypedArrive, Pending, Written
  <2>1. ~Edits(j, w, count.dialog)
    BY <1>1 DEF Edits, Of
  <2>2. Failed => Failed'
    BY <1>1 DEF Failed
  <2>3. Pending(w) \/ Written(w)
    BY <1>1, <1>2, <2>2 DEF TypedInv, TypedArrive
  <2>4. CASE Pending(w)
    BY <1>1, <1>2, <1>3, <2>1, <2>4 DEF Pending
  <2>5. CASE Written(w)
    BY <1>1, <1>2, <1>3, <2>1, <2>5 DEF Written
  <2> QED BY <2>3, <2>4, <2>5
<1> QED BY <1>4, <1>6, <1>7, <1>8 DEF TypedInv, BarrierInv

\* The barrier is through: every edit of the dialog has been answered.
LEMMA FlushKeepsTyped ==
  ASSUME Orderly, TypedInv, done # <<>>, done' = Tail(done), Head(done).job.kind = "flush", FlushReceived(Head(done)),
         UNCHANGED <<store, count, typed>>
  PROVE  TypedInv'
<1>1. /\ Goes(<<>>) /\ SameTable(ui, ui') /\ UNCHANGED queue
      /\ ui'.draft = ui.draft /\ ui'.writeError = ui.writeError
      /\ ui'.saving = "no" \/ (ui'.saving = "commit" /\ ui.writeError = FALSE)
  BY FlushReceivedIs DEF Orderly
<1>2. /\ ui.open = TRUE /\ ui'.open = TRUE /\ ui'.cache = ui.cache /\ done \in Seq(Answers)
  BY <1>1 DEF Goes, SameTable, Orderly, ShapeInv, DoneType
<1>3. /\ \A i \in DOMAIN done' : i + 1 \in DOMAIN done /\ done'[i] = done[i + 1]
      /\ \A i \in DOMAIN done : i = 1 \/ (i > 1 /\ i - 1 \in DOMAIN done' /\ done'[i - 1] = done[i])
      /\ 1 \in DOMAIN done /\ done[1] = Head(done) /\ done' \in Seq(Answers)
  BY <1>2, WithoutFirst
<1>4. /\ \A m \in DOMAIN queue : ~Of(queue[m], "edit", count.dialog) /\ ~Of(queue[m], "flush", count.dialog)
      /\ \A m \in DOMAIN done : (1 < m => done[m].job.kind # "edit") /\ (m # 1 => done[m].job.kind # "flush")
  BY <1>2, <1>3 DEF TypedInv, BarrierInv, FlushDone
<1>5. \A m \in DOMAIN done' : done'[m].job.kind \notin {"edit", "flush"}
  <2>1. \A m \in DOMAIN done' : m \in Nat /\ m >= 1
    BY <1>3, LenProperties
  <2>2. \A m \in DOMAIN done' : 1 < m + 1 /\ m + 1 # 1
    BY <2>1
  <2> QED BY <1>3, <1>4, <2>2
<1>6. KnownDraft'
  BY <1>1, <1>2, <1>3 DEF TypedInv, BarrierInv, KnownDraft
<1>7. FlushQueued' /\ FlushDone' /\ Commits'
  BY <1>1, <1>4, <1>5 DEF FlushQueued, FlushDone, Commits
<1>8. TypedArrive'
  <2>1. Failed => Failed'
    <3>1. ASSUME NEW n \in DOMAIN done, done[n].job.kind = "edit" PROVE n - 1 \in DOMAIN done' /\ done'[n - 1] = done[n]
      BY <1>3, <3>1
    <3> QED BY <1>1, <3>1 DEF Failed
  <2> QED BY <1>1, <1>2, <2>1 DEF TypedInv, TypedArrive, Pending, Written
<1> QED BY <1>6, <1>7, <1>8 DEF TypedInv, BarrierInv

\* The dialog is another one, or none.
LEMMA OtherDialogTyped ==
  ASSUME ui'.saving # "commit", ui'.open => ui'.cache = <<>> /\ DOMAIN typed' = {} /\ DOMAIN done' = {},
         ui'.open => \A n \in DOMAIN queue' : queue'[n].dialog = count'.dialog => queue'[n].kind = "begin"
  PROVE  TypedInv'
<1>1. KnownDraft'
  BY DEF KnownDraft, Of
<1>2. FlushQueued' /\ FlushDone' /\ Commits'
  BY DEF FlushQueued, FlushDone, Commits, Of
<1>3. TypedArrive'
  BY DEF TypedArrive
<1> QED BY <1>1, <1>2, <1>3 DEF TypedInv, BarrierInv

\* Dialogs open and close.
LEMMA DialogsKeepTyped ==
  ASSUME Orderly, OpenDialog \/ Committed \/ Cancel
  PROVE  TypedInv'
<1>1. CASE Committed \/ Cancel
  <2>1. ui' = Fresh
    BY <1>1 DEF Committed, Cancel
  <2>2. ui'.open = FALSE /\ ui'.saving = "no"
    BY <2>1, FreshIs
  <2> QED BY <2>2, OtherDialogTyped
<1>2. CASE OpenDialog
  <2>1. /\ ui.open = FALSE /\ ui'.saving = "no" /\ ui'.cache = <<>> /\ count'.dialog = count.dialog + 1
        /\ typed' = NoMap /\ UNCHANGED done
    BY <1>2, OpenDialogIs DEF Orderly
  <2>2. PICK j \in Jobs : j.kind = "begin" /\ queue' = Append(queue, j)
    BY <1>2, OpenDialogIs DEF Orderly
  <2>3. DOMAIN typed' = {}
    BY <2>1 DEF NoMap
  <2>4. done' = <<>>
    BY <2>1 DEF Orderly, ShapeInv, UiType
  <2>5. ASSUME NEW n \in DOMAIN queue', queue'[n].dialog = count'.dialog PROVE queue'[n].kind = "begin"
    <3>1. (n \in DOMAIN queue /\ queue'[n] = queue[n]) \/ queue'[n] = j
      BY <2>2, QueuedOne DEF Orderly, ShapeInv, JobType
    <3>2. CASE n \in DOMAIN queue /\ queue'[n] = queue[n]
      <4>1. queue[n] \in Jobs
        BY <3>2, ElementOfSeq, LenProperties DEF Orderly, ShapeInv, JobType
      <4>2. queue[n].dialog \in Nat
        BY <4>1 DEF Jobs, Dialogs
      <4>3. queue[n].dialog <= count.dialog /\ count.dialog \in Nat
        BY <3>2 DEF Orderly, ShapeInv, JobType, UiType, Counters
      <4> QED BY <2>1, <2>5, <3>2, <4>2, <4>3
    <3> QED BY <2>2, <3>1, <3>2
  <2> QED BY <2>1, <2>3, <2>4, <2>5, OtherDialogTyped
<1> QED BY <1>1, <1>2

\* The answers after a job: those that were there, and perhaps its own.
LEMMA AnswersMore ==
  ASSUME Orderly, Worked(Head(queue))
  PROVE  /\ \A i \in DOMAIN done : i \in DOMAIN done' /\ done'[i] = done[i]
         /\ \A i \in DOMAIN done' :
              \/ i \in DOMAIN done /\ done'[i] = done[i] /\ i < Len(done) + 1
              \/ i = Len(done) + 1 /\ done'[i].job = Head(queue) /\ Head(queue).dialog = count.dialog
         /\ DOMAIN done' \subseteq Nat /\ Len(done) \in Nat
<1> DEFINE j == Head(queue)
<1>1. done \in Seq(Answers)
  BY DEF Orderly, ShapeInv, DoneType
<1>2. DOMAIN done \subseteq Nat /\ Len(done) \in Nat /\ \A i \in DOMAIN done : i < Len(done) + 1
  BY <1>1, LenProperties
<1>3. CASE UNCHANGED done
  BY <1>2, <1>3
<1>4. CASE \E r : Answered(j, r)
  <2>1. PICK r \in Answers : Answered(j, r)
    BY <1>4 DEF Answered
  <2>2. CASE ui.open /\ j.dialog = count.dialog
    <3>1. done' = Append(done, r) /\ r.job = j
      BY <2>1, <2>2 DEF Answered
    <3>2. /\ done' \in Seq(Answers)
          /\ \A i \in DOMAIN done : i \in DOMAIN done' /\ done'[i] = done[i]
          /\ \A i \in DOMAIN done' : (i \in DOMAIN done /\ done'[i] = done[i]) \/ (i = Len(done) + 1 /\ done'[i] = r)
      BY <1>1, <3>1, GrownByOne
    <3>3. DOMAIN done' \subseteq Nat
      BY <3>2, LenProperties
    <3> QED BY <1>2, <2>2, <3>1, <3>2, <3>3
  <2>3. CASE ~(ui.open /\ j.dialog = count.dialog)
    BY <1>2, <2>1, <2>3 DEF Answered
  <2> QED BY <2>2, <2>3
<1> QED BY <1>3, <1>4 DEF Worked

\* The worker keeps the barrier behind the edits.
LEMMA WorkKeepsBarrier ==
  ASSUME Orderly, BarrierInv, Worked(Head(queue))
  PROVE  BarrierInv'
<1> DEFINE j == Head(queue)
           l == Len(done) + 1
<1>1. /\ queue \in Seq(Jobs) /\ queue # <<>> /\ queue' = Tail(queue) /\ UNCHANGED <<ui, count, typed>>
      /\ 1 \in DOMAIN queue /\ queue[1] = j
  BY WithoutFirst DEF Orderly, ShapeInv, JobType, Worked
<1>2. /\ \A i \in DOMAIN queue' : i + 1 \in DOMAIN queue /\ queue'[i] = queue[i + 1] /\ i \in Nat /\ i + 1 > 1 /\ i + 1 # 1
      /\ \A i, n \in DOMAIN queue' : (n < i => n + 1 < i + 1) /\ (n # i => n + 1 # i + 1)
  <2>1. \A i \in DOMAIN queue' : i + 1 \in DOMAIN queue /\ queue'[i] = queue[i + 1] /\ i \in Nat /\ i + 1 > 1
    BY <1>1, QueueRest
  <2>2. \A i, n \in DOMAIN queue' : (n < i => n + 1 < i + 1) /\ (n # i => n + 1 # i + 1)
    BY <2>1
  <2>3. \A i \in DOMAIN queue' : i + 1 # 1
    BY <2>1
  <2> QED BY <2>1, <2>2, <2>3
<1>3. /\ \A i \in DOMAIN done' : \/ i \in DOMAIN done /\ done'[i] = done[i] /\ i < l
                                 \/ i = l /\ done'[i].job = j /\ j.dialog = count.dialog
      /\ DOMAIN done' \subseteq Nat /\ l \in Nat
  BY AnswersMore
<1> HIDE DEF l
<1>4. KnownDraft'
  <2>1. ASSUME ui.open, NEW n \in DOMAIN queue', Of(queue'[n], "page", count.dialog) PROVE ui.draft
    BY <1>2, <2>1 DEF BarrierInv, KnownDraft
  <2>2. ASSUME ui.open, NEW n \in DOMAIN done', done'[n].job.kind = "page" PROVE ui.draft
    BY <1>1, <1>3, <2>2 DEF BarrierInv, KnownDraft, Of
  <2> QED BY <1>1, <2>1, <2>2 DEF BarrierInv, KnownDraft
<1>5. FlushQueued'
  <2> SUFFICES ASSUME ui'.open, NEW n \in DOMAIN queue', Of(queue'[n], "flush", count'.dialog)
               PROVE  /\ ui'.saving = "flush" /\ \A m \in DOMAIN done' : done'[m].job.kind # "flush"
                      /\ \A m \in DOMAIN queue' : /\ n < m => ~Of(queue'[m], "edit", count'.dialog)
                                                  /\ m # n => ~Of(queue'[m], "flush", count'.dialog)
    BY DEF FlushQueued
  <2>1. n + 1 \in DOMAIN queue /\ Of(queue[n + 1], "flush", count.dialog) /\ n + 1 # 1
    BY <1>1, <1>2
  <2>2. /\ ui.saving = "flush" /\ \A m \in DOMAIN done : done[m].job.kind # "flush"
        /\ \A m \in DOMAIN queue : /\ n + 1 < m => ~Of(queue[m], "edit", count.dialog)
                                   /\ m # n + 1 => ~Of(queue[m], "flush", count.dialog)
    BY <1>1, <2>1 DEF BarrierInv, FlushQueued
  <2>3. ~Of(j, "flush", count.dialog)
    BY <1>1, <2>1, <2>2
  <2>4. \A m \in DOMAIN done' : done'[m].job.kind # "flush"
    BY <1>3, <2>2, <2>3 DEF Of
  <2>5. \A m \in DOMAIN queue' : /\ n < m => ~Of(queue'[m], "edit", count'.dialog)
                                 /\ m # n => ~Of(queue'[m], "flush", count'.dialog)
    BY <1>1, <1>2, <2>2
  <2> QED BY <1>1, <2>2, <2>4, <2>5
<1>6. FlushDone'
  <2> SUFFICES ASSUME ui'.open, NEW n \in DOMAIN done', done'[n].job.kind = "flush"
               PROVE  /\ ui'.saving = "flush"
                      /\ \A m \in DOMAIN queue' : ~Of(queue'[m], "edit", count'.dialog) /\ ~Of(queue'[m], "flush", count'.dialog)
                      /\ \A m \in DOMAIN done' : (n < m => done'[m].job.kind # "edit") /\ (m # n => done'[m].job.kind # "flush")
    BY DEF FlushDone
  <2>1. CASE n \in DOMAIN done /\ done'[n] = done[n]
    <3>1. /\ ui.saving = "flush"
          /\ \A m \in DOMAIN queue : ~Of(queue[m], "edit", count.dialog) /\ ~Of(queue[m], "flush", count.dialog)
          /\ \A m \in DOMAIN done : (n < m => done[m].job.kind # "edit") /\ (m # n => done[m].job.kind # "flush")
      BY <1>1, <2>1 DEF BarrierInv, FlushDone
    <3>2. j.dialog = count.dialog => j.kind \notin {"edit", "flush"}
      BY <1>1, <3>1 DEF Of
    <3>3. \A m \in DOMAIN done' : (n < m => done'[m].job.kind # "edit") /\ (m # n => done'[m].job.kind # "flush")
      BY <1>3, <3>1, <3>2
    <3> QED BY <1>1, <1>2, <3>1, <3>3
  <2>2. CASE n = l /\ done'[n].job = j /\ j.dialog = count.dialog
    <3>1. Of(queue[1], "flush", count.dialog)
      BY <1>1, <2>2 DEF Of
    <3>2. /\ ui.saving = "flush" /\ \A m \in DOMAIN done : done[m].job.kind # "flush"
          /\ \A m \in DOMAIN queue : /\ 1 < m => ~Of(queue[m], "edit", count.dialog)
                                     /\ m # 1 => ~Of(queue[m], "flush", count.dialog)
      BY <1>1, <3>1 DEF BarrierInv, FlushQueued
    <3>3. \A m \in DOMAIN queue' : ~Of(queue'[m], "edit", count'.dialog) /\ ~Of(queue'[m], "flush", count'.dialog)
      BY <1>1, <1>2, <3>2
    <3>4. \A m \in DOMAIN done' : ~(l < m)
      BY <1>3
    <3>5. \A m \in DOMAIN done' : m # n => done'[m].job.kind # "flush"
      BY <1>3, <2>2, <3>2
    <3> QED BY <1>1, <2>2, <3>2, <3>3, <3>4, <3>5
  <2> QED BY <1>3, <2>1, <2>2
<1>7. Commits'
  <2> SUFFICES ASSUME ui'.saving = "commit"
               PROVE  /\ ui'.writeError = FALSE
                      /\ \A m \in DOMAIN queue' : ~Of(queue'[m], "edit", count'.dialog) /\ ~Of(queue'[m], "flush", count'.dialog)
                      /\ \A m \in DOMAIN done' : done'[m].job.kind \notin {"edit", "flush"}
    BY DEF Commits
  <2>1. /\ ui.writeError = FALSE
        /\ \A m \in DOMAIN queue : ~Of(queue[m], "edit", count.dialog) /\ ~Of(queue[m], "flush", count.dialog)
        /\ \A m \in DOMAIN done : done[m].job.kind \notin {"edit", "flush"}
    BY <1>1 DEF BarrierInv, Commits
  <2>2. j.dialog = count.dialog => j.kind \notin {"edit", "flush"}
    BY <1>1, <2>1 DEF Of
  <2> QED BY <1>1, <1>2, <1>3, <2>1, <2>2
<1> QED BY <1>4, <1>5, <1>6, <1>7 DEF BarrierInv

\* The copies that a row of the draft may have after a job.
Spared == /\ DOMAIN store.copy \subseteq DOMAIN store'.copy
          /\ \A w \in DOMAIN store.copy : store'.copy[w] = store.copy[w] \/ store'.copy[w].dead = TRUE

\* What a job does to the draft of the open dialog: an edit of it is written,
\* or refused and answered so; no other job changes a value.
LEMMA WorkOnDraft ==
  ASSUME Orderly, Work, ui.open, ui.draft
  PROVE  \/ /\ Of(Head(queue), "edit", count.dialog)
            /\ \/ EditOf(store, store', Head(queue).entry, FALSE)
               \/ UNCHANGED store /\ \E n \in DOMAIN done' : done'[n].job.kind = "edit" /\ done'[n].error = TRUE
         \/ ~Of(Head(queue), "edit", count.dialog) /\ Spared
<1> DEFINE j == Head(queue)
<1>1. ShapeInv /\ HandInv /\ Worked(j) /\ j \in Jobs
  BY WorkIs DEF Orderly, Worked
<1>2. store.owner = count.dialog /\ store.owner # Nobody
  <2>1. store.owner = count.dialog
    BY <1>1 DEF HandInv, Granted, Known
  <2> QED BY <1>1, <2>1, OpenIs DEF Dialogs, Nobody
<1>3. UNCHANGED store => Spared
  BY DEF Spared
<1>4. CASE j.kind = "begin" /\ DoBegin(j)
  <2>1. UNCHANGED store
    BY <1>1, <1>2, <1>4, DoBeginIs
  <2> QED BY <1>3, <1>4, <2>1 DEF Of
<1>5. CASE (j.kind = "groups" /\ DoGroups(j)) \/ (j.kind = "page" /\ DoPage(j)) \/ (j.kind = "flush" /\ DoFlush(j))
  BY <1>3, <1>5 DEF DoGroups, DoPage, DoFlush, Of
<1>6. CASE j.kind = "discard" /\ DoDiscard(j)
  <2>1. 1 \in DOMAIN queue /\ queue[1] = j
    BY <1>1, WithoutFirst DEF ShapeInv, JobType, Worked
  <2>2. j.dialog # count.dialog
    BY <1>1, <1>6, <2>1 DEF HandInv, KeptOpen, Discards
  <2>3. UNCHANGED store
    BY <1>1, <1>2, <1>6, <2>2, DoDiscardIs
  <2> QED BY <1>3, <1>6, <2>3 DEF Of
<1>7. CASE j.kind = "mutate" /\ DoMutate(j)
  <2>1. j.act \in AllActions
    BY <1>1, <1>7, WithoutFirst DEF ShapeInv, JobType, Worked
  <2>2. Spared
    BY <1>1, <1>7, <2>1, DoMutateIs DEF Spared
  <2> QED BY <1>7, <2>2 DEF Of
<1>8. CASE j.kind = "edit" /\ DoEdit(j)
  <2>1. PICK r : /\ Answered(j, r)
                 /\ \/ r.error = TRUE /\ UNCHANGED store
                    \/ r.error = FALSE /\ Owned(j) /\ EditOf(store, store', j.entry, FALSE)
    BY <1>1, <1>8, DoEditIs
  <2>2. CASE j.dialog # count.dialog
    <3>1. UNCHANGED store
      BY <1>2, <2>1, <2>2 DEF Owned
    <3> QED BY <1>3, <2>2, <3>1 DEF Of
  <2>3. CASE j.dialog = count.dialog
    <3>1. done \in Seq(Answers) /\ r \in Answers /\ r.job = j /\ done' = Append(done, r)
      BY <1>1, <2>1, <2>3 DEF Answered, ShapeInv, DoneType
    <3>2. Len(done) + 1 \in DOMAIN done' /\ done'[Len(done) + 1] = r
      BY <3>1, GrownByOne
    <3> QED BY <1>8, <2>1, <2>3, <3>1, <3>2 DEF Of
  <2> QED BY <2>2, <2>3
<1> QED BY <1>4, <1>5, <1>6, <1>7, <1>8 DEF Work

\* The worker takes each value a step on its way, or says that it cannot.
LEMMA WorkKeepsTyped ==
  ASSUME Orderly, TypedInv, Work
  PROVE  TypedInv'
<1> DEFINE j == Head(queue)
<1>1. Worked(j) /\ UNCHANGED <<ui, count, typed>>
  BY WorkIs DEF Orderly, Worked
<1>2. BarrierInv'
  BY <1>1, WorkKeepsBarrier DEF TypedInv
<1>3. /\ \A i \in DOMAIN queue' : i + 1 \in DOMAIN queue /\ queue'[i] = queue[i + 1] /\ i \in Nat
      /\ \A i \in DOMAIN queue : i = 1 \/ (i > 1 /\ i - 1 \in DOMAIN queue' /\ queue'[i - 1] = queue[i])
      /\ 1 \in DOMAIN queue /\ queue[1] = j /\ DOMAIN queue \subseteq Nat
  <2>1. queue \in Seq(Jobs) /\ queue # <<>> /\ queue' = Tail(queue)
    BY <1>1 DEF Orderly, ShapeInv, JobType, Worked
  <2> QED BY <2>1, WithoutFirst, QueueRest
<1>4. Failed => Failed'
  BY <1>1, AnswersMore DEF Failed
<1>5. TypedArrive'
  <2> SUFFICES ASSUME ui'.open, NEW w \in DOMAIN typed', ~Failed'
               PROVE  \/ \E n \in DOMAIN queue' : /\ Edits(queue'[n], w, count'.dialog) /\ queue'[n].entry.value = typed'[w]
                                                  /\ \A m \in DOMAIN queue' : n < m => ~Edits(queue'[m], w, count'.dialog)
                      \/ /\ \A n \in DOMAIN queue' : ~Edits(queue'[n], w, count'.dialog)
                         /\ w \in DOMAIN store'.copy /\ (store'.copy[w].dead = TRUE \/ store'.copy[w].value = typed'[w])
    BY DEF TypedArrive, Pending, Written
  <2>1. ui.open /\ w \in DOMAIN typed /\ typed'[w] = typed[w] /\ count'.dialog = count.dialog /\ ~Failed
    BY <1>1, <1>4
  <2>2. ui.draft
    BY <2>1 DEF TypedInv, BarrierInv, KnownDraft
  <2>3. CASE Pending(w)
    <3>1. PICK n \in DOMAIN queue : /\ Edits(queue[n], w, count.dialog) /\ queue[n].entry.value = typed[w]
                                    /\ \A m \in DOMAIN queue : n < m => ~Edits(queue[m], w, count.dialog)
      BY <2>3 DEF Pending
    <3>2. CASE n # 1
      <4>1. n \in Nat /\ n - 1 \in DOMAIN queue' /\ queue'[n - 1] = queue[n]
        BY <1>3, <3>2
      <4>2. \A m \in DOMAIN queue' : n - 1 < m => n < m + 1
        BY <1>3, <4>1
      <4>3. \A m \in DOMAIN queue' : n - 1 < m => ~Edits(queue'[m], w, count.dialog)
        BY <1>3, <3>1, <4>2
      <4> QED BY <2>1, <3>1, <4>1, <4>3
    <3>3. CASE n = 1
      <4>1. Of(j, "edit", count.dialog) /\ j.entry.id = w /\ j.entry.value = typed[w]
        BY <1>3, <3>1, <3>3 DEF Edits
      <4>2. EditOf(store, store', j.entry, FALSE)
        <5>1. ~\E i \in DOMAIN done' : done'[i].job.kind = "edit" /\ done'[i].error = TRUE
          BY DEF Failed
        <5> QED BY <2>1, <2>2, <4>1, <5>1, WorkOnDraft
      <4>3. w \in DOMAIN store'.copy /\ store'.copy[w].value = typed[w]
        BY <4>1, <4>2 DEF EditOf
      <4>4. \A m \in DOMAIN queue' : ~Edits(queue'[m], w, count.dialog)
        <5>1. \A m \in DOMAIN queue' : 1 < m + 1
          <6>1. queue' \in Seq(Jobs)
            BY <1>1, WorkKeepsOrder DEF Orderly, ShapeInv, JobType
          <6>2. \A m \in DOMAIN queue' : m >= 1 /\ m \in Nat
            BY <6>1, LenProperties
          <6> QED BY <6>2
        <5> QED BY <1>3, <3>1, <3>3, <5>1
      <4> QED BY <2>1, <4>3, <4>4
    <3> QED BY <3>2, <3>3
  <2>4. CASE Written(w)
    <3>1. /\ \A n \in DOMAIN queue : ~Edits(queue[n], w, count.dialog)
          /\ w \in DOMAIN store.copy /\ (store.copy[w].dead = TRUE \/ store.copy[w].value = typed[w])
      BY <2>4 DEF Written
    <3>2. \A n \in DOMAIN queue' : ~Edits(queue'[n], w, count.dialog)
      BY <1>3, <3>1
    <3>3. CASE Of(j, "edit", count.dialog)
      <4>1. j.entry.id # w
        BY <1>3, <3>1, <3>3 DEF Edits
      <4>2. EditOf(store, store', j.entry, FALSE) \/ UNCHANGED store
        BY <2>1, <2>2, <3>3, WorkOnDraft
      <4>3. w \in DOMAIN store'.copy /\ store'.copy[w] = store.copy[w]
        BY <3>1, <4>1, <4>2 DEF EditOf
      <4> QED BY <2>1, <3>1, <3>2, <4>3
    <3>4. CASE ~Of(j, "edit", count.dialog)
      <4>1. Spared
        BY <2>1, <2>2, <3>4, WorkOnDraft
      <4> QED BY <2>1, <3>1, <3>2, <4>1 DEF Spared
    <3> QED BY <3>3, <3>4
  <2>5. Pending(w) \/ Written(w)
    BY <2>1 DEF TypedInv, TypedArrive
  <2> QED BY <2>3, <2>4, <2>5
<1> QED BY <1>2, <1>5 DEF TypedInv

\* What a comment teaches does not reach the copies of the draft.
LEMMA LearnKeepsTyped ==
  ASSUME Orderly, TypedInv, NEW v, Learn(v)
  PROVE  TypedInv'
<1>1. UNCHANGED <<queue, done, ui, typed>> /\ count'.dialog = count.dialog /\ store'.copy = store.copy
  BY LearnIs DEF Orderly
<1>2. BarrierInv'
  BY <1>1 DEF TypedInv, BarrierInv, KnownDraft, FlushQueued, FlushDone, Commits
<1>3. TypedArrive'
  BY <1>1 DEF TypedInv, TypedArrive, Failed, Pending, Written
<1> QED BY <1>2, <1>3 DEF TypedInv

\* A step that brings neither.
LEMMA QuietKeepsBoth ==
  ASSUME Orderly, TypedInv, NEW js, Quietly(js)
  PROVE  TypedInv'
BY QuietKeepsBarrier, QuietKeepsTyped DEF TypedInv

\* A result is delivered.
LEMMA DeliverKeepsTyped == ASSUME Orderly, TypedInv, Deliver PROVE TypedInv'
<1> DEFINE r == Head(done)
<1>1. /\ ShapeInv /\ HandInv /\ done # <<>> /\ done' = Tail(done) /\ UNCHANGED <<store, count, typed>>
      /\ r = done[1] /\ 1 \in DOMAIN done /\ ui.open = TRUE
  BY ResultIs DEF Deliver, Orderly
<1>2. BarrierInv
  BY DEF TypedInv
<1>3. CASE r.job.kind = "begin" /\ Begun(r)
  <2>1. r.error = FALSE
    BY <1>1, <1>3 DEF HandInv, Granted
  <2>2. PICK js : /\ Goes(js) /\ SameTable(ui, ui') /\ ui'.saving = ui.saving /\ OnlyGroups(js)
                  /\ ui'.draft = TRUE /\ ui'.writeError = ui.writeError
    BY <1>1, <1>3, <2>1, BegunIs
  <2>3. Quietly(js)
    BY <1>1, <1>3, <2>2 DEF Quietly, SameTable, OnlyGroups
  <2> QED BY <2>3, QuietKeepsBoth
<1>4. CASE r.job.kind = "groups" /\ GroupsReceived(r)
  <2>1. PICK js : /\ Goes(js) /\ Alike(ui, ui') /\ Fetches(ui.pageBusy, js)
                  /\ \A i \in DOMAIN js : js[i].kind \in {"groups", "page"}
                  /\ SameTable(ui, ui') \/ Clears(ui, ui')
    BY <1>1, <1>4, GroupsReceivedIs
  <2>2. ui'.cache = ui.cache \/ ui'.cache = <<>>
    BY <2>1 DEF SameTable, Clears
  <2>3. Quietly(js)
    BY <1>1, <1>4, <2>1, <2>2 DEF Quietly, Alike, Fetches
  <2> QED BY <2>3, QuietKeepsBoth
<1>5. CASE r.job.kind = "page" /\ PageReceived(r)
  <2>1. PICK js : /\ Goes(js) /\ Alike(ui, ui') /\ Fetches(FALSE, js)
                  /\ \A i \in DOMAIN js : js[i].kind \in {"groups", "page"}
    BY <1>1, <1>5, PageReceivedIs
  <2>2. Quietly(js)
    BY <1>1, <1>5, <2>1 DEF Quietly, Alike, Fetches
  <2> QED BY <2>2, QuietKeepsBoth
<1>6. CASE r.job.kind = "edit" /\ EditReceived(r)
  <2>1. /\ Goes(<<>>) /\ SameTable(ui, ui') /\ ui'.draft = ui.draft /\ ui'.saving = ui.saving
        /\ (~r.error => UNCHANGED ui) /\ (r.error => ui'.writeError = TRUE)
    BY <1>1, <1>6, EditReceivedIs
  <2>2. ui.saving # "commit"
    BY <1>1, <1>2, <1>6 DEF BarrierInv, Commits
  <2>3. DOMAIN <<>> = {}
    OBVIOUS
  <2>4. ui.writeError = TRUE => ui'.writeError = TRUE
    BY <2>1
  <2>5. Quietly(<<>>)
    BY <1>1, <1>6, <2>1, <2>2, <2>3, <2>4 DEF Quietly, SameTable
  <2> QED BY <2>5, QuietKeepsBoth
<1>7. CASE r.job.kind = "mutate" /\ MutateReceived(r)
  <2>1. PICK js : Goes(js) /\ Calm /\ OnlyGroups(js)
    BY <1>1, <1>7, MutateReceivedIs
  <2>2. Quietly(js)
    BY <1>1, <1>7, <2>1 DEF Quietly, Calm, Alike, SameTable, OnlyGroups
  <2> QED BY <2>2, QuietKeepsBoth
<1>8. CASE r.job.kind = "flush" /\ FlushReceived(r)
  BY <1>1, <1>8, FlushKeepsTyped
<1> QED BY <1>3, <1>4, <1>5, <1>6, <1>7, <1>8 DEF Deliver

\* And what the user does.
LEMMA UserKeepsTyped ==
  ASSUME Orderly, TypedInv, NEW b \in Int, NEW g,
         \/ ShowPage \/ Paint(b) \/ SelectGroup(g) \/ EditCell(b) \/ Save \/ NotCommitted \/ Dismiss
         \/ \E act \in Actions : Act(act, b)
  PROVE  TypedInv'
<1>1. ShapeInv /\ DOMAIN <<>> = {}
  BY DEF Orderly
<1>2. CASE ShowPage
  <2>1. /\ Goes(<<>>) /\ UNCHANGED <<queue, done, alerts, count, typed>>
        /\ ui'.draft = ui.draft /\ ui'.saving = ui.saving /\ ui'.writeError = ui.writeError
        /\ SameTable(ui, ui') \/ Clears(ui, ui')
    BY <1>1, <1>2, ShowPageIs
  <2>2. ui'.cache = ui.cache \/ ui'.cache = <<>>
    BY <2>1 DEF SameTable, Clears
  <2>3. Quietly(<<>>)
    BY <1>1, <2>1, <2>2 DEF Quietly
  <2> QED BY <2>3, QuietKeepsBoth
<1>3. CASE Paint(b)
  <2>1. PICK js : /\ Goes(js) /\ Alike(ui, ui') /\ SameCells(ui, ui') /\ Fetches(ui.pageBusy, js)
                  /\ \A i \in DOMAIN js : js[i].kind = "page"
                  /\ UNCHANGED <<done, alerts, count, typed>>
    BY <1>1, <1>3, PaintIs
  <2>2. Quietly(js)
    BY <2>1 DEF Quietly, Alike, SameCells, Fetches
  <2> QED BY <2>2, QuietKeepsBoth
<1>4. CASE SelectGroup(g)
  <2>1. Goes(<<>>) /\ UNCHANGED <<queue, done, alerts, typed>> /\ Alike(ui, ui') /\ Clears(ui, ui')
    BY <1>1, <1>4, SelectGroupIs
  <2>2. Quietly(<<>>)
    BY <1>1, <2>1 DEF Quietly, Alike, Clears
  <2> QED BY <2>2, QuietKeepsBoth
<1>5. CASE NotCommitted
  <2>1. /\ Goes(<<>>) /\ UNCHANGED <<queue, done, count, typed>> /\ SameTable(ui, ui') /\ ui'.saving = "no"
        /\ ui.saving = "commit" /\ ui'.draft = ui.draft /\ ui'.writeError = ui.writeError
    BY <1>1, <1>5, NotCommittedIs DEF NotCommitted
  <2>2. Quietly(<<>>)
    BY <1>1, <2>1 DEF Quietly, SameTable
  <2> QED BY <2>2, QuietKeepsBoth
<1>6. CASE Dismiss
  <2>1. PICK js : /\ Goes(js) /\ Alike(ui, ui') /\ SameCells(ui, ui') /\ Fetches(ui.pageBusy, js)
                  /\ \A i \in DOMAIN js : js[i].kind \in {"groups", "page"}
                  /\ UNCHANGED <<done, typed, count>>
    BY <1>1, <1>6, DismissIs
  <2>2. Quietly(js)
    BY <2>1 DEF Quietly, Alike, SameCells, Fetches
  <2> QED BY <2>2, QuietKeepsBoth
<1>7. ASSUME NEW act \in Actions, Act(act, b) PROVE TypedInv'
  <2>1. PICK j \in Jobs : /\ Goes(<<j>>) /\ j.kind = "mutate" /\ Calm /\ UNCHANGED <<done, alerts, typed>>
    BY <1>1, <1>7, ActIs
  <2>2. DOMAIN <<j>> = {1} /\ <<j>>[1] = j
    OBVIOUS
  <2>3. Quietly(<<j>>)
    BY <2>1, <2>2 DEF Quietly, Calm, Alike, SameTable
  <2> QED BY <2>3, QuietKeepsBoth
<1>8. CASE EditCell(b) \/ Save
  BY <1>8, EditKeepsTyped, SaveKeepsTyped
<1> QED BY <1>2, <1>3, <1>4, <1>5, <1>6, <1>7, <1>8

\* Every step.
LEMMA StepsKeepTyped == ASSUME Orderly, TypedInv, EditorNext PROVE TypedInv'
<1>1. Blocks \subseteq Int /\ 0 \in Int
  BY DEF Blocks
<1>2. CASE Work \/ Deliver \/ OpenDialog \/ Committed \/ Cancel \/ \E w \in DOMAIN Homes : Learn(w)
  BY <1>2, WorkKeepsTyped, DeliverKeepsTyped, DialogsKeepTyped, LearnKeepsTyped
<1>3. CASE \/ ShowPage \/ Save \/ NotCommitted \/ Dismiss
           \/ \E g \in DOMAIN ui.known : SelectGroup(g)
  BY <1>1, <1>3, UserKeepsTyped
<1>4. CASE (\E b \in Blocks : Paint(b) \/ EditCell(b)) \/ \E act \in Actions, b \in Blocks : Act(act, b)
  BY <1>1, <1>4, UserKeepsTyped
<1> QED BY <1>2, <1>3, <1>4 DEF EditorNext

\* Nothing has been typed before the first dialog.
LEMMA StartsTyped == ASSUME EditorInit PROVE TypedInv
<1>1. ui = Fresh
  BY DEF EditorInit
<1>2. ui.open = FALSE /\ ui.saving = "no"
  BY <1>1, FreshIs
<1> QED BY <1>2 DEF TypedInv, BarrierInv, KnownDraft, FlushQueued, FlushDone, Commits, TypedArrive

\* A commit finds every value in the draft.
LEMMA CommitsTyped == ASSUME Orderly, TypedInv, Committed, NEW w \in DOMAIN typed
                      PROVE  w \notin DOMAIN store'.rows \/ store'.rows[w].value = typed[w]
<1>1. ui.saving = "commit" /\ ShapeInv
  BY DEF Committed, Orderly
<1>2. ui.open /\ store.owner = count.dialog /\ store.owner # Nobody
  BY <1>1, CommitterOwns
<1>3. /\ ui.writeError = FALSE
      /\ \A m \in DOMAIN queue : ~Of(queue[m], "edit", count.dialog)
      /\ \A m \in DOMAIN done : done[m].job.kind \notin {"edit", "flush"}
  BY <1>1 DEF TypedInv, BarrierInv, Commits
<1>4. ~Failed /\ ~Pending(w)
  BY <1>3 DEF Failed, Pending, Edits
<1>5. w \in DOMAIN store.copy /\ (store.copy[w].dead = TRUE \/ store.copy[w].value = typed[w])
  BY <1>2, <1>4 DEF TypedInv, TypedArrive, Written
<1>6. w \in DOMAIN store'.rows => store.copy[w].dead = FALSE /\ store'.rows[w].value = store.copy[w].value
  BY <1>1, <1>2, <1>5, CommittedIs
<1> QED BY <1>5, <1>6

\* What is committed is what was typed: the barrier that flush of
\* presenter.py sends behind the edits, and the error that received of _edit
\* keeps, let no save go through without every value of the user.
THEOREM CommitsWhatWasTyped == EditorSpec => TypedIsCommitted
<1>1. EditorInit => Orderly /\ TypedInv
  BY StartsOrderly, StartsTyped
<1>2. Orderly /\ TypedInv /\ [EditorNext]_editorVars => Orderly' /\ TypedInv'
  <2> SUFFICES ASSUME Orderly, TypedInv, [EditorNext]_editorVars PROVE Orderly' /\ TypedInv'
    OBVIOUS
  <2>1. CASE EditorNext
    BY <2>1, StepsKeepOrder, StepsKeepTyped
  <2>2. CASE UNCHANGED editorVars
    <3>1. UNCHANGED <<store, queue, done, ui, alerts, count, typed>>
      BY <2>2 DEF editorVars
    <3>2. BarrierInv'
      BY <3>1 DEF TypedInv, BarrierInv, KnownDraft, FlushQueued, FlushDone, Commits
    <3>3. TypedArrive'
      BY <3>1 DEF TypedInv, TypedArrive, Failed, Pending, Written
    <3> QED BY <2>2, <3>2, <3>3, StutterKeepsOrder DEF TypedInv
  <2> QED BY <2>1, <2>2
<1>3. Orderly /\ TypedInv => \A w \in DOMAIN typed : Committed => \/ w \notin DOMAIN store'.rows
                                                                 \/ store'.rows[w].value = typed[w]
  BY CommitsTyped
<1> DEFINE P == \A w \in DOMAIN typed : Committed => \/ w \notin DOMAIN store'.rows
                                                     \/ store'.rows[w].value = typed[w]
<1>4. Orderly /\ TypedInv => [P]_editorVars
  BY <1>3
<1>5. EditorSpec => [][P]_editorVars
  <2> HIDE DEF P
  <2> QED BY <1>1, <1>2, <1>4, PTL DEF EditorSpec
<1> QED BY <1>5 DEF TypedIsCommitted
-----------------------------------------------------------------------------
(***************************************************************************)
(* What the table shows.  One page at a time is under way, and one of this *)
(* generation is for a block that the table does not hold.                 *)
(***************************************************************************)
Newest(j) == Of(j, "page", count.dialog) /\ j.generation = ui.generation
\* A page under way.
Fetched(j) ==
  /\ j.generation <= ui.generation /\ ui.pageBusy = TRUE /\ ui.loaded = TRUE
  /\ j.generation = ui.generation => j.group = ui.group /\ ~HasBlock(ui, j.block)
OnePage ==
  ui.open =>
    /\ ui.cache # <<>> => ui.loaded = TRUE
    /\ \A n \in DOMAIN alerts : alerts[n] = "pump" => ui.loaded = TRUE
    /\ \A n \in DOMAIN queue : Of(queue[n], "page", count.dialog) =>
         /\ Fetched(queue[n])
         /\ \A m \in DOMAIN queue : Of(queue[m], "page", count.dialog) => m = n
         /\ \A m \in DOMAIN done : done[m].job.kind # "page"
    /\ \A n \in DOMAIN done : done[n].job.kind = "page" =>
         Fetched(done[n].job) /\ \A m \in DOMAIN done : done[m].job.kind = "page" => m = n
\* What works on a draft is asked for by a dialog that knows of its own.
OnDraft(j) == j.dialog = count.dialog /\ j.kind \in {"groups", "page", "edit", "mutate"}
Drafted ==
  ui.open =>
    /\ \A n \in DOMAIN queue : OnDraft(queue[n]) => ui.draft = TRUE
    /\ \A n \in DOMAIN done : OnDraft(done[n].job) => ui.draft = TRUE
    /\ \A n \in DOMAIN alerts : alerts[n] = "refresh" => ui.draft = TRUE
    /\ \A n \in DOMAIN done : done[n].job.kind = "groups" => done[n].error = FALSE
FetchInv == OnePage /\ Drafted

\* The groups will be listed again, and the table filled anew.
Dirty ==
  \/ \E n \in DOMAIN queue : Of(queue[n], "groups", count.dialog)
  \/ \E n \in DOMAIN done : \/ done[n].job.kind = "groups"
                            \/ done[n].job.kind = "mutate" /\ done[n].error = FALSE
                            \/ done[n].job.kind = "edit" /\ done[n].error = TRUE
  \/ \E n \in DOMAIN alerts : alerts[n] = "refresh"

\* The rows of block b: one at most.
Places(s, g, b) == {w \in Live(s, g) : Cardinality({v \in Live(s, g) : v < w}) = b}
Sits(s, g, b, rows) ==
  IF rows = <<>> THEN Places(s, g, b) = {}
  ELSE rows[1].id \in Places(s, g, b) /\ rows[1].version <= RowOf(s, rows[1].id).version
SameValue(s, e) == e.version = RowOf(s, e.id).version => e.value = RowOf(s, e.id).value
\* A row is shown as the last edit on its way leaves it, or as it is.
Latest(s, q, e, d) ==
  /\ (\A n \in DOMAIN q : ~Edits(q[n], e.id, d)) => SameValue(s, e)
  /\ \A n \in DOMAIN q : Edits(q[n], e.id, d) /\ (\A m \in DOMAIN q : n < m => ~Edits(q[m], e.id, d))
                           => q[n].entry.value = e.value

PagesMatch ==
  \A n \in DOMAIN done : Newest(done[n].job) =>
    /\ Sits(store, ui.group, done[n].job.block, done[n].rows)
    /\ done[n].rows # <<>> => SameValue(store, done[n].rows[1])
CellsMatch ==
  \A k \in DOMAIN ui.cache :
    /\ Sits(store, ui.group, ui.cache[k].block, ui.cache[k].rows)
    /\ ui.cache[k].rows # <<>> => Latest(store, queue, ui.cache[k].rows[1], count.dialog)
\* The edits on their way are of rows that are there; none of them is of the
\* row of a page that is read before it is made.
EditsLive ==
  \A m \in DOMAIN queue : Of(queue[m], "edit", count.dialog) =>
    queue[m].entry.id \in Ids(store) /\ RowOf(store, queue[m].entry.id).dead = FALSE
EditsApart ==
  \A m \in DOMAIN queue : Of(queue[m], "edit", count.dialog) =>
    /\ \A n \in DOMAIN done : Newest(done[n].job) =>
         queue[m].entry.id \notin Places(store, ui.group, done[n].job.block)
    /\ \A n \in DOMAIN queue : n < m /\ Newest(queue[n]) =>
         queue[m].entry.id \notin Places(store, ui.group, queue[n].block)
\* The table is empty: no edit has followed the page that it waits for.
Emptied ==
  /\ ui.cache = <<>>
  /\ \A m \in DOMAIN queue : Of(queue[m], "edit", count.dialog) =>
       /\ \A n \in DOMAIN done : ~Newest(done[n].job)
       /\ \A n \in DOMAIN queue : n < m => ~Newest(queue[n])
Filled == CellsMatch /\ EditsLive /\ EditsApart
ShownInv == ui.open => Dirty \/ (PagesMatch /\ (Emptied \/ Filled))

\* A step of the GUI thread, for the pages: js is what it submits, busy is
\* whether a page is still under way after what it was told.
Fetching(js, busy) ==
  /\ Goes(js) /\ Fetches(busy, js)
  /\ ui.loaded = TRUE => ui'.loaded = TRUE
  /\ ui.draft = TRUE => ui'.draft = TRUE
  /\ \A i \in DOMAIN js : /\ js[i].kind = "page" => ui'.loaded = TRUE
                          /\ js[i].kind \in {"groups", "page", "edit", "mutate"} => ui'.draft = TRUE
  /\ ui'.cache # <<>> => ui'.loaded = TRUE
  /\ \A n \in DOMAIN alerts' : /\ alerts'[n] = "pump" => ui'.loaded = TRUE
                               /\ alerts'[n] = "refresh" => ui'.draft = TRUE
  /\ \/ UNCHANGED done /\ busy = ui.pageBusy
     \/ done # <<>> /\ done' = Tail(done) /\ Head(done).job.kind # "page" /\ busy = ui.pageBusy
     \/ done # <<>> /\ done' = Tail(done) /\ Head(done).job.kind = "page"
  /\ \/ /\ ui'.generation = ui.generation /\ ui'.group = ui.group
        /\ \/ \A b : HasBlock(ui', b) => HasBlock(ui, b)
           \/ done # <<>> /\ done' = Tail(done) /\ Head(done).job.kind = "page"
     \/ ui'.generation = ui.generation + 1

\* It asks for a page when none is under way, and none of them is for a block
\* that the table holds.
LEMMA GoesKeepsFetch ==
  ASSUME Orderly, FetchInv, NEW js, NEW busy, Fetching(js, busy)
  PROVE  FetchInv'
<1>1. /\ ui.open = TRUE /\ ui'.open = TRUE /\ queue \in Seq(Jobs) /\ js \in Seq(Jobs) /\ queue' = queue \o js
      /\ count'.dialog = count.dialog /\ UNCHANGED store /\ done \in Seq(Answers)
      /\ ui.generation \in Nat /\ ui'.generation \in Nat
  BY DEF Fetching, Goes, Sends, Orderly, ShapeInv, JobType, DoneType, UiType, Whole, Uis
<1>2. /\ \A i \in DOMAIN queue' : \/ i \in DOMAIN queue /\ queue'[i] = queue[i]
                                  \/ i > Len(queue) /\ \E k \in DOMAIN js : queue'[i] = js[k]
      /\ \A i, n \in DOMAIN queue' : i > Len(queue) /\ n > Len(queue) /\ queue'[i].kind = "page" /\ queue'[n].kind = "page" => i = n
  <2>1. /\ \A i \in DOMAIN queue' : \/ i \in DOMAIN queue /\ queue'[i] = queue[i]
                                    \/ i > Len(queue) /\ i - Len(queue) \in DOMAIN js /\ queue'[i] = js[i - Len(queue)]
        /\ \A i \in DOMAIN queue : i <= Len(queue)
        /\ queue' \in Seq(Jobs)
    BY <1>1, Grown
  <2>2. DOMAIN queue' \subseteq Nat /\ DOMAIN queue \subseteq Nat /\ Len(queue) \in Nat
    BY <1>1, <2>1, LenProperties
  <2>3. \A i \in DOMAIN queue' : i \in DOMAIN queue => ~(i > Len(queue))
    BY <2>1, <2>2
  <2>4. ASSUME NEW i \in DOMAIN queue', NEW n \in DOMAIN queue', i > Len(queue), n > Len(queue),
               queue'[i].kind = "page", queue'[n].kind = "page"
        PROVE  i = n
    <3>1. i - Len(queue) \in DOMAIN js /\ queue'[i] = js[i - Len(queue)] /\ n - Len(queue) \in DOMAIN js /\ queue'[n] = js[n - Len(queue)]
      BY <2>1, <2>3, <2>4
    <3>2. i - Len(queue) = n - Len(queue)
      BY <2>4, <3>1 DEF Fetching, Fetches
    <3> QED BY <2>2, <3>2
  <2>5. \A i \in DOMAIN queue' : i - Len(queue) \in DOMAIN js /\ queue'[i] = js[i - Len(queue)] => \E k \in DOMAIN js : queue'[i] = js[k]
    OBVIOUS
  <2> QED BY <2>1, <2>4, <2>5
<1>3. PICK s : Shifted(s)
  BY <1>1, NoneShifted, OneShifted DEF Fetching
<1>4. \A i \in DOMAIN done' : i + s \in DOMAIN done /\ done'[i] = done[i + s]
  BY <1>3 DEF Shifted
<1>5. \A i, n \in DOMAIN done' : i + s = n + s => i = n
  BY <1>3 DEF Shifted
<1>6. Drafted'
  <2>1. ASSUME NEW n \in DOMAIN queue', queue'[n].dialog = count'.dialog, queue'[n].kind \in {"groups", "page", "edit", "mutate"}
        PROVE  ui'.draft = TRUE
    BY <1>1, <1>2, <2>1 DEF Fetching, FetchInv, Drafted, OnDraft
  <2>2. ASSUME NEW n \in DOMAIN done', done'[n].job.dialog = count'.dialog, done'[n].job.kind \in {"groups", "page", "edit", "mutate"}
        PROVE  ui'.draft = TRUE
    BY <1>1, <1>4, <2>2 DEF Fetching, FetchInv, Drafted, OnDraft
  <2>3. \A n \in DOMAIN done' : done'[n].job.kind = "groups" => done'[n].error = FALSE
    BY <1>1, <1>4 DEF FetchInv, Drafted
  <2> QED BY <2>1, <2>2, <2>3 DEF Drafted, OnDraft, Fetching
<1>7. ASSUME NEW i \in DOMAIN queue', Of(queue'[i], "page", count'.dialog), ~(i \in DOMAIN queue /\ queue'[i] = queue[i])
      PROVE  /\ busy = FALSE /\ ui'.pageBusy = TRUE /\ ui'.loaded = TRUE
             /\ queue'[i].generation = ui'.generation /\ queue'[i].group = ui'.group /\ ~HasBlock(ui', queue'[i].block)
  <2>1. PICK k \in DOMAIN js : queue'[i] = js[k]
    BY <1>2, <1>7
  <2>2. js[k].kind = "page"
    BY <1>7, <2>1 DEF Of
  <2> QED BY <2>1, <2>2 DEF Fetching, Fetches
<1>8. CASE done # <<>> /\ done' = Tail(done) /\ Head(done).job.kind = "page"
  <2>1. /\ \A i \in DOMAIN done' : i + 1 \in DOMAIN done /\ done'[i] = done[i + 1] /\ i + 1 # 1
        /\ done[1] = Head(done) /\ 1 \in DOMAIN done
    <3>1. /\ done' \in Seq(Answers) /\ 1 \in DOMAIN done /\ done[1] = Head(done)
          /\ \A i \in DOMAIN done' : i + 1 \in DOMAIN done /\ done'[i] = done[i + 1]
      BY <1>1, <1>8, WithoutFirst
    <3>2. \A i \in DOMAIN done' : i \in Nat /\ i >= 1
      BY <3>1, LenProperties
    <3>3. \A i \in DOMAIN done' : i + 1 # 1
      BY <3>2
    <3> QED BY <3>1, <3>3
  <2>2. \A m \in DOMAIN done : done[m].job.kind = "page" => m = 1
    BY <1>1, <1>8, <2>1 DEF FetchInv, OnePage
  <2>3. \A m \in DOMAIN done' : done'[m].job.kind # "page"
    BY <2>1, <2>2
  <2>4. \A n \in DOMAIN queue : ~Of(queue[n], "page", count.dialog)
    BY <1>1, <1>8, <2>1 DEF FetchInv, OnePage
  <2>5. \A n \in DOMAIN queue' : Of(queue'[n], "page", count'.dialog) => n > Len(queue) /\ ~(n \in DOMAIN queue /\ queue'[n] = queue[n])
    BY <1>1, <1>2, <2>4 DEF Of
  <2>6. ASSUME NEW n \in DOMAIN queue', Of(queue'[n], "page", count'.dialog)
        PROVE  /\ queue'[n].generation <= ui'.generation /\ ui'.pageBusy = TRUE /\ ui'.loaded = TRUE
               /\ queue'[n].generation = ui'.generation => queue'[n].group = ui'.group /\ ~HasBlock(ui', queue'[n].block)
    <3>1. /\ ui'.pageBusy = TRUE /\ ui'.loaded = TRUE
          /\ queue'[n].generation = ui'.generation /\ queue'[n].group = ui'.group /\ ~HasBlock(ui', queue'[n].block)
      BY <1>7, <2>5, <2>6
    <3>2. queue'[n].generation <= ui'.generation
      BY <1>1, <3>1
    <3> QED BY <3>1, <3>2
  <2>7. ASSUME NEW n \in DOMAIN queue', Of(queue'[n], "page", count'.dialog), NEW m \in DOMAIN queue', Of(queue'[m], "page", count'.dialog)
        PROVE  m = n
    BY <1>2, <2>5, <2>7 DEF Of
  <2>8. OnePage'
    BY <2>3, <2>6, <2>7 DEF OnePage, Fetched, Fetching
  <2> QED BY <1>6, <2>8 DEF FetchInv
<1>9. CASE ~(done # <<>> /\ done' = Tail(done) /\ Head(done).job.kind = "page")
  <2>1. busy = ui.pageBusy
    BY <1>9 DEF Fetching
  <2>2. ASSUME NEW j, Fetched(j), ui.pageBusy = TRUE, j.generation \in Nat
        PROVE  /\ j.generation <= ui'.generation /\ ui'.pageBusy = TRUE /\ ui'.loaded = TRUE
               /\ j.generation = ui'.generation => j.group = ui'.group /\ ~HasBlock(ui', j.block)
    <3>1. \A i \in DOMAIN js : js[i].kind # "page"
      BY <2>1, <2>2 DEF Fetching, Fetches
    <3>2. ui'.pageBusy = TRUE /\ ui'.loaded = TRUE
      BY <2>1, <2>2, <3>1 DEF Fetching, Fetches, Fetched
    <3>3. CASE ui'.generation = ui.generation /\ ui'.group = ui.group /\ \A b : HasBlock(ui', b) => HasBlock(ui, b)
      BY <2>2, <3>2, <3>3 DEF Fetched
    <3>4. CASE ui'.generation = ui.generation + 1
      <4>1. j.generation <= ui.generation
        BY <2>2 DEF Fetched
      <4>2. j.generation <= ui'.generation /\ j.generation # ui'.generation
        BY <1>1, <2>2, <3>4, <4>1
      <4> QED BY <3>2, <4>2
    <3> QED BY <1>9, <3>3, <3>4 DEF Fetching
  <2>3. ASSUME NEW n \in DOMAIN done', done'[n].job.kind = "page"
        PROVE  /\ done'[n].job.generation <= ui'.generation /\ ui'.pageBusy = TRUE /\ ui'.loaded = TRUE
               /\ done'[n].job.generation = ui'.generation => done'[n].job.group = ui'.group /\ ~HasBlock(ui', done'[n].job.block)
               /\ busy = TRUE
               /\ \A m \in DOMAIN done' : done'[m].job.kind = "page" => m = n
               /\ \A m \in DOMAIN queue : ~Of(queue[m], "page", count.dialog)
    <3>1. n + s \in DOMAIN done /\ done'[n] = done[n + s] /\ done[n + s].job.kind = "page"
      BY <1>4, <2>3
    <3>2. done[n + s] \in Answers
      BY <1>1, <3>1, ElementOfSeq, LenProperties
    <3>3. done[n + s].job.generation \in Nat
      BY <3>2 DEF Answers, Jobs
    <3>4. Fetched(done[n + s].job) /\ (\A m \in DOMAIN done : done[m].job.kind = "page" => m = n + s)
          /\ \A m \in DOMAIN queue : ~Of(queue[m], "page", count.dialog)
      BY <1>1, <3>1 DEF FetchInv, OnePage
    <3>5. ui.pageBusy = TRUE
      BY <3>4 DEF Fetched
    <3>6. \A m \in DOMAIN done' : done'[m].job.kind = "page" => m = n
      BY <1>4, <1>5, <3>4
    <3> QED BY <2>1, <2>2, <3>1, <3>3, <3>4, <3>5, <3>6
  <2>4. ASSUME NEW n \in DOMAIN queue', Of(queue'[n], "page", count'.dialog)
        PROVE  /\ queue'[n].generation <= ui'.generation /\ ui'.pageBusy = TRUE /\ ui'.loaded = TRUE
               /\ queue'[n].generation = ui'.generation => queue'[n].group = ui'.group /\ ~HasBlock(ui', queue'[n].block)
               /\ \A m \in DOMAIN queue' : Of(queue'[m], "page", count'.dialog) => m = n
               /\ \A m \in DOMAIN done' : done'[m].job.kind # "page"
    <3>1. CASE n \in DOMAIN queue /\ queue'[n] = queue[n]
      <4>1. queue[n] \in Jobs
        BY <1>1, <3>1, ElementOfSeq, LenProperties
      <4>2. queue[n].generation \in Nat
        BY <4>1 DEF Jobs
      <4>3. /\ Fetched(queue[n]) /\ (\A m \in DOMAIN queue : Of(queue[m], "page", count.dialog) => m = n)
            /\ \A m \in DOMAIN done : done[m].job.kind # "page"
        BY <1>1, <2>4, <3>1 DEF FetchInv, OnePage
      <4>4. ui.pageBusy = TRUE
        BY <4>3 DEF Fetched
      <4>5. \A m \in DOMAIN queue' : Of(queue'[m], "page", count'.dialog) => m = n
        BY <1>1, <1>7, <2>1, <4>3, <4>4
      <4>6. \A m \in DOMAIN done' : done'[m].job.kind # "page"
        BY <1>4, <4>3
      <4> QED BY <2>2, <3>1, <4>2, <4>3, <4>4, <4>5, <4>6
    <3>2. CASE ~(n \in DOMAIN queue /\ queue'[n] = queue[n])
      <4>1. /\ busy = FALSE /\ ui'.pageBusy = TRUE /\ ui'.loaded = TRUE
            /\ queue'[n].generation = ui'.generation /\ queue'[n].group = ui'.group /\ ~HasBlock(ui', queue'[n].block)
        BY <1>7, <2>4, <3>2
      <4>2. \A m \in DOMAIN queue : ~Of(queue[m], "page", count.dialog)
        BY <1>1, <2>1, <4>1 DEF FetchInv, OnePage, Fetched
      <4>3. \A m \in DOMAIN queue' : Of(queue'[m], "page", count'.dialog) => m > Len(queue)
        BY <1>1, <1>2, <4>2
      <4>4. \A m \in DOMAIN queue' : Of(queue'[m], "page", count'.dialog) => m = n
        BY <1>2, <2>4, <4>3 DEF Of
      <4>5. \A m \in DOMAIN done' : done'[m].job.kind # "page"
        BY <2>3, <4>1
      <4> QED BY <1>1, <4>1, <4>4, <4>5
    <3> QED BY <3>1, <3>2
  <2>5. OnePage'
    <3>1. ui'.cache # <<>> => ui'.loaded = TRUE
      BY DEF Fetching
    <3>2. \A n \in DOMAIN alerts' : alerts'[n] = "pump" => ui'.loaded = TRUE
      BY DEF Fetching
    <3> QED BY <2>3, <2>4, <3>1, <3>2 DEF OnePage, Fetched
  <2> QED BY <1>6, <2>5 DEF FetchInv
<1> QED BY <1>8, <1>9
-----------------------------------------------------------------------------
(***************************************************************************)
(* Where rows stand.                                                       *)
(***************************************************************************)
\* A block holds one row at most, and a row stands in one block.
LEMMA PlacesOnce ==
  ASSUME NEW s \in Stores, InBounds(s), NEW g, NEW b, NEW w \in Places(s, g, b), NEW v \in Places(s, g, b)
  PROVE  w = v
<1> DEFINE Before(x) == {u \in Live(s, g) : u < x}
<1>1. IsFiniteSet(Live(s, g)) /\ Live(s, g) \subseteq Nat /\ w \in Live(s, g) /\ v \in Live(s, g)
      /\ Cardinality(Before(w)) = b /\ Cardinality(Before(v)) = b
  BY LiveIsFinite DEF Places
<1>2. ASSUME NEW x \in Live(s, g), NEW y \in Live(s, g), x < y PROVE Cardinality(Before(x)) < Cardinality(Before(y))
  <2>1. Before(x) \subseteq Before(y) /\ x \in Before(y) /\ x \notin Before(x)
    BY <1>1, <1>2
  <2>2. IsFiniteSet(Before(y))
    BY <1>1, FS_Subset
  <2>3. Before(x) # Before(y)
    BY <2>1
  <2> HIDE DEF Before
  <2>4. /\ IsFiniteSet(Before(x)) /\ Cardinality(Before(x)) <= Cardinality(Before(y))
        /\ Cardinality(Before(x)) # Cardinality(Before(y))
    BY <2>1, <2>2, <2>3, FS_Subset
  <2>5. Cardinality(Before(x)) \in Nat /\ Cardinality(Before(y)) \in Nat
    BY <2>2, <2>4, FS_CardinalityType
  <2> QED BY <2>4, <2>5
<1>3. IsFiniteSet(Before(w)) /\ Cardinality(Before(w)) \in Nat
  BY <1>1, FS_Subset, FS_CardinalityType
<1> HIDE DEF Before
<1>4. b \in Nat
  BY <1>1, <1>3
<1>5. ~(w < v) /\ ~(v < w)
  BY <1>1, <1>2, <1>4
<1>6. w \in Nat /\ v \in Nat
  BY <1>1
<1> QED BY <1>5, <1>6

\* The rows of t are those of s, at the same places and perhaps later versions.
Kept(s, t) ==
  /\ Ids(t) = Ids(s)
  /\ \A w \in Ids(s) : /\ RowOf(t, w).group = RowOf(s, w).group /\ RowOf(t, w).dead = RowOf(s, w).dead
                       /\ RowOf(s, w).version <= RowOf(t, w).version

\* Every place is kept.
LEMMA KeptPlaces == ASSUME NEW s, NEW t, Kept(s, t), NEW g, NEW b PROVE Places(t, g, b) = Places(s, g, b)
<1>1. Live(t, g) = Live(s, g)
  BY DEF Kept, Live
<1> QED BY <1>1 DEF Places

\* What a block held, it holds.
LEMMA KeptSits ==
  ASSUME NEW s \in Stores, NEW t \in Stores, Kept(s, t), NEW g, NEW b, NEW rows \in Seq(Entries), Sits(s, g, b, rows)
  PROVE  Sits(t, g, b, rows)
<1>1. Places(t, g, b) = Places(s, g, b)
  BY KeptPlaces
<1>2. CASE rows = <<>>
  BY <1>1, <1>2 DEF Sits
<1>3. CASE rows # <<>>
  <2> DEFINE w == rows[1].id
  <2>1. w \in Places(s, g, b) /\ rows[1].version <= RowOf(s, w).version /\ w \in Ids(s)
    BY <1>3 DEF Sits, Places, Live
  <2>2. rows[1].version \in Int
    <3>1. rows[1] \in Entries
      BY <1>3, WithoutFirst
    <3> QED BY <3>1 DEF Entries
  <2>3. RowOf(s, w).version \in Int /\ RowOf(t, w).version \in Int
    <3>1. w \in Ids(t)
      BY <2>1 DEF Kept
    <3> QED BY <2>1, <3>1, RowThere DEF Rows
  <2>4. RowOf(s, w).version <= RowOf(t, w).version
    BY <2>1 DEF Kept
  <2> HIDE DEF w
  <2>5. rows[1].version <= RowOf(t, w).version
    BY <2>1, <2>2, <2>3, <2>4
  <2> QED BY <1>1, <1>3, <2>1, <2>5 DEF Sits, w
<1> QED BY <1>2, <1>3

\* A page is what its block holds.
LEMMA PageSits ==
  ASSUME NEW s \in Stores, InBounds(s), NEW g, NEW b
  PROVE  Sits(s, g, b, Page(s, g, b)) /\ (Page(s, g, b) # <<>> => SameValue(s, Page(s, g, b)[1]))
<1> DEFINE p == Page(s, g, b)
<1>1. /\ Places(s, g, b) = {} => p = <<>>
      /\ Places(s, g, b) # {} => \E w \in Places(s, g, b) :
           p # <<>> /\ p[1] = [id |-> w, version |-> RowOf(s, w).version, value |-> RowOf(s, w).value]
  BY PageIs DEF Places
<1> HIDE DEF p
<1>2. CASE Places(s, g, b) = {}
  BY <1>1, <1>2 DEF Sits, p
<1>3. CASE Places(s, g, b) # {}
  <2>1. PICK w \in Places(s, g, b) :
          p # <<>> /\ p[1] = [id |-> w, version |-> RowOf(s, w).version, value |-> RowOf(s, w).value]
    BY <1>1, <1>3
  <2>2. w \in Ids(s)
    BY DEF Places, Live
  <2>3. RowOf(s, w).version \in Int
    BY <2>2, RowThere DEF Rows
  <2>4. p[1].id = w /\ p[1].version = RowOf(s, w).version /\ p[1].value = RowOf(s, w).value
    BY <2>1
  <2>5. p[1].version <= RowOf(s, w).version
    BY <2>3, <2>4
  <2>6. Sits(s, g, b, p) /\ SameValue(s, p[1])
    BY <2>1, <2>4, <2>5 DEF Sits, SameValue
  <2> QED BY <2>6 DEF p
<1> QED BY <1>2, <1>3

\* And what a block holds is its page.
LEMMA SitsPage ==
  ASSUME NEW s \in Stores, InBounds(s), NEW g, NEW b, NEW rows, Sits(s, g, b, rows), rows # <<>> => SameValue(s, rows[1])
  PROVE  IF rows = <<>> THEN Page(s, g, b) = <<>>
         ELSE /\ Page(s, g, b) # <<>> /\ Page(s, g, b)[1].id = rows[1].id
              /\ Page(s, g, b)[1].version = rows[1].version => Page(s, g, b)[1].value = rows[1].value
<1> DEFINE p == Page(s, g, b)
<1>1. /\ Places(s, g, b) = {} => p = <<>>
      /\ Places(s, g, b) # {} => \E w \in Places(s, g, b) :
           p # <<>> /\ p[1] = [id |-> w, version |-> RowOf(s, w).version, value |-> RowOf(s, w).value]
  BY PageIs DEF Places
<1> HIDE DEF p
<1>2. CASE rows = <<>>
  BY <1>1, <1>2 DEF Sits, p
<1>3. CASE rows # <<>>
  <2>1. rows[1].id \in Places(s, g, b)
    BY <1>3 DEF Sits
  <2>2. PICK w \in Places(s, g, b) :
          p # <<>> /\ p[1] = [id |-> w, version |-> RowOf(s, w).version, value |-> RowOf(s, w).value]
    BY <1>1, <2>1
  <2>3. w = rows[1].id
    BY <2>1, PlacesOnce
  <2>4. p[1].id = w /\ p[1].version = RowOf(s, w).version /\ p[1].value = RowOf(s, w).value
    BY <2>2
  <2>5. p[1].version = rows[1].version => p[1].value = rows[1].value
    BY <1>3, <2>3, <2>4 DEF SameValue
  <2> QED BY <1>3, <2>2, <2>3, <2>4, <2>5 DEF p
<1> QED BY <1>2, <1>3

\* An edit of a row that is there keeps the places, and every other row.
LEMMA EditKept ==
  ASSUME NEW s \in Stores, NEW t, NEW e \in Entries, EditOf(s, t, e, FALSE), e.id \in Ids(s), RowOf(s, e.id).dead = FALSE
  PROVE  /\ Kept(s, t) /\ RowOf(t, e.id).value = e.value
         /\ \A w \in Ids(s) : w # e.id => RowOf(t, w) = RowOf(s, w)
<1>1. Ids(t) = Ids(s)
  BY DEF EditOf, Ids
<1>2. \A w \in Ids(s) : w # e.id => RowOf(t, w) = RowOf(s, w)
  BY DEF EditOf, Ids, RowOf
<1>3. /\ RowOf(t, e.id).group = RowOf(s, e.id).group /\ RowOf(t, e.id).version = RowOf(s, e.id).version
      /\ RowOf(t, e.id).value = e.value /\ RowOf(t, e.id).dead = FALSE
  <2>1. RowOf(t, e.id) = t.copy[e.id]
    BY DEF EditOf, RowOf
  <2> QED BY <2>1 DEF EditOf
<1>4. \A w \in Ids(s) : RowOf(s, w).version \in Int
  BY RowThere DEF Rows
<1>5. ASSUME NEW w \in Ids(s)
      PROVE  /\ RowOf(t, w).group = RowOf(s, w).group /\ RowOf(t, w).dead = RowOf(s, w).dead
             /\ RowOf(t, w).version = RowOf(s, w).version
  BY <1>2, <1>3
<1>6. \A w \in Ids(s) : RowOf(s, w).version <= RowOf(t, w).version
  BY <1>4, <1>5
<1> QED BY <1>1, <1>2, <1>3, <1>5, <1>6 DEF Kept

\* So does a lesson; a row that it teaches has a later version.
LEMMA LearnKept ==
  ASSUME ShapeInv, NEW v, Learn(v)
  PROVE  /\ Kept(store, store')
         /\ \A w \in Ids(store) : \/ RowOf(store', w) = RowOf(store, w)
                                  \/ RowOf(store', w).version > RowOf(store, w).version
<1>1. /\ store'.copy = store.copy /\ v \in DOMAIN store.rows /\ DOMAIN store'.rows = DOMAIN store.rows
      /\ \A w \in DOMAIN store.rows : w # v => store'.rows[w] = store.rows[w]
      /\ store'.rows[v].version = store.rows[v].version + 1
      /\ store'.rows[v].group = store.rows[v].group /\ store'.rows[v].dead = store.rows[v].dead
  BY LearnIs
<1>2. store \in Stores /\ \A w \in Ids(store) : RowOf(store, w).version \in Int
  BY RowThere DEF ShapeInv, StoreType, Rows
<1>3. Ids(store') = Ids(store)
  BY <1>1 DEF Ids
<1>4. ASSUME NEW w \in Ids(store)
      PROVE  /\ RowOf(store', w).group = RowOf(store, w).group /\ RowOf(store', w).dead = RowOf(store, w).dead
             /\ RowOf(store, w).version <= RowOf(store', w).version
             /\ RowOf(store', w) = RowOf(store, w) \/ RowOf(store', w).version > RowOf(store, w).version
  <2>1. CASE w \in DOMAIN store.copy \/ w # v
    <3>1. RowOf(store', w) = RowOf(store, w)
      BY <1>1, <2>1 DEF RowOf, Ids
    <3> QED BY <1>2, <3>1
  <2>2. CASE w \notin DOMAIN store.copy /\ w = v
    <3>1. RowOf(store', w) = store'.rows[v] /\ RowOf(store, w) = store.rows[v]
      BY <1>1, <2>2 DEF RowOf
    <3>2. RowOf(store, w).version \in Int /\ RowOf(store', w).version = RowOf(store, w).version + 1
      BY <1>1, <1>2, <3>1
    <3>3. RowOf(store, w).version <= RowOf(store', w).version /\ RowOf(store', w).version > RowOf(store, w).version
      BY <3>2
    <3> QED BY <1>1, <3>1, <3>3
  <2> QED BY <2>1, <2>2
<1> QED BY <1>3, <1>4 DEF Kept
-----------------------------------------------------------------------------
(***************************************************************************)
(* What is shown, step by step.                                            *)
(***************************************************************************)
\* What will have the table filled again is passed on.
Tells(js) ==
  /\ (\E n \in DOMAIN alerts : alerts[n] = "refresh") => HasGroups(js) \/ \E n \in DOMAIN alerts' : alerts'[n] = "refresh"
  /\ \/ UNCHANGED done
     \/ /\ done # <<>> /\ done' = Tail(done) /\ Head(done).job.kind # "groups"
        /\ Head(done).job.kind = "mutate" /\ Head(done).error = FALSE => HasGroups(js)
        /\ Head(done).job.kind = "edit" /\ Head(done).error = TRUE => \E n \in DOMAIN alerts' : alerts'[n] = "refresh"

\* Groups that are asked for are in the queue.
LEMMA GroupsQueued ==
  ASSUME ShapeInv, NEW js, Goes(js), HasGroups(js)
  PROVE  Dirty'
<1>1. queue \in Seq(Jobs) /\ js \in Seq(Jobs) /\ queue' = queue \o js /\ count'.dialog = count.dialog
  BY DEF Goes, Sends, ShapeInv, JobType
<1>2. PICK i \in DOMAIN js : js[i].kind = "groups" /\ js[i].dialog = count.dialog
  BY DEF HasGroups, Goes, Sends
<1>3. Len(queue) + i \in DOMAIN queue' /\ queue'[Len(queue) + i] = js[i]
  <2>1. /\ queue' \in Seq(Jobs) /\ Len(queue') = Len(queue) + Len(js)
        /\ \A k \in 1 .. Len(queue) + Len(js) : queue'[k] = IF k <= Len(queue) THEN queue[k] ELSE js[k - Len(queue)]
    BY <1>1, ConcatProperties
  <2>2. Len(queue) \in Nat /\ Len(js) \in Nat /\ DOMAIN js = 1 .. Len(js) /\ DOMAIN queue' = 1 .. Len(queue')
    BY <1>1, <2>1, LenProperties
  <2>3. Len(queue) + i \in 1 .. Len(queue) + Len(js) /\ ~(Len(queue) + i <= Len(queue)) /\ (Len(queue) + i) - Len(queue) = i
    BY <2>2
  <2> QED BY <2>1, <2>2, <2>3
<1> QED BY <1>1, <1>2, <1>3 DEF Dirty, Of

\* So it goes on.
LEMMA DirtyStays ==
  ASSUME ShapeInv, NEW js, Goes(js), Tells(js), Dirty
  PROVE  Dirty'
<1>1. queue \in Seq(Jobs) /\ js \in Seq(Jobs) /\ queue' = queue \o js /\ count'.dialog = count.dialog /\ done \in Seq(Answers)
  BY DEF Goes, Sends, ShapeInv, JobType, DoneType
<1>2. CASE \E n \in DOMAIN queue : Of(queue[n], "groups", count.dialog)
  <2>1. \A i \in DOMAIN queue : i \in DOMAIN queue' /\ queue'[i] = queue[i]
    BY <1>1, QueueMore
  <2> QED BY <1>1, <1>2, <2>1 DEF Dirty
<1>3. CASE \E n \in DOMAIN alerts : alerts[n] = "refresh"
  <2>1. CASE HasGroups(js)
    BY <2>1, GroupsQueued
  <2>2. CASE \E n \in DOMAIN alerts' : alerts'[n] = "refresh"
    BY <2>2 DEF Dirty
  <2> QED BY <1>3, <2>1, <2>2 DEF Tells
<1>4. ASSUME NEW n \in DOMAIN done,
             \/ done[n].job.kind = "groups"
             \/ done[n].job.kind = "mutate" /\ done[n].error = FALSE
             \/ done[n].job.kind = "edit" /\ done[n].error = TRUE
      PROVE  Dirty'
  <2>1. CASE UNCHANGED done
    BY <1>4, <2>1 DEF Dirty
  <2>2. CASE ~UNCHANGED done
    <3>1. /\ done # <<>> /\ done' = Tail(done) /\ Head(done).job.kind # "groups"
          /\ Head(done).job.kind = "mutate" /\ Head(done).error = FALSE => HasGroups(js)
          /\ Head(done).job.kind = "edit" /\ Head(done).error = TRUE => \E m \in DOMAIN alerts' : alerts'[m] = "refresh"
      BY <2>2 DEF Tells
    <3>2. (n = 1 \/ (n - 1 \in DOMAIN done' /\ done'[n - 1] = done[n])) /\ done[1] = Head(done)
      BY <1>1, <3>1, WithoutFirst
    <3>3. CASE n = 1
      <4>1. HasGroups(js) \/ \E m \in DOMAIN alerts' : alerts'[m] = "refresh"
        BY <1>4, <3>1, <3>2, <3>3
      <4>2. CASE HasGroups(js)
        BY <4>2, GroupsQueued
      <4>3. CASE \E m \in DOMAIN alerts' : alerts'[m] = "refresh"
        BY <4>3 DEF Dirty
      <4> QED BY <4>1, <4>2, <4>3
    <3>4. CASE n - 1 \in DOMAIN done' /\ done'[n - 1] = done[n]
      BY <1>4, <3>4 DEF Dirty
    <3> QED BY <3>2, <3>3, <3>4
  <2> QED BY <2>1, <2>2
<1> QED BY <1>2, <1>3, <1>4 DEF Dirty

\* Some results are delivered, and jobs other than edits are submitted.
Follows(js) ==
  /\ Goes(js) /\ \A i \in DOMAIN js : js[i].kind # "edit"
  /\ UNCHANGED done \/ (done # <<>> /\ done' = Tail(done))

\* The edits are those that were there, the pages as well or behind them.
LEMMA FollowIs ==
  ASSUME ShapeInv, NEW js, Follows(js)
  PROVE  /\ count'.dialog = count.dialog /\ UNCHANGED store
         /\ \A i \in DOMAIN done' : \E n \in DOMAIN done : done'[i] = done[n]
         /\ \A i \in DOMAIN queue : i \in DOMAIN queue' /\ queue'[i] = queue[i]
         /\ \A m \in DOMAIN queue' : \A d : Of(queue'[m], "edit", d) =>
              /\ m \in DOMAIN queue /\ queue'[m] = queue[m]
              /\ \A n \in DOMAIN queue' : n < m => n \in DOMAIN queue /\ queue'[n] = queue[n]
<1>1. queue \in Seq(Jobs) /\ js \in Seq(Jobs) /\ queue' = queue \o js /\ count'.dialog = count.dialog /\ done \in Seq(Answers)
      /\ UNCHANGED store
  BY DEF Follows, Goes, Sends, ShapeInv, JobType, DoneType
<1>2. /\ \A i \in DOMAIN queue : i \in DOMAIN queue' /\ queue'[i] = queue[i] /\ i <= Len(queue)
      /\ \A i \in DOMAIN queue' : \/ i \in DOMAIN queue /\ queue'[i] = queue[i]
                                  \/ i > Len(queue) /\ \E k \in DOMAIN js : queue'[i] = js[k]
      /\ DOMAIN queue \subseteq Nat /\ DOMAIN queue' \subseteq Nat /\ Len(queue) \in Nat
  BY <1>1, QueueMore
<1>3. ASSUME NEW m \in DOMAIN queue', NEW d, Of(queue'[m], "edit", d)
      PROVE  /\ m \in DOMAIN queue /\ queue'[m] = queue[m]
             /\ \A n \in DOMAIN queue' : n < m => n \in DOMAIN queue /\ queue'[n] = queue[n]
  <2>1. m \in DOMAIN queue /\ queue'[m] = queue[m]
    BY <1>2, <1>3 DEF Follows, Of
  <2>2. \A n \in DOMAIN queue' : n < m => ~(n > Len(queue))
    BY <1>2, <2>1
  <2> QED BY <1>2, <2>1, <2>2
<1>4. PICK s : Shifted(s)
  BY <1>1, NoneShifted, OneShifted DEF Follows
<1>5. \A i \in DOMAIN done' : i + s \in DOMAIN done /\ done'[i] = done[i + s]
  BY <1>4 DEF Shifted
<1> QED BY <1>1, <1>2, <1>3, <1>5

\* The table stays as it is, and as right as it was.
LEMMA SteadyStays ==
  ASSUME ShapeInv, NEW js, Follows(js), SameCells(ui, ui'), PagesMatch, Emptied \/ Filled
  PROVE  PagesMatch' /\ (Emptied' \/ Filled')
<1>1. /\ count'.dialog = count.dialog /\ UNCHANGED store /\ ui'.cache = ui.cache /\ ui'.generation = ui.generation /\ ui'.group = ui.group
      /\ \A i \in DOMAIN done' : \E n \in DOMAIN done : done'[i] = done[n]
      /\ \A i \in DOMAIN queue : i \in DOMAIN queue' /\ queue'[i] = queue[i]
      /\ \A m \in DOMAIN queue' : \A d : Of(queue'[m], "edit", d) =>
           /\ m \in DOMAIN queue /\ queue'[m] = queue[m]
           /\ \A n \in DOMAIN queue' : n < m => n \in DOMAIN queue /\ queue'[n] = queue[n]
  BY FollowIs DEF SameCells
<1>2. \A j : (Of(j, "page", count'.dialog) /\ j.generation = ui'.generation) <=> Newest(j)
  BY <1>1 DEF Newest
<1>3. PagesMatch'
  <2> SUFFICES ASSUME NEW n \in DOMAIN done', Of(done'[n].job, "page", count'.dialog), done'[n].job.generation = ui'.generation
               PROVE  /\ Sits(store', ui'.group, done'[n].job.block, done'[n].rows)
                      /\ done'[n].rows # <<>> => SameValue(store', done'[n].rows[1])
    BY DEF PagesMatch, Newest
  <2>1. PICK i \in DOMAIN done : done'[n] = done[i]
    BY <1>1
  <2> QED BY <1>1, <1>2, <2>1 DEF PagesMatch
<1>4. CASE Emptied
  <2> SUFFICES ASSUME NEW m \in DOMAIN queue', Of(queue'[m], "edit", count'.dialog)
               PROVE  /\ \A n \in DOMAIN done' : ~(Of(done'[n].job, "page", count'.dialog) /\ done'[n].job.generation = ui'.generation)
                      /\ \A n \in DOMAIN queue' : n < m => ~(Of(queue'[n], "page", count'.dialog) /\ queue'[n].generation = ui'.generation)
    BY <1>1, <1>3, <1>4 DEF Emptied, Newest
  <2>1. /\ m \in DOMAIN queue /\ queue'[m] = queue[m]
        /\ \A n \in DOMAIN queue' : n < m => n \in DOMAIN queue /\ queue'[n] = queue[n]
    BY <1>1
  <2>2. /\ \A n \in DOMAIN done : ~Newest(done[n].job)
        /\ \A n \in DOMAIN queue : n < m => ~Newest(queue[n])
    BY <1>1, <1>4, <2>1 DEF Emptied
  <2> QED BY <1>1, <1>2, <2>1, <2>2
<1>5. CASE Filled
  <2>1. EditsLive'
    BY <1>1, <1>5 DEF Filled, EditsLive
  <2>2. EditsApart'
    <3> SUFFICES ASSUME NEW m \in DOMAIN queue', Of(queue'[m], "edit", count'.dialog)
                 PROVE  /\ \A n \in DOMAIN done' : (Of(done'[n].job, "page", count'.dialog) /\ done'[n].job.generation = ui'.generation)
                             => queue'[m].entry.id \notin Places(store', ui'.group, done'[n].job.block)
                        /\ \A n \in DOMAIN queue' : n < m /\ Of(queue'[n], "page", count'.dialog) /\ queue'[n].generation = ui'.generation
                             => queue'[m].entry.id \notin Places(store', ui'.group, queue'[n].block)
      BY DEF EditsApart, Newest
    <3>1. /\ m \in DOMAIN queue /\ queue'[m] = queue[m]
          /\ \A n \in DOMAIN queue' : n < m => n \in DOMAIN queue /\ queue'[n] = queue[n]
      BY <1>1
    <3>2. /\ \A n \in DOMAIN done : Newest(done[n].job) => queue[m].entry.id \notin Places(store, ui.group, done[n].job.block)
          /\ \A n \in DOMAIN queue : n < m /\ Newest(queue[n]) => queue[m].entry.id \notin Places(store, ui.group, queue[n].block)
      BY <1>1, <1>5, <3>1 DEF Filled, EditsApart
    <3> QED BY <1>1, <1>2, <3>1, <3>2
  <2>3. CellsMatch'
    <3> SUFFICES ASSUME NEW k \in DOMAIN ui'.cache
                 PROVE  /\ Sits(store', ui'.group, ui'.cache[k].block, ui'.cache[k].rows)
                        /\ ui'.cache[k].rows # <<>> => Latest(store', queue', ui'.cache[k].rows[1], count'.dialog)
      BY DEF CellsMatch
    <3>1. /\ Sits(store, ui.group, ui.cache[k].block, ui.cache[k].rows)
          /\ ui.cache[k].rows # <<>> => Latest(store, queue, ui.cache[k].rows[1], count.dialog)
      BY <1>1, <1>5 DEF Filled, CellsMatch
    <3>2. \A e : Latest(store, queue, e, count.dialog) => Latest(store, queue', e, count.dialog)
      <4> SUFFICES ASSUME NEW e, Latest(store, queue, e, count.dialog) PROVE Latest(store, queue', e, count.dialog)
        OBVIOUS
      <4>1. \A n \in DOMAIN queue' : Edits(queue'[n], e.id, count.dialog) => n \in DOMAIN queue /\ queue'[n] = queue[n]
        BY <1>1 DEF Edits
      <4> QED BY <1>1, <4>1 DEF Latest
    <3> QED BY <1>1, <3>1, <3>2
  <2> QED BY <1>3, <2>1, <2>2, <2>3 DEF Filled
<1> QED BY <1>4, <1>5

\* The table is emptied: no page that is under way is for it.
LEMMA ClearedIs ==
  ASSUME ShapeInv, FetchInv, NEW js, Follows(js), Clears(ui, ui')
  PROVE  PagesMatch' /\ Emptied'
<1>1. /\ count'.dialog = count.dialog /\ ui'.cache = <<>> /\ ui'.generation = ui.generation + 1
      /\ \A i \in DOMAIN done' : \E n \in DOMAIN done : done'[i] = done[n]
      /\ \A m \in DOMAIN queue' : \A d : Of(queue'[m], "edit", d) =>
           /\ m \in DOMAIN queue /\ queue'[m] = queue[m]
           /\ \A n \in DOMAIN queue' : n < m => n \in DOMAIN queue /\ queue'[n] = queue[n]
      /\ ui.open
  BY FollowIs DEF Clears, Follows, Goes
<1>2. ui.generation \in Nat /\ queue \in Seq(Jobs) /\ done \in Seq(Answers)
  BY DEF ShapeInv, UiType, Whole, Uis, JobType, DoneType
<1>3. \A n \in DOMAIN queue : Of(queue[n], "page", count.dialog) => queue[n].generation # ui'.generation
  <2> SUFFICES ASSUME NEW n \in DOMAIN queue, Of(queue[n], "page", count.dialog) PROVE queue[n].generation # ui'.generation
    OBVIOUS
  <2>1. queue[n] \in Jobs
    BY <1>2, ElementOfSeq, LenProperties
  <2>2. queue[n].generation <= ui.generation /\ queue[n].generation \in Nat
    BY <1>1, <2>1 DEF FetchInv, OnePage, Fetched, Jobs
  <2> QED BY <1>1, <1>2, <2>2
<1>4. \A n \in DOMAIN done : Of(done[n].job, "page", count.dialog) => done[n].job.generation # ui'.generation
  <2> SUFFICES ASSUME NEW n \in DOMAIN done, done[n].job.kind = "page" PROVE done[n].job.generation # ui'.generation
    BY DEF Of
  <2>1. done[n] \in Answers
    BY <1>2, ElementOfSeq, LenProperties
  <2>2. done[n].job.generation <= ui.generation /\ done[n].job.generation \in Nat
    BY <1>1, <2>1 DEF FetchInv, OnePage, Fetched, Jobs, Answers
  <2> QED BY <1>1, <1>2, <2>2
<1>5. \A n \in DOMAIN done' : ~(Of(done'[n].job, "page", count'.dialog) /\ done'[n].job.generation = ui'.generation)
  BY <1>1, <1>4
<1>6. PagesMatch'
  BY <1>5 DEF PagesMatch, Newest
<1>7. Emptied'
  BY <1>1, <1>3, <1>5 DEF Emptied, Newest
<1> QED BY <1>6, <1>7

\* A table that has not been shown is empty, and waits for nothing.
LEMMA UnloadedIs ==
  ASSUME FetchInv', ui'.open, ui'.loaded # TRUE
  PROVE  PagesMatch' /\ (ui'.cache = <<>> => Emptied')
<1>1. /\ \A n \in DOMAIN queue' : ~Of(queue'[n], "page", count'.dialog)
      /\ \A n \in DOMAIN done' : ~Of(done'[n].job, "page", count'.dialog)
  BY DEF FetchInv, OnePage, Fetched, Of
<1> QED BY <1>1 DEF PagesMatch, Emptied, Newest

\* A page comes: it is what its block holds, and nothing on its way changes it.
LEMMA ArrivedIs ==
  ASSUME ShapeInv, NEW js, Follows(js), done # <<>>, done' = Tail(done), Newest(Head(done).job),
         PagesMatch, Emptied \/ Filled, ui'.generation = ui.generation, ui'.group = ui.group,
         \A k \in DOMAIN ui'.cache :
           \/ ui'.cache[k] = [block |-> Head(done).job.block, rows |-> Head(done).rows]
           \/ \E n \in DOMAIN ui.cache : ui'.cache[k] = ui.cache[n]
  PROVE  PagesMatch' /\ Filled'
<1> DEFINE r == Head(done)
<1>1. /\ count'.dialog = count.dialog /\ UNCHANGED store
      /\ \A i \in DOMAIN done' : \E n \in DOMAIN done : done'[i] = done[n]
      /\ \A i \in DOMAIN queue : i \in DOMAIN queue' /\ queue'[i] = queue[i]
      /\ \A m \in DOMAIN queue' : \A d : Of(queue'[m], "edit", d) =>
           /\ m \in DOMAIN queue /\ queue'[m] = queue[m]
           /\ \A n \in DOMAIN queue' : n < m => n \in DOMAIN queue /\ queue'[n] = queue[n]
  BY FollowIs
<1>2. \A j : (Of(j, "page", count'.dialog) /\ j.generation = ui'.generation) <=> Newest(j)
  BY <1>1 DEF Newest
<1>3. 1 \in DOMAIN done /\ done[1] = r
  BY WithoutFirst DEF ShapeInv, DoneType
<1>4. Sits(store, ui.group, r.job.block, r.rows) /\ (r.rows # <<>> => SameValue(store, r.rows[1]))
  BY <1>3 DEF PagesMatch
<1>5. PagesMatch'
  <2> SUFFICES ASSUME NEW n \in DOMAIN done', Of(done'[n].job, "page", count'.dialog), done'[n].job.generation = ui'.generation
               PROVE  /\ Sits(store', ui'.group, done'[n].job.block, done'[n].rows)
                      /\ done'[n].rows # <<>> => SameValue(store', done'[n].rows[1])
    BY DEF PagesMatch, Newest
  <2>1. PICK i \in DOMAIN done : done'[n] = done[i]
    BY <1>1
  <2> QED BY <1>1, <1>2, <2>1 DEF PagesMatch
<1>6. \A m \in DOMAIN queue : Of(queue[m], "edit", count.dialog) =>
        /\ Filled /\ queue[m].entry.id \notin Places(store, ui.group, r.job.block)
  BY <1>3 DEF Emptied, Filled, EditsApart
<1>7. EditsLive'
  BY <1>1, <1>6 DEF Filled, EditsLive
<1>8. EditsApart'
  <2> SUFFICES ASSUME NEW m \in DOMAIN queue', Of(queue'[m], "edit", count'.dialog)
               PROVE  /\ \A n \in DOMAIN done' : (Of(done'[n].job, "page", count'.dialog) /\ done'[n].job.generation = ui'.generation)
                           => queue'[m].entry.id \notin Places(store', ui'.group, done'[n].job.block)
                      /\ \A n \in DOMAIN queue' : n < m /\ Of(queue'[n], "page", count'.dialog) /\ queue'[n].generation = ui'.generation
                           => queue'[m].entry.id \notin Places(store', ui'.group, queue'[n].block)
    BY DEF EditsApart, Newest
  <2>1. /\ m \in DOMAIN queue /\ queue'[m] = queue[m]
        /\ \A n \in DOMAIN queue' : n < m => n \in DOMAIN queue /\ queue'[n] = queue[n]
    BY <1>1
  <2>2. Filled
    BY <1>1, <1>6, <2>1
  <2>3. /\ \A n \in DOMAIN done : Newest(done[n].job) => queue[m].entry.id \notin Places(store, ui.group, done[n].job.block)
        /\ \A n \in DOMAIN queue : n < m /\ Newest(queue[n]) => queue[m].entry.id \notin Places(store, ui.group, queue[n].block)
    BY <1>1, <2>1, <2>2 DEF Filled, EditsApart
  <2> QED BY <1>1, <1>2, <2>1, <2>3
<1>9. \A n \in DOMAIN queue' : \A e : Edits(queue'[n], e.id, count.dialog) => n \in DOMAIN queue /\ queue'[n] = queue[n]
  BY <1>1 DEF Edits
<1>10. CellsMatch'
  <2> SUFFICES ASSUME NEW k \in DOMAIN ui'.cache
               PROVE  /\ Sits(store', ui'.group, ui'.cache[k].block, ui'.cache[k].rows)
                      /\ ui'.cache[k].rows # <<>> => Latest(store', queue', ui'.cache[k].rows[1], count'.dialog)
    BY DEF CellsMatch
  <2>1. CASE ui'.cache[k] = [block |-> r.job.block, rows |-> r.rows]
    <3>1. ASSUME r.rows # <<>> PROVE Latest(store, queue', r.rows[1], count.dialog)
      <4>1. r.rows[1].id \in Places(store, ui.group, r.job.block)
        BY <1>4, <3>1 DEF Sits
      <4>2. \A n \in DOMAIN queue' : ~Edits(queue'[n], r.rows[1].id, count.dialog)
        BY <1>6, <1>9, <4>1 DEF Edits
      <4> QED BY <1>4, <3>1, <4>2 DEF Latest
    <3> QED BY <1>1, <1>4, <2>1, <3>1
  <2>2. ASSUME NEW n \in DOMAIN ui.cache, ui'.cache[k] = ui.cache[n]
        PROVE  /\ Sits(store', ui'.group, ui'.cache[k].block, ui'.cache[k].rows)
               /\ ui'.cache[k].rows # <<>> => Latest(store', queue', ui'.cache[k].rows[1], count'.dialog)
    <3>1. Filled
      BY <2>2 DEF Emptied
    <3>2. /\ Sits(store, ui.group, ui.cache[n].block, ui.cache[n].rows)
          /\ ui.cache[n].rows # <<>> => Latest(store, queue, ui.cache[n].rows[1], count.dialog)
      BY <3>1 DEF Filled, CellsMatch
    <3>3. \A e : Latest(store, queue, e, count.dialog) => Latest(store, queue', e, count.dialog)
      BY <1>1, <1>9 DEF Latest
    <3> QED BY <1>1, <2>2, <3>2, <3>3
  <2> QED BY <2>1, <2>2
<1> QED BY <1>5, <1>7, <1>8, <1>10 DEF Filled

\* A cell is edited: it shows what its row will be, the last edit of it.
LEMMA EditKeepsShown ==
  ASSUME ShapeInv, FetchInv, NEW b \in Int, EditCell(b), PagesMatch, Emptied \/ Filled
  PROVE  PagesMatch' /\ Filled'
<1>1. PICK old \in Entries, e \in Entries, j \in Jobs :
           /\ Goes(<<j>>) /\ j.kind = "edit" /\ j.entry = e /\ j.dialog = count.dialog
           /\ CellEdited(b, old, e)
           /\ ui'.generation = ui.generation /\ ui'.group = ui.group /\ UNCHANGED done
  BY EditCellIs
<1> DEFINE l == Len(queue) + 1
<1>2. /\ queue \in Seq(Jobs) /\ queue' = Append(queue, j) /\ count'.dialog = count.dialog /\ UNCHANGED store /\ ui.open = TRUE
      /\ store \in Stores /\ InBounds(store)
  <2>1. queue \in Seq(Jobs) /\ queue' = queue \o <<j>> /\ count'.dialog = count.dialog /\ UNCHANGED store /\ ui.open = TRUE
    BY <1>1 DEF Goes, Sends, ShapeInv, JobType
  <2>2. queue \o <<j>> = Append(queue, j)
    BY <2>1, AppendIsConcat
  <2> QED BY <2>1, <2>2, SoundNow DEF Sound
<1>3. /\ \A i \in DOMAIN queue : i \in DOMAIN queue' /\ queue'[i] = queue[i] /\ i < l
      /\ \A i \in DOMAIN queue' : (i \in DOMAIN queue /\ queue'[i] = queue[i]) \/ (i = l /\ queue'[i] = j)
      /\ l \in DOMAIN queue' /\ queue'[l] = j
  BY <1>2, QueuedOne
<1>4. /\ DOMAIN queue \subseteq Nat /\ l \in Nat /\ \A m \in DOMAIN queue, n \in DOMAIN queue' : n < m => n \in DOMAIN queue
  <2>1. DOMAIN queue \subseteq Nat /\ l \in Nat
    BY <1>2, LenProperties
  <2>2. \A m \in DOMAIN queue : m < l /\ m \in Nat
    BY <1>3, <2>1
  <2>3. \A m \in DOMAIN queue : ~(l < m)
    BY <2>1, <2>2
  <2> QED BY <1>3, <2>1, <2>3
<1> HIDE DEF l
<1>5. \A i : (Of(i, "page", count'.dialog) /\ i.generation = ui'.generation) <=> Newest(i)
  BY <1>1, <1>2 DEF Newest
<1>6. PICK n0 \in DOMAIN ui.cache : ui.cache[n0].block = b /\ ui.cache[n0].rows # <<>> /\ ui.cache[n0].rows[1] = old
  BY <1>1 DEF CellEdited
<1>7. Filled /\ HasBlock(ui, b)
  BY <1>6 DEF Emptied, HasBlock
<1>8. /\ e.id = old.id /\ e.version = old.version /\ e.id \in Places(store, ui.group, b)
      /\ e.version <= RowOf(store, e.id).version /\ e.id \in Ids(store) /\ RowOf(store, e.id).dead = FALSE
  <2>1. Sits(store, ui.group, b, ui.cache[n0].rows)
    BY <1>6, <1>7 DEF Filled, CellsMatch
  <2>2. /\ e.id = old.id /\ e.version = old.version /\ e.id \in Places(store, ui.group, b)
        /\ e.version <= RowOf(store, e.id).version
    BY <1>1, <1>6, <2>1 DEF Sits, CellEdited
  <2>3. e.id \in Ids(store) /\ ~RowOf(store, e.id).dead
    BY <2>2 DEF Places, Live
  <2>4. RowOf(store, e.id).dead \in BOOLEAN
    BY <1>2, <2>3, RowThere DEF Rows
  <2> QED BY <2>2, <2>3, <2>4
<1>9. \A c, w : c # b /\ w \in Places(store, ui.group, c) => w # e.id
  BY <1>8 DEF Places
<1>10. /\ \A n \in DOMAIN done : Newest(done[n].job) => e.id \notin Places(store, ui.group, done[n].job.block)
       /\ \A n \in DOMAIN queue : Newest(queue[n]) => e.id \notin Places(store, ui.group, queue[n].block)
  BY <1>2, <1>7, <1>9 DEF FetchInv, OnePage, Fetched, Newest, Of
<1>11. PagesMatch'
  <2> SUFFICES ASSUME NEW n \in DOMAIN done', Of(done'[n].job, "page", count'.dialog), done'[n].job.generation = ui'.generation
               PROVE  /\ Sits(store', ui'.group, done'[n].job.block, done'[n].rows)
                      /\ done'[n].rows # <<>> => SameValue(store', done'[n].rows[1])
    BY DEF PagesMatch, Newest
  <2> QED BY <1>1, <1>2, <1>5 DEF PagesMatch
<1>12. EditsLive'
  <2> SUFFICES ASSUME NEW m \in DOMAIN queue', Of(queue'[m], "edit", count'.dialog)
               PROVE  queue'[m].entry.id \in Ids(store') /\ RowOf(store', queue'[m].entry.id).dead = FALSE
    BY DEF EditsLive
  <2>1. CASE m \in DOMAIN queue /\ queue'[m] = queue[m]
    BY <1>2, <1>7, <2>1 DEF Filled, EditsLive
  <2>2. CASE queue'[m] = j
    BY <1>1, <1>2, <1>8, <2>2
  <2> QED BY <1>3, <2>1, <2>2
<1>13. EditsApart'
  <2> SUFFICES ASSUME NEW m \in DOMAIN queue', Of(queue'[m], "edit", count'.dialog)
               PROVE  /\ \A n \in DOMAIN done' : (Of(done'[n].job, "page", count'.dialog) /\ done'[n].job.generation = ui'.generation)
                           => queue'[m].entry.id \notin Places(store', ui'.group, done'[n].job.block)
                      /\ \A n \in DOMAIN queue' : n < m /\ Of(queue'[n], "page", count'.dialog) /\ queue'[n].generation = ui'.generation
                           => queue'[m].entry.id \notin Places(store', ui'.group, queue'[n].block)
    BY DEF EditsApart, Newest
  <2>1. \A n \in DOMAIN queue' : Newest(queue'[n]) => n \in DOMAIN queue /\ queue'[n] = queue[n]
    BY <1>1, <1>3 DEF Newest, Of
  <2>2. CASE m \in DOMAIN queue /\ queue'[m] = queue[m]
    <3>1. /\ \A n \in DOMAIN done : Newest(done[n].job) => queue[m].entry.id \notin Places(store, ui.group, done[n].job.block)
          /\ \A n \in DOMAIN queue : n < m /\ Newest(queue[n]) => queue[m].entry.id \notin Places(store, ui.group, queue[n].block)
      BY <1>2, <1>7, <2>2 DEF Filled, EditsApart
    <3> QED BY <1>1, <1>2, <1>5, <2>1, <2>2, <3>1
  <2>3. CASE queue'[m] = j
    BY <1>1, <1>2, <1>5, <1>10, <2>1, <2>3
  <2> QED BY <1>3, <2>2, <2>3
<1>14. Latest(store, queue', e, count.dialog)
  <2>1. \A n \in DOMAIN queue' : n = l \/ n < l
    BY <1>3
  <2>2. Edits(queue'[l], e.id, count.dialog) /\ queue'[l].entry.value = e.value
    BY <1>1, <1>3 DEF Edits, Of
  <2>3. ASSUME NEW n \in DOMAIN queue', \A m \in DOMAIN queue' : n < m => ~Edits(queue'[m], e.id, count.dialog)
        PROVE  queue'[n].entry.value = e.value
    <3>1. n = l
      BY <1>3, <2>1, <2>2, <2>3
    <3> QED BY <2>2, <3>1
  <2> QED BY <1>3, <2>2, <2>3 DEF Latest
<1>15. ASSUME NEW c, c.id # e.id, Latest(store, queue, c, count.dialog) PROVE Latest(store, queue', c, count.dialog)
  <2>1. \A n \in DOMAIN queue' : Edits(queue'[n], c.id, count.dialog) => n \in DOMAIN queue /\ queue'[n] = queue[n]
    BY <1>1, <1>3, <1>15 DEF Edits
  <2> QED BY <1>3, <1>15, <2>1 DEF Latest
<1>16. CellsMatch'
  <2> SUFFICES ASSUME NEW k \in DOMAIN ui'.cache
               PROVE  /\ Sits(store', ui'.group, ui'.cache[k].block, ui'.cache[k].rows)
                      /\ ui'.cache[k].rows # <<>> => Latest(store', queue', ui'.cache[k].rows[1], count'.dialog)
    BY DEF CellsMatch
  <2>1. CASE ui'.cache[k] = [block |-> b, rows |-> <<e>>]
    <3>1. ui'.cache[k].block = b /\ ui'.cache[k].rows = <<e>> /\ <<e>> # <<>> /\ <<e>>[1] = e
      BY <2>1
    <3>2. Sits(store, ui.group, b, <<e>>)
      BY <1>8, <3>1 DEF Sits
    <3> QED BY <1>1, <1>2, <1>14, <3>1, <3>2
  <2>2. ASSUME NEW n \in DOMAIN ui.cache, ui'.cache[k] = ui.cache[n], ui'.cache[k].block # b
        PROVE  /\ Sits(store', ui'.group, ui'.cache[k].block, ui'.cache[k].rows)
               /\ ui'.cache[k].rows # <<>> => Latest(store', queue', ui'.cache[k].rows[1], count'.dialog)
    <3>1. /\ Sits(store, ui.group, ui.cache[n].block, ui.cache[n].rows)
          /\ ui.cache[n].rows # <<>> => Latest(store, queue, ui.cache[n].rows[1], count.dialog)
      BY <1>7 DEF Filled, CellsMatch
    <3>2. ui.cache[n].rows # <<>> => ui.cache[n].rows[1].id # e.id
      BY <1>9, <2>2, <3>1 DEF Sits
    <3>3. ui.cache[n].rows # <<>> => Latest(store, queue', ui.cache[n].rows[1], count.dialog)
      BY <1>15, <3>1, <3>2
    <3> QED BY <1>1, <1>2, <2>2, <3>1, <3>3
  <2> QED BY <1>1, <2>1, <2>2 DEF CellEdited
<1> QED BY <1>11, <1>12, <1>13, <1>16 DEF Filled

\* What a job does to the draft and the rows that the table shows: an edit
\* is written, or the table will be filled anew, or nothing is changed.
LEMMA WorkOnTable ==
  ASSUME Orderly, Work, ui.open, ui.draft
  PROVE  \/ Dirty'
         \/ Of(Head(queue), "edit", count.dialog) /\ EditOf(store, store', Head(queue).entry, FALSE)
         \/ ~Of(Head(queue), "edit", count.dialog) /\ UNCHANGED store
<1> DEFINE j == Head(queue)
<1>1. ShapeInv /\ HandInv /\ Worked(j) /\ j \in Jobs
  BY WorkIs DEF Orderly, Worked
<1>2. store.owner = count.dialog /\ store.owner # Nobody
  <2>1. store.owner = count.dialog
    BY <1>1 DEF HandInv, Granted, Known
  <2> QED BY <1>1, <2>1, OpenIs DEF Dialogs, Nobody
<1>3. ASSUME NEW r, Answered(j, r), j.dialog = count.dialog, r.error \in BOOLEAN,
             \/ j.kind = "mutate" /\ r.error = FALSE
             \/ j.kind = "edit" /\ r.error = TRUE
      PROVE  Dirty'
  <2>1. done \in Seq(Answers) /\ r \in Answers /\ r.job = j /\ done' = Append(done, r)
    BY <1>1, <1>3 DEF Answered, ShapeInv, DoneType
  <2>2. Len(done) + 1 \in DOMAIN done' /\ done'[Len(done) + 1] = r
    BY <2>1, GrownByOne
  <2> QED BY <1>3, <2>1, <2>2 DEF Dirty
<1>4. CASE j.kind = "begin" /\ DoBegin(j)
  <2>1. UNCHANGED store
    BY <1>1, <1>2, <1>4, DoBeginIs
  <2> QED BY <1>4, <2>1 DEF Of
<1>5. CASE (j.kind = "groups" /\ DoGroups(j)) \/ (j.kind = "page" /\ DoPage(j)) \/ (j.kind = "flush" /\ DoFlush(j))
  BY <1>5 DEF DoGroups, DoPage, DoFlush, Of
<1>6. CASE j.kind = "discard" /\ DoDiscard(j)
  <2>1. 1 \in DOMAIN queue /\ queue[1] = j
    BY <1>1, WithoutFirst DEF ShapeInv, JobType, Worked
  <2>2. j.dialog # count.dialog
    BY <1>1, <1>6, <2>1 DEF HandInv, KeptOpen, Discards
  <2>3. UNCHANGED store
    BY <1>1, <1>2, <1>6, <2>2, DoDiscardIs
  <2> QED BY <1>6, <2>3 DEF Of
<1>7. CASE j.kind = "mutate" /\ DoMutate(j)
  <2>1. j.act \in AllActions
    BY <1>1, <1>7, WithoutFirst DEF ShapeInv, JobType, Worked
  <2>2. PICK r : Answered(j, r) /\ (r.error = TRUE => UNCHANGED store) /\ (r.error = FALSE => Owned(j))
    BY <1>1, <1>7, <2>1, DoMutateIs
  <2>3. r.error \in BOOLEAN
    BY <2>2 DEF Answered, Answers
  <2>4. CASE r.error = TRUE
    BY <1>7, <2>2, <2>4 DEF Of
  <2>5. CASE r.error = FALSE
    <3>1. j.dialog = count.dialog
      BY <1>2, <2>2, <2>5 DEF Owned
    <3> QED BY <1>3, <1>7, <2>2, <2>3, <2>5, <3>1
  <2> QED BY <2>3, <2>4, <2>5
<1>8. CASE j.kind = "edit" /\ DoEdit(j)
  <2>1. PICK r : /\ Answered(j, r)
                 /\ \/ r.error = TRUE /\ UNCHANGED store
                    \/ r.error = FALSE /\ Owned(j) /\ EditOf(store, store', j.entry, FALSE)
    BY <1>1, <1>8, DoEditIs
  <2>2. CASE j.dialog # count.dialog
    <3>1. UNCHANGED store
      BY <1>2, <2>1, <2>2 DEF Owned
    <3> QED BY <2>2, <3>1 DEF Of
  <2>3. CASE j.dialog = count.dialog
    <3>1. CASE r.error = TRUE
      BY <1>3, <1>8, <2>1, <2>3, <3>1
    <3>2. CASE EditOf(store, store', j.entry, FALSE)
      BY <1>8, <2>3, <3>2 DEF Of
    <3> QED BY <2>1, <3>1, <3>2
  <2> QED BY <2>2, <2>3
<1> QED BY <1>4, <1>5, <1>6, <1>7, <1>8 DEF Work

\* The queue without its first job.
Rest ==
  /\ 1 \in DOMAIN queue /\ queue[1] = Head(queue)
  /\ \A i \in DOMAIN queue' : i + 1 \in DOMAIN queue /\ queue'[i] = queue[i + 1] /\ 1 < i + 1
  /\ \A i, n \in DOMAIN queue' : n < i => n + 1 < i + 1
  /\ \A m \in DOMAIN queue : m = 1 \/ (m - 1 \in DOMAIN queue' /\ queue'[m - 1] = queue[m])
  /\ \A n \in DOMAIN queue', m \in DOMAIN queue : n + 1 < m => m # 1 /\ n < m - 1

\* It is.
LEMMA RestIs == ASSUME queue \in Seq(Jobs), queue # <<>>, queue' = Tail(queue) PROVE Rest
<1>1. 1 \in DOMAIN queue /\ queue[1] = Head(queue)
  BY WithoutFirst
<1>2. /\ \A i \in DOMAIN queue' : i + 1 \in DOMAIN queue /\ queue'[i] = queue[i + 1] /\ i \in Nat /\ i + 1 > 1
      /\ \A i \in DOMAIN queue : i = 1 \/ (i > 1 /\ i - 1 \in DOMAIN queue' /\ queue'[i - 1] = queue[i])
      /\ \A i, n \in DOMAIN queue' : n < i <=> n + 1 < i + 1
      /\ DOMAIN queue \subseteq Nat
  BY QueueRest
<1>3. \A i \in DOMAIN queue' : 1 < i + 1
  BY <1>2
<1>4. ASSUME NEW n \in DOMAIN queue', NEW m \in DOMAIN queue, n + 1 < m PROVE m # 1 /\ n < m - 1
  <2>1. n \in Nat /\ m \in Nat /\ n + 1 > 1
    BY <1>2
  <2> QED BY <1>4, <2>1
<1> QED BY <1>1, <1>2, <1>3, <1>4 DEF Rest

\* A row is shown as the jobs of q after j leave it, or j itself.
LatestAfter(j, q, s, e, d) ==
  /\ (\A n \in DOMAIN q : ~Edits(q[n], e.id, d)) =>
       IF Edits(j, e.id, d) THEN j.entry.value = e.value ELSE SameValue(s, e)
  /\ \A n \in DOMAIN q : Edits(q[n], e.id, d) /\ (\A m \in DOMAIN q : n < m => ~Edits(q[m], e.id, d))
                           => q[n].entry.value = e.value

\* What is still on its way to a row when the first job is done.
LEMMA LatestRest ==
  ASSUME Rest, NEW s, NEW e, NEW d, Latest(s, queue, e, d)
  PROVE  LatestAfter(Head(queue), queue', s, e, d)
<1>1. ASSUME NEW n \in DOMAIN queue', Edits(queue'[n], e.id, d), \A m \in DOMAIN queue' : n < m => ~Edits(queue'[m], e.id, d)
      PROVE  queue'[n].entry.value = e.value
  <2>1. n + 1 \in DOMAIN queue /\ queue'[n] = queue[n + 1]
    BY DEF Rest
  <2>2. ASSUME NEW m \in DOMAIN queue, n + 1 < m PROVE ~Edits(queue[m], e.id, d)
    <3>1. m - 1 \in DOMAIN queue' /\ queue'[m - 1] = queue[m] /\ n < m - 1
      BY <2>2 DEF Rest
    <3> QED BY <1>1, <3>1
  <2> QED BY <1>1, <2>1, <2>2 DEF Latest
<1>2. ASSUME \A n \in DOMAIN queue' : ~Edits(queue'[n], e.id, d)
      PROVE  \A m \in DOMAIN queue : m # 1 => ~Edits(queue[m], e.id, d)
  BY <1>2 DEF Rest
<1>3. ASSUME \A n \in DOMAIN queue' : ~Edits(queue'[n], e.id, d), Edits(Head(queue), e.id, d)
      PROVE  Head(queue).entry.value = e.value
  <2>1. 1 \in DOMAIN queue /\ queue[1] = Head(queue) /\ \A m \in DOMAIN queue : 1 < m => m # 1
    BY DEF Rest
  <2> QED BY <1>2, <1>3, <2>1 DEF Latest
<1>4. ASSUME \A n \in DOMAIN queue' : ~Edits(queue'[n], e.id, d), ~Edits(Head(queue), e.id, d)
      PROVE  SameValue(s, e)
  <2>1. \A m \in DOMAIN queue : ~Edits(queue[m], e.id, d)
    BY <1>2, <1>4 DEF Rest
  <2> QED BY <2>1 DEF Latest
<1> QED BY <1>1, <1>3, <1>4 DEF LatestAfter

\* The worker does not undo that the table will be filled anew.
LEMMA WorkDirty == ASSUME Orderly, Work, ui.open, Dirty PROVE Dirty'
<1> DEFINE j == Head(queue)
<1>1. /\ Worked(j) /\ UNCHANGED <<ui, alerts, count>> /\ queue \in Seq(Jobs) /\ queue # <<>> /\ queue' = Tail(queue)
      /\ ShapeInv /\ j \in Jobs
  BY WorkIs DEF Orderly, ShapeInv, JobType, Worked
<1>2. Rest /\ \A i \in DOMAIN done : i \in DOMAIN done' /\ done'[i] = done[i]
  BY <1>1, RestIs, AnswersMore
<1>3. CASE \E n \in DOMAIN queue : Of(queue[n], "groups", count.dialog)
  <2>1. PICK n \in DOMAIN queue : Of(queue[n], "groups", count.dialog)
    BY <1>3
  <2>2. CASE n # 1
    <3>1. n - 1 \in DOMAIN queue' /\ queue'[n - 1] = queue[n]
      BY <1>2, <2>2 DEF Rest
    <3> QED BY <1>1, <2>1, <3>1 DEF Dirty
  <2>3. CASE n = 1
    <3>1. j.kind = "groups" /\ j.dialog = count.dialog
      BY <1>2, <2>1, <2>3 DEF Rest, Of
    <3>2. DoGroups(j)
      BY <3>1 DEF Work
    <3>3. PICK r : Answered(j, r)
      BY <1>1, <3>2, DoGroupsIs
    <3>4. done \in Seq(Answers) /\ r \in Answers /\ r.job = j /\ done' = Append(done, r)
      BY <1>1, <3>1, <3>3 DEF Answered, ShapeInv, DoneType
    <3>5. Len(done) + 1 \in DOMAIN done' /\ done'[Len(done) + 1] = r
      BY <3>4, GrownByOne
    <3> QED BY <3>1, <3>4, <3>5 DEF Dirty
  <2> QED BY <2>2, <2>3
<1>4. CASE \/ \E n \in DOMAIN done : \/ done[n].job.kind = "groups"
                                     \/ done[n].job.kind = "mutate" /\ done[n].error = FALSE
                                     \/ done[n].job.kind = "edit" /\ done[n].error = TRUE
           \/ \E n \in DOMAIN alerts : alerts[n] = "refresh"
  BY <1>1, <1>2, <1>4 DEF Dirty
<1> QED BY <1>3, <1>4 DEF Dirty

\* The page for the table that the first job reads.
FreshPage(r) ==
  /\ Newest(queue[1]) /\ r.job = queue[1] /\ UNCHANGED store
  /\ r.rows = Page(store, ui.group, queue[1].block)

\* The pages for the table after a job: those that were there, and its own.
LEMMA PagesAfter ==
  ASSUME Orderly, FetchInv, Work, ui.open, NEW i \in DOMAIN done', Newest(done'[i].job)
  PROVE  (i \in DOMAIN done /\ done'[i] = done[i]) \/ FreshPage(done'[i])
<1> DEFINE j == Head(queue)
<1>1. /\ Worked(j) /\ queue \in Seq(Jobs) /\ queue # <<>> /\ queue' = Tail(queue) /\ ShapeInv /\ j \in Jobs /\ done \in Seq(Answers)
  BY WorkIs DEF Orderly, ShapeInv, JobType, DoneType, Worked
<1>2. 1 \in DOMAIN queue /\ queue[1] = j
  BY <1>1, WithoutFirst
<1>3. \/ i \in DOMAIN done /\ done'[i] = done[i]
      \/ i = Len(done) + 1 /\ done'[i].job = j /\ j.dialog = count.dialog
  BY <1>1, AnswersMore
<1>4. CASE i = Len(done) + 1 /\ done'[i].job = j /\ j.dialog = count.dialog
  <2>1. j.kind = "page" /\ Newest(j)
    BY <1>4 DEF Newest, Of
  <2>2. DoPage(j)
    BY <2>1 DEF Work
  <2>3. PICK r : Answered(j, r) /\ UNCHANGED store /\ r.rows = Page(store, j.group, j.block)
    BY <1>1, <2>2, DoPageIs
  <2>4. r \in Answers /\ r.job = j /\ done' = Append(done, r)
    BY <1>4, <2>3 DEF Answered
  <2>5. done'[i] = r
    BY <1>1, <1>4, <2>4, GrownByOne
  <2>6. j.group = ui.group
    BY <1>2, <2>1 DEF FetchInv, OnePage, Fetched, Newest, Of
  <2> QED BY <1>2, <2>1, <2>3, <2>4, <2>5, <2>6 DEF FreshPage
<1> QED BY <1>3, <1>4

\* A job that changes nothing keeps the table right.
LEMMA IdleKeepsShown ==
  ASSUME Orderly, FetchInv, Work, ui.open, UNCHANGED store, ~Of(Head(queue), "edit", count.dialog),
         PagesMatch, Emptied \/ Filled
  PROVE  PagesMatch' /\ (Emptied' \/ Filled')
<1>1. /\ UNCHANGED <<ui, alerts, count>> /\ Rest /\ store \in Stores /\ InBounds(store)
  <2>1. Worked(Head(queue)) /\ queue \in Seq(Jobs) /\ queue # <<>> /\ queue' = Tail(queue)
    BY WorkIs DEF Orderly, ShapeInv, JobType, Worked
  <2> QED BY <2>1, RestIs, SoundNow DEF Orderly, Sound, Worked
<1>2. \A j : (Of(j, "page", count'.dialog) /\ j.generation = ui'.generation) <=> Newest(j)
  BY <1>1 DEF Newest
<1>3. \A i \in DOMAIN done' : Newest(done'[i].job) => (i \in DOMAIN done /\ done'[i] = done[i]) \/ FreshPage(done'[i])
  BY PagesAfter
<1>4. PagesMatch'
  <2> SUFFICES ASSUME NEW n \in DOMAIN done', Of(done'[n].job, "page", count'.dialog), done'[n].job.generation = ui'.generation
               PROVE  /\ Sits(store', ui'.group, done'[n].job.block, done'[n].rows)
                      /\ done'[n].rows # <<>> => SameValue(store', done'[n].rows[1])
    BY DEF PagesMatch, Newest
  <2>1. Newest(done'[n].job)
    BY <1>2
  <2>2. CASE n \in DOMAIN done /\ done'[n] = done[n]
    BY <1>1, <2>1, <2>2 DEF PagesMatch
  <2>3. CASE FreshPage(done'[n])
    <3>1. done'[n].job.block = queue[1].block /\ done'[n].rows = Page(store, ui.group, queue[1].block)
      BY <2>3 DEF FreshPage
    <3>2. /\ Sits(store, ui.group, queue[1].block, Page(store, ui.group, queue[1].block))
          /\ Page(store, ui.group, queue[1].block) # <<>> => SameValue(store, Page(store, ui.group, queue[1].block)[1])
      BY <1>1, PageSits
    <3> QED BY <1>1, <3>1, <3>2
  <2> QED BY <1>3, <2>1, <2>2, <2>3
<1>5. CASE Emptied
  <2> SUFFICES ASSUME NEW m \in DOMAIN queue', Of(queue'[m], "edit", count'.dialog)
               PROVE  /\ \A n \in DOMAIN done' : ~(Of(done'[n].job, "page", count'.dialog) /\ done'[n].job.generation = ui'.generation)
                      /\ \A n \in DOMAIN queue' : n < m => ~(Of(queue'[n], "page", count'.dialog) /\ queue'[n].generation = ui'.generation)
    BY <1>1, <1>4, <1>5 DEF Emptied, Newest
  <2>1. m + 1 \in DOMAIN queue /\ queue'[m] = queue[m + 1] /\ 1 < m + 1 /\ 1 \in DOMAIN queue
    BY <1>1 DEF Rest
  <2>2. /\ \A n \in DOMAIN done : ~Newest(done[n].job)
        /\ \A n \in DOMAIN queue : n < m + 1 => ~Newest(queue[n])
    BY <1>1, <1>5, <2>1 DEF Emptied
  <2>3. \A n \in DOMAIN done' : ~Newest(done'[n].job)
    BY <1>3, <2>1, <2>2 DEF FreshPage
  <2>4. \A n \in DOMAIN queue' : n < m => ~Newest(queue'[n])
    BY <1>1, <2>2 DEF Rest
  <2> QED BY <1>2, <2>3, <2>4
<1>6. CASE Filled
  <2>1. EditsLive'
    <3> SUFFICES ASSUME NEW m \in DOMAIN queue', Of(queue'[m], "edit", count'.dialog)
                 PROVE  queue'[m].entry.id \in Ids(store') /\ RowOf(store', queue'[m].entry.id).dead = FALSE
      BY DEF EditsLive
    <3>1. m + 1 \in DOMAIN queue /\ queue'[m] = queue[m + 1]
      BY <1>1 DEF Rest
    <3> QED BY <1>1, <1>6, <3>1 DEF Filled, EditsLive
  <2>2. EditsApart'
    <3> SUFFICES ASSUME NEW m \in DOMAIN queue', Of(queue'[m], "edit", count'.dialog)
                 PROVE  /\ \A n \in DOMAIN done' : (Of(done'[n].job, "page", count'.dialog) /\ done'[n].job.generation = ui'.generation)
                             => queue'[m].entry.id \notin Places(store', ui'.group, done'[n].job.block)
                        /\ \A n \in DOMAIN queue' : n < m /\ Of(queue'[n], "page", count'.dialog) /\ queue'[n].generation = ui'.generation
                             => queue'[m].entry.id \notin Places(store', ui'.group, queue'[n].block)
      BY DEF EditsApart, Newest
    <3>1. m + 1 \in DOMAIN queue /\ queue'[m] = queue[m + 1] /\ 1 < m + 1 /\ 1 \in DOMAIN queue
      BY <1>1 DEF Rest
    <3>2. /\ \A n \in DOMAIN done : Newest(done[n].job) => queue[m + 1].entry.id \notin Places(store, ui.group, done[n].job.block)
          /\ \A n \in DOMAIN queue : n < m + 1 /\ Newest(queue[n]) => queue[m + 1].entry.id \notin Places(store, ui.group, queue[n].block)
      BY <1>1, <1>6, <3>1 DEF Filled, EditsApart
    <3>3. \A n \in DOMAIN done' : Newest(done'[n].job) => queue[m + 1].entry.id \notin Places(store, ui.group, done'[n].job.block)
      BY <1>3, <3>1, <3>2 DEF FreshPage
    <3>4. \A n \in DOMAIN queue' : n < m => n + 1 \in DOMAIN queue /\ n + 1 < m + 1 /\ queue'[n] = queue[n + 1]
      BY <1>1 DEF Rest
    <3>5. \A n \in DOMAIN queue' : n < m /\ Newest(queue'[n]) => queue[m + 1].entry.id \notin Places(store, ui.group, queue'[n].block)
      BY <3>2, <3>4
    <3> QED BY <1>1, <1>2, <3>1, <3>3, <3>5
  <2>3. ASSUME NEW e, Latest(store, queue, e, count.dialog) PROVE Latest(store, queue', e, count.dialog)
    <3>1. ~Edits(Head(queue), e.id, count.dialog)
      BY DEF Edits
    <3>2. LatestAfter(Head(queue), queue', store, e, count.dialog)
      BY <1>1, <2>3, LatestRest
    <3> QED BY <3>1, <3>2 DEF LatestAfter, Latest
  <2>4. CellsMatch'
    <3> SUFFICES ASSUME NEW k \in DOMAIN ui'.cache
                 PROVE  /\ Sits(store', ui'.group, ui'.cache[k].block, ui'.cache[k].rows)
                        /\ ui'.cache[k].rows # <<>> => Latest(store', queue', ui'.cache[k].rows[1], count'.dialog)
      BY DEF CellsMatch
    <3>1. /\ Sits(store, ui.group, ui.cache[k].block, ui.cache[k].rows)
          /\ ui.cache[k].rows # <<>> => Latest(store, queue, ui.cache[k].rows[1], count.dialog)
      BY <1>1, <1>6 DEF Filled, CellsMatch
    <3> QED BY <1>1, <2>3, <3>1
  <2> QED BY <1>4, <2>1, <2>2, <2>4 DEF Filled
<1> QED BY <1>5, <1>6

\* An edit that is written is what its cell shows.
LEMMA WrittenKeepsShown ==
  ASSUME Orderly, FetchInv, Work, ui.open, Of(Head(queue), "edit", count.dialog),
         EditOf(store, store', Head(queue).entry, FALSE), PagesMatch, Emptied \/ Filled
  PROVE  PagesMatch' /\ (Emptied' \/ Filled')
<1> DEFINE j == Head(queue)
           e == j.entry
<1>1. /\ UNCHANGED <<ui, alerts, count>> /\ Rest /\ store \in Stores /\ InBounds(store) /\ store' \in Stores
      /\ e \in Entries /\ done \in Seq(Answers) /\ ui.cache \in Seq(Cells)
  <2>1. Worked(Head(queue)) /\ queue \in Seq(Jobs) /\ queue # <<>> /\ queue' = Tail(queue) /\ j \in Jobs
    BY WorkIs DEF Orderly, ShapeInv, JobType, Worked
  <2>2. e \in Entries
    BY <2>1 DEF Jobs
  <2> QED BY <2>1, <2>2, RestIs, SoundNow DEF Orderly, Sound, Worked, ShapeInv, DoneType, UiType, Whole, SmallCache
<1>2. \A i : (Of(i, "page", count'.dialog) /\ i.generation = ui'.generation) <=> Newest(i)
  BY <1>1 DEF Newest
<1>21. 1 \in DOMAIN queue /\ queue[1] = j /\ \A m \in DOMAIN queue' : 1 < m + 1
  BY <1>1 DEF Rest
<1>3. \A i \in DOMAIN done' : Newest(done'[i].job) => i \in DOMAIN done /\ done'[i] = done[i]
  <2>1. ~Newest(queue[1])
    BY <1>21 DEF Newest, Of
  <2> QED BY <2>1, PagesAfter DEF FreshPage
<1>4. CASE Emptied
  <2>1. \A n \in DOMAIN done : ~Newest(done[n].job)
    BY <1>4, <1>21 DEF Emptied
  <2>2. PagesMatch'
    BY <1>2, <1>3, <2>1 DEF PagesMatch, Newest
  <2> SUFFICES ASSUME NEW m \in DOMAIN queue', Of(queue'[m], "edit", count'.dialog)
               PROVE  /\ \A n \in DOMAIN done' : ~(Of(done'[n].job, "page", count'.dialog) /\ done'[n].job.generation = ui'.generation)
                      /\ \A n \in DOMAIN queue' : n < m => ~(Of(queue'[n], "page", count'.dialog) /\ queue'[n].generation = ui'.generation)
    BY <1>1, <1>4, <2>2 DEF Emptied, Newest
  <2>3. m + 1 \in DOMAIN queue /\ queue'[m] = queue[m + 1]
    BY <1>1 DEF Rest
  <2>4. \A n \in DOMAIN queue : n < m + 1 => ~Newest(queue[n])
    BY <1>1, <1>4, <2>3 DEF Emptied
  <2>5. \A n \in DOMAIN queue' : n < m => ~Newest(queue'[n])
    BY <1>1, <2>4 DEF Rest
  <2> QED BY <1>2, <1>3, <2>1, <2>5
<1>5. CASE Filled
  <2>1. e.id \in Ids(store) /\ RowOf(store, e.id).dead = FALSE
    BY <1>5, <1>21 DEF Filled, EditsLive
  <2>2. /\ Kept(store, store') /\ RowOf(store', e.id).value = e.value
        /\ \A w \in Ids(store) : w # e.id => RowOf(store', w) = RowOf(store, w)
    BY <1>1, <2>1, EditKept
  <2>3. \A g, b : Places(store', g, b) = Places(store, g, b)
    BY <2>2, KeptPlaces
  <2>4. ASSUME NEW rows \in Seq(Entries), NEW b, Sits(store, ui.group, b, rows)
        PROVE  /\ Sits(store', ui.group, b, rows)
               /\ rows # <<>> => rows[1].id \in Ids(store) /\ rows[1].id \in Places(store, ui.group, b)
    <3>1. Sits(store', ui.group, b, rows)
      BY <1>1, <2>2, <2>4, KeptSits
    <3>2. rows # <<>> => rows[1].id \in Places(store, ui.group, b)
      BY <2>4 DEF Sits
    <3> QED BY <3>1, <3>2 DEF Places, Live
  <2>5. ASSUME NEW c, c.id \in Ids(store), c.id # e.id, SameValue(store, c) PROVE SameValue(store', c)
    BY <2>2, <2>5 DEF SameValue
  <2>6. PagesMatch'
    <3> SUFFICES ASSUME NEW n \in DOMAIN done', Of(done'[n].job, "page", count'.dialog), done'[n].job.generation = ui'.generation
                 PROVE  /\ Sits(store', ui'.group, done'[n].job.block, done'[n].rows)
                        /\ done'[n].rows # <<>> => SameValue(store', done'[n].rows[1])
      BY DEF PagesMatch, Newest
    <3>1. n \in DOMAIN done /\ done'[n] = done[n] /\ Newest(done[n].job)
      BY <1>2, <1>3
    <3>2. done[n] \in Answers
      BY <1>1, <3>1, ElementOfSeq, LenProperties
    <3>3. done[n].rows \in Seq(Entries)
      BY <3>2 DEF Answers
    <3>4. /\ Sits(store, ui.group, done[n].job.block, done[n].rows)
          /\ done[n].rows # <<>> => SameValue(store, done[n].rows[1])
      BY <3>1 DEF PagesMatch
    <3>5. e.id \notin Places(store, ui.group, done[n].job.block)
      BY <1>5, <1>21, <3>1 DEF Filled, EditsApart
    <3> QED BY <1>1, <2>4, <2>5, <3>1, <3>3, <3>4, <3>5
  <2>7. EditsLive'
    <3> SUFFICES ASSUME NEW m \in DOMAIN queue', Of(queue'[m], "edit", count'.dialog)
                 PROVE  queue'[m].entry.id \in Ids(store') /\ RowOf(store', queue'[m].entry.id).dead = FALSE
      BY DEF EditsLive
    <3>1. m + 1 \in DOMAIN queue /\ queue'[m] = queue[m + 1]
      BY <1>1 DEF Rest
    <3>2. queue[m + 1].entry.id \in Ids(store) /\ RowOf(store, queue[m + 1].entry.id).dead = FALSE
      BY <1>1, <1>5, <3>1 DEF Filled, EditsLive
    <3> QED BY <2>2, <3>1, <3>2 DEF Kept
  <2>8. EditsApart'
    <3> SUFFICES ASSUME NEW m \in DOMAIN queue', Of(queue'[m], "edit", count'.dialog)
                 PROVE  /\ \A n \in DOMAIN done' : (Of(done'[n].job, "page", count'.dialog) /\ done'[n].job.generation = ui'.generation)
                             => queue'[m].entry.id \notin Places(store', ui'.group, done'[n].job.block)
                        /\ \A n \in DOMAIN queue' : n < m /\ Of(queue'[n], "page", count'.dialog) /\ queue'[n].generation = ui'.generation
                             => queue'[m].entry.id \notin Places(store', ui'.group, queue'[n].block)
      BY DEF EditsApart, Newest
    <3>1. m + 1 \in DOMAIN queue /\ queue'[m] = queue[m + 1]
      BY <1>1 DEF Rest
    <3>2. /\ \A n \in DOMAIN done : Newest(done[n].job) => queue[m + 1].entry.id \notin Places(store, ui.group, done[n].job.block)
          /\ \A n \in DOMAIN queue : n < m + 1 /\ Newest(queue[n]) => queue[m + 1].entry.id \notin Places(store, ui.group, queue[n].block)
      BY <1>1, <1>5, <3>1 DEF Filled, EditsApart
    <3>3. \A n \in DOMAIN queue' : n < m => n + 1 \in DOMAIN queue /\ n + 1 < m + 1 /\ queue'[n] = queue[n + 1]
      BY <1>1 DEF Rest
    <3>4. \A n \in DOMAIN queue' : n < m /\ Newest(queue'[n]) => queue[m + 1].entry.id \notin Places(store, ui.group, queue'[n].block)
      BY <3>2, <3>3
    <3> QED BY <1>1, <1>2, <1>3, <2>3, <3>1, <3>2, <3>4
  <2>9. ASSUME NEW c, c.id \in Ids(store), Latest(store, queue, c, count.dialog) PROVE Latest(store', queue', c, count.dialog)
    <3>1. LatestAfter(j, queue', store, c, count.dialog)
      BY <1>1, <2>9, LatestRest
    <3>2. CASE c.id = e.id
      <4>1. Edits(j, c.id, count.dialog)
        BY <3>2 DEF Edits
      <4>2. e.value = c.value => SameValue(store', c)
        BY <2>2, <3>2 DEF SameValue
      <4> QED BY <3>1, <4>1, <4>2 DEF LatestAfter, Latest
    <3>3. CASE c.id # e.id
      <4>1. ~Edits(j, c.id, count.dialog)
        BY <3>3 DEF Edits
      <4>2. SameValue(store, c) => SameValue(store', c)
        BY <2>5, <2>9, <3>3
      <4> QED BY <3>1, <4>1, <4>2 DEF LatestAfter, Latest
    <3> QED BY <3>2, <3>3
  <2>10. CellsMatch'
    <3> SUFFICES ASSUME NEW k \in DOMAIN ui'.cache
                 PROVE  /\ Sits(store', ui'.group, ui'.cache[k].block, ui'.cache[k].rows)
                        /\ ui'.cache[k].rows # <<>> => Latest(store', queue', ui'.cache[k].rows[1], count'.dialog)
      BY DEF CellsMatch
    <3>1. k \in DOMAIN ui.cache /\ ui'.cache = ui.cache
      BY <1>1
    <3>2. ui.cache[k] \in Cells
      BY <1>1, <3>1, ElementOfSeq, LenProperties
    <3>3. ui.cache[k].rows \in Seq(Entries)
      BY <3>2 DEF Cells
    <3>4. /\ Sits(store, ui.group, ui.cache[k].block, ui.cache[k].rows)
          /\ ui.cache[k].rows # <<>> => Latest(store, queue, ui.cache[k].rows[1], count.dialog)
      BY <1>5, <3>1 DEF Filled, CellsMatch
    <3>5. /\ Sits(store', ui.group, ui.cache[k].block, ui.cache[k].rows)
          /\ ui.cache[k].rows # <<>> => ui.cache[k].rows[1].id \in Ids(store)
      BY <2>4, <3>3, <3>4
    <3> QED BY <1>1, <2>9, <3>1, <3>4, <3>5
  <2> QED BY <2>6, <2>7, <2>8, <2>10 DEF Filled
<1> QED BY <1>4, <1>5

\* The worker keeps the pages in order: one that it reads is the only one.
LEMMA WorkKeepsFetch ==
  ASSUME Orderly, FetchInv, Work
  PROVE  FetchInv'
<1> DEFINE j == Head(queue)
           l == Len(done) + 1
<1>1. /\ UNCHANGED <<ui, alerts, count>> /\ Rest /\ Worked(j) /\ ShapeInv /\ HandInv /\ j \in Jobs /\ done \in Seq(Answers)
  <2>1. Worked(j) /\ queue \in Seq(Jobs) /\ queue # <<>> /\ queue' = Tail(queue) /\ j \in Jobs
    BY WorkIs DEF Orderly, ShapeInv, JobType, Worked
  <2> QED BY <2>1, RestIs DEF Orderly, Worked, ShapeInv, DoneType
<1>2. \A i \in DOMAIN done' : \/ i \in DOMAIN done /\ done'[i] = done[i]
                              \/ i = l /\ done'[i].job = queue[1] /\ queue[1].dialog = count.dialog
  BY <1>1, AnswersMore DEF Rest
<1> HIDE DEF l
<1>3. 1 \in DOMAIN queue /\ queue[1] = j /\ \A n \in DOMAIN queue' : n + 1 \in DOMAIN queue /\ queue'[n] = queue[n + 1] /\ n + 1 # 1
  BY <1>1 DEF Rest
<1>4. \A m, n \in DOMAIN queue' : m + 1 = n + 1 => m = n
  <2>1. queue' \in Seq(Jobs)
    BY WorkKeepsOrder DEF Orderly, ShapeInv, JobType
  <2>2. DOMAIN queue' \subseteq Nat
    BY <2>1, LenProperties
  <2> QED BY <2>2
<1>5. ASSUME ui.open, NEW n \in DOMAIN queue', Of(queue'[n], "page", count.dialog)
      PROVE  /\ Fetched(queue'[n])
             /\ \A m \in DOMAIN queue' : Of(queue'[m], "page", count.dialog) => m = n
             /\ \A m \in DOMAIN done' : done'[m].job.kind # "page"
  <2>1. n + 1 \in DOMAIN queue /\ queue'[n] = queue[n + 1] /\ n + 1 # 1
    BY <1>3
  <2>2. /\ Fetched(queue[n + 1]) /\ (\A m \in DOMAIN queue : Of(queue[m], "page", count.dialog) => m = n + 1)
        /\ \A m \in DOMAIN done : done[m].job.kind # "page"
    BY <1>5, <2>1 DEF FetchInv, OnePage
  <2>3. \A m \in DOMAIN queue' : Of(queue'[m], "page", count.dialog) => m = n
    BY <1>3, <1>4, <2>2
  <2>4. ~Of(queue[1], "page", count.dialog)
    BY <1>3, <2>1, <2>2
  <2>5. \A m \in DOMAIN done' : done'[m].job.kind # "page"
    BY <1>2, <2>2, <2>4 DEF Of
  <2> QED BY <2>1, <2>2, <2>3, <2>5
<1>6. ASSUME ui.open, NEW n \in DOMAIN done', done'[n].job.kind = "page"
      PROVE  /\ Fetched(done'[n].job)
             /\ \A m \in DOMAIN done' : done'[m].job.kind = "page" => m = n
  <2>1. CASE n \in DOMAIN done /\ done'[n] = done[n]
    <3>1. Fetched(done[n].job) /\ \A m \in DOMAIN done : done[m].job.kind = "page" => m = n
      BY <1>6, <2>1 DEF FetchInv, OnePage
    <3>2. ~Of(queue[1], "page", count.dialog)
      BY <1>3, <1>6, <2>1 DEF FetchInv, OnePage
    <3> QED BY <1>2, <2>1, <3>1, <3>2 DEF Of
  <2>2. CASE n = l /\ done'[n].job = queue[1] /\ queue[1].dialog = count.dialog
    <3>1. Of(queue[1], "page", count.dialog)
      BY <1>6, <2>2 DEF Of
    <3>2. Fetched(queue[1]) /\ \A m \in DOMAIN done : done[m].job.kind # "page"
      BY <1>3, <1>6, <3>1 DEF FetchInv, OnePage
    <3> QED BY <1>2, <2>2, <3>2
  <2> QED BY <1>2, <2>1, <2>2
<1>7. OnePage'
  <2>1. \A k : Fetched(k) => /\ k.generation <= ui'.generation /\ ui'.pageBusy = TRUE /\ ui'.loaded = TRUE
                             /\ k.generation = ui'.generation => k.group = ui'.group /\ ~HasBlock(ui', k.block)
    BY <1>1 DEF Fetched
  <2>2. ui'.open => ui.open /\ (ui'.cache # <<>> => ui'.loaded = TRUE) /\ \A n \in DOMAIN alerts' : alerts'[n] = "pump" => ui'.loaded = TRUE
    BY <1>1 DEF FetchInv, OnePage
  <2>3. count'.dialog = count.dialog
    BY <1>1
  <2> QED BY <1>5, <1>6, <2>1, <2>2, <2>3 DEF OnePage, Fetched
<1>8. Drafted'
  <2> SUFFICES ASSUME ui'.open
               PROVE  /\ \A n \in DOMAIN queue' : OnDraft(queue'[n]) => ui.draft = TRUE
                      /\ \A n \in DOMAIN done' : OnDraft(done'[n].job) => ui.draft = TRUE
                      /\ \A n \in DOMAIN alerts : alerts[n] = "refresh" => ui.draft = TRUE
                      /\ \A n \in DOMAIN done' : done'[n].job.kind = "groups" => done'[n].error = FALSE
    BY <1>1 DEF Drafted, OnDraft
  <2>1. /\ \A n \in DOMAIN queue : OnDraft(queue[n]) => ui.draft = TRUE
        /\ \A n \in DOMAIN done : OnDraft(done[n].job) => ui.draft = TRUE
        /\ \A n \in DOMAIN alerts : alerts[n] = "refresh" => ui.draft = TRUE
        /\ \A n \in DOMAIN done : done[n].job.kind = "groups" => done[n].error = FALSE
    BY <1>1 DEF FetchInv, Drafted
  <2>2. \A n \in DOMAIN queue' : OnDraft(queue'[n]) => ui.draft = TRUE
    BY <1>3, <2>1
  <2>3. \A n \in DOMAIN done' : OnDraft(done'[n].job) => ui.draft = TRUE
    BY <1>2, <1>3, <2>1
  <2>4. ASSUME NEW n \in DOMAIN done', done'[n].job.kind = "groups", done'[n].job = queue[1], n = l, queue[1].dialog = count.dialog
        PROVE  done'[n].error = FALSE
    <3>1. j.kind = "groups" /\ OnDraft(queue[1])
      BY <1>3, <2>4 DEF OnDraft
    <3>2. ui.draft = TRUE
      BY <1>3, <2>1, <3>1
    <3>3. DoGroups(j)
      BY <3>1 DEF Work
    <3>4. PICK r : Answered(j, r) /\ r.error = ~Owned(j)
      BY <1>1, <3>3, DoGroupsIs
    <3>5. store.owner = count.dialog
      BY <1>1, <3>2 DEF HandInv, Granted, Known
    <3>6. r.error = FALSE
      BY <1>3, <2>4, <3>4, <3>5 DEF Owned
    <3>7. done' = Append(done, r) /\ r \in Answers
      BY <1>1, <1>3, <2>4, <3>4 DEF Answered
    <3>8. done'[l] = r
      <4>1. Len(done) + 1 \in DOMAIN done' /\ done'[Len(done) + 1] = r
        BY <1>1, <3>7, GrownByOne
      <4> QED BY <4>1 DEF l
    <3> QED BY <2>4, <3>6, <3>8
  <2>5. \A n \in DOMAIN done' : done'[n].job.kind = "groups" => done'[n].error = FALSE
    BY <1>2, <2>1, <2>4
  <2> QED BY <2>1, <2>2, <2>3, <2>5
<1> QED BY <1>7, <1>8 DEF FetchInv

\* The worker keeps the table right, or has it filled anew.
LEMMA WorkKeepsShown ==
  ASSUME Orderly, BarrierInv, FetchInv, ShownInv, Work
  PROVE  ShownInv'
<1> SUFFICES ASSUME ui'.open, ~Dirty' PROVE PagesMatch' /\ (Emptied' \/ Filled')
  BY DEF ShownInv
<1>1. Worked(Head(queue)) /\ UNCHANGED <<ui, count>>
  BY WorkIs DEF Orderly, Worked
<1>2. ui.open /\ ~Dirty /\ PagesMatch /\ (Emptied \/ Filled)
  BY <1>1, WorkDirty DEF ShownInv
<1>3. CASE ~ui.draft
  <2>1. /\ ui'.cache = <<>>
        /\ \A n \in DOMAIN queue' : ~Of(queue'[n], "page", count'.dialog)
        /\ \A n \in DOMAIN done' : done'[n].job.kind # "page"
    <3>1. BarrierInv'
      BY <1>1, WorkKeepsBarrier
    <3> QED BY <1>1, <1>3, <3>1 DEF BarrierInv, KnownDraft
  <2> QED BY <2>1 DEF PagesMatch, Emptied, Newest, Of
<1>4. CASE ui.draft
  BY <1>2, <1>4, WorkOnTable, IdleKeepsShown, WrittenKeepsShown
<1> QED BY <1>3, <1>4

\* A lesson gives a row another version, and leaves it where it is.
LEMMA LearnKeepsTable ==
  ASSUME Orderly, FetchInv, ShownInv, NEW v, Learn(v)
  PROVE  FetchInv' /\ ShownInv'
<1>1. /\ UNCHANGED <<queue, done, ui, alerts>> /\ count'.dialog = count.dialog /\ ShapeInv
      /\ store \in Stores /\ store' \in Stores /\ done \in Seq(Answers) /\ ui.cache \in Seq(Cells)
  BY LearnIs DEF Orderly, Sound, ShapeInv, StoreType, DoneType, UiType, Whole, SmallCache
<1>2. FetchInv'
  BY <1>1 DEF FetchInv, OnePage, Drafted, OnDraft, Fetched
<1>3. /\ Kept(store, store')
      /\ \A w \in Ids(store) : RowOf(store', w) = RowOf(store, w) \/ RowOf(store', w).version > RowOf(store, w).version
  BY <1>1, LearnKept
<1>4. \A g, b : Places(store', g, b) = Places(store, g, b)
  BY <1>3, KeptPlaces
<1>5. ASSUME NEW rows \in Seq(Entries), NEW b, Sits(store, ui.group, b, rows), rows # <<>>, SameValue(store, rows[1])
      PROVE  SameValue(store', rows[1])
  <2> DEFINE w == rows[1].id
  <2>1. w \in Ids(store) /\ rows[1].version <= RowOf(store, w).version
    BY <1>5 DEF Sits, Places, Live
  <2>2. RowOf(store, w).version \in Int /\ RowOf(store', w).version \in Int
    <3>1. RowOf(store, w) \in Rows
      BY <1>1, <2>1, RowThere
    <3>2. w \in Ids(store')
      BY <1>3, <2>1 DEF Kept
    <3>3. RowOf(store', w) \in Rows
      BY <1>1, <3>2, RowThere
    <3> QED BY <3>1, <3>3 DEF Rows
  <2>3. rows[1].version \in Int
    <3>1. rows[1] \in Entries
      BY <1>5, EmptySeq, LenProperties, ElementOfSeq
    <3> QED BY <3>1 DEF Entries
  <2>4. CASE RowOf(store', w) = RowOf(store, w)
    BY <1>5, <2>4 DEF SameValue
  <2>5. CASE RowOf(store', w).version > RowOf(store, w).version
    <3>1. rows[1].version # RowOf(store', w).version
      <4> HIDE DEF w
      <4> QED BY <2>1, <2>2, <2>3, <2>5
    <3> QED BY <3>1 DEF SameValue
  <2> QED BY <1>3, <2>1, <2>4, <2>5
<1>6. ASSUME NEW rows \in Seq(Entries), NEW b, Sits(store, ui.group, b, rows)
      PROVE  Sits(store', ui.group, b, rows)
  BY <1>1, <1>3, <1>6, KeptSits
<1>7. \A j : (Of(j, "page", count'.dialog) /\ j.generation = ui'.generation) <=> Newest(j)
  BY <1>1 DEF Newest
<1>8. ASSUME ui.open, PagesMatch, Emptied \/ Filled PROVE PagesMatch' /\ (Emptied' \/ Filled')
  <2>1. PagesMatch'
    <3> SUFFICES ASSUME NEW n \in DOMAIN done', Of(done'[n].job, "page", count'.dialog), done'[n].job.generation = ui'.generation
                 PROVE  /\ Sits(store', ui'.group, done'[n].job.block, done'[n].rows)
                        /\ done'[n].rows # <<>> => SameValue(store', done'[n].rows[1])
      BY DEF PagesMatch, Newest
    <3>1. n \in DOMAIN done /\ done'[n] = done[n] /\ Newest(done[n].job)
      BY <1>1, <1>7
    <3>2. done[n] \in Answers
      BY <1>1, <3>1, ElementOfSeq, LenProperties
    <3>3. done[n].rows \in Seq(Entries)
      BY <3>2 DEF Answers
    <3>4. /\ Sits(store, ui.group, done[n].job.block, done[n].rows)
          /\ done[n].rows # <<>> => SameValue(store, done[n].rows[1])
      BY <1>8, <3>1 DEF PagesMatch
    <3> QED BY <1>1, <1>5, <1>6, <3>1, <3>3, <3>4
  <2>2. CASE Emptied
    BY <1>1, <2>1, <2>2 DEF Emptied, Newest
  <2>3. CASE Filled
    <3>1. EditsLive'
      <4> SUFFICES ASSUME NEW m \in DOMAIN queue', Of(queue'[m], "edit", count'.dialog)
                   PROVE  queue'[m].entry.id \in Ids(store') /\ RowOf(store', queue'[m].entry.id).dead = FALSE
        BY DEF EditsLive
      <4>1. queue[m].entry.id \in Ids(store) /\ RowOf(store, queue[m].entry.id).dead = FALSE
        BY <1>1, <2>3 DEF Filled, EditsLive
      <4> QED BY <1>1, <1>3, <4>1 DEF Kept
    <3>2. EditsApart'
      <4>1. EditsApart
        BY <2>3 DEF Filled
      <4> QED BY <1>1, <1>4, <4>1 DEF EditsApart, Newest
    <3>3. CellsMatch'
      <4> SUFFICES ASSUME NEW k \in DOMAIN ui'.cache
                   PROVE  /\ Sits(store', ui'.group, ui'.cache[k].block, ui'.cache[k].rows)
                          /\ ui'.cache[k].rows # <<>> => Latest(store', queue', ui'.cache[k].rows[1], count'.dialog)
        BY DEF CellsMatch
      <4>1. k \in DOMAIN ui.cache /\ ui'.cache = ui.cache
        BY <1>1
      <4>2. ui.cache[k] \in Cells
        BY <1>1, <4>1, ElementOfSeq, LenProperties
      <4>3. ui.cache[k].rows \in Seq(Entries)
        BY <4>2 DEF Cells
      <4>4. /\ Sits(store, ui.group, ui.cache[k].block, ui.cache[k].rows)
            /\ ui.cache[k].rows # <<>> => Latest(store, queue, ui.cache[k].rows[1], count.dialog)
        BY <2>3, <4>1 DEF Filled, CellsMatch
      <4>5. ui.cache[k].rows # <<>> => Latest(store', queue, ui.cache[k].rows[1], count.dialog)
        BY <1>5, <4>3, <4>4 DEF Latest
      <4> QED BY <1>1, <1>6, <4>1, <4>3, <4>4, <4>5
    <3> QED BY <2>1, <3>1, <3>2, <3>3 DEF Filled
  <2> QED BY <1>8, <2>1, <2>2, <2>3
<1>9. Dirty => Dirty'
  BY <1>1 DEF Dirty
<1>10. ShownInv'
  BY <1>1, <1>8, <1>9 DEF ShownInv
<1> QED BY <1>2, <1>10

\* A closed dialog shows nothing, and one that has just been opened neither.
LEMMA OtherDialogTable ==
  ASSUME ui'.open => ui'.cache = <<>> /\ DOMAIN done' = {} /\ DOMAIN alerts' = {},
         ui'.open => \A n \in DOMAIN queue' : queue'[n].dialog = count'.dialog => queue'[n].kind = "begin"
  PROVE  FetchInv' /\ ShownInv'
<1>1. OnePage' /\ Drafted'
  BY DEF OnePage, Drafted, OnDraft, Of
<1>2. ui'.open => PagesMatch' /\ Emptied'
  BY DEF PagesMatch, Emptied, Of
<1> QED BY <1>1, <1>2 DEF FetchInv, ShownInv

\* A dialog that opens has submitted nothing but its begin.
LEMMA OpenedFresh ==
  ASSUME Orderly, OpenDialog
  PROVE  \A n \in DOMAIN queue' : queue'[n].dialog = count'.dialog => queue'[n].kind = "begin"
<1>1. count'.dialog = count.dialog + 1
  BY OpenDialogIs DEF Orderly
<1>2. PICK j \in Jobs : j.kind = "begin" /\ queue' = Append(queue, j)
  BY OpenDialogIs DEF Orderly
<1> SUFFICES ASSUME NEW n \in DOMAIN queue', queue'[n].dialog = count'.dialog PROVE queue'[n].kind = "begin"
  OBVIOUS
<1>3. (n \in DOMAIN queue /\ queue'[n] = queue[n]) \/ queue'[n] = j
  BY <1>2, QueuedOne DEF Orderly, ShapeInv, JobType
<1>4. CASE n \in DOMAIN queue /\ queue'[n] = queue[n]
  <2>1. queue[n] \in Jobs
    BY <1>4, ElementOfSeq, LenProperties DEF Orderly, ShapeInv, JobType
  <2>2. queue[n].dialog \in Nat
    BY <2>1 DEF Jobs, Dialogs
  <2>3. queue[n].dialog <= count.dialog /\ count.dialog \in Nat
    BY <1>4 DEF Orderly, ShapeInv, JobType, UiType, Counters
  <2> QED BY <1>1, <1>4, <2>2, <2>3
<1> QED BY <1>2, <1>3, <1>4

\* Dialogs open and close.
LEMMA DialogsKeepTable ==
  ASSUME Orderly, OpenDialog \/ Committed \/ Cancel
  PROVE  FetchInv' /\ ShownInv'
<1>1. CASE Committed \/ Cancel
  <2>1. ui' = Fresh
    BY <1>1 DEF Committed, Cancel
  <2>2. ui'.open = FALSE
    BY <2>1, FreshIs
  <2> QED BY <2>2, OtherDialogTable
<1>2. CASE OpenDialog
  <2>1. ui.open = FALSE /\ ui'.cache = <<>> /\ UNCHANGED <<done, alerts>>
    BY <1>2, OpenDialogIs DEF Orderly
  <2>2. done' = <<>> /\ alerts' = <<>>
    BY <2>1 DEF Orderly, ShapeInv, UiType
  <2>3. DOMAIN done' = {} /\ DOMAIN alerts' = {}
    BY <2>2
  <2> QED BY <1>2, <2>1, <2>3, OpenedFresh, OtherDialogTable
<1> QED BY <1>1, <1>2

-----------------------------------------------------------------------------
(***************************************************************************)
(* The steps of the GUI thread.                                            *)
(***************************************************************************)
\* A box may have opened.
Opened(what) == UNCHANGED alerts \/ alerts' = Append(alerts, what)

\* The others are still there.
LEMMA OpenedIs ==
  ASSUME alerts \in Seq(Boxes), NEW what \in Boxes, Opened(what)
  PROVE  /\ \A n \in DOMAIN alerts' : (\E k \in DOMAIN alerts : alerts'[n] = alerts[k]) \/ alerts'[n] = what
         /\ \A n \in DOMAIN alerts : n \in DOMAIN alerts' /\ alerts'[n] = alerts[n]
<1>1. CASE UNCHANGED alerts
  BY <1>1
<1>2. CASE alerts' = Append(alerts, what)
  <2>1. /\ \A i \in DOMAIN alerts : i \in DOMAIN alerts' /\ alerts'[i] = alerts[i]
        /\ \A i \in DOMAIN alerts' : (i \in DOMAIN alerts /\ alerts'[i] = alerts[i]) \/ (i = Len(alerts) + 1 /\ alerts'[i] = what)
    BY <1>2, GrownByOne
  <2> QED BY <2>1
<1> QED BY <1>1, <1>2 DEF Opened

\* What the table knows, of the boxes and of itself.
Told ==
  /\ ui.cache # <<>> => ui.loaded = TRUE /\ ui.draft = TRUE
  /\ \A n \in DOMAIN alerts : alerts[n] = "pump" => ui.loaded = TRUE
  /\ \A n \in DOMAIN alerts : alerts[n] = "refresh" => ui.draft = TRUE

\* It knows that.
LEMMA ToldIs == ASSUME Orderly, BarrierInv, FetchInv, ui.open PROVE Told
<1>1. ui.cache # <<>> => ui.draft
  BY DEF BarrierInv, KnownDraft
<1>2. ui.draft \in BOOLEAN
  BY DEF Orderly, ShapeInv, UiType, Whole, Uis
<1> QED BY <1>1, <1>2 DEF FetchInv, OnePage, Drafted, Told

\* A step that leaves the rows of the table alone.
LEMMA SteadyKeepsTable ==
  ASSUME Orderly, FetchInv, ShownInv, NEW js, NEW busy, Fetching(js, busy), Tells(js), SameCells(ui, ui'),
         \A i \in DOMAIN js : js[i].kind # "edit"
  PROVE  FetchInv' /\ ShownInv'
<1>1. ShapeInv /\ Goes(js) /\ Follows(js) /\ ui.open = TRUE
  BY DEF Orderly, Fetching, Follows, Goes
<1>2. FetchInv'
  BY GoesKeepsFetch
<1>3. CASE Dirty
  BY <1>1, <1>2, <1>3, DirtyStays DEF ShownInv
<1>4. CASE ~Dirty
  <2>1. PagesMatch /\ (Emptied \/ Filled)
    BY <1>1, <1>4 DEF ShownInv
  <2>2. PagesMatch' /\ (Emptied' \/ Filled')
    BY <1>1, <2>1, SteadyStays
  <2> QED BY <1>2, <2>2 DEF ShownInv
<1> QED BY <1>3, <1>4

\* A step that empties it.
LEMMA ClearKeepsTable ==
  ASSUME Orderly, FetchInv, NEW js, NEW busy, Fetching(js, busy), Clears(ui, ui'),
         \A i \in DOMAIN js : js[i].kind # "edit"
  PROVE  FetchInv' /\ ShownInv'
<1>1. ShapeInv /\ Follows(js)
  BY DEF Orderly, Fetching, Follows
<1>2. FetchInv'
  BY GoesKeepsFetch
<1>3. PagesMatch' /\ Emptied'
  BY <1>1, ClearedIs
<1> QED BY <1>2, <1>3 DEF ShownInv

\* A list of groups is delivered: the table is emptied, if it has been shown.
LEMMA GroupsKeepTable ==
  ASSUME Orderly, BarrierInv, FetchInv, ShownInv, Deliver, Head(done).job.kind = "groups"
  PROVE  FetchInv' /\ ShownInv'
<1> DEFINE r == Head(done)
<1>1. /\ ShapeInv /\ done # <<>> /\ done' = Tail(done) /\ UNCHANGED <<store, count, typed>> /\ GroupsReceived(r)
      /\ r = done[1] /\ 1 \in DOMAIN done /\ ui.open = TRUE /\ r.job.dialog = count.dialog
  BY ResultIs DEF Deliver, Orderly
<1>2. r.error = FALSE /\ ui.draft = TRUE
  BY <1>1 DEF FetchInv, Drafted, OnDraft
<1>3. Told /\ ui.loaded \in BOOLEAN /\ alerts \in Seq(Boxes) /\ "nothing" \in Boxes
  BY <1>1, ToldIs DEF ShapeInv, UiType, Whole, Uis, Boxes
<1>4. PICK js : /\ Goes(js) /\ Alike(ui, ui') /\ Fetches(ui.pageBusy, js)
                /\ \A i \in DOMAIN js : js[i].kind \in {"groups", "page"}
                /\ Opened("nothing")
                /\ \/ ~ui.loaded /\ js = <<>> /\ SameTable(ui, ui')
                   \/ ui.loaded /\ Clears(ui, ui')
  BY <1>1, <1>2, GroupsReceivedIs DEF Opened
<1>5. /\ \A n \in DOMAIN alerts' : (\E k \in DOMAIN alerts : alerts'[n] = alerts[k]) \/ alerts'[n] = "nothing"
  BY <1>3, <1>4, OpenedIs
<1>6. ui'.loaded = ui.loaded /\ ui'.draft = TRUE
  BY <1>2, <1>4 DEF Alike
<1>7. \A n \in DOMAIN alerts' : /\ alerts'[n] = "pump" => ui'.loaded = TRUE
                                /\ alerts'[n] = "refresh" => ui'.draft = TRUE
  BY <1>3, <1>5, <1>6 DEF Told
<1>8. CASE ui.loaded /\ Clears(ui, ui')
  <2>1. Fetching(js, ui.pageBusy)
    BY <1>1, <1>3, <1>4, <1>6, <1>7, <1>8 DEF Fetching, Clears
  <2>2. \A i \in DOMAIN js : js[i].kind # "edit"
    BY <1>4
  <2> QED BY <2>1, <2>2, <1>8, ClearKeepsTable
<1>9. CASE ~ui.loaded /\ js = <<>> /\ SameTable(ui, ui')
  <2>1. DOMAIN js = {} /\ ui.cache = <<>> /\ ui'.cache = <<>> /\ ui'.generation = ui.generation /\ ui'.group = ui.group
    <3>1. DOMAIN <<>> = {}
      OBVIOUS
    <3> QED BY <1>3, <1>9, <3>1 DEF Told, SameTable
  <2>2. Fetching(js, ui.pageBusy)
    BY <1>1, <1>3, <1>4, <1>6, <1>7, <1>9, <2>1 DEF Fetching, HasBlock
  <2>3. FetchInv'
    BY <2>2, GoesKeepsFetch
  <2>4. PagesMatch' /\ Emptied'
    <3>1. ui'.open /\ ui'.loaded # TRUE
      BY <1>4, <1>6, <1>9 DEF Goes
    <3> QED BY <2>1, <2>3, <3>1, UnloadedIs
  <2> QED BY <2>3, <2>4 DEF ShownInv
<1> QED BY <1>4, <1>8, <1>9

\* A page is delivered.
LEMMA PageKeepsTable ==
  ASSUME Orderly, BarrierInv, FetchInv, ShownInv, Deliver, Head(done).job.kind = "page"
  PROVE  FetchInv' /\ ShownInv'
<1> DEFINE r == Head(done)
<1>1. /\ ShapeInv /\ done # <<>> /\ done' = Tail(done) /\ UNCHANGED <<store, count, typed>> /\ PageReceived(r)
      /\ r = done[1] /\ 1 \in DOMAIN done /\ ui.open = TRUE /\ r.job.dialog = count.dialog
  BY ResultIs DEF Deliver, Orderly
<1>2. ui.draft = TRUE /\ ui.loaded = TRUE
  BY <1>1 DEF FetchInv, Drafted, OnDraft, OnePage, Fetched
<1>3. Told /\ alerts \in Seq(Boxes) /\ "pump" \in Boxes
  BY <1>1, ToldIs DEF ShapeInv, UiType, Boxes
<1>4. PICK js : /\ Goes(js) /\ Alike(ui, ui') /\ Fetches(FALSE, js)
                /\ ui'.generation = ui.generation /\ ui'.group = ui.group
                /\ \A i \in DOMAIN js : js[i].kind \in {"groups", "page"}
                /\ Opened("pump")
                /\ \/ ui'.cache = ui.cache
                   \/ /\ r.job.generation = ui.generation
                      /\ \A k \in DOMAIN ui'.cache :
                           \/ ui'.cache[k] = [block |-> r.job.block, rows |-> r.rows]
                           \/ \E n \in DOMAIN ui.cache : ui'.cache[k] = ui.cache[n]
  BY <1>1, PageReceivedIs DEF Opened
<1>5. /\ \A n \in DOMAIN alerts' : (\E k \in DOMAIN alerts : alerts'[n] = alerts[k]) \/ alerts'[n] = "pump"
      /\ \A n \in DOMAIN alerts : n \in DOMAIN alerts' /\ alerts'[n] = alerts[n]
  BY <1>3, <1>4, OpenedIs
<1>6. ui'.loaded = TRUE /\ ui'.draft = TRUE
  BY <1>2, <1>4 DEF Alike
<1>7. Fetching(js, FALSE) /\ Follows(js)
  BY <1>1, <1>4, <1>6 DEF Fetching, Follows
<1>8. Tells(js)
  BY <1>1, <1>5 DEF Tells
<1>9. CASE ui'.cache = ui.cache
  <2>1. SameCells(ui, ui') /\ \A i \in DOMAIN js : js[i].kind # "edit"
    BY <1>4, <1>9 DEF SameCells
  <2> QED BY <1>7, <1>8, <2>1, SteadyKeepsTable
<1>10. CASE /\ r.job.generation = ui.generation
            /\ \A k \in DOMAIN ui'.cache :
                 \/ ui'.cache[k] = [block |-> r.job.block, rows |-> r.rows]
                 \/ \E n \in DOMAIN ui.cache : ui'.cache[k] = ui.cache[n]
  <2>1. FetchInv'
    BY <1>7, GoesKeepsFetch
  <2>2. CASE Dirty
    BY <1>1, <1>4, <1>8, <2>1, <2>2, DirtyStays DEF ShownInv
  <2>3. CASE ~Dirty
    <3>1. PagesMatch /\ (Emptied \/ Filled) /\ Newest(r.job)
      BY <1>1, <1>10, <2>3 DEF ShownInv, Newest, Of
    <3>2. PagesMatch' /\ Filled'
      BY <1>1, <1>4, <1>7, <1>10, <3>1, ArrivedIs
    <3> QED BY <2>1, <3>2 DEF ShownInv
  <2> QED BY <2>2, <2>3
<1> QED BY <1>4, <1>9, <1>10

\* Nothing is fetched.
LEMMA NoneFetched ==
  ASSUME NEW js, ui'.pageBusy = ui.pageBusy, \A i \in DOMAIN js : js[i].kind # "page"
  PROVE  Fetches(ui.pageBusy, js)
BY DEF Fetches

\* A result is delivered.
LEMMA DeliverKeepsTable ==
  ASSUME Orderly, BarrierInv, FetchInv, ShownInv, Deliver
  PROVE  FetchInv' /\ ShownInv'
<1> DEFINE r == Head(done)
<1>1. /\ ShapeInv /\ HandInv /\ done # <<>> /\ done' = Tail(done) /\ UNCHANGED <<store, count, typed>>
      /\ r = done[1] /\ 1 \in DOMAIN done /\ ui.open = TRUE /\ r.job.dialog = count.dialog /\ r \in Answers
  BY ResultIs DEF Deliver, Orderly
<1>2. Told /\ alerts \in Seq(Boxes) /\ "nothing" \in Boxes /\ "refresh" \in Boxes
      /\ DOMAIN <<>> = {} /\ r.error \in BOOLEAN /\ ui.draft \in BOOLEAN
  BY <1>1, ToldIs DEF ShapeInv, UiType, Whole, Uis, Boxes, Answers
<1>3. CASE r.job.kind = "begin" /\ Begun(r)
  <2>1. r.error = FALSE
    BY <1>1, <1>3 DEF HandInv, Granted
  <2>2. PICK js : /\ Goes(js) /\ SameTable(ui, ui') /\ OnlyGroups(js) /\ ui'.loaded = ui.loaded
                  /\ ui'.draft = TRUE /\ UNCHANGED alerts
    BY <1>1, <1>3, <2>1, BegunIs
  <2>3. \A i \in DOMAIN js : js[i].kind \notin {"page", "edit"}
    BY <2>2 DEF OnlyGroups
  <2>4. SameCells(ui, ui') /\ ui'.pageBusy = ui.pageBusy
    BY <2>2 DEF SameTable, SameCells
  <2>5. Fetches(ui.pageBusy, js)
    BY <2>3, <2>4, NoneFetched
  <2>6. Fetching(js, ui.pageBusy)
    BY <1>1, <1>2, <1>3, <2>2, <2>3, <2>4, <2>5 DEF Fetching, SameCells, Told, HasBlock
  <2>7. Tells(js)
    BY <1>1, <1>3, <2>2 DEF Tells
  <2> QED BY <2>3, <2>4, <2>6, <2>7, SteadyKeepsTable
<1>4. CASE r.job.kind = "groups" /\ GroupsReceived(r)
  BY <1>4, GroupsKeepTable
<1>5. CASE r.job.kind = "page" /\ PageReceived(r)
  BY <1>5, PageKeepsTable
<1>6. CASE r.job.kind = "edit" /\ EditReceived(r)
  <2>1. ui.draft = TRUE
    BY <1>1, <1>6 DEF FetchInv, Drafted, OnDraft
  <2>2. /\ Goes(<<>>) /\ SameTable(ui, ui') /\ ui'.draft = ui.draft /\ ui'.loaded = ui.loaded
        /\ ~r.error => UNCHANGED alerts
        /\ r.error => alerts' = Append(alerts, "refresh")
    BY <1>1, <1>6, EditReceivedIs
  <2>3. Opened("refresh")
    BY <2>2 DEF Opened
  <2>4. /\ \A n \in DOMAIN alerts' : (\E k \in DOMAIN alerts : alerts'[n] = alerts[k]) \/ alerts'[n] = "refresh"
        /\ \A n \in DOMAIN alerts : n \in DOMAIN alerts' /\ alerts'[n] = alerts[n]
    BY <1>2, <2>3, OpenedIs
  <2>5. r.error = TRUE => \E n \in DOMAIN alerts' : alerts'[n] = "refresh"
    <3>1. ASSUME r.error PROVE Len(alerts) + 1 \in DOMAIN alerts' /\ alerts'[Len(alerts) + 1] = "refresh"
      BY <1>2, <2>2, <3>1, GrownByOne
    <3> QED BY <3>1
  <2>6. SameCells(ui, ui') /\ ui'.pageBusy = ui.pageBusy
    BY <2>2 DEF SameTable, SameCells
  <2>7. Fetches(ui.pageBusy, <<>>)
    BY <1>2, <2>6, NoneFetched
  <2>8. Fetching(<<>>, ui.pageBusy)
    BY <1>1, <1>2, <1>6, <2>1, <2>2, <2>4, <2>6, <2>7 DEF Fetching, SameCells, Told, HasBlock
  <2>9. Tells(<<>>)
    BY <1>1, <1>6, <2>4, <2>5 DEF Tells
  <2>10. \A i \in DOMAIN <<>> : <<>>[i].kind # "edit"
    BY <1>2
  <2> QED BY <2>6, <2>8, <2>9, <2>10, SteadyKeepsTable
<1>7. CASE r.job.kind = "mutate" /\ MutateReceived(r)
  <2>1. ui.draft = TRUE
    BY <1>1, <1>7 DEF FetchInv, Drafted, OnDraft
  <2>2. PICK js : /\ Goes(js) /\ Calm /\ OnlyGroups(js) /\ (~r.error => HasGroups(js)) /\ Opened("nothing")
    BY <1>1, <1>7, MutateReceivedIs DEF Opened
  <2>3. /\ \A n \in DOMAIN alerts' : (\E k \in DOMAIN alerts : alerts'[n] = alerts[k]) \/ alerts'[n] = "nothing"
        /\ \A n \in DOMAIN alerts : n \in DOMAIN alerts' /\ alerts'[n] = alerts[n]
    BY <1>2, <2>2, OpenedIs
  <2>4. \A i \in DOMAIN js : js[i].kind \notin {"page", "edit"}
    BY <2>2 DEF OnlyGroups
  <2>5. SameCells(ui, ui') /\ ui'.pageBusy = ui.pageBusy /\ ui'.loaded = ui.loaded /\ ui'.draft = TRUE
    BY <2>1, <2>2 DEF Calm, Alike, SameTable, SameCells
  <2>6. Fetches(ui.pageBusy, js)
    BY <2>4, <2>5, NoneFetched
  <2>7. Fetching(js, ui.pageBusy)
    BY <1>1, <1>2, <1>7, <2>2, <2>3, <2>4, <2>5, <2>6 DEF Fetching, SameCells, Told, HasBlock
  <2>8. Tells(js)
    BY <1>1, <1>7, <2>2, <2>3 DEF Tells
  <2> QED BY <2>4, <2>5, <2>7, <2>8, SteadyKeepsTable
<1>8. CASE r.job.kind = "flush" /\ FlushReceived(r)
  <2>1. /\ Goes(<<>>) /\ SameTable(ui, ui') /\ ui'.draft = ui.draft /\ ui'.loaded = ui.loaded /\ Opened("nothing")
    BY <1>1, <1>8, FlushReceivedIs DEF Opened
  <2>2. /\ \A n \in DOMAIN alerts' : (\E k \in DOMAIN alerts : alerts'[n] = alerts[k]) \/ alerts'[n] = "nothing"
        /\ \A n \in DOMAIN alerts : n \in DOMAIN alerts' /\ alerts'[n] = alerts[n]
    BY <1>2, <2>1, OpenedIs
  <2>3. SameCells(ui, ui') /\ ui'.pageBusy = ui.pageBusy
    BY <2>1 DEF SameTable, SameCells
  <2>4. Fetches(ui.pageBusy, <<>>)
    BY <1>2, <2>3, NoneFetched
  <2>5. Fetching(<<>>, ui.pageBusy)
    BY <1>1, <1>2, <1>8, <2>1, <2>2, <2>3, <2>4 DEF Fetching, SameCells, Told, HasBlock
  <2>6. Tells(<<>>)
    BY <1>1, <1>8, <2>2 DEF Tells
  <2>7. \A i \in DOMAIN <<>> : <<>>[i].kind # "edit"
    BY <1>2
  <2> QED BY <2>3, <2>5, <2>6, <2>7, SteadyKeepsTable
<1> QED BY <1>3, <1>4, <1>5, <1>6, <1>7, <1>8 DEF Deliver

\* A box is dismissed.
LEMMA DismissKeepsTable ==
  ASSUME Orderly, BarrierInv, FetchInv, ShownInv, Dismiss
  PROVE  FetchInv' /\ ShownInv'
<1>1. ShapeInv /\ ui.open = TRUE /\ Told /\ alerts \in Seq(Boxes)
  BY OpenIs, ToldIs DEF Orderly, Dismiss
<1>2. PICK js : /\ Goes(js) /\ Alike(ui, ui') /\ SameCells(ui, ui') /\ Fetches(ui.pageBusy, js)
                /\ \A i \in DOMAIN js : js[i].kind \in {"groups", "page"}
                /\ alerts # <<>> /\ alerts' = Front(alerts)
                /\ Last(alerts) = "refresh" => HasGroups(js)
                /\ \A i \in DOMAIN js : js[i].kind = "page" => Last(alerts) = "pump"
                /\ \A i \in DOMAIN js : js[i].kind = "groups" => Last(alerts) = "refresh"
                /\ UNCHANGED done
  BY <1>1, DismissIs
<1>3. /\ Len(alerts) \in DOMAIN alerts /\ Last(alerts) = alerts[Len(alerts)]
      /\ \A n \in DOMAIN alerts' : n \in DOMAIN alerts /\ alerts'[n] = alerts[n]
      /\ \A n \in DOMAIN alerts : n = Len(alerts) \/ (n \in DOMAIN alerts' /\ alerts'[n] = alerts[n])
  <2> DEFINE l == Len(alerts)
  <2>1. l \in Nat /\ l # 0 /\ DOMAIN alerts = 1 .. l
    BY <1>1, <1>2, LenProperties, EmptySeq
  <2>2. \A i \in 1 .. l - 1 : alerts[i] \in Boxes
    BY <1>1, <2>1, ElementOfSeq
  <2>3. SubSeq(alerts, 1, l - 1) \in Seq(Boxes)
        /\ Len(SubSeq(alerts, 1, l - 1)) = l - 1
        /\ \A i \in 1 .. l - 1 : SubSeq(alerts, 1, l - 1)[i] = alerts[i]
    <3> DEFINE k == l - 1
    <3>1. k \in Nat /\ \A i \in 1 .. k : alerts[i] \in Boxes
      BY <2>1, <2>2
    <3> HIDE DEF k
    <3>2. /\ SubSeq(alerts, 1, k) \in Seq(Boxes)
          /\ Len(SubSeq(alerts, 1, k)) = (IF 1 <= k THEN k - 1 + 1 ELSE 0)
          /\ \A i \in 1 .. k - 1 + 1 : SubSeq(alerts, 1, k)[i] = alerts[1 + i - 1]
      BY <3>1, SubSeqProperties
    <3>3. (IF 1 <= k THEN k - 1 + 1 ELSE 0) = k /\ k - 1 + 1 = k /\ \A i \in 1 .. k : 1 + i - 1 = i
      BY <3>1
    <3>4. Len(SubSeq(alerts, 1, k)) = k /\ \A i \in 1 .. k : SubSeq(alerts, 1, k)[i] = alerts[i]
      BY <3>2, <3>3
    <3> QED BY <3>2, <3>4 DEF k
  <2>4. alerts' = SubSeq(alerts, 1, l - 1) /\ Last(alerts) = alerts[l]
    BY <1>2 DEF Front, Last
  <2>5. DOMAIN alerts' = 1 .. l - 1
    BY <2>3, <2>4, LenProperties
  <2> HIDE DEF l
  <2>6. l \in DOMAIN alerts /\ (\A n \in 1 .. l - 1 : n \in 1 .. l) /\ \A n \in 1 .. l : n = l \/ n \in 1 .. l - 1
    BY <2>1
  <2>7. \A n \in DOMAIN alerts' : n \in DOMAIN alerts /\ alerts'[n] = alerts[n]
    BY <2>1, <2>3, <2>4, <2>5, <2>6
  <2>8. \A n \in DOMAIN alerts : n = l \/ (n \in DOMAIN alerts' /\ alerts'[n] = alerts[n])
    BY <2>1, <2>3, <2>4, <2>5, <2>6
  <2> QED BY <2>4, <2>6, <2>7, <2>8 DEF l
<1>4. ui'.loaded = ui.loaded /\ ui'.draft = ui.draft /\ ui'.cache = ui.cache /\ ui'.generation = ui.generation /\ ui'.group = ui.group
  BY <1>2 DEF Alike, SameCells
<1>5. \A i \in DOMAIN js : /\ js[i].kind = "page" => ui'.loaded = TRUE /\ ui'.draft = TRUE
                           /\ js[i].kind = "groups" => ui'.draft = TRUE
  BY <1>1, <1>2, <1>3, <1>4 DEF Told, Fetches
<1>6. \A n \in DOMAIN alerts' : /\ alerts'[n] = "pump" => ui'.loaded = TRUE
                                /\ alerts'[n] = "refresh" => ui'.draft = TRUE
  BY <1>1, <1>3, <1>4 DEF Told
<1>7. Fetching(js, ui.pageBusy)
  BY <1>1, <1>2, <1>4, <1>5, <1>6 DEF Fetching, Told, HasBlock
<1>8. Tells(js)
  BY <1>2, <1>3 DEF Tells
<1>9. \A i \in DOMAIN js : js[i].kind # "edit"
  BY <1>2
<1> QED BY <1>2, <1>7, <1>8, <1>9, SteadyKeepsTable

\* And what the user does.
LEMMA UserKeepsTable ==
  ASSUME Orderly, BarrierInv, FetchInv, ShownInv, NEW b \in Int, NEW g,
         \/ ShowPage \/ Paint(b) \/ SelectGroup(g) \/ EditCell(b) \/ Save \/ NotCommitted
         \/ \E act \in Actions : Act(act, b)
  PROVE  FetchInv' /\ ShownInv'
<1>1. ShapeInv /\ DOMAIN <<>> = {} /\ \A i \in DOMAIN <<>> : <<>>[i].kind # "edit" /\ <<>>[i].kind # "page"
  BY DEF Orderly
<1>2. \A js : Goes(js) => ui.open = TRUE /\ Told
  BY ToldIs DEF Goes
<1>3. ASSUME UNCHANGED <<done, alerts>>, NEW js PROVE Tells(js)
  BY <1>3 DEF Tells
<1>4. CASE ShowPage
  <2>1. /\ Goes(<<>>) /\ UNCHANGED <<queue, done, alerts, count, typed>>
        /\ ui'.draft = ui.draft /\ ui'.loaded = TRUE /\ ui'.pageBusy = ui.pageBusy
        /\ SameTable(ui, ui') \/ Clears(ui, ui')
    BY <1>1, <1>4, ShowPageIs
  <2>2. Fetches(ui.pageBusy, <<>>) /\ Told
    BY <1>1, <1>2, <2>1, NoneFetched
  <2>3. Fetching(<<>>, ui.pageBusy)
    BY <1>1, <2>1, <2>2 DEF Fetching, SameTable, Clears, Told, HasBlock
  <2>4. CASE SameTable(ui, ui')
    <3>1. SameCells(ui, ui') /\ Tells(<<>>)
      BY <1>3, <2>1, <2>4 DEF SameTable, SameCells
    <3> QED BY <1>1, <2>3, <3>1, SteadyKeepsTable
  <2>5. CASE Clears(ui, ui')
    BY <1>1, <2>3, <2>5, ClearKeepsTable
  <2> QED BY <2>1, <2>4, <2>5
<1>5. CASE Paint(b)
  <2>1. PICK js : /\ Goes(js) /\ Alike(ui, ui') /\ SameCells(ui, ui') /\ Fetches(ui.pageBusy, js)
                  /\ \A i \in DOMAIN js : js[i].kind = "page"
                  /\ UNCHANGED <<done, alerts, count, typed>> /\ ui.loaded
    BY <1>1, <1>5, PaintIs
  <2>2. ui'.loaded = TRUE /\ ui'.draft = ui.draft
    BY <1>1, <2>1 DEF Alike, ShapeInv, UiType, Whole, Uis
  <2>3. Told /\ \A i \in DOMAIN js : ui'.draft = TRUE
    BY <1>2, <2>1 DEF Fetches
  <2>4. Fetching(js, ui.pageBusy)
    BY <2>1, <2>2, <2>3 DEF Fetching, SameCells, Told, HasBlock
  <2>5. Tells(js) /\ \A i \in DOMAIN js : js[i].kind # "edit"
    BY <1>3, <2>1
  <2> QED BY <2>1, <2>4, <2>5, SteadyKeepsTable
<1>6. CASE SelectGroup(g)
  <2>1. /\ Goes(<<>>) /\ UNCHANGED <<queue, done, alerts, typed>> /\ Alike(ui, ui') /\ Clears(ui, ui')
        /\ ui'.pageBusy = ui.pageBusy /\ ui.loaded
    BY <1>1, <1>6, SelectGroupIs
  <2>2. ui'.loaded = ui.loaded /\ ui'.draft = ui.draft
    BY <2>1 DEF Alike
  <2>3. Fetches(ui.pageBusy, <<>>) /\ Told
    BY <1>1, <1>2, <2>1, NoneFetched
  <2>4. Fetching(<<>>, ui.pageBusy)
    BY <1>1, <2>1, <2>2, <2>3 DEF Fetching, Clears, Told
  <2> QED BY <1>1, <2>1, <2>4, ClearKeepsTable
<1>7. CASE EditCell(b)
  <2>1. PICK old \in Entries, e \in Entries, j \in Jobs :
           /\ Goes(<<j>>) /\ j.kind = "edit" /\ CellEdited(b, old, e)
           /\ Alike(ui, ui') /\ ui'.generation = ui.generation /\ ui'.group = ui.group /\ ui'.pageBusy = ui.pageBusy
           /\ UNCHANGED <<done, alerts>>
    BY <1>1, <1>7, EditCellIs
  <2>2. Told /\ ui.cache # <<>> /\ ui'.loaded = ui.loaded /\ ui'.draft = ui.draft
    BY <1>2, <2>1 DEF Alike, CellEdited
  <2>3. DOMAIN <<j>> = {1} /\ <<j>>[1] = j
    OBVIOUS
  <2>4. \A c : HasBlock(ui', c) => HasBlock(ui, c)
    <3> SUFFICES ASSUME NEW k \in DOMAIN ui'.cache PROVE HasBlock(ui, ui'.cache[k].block)
      BY DEF HasBlock
    <3>1. \E n \in DOMAIN ui.cache : ui.cache[n].block = ui'.cache[k].block
      BY <2>1 DEF CellEdited
    <3> QED BY <3>1 DEF HasBlock
  <2>5. Fetches(ui.pageBusy, <<j>>)
    BY <2>1, <2>3, NoneFetched
  <2>6. Fetching(<<j>>, ui.pageBusy)
    BY <2>1, <2>2, <2>3, <2>4, <2>5 DEF Fetching, Told
  <2>7. FetchInv'
    BY <2>6, GoesKeepsFetch
  <2>8. CASE Dirty
    <3>1. Tells(<<j>>)
      BY <1>3, <2>1
    <3> QED BY <1>1, <2>1, <2>7, <2>8, <3>1, DirtyStays DEF ShownInv
  <2>9. CASE ~Dirty
    <3>1. PagesMatch /\ (Emptied \/ Filled)
      BY <2>1, <2>9 DEF ShownInv, Goes
    <3>2. PagesMatch' /\ Filled'
      BY <1>1, <1>7, <3>1, EditKeepsShown
    <3> QED BY <2>7, <3>2 DEF ShownInv
  <2> QED BY <2>8, <2>9
<1>8. ASSUME NEW j \in Jobs, Goes(<<j>>), j.kind \in {"mutate", "flush"}, SameTable(ui, ui'), UNCHANGED <<done, alerts>>,
             ui'.draft = ui.draft, ui'.loaded = ui.loaded, j.kind = "mutate" => ui.draft = TRUE
      PROVE  FetchInv' /\ ShownInv'
  <2>1. DOMAIN <<j>> = {1} /\ <<j>>[1] = j
    OBVIOUS
  <2>2. SameCells(ui, ui') /\ ui'.pageBusy = ui.pageBusy /\ Told
    BY <1>2, <1>8 DEF SameTable, SameCells
  <2>3. Fetches(ui.pageBusy, <<j>>)
    BY <1>8, <2>1, <2>2, NoneFetched
  <2>4. Fetching(<<j>>, ui.pageBusy)
    BY <1>8, <2>1, <2>2, <2>3 DEF Fetching, SameCells, Told, HasBlock
  <2>5. Tells(<<j>>) /\ \A i \in DOMAIN <<j>> : <<j>>[i].kind # "edit"
    BY <1>3, <1>8, <2>1
  <2> QED BY <2>2, <2>4, <2>5, SteadyKeepsTable
<1>9. ASSUME NEW act \in Actions, Act(act, b) PROVE FetchInv' /\ ShownInv'
  <2>1. PICK j \in Jobs : /\ Goes(<<j>>) /\ j.kind = "mutate" /\ Calm /\ ui.draft = TRUE /\ UNCHANGED <<done, alerts, typed>>
    BY <1>1, <1>9, ActIs
  <2> QED BY <1>8, <2>1 DEF Calm, Alike
<1>10. CASE Save
  <2>1. PICK j \in Jobs : /\ Goes(<<j>>) /\ j.kind = "flush" /\ SameTable(ui, ui')
                          /\ ui'.draft = ui.draft /\ ui'.loaded = ui.loaded /\ UNCHANGED <<done, alerts, typed>>
    BY <1>1, <1>10, SaveIs
  <2> QED BY <1>8, <2>1
<1>11. CASE NotCommitted
  <2>1. /\ Goes(<<>>) /\ UNCHANGED <<queue, done, count, typed>> /\ Opened("nothing")
        /\ SameTable(ui, ui') /\ ui'.draft = ui.draft /\ ui'.loaded = ui.loaded
    BY <1>1, <1>11, NotCommittedIs DEF Opened
  <2>2. /\ \A n \in DOMAIN alerts' : (\E k \in DOMAIN alerts : alerts'[n] = alerts[k]) \/ alerts'[n] = "nothing"
        /\ \A n \in DOMAIN alerts : n \in DOMAIN alerts' /\ alerts'[n] = alerts[n]
    <3>1. alerts \in Seq(Boxes) /\ "nothing" \in Boxes
      BY <1>1 DEF ShapeInv, UiType, Boxes
    <3> QED BY <2>1, <3>1, OpenedIs
  <2>3. SameCells(ui, ui') /\ ui'.pageBusy = ui.pageBusy /\ Told
    BY <1>2, <2>1 DEF SameTable, SameCells
  <2>4. Fetches(ui.pageBusy, <<>>)
    BY <1>1, <2>3, NoneFetched
  <2>5. Fetching(<<>>, ui.pageBusy)
    BY <1>1, <2>1, <2>2, <2>3, <2>4 DEF Fetching, SameCells, Told, HasBlock
  <2>6. Tells(<<>>)
    BY <2>1, <2>2 DEF Tells
  <2> QED BY <1>1, <2>3, <2>5, <2>6, SteadyKeepsTable
<1> QED BY <1>4, <1>5, <1>6, <1>7, <1>9, <1>10, <1>11

\* Every step.
LEMMA StepsKeepTable ==
  ASSUME Orderly, BarrierInv, FetchInv, ShownInv, EditorNext
  PROVE  FetchInv' /\ ShownInv'
<1>1. Blocks \subseteq Int /\ 0 \in Int
  BY DEF Blocks
<1>2. CASE Work \/ Deliver \/ Dismiss \/ OpenDialog \/ Committed \/ Cancel \/ \E w \in DOMAIN Homes : Learn(w)
  BY <1>2, WorkKeepsFetch, WorkKeepsShown, DeliverKeepsTable, DismissKeepsTable, DialogsKeepTable, LearnKeepsTable
<1>3. CASE ShowPage \/ Save \/ NotCommitted \/ \E g \in DOMAIN ui.known : SelectGroup(g)
  BY <1>1, <1>3, UserKeepsTable
<1>4. CASE (\E b \in Blocks : Paint(b) \/ EditCell(b)) \/ \E act \in Actions, b \in Blocks : Act(act, b)
  BY <1>1, <1>4, UserKeepsTable
<1> QED BY <1>2, <1>3, <1>4 DEF EditorNext

\* There is no table before the first dialog.
LEMMA StartsWithoutTable == ASSUME EditorInit PROVE FetchInv /\ ShownInv
<1>1. ui = Fresh
  BY DEF EditorInit
<1>2. ui.open = FALSE
  BY <1>1, FreshIs
<1> QED BY <1>2 DEF FetchInv, OnePage, Drafted, ShownInv

\* When nothing is under way the table is right.
LEMMA QuietTable == ASSUME Orderly, ShownInv PROVE ShownIsDraft
<1> SUFFICES ASSUME ui.open, Quiet, NEW k \in DOMAIN ui.cache
             PROVE  LET c == ui.cache[k]
                        p == Page(store, ui.group, c.block)
                    IN  IF c.rows = <<>> THEN p = <<>>
                        ELSE /\ p # <<>> /\ p[1].id = c.rows[1].id
                             /\ p[1].version = c.rows[1].version => p[1].value = c.rows[1].value
  BY DEF ShownIsDraft
<1>1. store \in Stores /\ InBounds(store)
  BY SoundNow DEF Orderly, Sound
<1>2. ~Dirty /\ \A n \in DOMAIN queue : queue[n].kind # "edit"
  BY DEF Quiet, Dirty, Alters, Of
<1>3. Filled
  BY <1>2 DEF ShownInv, Emptied
<1>4. /\ Sits(store, ui.group, ui.cache[k].block, ui.cache[k].rows)
      /\ ui.cache[k].rows # <<>> => SameValue(store, ui.cache[k].rows[1])
  BY <1>2, <1>3 DEF Filled, CellsMatch, Latest, Edits, Of
<1> QED BY <1>1, <1>4, SitsPage

\* The draft is what the dialog shows, and it is the dialog's: the pages and
\* the groups that presenter.py asks for behind its edits, one page at a time
\* and each for the generation of its table, leave the table as the draft is
\* when the last of them has come.
THEOREM TableShowsDraft == EditorSpec => []TableIsDraft
<1>1. EditorInit => Orderly /\ TypedInv /\ FetchInv /\ ShownInv
  BY StartsOrderly, StartsTyped, StartsWithoutTable
<1>2. Orderly /\ TypedInv /\ FetchInv /\ ShownInv /\ [EditorNext]_editorVars
        => (Orderly /\ TypedInv /\ FetchInv /\ ShownInv)'
  <2>1. ASSUME Orderly, TypedInv, FetchInv, ShownInv, EditorNext PROVE (Orderly /\ TypedInv /\ FetchInv /\ ShownInv)'
    <3>1. BarrierInv
      BY <2>1 DEF TypedInv
    <3> QED BY <2>1, <3>1, StepsKeepOrder, StepsKeepTyped, StepsKeepTable
  <2>2. ASSUME Orderly, TypedInv, FetchInv, ShownInv, UNCHANGED editorVars PROVE (Orderly /\ TypedInv /\ FetchInv /\ ShownInv)'
    <3>1. Orderly'
      BY <2>2, StutterKeepsOrder
    <3>2. UNCHANGED <<store, queue, done, ui, alerts, count, typed>>
      BY <2>2 DEF editorVars
    <3>3. TypedInv'
      BY <2>2, <3>2 DEF TypedInv, BarrierInv, KnownDraft, FlushQueued, FlushDone, Commits, TypedArrive, Failed, Pending, Written
    <3>4. FetchInv'
      BY <2>2, <3>2 DEF FetchInv, OnePage, Drafted, OnDraft, Fetched
    <3>5. ShownInv'
      BY <2>2, <3>2 DEF ShownInv, Dirty, PagesMatch, Emptied, Filled, CellsMatch, EditsLive, EditsApart, Newest
    <3> QED BY <3>1, <3>3, <3>4, <3>5
  <2> QED BY <2>1, <2>2
<1>3. Orderly /\ TypedInv /\ FetchInv /\ ShownInv => TableIsDraft
  BY QuietTable DEF TableIsDraft, DraftIsFree, Orderly, HandInv, Granted
<1> QED BY <1>1, <1>2, <1>3, PTL DEF EditorSpec
=============================================================================
