---------------------------- MODULE TextPlanProofs ----------------------------
(***************************************************************************)
(* Proofs about the plan of a comment, for every value of the constants:   *)
(* nothing is lost or said twice, a sentence ends behind its full stop,    *)
(* the settings hold for what follows them, and the words of a lesson      *)
(* arrive as they were written.                                            *)
(***************************************************************************)
EXTENDS TextPlan, SequenceTheorems, FiniteSetTheorems, WellFoundedInduction, TLAPS

-----------------------------------------------------------------------------
(***************************************************************************)
(* Places.                                                                 *)
(***************************************************************************)
\* A set of numbers has a first one, and a last one if there is a bound.
LEMMA FirstIs == ASSUME NEW T \in SUBSET Nat, T # {} PROVE First(T) \in T /\ \A n \in T : First(T) <= n
<1> DEFINE R == {pair \in Nat \X Nat : pair[1] < pair[2]}
<1>1. IsWellFoundedOn(R, Nat)
  BY NatLessThanWellFounded DEF OpToRel
<1> HIDE DEF R
<1>2. PICK x \in T : \A y \in T : ~(<<y, x>> \in R)
  BY <1>1, WFMin
<1>3. \A y \in Nat : y < x => <<y, x>> \in R
  BY DEF R
<1>4. ASSUME NEW y \in T PROVE x <= y
  <2>1. ~(y < x) /\ x \in Nat /\ y \in Nat
    BY <1>2, <1>3
  <2> QED BY <2>1
<1> QED BY <1>4 DEF First

LEMMA LastIs ==
  ASSUME NEW m \in Nat, NEW T \in SUBSET (0 .. m), T # {}
  PROVE  \E k \in T : \A n \in T : n <= k
<1> DEFINE D == {m - n : n \in T}
<1>1. \A n \in T : n \in Nat /\ m - n \in Nat
  OBVIOUS
<1>2. D \in SUBSET Nat /\ D # {}
  BY <1>1
<1>3. PICK d \in D : \A e \in D : d <= e
  BY <1>2, FirstIs
<1>4. PICK k \in T : d = m - k
  OBVIOUS
<1>5. ASSUME NEW n \in T PROVE n <= k
  <2>1. d <= m - n /\ n \in Nat /\ k \in Nat
    BY <1>1, <1>3
  <2> QED BY <1>4, <2>1
<1> QED BY <1>5

Spots == 1 .. Len(text)
\* The provers do not know that a literal is in STRING.
Tokens == STRING \cup {"etc"}
TextType == text \in Seq(Tokens)

LEMMA SpotsAre == ASSUME TextType PROVE Len(text) \in Nat /\ DOMAIN text = Spots /\ Spots \subseteq Nat
BY LenProperties DEF TextType, Spots

\* Trimming takes away blanks at the ends.
LEMMA TrimIs ==
  ASSUME NEW S \in SUBSET Int
  PROVE  /\ Trim(S) \subseteq S
         /\ \A k \in S : text[k] # " " => k \in Trim(S)
<1>1. Trim(S) \subseteq S
  BY DEF Trim
<1>2. ASSUME NEW k \in S, text[k] # " " PROVE k \in Trim(S)
  <2>1. k \in {j \in S : ~Blank(j)}
    BY <1>2 DEF Blank
  <2>2. k \in Int /\ k <= k
    OBVIOUS
  <2> QED BY <2>1, <2>2 DEF Trim
<1> QED BY <1>1, <1>2

\* What has a meaning of its own, none of which is taken away: letters, and
\* the words for commands that set the voice.
Marks == {"a", "left"} \cup Numeric

LEMMA MarksAre ==
  ASSUME NEW k
  PROVE  /\ text[k] \in Marks => text[k] \notin {" ", "\\", "=", ")", "(", "1", "teach", "forget", "sound"}
         /\ \A a \in Attributes : Sets(a, k) => text[k] \in Marks /\ text[k] = IF a = "panning" THEN "left" ELSE a
BY DEF Marks, Numeric, Attributes, Sets

\* A mark between two places is in their content, and in what is trimmed.
LEMMA ContentKeeps ==
  ASSUME TextType, NEW o, NEW a \in Int, NEW b \in Int
  PROVE  /\ Trim(Content(o, a, b)) \subseteq a .. b
         /\ \A k \in a .. b : text[k] \in Marks => k \in Trim(Content(o, a, b))
<1>1. Content(o, a, b) \in SUBSET Int /\ Content(o, a, b) \subseteq a .. b
  BY DEF Content
<1>2. Trim(Content(o, a, b)) \subseteq Content(o, a, b)
  BY <1>1, TrimIs
<1>3. ASSUME NEW k \in a .. b, text[k] \in Marks PROVE k \in Trim(Content(o, a, b))
  <2>1. text[k] # " " /\ text[k] # "\\"
    BY <1>3, MarksAre
  <2>2. k \in Content(o, a, b)
    BY <2>1 DEF Content
  <2> QED BY <1>1, <2>1, <2>2, TrimIs
<1> QED BY <1>1, <1>2, <1>3

\* A sentence is the first part of what is said, up to the first full stop.
LEMMA SentenceIs ==
  ASSUME NEW S \in SUBSET Spots, S # {}, TextType
  PROVE  /\ Sentence(S) # {} /\ Sentence(S) \subseteq S
         /\ Ahead(Sentence(S), S \ Sentence(S))
         /\ \A k \in Stops(Sentence(S)), j \in Sentence(S) : j <= k
<1>1. S \in SUBSET Nat /\ Stops(S) \in SUBSET Nat /\ Stops(S) \subseteq S
  BY SpotsAre DEF Stops
<1>2. CASE Stops(S) = {}
  <2>1. Sentence(S) = S
    BY <1>2 DEF Sentence
  <2>2. Stops(Sentence(S)) = {}
    BY <1>2, <2>1
  <2> QED BY <2>1, <2>2 DEF Ahead
<1>3. CASE Stops(S) # {}
  <2> DEFINE f == First(Stops(S))
  <2>1. f \in Stops(S) /\ \A n \in Stops(S) : f <= n
    BY <1>1, <1>3, FirstIs
  <2>2. Sentence(S) = {k \in S : k <= f}
    BY <1>3 DEF Sentence
  <2> HIDE DEF f
  <2>3. f \in S /\ f \in Nat
    BY <1>1, <2>1
  <2>4. f \in Sentence(S)
    BY <2>2, <2>3
  <2>5. Ahead(Sentence(S), S \ Sentence(S))
    <3>1. ASSUME NEW k \in Sentence(S), NEW m \in S \ Sentence(S) PROVE k < m
      <4>1. k <= f /\ ~(m <= f) /\ k \in Nat /\ m \in Nat
        BY <1>1, <2>2
      <4> QED BY <2>3, <4>1
    <3> QED BY <3>1 DEF Ahead
  <2>6. ASSUME NEW k \in Stops(Sentence(S)), NEW j \in Sentence(S) PROVE j <= k
    <3>1. k \in Stops(S)
      BY <2>2 DEF Stops
    <3>2. f <= k /\ j <= f /\ k \in Nat /\ j \in Nat
      BY <1>1, <2>1, <2>2, <3>1
    <3> QED BY <2>3, <3>2
  <2> QED BY <2>2, <2>4, <2>5, <2>6
<1> QED BY <1>2, <1>3

-----------------------------------------------------------------------------
(***************************************************************************)
(* The invariant.  What was made of the comment so far, the items, the     *)
(* segments and what is accumulated, stands in the order of the places,    *)
(* and all of it before the place that is read next; every mark that was   *)
(* read is in one of them, is passed over, or sets the voice as it is now. *)
(***************************************************************************)
Actions == {"speak", "notice", "sound", "add_dict", "del_dict"}
Settings == [Attributes -> 0 .. Len(text)]
Records == [action : Actions, text : SUBSET Spots, word : SUBSET Spots, reading : SUBSET Spots, states : Settings]

\* What is spoken has no word and is not empty, and its settings come before.
Sound(s) ==
  /\ s.action = "speak" => s.text # {} /\ s.word = {} /\ s.reading = {}
  /\ s.action # "speak" => s.text = {}
  /\ Ahead(s.word, s.reading)
SetBefore(s) == s.action = "speak" =>
  \A a \in Attributes : s.states[a] # 0 => Sets(a, s.states[a]) /\ \A k \in s.text : s.states[a] < k
Ends(s) == s.action = "speak" => \A k \in Stops(s.text), j \in s.text : j <= k

InOrder(q) == \A i, j \in DOMAIN q : i < j => Ahead(PlacesOf(q[i]), PlacesOf(q[j]))
Below(q, n) == \A i \in DOMAIN q : \A k \in PlacesOf(q[i]) : k < n
AllAhead(q, S) == \A i \in DOMAIN q : Ahead(PlacesOf(q[i]), S)
Fine(q) == q \in Seq(Records) /\ InOrder(q) /\ \A i \in DOMAIN q : Sound(q[i]) /\ SetBefore(q[i])

Has(q, k) == \E i \in DOMAIN q : k \in PlacesOf(q[i])
Covered(it, seg, acc, k) == Has(it, k) \/ Has(seg, k) \/ k \in acc \/ PassedOver(k)

\* The settings that come before a place that is spoken, after those it is
\* spoken with, are not lost.
Heard(s, it, seg, acc) == s.action = "speak" =>
  \A a \in Attributes, m \in s.text, k \in Spots :
    s.states[a] < k /\ k <= m /\ Sets(a, k) => Covered(it, seg, acc, k)


Shape(p, n, acc, st, seg, it) ==
  /\ p \in {"parse", "list", "done"} /\ n \in 1 .. Len(text) + 1 /\ st \in Settings
  /\ p = "parse" => it = <<>>
  /\ p # "parse" => acc = {} /\ n = Len(text) + 1
  /\ p = "done" => seg = <<>>
SegmentsFine(n, seg) ==
  Fine(seg) /\ Below(seg, n) /\ \A i \in DOMAIN seg : seg[i].action # "notice"
ItemsFine(seg, it) ==
  /\ Fine(it) /\ \A i \in DOMAIN it : Ends(it[i])
  /\ \A i \in DOMAIN seg : AllAhead(it, PlacesOf(seg[i]))
Current(n, acc, st, seg) ==
  /\ acc \in SUBSET Spots /\ (\A k \in acc : k < n) /\ AllAhead(seg, acc)
  /\ \A a \in Attributes : st[a] # 0 => Sets(a, st[a]) /\ st[a] < n /\ \A k \in acc : st[a] < k
Read(n, acc, st, seg, it) ==
  /\ \A k \in Spots : k < n /\ text[k] = "a" => Covered(it, seg, acc, k)
  /\ \A a \in Attributes, k \in Spots : st[a] < k /\ k < n /\ Sets(a, k) => Covered(it, seg, acc, k)
Kept(acc, seg, it) ==
  (\A i \in DOMAIN seg : Heard(seg[i], it, seg, acc)) /\ (\A i \in DOMAIN it : Heard(it[i], it, seg, acc))

PlanInv(p, n, acc, st, seg, it) ==
  /\ Shape(p, n, acc, st, seg, it) /\ SegmentsFine(n, seg) /\ ItemsFine(seg, it)
  /\ Current(n, acc, st, seg) /\ Read(n, acc, st, seg, it) /\ Kept(acc, seg, it)
Inv == TextType /\ PlanInv(pc, index, accumulated, states, segments, items)

\* The text stays, and so does what is said of it.
LEMMA TextStays ==
  ASSUME text' = text
  PROVE  /\ \A a, k : Sets(a, k)' <=> Sets(a, k)
         /\ \A k : PassedOver(k)' <=> PassedOver(k)
         /\ Spots' = Spots /\ Settings' = Settings /\ Records' = Records
         /\ \A S : Stops(S)' = Stops(S)
<1>1. \A a, k : Sets(a, k)' <=> Sets(a, k)
  BY DEF Sets, Digits
<1>2. \A k : PassedOver(k)' <=> PassedOver(k)
  BY DEF PassedOver
<1>3. Spots' = Spots /\ Settings' = Settings
  BY DEF Spots, Settings
<1>4. Records' = Records
  BY <1>3 DEF Records
<1>5. \A S : Stops(S)' = Stops(S)
  BY DEF Stops
<1> QED BY <1>1, <1>2, <1>3, <1>4, <1>5


\* So the invariant holds next when it holds of the next values.
LEMMA NextInv ==
  ASSUME text' = text, TextType, PlanInv(pc', index', accumulated', states', segments', items')
  PROVE  Inv'
<1> USE TextStays
<1>1. TextType'
  BY DEF TextType
<1>2. Shape(pc, index, accumulated, states, segments, items)'
  BY DEF PlanInv, Shape
<1>3. SegmentsFine(index, segments)'
  BY DEF PlanInv, SegmentsFine, Fine, SetBefore, Sound, InOrder, Below
<1>4. ItemsFine(segments, items)'
  BY DEF PlanInv, ItemsFine, Fine, SetBefore, Sound, InOrder, AllAhead, Ends
<1>5. Current(index, accumulated, states, segments)'
  BY DEF PlanInv, Current, AllAhead
<1>6. Read(index, accumulated, states, segments, items)'
  BY DEF PlanInv, Read, Covered
<1>7. Kept(accumulated, segments, items)'
  BY DEF PlanInv, Kept, Heard, Covered
<1> QED BY <1>1, <1>2, <1>3, <1>4, <1>5, <1>6, <1>7 DEF Inv, PlanInv

-----------------------------------------------------------------------------
(***************************************************************************)
(* Lists of segments and items.                                            *)
(***************************************************************************)
\* An element more.
LEMMA Appended ==
  ASSUME NEW S, NEW q \in Seq(S), NEW s \in S
  PROVE  /\ Append(q, s) \in Seq(S) /\ Len(q) \in Nat /\ Len(Append(q, s)) = Len(q) + 1
         /\ DOMAIN q = 1 .. Len(q) /\ DOMAIN Append(q, s) = 1 .. Len(q) + 1
         /\ Append(q, s)[Len(q) + 1] = s
         /\ \A i \in DOMAIN q : i \in DOMAIN Append(q, s) /\ Append(q, s)[i] = q[i] /\ i < Len(q) + 1
         /\ \A i \in DOMAIN Append(q, s) : (i \in DOMAIN q /\ Append(q, s)[i] = q[i]) \/ i = Len(q) + 1
<1> DEFINE n == Len(q)
           r == Append(q, s)
<1>1. r \in Seq(S) /\ Len(r) = n + 1 /\ \A i \in 1 .. n : r[i] = q[i]
  BY AppendProperties
<1>2. r[n + 1] = s
  BY AppendProperties
<1>3. n \in Nat /\ DOMAIN q = 1 .. n /\ DOMAIN r = 1 .. n + 1
  BY <1>1, LenProperties
<1> HIDE DEF n, r
<1>4. \A i \in 1 .. n : i \in 1 .. n + 1 /\ i < n + 1
  BY <1>3
<1>5. \A i \in 1 .. n + 1 : i \in 1 .. n \/ i = n + 1
  BY <1>3
<1>6. \A i \in DOMAIN q : i \in DOMAIN r /\ r[i] = q[i] /\ i < n + 1
  BY <1>1, <1>3, <1>4
<1>7. \A i \in DOMAIN r : (i \in DOMAIN q /\ r[i] = q[i]) \/ i = n + 1
  BY <1>1, <1>3, <1>5
<1>8. n = Len(q) /\ r = Append(q, s)
  BY DEF n, r
<1> QED BY <1>1, <1>2, <1>3, <1>6, <1>7, <1>8

LEMMA HasAppended ==
  ASSUME NEW S, NEW q \in Seq(S), NEW s \in S, NEW k
  PROVE  Has(Append(q, s), k) <=> (Has(q, k) \/ k \in PlacesOf(s))
<1>1. ASSUME Has(Append(q, s), k) PROVE Has(q, k) \/ k \in PlacesOf(s)
  <2>1. PICK i \in DOMAIN Append(q, s) : k \in PlacesOf(Append(q, s)[i])
    BY <1>1 DEF Has
  <2> QED BY <2>1, Appended DEF Has
<1>2. ASSUME Has(q, k) PROVE Has(Append(q, s), k)
  <2>1. PICK i \in DOMAIN q : k \in PlacesOf(q[i])
    BY <1>2 DEF Has
  <2> QED BY <2>1, Appended DEF Has
<1>3. ASSUME k \in PlacesOf(s) PROVE Has(Append(q, s), k)
  <2>1. Len(q) + 1 \in DOMAIN Append(q, s) /\ Append(q, s)[Len(q) + 1] = s
    <3>1. Len(q) \in Nat /\ DOMAIN Append(q, s) = 1 .. Len(q) + 1 /\ Append(q, s)[Len(q) + 1] = s
      BY Appended
    <3>2. Len(q) + 1 \in 1 .. Len(q) + 1
      BY <3>1
    <3> QED BY <3>1, <3>2
  <2> QED BY <1>3, <2>1 DEF Has
<1> QED BY <1>1, <1>2, <1>3

LEMMA FineAppended ==
  ASSUME NEW q, Fine(q), NEW s \in Records, Sound(s), SetBefore(s), AllAhead(q, PlacesOf(s))
  PROVE  Fine(Append(q, s))
<1> DEFINE r == Append(q, s)
           l == Len(q) + 1
<1>1. q \in Seq(Records)
  BY DEF Fine
<1>2. r \in Seq(Records) /\ r[l] = s /\ l \in Nat /\ DOMAIN r = 1 .. l
      /\ (\A i \in DOMAIN q : r[i] = q[i] /\ i < l)
      /\ \A i \in DOMAIN r : (i \in DOMAIN q /\ r[i] = q[i]) \/ i = l
  BY <1>1, Appended
<1> HIDE DEF r, l
<1>3. ASSUME NEW i \in DOMAIN r, NEW j \in DOMAIN r, i < j PROVE Ahead(PlacesOf(r[i]), PlacesOf(r[j]))
  <2>1. i \in DOMAIN q /\ r[i] = q[i]
    <3>1. i # l
      <4>1. j \in 1 .. l
        BY <1>2
      <4> QED BY <1>2, <1>3, <4>1
    <3> QED BY <1>2, <3>1
  <2>2. CASE j \in DOMAIN q /\ r[j] = q[j]
    BY <1>3, <2>1, <2>2 DEF Fine, InOrder
  <2>3. CASE j = l
    BY <1>2, <2>1, <2>3 DEF AllAhead
  <2> QED BY <1>2, <2>2, <2>3
<1>4. \A i \in DOMAIN r : Sound(r[i]) /\ SetBefore(r[i])
  BY <1>2 DEF Fine
<1> QED BY <1>2, <1>3, <1>4 DEF Fine, InOrder, r

LEMMA SegmentsAppended ==
  ASSUME TextType, NEW n \in Int, NEW m \in Int, n <= m, NEW q, SegmentsFine(n, q),
         NEW s \in Records, s.action # "notice", Sound(s), SetBefore(s), AllAhead(q, PlacesOf(s)),
         \A k \in PlacesOf(s) : k < m
  PROVE  SegmentsFine(m, Append(q, s))
<1>1. Fine(q) /\ q \in Seq(Records) /\ Fine(Append(q, s))
  BY FineAppended DEF SegmentsFine, Fine
<1>2. \A i \in DOMAIN Append(q, s) :
        \/ i \in DOMAIN q /\ Append(q, s)[i] = q[i]
        \/ Append(q, s)[i] = s
  BY <1>1, Appended
<1>3. ASSUME NEW i \in DOMAIN Append(q, s), NEW k \in PlacesOf(Append(q, s)[i]) PROVE k < m
  <2>1. CASE Append(q, s)[i] = s
    BY <1>3, <2>1
  <2>2. CASE i \in DOMAIN q /\ Append(q, s)[i] = q[i]
    <3>1. q[i] \in Records /\ k < n
      BY <1>1, <1>3, <2>2, ElementOfSeq, LenProperties DEF SegmentsFine, Below
    <3>2. k \in Spots
      BY <1>3, <2>2, <3>1 DEF PlacesOf, Records
    <3> QED BY <3>1, <3>2, SpotsAre
  <2> QED BY <1>2, <2>1, <2>2
<1>4. \A i \in DOMAIN Append(q, s) : Append(q, s)[i].action # "notice"
  BY <1>2 DEF SegmentsFine
<1> QED BY <1>1, <1>3, <1>4 DEF SegmentsFine, Below

-----------------------------------------------------------------------------
(***************************************************************************)
(* parse_segments.                                                         *)
(***************************************************************************)
\* What was accumulated becomes a segment, without its blanks.
LEMMA SaidIs ==
  ASSUME Inv, Trim(accumulated) # {}
  PROVE  LET s == Said(Trim(accumulated)) IN
         /\ s \in Records /\ s.action = "speak" /\ Sound(s) /\ SetBefore(s) /\ s.states = states
         /\ PlacesOf(s) = s.text /\ s.text = Trim(accumulated)
<1> DEFINE S == Trim(accumulated)
           s == Said(S)
<1>1. accumulated \in SUBSET Spots /\ Spots \subseteq Int /\ S \subseteq accumulated /\ states \in Settings
  <2>1. accumulated \in SUBSET Spots /\ states \in Settings /\ TextType
    BY DEF Inv, PlanInv, Current, Shape
  <2>2. Spots \subseteq Int
    BY <2>1, SpotsAre
  <2> QED BY <2>1, <2>2, TrimIs
<1>2. s = [action |-> "speak", text |-> S, word |-> {}, reading |-> {}, states |-> states]
  BY DEF Said, Segment
<1>3. \A a \in Attributes : states[a] # 0 => Sets(a, states[a]) /\ \A k \in accumulated : states[a] < k
  BY DEF Inv, PlanInv, Current
<1> HIDE DEF S, s
<1>4. s \in Records
  BY <1>1, <1>2 DEF Records, Actions
<1>5. s.action = "speak" /\ s.text = S /\ s.word = {} /\ s.reading = {} /\ s.states = states
  BY <1>2
<1>6. Sound(s)
  BY <1>5 DEF Sound, Ahead, S
<1>7. SetBefore(s)
  BY <1>1, <1>3, <1>5 DEF SetBefore
<1>8. PlacesOf(s) = s.text
  BY <1>5 DEF PlacesOf
<1> QED BY <1>4, <1>5, <1>6, <1>7, <1>8 DEF s, S

LEMMA FlushedIs ==
  ASSUME Inv
  PROVE  /\ SegmentsFine(index, Flushed)
         /\ \A k : Has(segments, k) => Has(Flushed, k)
         /\ \A k \in accumulated : text[k] \in Marks => Has(Flushed, k)
         /\ \A i \in DOMAIN segments : i \in DOMAIN Flushed /\ Flushed[i] = segments[i]
         /\ \A i \in DOMAIN Flushed : Heard(Flushed[i], items, segments, accumulated)
         /\ \A k \in Spots : index <= k => \A i \in DOMAIN Flushed : \A j \in PlacesOf(Flushed[i]) : j < k
<1>1. /\ SegmentsFine(index, segments) /\ segments \in Seq(Records) /\ TextType /\ index \in Int
      /\ accumulated \in SUBSET Spots /\ Spots \subseteq Int /\ AllAhead(segments, accumulated)
      /\ \A k \in accumulated : k < index
      /\ \A i \in DOMAIN segments : Heard(segments[i], items, segments, accumulated)
  BY SpotsAre DEF Inv, PlanInv, SegmentsFine, Fine, Shape, Current, Kept
<1>2. \A k \in accumulated : text[k] \in Marks => k \in Trim(accumulated)
  BY <1>1, TrimIs, MarksAre
<1> DEFINE Holding ==
      /\ SegmentsFine(index, Flushed)
      /\ \A k : Has(segments, k) => Has(Flushed, k)
      /\ \A k \in accumulated : text[k] \in Marks => Has(Flushed, k)
      /\ \A i \in DOMAIN segments : i \in DOMAIN Flushed /\ Flushed[i] = segments[i]
      /\ \A i \in DOMAIN Flushed : Heard(Flushed[i], items, segments, accumulated)
<1>3. ASSUME Trim(accumulated) = {} PROVE Holding
  <2>1. Flushed = segments
    BY <1>3 DEF Flushed
  <2>2. \A k \in accumulated : text[k] \in Marks => Has(Flushed, k)
    BY <1>2, <1>3
  <2>3. SegmentsFine(index, Flushed)
        /\ (\A k : Has(segments, k) => Has(Flushed, k))
        /\ (\A i \in DOMAIN segments : i \in DOMAIN Flushed /\ Flushed[i] = segments[i])
        /\ (\A i \in DOMAIN Flushed : Heard(Flushed[i], items, segments, accumulated))
    BY <1>1, <2>1
  <2> HIDE DEF Flushed
  <2> QED BY <2>2, <2>3 DEF Holding
<1>4. ASSUME Trim(accumulated) # {} PROVE Holding
  <2> DEFINE s == Said(Trim(accumulated))
  <2>1. /\ s \in Records /\ s.action = "speak" /\ Sound(s) /\ SetBefore(s) /\ s.states = states
        /\ PlacesOf(s) = s.text /\ s.text = Trim(accumulated)
    BY <1>4, SaidIs
  <2>2. Flushed = Append(segments, s)
    BY <1>4 DEF Flushed
  <2> HIDE DEF s
  <2>3. Trim(accumulated) \subseteq accumulated
    BY <1>1, TrimIs
  <2>4. AllAhead(segments, PlacesOf(s)) /\ \A k \in PlacesOf(s) : k < index
    BY <1>1, <2>1, <2>3 DEF AllAhead, Ahead
  <2>5. SegmentsFine(index, Flushed)
    <3>1. index <= index
      BY <1>1
    <3> QED BY <1>1, <2>1, <2>2, <2>4, <3>1, SegmentsAppended
  <2>6. \A k : Has(Flushed, k) <=> (Has(segments, k) \/ k \in PlacesOf(s))
    BY <1>1, <2>1, <2>2, HasAppended
  <2>7. /\ \A i \in DOMAIN segments : i \in DOMAIN Flushed /\ Flushed[i] = segments[i]
        /\ \A i \in DOMAIN Flushed : (i \in DOMAIN segments /\ Flushed[i] = segments[i]) \/ Flushed[i] = s
    BY <1>1, <2>1, <2>2, Appended
  <2>8. Heard(s, items, segments, accumulated)
    <3>1. ASSUME NEW a \in Attributes, NEW m \in s.text, NEW k \in Spots, states[a] < k, k <= m, Sets(a, k)
          PROVE  Covered(items, segments, accumulated, k)
      <4>1. m \in accumulated /\ m \in Int /\ m < index /\ k \in Int
        BY <1>1, <2>1, <2>3
      <4>2. k < index
        BY <1>1, <3>1, <4>1
      <4> QED BY <3>1, <4>2 DEF Inv, PlanInv, Read
    <3> QED BY <2>1, <3>1 DEF Heard
  <2> HIDE DEF Flushed
  <2>9. \A k \in accumulated : text[k] \in Marks => Has(Flushed, k)
    BY <1>2, <2>1, <2>6
  <2>10. \A i \in DOMAIN Flushed : Heard(Flushed[i], items, segments, accumulated)
    BY <1>1, <2>7, <2>8
  <2> QED BY <2>5, <2>6, <2>7, <2>9, <2>10 DEF Holding
<1> HIDE DEF Flushed
<1>5. ASSUME SegmentsFine(index, Flushed), NEW k \in Spots, index <= k, NEW i \in DOMAIN Flushed, NEW j \in PlacesOf(Flushed[i])
      PROVE  j < k
  <2>1. Flushed \in Seq(Records) /\ j < index
    BY <1>5 DEF SegmentsFine, Fine, Below
  <2>2. Flushed[i] \in Records
    BY <2>1, ElementOfSeq, LenProperties
  <2>3. j \in Spots
    BY <2>2 DEF PlacesOf, Records
  <2>4. j \in Int /\ k \in Int
    BY <1>1, <2>3
  <2> QED BY <1>1, <1>5, <2>1, <2>4
<1>6. Holding
  BY <1>3, <1>4
<1> QED BY <1>5, <1>6 DEF Holding

\* One turn of the loop that reads from index to n and leaves nothing
\* accumulated: q are the segments then, and st the settings.
Grows(q) ==
  /\ \A k : Has(Flushed, k) => Has(q, k)
  /\ \A i \in DOMAIN q : (i \in DOMAIN Flushed /\ q[i] = Flushed[i]) \/ q[i].action # "speak"
SetOrStays(n, st) ==
  \A a \in Attributes : st[a] = states[a] \/ (st[a] = index /\ index < n /\ Sets(a, index))
Taken(n, st, q) ==
  \A k \in Spots : index <= k /\ k < n /\ text[k] \in Marks =>
    \/ Has(q, k) \/ PassedOver(k)
    \/ k = index /\ text[k] # "a" /\ \A a \in Attributes : Sets(a, k) => st[a] = k

LEMMA Turn ==
  ASSUME Inv, pc = "parse",
         NEW p, NEW n \in Int, NEW st \in Settings, NEW q,
         p = "parse" \/ (p = "list" /\ n = Len(text) + 1), index <= n, n <= Len(text) + 1,
         SegmentsFine(n, q), Grows(q), SetOrStays(n, st), Taken(n, st, q)
  PROVE  PlanInv(p, n, {}, st, q, items)
<1>1. /\ TextType /\ index \in Int /\ 1 <= index /\ items = <<>> /\ Spots \subseteq Int /\ Len(text) \in Nat
      /\ accumulated \in SUBSET Spots
  BY SpotsAre DEF Inv, PlanInv, Shape, Current
<1>2. Shape(p, n, {}, st, q, items)
  <2>1. n \in 1 .. Len(text) + 1
    BY <1>1
  <2> QED BY <1>1, <2>1 DEF Shape
<1>3. ItemsFine(q, items)
  <2>1. DOMAIN items = {} /\ Fine(items)
    BY <1>1 DEF Inv, PlanInv, ItemsFine
  <2> QED BY <2>1 DEF ItemsFine, AllAhead
<1>4. Current(n, {}, st, q)
  <2>1. AllAhead(q, {})
    BY DEF AllAhead, Ahead
  <2>2. ASSUME NEW a \in Attributes, st[a] # 0 PROVE Sets(a, st[a]) /\ st[a] < n
    <3>1. CASE st[a] = states[a]
      <4>1. Sets(a, states[a]) /\ states[a] < index
        BY <2>2, <3>1 DEF Inv, PlanInv, Current
      <4>2. st[a] \in Int
        BY <1>1 DEF Settings
      <4> QED BY <1>1, <3>1, <4>1, <4>2
    <3>2. CASE st[a] = index /\ index < n /\ Sets(a, index)
      BY <3>2
    <3> QED BY <3>1, <3>2 DEF SetOrStays
  <2> QED BY <2>1, <2>2 DEF Current
<1>5. ASSUME NEW k, text[k] \in Marks, Covered(items, segments, accumulated, k) PROVE Covered(items, q, {}, k)
  BY <1>5, FlushedIs DEF Covered, Grows
<1>6. ASSUME NEW k \in Spots, index <= k, k < n, text[k] \in Marks
      PROVE  \/ Covered(items, q, {}, k)
             \/ k = index /\ text[k] # "a" /\ \A a \in Attributes : Sets(a, k) => st[a] = k
  BY <1>6 DEF Taken, Covered
<1>7. ASSUME NEW k \in Spots, k < n, text[k] = "a" PROVE Covered(items, q, {}, k)
  <2>1. text[k] \in Marks
    BY <1>7 DEF Marks
  <2>2. CASE k < index
    <3>1. Covered(items, segments, accumulated, k)
      BY <1>7, <2>2 DEF Inv, PlanInv, Read
    <3> QED BY <1>5, <2>1, <3>1
  <2>3. CASE index <= k
    BY <1>6, <1>7, <2>1, <2>3
  <2>4. k \in Int
    BY <1>1
  <2> QED BY <1>1, <2>2, <2>3, <2>4
<1>8. ASSUME NEW a \in Attributes, NEW k \in Spots, st[a] < k, k < n, Sets(a, k) PROVE Covered(items, q, {}, k)
  <2>1. text[k] \in Marks
    BY <1>8, MarksAre
  <2>2. k \in Int /\ st[a] \in Int /\ states[a] \in Int
    BY <1>1 DEF Settings, Inv, PlanInv, Shape
  <2>3. CASE k < index
    <3>1. states[a] < k
      <4>1. st[a] = states[a] \/ st[a] = index
        BY DEF SetOrStays
      <4> QED BY <1>1, <1>8, <2>2, <2>3, <4>1
    <3>2. Covered(items, segments, accumulated, k)
      BY <1>8, <2>3, <3>1 DEF Inv, PlanInv, Read
    <3> QED BY <1>5, <2>1, <3>2
  <2>4. CASE index <= k
    <3>1. st[a] # k
      BY <1>8, <2>2
    <3> QED BY <1>6, <1>8, <2>1, <2>4, <3>1
  <2> QED BY <1>1, <2>2, <2>3, <2>4
<1>9. Read(n, {}, st, q, items)
  BY <1>7, <1>8 DEF Read
<1>10. Kept({}, q, items)
  <2>1. ASSUME NEW i \in DOMAIN q, q[i].action = "speak" PROVE Heard(q[i], items, q, {})
    <3>1. i \in DOMAIN Flushed /\ q[i] = Flushed[i]
      BY <2>1 DEF Grows
    <3>2. Heard(q[i], items, segments, accumulated)
      BY <3>1, FlushedIs
    <3>3. \A a \in Attributes, k \in Spots : Sets(a, k) /\ Covered(items, segments, accumulated, k) => Covered(items, q, {}, k)
      BY <1>5, MarksAre
    <3> QED BY <3>2, <3>3 DEF Heard
  <2>2. \A i \in DOMAIN q : Heard(q[i], items, q, {})
    BY <2>1 DEF Heard
  <2>3. DOMAIN items = {}
    BY <1>1
  <2> QED BY <2>2, <2>3 DEF Kept
<1> QED BY <1>2, <1>3, <1>4, <1>9, <1>10 DEF PlanInv

\* A segment for a command, behind what was accumulated.
LEMMA CommandAppended ==
  ASSUME Inv, pc = "parse", NEW n \in Int, index <= n, n <= Len(text) + 1,
         NEW c \in Records, c.action \notin {"speak", "notice"}, Sound(c),
         \A k \in PlacesOf(c) : index <= k /\ k < n
  PROVE  /\ SegmentsFine(n, Append(Flushed, c)) /\ Grows(Append(Flushed, c))
         /\ \A k \in PlacesOf(c) : Has(Append(Flushed, c), k)
<1>1. TextType /\ index \in Int /\ Spots \subseteq Int
  BY SpotsAre DEF Inv, PlanInv, Shape
<1>2. SegmentsFine(index, Flushed) /\ Flushed \in Seq(Records)
  BY FlushedIs DEF SegmentsFine, Fine
<1>3. AllAhead(Flushed, PlacesOf(c))
  <2>1. PlacesOf(c) \subseteq Spots
    BY DEF PlacesOf, Records
  <2> QED BY <2>1, FlushedIs DEF AllAhead, Ahead
<1>4. SetBefore(c)
  BY DEF SetBefore
<1> HIDE DEF Flushed
<1>5. SegmentsFine(n, Append(Flushed, c))
  BY <1>1, <1>2, <1>3, <1>4, SegmentsAppended
<1>6. \A k : Has(Append(Flushed, c), k) <=> (Has(Flushed, k) \/ k \in PlacesOf(c))
  BY <1>2, HasAppended
<1>7. \A i \in DOMAIN Append(Flushed, c) :
        \/ i \in DOMAIN Flushed /\ Append(Flushed, c)[i] = Flushed[i]
        \/ Append(Flushed, c)[i] = c
  BY <1>2, Appended
<1>8. Grows(Append(Flushed, c))
  BY <1>6, <1>7 DEF Grows
<1> QED BY <1>5, <1>6, <1>8

\* Where a parenthesis opens and closes, and where a pair is parted.
LEMMA CloseIs ==
  ASSUME TextType, NEW o \in Nat, Closes(o)
  PROVE  Close(o) \in Spots /\ o < Close(o) /\ text[Close(o)] = ")" /\ Close(o) \in Unescaped(o, ")")
         /\ \A k \in Unescaped(o, ")") : Close(o) <= k
<1>1. Unescaped(o, ")") \in SUBSET Nat /\ Unescaped(o, ")") # {} /\ Unescaped(o, ")") \subseteq o + 1 .. Len(text)
  BY SpotsAre DEF Closes, Unescaped
<1>2. Close(o) \in Unescaped(o, ")") /\ \A k \in Unescaped(o, ")") : Close(o) <= k
  BY <1>1, FirstIs DEF Close
<1>3. Close(o) \in o + 1 .. Len(text) /\ text[Close(o)] = ")"
  BY <1>1, <1>2 DEF Unescaped
<1>4. Close(o) \in Spots /\ o < Close(o)
  BY <1>3, SpotsAre DEF Spots
<1> QED BY <1>2, <1>3, <1>4

LEMMA EqualsIs ==
  ASSUME TextType, NEW o \in Nat, Closes(o), Equals(o) # {}
  PROVE  LET e == First(Equals(o)) IN
         e \in Spots /\ o < e /\ e < Close(o) /\ text[e] = "=" /\ e \in Equals(o) /\ \A k \in Equals(o) : e <= k
<1> DEFINE e == First(Equals(o))
<1>1. Equals(o) \in SUBSET Nat /\ Equals(o) \subseteq o + 1 .. Len(text)
  BY SpotsAre DEF Equals, Unescaped
<1>2. e \in Equals(o) /\ \A k \in Equals(o) : e <= k
  BY <1>1, FirstIs
<1> HIDE DEF e
<1>3. e \in o + 1 .. Len(text) /\ e < Close(o) /\ text[e] = "="
  BY <1>1, <1>2 DEF Equals, Unescaped
<1>4. e \in Spots /\ o < e
  BY <1>3, SpotsAre DEF Spots
<1> QED BY <1>2, <1>3, <1>4 DEF e

LEMMA OpenIs ==
  ASSUME TextType, index \in Nat, 1 <= index, Opens # {}
  PROVE  Open \in Spots /\ index <= Open /\ text[Open] = "("
         /\ \A k \in Spots : index <= k /\ k < Open => text[k] # "("
<1>1. Opens \in SUBSET Nat /\ Opens \subseteq Spots
  BY SpotsAre DEF Opens, Spots
<1>2. Open \in Opens /\ \A k \in Opens : Open <= k
  BY <1>1, FirstIs DEF Open
<1>3. Open \in Spots /\ index <= Open /\ text[Open] = "("
  BY <1>1, <1>2 DEF Opens
<1>4. ASSUME NEW k \in Spots, index <= k, k < Open, text[k] = "(" PROVE FALSE
  <2>1. k \in index .. Len(text)
    BY <1>4, SpotsAre DEF Spots
  <2>2. k \in Opens
    BY <1>4, <2>1 DEF Opens
  <2>3. Open <= k /\ k \in Nat /\ Open \in Nat
    BY <1>1, <1>2, <1>4, <2>2, SpotsAre
  <2> QED BY <1>4, <2>3
<1> QED BY <1>3, <1>4

\* The settings stay with a command of the dictionary or a sound.
LEMMA SettingsStay == ASSUME Inv, NEW n PROVE states \in Settings /\ SetOrStays(n, states)
BY DEF SetOrStays, Inv, PlanInv, Shape

\* What the word for a command of the dictionary reaches over is passed over.
LEMMA ReachedOver ==
  ASSUME TextType, index \in Spots, text[index] \in {"teach", "forget"}, Opens # {},
         NEW k \in Spots, index < k, k < Open
  PROVE  PassedOver(k)
<1>1. index \in Nat /\ 1 <= index /\ k \in Nat /\ Len(text) \in Nat
  BY SpotsAre DEF Spots
<1>2. Open \in Spots /\ text[Open] = "(" /\ \A h \in Spots : index <= h /\ h < Open => text[h] # "("
  BY <1>1, OpenIs
<1>3. index \in 1 .. k - 1 /\ Open \in k + 1 .. Len(text)
  <2>1. Open \in Nat /\ Open <= Len(text)
    BY <1>1, <1>2 DEF Spots
  <2> QED BY <1>1, <2>1
<1>4. \A h \in index .. k : text[h] # "("
  <2>1. ASSUME NEW h \in index .. k PROVE h \in Spots /\ index <= h /\ h < Open
    <3>1. Open \in Nat /\ Open <= Len(text) /\ k <= Len(text)
      BY <1>1, <1>2 DEF Spots
    <3> QED BY <1>1, <3>1 DEF Spots
  <2> QED BY <1>2, <2>1
<1> QED BY <1>2, <1>3, <1>4 DEF PassedOver

IsCommand(s, action, w, r) ==
  s \in Records /\ s.action = action /\ s.word = w /\ s.reading = r /\ Sound(s) /\ PlacesOf(s) = w \cup r

\* The segment of a command.
LEMMA SegmentIs ==
  ASSUME Inv, NEW action \in {"sound", "add_dict", "del_dict"}, NEW w \in SUBSET Spots, NEW r \in SUBSET Spots, Ahead(w, r),
         NEW s, s = Segment(action, {}, w, r)
  PROVE  IsCommand(s, action, w, r)
<1>1. s = [action |-> action, text |-> {}, word |-> w, reading |-> r, states |-> states]
  BY DEF Segment
<1>2. states \in Settings
  BY DEF Inv, PlanInv, Shape
<1>3. s \in Records
  BY <1>1, <1>2 DEF Records, Actions
<1>4. s.action = action /\ s.text = {} /\ s.word = w /\ s.reading = r
  BY <1>1
<1>5. Sound(s) /\ PlacesOf(s) = w \cup r
  BY <1>4 DEF Sound, PlacesOf
<1> QED BY <1>3, <1>4, <1>5 DEF IsCommand

\* A command of the dictionary or a sound: c is its segment, and every mark
\* behind the word for it is in the segment or passed over.
LEMMA CommandTurn ==
  ASSUME Inv, pc = "parse", index \in Spots, text[index] \in {"teach", "forget", "sound"}, text' = text, pc' = pc, items' = items,
         NEW action \in {"sound", "add_dict", "del_dict"}, NEW w \in SUBSET Spots, NEW r \in SUBSET Spots, Ahead(w, r),
         index' \in Nat, index <= index', index' <= Len(text) + 1, \A k \in w \cup r : index <= k /\ k < index',
         \A k \in Spots : index < k /\ k < index' /\ text[k] \in Marks => k \in w \cup r \/ PassedOver(k),
         segments' = Append(Flushed, Segment(action, {}, w, r)), accumulated' = Cleared, states' = states
  PROVE  Inv'
<1> DEFINE s == Segment(action, {}, w, r)
           q == Append(Flushed, s)
<1>1. s = Segment(action, {}, w, r)
  OBVIOUS
<1> HIDE DEF s
<1>2. IsCommand(s, action, w, r)
  BY <1>1, SegmentIs
<1>3. s \in Records /\ s.action = action /\ s.word = w /\ s.reading = r /\ Sound(s) /\ PlacesOf(s) = w \cup r
  BY <1>2 DEF IsCommand
<1>4. s.action \notin {"speak", "notice"}
  BY <1>3
<1>5. index' \in Int /\ TextType
  BY DEF Inv
<1>6. SegmentsFine(index', q) /\ Grows(q) /\ \A k \in PlacesOf(s) : Has(q, k)
  BY <1>3, <1>4, <1>5, CommandAppended
<1> HIDE DEF q
<1>7. Taken(index', states, q)
  <2>1. ASSUME NEW k \in Spots, index <= k, k < index', text[k] \in Marks PROVE Has(q, k) \/ PassedOver(k)
    <3>1. k # index
      BY <2>1, MarksAre
    <3>2. index < k
      <4>1. k \in Nat /\ index \in Nat
        BY <1>5, SpotsAre
      <4> QED BY <2>1, <3>1, <4>1
    <3> QED BY <1>3, <1>6, <2>1, <3>2
  <2> QED BY <2>1 DEF Taken
<1>8. states \in Settings /\ SetOrStays(index', states)
  BY SettingsStay
<1>9. PlanInv(pc, index', {}, states, q, items)
  BY <1>5, <1>6, <1>7, <1>8, Turn
<1>10. segments' = q
  BY DEF q, s
<1> QED BY <1>5, <1>9, <1>10, NextInv DEF Cleared

\* What is between two parts of the text, in order.
LEMMA ContentIn ==
  ASSUME TextType, NEW o \in Nat, NEW a \in Nat, NEW b \in Spots, a >= 1
  PROVE  LET S == Trim(Content(o, a, b - 1)) IN
         /\ S \in SUBSET Spots /\ \A k \in S : a <= k /\ k < b
         /\ \A k \in Spots : a <= k /\ k < b /\ text[k] \in Marks => k \in S
<1> DEFINE S == Trim(Content(o, a, b - 1))
<1>1. b \in Nat /\ b <= Len(text) /\ Len(text) \in Nat /\ a \in Int /\ b - 1 \in Int
  BY SpotsAre DEF Spots
<1>2. S \subseteq a .. b - 1 /\ \A k \in a .. b - 1 : text[k] \in Marks => k \in S
  BY <1>1, ContentKeeps
<1> HIDE DEF S
<1>3. \A k \in a .. b - 1 : k \in Spots /\ a <= k /\ k < b
  BY <1>1 DEF Spots
<1>4. \A k \in Spots : a <= k /\ k < b => k \in a .. b - 1
  BY <1>1 DEF Spots
<1> QED BY <1>2, <1>3, <1>4 DEF S

LEMMA Reading ==
  ASSUME Inv, pc = "parse", index <= Len(text)
  PROVE  TextType /\ index \in Spots /\ index \in Nat /\ 1 <= index /\ Len(text) \in Nat /\ Spots \subseteq Nat
<1>1. TextType /\ index \in 1 .. Len(text) + 1
  BY DEF Inv, PlanInv, Shape
<1>2. Len(text) \in Nat /\ Spots \subseteq Nat
  BY <1>1, SpotsAre
<1> QED BY <1>1, <1>2 DEF Spots

LEMMA TeachStep == ASSUME Inv, Teach PROVE Inv'
<1> DEFINE e == First(Equals(Open))
           c == Close(Open)
           w == Trim(Content(Open, Open + 1, e - 1))
           r == Trim(Content(Open, e + 1, c - 1))
<1>1. pc = "parse" /\ index <= Len(text) /\ text[index] = "teach" /\ Opens # {} /\ Closes(Open) /\ Equals(Open) # {}
  BY DEF Teach, Here, Teaches
<1>2. TextType /\ index \in Spots /\ index \in Nat /\ 1 <= index /\ Len(text) \in Nat /\ Spots \subseteq Nat
  BY <1>1, Reading
<1>3. Open \in Spots /\ index <= Open /\ text[Open] = "("
  BY <1>1, <1>2, OpenIs
<1>4. Open \in Nat
  BY <1>2, <1>3
<1>5. c \in Spots /\ Open < c /\ text[c] = ")"
  BY <1>1, <1>2, <1>4, CloseIs
<1>6. e \in Spots /\ Open < e /\ e < c /\ text[e] = "="
  BY <1>1, <1>2, <1>4, EqualsIs
<1>7. /\ segments' = Append(Flushed, Segment("add_dict", {}, w, r)) /\ index' = c + 1
      /\ accumulated' = Cleared /\ states' = states /\ pc' = pc /\ text' = text /\ items' = items
  BY DEF Teach, Starts
<1> HIDE DEF e, c
<1>8. e \in Nat /\ c \in Nat /\ c <= Len(text) /\ Open + 1 \in Nat /\ Open + 1 >= 1 /\ e + 1 \in Nat /\ e + 1 >= 1
  BY <1>2, <1>4, <1>5, <1>6 DEF Spots
<1>9. /\ w \in SUBSET Spots /\ \A k \in w : Open + 1 <= k /\ k < e
      /\ \A k \in Spots : Open + 1 <= k /\ k < e /\ text[k] \in Marks => k \in w
  BY <1>2, <1>4, <1>6, <1>8, ContentIn
<1>10. /\ r \in SUBSET Spots /\ \A k \in r : e + 1 <= k /\ k < c
       /\ \A k \in Spots : e + 1 <= k /\ k < c /\ text[k] \in Marks => k \in r
  BY <1>2, <1>4, <1>5, <1>8, ContentIn
<1> HIDE DEF w, r
<1>11. Ahead(w, r)
  <2>1. ASSUME NEW k \in w, NEW m \in r PROVE k < m
    <3>1. k \in Nat /\ m \in Nat /\ k < e /\ e + 1 <= m
      BY <1>2, <1>9, <1>10
    <3> QED BY <1>8, <3>1
  <2> QED BY <2>1 DEF Ahead
<1>12. ASSUME NEW k \in w \cup r PROVE index <= k /\ k < index'
  <2>1. k \in Nat
    BY <1>2, <1>9, <1>10
  <2>2. CASE k \in w
    BY <1>2, <1>3, <1>4, <1>6, <1>7, <1>8, <1>9, <2>1, <2>2
  <2>3. CASE k \in r
    BY <1>2, <1>3, <1>4, <1>6, <1>7, <1>8, <1>10, <2>1, <2>3
  <2> QED BY <2>2, <2>3
<1>13. ASSUME NEW k \in Spots, index < k, k < index', text[k] \in Marks PROVE k \in w \cup r \/ PassedOver(k)
  <2>1. k \in Nat /\ k # Open /\ k # e /\ k # c
    BY <1>2, <1>3, <1>5, <1>6, <1>13, MarksAre
  <2>2. CASE k < Open
    BY <1>1, <1>2, <1>13, <2>2, ReachedOver
  <2>3. CASE Open < k /\ k < e
    <3>1. Open + 1 <= k
      BY <1>4, <2>1, <2>3
    <3> QED BY <1>9, <1>13, <2>3, <3>1
  <2>4. CASE e < k /\ k < c
    <3>1. e + 1 <= k
      BY <1>8, <2>1, <2>4
    <3> QED BY <1>10, <1>13, <2>4, <3>1
  <2>5. k < Open \/ (Open < k /\ k < e) \/ (e < k /\ k < c)
    BY <1>4, <1>7, <1>8, <1>13, <2>1
  <2> QED BY <2>2, <2>3, <2>4, <2>5
<1>14. index' \in Nat /\ index <= index' /\ index' <= Len(text) + 1
  BY <1>2, <1>3, <1>4, <1>5, <1>7, <1>8
<1> QED BY <1>1, <1>2, <1>7, <1>9, <1>10, <1>11, <1>12, <1>13, <1>14, CommandTurn

LEMMA ForgetStep == ASSUME Inv, Forget PROVE Inv'
<1> DEFINE c == Close(Open)
           w == Trim(Content(Open, Open + 1, c - 1))
<1>1. pc = "parse" /\ index <= Len(text) /\ text[index] = "forget" /\ Opens # {} /\ Closes(Open)
  BY DEF Forget, Here, Forgets
<1>2. TextType /\ index \in Spots /\ index \in Nat /\ 1 <= index /\ Len(text) \in Nat /\ Spots \subseteq Nat
  BY <1>1, Reading
<1>3. Open \in Spots /\ index <= Open /\ text[Open] = "("
  BY <1>1, <1>2, OpenIs
<1>4. Open \in Nat
  BY <1>2, <1>3
<1>5. c \in Spots /\ Open < c /\ text[c] = ")"
  BY <1>1, <1>2, <1>4, CloseIs
<1>6. /\ segments' = Append(Flushed, Segment("del_dict", {}, w, {})) /\ index' = c + 1
      /\ accumulated' = Cleared /\ states' = states /\ pc' = pc /\ text' = text /\ items' = items
  BY DEF Forget, Starts
<1> HIDE DEF c
<1>7. c \in Nat /\ c <= Len(text) /\ Open + 1 \in Nat /\ Open + 1 >= 1
  BY <1>2, <1>4, <1>5 DEF Spots
<1>8. /\ w \in SUBSET Spots /\ \A k \in w : Open + 1 <= k /\ k < c
      /\ \A k \in Spots : Open + 1 <= k /\ k < c /\ text[k] \in Marks => k \in w
  BY <1>2, <1>4, <1>5, <1>7, ContentIn
<1> HIDE DEF w
<1>9. Ahead(w, {}) /\ {} \in SUBSET Spots
  BY DEF Ahead
<1>10. ASSUME NEW k \in w \cup {} PROVE index <= k /\ k < index'
  <2>1. k \in w /\ k \in Nat
    BY <1>2, <1>8
  <2> QED BY <1>2, <1>3, <1>4, <1>6, <1>7, <1>8, <2>1
<1>11. ASSUME NEW k \in Spots, index < k, k < index', text[k] \in Marks PROVE k \in w \cup {} \/ PassedOver(k)
  <2>1. k \in Nat /\ k # Open /\ k # c
    BY <1>2, <1>3, <1>5, <1>11, MarksAre
  <2>2. CASE k < Open
    BY <1>1, <1>2, <1>11, <2>2, ReachedOver
  <2>3. CASE Open < k /\ k < c
    <3>1. Open + 1 <= k
      BY <1>4, <2>1, <2>3
    <3> QED BY <1>8, <1>11, <2>3, <3>1
  <2>4. k < Open \/ (Open < k /\ k < c)
    BY <1>4, <1>6, <1>7, <1>11, <2>1
  <2> QED BY <2>2, <2>3, <2>4
<1>12. index' \in Nat /\ index <= index' /\ index' <= Len(text) + 1
  BY <1>2, <1>3, <1>4, <1>5, <1>6, <1>7
<1> QED BY <1>1, <1>2, <1>6, <1>8, <1>9, <1>10, <1>11, <1>12, CommandTurn

LEMMA PlayStep == ASSUME Inv, Play PROVE Inv'
<1> DEFINE o == index + 1
           c == Close(o)
           w == Trim(Content(o, o + 1, c - 1))
<1>1. pc = "parse" /\ index <= Len(text) /\ text[index] = "sound" /\ o <= Len(text) /\ text[o] = "(" /\ Closes(o)
  BY DEF Play, Here, Plays, OpensAt
<1>2. TextType /\ index \in Spots /\ index \in Nat /\ 1 <= index /\ Len(text) \in Nat /\ Spots \subseteq Nat
  BY <1>1, Reading
<1>3. /\ segments' = Append(Flushed, Segment("sound", {}, w, {})) /\ index' = c + 1
      /\ accumulated' = Cleared /\ states' = states /\ pc' = pc /\ text' = text /\ items' = items
  BY DEF Play, Starts
<1>4. o \in Nat /\ o = index + 1 /\ o + 1 \in Nat /\ o + 1 >= 1
  BY <1>2
<1> HIDE DEF o
<1>5. c \in Spots /\ o < c /\ text[c] = ")"
  BY <1>1, <1>2, <1>4, CloseIs
<1> HIDE DEF c
<1>6. c \in Nat /\ c <= Len(text)
  BY <1>2, <1>5 DEF Spots
<1>7. /\ w \in SUBSET Spots /\ \A k \in w : o + 1 <= k /\ k < c
      /\ \A k \in Spots : o + 1 <= k /\ k < c /\ text[k] \in Marks => k \in w
  BY <1>2, <1>4, <1>5, ContentIn
<1> HIDE DEF w
<1>8. Ahead(w, {}) /\ {} \in SUBSET Spots
  BY DEF Ahead
<1>9. ASSUME NEW k \in w \cup {} PROVE index <= k /\ k < index'
  <2>1. k \in w /\ k \in Nat
    BY <1>2, <1>7
  <2> QED BY <1>2, <1>3, <1>4, <1>6, <1>7, <2>1
<1>10. ASSUME NEW k \in Spots, index < k, k < index', text[k] \in Marks PROVE k \in w \cup {} \/ PassedOver(k)
  <2>1. k \in Nat /\ k # o /\ k # c
    BY <1>1, <1>2, <1>5, <1>10, MarksAre
  <2>2. o + 1 <= k /\ k < c
    BY <1>2, <1>3, <1>4, <1>6, <1>10, <2>1
  <2> QED BY <1>7, <1>10, <2>2
<1>11. index' \in Nat /\ index <= index' /\ index' <= Len(text) + 1
  BY <1>2, <1>3, <1>4, <1>5, <1>6
<1> QED BY <1>1, <1>2, <1>3, <1>7, <1>8, <1>9, <1>10, <1>11, CommandTurn

\* A command that changes attribute a, and is read up to n.
LEMMA SettingTurn ==
  ASSUME Inv, pc = "parse", index \in Spots, NEW a \in Attributes, Sets(a, index), Changes(a),
         index' \in Nat, index < index', index' <= Len(text) + 1,
         \A k \in Spots : index < k /\ k < index' => text[k] \notin Marks
  PROVE  Inv'
<1> DEFINE st == [states EXCEPT ![a] = index]
<1>1. /\ segments' = Flushed /\ accumulated' = {} /\ states' = st /\ pc' = pc /\ text' = text /\ items' = items
      /\ TextType /\ index' \in Int /\ states \in Settings /\ index \in Nat /\ index <= Len(text)
  BY SpotsAre DEF Changes, Starts, Cleared, Inv, PlanInv, Shape, Spots
<1>2. st \in Settings /\ st[a] = index /\ \A b \in Attributes : b # a => st[b] = states[b]
  <2>1. index \in 0 .. Len(text)
    BY <1>1, SpotsAre
  <2> QED BY <1>1, <2>1 DEF Settings
<1> HIDE DEF st
<1>3. SegmentsFine(index', Flushed)
  <2>1. SegmentsFine(index, Flushed)
    BY FlushedIs
  <2>2. ASSUME NEW i \in DOMAIN Flushed, NEW k \in PlacesOf(Flushed[i]) PROVE k < index'
    <3>1. k < index /\ Flushed[i] \in Records
      BY <2>1, ElementOfSeq, LenProperties DEF SegmentsFine, Below, Fine
    <3>2. k \in Nat
      BY <1>1, <3>1, SpotsAre DEF PlacesOf, Records
    <3> QED BY <1>1, <3>1, <3>2
  <2> QED BY <2>1, <2>2 DEF SegmentsFine, Below
<1>4. Grows(Flushed)
  BY DEF Grows
<1>5. SetOrStays(index', st)
  BY <1>2 DEF SetOrStays
<1>6. Taken(index', st, Flushed)
  <2>1. ASSUME NEW k \in Spots, index <= k, k < index', text[k] \in Marks
        PROVE  k = index /\ text[k] # "a" /\ \A b \in Attributes : Sets(b, k) => st[b] = k
    <3>1. k = index
      <4>1. k \in Nat
        BY <1>1, SpotsAre
      <4> QED BY <1>1, <2>1, <4>1
    <3>2. text[k] = IF a = "panning" THEN "left" ELSE a
      BY <3>1, MarksAre
    <3>3. text[k] # "a"
      BY <3>2 DEF Attributes, Numeric
    <3>4. ASSUME NEW b \in Attributes, Sets(b, k) PROVE b = a
      <4>1. text[k] = IF b = "panning" THEN "left" ELSE b
        BY <3>4, MarksAre
      <4> QED BY <3>2, <4>1 DEF Attributes, Numeric
    <3> QED BY <1>2, <3>1, <3>3, <3>4
  <2> QED BY <2>1 DEF Taken
<1> HIDE DEF Flushed
<1>7. index <= index' /\ index' <= Len(text) + 1
  BY <1>1
<1>8. PlanInv(pc, index', {}, st, Flushed, items)
  BY <1>1, <1>2, <1>3, <1>4, <1>5, <1>6, <1>7, Turn
<1> QED BY <1>1, <1>8, NextInv

LEMMA SetNumberStep == ASSUME Inv, SetNumber PROVE Inv'
<1>1. PICK a \in Numeric : Here(a) /\ Number /\ index' = First(Closing) + 1 /\ Changes(a)
  BY DEF SetNumber
<1> DEFINE c == First(Closing)
           n == c - (index + 2)
<1>2. pc = "parse" /\ index <= Len(text) /\ text[index] = a /\ a \in Attributes /\ a # "panning"
  BY <1>1 DEF Here, Attributes, Numeric
<1>3. TextType /\ index \in Spots /\ index \in Nat /\ 1 <= index /\ Len(text) \in Nat /\ Spots \subseteq Nat
  BY <1>2, Reading
<1>4. /\ index + 1 <= Len(text) /\ text[index + 1] = "(" /\ Closing # {} /\ n \in 1 .. MaxDigits
      /\ \A k \in index + 2 .. c - 1 : text[k] = "1"
  BY <1>1 DEF Number, OpensAt
<1>5. c \in index + 2 .. Len(text) /\ text[c] = ")"
  <2>1. Closing \in SUBSET Nat
    BY <1>3 DEF Closing
  <2>2. c \in Closing
    BY <1>4, <2>1, FirstIs
  <2> QED BY <2>2 DEF Closing
<1> HIDE DEF c
<1>6. Digits(index + 1, n)
  <2>1. ASSUME NEW d \in 1 .. n PROVE text[index + 1 + d] = "1"
    <3>1. n \in Nat /\ c = index + 2 + n /\ c \in Nat
      BY <1>3, <1>5, <1>4
    <3> HIDE DEF n
    <3>2. index + 1 + d \in index + 2 .. c - 1
      BY <1>3, <3>1
    <3> QED BY <1>4, <3>2
  <2> QED BY <2>1 DEF Digits
<1>7. Sets(a, index)
  <2>1. index + n + 2 = c /\ c <= Len(text)
    BY <1>3, <1>5
  <2> HIDE DEF n
  <2> QED BY <1>2, <1>4, <1>5, <1>6, <2>1 DEF Sets
<1>8. index' = c + 1
  BY <1>1 DEF c
<1>9. index' \in Nat /\ index < index' /\ index' <= Len(text) + 1
  BY <1>3, <1>5, <1>8
<1>10. ASSUME NEW k \in Spots, index < k, k < index' PROVE text[k] \notin Marks
  <2>1. k = index + 1 \/ k \in index + 2 .. c - 1 \/ k = c
    BY <1>3, <1>5, <1>8, <1>10
  <2>2. text[k] \in {"(", "1", ")"}
    BY <1>4, <1>5, <2>1
  <2> QED BY <2>2, MarksAre
<1> QED BY <1>1, <1>2, <1>3, <1>7, <1>9, <1>10, SettingTurn

LEMMA SetPanStep == ASSUME Inv, SetPan PROVE Inv'
<1>1. /\ pc = "parse" /\ index <= Len(text) /\ text[index] = "left" /\ index < Len(text) /\ text[index + 1] = ")"
      /\ index' = index + 2 /\ Changes("panning")
  BY DEF SetPan, Here, Turns
<1>2. TextType /\ index \in Spots /\ index \in Nat /\ 1 <= index /\ Len(text) \in Nat /\ Spots \subseteq Nat
  BY <1>1, Reading
<1>3. "panning" \in Attributes /\ Sets("panning", index)
  BY <1>1 DEF Attributes, Sets
<1>4. index' \in Nat /\ index < index' /\ index' <= Len(text) + 1
  BY <1>1, <1>2
<1>5. ASSUME NEW k \in Spots, index < k, k < index' PROVE text[k] \notin Marks
  <2>1. k = index + 1
    BY <1>1, <1>2, <1>5
  <2> QED BY <1>1, <2>1, MarksAre
<1> QED BY <1>1, <1>2, <1>3, <1>4, <1>5, SettingTurn

LEMMA SpeakStep == ASSUME Inv, Speak PROVE Inv'
<1> DEFINE acc == accumulated \cup {index}
           n == index + 1
<1>1. /\ pc = "parse" /\ index <= Len(text) /\ accumulated' = acc /\ index' = n
      /\ states' = states /\ segments' = segments /\ pc' = pc /\ text' = text /\ items' = items
  BY DEF Speak, Starts
<1>2. TextType /\ index \in Spots /\ index \in Nat /\ 1 <= index /\ Len(text) \in Nat /\ Spots \subseteq Nat
  BY <1>1, Reading
<1>3. n \in Nat /\ n \in 1 .. Len(text) + 1 /\ index < n /\ \A k \in Spots : k < n => k < index \/ k = index
  BY <1>1, <1>2
<1> HIDE DEF n
<1>4. PlanInv(pc, index, accumulated, states, segments, items)
  BY DEF Inv
<1>5. accumulated \in SUBSET Spots /\ acc \in SUBSET Spots /\ \A k \in acc : k \in accumulated \/ k = index
  BY <1>2, <1>4 DEF PlanInv, Current
<1>6. \A k : Covered(items, segments, accumulated, k) => Covered(items, segments, acc, k)
  BY DEF Covered
<1>7. Covered(items, segments, acc, index)
  BY DEF Covered
<1>8. index \in acc
  OBVIOUS
<1> HIDE DEF acc
<1>9. Shape(pc, n, acc, states, segments, items)
  BY <1>1, <1>3, <1>4 DEF PlanInv, Shape
<1>10. ASSUME NEW i \in DOMAIN segments, NEW k \in PlacesOf(segments[i]) PROVE k < index /\ k < n
  <2>1. segments[i] \in Records /\ k < index
    BY <1>4, <1>10, ElementOfSeq, LenProperties DEF PlanInv, SegmentsFine, Fine, Below
  <2>2. k \in Nat
    BY <1>2, <2>1 DEF PlacesOf, Records
  <2> QED BY <1>2, <1>3, <2>1, <2>2
<1>11. SegmentsFine(n, segments)
  BY <1>4, <1>10 DEF PlanInv, SegmentsFine, Below
<1>12. ItemsFine(segments, items)
  BY <1>4 DEF PlanInv
<1>13. Current(n, acc, states, segments)
  <2>1. \A k \in acc : k < n
    <3>1. \A k \in accumulated : k < index /\ k \in Nat
      BY <1>2, <1>4, <1>5 DEF PlanInv, Current
    <3> QED BY <1>2, <1>3, <1>5, <3>1
  <2>2. AllAhead(segments, acc)
    BY <1>4, <1>5, <1>10 DEF PlanInv, Current, AllAhead, Ahead
  <2>3. ASSUME NEW a \in Attributes, states[a] # 0
        PROVE  Sets(a, states[a]) /\ states[a] < n /\ \A k \in acc : states[a] < k
    <3>1. Sets(a, states[a]) /\ states[a] < index /\ \A k \in accumulated : states[a] < k
      BY <1>4, <2>3 DEF PlanInv, Current
    <3>2. states[a] \in Int
      BY <1>2, <1>4 DEF PlanInv, Shape, Settings
    <3>3. states[a] < n
      BY <1>2, <1>3, <3>1, <3>2
    <3> QED BY <1>5, <3>1, <3>3
  <2> QED BY <1>5, <2>1, <2>2, <2>3 DEF Current
<1>14. Read(n, acc, states, segments, items)
  BY <1>3, <1>4, <1>6, <1>7 DEF PlanInv, Read
<1>15. Kept(acc, segments, items)
  BY <1>4, <1>6 DEF PlanInv, Kept, Heard
<1>16. PlanInv(pc, n, acc, states, segments, items)
  BY <1>9, <1>11, <1>12, <1>13, <1>14, <1>15 DEF PlanInv
<1> QED BY <1>1, <1>2, <1>16, NextInv

LEMMA EndParseStep == ASSUME Inv, EndParse PROVE Inv'
<1>1. /\ pc = "parse" /\ index > Len(text) /\ pc' = "list" /\ segments' = Flushed /\ accumulated' = {}
      /\ text' = text /\ index' = index /\ states' = states /\ items' = items
  BY DEF EndParse, Cleared
<1>2. TextType /\ index \in 1 .. Len(text) + 1 /\ Len(text) \in Nat
  BY SpotsAre DEF Inv, PlanInv, Shape
<1>3. index = Len(text) + 1 /\ index \in Int /\ index <= index /\ index <= Len(text) + 1
  BY <1>1, <1>2
<1>4. SegmentsFine(index, Flushed) /\ Grows(Flushed)
  BY FlushedIs DEF Grows
<1>5. states \in Settings /\ SetOrStays(index, states)
  BY SettingsStay
<1>6. Taken(index, states, Flushed)
  <2>1. \A k \in Spots : ~(index <= k /\ k < index)
    BY <1>2, <1>3, SpotsAre
  <2> QED BY <2>1 DEF Taken
<1> HIDE DEF Flushed
<1>7. PlanInv("list", index, {}, states, Flushed, items)
  BY <1>1, <1>3, <1>4, <1>5, <1>6, Turn
<1> QED BY <1>1, <1>2, <1>7, NextInv

-----------------------------------------------------------------------------
(***************************************************************************)
(* The items of the plan.  What is left of the segments is some of what    *)
(* they were, behind what became an item.                                  *)
(***************************************************************************)
Narrower(s, t) ==
  s.action = t.action /\ s.states = t.states /\ s.text \subseteq t.text /\ s.word = t.word /\ s.reading = t.reading
Shifted(q, r, d) == \A i \in DOMAIN q : i + d \in DOMAIN r /\ Narrower(q[i], r[i + d]) /\ Sound(q[i])

LEMMA NarrowerIs ==
  ASSUME NEW s, NEW t, Narrower(s, t)
  PROVE  /\ PlacesOf(s) \subseteq PlacesOf(t)
         /\ SetBefore(t) => SetBefore(s)
         /\ \A it, seg, acc : Heard(t, it, seg, acc) => Heard(s, it, seg, acc)
<1>1. PlacesOf(s) \subseteq PlacesOf(t)
  BY DEF Narrower, PlacesOf
<1>2. SetBefore(t) => SetBefore(s)
  BY DEF Narrower, SetBefore
<1>3. \A it, seg, acc : Heard(t, it, seg, acc) => Heard(s, it, seg, acc)
  BY DEF Narrower, Heard
<1> QED BY <1>1, <1>2, <1>3

LEMMA ShiftedIs ==
  ASSUME NEW n, NEW r, SegmentsFine(n, r), NEW q \in Seq(Records), NEW d \in Nat, Shifted(q, r, d)
  PROVE  SegmentsFine(n, q)
<1>1. DOMAIN q \subseteq Int /\ DOMAIN r \subseteq Int
  BY LenProperties DEF SegmentsFine, Fine
<1>2. \A i \in DOMAIN q : i + d \in DOMAIN r /\ PlacesOf(q[i]) \subseteq PlacesOf(r[i + d]) /\ Sound(q[i])
        /\ q[i].action = r[i + d].action /\ SetBefore(q[i])
  BY NarrowerIs DEF Shifted, Narrower, SegmentsFine, Fine
<1>3. InOrder(q)
  <2>1. ASSUME NEW i \in DOMAIN q, NEW j \in DOMAIN q, i < j PROVE Ahead(PlacesOf(q[i]), PlacesOf(q[j]))
    <3>1. i + d < j + d
      BY <1>1, <2>1
    <3>2. Ahead(PlacesOf(r[i + d]), PlacesOf(r[j + d]))
      BY <1>2, <3>1 DEF SegmentsFine, Fine, InOrder
    <3> QED BY <1>2, <3>2 DEF Ahead
  <2> QED BY <2>1 DEF InOrder
<1>4. Below(q, n)
  BY <1>2 DEF SegmentsFine, Below
<1>5. \A i \in DOMAIN q : q[i].action # "notice"
  BY <1>2 DEF SegmentsFine
<1> QED BY <1>2, <1>3, <1>4, <1>5 DEF SegmentsFine, Fine

LEMMA ItemsShifted ==
  ASSUME NEW r, NEW q, NEW it, ItemsFine(r, it), NEW d \in Nat, Shifted(q, r, d)
  PROVE  ItemsFine(q, it)
<1>1. ASSUME NEW i \in DOMAIN q PROVE AllAhead(it, PlacesOf(q[i]))
  <2>1. i + d \in DOMAIN r /\ PlacesOf(q[i]) \subseteq PlacesOf(r[i + d])
    BY NarrowerIs DEF Shifted
  <2>2. AllAhead(it, PlacesOf(r[i + d]))
    BY <2>1 DEF ItemsFine
  <2> QED BY <2>1, <2>2 DEF AllAhead, Ahead
<1> QED BY <1>1 DEF ItemsFine

LEMMA ItemsAppended ==
  ASSUME NEW q, NEW it, ItemsFine(q, it), NEW s \in Records, Sound(s), SetBefore(s), Ends(s), AllAhead(it, PlacesOf(s)),
         \A i \in DOMAIN q : Ahead(PlacesOf(s), PlacesOf(q[i]))
  PROVE  ItemsFine(q, Append(it, s))
<1>1. Fine(Append(it, s)) /\ it \in Seq(Records)
  BY FineAppended DEF ItemsFine, Fine
<1>2. \A i \in DOMAIN Append(it, s) :
        \/ i \in DOMAIN it /\ Append(it, s)[i] = it[i]
        \/ Append(it, s)[i] = s
  BY <1>1, Appended
<1>3. \A i \in DOMAIN Append(it, s) : Ends(Append(it, s)[i])
  BY <1>2 DEF ItemsFine
<1>4. \A i \in DOMAIN q : AllAhead(Append(it, s), PlacesOf(q[i]))
  BY <1>2 DEF ItemsFine, AllAhead
<1> QED BY <1>1, <1>3, <1>4 DEF ItemsFine

LEMMA ListTurn ==
  ASSUME Inv, pc = "list", NEW q, NEW it, SegmentsFine(index, q), ItemsFine(q, it),
         \A k : text[k] \in Marks /\ (Has(items, k) \/ Has(segments, k)) => Has(it, k) \/ Has(q, k),
         \A i \in DOMAIN q : \E j \in DOMAIN segments : Narrower(q[i], segments[j]),
         \A i \in DOMAIN it : \/ i \in DOMAIN items /\ it[i] = items[i]
                              \/ \E j \in DOMAIN segments : Narrower(it[i], segments[j])
                              \/ it[i].action # "speak"
  PROVE  PlanInv("list", index, {}, states, q, it)
<1>1. PlanInv(pc, index, accumulated, states, segments, items) /\ accumulated = {}
  BY DEF Inv, PlanInv, Shape
<1>2. Shape("list", index, {}, states, q, it)
  BY <1>1 DEF PlanInv, Shape
<1>3. Current(index, {}, states, q)
  BY <1>1 DEF PlanInv, Current, AllAhead, Ahead
<1>4. ASSUME NEW k, text[k] \in Marks, Covered(items, segments, accumulated, k) PROVE Covered(it, q, {}, k)
  BY <1>1, <1>4 DEF Covered
<1>5. Read(index, {}, states, q, it)
  <2>1. ASSUME NEW k \in Spots, k < index, text[k] = "a" PROVE Covered(it, q, {}, k)
    <3>1. text[k] \in Marks /\ Covered(items, segments, accumulated, k)
      BY <1>1, <2>1 DEF PlanInv, Read, Marks
    <3> QED BY <1>4, <3>1
  <2>2. ASSUME NEW a \in Attributes, NEW k \in Spots, states[a] < k, k < index, Sets(a, k) PROVE Covered(it, q, {}, k)
    <3>1. text[k] \in Marks /\ Covered(items, segments, accumulated, k)
      BY <1>1, <2>2, MarksAre DEF PlanInv, Read
    <3> QED BY <1>4, <3>1
  <2> QED BY <2>1, <2>2 DEF Read
<1>6. ASSUME NEW s, Heard(s, items, segments, accumulated) PROVE Heard(s, it, q, {})
  <2>1. \A a \in Attributes, k \in Spots : Sets(a, k) /\ Covered(items, segments, accumulated, k) => Covered(it, q, {}, k)
    BY <1>4, MarksAre
  <2> QED BY <1>6, <2>1 DEF Heard
<1>7. \A j \in DOMAIN segments : Heard(segments[j], items, segments, accumulated)
  BY <1>1 DEF PlanInv, Kept
<1>8. ASSUME NEW i \in DOMAIN q PROVE Heard(q[i], it, q, {})
  BY <1>6, <1>7, NarrowerIs
<1>9. ASSUME NEW i \in DOMAIN it PROVE Heard(it[i], it, q, {})
  <2>1. CASE i \in DOMAIN items /\ it[i] = items[i]
    <3>1. Heard(items[i], items, segments, accumulated)
      BY <1>1, <2>1 DEF PlanInv, Kept
    <3> QED BY <1>6, <2>1, <3>1
  <2>2. CASE \E j \in DOMAIN segments : Narrower(it[i], segments[j])
    BY <1>6, <1>7, <2>2, NarrowerIs
  <2>3. CASE it[i].action # "speak"
    BY <2>3 DEF Heard
  <2> QED BY <2>1, <2>2, <2>3
<1>10. Kept({}, q, it)
  BY <1>8, <1>9 DEF Kept
<1> QED BY <1>2, <1>3, <1>5, <1>10 DEF PlanInv

\* The first of a list, and the rest of it.
LEMMA RestIs ==
  ASSUME NEW S, NEW q \in Seq(S), q # <<>>
  PROVE  /\ 1 \in DOMAIN q /\ q[1] \in S /\ Head(q) = q[1] /\ Tail(q) \in Seq(S)
         /\ \A i \in DOMAIN q : i = 1 \/ (i - 1 \in DOMAIN Tail(q) /\ Tail(q)[i - 1] = q[i] /\ 1 < i)
         /\ \A i \in DOMAIN Tail(q) : i + 1 \in DOMAIN q /\ Tail(q)[i] = q[i + 1] /\ 1 < i + 1
<1> DEFINE n == Len(q)
           r == Tail(q)
<1>1. /\ n \in Nat /\ n >= 1 /\ r \in Seq(S) /\ Len(r) = n - 1
      /\ \A i \in 1 .. Len(r) : r[i] = q[i + 1]
  BY HeadTailProperties, LenProperties, EmptySeq
<1>2. DOMAIN q = 1 .. n /\ DOMAIN r = 1 .. n - 1 /\ Head(q) = q[1]
  BY <1>1, LenProperties
<1>3. \A i \in 1 .. n : q[i] \in S
  BY ElementOfSeq
<1> HIDE DEF n, r
<1>4. 1 \in 1 .. n
  BY <1>1
<1>5. \A i \in 1 .. n : i = 1 \/ (i - 1 \in 1 .. n - 1 /\ 1 < i /\ (i - 1) + 1 = i)
  BY <1>1
<1>6. \A i \in 1 .. n - 1 : i + 1 \in 1 .. n /\ 1 < i + 1
  BY <1>1
<1>7. \A i \in 1 .. n - 1 : r[i] = q[i + 1]
  BY <1>1
<1>8. \A i \in DOMAIN q : i = 1 \/ (i - 1 \in DOMAIN r /\ r[i - 1] = q[i] /\ 1 < i)
  BY <1>2, <1>5, <1>7
<1>9. \A i \in DOMAIN r : i + 1 \in DOMAIN q /\ r[i] = q[i + 1] /\ 1 < i + 1
  BY <1>2, <1>6, <1>7
<1> QED BY <1>1, <1>2, <1>3, <1>4, <1>8, <1>9 DEF r

LEMMA RestFine ==
  ASSUME Inv, segments # <<>>
  PROVE  /\ segments \in Seq(Records) /\ 1 \in DOMAIN segments /\ Head(segments) = segments[1] /\ Tail(segments) \in Seq(Records)
         /\ segments[1] \in Records /\ Sound(segments[1]) /\ SetBefore(segments[1]) /\ segments[1].action # "notice"
         /\ PlacesOf(segments[1]) = segments[1].text \cup segments[1].word \cup segments[1].reading
         /\ Shifted(Tail(segments), segments, 1) /\ SegmentsFine(index, Tail(segments)) /\ ItemsFine(Tail(segments), items)
         /\ \A i \in DOMAIN Tail(segments) : Ahead(PlacesOf(segments[1]), PlacesOf(Tail(segments)[i]))
         /\ \A k : Has(segments, k) => k \in PlacesOf(segments[1]) \/ Has(Tail(segments), k)
<1> DEFINE r == Tail(segments)
<1>1. SegmentsFine(index, segments) /\ ItemsFine(segments, items) /\ segments \in Seq(Records)
  BY DEF Inv, PlanInv, SegmentsFine, Fine
<1>2. /\ 1 \in DOMAIN segments /\ segments[1] \in Records /\ Head(segments) = segments[1] /\ r \in Seq(Records)
      /\ \A i \in DOMAIN segments : i = 1 \/ (i - 1 \in DOMAIN r /\ r[i - 1] = segments[i])
      /\ \A i \in DOMAIN r : i + 1 \in DOMAIN segments /\ r[i] = segments[i + 1] /\ 1 < i + 1
  BY <1>1, RestIs
<1> HIDE DEF r
<1>3. \A i \in DOMAIN segments : Sound(segments[i]) /\ SetBefore(segments[i]) /\ segments[i].action # "notice"
  BY <1>1 DEF SegmentsFine, Fine
<1>4. Shifted(r, segments, 1)
  BY <1>2, <1>3 DEF Shifted, Narrower
<1>5. SegmentsFine(index, r)
  BY <1>1, <1>2, <1>4, ShiftedIs
<1>6. ItemsFine(r, items)
  BY <1>1, <1>4, ItemsShifted
<1>7. \A i \in DOMAIN r : Ahead(PlacesOf(segments[1]), PlacesOf(r[i]))
  BY <1>1, <1>2 DEF SegmentsFine, Fine, InOrder
<1>8. \A k : Has(segments, k) => k \in PlacesOf(segments[1]) \/ Has(r, k)
  BY <1>2 DEF Has
<1>9. PlacesOf(segments[1]) = segments[1].text \cup segments[1].word \cup segments[1].reading
  BY <1>2, <1>3 DEF PlacesOf
<1> QED BY <1>1, <1>2, <1>3, <1>4, <1>5, <1>6, <1>7, <1>8, <1>9 DEF r

\* What is spoken, without its first sentence.
LEMMA PartTaken ==
  ASSUME Inv, segments # <<>>, segments[1].action = "speak", NEW left \in SUBSET segments[1].text, left # {}
  PROVE  LET q == [segments EXCEPT ![1].text = left] IN
         /\ q \in Seq(Records) /\ DOMAIN q = DOMAIN segments /\ Shifted(q, segments, 0)
         /\ q[1] = Utterance(segments[1], left) /\ PlacesOf(q[1]) = left
         /\ \A i \in DOMAIN q : i = 1 \/ (q[i] = segments[i] /\ i - 1 \in DOMAIN Tail(segments) /\ Tail(segments)[i - 1] = q[i])
<1> DEFINE h == segments[1]
           t == Utterance(h, left)
           q == [segments EXCEPT ![1].text = left]
<1>1. segments \in Seq(Records) /\ 1 \in DOMAIN segments /\ h \in Records /\ Sound(h) /\ SegmentsFine(index, segments)
  BY RestFine DEF Inv, PlanInv
<1>2. q = [segments EXCEPT ![1] = t]
  BY DEF Utterance
<1>3. t = [h EXCEPT !.text = left]
  BY DEF Utterance
<1>4. \A i \in DOMAIN segments : i = 1 \/ (i - 1 \in DOMAIN Tail(segments) /\ Tail(segments)[i - 1] = segments[i])
  BY <1>1, RestIs
<1> HIDE DEF t, q
<1>5. /\ t \in Records /\ t.text = left /\ t.action = "speak" /\ t.states = h.states /\ t.word = h.word
      /\ t.reading = h.reading /\ h.word = {} /\ h.reading = {}
  <2>1. left \in SUBSET Spots
    BY <1>1 DEF Records
  <2>2. h.word = {} /\ h.reading = {}
    BY <1>1 DEF Sound
  <2> HIDE DEF h
  <2>3. t \in Records /\ t.text = left /\ t.action = h.action /\ t.states = h.states /\ t.word = h.word /\ t.reading = h.reading
    BY <1>1, <1>3, <2>1 DEF Records
  <2> QED BY <2>2, <2>3 DEF h
<1>6. q \in Seq(Records) /\ DOMAIN q = DOMAIN segments /\ q[1] = t /\ \A i \in DOMAIN q : i = 1 \/ q[i] = segments[i]
  <2>1. q \in Seq(Records)
    BY <1>1, <1>2, <1>5, ExceptSeq, LenProperties
  <2> QED BY <1>1, <1>2, <2>1
<1>7. Sound(t) /\ PlacesOf(t) = left
  BY <1>5 DEF Sound, Ahead, PlacesOf
<1>8. Shifted(q, segments, 0)
  <2>1. ASSUME NEW i \in DOMAIN q PROVE i + 0 \in DOMAIN segments /\ Narrower(q[i], segments[i + 0]) /\ Sound(q[i])
    <3>1. i + 0 = i /\ i \in DOMAIN segments
      <4>1. i \in Int
        BY <1>1, <1>6, LenProperties
      <4> QED BY <1>6, <4>1
    <3>2. CASE i = 1
      <4>1. Narrower(t, h)
        BY <1>5 DEF Narrower
      <4> QED BY <1>6, <1>7, <3>1, <3>2, <4>1
    <3>3. CASE q[i] = segments[i]
      BY <1>1, <3>1, <3>3 DEF SegmentsFine, Fine, Narrower
    <3> QED BY <1>6, <3>2, <3>3
  <2> QED BY <2>1 DEF Shifted
<1> QED BY <1>4, <1>6, <1>7, <1>8 DEF t, q, h

LEMMA UtteranceIs ==
  ASSUME NEW h \in Records, h.action = "speak", Sound(h), SetBefore(h), NEW part \in SUBSET h.text, part # {}
  PROVE  LET u == Utterance(h, part) IN
         u \in Records /\ Sound(u) /\ SetBefore(u) /\ Narrower(u, h) /\ PlacesOf(u) = part /\ u.text = part /\ u.action = "speak"
<1> DEFINE u == Utterance(h, part)
<1>1. u = [h EXCEPT !.text = part]
  BY DEF Utterance
<1>2. part \in SUBSET Spots
  BY DEF Records
<1>3. h.word = {} /\ h.reading = {}
  BY DEF Sound
<1> HIDE DEF u
<1>4. /\ u \in Records /\ u.text = part /\ u.action = "speak" /\ u.states = h.states /\ u.word = {} /\ u.reading = {}
  BY <1>1, <1>2, <1>3 DEF Records
<1>5. Sound(u) /\ PlacesOf(u) = part
  BY <1>4 DEF Sound, Ahead, PlacesOf
<1>6. Narrower(u, h) /\ SetBefore(u)
  BY <1>3, <1>4 DEF Narrower, SetBefore
<1> QED BY <1>4, <1>5, <1>6 DEF u

\* Of the sentence that is taken an utterance is made, if there are words in it.
LEMMA Uttered ==
  ASSUME Inv, pc = "list", segments # <<>>, segments[1].action = "speak",
         NEW part, part = Sentence(segments[1].text),
         NEW q, SegmentsFine(index, q), ItemsFine(q, items),
         \A i \in DOMAIN q : Ahead(part, PlacesOf(q[i])),
         \A i \in DOMAIN q : \E j \in DOMAIN segments : Narrower(q[i], segments[j]),
         \A k : Has(segments, k) => k \in part \/ Has(q, k),
         NEW it, it = IF Trim(part) = {} THEN items ELSE Append(items, Utterance(segments[1], Trim(part)))
  PROVE  PlanInv("list", index, {}, states, q, it)
<1> DEFINE h == segments[1]
           u == Utterance(h, Trim(part))
<1>1. /\ 1 \in DOMAIN segments /\ h \in Records /\ Sound(h) /\ SetBefore(h) /\ TextType /\ Spots \subseteq Int
      /\ ItemsFine(segments, items) /\ items \in Seq(Records)
  BY RestFine, SpotsAre DEF Inv, PlanInv, ItemsFine, Fine
<1>2. h.text # {} /\ h.text \in SUBSET Spots /\ PlacesOf(h) = h.text
  BY <1>1 DEF Sound, Records, PlacesOf
<1>3. part \subseteq h.text /\ \A k \in Stops(part), j \in part : j <= k
  BY <1>1, <1>2, SentenceIs
<1>4. part \in SUBSET Int /\ Trim(part) \subseteq part /\ \A k \in part : text[k] # " " => k \in Trim(part)
  BY <1>1, <1>2, <1>3, TrimIs
<1>5. \A k \in part : text[k] \in Marks => k \in Trim(part)
  BY <1>4, MarksAre
<1> HIDE DEF h, u
<1>6. \A k : text[k] \in Marks /\ (Has(items, k) \/ Has(segments, k)) => Has(items, k) \/ k \in Trim(part) \/ Has(q, k)
  BY <1>5
<1>7. CASE Trim(part) = {}
  <2>1. it = items
    BY <1>7
  <2> QED BY <1>6, <1>7, <2>1, ListTurn
<1>8. CASE Trim(part) # {}
  <2>1. u \in Records /\ Sound(u) /\ SetBefore(u) /\ Narrower(u, h) /\ PlacesOf(u) = Trim(part) /\ u.text = Trim(part)
    BY <1>1, <1>3, <1>4, <1>8, UtteranceIs DEF h, u
  <2>2. it = Append(items, u)
    BY <1>8 DEF u, h
  <2>3. Ends(u)
    <3>1. Stops(Trim(part)) \subseteq Stops(part)
      BY <1>4 DEF Stops
    <3> QED BY <1>3, <1>4, <2>1, <3>1 DEF Ends
  <2>4. AllAhead(items, PlacesOf(u))
    <3>1. AllAhead(items, PlacesOf(h))
      BY <1>1 DEF ItemsFine, h
    <3> QED BY <1>2, <1>3, <1>4, <2>1, <3>1 DEF AllAhead, Ahead
  <2>5. \A i \in DOMAIN q : Ahead(PlacesOf(u), PlacesOf(q[i]))
    BY <1>4, <2>1 DEF Ahead
  <2>6. ItemsFine(q, it)
    BY <2>1, <2>2, <2>3, <2>4, <2>5, ItemsAppended
  <2>7. \A k : Has(it, k) <=> (Has(items, k) \/ k \in Trim(part))
    BY <1>1, <2>1, <2>2, HasAppended
  <2>8. \A k : text[k] \in Marks /\ (Has(items, k) \/ Has(segments, k)) => Has(it, k) \/ Has(q, k)
    BY <1>6, <2>7
  <2>9. \A i \in DOMAIN it : (i \in DOMAIN items /\ it[i] = items[i]) \/ it[i] = u
    BY <1>1, <2>1, <2>2, Appended
  <2>10. \A i \in DOMAIN it : \/ i \in DOMAIN items /\ it[i] = items[i]
                              \/ \E j \in DOMAIN segments : Narrower(it[i], segments[j])
                              \/ it[i].action # "speak"
    BY <1>1, <2>1, <2>9 DEF h
  <2> QED BY <2>6, <2>8, <2>10, ListTurn
<1> QED BY <1>7, <1>8

LEMMA SaySentenceStep == ASSUME Inv, SaySentence PROVE Inv'
<1> DEFINE h == segments[1]
           part == Sentence(h.text)
           left == h.text \ part
           it == IF Trim(part) = {} THEN items ELSE Append(items, Utterance(h, Trim(part)))
<1>1. pc = "list" /\ segments # <<>>
  BY DEF SaySentence, Speaks
<1>2. /\ segments \in Seq(Records) /\ 1 \in DOMAIN segments /\ Head(segments) = h /\ h \in Records /\ Sound(h)
      /\ Shifted(Tail(segments), segments, 1) /\ SegmentsFine(index, Tail(segments)) /\ ItemsFine(Tail(segments), items)
      /\ \A i \in DOMAIN Tail(segments) : Ahead(PlacesOf(h), PlacesOf(Tail(segments)[i]))
      /\ \A k : Has(segments, k) => k \in PlacesOf(h) \/ Has(Tail(segments), k)
  BY <1>1, RestFine
<1>3. /\ h.action = "speak" /\ items' = it
      /\ segments' = (IF part = h.text THEN Tail(segments) ELSE [segments EXCEPT ![1].text = left])
      /\ pc' = pc /\ text' = text /\ index' = index /\ accumulated' = accumulated /\ states' = states
  BY <1>2 DEF SaySentence, Speaks, Lists
<1>4. TextType /\ accumulated = {} /\ SegmentsFine(index, segments) /\ ItemsFine(segments, items)
  BY <1>1 DEF Inv, PlanInv, Shape
<1>5. h.text # {} /\ h.text \in SUBSET Spots /\ PlacesOf(h) = h.text
  BY <1>2, <1>3 DEF Sound, Records, PlacesOf
<1>6. part \subseteq h.text /\ Ahead(part, left)
  BY <1>4, <1>5, SentenceIs
<1>7. CASE part = h.text
  <2> DEFINE q == Tail(segments)
  <2>1. segments' = q
    BY <1>3, <1>7
  <2>2. \A i \in DOMAIN q : \E j \in DOMAIN segments : Narrower(q[i], segments[j])
    BY <1>2 DEF Shifted
  <2> HIDE DEF q
  <2>3. SegmentsFine(index, q) /\ ItemsFine(q, items) /\ (\A i \in DOMAIN q : Ahead(part, PlacesOf(q[i])))
        /\ (\A k : Has(segments, k) => k \in part \/ Has(q, k))
    BY <1>2, <1>5, <1>7 DEF q
  <2> HIDE DEF part, it, h
  <2>4. part = Sentence(segments[1].text) /\ it = IF Trim(part) = {} THEN items ELSE Append(items, Utterance(segments[1], Trim(part)))
    BY DEF part, it, h
  <2>5. segments[1].action = "speak"
    BY <1>3 DEF h
  <2>6. PlanInv("list", index, {}, states, q, it)
    BY <1>1, <2>2, <2>3, <2>4, <2>5, Uttered
  <2> QED BY <1>1, <1>3, <1>4, <2>1, <2>6, NextInv
<1>8. CASE part # h.text
  <2> DEFINE q == [segments EXCEPT ![1].text = left]
  <2>1. segments' = q /\ left # {} /\ left \in SUBSET h.text
    BY <1>3, <1>6, <1>8
  <2>2. /\ q \in Seq(Records) /\ Shifted(q, segments, 0) /\ PlacesOf(q[1]) = left /\ DOMAIN q = DOMAIN segments
        /\ \A i \in DOMAIN q : i = 1 \/ (i - 1 \in DOMAIN Tail(segments) /\ Tail(segments)[i - 1] = q[i])
    BY <1>1, <1>3, <2>1, PartTaken
  <2> HIDE DEF q
  <2>3. SegmentsFine(index, q)
    BY <1>4, <2>2, ShiftedIs
  <2>4. ItemsFine(q, items)
    BY <1>4, <2>2, ItemsShifted
  <2>5. \A i \in DOMAIN q : \E j \in DOMAIN segments : Narrower(q[i], segments[j])
    BY <2>2 DEF Shifted
  <2>6. ASSUME NEW i \in DOMAIN q PROVE Ahead(part, PlacesOf(q[i]))
    <3>1. CASE i = 1
      BY <1>6, <2>2, <3>1
    <3>2. CASE i - 1 \in DOMAIN Tail(segments) /\ Tail(segments)[i - 1] = q[i]
      <4>1. Ahead(PlacesOf(h), PlacesOf(q[i]))
        BY <1>2, <3>2
      <4> QED BY <1>5, <1>6, <4>1 DEF Ahead
    <3> QED BY <2>2, <3>1, <3>2
  <2>7. ASSUME NEW k, Has(segments, k) PROVE k \in part \/ Has(q, k)
    <3>1. PICK i \in DOMAIN segments : k \in PlacesOf(segments[i])
      BY <2>7 DEF Has
    <3>2. CASE i = 1
      <4>1. k \in part \/ k \in left
        BY <1>5, <3>1, <3>2
      <4> QED BY <1>2, <2>2, <4>1 DEF Has
    <3>3. CASE i # 1
      <4>1. q[i] = segments[i]
        BY <1>1, <1>3, <2>1, <2>2, <3>3, PartTaken DEF q
      <4> QED BY <2>2, <3>1, <4>1 DEF Has
    <3> QED BY <3>2, <3>3
  <2> HIDE DEF part, it, h
  <2>8. part = Sentence(segments[1].text) /\ it = IF Trim(part) = {} THEN items ELSE Append(items, Utterance(segments[1], Trim(part)))
    BY DEF part, it, h
  <2>9. segments[1].action = "speak"
    BY <1>3 DEF h
  <2>10. PlanInv("list", index, {}, states, q, it)
    BY <1>1, <2>3, <2>4, <2>5, <2>6, <2>7, <2>8, <2>9, Uttered
  <2> QED BY <1>1, <1>3, <1>4, <2>1, <2>10, NextInv
<1> QED BY <1>7, <1>8

\* A command is listed, behind its notice.
LEMMA ListCommandStep == ASSUME Inv, ListCommand PROVE Inv'
<1> DEFINE h == segments[1]
           q == Tail(segments)
           n == Notice(h)
           it == items \o ItemsOf(h)
<1>1. pc = "list" /\ segments # <<>>
  BY DEF ListCommand
<1>2. /\ 1 \in DOMAIN segments /\ Head(segments) = h /\ h \in Records /\ Sound(h) /\ h.action # "notice"
      /\ Shifted(q, segments, 1) /\ SegmentsFine(index, q) /\ ItemsFine(q, items)
      /\ \A i \in DOMAIN q : Ahead(PlacesOf(h), PlacesOf(q[i]))
      /\ \A k : Has(segments, k) => k \in PlacesOf(h) \/ Has(q, k)
  BY <1>1, RestFine
<1>3. /\ h.action # "speak" /\ items' = it /\ segments' = q
      /\ pc' = pc /\ text' = text /\ index' = index /\ accumulated' = accumulated /\ states' = states
  BY <1>2 DEF ListCommand, Lists
<1>4. TextType /\ accumulated = {} /\ ItemsFine(segments, items) /\ items \in Seq(Records)
  BY <1>1 DEF Inv, PlanInv, Shape, ItemsFine, Fine
<1>5. \A i \in DOMAIN q : \E j \in DOMAIN segments : Narrower(q[i], segments[j])
  BY <1>2 DEF Shifted
<1> HIDE DEF q, h
<1>6. AllAhead(items, PlacesOf(h)) /\ SetBefore(h) /\ Ends(h)
  BY <1>2, <1>3, <1>4 DEF ItemsFine, SetBefore, Ends, h
<1>7. ItemsFine(q, Append(items, h)) /\ \A k : Has(Append(items, h), k) <=> (Has(items, k) \/ k \in PlacesOf(h))
  BY <1>2, <1>4, <1>6, ItemsAppended, HasAppended
<1>8. \A i \in DOMAIN Append(items, h) : (i \in DOMAIN items /\ Append(items, h)[i] = items[i]) \/ Append(items, h)[i] = h
  BY <1>2, <1>4, Appended
<1> DEFINE Holding ==
      /\ ItemsFine(q, it) /\ \A k : Has(it, k) <=> (Has(items, k) \/ k \in PlacesOf(h))
      /\ \A i \in DOMAIN it : (i \in DOMAIN items /\ it[i] = items[i]) \/ it[i].action # "speak"
<1>9. ASSUME h.action = "sound" PROVE Holding
  <2>1. it = Append(items, h)
    BY <1>4, <1>9, AppendIsConcat DEF ItemsOf
  <2> HIDE DEF it
  <2> QED BY <1>3, <1>7, <1>8, <2>1
<1>10. ASSUME h.action # "sound" PROVE Holding
  <2>1. n = [h EXCEPT !.action = "notice"]
    BY DEF Notice
  <2> HIDE DEF n
  <2>2. n \in Records /\ n.action = "notice" /\ n.text = h.text /\ n.word = h.word /\ n.reading = h.reading
    BY <1>2, <2>1 DEF Records, Actions
  <2>3. Sound(n) /\ SetBefore(n) /\ Ends(n) /\ PlacesOf(n) = {}
    BY <1>2, <1>3, <2>2 DEF Sound, SetBefore, Ends, PlacesOf
  <2>4. AllAhead(items, PlacesOf(n)) /\ \A i \in DOMAIN q : Ahead(PlacesOf(n), PlacesOf(q[i]))
    BY <2>3 DEF AllAhead, Ahead
  <2> DEFINE half == Append(items, n)
  <2>5. it = Append(half, h)
    <3>1. ItemsOf(h) = <<n, h>>
      BY <1>10 DEF ItemsOf, n
    <3>2. items \o <<n, h>> = Append(Append(items, n), h)
      BY <1>2, <1>4, <2>2
    <3> QED BY <3>1, <3>2
  <2>6. half \in Seq(Records) /\ \A i \in DOMAIN half : (i \in DOMAIN items /\ half[i] = items[i]) \/ half[i] = n
    BY <1>4, <2>2, Appended
  <2>7. ItemsFine(q, half) /\ \A k : Has(half, k) <=> Has(items, k)
    BY <1>2, <1>4, <2>2, <2>3, <2>4, ItemsAppended, HasAppended
  <2> HIDE DEF half, it
  <2>8. AllAhead(half, PlacesOf(h))
    BY <1>6, <2>3, <2>6 DEF AllAhead, Ahead
  <2>9. ItemsFine(q, it) /\ \A k : Has(it, k) <=> (Has(half, k) \/ k \in PlacesOf(h))
    BY <1>2, <1>6, <2>5, <2>6, <2>7, <2>8, ItemsAppended, HasAppended
  <2>10. \A i \in DOMAIN it : (i \in DOMAIN half /\ it[i] = half[i]) \/ it[i] = h
    BY <1>2, <2>5, <2>6, Appended
  <2> QED BY <1>3, <2>2, <2>6, <2>7, <2>9, <2>10
<1> HIDE DEF it
<1>11. Holding
  BY <1>9, <1>10
<1>12. PlanInv("list", index, {}, states, q, it)
  BY <1>1, <1>2, <1>5, <1>11, ListTurn
<1> QED BY <1>1, <1>3, <1>4, <1>12, NextInv

LEMMA EndListStep == ASSUME Inv, EndList PROVE Inv'
<1>1. /\ pc = "list" /\ segments = <<>> /\ pc' = "done" /\ text' = text /\ index' = index
      /\ accumulated' = accumulated /\ states' = states /\ segments' = segments /\ items' = items
  BY DEF EndList
<1>2. TextType /\ PlanInv(pc, index, accumulated, states, segments, items)
  BY DEF Inv
<1>3. Shape("done", index, accumulated, states, segments, items)
  BY <1>1, <1>2 DEF PlanInv, Shape
<1>4. PlanInv("done", index, accumulated, states, segments, items)
  BY <1>2, <1>3 DEF PlanInv
<1> QED BY <1>1, <1>2, <1>4, NextInv

LEMMA InitInv == ASSUME Init PROVE Inv
<1>1. PICK message \in Messages, author \in Authors, limit \in Limits : text = author \o Cut(message, limit) \o Fixed
  BY DEF Init
<1>2. message \in Seq(STRING) /\ author \in Seq(STRING) /\ Fixed \in Seq(STRING) /\ (limit = NoLimit \/ limit \in Nat)
  BY PlanAssumption
<1>3. message \in Seq(Tokens) /\ author \in Seq(Tokens) /\ Fixed \in Seq(Tokens) /\ <<"etc">> \in Seq(Tokens)
  <2>1. STRING \subseteq Tokens /\ "etc" \in Tokens
    BY DEF Tokens
  <2>2. message \in Seq(Tokens) /\ author \in Seq(Tokens) /\ Fixed \in Seq(Tokens)
    BY <1>2, <2>1, SeqMonotonic
  <2> HIDE DEF Tokens
  <2>3. <<"etc">> \in Seq(Tokens)
    BY <2>1
  <2> QED BY <2>2, <2>3
<1>4. Cut(message, limit) \in Seq(Tokens)
  <2>1. CASE limit = NoLimit \/ Len(message) <= limit
    BY <1>3, <2>1 DEF Cut
  <2>2. CASE ~(limit = NoLimit \/ Len(message) <= limit)
    <3>1. SubSeq(message, 1, limit) \in Seq(Tokens)
      <4>1. \A i \in 1 .. limit : i \in 1 .. Len(message)
        BY <1>2, <2>2, LenProperties
      <4> QED BY <1>2, <1>3, <2>2, <4>1, SubSeqProperties
    <3>2. SubSeq(message, 1, limit) \o <<"etc">> \in Seq(Tokens)
      BY <1>3, <3>1, ConcatProperties
    <3>3. Cut(message, limit) = SubSeq(message, 1, limit) \o <<"etc">>
      BY <2>2 DEF Cut
    <3> QED BY <3>2, <3>3
  <2> QED BY <2>1, <2>2
<1>5. TextType
  BY <1>1, <1>3, <1>4, ConcatProperties DEF TextType
<1>6. /\ pc = "parse" /\ index = 1 /\ accumulated = {} /\ segments = <<>> /\ items = <<>>
      /\ states = Untouched /\ Len(text) \in Nat
  BY <1>5, SpotsAre DEF Init, Start
<1>7. states \in Settings /\ \A a \in Attributes : states[a] = 0
  BY <1>6 DEF Settings, Untouched
<1>8. Shape(pc, index, accumulated, states, segments, items)
  BY <1>6, <1>7 DEF Shape
<1>9. DOMAIN segments = {} /\ DOMAIN items = {} /\ segments \in Seq(Records) /\ items \in Seq(Records)
  BY <1>6
<1>10. SegmentsFine(index, segments) /\ ItemsFine(segments, items)
  BY <1>9 DEF SegmentsFine, ItemsFine, Fine, InOrder, Below, AllAhead
<1>11. Current(index, accumulated, states, segments)
  BY <1>6, <1>7, <1>9 DEF Current, AllAhead
<1>12. Read(index, accumulated, states, segments, items)
  <2>1. \A k \in Spots : ~(k < index)
    BY <1>6 DEF Spots
  <2> QED BY <2>1 DEF Read
<1>13. Kept(accumulated, segments, items)
  BY <1>9 DEF Kept
<1> QED BY <1>5, <1>8, <1>10, <1>11, <1>12, <1>13 DEF Inv, PlanInv

LEMMA Stutter == ASSUME Inv, UNCHANGED vars PROVE Inv'
<1>1. /\ pc' = pc /\ text' = text /\ index' = index /\ accumulated' = accumulated /\ states' = states
      /\ segments' = segments /\ items' = items
  BY DEF vars
<1>2. TextType /\ PlanInv(pc, index, accumulated, states, segments, items)
  BY DEF Inv
<1> QED BY <1>1, <1>2, NextInv

\* Every step keeps what was made of the comment in its order and complete.
THEOREM PlanInvariant == Spec => []Inv
<1>1. Init => Inv
  BY InitInv
<1>2. ASSUME Inv, [Next]_vars PROVE Inv'
  <2>1. CASE Teach
    BY <1>2, <2>1, TeachStep
  <2>2. CASE Forget
    BY <1>2, <2>2, ForgetStep
  <2>3. CASE Play
    BY <1>2, <2>3, PlayStep
  <2>4. CASE SetNumber
    BY <1>2, <2>4, SetNumberStep
  <2>5. CASE SetPan
    BY <1>2, <2>5, SetPanStep
  <2>6. CASE Speak
    BY <1>2, <2>6, SpeakStep
  <2>7. CASE EndParse
    BY <1>2, <2>7, EndParseStep
  <2>8. CASE SaySentence
    BY <1>2, <2>8, SaySentenceStep
  <2>9. CASE ListCommand
    BY <1>2, <2>9, ListCommandStep
  <2>10. CASE EndList
    BY <1>2, <2>10, EndListStep
  <2>11. CASE UNCHANGED vars
    BY <1>2, <2>11, Stutter
  <2> QED BY <1>2, <2>1, <2>2, <2>3, <2>4, <2>5, <2>6, <2>7, <2>8, <2>9, <2>10, <2>11 DEF Next
<1> QED BY <1>1, <1>2, PTL DEF Spec

-----------------------------------------------------------------------------
(***************************************************************************)
(* What follows from the invariant.                                        *)
(***************************************************************************)
LEMMA ItemsAre ==
  ASSUME Inv
  PROVE  /\ segments \in Seq(Records) /\ items \in Seq(Records) /\ DOMAIN items \subseteq Int
         /\ \A i \in DOMAIN items : items[i] \in Records /\ Sound(items[i]) /\ SetBefore(items[i]) /\ Ends(items[i])
                                    /\ Heard(items[i], items, segments, accumulated)
         /\ \A i \in DOMAIN segments : segments[i] \in Records /\ AllAhead(items, PlacesOf(segments[i]))
         /\ InOrder(items) /\ \A k : Has(items, k) <=> k \in Listed
<1>1. segments \in Seq(Records) /\ Fine(items) /\ items \in Seq(Records)
  BY DEF Inv, PlanInv, SegmentsFine, ItemsFine, Fine
<1>2. /\ DOMAIN items \subseteq Int /\ \A i \in DOMAIN items : items[i] \in Records
      /\ \A i \in DOMAIN segments : segments[i] \in Records
  BY <1>1, LenProperties, ElementOfSeq
<1>3. \A k : Has(items, k) <=> k \in Listed
  BY DEF Has, Listed
<1> QED BY <1>1, <1>2, <1>3 DEF Inv, PlanInv, ItemsFine, Fine, Kept

LEMMA TypeIs == Inv => TypeOK
<1> SUFFICES ASSUME Inv PROVE TypeOK
  OBVIOUS
<1>1. pc \in {"parse", "list", "done"} /\ index \in 1 .. Len(text) + 1 /\ accumulated \subseteq 1 .. Len(text)
      /\ states \in [Attributes -> 0 .. Len(text)]
  BY DEF Inv, PlanInv, Shape, Current, Spots, Settings
<1>2. \A s \in Range(segments) \cup Range(items) : s \in Records
  BY ItemsAre DEF Range
<1>3. \A s \in Records : s.action \in Actions /\ s.text \cup s.word \cup s.reading \subseteq Spots
  BY DEF Records
<1> QED BY <1>1, <1>2, <1>3 DEF TypeOK, Actions, Spots

\* The items follow the order of the comment, and nothing is used twice.
LEMMA OrderIs == Inv => OnceInOrder
BY ItemsAre DEF OnceInOrder, InOrder, Sound

\* No letter of the comment is lost.
LEMMA LettersAre == Inv => NothingLost
<1> SUFFICES ASSUME Inv, pc = "done", NEW k \in DOMAIN text, text[k] = "a" PROVE k \in Listed \/ PassedOver(k)
  BY DEF NothingLost
<1>1. TextType /\ segments = <<>> /\ accumulated = {} /\ index = Len(text) + 1
  BY DEF Inv, PlanInv, Shape
<1>2. k \in Spots /\ k < index
  <2>1. k \in 1 .. Len(text) /\ Len(text) \in Nat
    BY <1>1, SpotsAre DEF Spots
  <2> QED BY <1>1, <2>1 DEF Spots
<1>3. Covered(items, segments, accumulated, k)
  BY <1>2 DEF Inv, PlanInv, Read
<1>4. ~Has(segments, k)
  BY <1>1 DEF Has
<1> QED BY <1>1, <1>3, <1>4, ItemsAre DEF Covered

\* A sentence ends behind a full stop, and only there.
LEMMA SentencesAre == Inv => SentencesEnd
BY ItemsAre DEF SentencesEnd, Utterances, Range, Ends

\* A setting of the voice holds for what follows it, up to the next one.
LEMMA SettingsAre == Inv => SettingsHold
<1> SUFFICES ASSUME Inv, NEW s \in Utterances, NEW a \in Attributes
             PROVE  /\ s.states[a] # 0 => Sets(a, s.states[a]) /\ \A k \in s.text : s.states[a] < k
                    /\ \A k \in s.states[a] + 1 .. First(s.text) - 1 : Sets(a, k) => k \in Listed \/ PassedOver(k)
  BY DEF SettingsHold
<1>1. PICK i \in DOMAIN items : s = items[i]
  BY DEF Utterances, Range
<1>2. s.action = "speak" /\ s \in Records /\ Sound(s) /\ SetBefore(s) /\ Heard(s, items, segments, accumulated)
  BY <1>1, ItemsAre DEF Utterances
<1>3. TextType /\ Spots \subseteq Nat /\ Len(text) \in Nat
  BY SpotsAre DEF Inv
<1>4. s.text \in SUBSET Spots /\ s.text # {} /\ PlacesOf(s) = s.text \cup s.word \cup s.reading
  BY <1>2 DEF Records, Sound, PlacesOf
<1> DEFINE m == First(s.text)
<1>5. m \in s.text
  BY <1>3, <1>4, FirstIs
<1>6. s.states[a] \in Int /\ 0 <= s.states[a]
  BY <1>2, <1>3 DEF Records, Settings
<1>7. accumulated = {}
  <2>1. items # <<>>
    BY <1>1
  <2> QED BY <2>1 DEF Inv, PlanInv, Shape
<1>8. s.states[a] # 0 => Sets(a, s.states[a]) /\ \A k \in s.text : s.states[a] < k
  BY <1>2 DEF SetBefore
<1> HIDE DEF m
<1>9. ASSUME NEW k \in s.states[a] + 1 .. m - 1, Sets(a, k) PROVE k \in Listed \/ PassedOver(k)
  <2>1. m \in Spots /\ m \in Nat /\ m <= Len(text)
    BY <1>3, <1>4, <1>5 DEF Spots
  <2>2. k \in Spots /\ s.states[a] < k /\ k <= m /\ ~(m < k)
    BY <1>3, <1>6, <2>1 DEF Spots
  <2>3. Covered(items, segments, accumulated, k)
    BY <1>2, <1>5, <1>9, <2>2 DEF Heard
  <2>4. ~Has(segments, k)
    <3>1. \A j \in DOMAIN segments : AllAhead(items, PlacesOf(segments[j]))
      BY ItemsAre
    <3>2. m \in PlacesOf(items[i])
      BY <1>1, <1>4, <1>5
    <3> QED BY <2>2, <3>1, <3>2 DEF Has, AllAhead, Ahead
  <2> QED BY <1>7, <2>3, <2>4, ItemsAre DEF Covered
<1> QED BY <1>8, <1>9 DEF m

-----------------------------------------------------------------------------
(***************************************************************************)
(* The words of a lesson.                                                  *)
(***************************************************************************)
Doubled(w, i) == {j \in 1 .. i : w[j] \in Special}

\* Each letter stands behind the one before it, with a backslash if it needs one.
LEMMA StandsIs ==
  ASSUME NEW w, NEW n \in Nat
  PROVE  /\ Stands(w, 0) = 0 /\ \A i \in 0 .. n : Stands(w, i) \in Nat
         /\ \A i \in 1 .. n : Stands(w, i) = Stands(w, i - 1) + (IF w[i] \in Special THEN 2 ELSE 1)
         /\ \A i, j \in 0 .. n : i < j => Stands(w, i) < Stands(w, j)
<1>1. \A i \in 0 .. n : Stands(w, i) = i + Cardinality(Doubled(w, i))
  BY DEF Stands, Doubled
<1>2. ASSUME NEW i \in 0 .. n PROVE IsFiniteSet(Doubled(w, i)) /\ Cardinality(Doubled(w, i)) \in Nat
  <2>1. IsFiniteSet(1 .. i)
    BY FS_Interval
  <2>2. Doubled(w, i) \subseteq 1 .. i
    BY DEF Doubled
  <2>3. IsFiniteSet(Doubled(w, i))
    BY <2>1, <2>2, FS_Subset
  <2> QED BY <2>3, FS_CardinalityType
<1>3. Stands(w, 0) = 0
  <2>1. Doubled(w, 0) = {} /\ 0 \in 0 .. n
    BY DEF Doubled
  <2>2. Cardinality(Doubled(w, 0)) = 0
    BY <2>1, FS_EmptySet
  <2> QED BY <1>1, <2>1, <2>2
<1>4. ASSUME NEW i \in 1 .. n PROVE Stands(w, i) = Stands(w, i - 1) + (IF w[i] \in Special THEN 2 ELSE 1)
  <2>1. i - 1 \in 0 .. n /\ i \in 0 .. n /\ i \notin Doubled(w, i - 1)
    BY DEF Doubled
  <2>2. Stands(w, i) = i + Cardinality(Doubled(w, i)) /\ Stands(w, i - 1) = i - 1 + Cardinality(Doubled(w, i - 1))
    BY <1>1, <2>1
  <2>3. /\ IsFiniteSet(Doubled(w, i - 1)) /\ Cardinality(Doubled(w, i - 1)) \in Nat
        /\ Cardinality(Doubled(w, i)) \in Nat
    BY <1>2, <2>1
  <2>4. CASE w[i] \in Special
    <3>1. Doubled(w, i) = Doubled(w, i - 1) \cup {i}
      BY <2>4 DEF Doubled
    <3>2. Cardinality(Doubled(w, i)) = Cardinality(Doubled(w, i - 1)) + 1
      BY <2>1, <2>3, <3>1, FS_AddElement
    <3> QED BY <2>2, <2>3, <2>4, <3>2
  <2>5. CASE w[i] \notin Special
    <3>1. Doubled(w, i) = Doubled(w, i - 1)
      BY <2>5 DEF Doubled
    <3> QED BY <2>2, <2>3, <2>5, <3>1
  <2> QED BY <2>4, <2>5
<1>5. ASSUME NEW i \in 0 .. n, NEW j \in 0 .. n, i < j PROVE Stands(w, i) < Stands(w, j)
  <2>1. Doubled(w, i) \subseteq Doubled(w, j)
    BY <1>5 DEF Doubled
  <2>2. Cardinality(Doubled(w, i)) <= Cardinality(Doubled(w, j))
    BY <1>2, <2>1, FS_Subset
  <2>3. Cardinality(Doubled(w, i)) \in Nat /\ Cardinality(Doubled(w, j)) \in Nat
    BY <1>2
  <2> QED BY <1>1, <1>5, <2>2, <2>3
<1>6. \A i \in 0 .. n : Stands(w, i) \in Nat
  BY <1>1, <1>2
<1> QED BY <1>3, <1>4, <1>5, <1>6

\* Every place of a written word is that of a letter, or of the backslash before one.
LEMMA PlacesOfLetters ==
  ASSUME NEW w, NEW n \in Nat
  PROVE  /\ \A p \in 1 .. Stands(w, n) : \E i \in 1 .. n :
              p = Stands(w, i) \/ (w[i] \in Special /\ p = Stands(w, i) - 1)
         /\ \A i, j \in 1 .. n : w[i] \in Special => Stands(w, j) # Stands(w, i) - 1
         /\ \A i, j \in 1 .. n : Stands(w, i) = Stands(w, j) => i = j
         /\ \A i \in 1 .. n : Stands(w, i) \in 1 .. Stands(w, n)
         /\ \A i \in 1 .. n : w[i] \in Special => Stands(w, i) - 1 \in 1 .. Stands(w, n)
<1>1. /\ Stands(w, 0) = 0 /\ \A i \in 0 .. n : Stands(w, i) \in Nat
      /\ \A i \in 1 .. n : Stands(w, i) = Stands(w, i - 1) + (IF w[i] \in Special THEN 2 ELSE 1)
      /\ \A i, j \in 0 .. n : i < j => Stands(w, i) < Stands(w, j)
  BY StandsIs
<1>2. ASSUME NEW p \in 1 .. Stands(w, n)
      PROVE  \E i \in 1 .. n : p = Stands(w, i) \/ (w[i] \in Special /\ p = Stands(w, i) - 1)
  <2> DEFINE T == {i \in 0 .. n : p <= Stands(w, i)}
             i == First(T)
  <2>1. n \in T /\ T \in SUBSET Nat
    OBVIOUS
  <2>2. i \in T /\ \A j \in T : i <= j
    BY <2>1, FirstIs
  <2> HIDE DEF i
  <2>3. i \in 0 .. n /\ p <= Stands(w, i) /\ i # 0
    BY <1>1, <2>2
  <2>4. i \in 1 .. n /\ i - 1 \in 0 .. n /\ i - 1 \notin T
    BY <2>2, <2>3
  <2>5. Stands(w, i - 1) < p /\ Stands(w, i) \in Nat /\ Stands(w, i - 1) \in Nat /\ p \in Nat
    BY <1>1, <2>4
  <2>6. Stands(w, i) = Stands(w, i - 1) + (IF w[i] \in Special THEN 2 ELSE 1)
    BY <1>1, <2>4
  <2>7. p = Stands(w, i) \/ (w[i] \in Special /\ p = Stands(w, i) - 1)
    BY <2>3, <2>5, <2>6
  <2> QED BY <2>4, <2>7
<1>3. ASSUME NEW i \in 1 .. n, NEW j \in 1 .. n, w[i] \in Special PROVE Stands(w, j) # Stands(w, i) - 1
  <2>1. /\ i - 1 \in 0 .. n /\ i \in 0 .. n /\ j \in 0 .. n /\ Stands(w, i) = Stands(w, i - 1) + 2
        /\ Stands(w, i) \in Nat /\ Stands(w, j) \in Nat /\ Stands(w, i - 1) \in Nat
    BY <1>1, <1>3
  <2>2. CASE j = i - 1 \/ j = i
    BY <2>1, <2>2
  <2>3. CASE j < i - 1
    BY <1>1, <2>1, <2>3
  <2>4. CASE i < j
    BY <1>1, <2>1, <2>4
  <2> QED BY <2>1, <2>2, <2>3, <2>4
<1>4. ASSUME NEW i \in 1 .. n, NEW j \in 1 .. n, Stands(w, i) = Stands(w, j) PROVE i = j
  <2>1. ~(i < j) /\ ~(j < i)
    <3>1. i \in 0 .. n /\ j \in 0 .. n /\ Stands(w, i) \in Nat
      BY <1>1
    <3> QED BY <1>1, <1>4, <3>1
  <2> QED BY <2>1
<1>5. ASSUME NEW i \in 1 .. n PROVE Stands(w, i) \in 1 .. Stands(w, n) /\ (w[i] \in Special => Stands(w, i) - 1 \in 1 .. Stands(w, n))
  <2>1. i \in 0 .. n /\ i - 1 \in 0 .. n /\ n \in 0 .. n
    OBVIOUS
  <2>2. Stands(w, i) \in Nat /\ Stands(w, i - 1) \in Nat /\ Stands(w, n) \in Nat
    BY <1>1, <2>1
  <2>3. Stands(w, i) = Stands(w, i - 1) + (IF w[i] \in Special THEN 2 ELSE 1)
    BY <1>1
  <2>4. Stands(w, i) <= Stands(w, n)
    BY <1>1, <2>1, <2>2
  <2> QED BY <2>2, <2>3, <2>4
<1> QED BY <1>2, <1>3, <1>4, <1>5

\* A place is escaped behind a backslash that is not escaped itself.
LEMMA EscapedIs ==
  ASSUME NEW o \in Nat
  PROVE  /\ ~Escaped(o, o + 1)
         /\ \A k \in Nat : o < k => (Escaped(o, k + 1) <=> text[k] = "\\" /\ ~Escaped(o, k))
<1> DEFINE Plain(k) == {j \in o .. k - 1 : j = o \/ text[j] # "\\"}
           LastPlain(k) == CHOOSE j \in Plain(k) : \A i \in Plain(k) : i <= j
<1>1. \A k : Escaped(o, k) <=> (k - 1 - LastPlain(k)) % 2 = 1
  BY DEF Escaped
<1>2. ASSUME NEW k \in Nat, o < k PROVE LastPlain(k) \in Plain(k) /\ \A i \in Plain(k) : i <= LastPlain(k)
  <2>1. k - 1 \in Nat /\ Plain(k) \in SUBSET (0 .. k - 1) /\ o \in Plain(k)
    BY <1>2
  <2> HIDE DEF Plain
  <2>2. \E j \in Plain(k) : \A i \in Plain(k) : i <= j
    BY <2>1, LastIs
  <2> QED BY <2>2
<1> HIDE DEF LastPlain
<1>3. ~Escaped(o, o + 1)
  <2>1. Plain(o + 1) = {o}
    OBVIOUS
  <2>2. LastPlain(o + 1) = o
    BY <1>2, <2>1
  <2>3. o + 1 - 1 - o = 0 /\ 0 % 2 = 0
    OBVIOUS
  <2> QED BY <1>1, <2>2, <2>3
<1>4. ASSUME NEW k \in Nat, o < k PROVE Escaped(o, k + 1) <=> text[k] = "\\" /\ ~Escaped(o, k)
  <2>1. /\ LastPlain(k) \in Plain(k) /\ \A i \in Plain(k) : i <= LastPlain(k)
        /\ LastPlain(k + 1) \in Plain(k + 1) /\ \A i \in Plain(k + 1) : i <= LastPlain(k + 1)
    BY <1>2, <1>4
  <2>2. CASE text[k] # "\\"
    <3>1. k \in Plain(k + 1)
      BY <1>4, <2>2
    <3>2. LastPlain(k + 1) = k
      BY <2>1, <3>1
    <3>3. k + 1 - 1 - k = 0 /\ 0 % 2 = 0
      OBVIOUS
    <3> QED BY <1>1, <2>2, <3>2, <3>3
  <2>3. CASE text[k] = "\\"
    <3>1. Plain(k + 1) = Plain(k)
      BY <1>4, <2>3
    <3>2. LastPlain(k + 1) = LastPlain(k) /\ LastPlain(k) \in Nat /\ LastPlain(k) <= k - 1
      BY <2>1, <3>1
    <3>3. PICK d \in Nat : d = k - 1 - LastPlain(k) /\ k + 1 - 1 - LastPlain(k) = d + 1
      BY <3>2
    <3>4. (d + 1) % 2 = 1 <=> ~(d % 2 = 1)
      OBVIOUS
    <3> QED BY <1>1, <2>3, <3>2, <3>3, <3>4
  <2> QED BY <2>2, <2>3
<1> QED BY <1>3, <1>4

\* A word of n letters is written behind b.
Written(w, n, b) == \A i \in 1 .. n :
  text[b + Stands(w, i)] = w[i] /\ (w[i] \in Special => text[b + Stands(w, i) - 1] = "\\")

\* Then just the letters that need it are escaped.
LEMMA WordEscaped ==
  ASSUME NEW o \in Nat, NEW b \in Nat, o <= b, NEW w, NEW n \in Nat, Written(w, n, b), ~Escaped(o, b + 1)
  PROVE  /\ \A i \in 0 .. n : ~Escaped(o, b + Stands(w, i) + 1)
         /\ \A i \in 1 .. n : /\ Escaped(o, b + Stands(w, i)) <=> w[i] \in Special
                              /\ w[i] \in Special => ~Escaped(o, b + Stands(w, i) - 1)
<1> DEFINE Through(i) == ~Escaped(o, b + Stands(w, i) + 1)
           Right(i) == /\ Escaped(o, b + Stands(w, i)) <=> w[i] \in Special
                       /\ w[i] \in Special => ~Escaped(o, b + Stands(w, i) - 1)
<1>1. /\ Stands(w, 0) = 0 /\ \A i \in 0 .. n : Stands(w, i) \in Nat
      /\ \A i \in 1 .. n : Stands(w, i) = Stands(w, i - 1) + (IF w[i] \in Special THEN 2 ELSE 1)
  BY StandsIs
<1>2. \A k \in Nat : o < k => (Escaped(o, k + 1) <=> text[k] = "\\" /\ ~Escaped(o, k))
  BY EscapedIs
<1>3. ASSUME NEW i \in 1 .. n, Through(i - 1) PROVE Through(i) /\ Right(i)
  <2>1. i - 1 \in 0 .. n /\ i \in 0 .. n
    OBVIOUS
  <2> DEFINE p == b + Stands(w, i - 1) + 1
  <2>2. p \in Nat /\ o < p /\ ~Escaped(o, p)
    BY <1>1, <1>3, <2>1
  <2>3. text[b + Stands(w, i)] = w[i] /\ (w[i] \in Special => text[b + Stands(w, i) - 1] = "\\")
    BY DEF Written
  <2>4. CASE w[i] \in Special
    <3>1. b + Stands(w, i) = p + 1 /\ b + Stands(w, i) - 1 = p /\ b + Stands(w, i) + 1 = (p + 1) + 1
      BY <1>1, <2>1, <2>4
    <3> HIDE DEF p
    <3>2. Escaped(o, p + 1)
      BY <1>2, <2>2, <2>3, <2>4, <3>1
    <3>3. ~Escaped(o, (p + 1) + 1)
      <4>1. p + 1 \in Nat /\ o < p + 1
        BY <2>2
      <4> QED BY <1>2, <3>2, <4>1
    <3> QED BY <2>2, <2>4, <3>1, <3>2, <3>3
  <2>5. CASE w[i] \notin Special
    <3>1. b + Stands(w, i) = p /\ b + Stands(w, i) + 1 = p + 1
      BY <1>1, <2>1, <2>5
    <3> HIDE DEF p
    <3>2. text[p] # "\\"
      BY <2>3, <2>5, <3>1 DEF Special
    <3>3. ~Escaped(o, p + 1)
      BY <1>2, <2>2, <3>2
    <3> QED BY <2>2, <2>5, <3>1, <3>3
  <2> QED BY <2>4, <2>5
<1>4. Through(0)
  <2>1. b + Stands(w, 0) + 1 = b + 1
    BY <1>1
  <2> QED BY <2>1
<1> DEFINE T == {i \in 0 .. n : ~Through(i)}
<1> HIDE DEF Through, Right
<1>5. T = {}
  <2>1. SUFFICES ASSUME T # {} PROVE FALSE
    OBVIOUS
  <2>2. T \in SUBSET Nat
    OBVIOUS
  <2>3. First(T) \in T /\ \A j \in T : First(T) <= j
    BY <2>1, <2>2, FirstIs
  <2>4. First(T) # 0
    BY <1>4, <2>3
  <2>5. First(T) \in 1 .. n /\ First(T) - 1 \in 0 .. n /\ First(T) - 1 \notin T
    BY <2>3, <2>4
  <2> QED BY <1>3, <2>3, <2>5
<1>6. \A i \in 0 .. n : Through(i)
  BY <1>5
<1>7. \A i \in 1 .. n : Right(i)
  <2>1. \A i \in 1 .. n : i - 1 \in 0 .. n
    OBVIOUS
  <2> QED BY <1>3, <1>6, <2>1
<1> QED BY <1>6, <1>7 DEF Through, Right

\* What is left of it are its letters, and none of them ends the word.
LEMMA WordArrives ==
  ASSUME NEW o \in Nat, NEW b \in Nat, o <= b, NEW w, NEW n \in Nat, Written(w, n, b), ~Escaped(o, b + 1)
  PROVE  /\ Content(o, b + 1, b + Stands(w, n)) = {b + Stands(w, i) : i \in 1 .. n}
         /\ \A k \in b + 1 .. b + Stands(w, n) : text[k] \in {"=", ")"} => Escaped(o, k)
         /\ ~Escaped(o, b + Stands(w, n) + 1)
<1> DEFINE L == Stands(w, n)
<1>1. /\ \A i \in 0 .. n : ~Escaped(o, b + Stands(w, i) + 1)
      /\ \A i \in 1 .. n : /\ Escaped(o, b + Stands(w, i)) <=> w[i] \in Special
                           /\ w[i] \in Special => ~Escaped(o, b + Stands(w, i) - 1)
  BY WordEscaped
<1>2. /\ \A p \in 1 .. L : \E i \in 1 .. n : p = Stands(w, i) \/ (w[i] \in Special /\ p = Stands(w, i) - 1)
      /\ \A i \in 1 .. n : Stands(w, i) \in 1 .. L
  BY PlacesOfLetters
<1>3. n \in 0 .. n /\ L \in Nat /\ \A i \in 1 .. n : i \in 0 .. n /\ Stands(w, i) \in Nat
  <2>1. n \in 0 .. n /\ \A i \in 1 .. n : i \in 0 .. n
    OBVIOUS
  <2> QED BY <2>1, StandsIs
<1> HIDE DEF L
<1>4. \A i \in 1 .. n : text[b + Stands(w, i)] = w[i] /\ (w[i] \in Special => text[b + Stands(w, i) - 1] = "\\")
  BY DEF Written
<1>5. ASSUME NEW k \in b + 1 .. b + L
      PROVE  \E i \in 1 .. n : k = b + Stands(w, i) \/ (w[i] \in Special /\ k = b + Stands(w, i) - 1)
  <2>1. k - b \in 1 .. L
    BY <1>3
  <2>2. PICK i \in 1 .. n : k - b = Stands(w, i) \/ (w[i] \in Special /\ k - b = Stands(w, i) - 1)
    BY <1>2, <2>1
  <2>3. k = b + Stands(w, i) \/ (w[i] \in Special /\ k = b + Stands(w, i) - 1)
    BY <1>3, <2>2
  <2> QED BY <2>3
<1>6. ASSUME NEW k \in Content(o, b + 1, b + L) PROVE k \in {b + Stands(w, i) : i \in 1 .. n}
  <2>1. k \in b + 1 .. b + L /\ (text[k] # "\\" \/ Escaped(o, k))
    BY DEF Content
  <2>2. PICK i \in 1 .. n : k = b + Stands(w, i) \/ (w[i] \in Special /\ k = b + Stands(w, i) - 1)
    BY <1>5, <2>1
  <2>3. k = b + Stands(w, i)
    BY <1>1, <1>4, <2>1, <2>2
  <2> QED BY <2>3
<1>7. ASSUME NEW i \in 1 .. n PROVE b + Stands(w, i) \in Content(o, b + 1, b + L)
  <2>1. b + Stands(w, i) \in b + 1 .. b + L
    BY <1>2, <1>3
  <2>2. w[i] = "\\" => w[i] \in Special
    BY DEF Special
  <2>3. text[b + Stands(w, i)] # "\\" \/ Escaped(o, b + Stands(w, i))
    BY <1>1, <1>4, <2>2
  <2> QED BY <2>1, <2>3 DEF Content
<1>8. ASSUME NEW k \in b + 1 .. b + L, text[k] \in {"=", ")"} PROVE Escaped(o, k)
  <2>1. PICK i \in 1 .. n : k = b + Stands(w, i) \/ (w[i] \in Special /\ k = b + Stands(w, i) - 1)
    BY <1>5
  <2>2. text[k] # "\\" /\ text[k] \in Special
    BY <1>8 DEF Special
  <2> QED BY <1>1, <1>4, <2>1, <2>2
<1>9. Content(o, b + 1, b + L) = {b + Stands(w, i) : i \in 1 .. n}
  BY <1>6, <1>7
<1>10. ~Escaped(o, b + L + 1)
  BY <1>1, <1>3 DEF L
<1> QED BY <1>8, <1>9, <1>10 DEF L

\* Without a blank at its ends nothing of it is trimmed.
NoBlankAround(w) == w = <<>> \/ " " \notin {w[1], w[Len(w)]}

LEMMA WordHolds ==
  ASSUME NEW S, NEW w \in Seq(S), NEW b \in Nat, Written(w, Len(w), b), NoBlankAround(w)
  PROVE  Holds(Trim({b + Stands(w, i) : i \in 1 .. Len(w)}), w)
<1> DEFINE n == Len(w)
           at == [i \in 1 .. n |-> b + Stands(w, i)]
           P == {b + Stands(w, i) : i \in 1 .. n}
<1>1. n \in Nat /\ DOMAIN w = 1 .. n /\ (w # <<>> => 1 \in 1 .. n /\ n \in 1 .. n)
  <2>1. n \in Nat /\ DOMAIN w = 1 .. n
    BY LenProperties
  <2>2. w # <<>> => n \in Nat \ {0}
    BY EmptySeq
  <2> HIDE DEF n
  <2> QED BY <2>1, <2>2
<1> HIDE DEF n
<1>2. /\ \A i \in 1 .. n : Stands(w, i) \in Nat
      /\ \A i, j \in 1 .. n : i < j => Stands(w, i) < Stands(w, j)
  <2>1. \A i \in 1 .. n : i \in 0 .. n
    BY <1>1
  <2> QED BY <1>1, <2>1, StandsIs
<1>3. \A i \in 1 .. n : text[b + Stands(w, i)] = w[i]
  BY DEF Written, n
<1>4. Trim(P) = P
  <2>1. CASE w = <<>>
    <3>1. 1 .. n = {}
      BY <1>1, <2>1 DEF n
    <3>2. P = {}
      BY <3>1
    <3> QED BY <3>2 DEF Trim
  <2>2. CASE w # <<>>
    <3> DEFINE words == {k \in P : ~Blank(k)}
               first == b + Stands(w, 1)
               last == b + Stands(w, n)
    <3>1. first \in words /\ last \in words
      <4>1. 1 \in 1 .. n /\ n \in 1 .. n
        BY <1>1, <2>2
      <4>2. first \in P /\ last \in P /\ text[first] = w[1] /\ text[last] = w[n]
        BY <1>3, <4>1
      <4> HIDE DEF first, last, P
      <4>3. w[1] # " " /\ w[n] # " "
        BY <2>2 DEF NoBlankAround, n
      <4> QED BY <4>2, <4>3 DEF Blank
    <3>2. ASSUME NEW k \in P PROVE first <= k /\ k <= last
      <4>1. PICK i \in 1 .. n : k = b + Stands(w, i)
        OBVIOUS
      <4>2. 1 \in 1 .. n /\ n \in 1 .. n /\ 1 <= i /\ i <= n
        BY <1>1, <2>2
      <4>3. Stands(w, 1) <= Stands(w, i)
        BY <1>1, <1>2, <4>2
      <4>4. Stands(w, i) <= Stands(w, n)
        <5>1. i = n \/ i < n
          BY <1>1, <4>2
        <5>2. Stands(w, i) \in Nat /\ Stands(w, n) \in Nat
          BY <1>2, <4>2
        <5> QED BY <1>2, <4>2, <5>1, <5>2
      <4> QED BY <1>2, <4>1, <4>2, <4>3, <4>4
    <3>3. Trim(P) = {k \in P : (\E j \in words : j <= k) /\ (\E j \in words : k <= j)}
      BY DEF Trim
    <3> HIDE DEF P, words, first, last
    <3> QED BY <3>1, <3>2, <3>3
  <2> QED BY <2>1, <2>2
<1>5. at \in [DOMAIN w -> P]
  BY <1>1
<1>6. P = Range(at)
  BY DEF Range
<1>7. \A i, j \in DOMAIN w : i < j => at[i] < at[j]
  BY <1>1, <1>2
<1>8. \A i \in DOMAIN w : text[at[i]] = w[i]
  BY <1>1, <1>3
<1> HIDE DEF at, P
<1>9. Holds(P, w)
  BY <1>5, <1>6, <1>7, <1>8 DEF Holds
<1> QED BY <1>4, <1>9 DEF P, n

\* A written word has its letters where they stand, and backslashes before them.
LEMMA EscapingIs ==
  ASSUME NEW S, "\\" \in S, NEW w \in Seq(S)
  PROVE  /\ Escaping(w) \in Seq(S) /\ Len(Escaping(w)) = Stands(w, Len(w))
         /\ \A i \in 1 .. Len(w) : Escaping(w)[Stands(w, i)] = w[i]
         /\ \A i \in 1 .. Len(w) : w[i] \in Special => Escaping(w)[Stands(w, i) - 1] = "\\"
<1> DEFINE n == Len(w)
           L == Stands(w, n)
           at(p) == CHOOSE i \in DOMAIN w : Stands(w, i) = p
<1>1. n \in Nat /\ DOMAIN w = 1 .. n /\ \A i \in 1 .. n : w[i] \in S
  BY LenProperties, ElementOfSeq
<1> HIDE DEF n
<1>2. /\ \A i, j \in 1 .. n : w[i] \in Special => Stands(w, j) # Stands(w, i) - 1
      /\ \A i, j \in 1 .. n : Stands(w, i) = Stands(w, j) => i = j
      /\ \A i \in 1 .. n : Stands(w, i) \in 1 .. L
      /\ \A i \in 1 .. n : w[i] \in Special => Stands(w, i) - 1 \in 1 .. L
  BY <1>1, PlacesOfLetters
<1>3. L \in Nat
  <2>1. n \in 0 .. n
    BY <1>1
  <2> QED BY <1>1, <2>1, StandsIs
<1> HIDE DEF L
<1>4. Escaping(w) = [p \in 1 .. L |-> IF \E i \in 1 .. n : Stands(w, i) = p THEN w[at(p)] ELSE "\\"]
  BY <1>1 DEF Escaping, L, n
<1>5. \A p : (\E i \in 1 .. n : Stands(w, i) = p) => at(p) \in 1 .. n /\ Stands(w, at(p)) = p
  BY <1>1
<1> HIDE DEF at
<1>6. \A p \in 1 .. L : Escaping(w)[p] \in S
  BY <1>1, <1>4, <1>5
<1>7. Escaping(w) \in [1 .. L -> S]
  BY <1>4, <1>6
<1>8. Escaping(w) \in Seq(S) /\ Len(Escaping(w)) = L
  <2>1. Escaping(w) \in Seq(S)
    BY <1>3, <1>7, SeqDef
  <2>2. DOMAIN Escaping(w) = 1 .. L
    BY <1>7
  <2> QED BY <1>3, <2>1, <2>2, LenProperties
<1>9. \A i \in 1 .. n : Escaping(w)[Stands(w, i)] = w[i]
  BY <1>2, <1>4, <1>5
<1>10. \A i \in 1 .. n : w[i] \in Special => Escaping(w)[Stands(w, i) - 1] = "\\"
  BY <1>2, <1>4
<1> QED BY <1>8, <1>9, <1>10 DEF L, n

\* s is q behind p.
IsJoined(S, p, q, s) ==
  /\ s \in Seq(S) /\ Len(p) \in Nat /\ Len(q) \in Nat /\ Len(s) = Len(p) + Len(q)
  /\ \A i \in 1 .. Len(p) : s[i] = p[i]
  /\ \A i \in 1 .. Len(q) : s[Len(p) + i] = q[i]

LEMMA JoinedIs == ASSUME NEW S, NEW p \in Seq(S), NEW q \in Seq(S), NEW s, s = p \o q PROVE IsJoined(S, p, q, s)
<1> DEFINE a == Len(p)
           b == Len(q)
<1>1. a \in Nat /\ b \in Nat
  BY LenProperties
<1>2. s \in Seq(S) /\ Len(s) = a + b /\ \A i \in 1 .. a + b : s[i] = IF i <= a THEN p[i] ELSE q[i - a]
  BY ConcatProperties
<1> HIDE DEF a, b
<1>3. \A i \in 1 .. a : s[i] = p[i]
  <2>1. \A i \in 1 .. a : i \in 1 .. a + b /\ i <= a
    BY <1>1
  <2> QED BY <1>2, <2>1
<1>4. ASSUME NEW i \in 1 .. b PROVE s[a + i] = q[i]
  <2> DEFINE m == a + i
  <2>1. m \in 1 .. a + b /\ ~(m <= a) /\ m - a = i
    BY <1>1
  <2> HIDE DEF m
  <2>2. s[m] = q[m - a]
    BY <1>2, <2>1
  <2> QED BY <2>1, <2>2 DEF m
<1> QED BY <1>1, <1>2, <1>3, <1>4 DEF IsJoined, a, b

\* Where the parts of a lesson are.
IsLesson(w, r) == text = Lesson(w, r) \o Fixed
Between(w) == 3 + Stands(w, Len(w))
Behind(w, r) == Between(w) + Stands(r, Len(r)) + 1

LEMMA LessonIs ==
  ASSUME NEW w \in Words, NEW r \in Words, IsLesson(w, r)
  PROVE  /\ w \in Seq(STRING) /\ r \in Seq(STRING) /\ NoBlankAround(w) /\ NoBlankAround(r)
         /\ Stands(w, Len(w)) \in Nat /\ Stands(r, Len(r)) \in Nat /\ Behind(w, r) <= Len(text)
         /\ text[1] = "teach" /\ text[2] = "(" /\ text[Between(w)] = "=" /\ text[Behind(w, r)] = ")"
         /\ Written(w, Len(w), 2) /\ Written(r, Len(r), Between(w))
<1> DEFINE S == STRING \cup {"teach", "(", "=", ")", "\\"}
           L == Stands(w, Len(w))
           M == Stands(r, Len(r))
           a == <<"teach", "(">>
           b == a \o Escaping(w)
           c == b \o <<"=">>
           d == c \o Escaping(r)
           e == d \o <<")">>
<1>1. /\ w \in Seq(STRING) /\ r \in Seq(STRING) /\ Fixed \in Seq(STRING)
      /\ w \in Seq(S) /\ r \in Seq(S) /\ Fixed \in Seq(S) /\ NoBlankAround(w) /\ NoBlankAround(r)
  <2>1. w \in Seq(STRING) /\ r \in Seq(STRING) /\ Fixed \in Seq(STRING) /\ STRING \subseteq S
    BY PlanAssumption
  <2>2. NoBlankAround(w) /\ NoBlankAround(r)
    BY PlanAssumption, Zenon DEF NoBlankAround
  <2> QED BY <2>1, <2>2, SeqMonotonic
<1>2. "teach" \in S /\ "(" \in S /\ "=" \in S /\ ")" \in S /\ "\\" \in S
  OBVIOUS
<1> HIDE DEF S
<1>3. /\ Escaping(w) \in Seq(S) /\ Len(Escaping(w)) = L
      /\ \A i \in 1 .. Len(w) : Escaping(w)[Stands(w, i)] = w[i]
      /\ \A i \in 1 .. Len(w) : w[i] \in Special => Escaping(w)[Stands(w, i) - 1] = "\\"
  BY <1>1, <1>2, EscapingIs
<1>4. /\ Escaping(r) \in Seq(S) /\ Len(Escaping(r)) = M
      /\ \A i \in 1 .. Len(r) : Escaping(r)[Stands(r, i)] = r[i]
      /\ \A i \in 1 .. Len(r) : r[i] \in Special => Escaping(r)[Stands(r, i) - 1] = "\\"
  BY <1>1, <1>2, EscapingIs
<1>5. /\ a \in Seq(S) /\ Len(a) = 2 /\ a[1] = "teach" /\ a[2] = "(" /\ <<"=">> \in Seq(S) /\ Len(<<"=">>) = 1
      /\ <<"=">>[1] = "=" /\ <<")">> \in Seq(S) /\ Len(<<")">>) = 1 /\ <<")">>[1] = ")"
  BY <1>2
<1> DEFINE equal == <<"=">>
           close == <<")">>
<1> HIDE DEF a, equal, close, L, M
<1>6. /\ b \in Seq(S) /\ Len(b) = 2 + L /\ L \in Nat /\ (\A i \in 1 .. 2 : b[i] = a[i]) /\ \A i \in 1 .. L : b[2 + i] = Escaping(w)[i]
  <2>1. IsJoined(S, a, Escaping(w), b)
    BY <1>3, <1>5, JoinedIs
  <2> HIDE DEF b
  <2> QED BY <1>3, <1>5, <2>1 DEF IsJoined
<1> HIDE DEF b
<1>7. /\ c \in Seq(S) /\ Len(c) = 3 + L /\ (\A i \in 1 .. 2 + L : c[i] = b[i]) /\ c[3 + L] = "="
  <2>1. equal \in Seq(S) /\ Len(equal) = 1 /\ equal[1] = "=" /\ c = b \o equal
    BY <1>5 DEF equal
  <2> HIDE DEF c
  <2>2. /\ c \in Seq(S) /\ Len(c) = Len(b) + 1 /\ (\A i \in 1 .. Len(b) : c[i] = b[i])
        /\ \A i \in 1 .. 1 : c[Len(b) + i] = equal[i]
    <3>1. IsJoined(S, b, equal, c)
      BY <1>6, <2>1, JoinedIs
    <3> QED BY <2>1, <3>1 DEF IsJoined
  <2>3. Len(c) = 3 + L /\ 2 + L + 1 = 3 + L /\ 1 \in 1 .. 1
    BY <1>6, <2>2
  <2> QED BY <1>6, <2>1, <2>2, <2>3
<1> HIDE DEF c
<1>8. /\ d \in Seq(S) /\ Len(d) = 3 + L + M /\ M \in Nat /\ (\A i \in 1 .. 3 + L : d[i] = c[i])
      /\ \A i \in 1 .. M : d[3 + L + i] = Escaping(r)[i]
  <2>1. IsJoined(S, c, Escaping(r), d)
    BY <1>4, <1>7, JoinedIs
  <2> HIDE DEF d
  <2> QED BY <1>4, <1>7, <2>1 DEF IsJoined
<1> HIDE DEF d
<1>9. /\ e \in Seq(S) /\ Len(e) = 3 + L + M + 1 /\ (\A i \in 1 .. 3 + L + M : e[i] = d[i]) /\ e[3 + L + M + 1] = ")"
  <2>1. close \in Seq(S) /\ Len(close) = 1 /\ close[1] = ")" /\ e = d \o close
    BY <1>5 DEF close
  <2> HIDE DEF e
  <2>2. /\ e \in Seq(S) /\ Len(e) = Len(d) + 1 /\ (\A i \in 1 .. Len(d) : e[i] = d[i])
        /\ \A i \in 1 .. 1 : e[Len(d) + i] = close[i]
    <3>1. IsJoined(S, d, close, e)
      BY <1>8, <2>1, JoinedIs
    <3> QED BY <2>1, <3>1 DEF IsJoined
  <2>3. 1 \in 1 .. 1
    OBVIOUS
  <2> QED BY <1>8, <2>1, <2>2, <2>3
<1>10. text = e \o Fixed
  BY DEF IsLesson, Lesson, a, b, c, d
<1> HIDE DEF e
<1>11. Len(text) = Len(e) + Len(Fixed) /\ Len(Fixed) \in Nat /\ \A i \in 1 .. Len(e) : text[i] = e[i]
  BY <1>1, <1>9, <1>10, JoinedIs DEF IsJoined
<1>12. Between(w) = 3 + L /\ Behind(w, r) = 3 + L + M + 1
  BY DEF Between, Behind, L, M
<1>13. /\ \A i \in 1 .. 3 + L + M : text[i] = d[i]
       /\ \A i \in 1 .. 3 + L : text[i] = c[i]
       /\ \A i \in 1 .. 2 + L : text[i] = b[i]
  <2>1. /\ \A i \in 1 .. 3 + L + M : i \in 1 .. Len(e)
        /\ \A i \in 1 .. 3 + L : i \in 1 .. 3 + L + M
        /\ \A i \in 1 .. 2 + L : i \in 1 .. 3 + L
    BY <1>6, <1>8, <1>9
  <2> QED BY <1>7, <1>8, <1>9, <1>11, <2>1
<1>14. text[1] = "teach" /\ text[2] = "(" /\ text[3 + L] = "=" /\ text[3 + L + M + 1] = ")"
  <2>1. 1 \in 1 .. 2 /\ 2 \in 1 .. 2 /\ 1 \in 1 .. 2 + L /\ 2 \in 1 .. 2 + L /\ 3 + L \in 1 .. 3 + L /\ 3 + L + M + 1 \in 1 .. Len(e)
    BY <1>6, <1>8, <1>9
  <2> QED BY <1>5, <1>6, <1>7, <1>9, <1>11, <1>13, <2>1
<1>15. (\A i \in 1 .. L : text[2 + i] = Escaping(w)[i]) /\ \A i \in 1 .. M : text[3 + L + i] = Escaping(r)[i]
  <2>1. (\A i \in 1 .. L : 2 + i \in 1 .. 2 + L) /\ \A i \in 1 .. M : 3 + L + i \in 1 .. 3 + L + M
    BY <1>6, <1>8
  <2> QED BY <1>6, <1>8, <1>13, <2>1
<1>16. Len(w) \in Nat /\ Len(r) \in Nat
  BY <1>1, LenProperties
<1>17. Written(w, Len(w), 2)
  <2>1. /\ \A i \in 1 .. Len(w) : Stands(w, i) \in 1 .. L
        /\ \A i \in 1 .. Len(w) : w[i] \in Special => Stands(w, i) - 1 \in 1 .. L
    BY <1>16, PlacesOfLetters DEF L
  <2>2. ASSUME NEW i \in 1 .. Len(w) PROVE text[2 + Stands(w, i)] = w[i]
    BY <1>3, <1>15, <2>1
  <2>3. ASSUME NEW i \in 1 .. Len(w), w[i] \in Special PROVE text[2 + Stands(w, i) - 1] = "\\"
    <3>1. 2 + (Stands(w, i) - 1) = 2 + Stands(w, i) - 1
      BY <2>1
    <3>2. text[2 + (Stands(w, i) - 1)] = "\\"
      BY <1>3, <1>15, <2>1, <2>3
    <3> QED BY <3>1, <3>2
  <2> QED BY <2>2, <2>3 DEF Written
<1>18. Written(r, Len(r), 3 + L)
  <2>1. /\ \A i \in 1 .. Len(r) : Stands(r, i) \in 1 .. M
        /\ \A i \in 1 .. Len(r) : r[i] \in Special => Stands(r, i) - 1 \in 1 .. M
    BY <1>16, PlacesOfLetters DEF M
  <2>2. ASSUME NEW i \in 1 .. Len(r) PROVE text[3 + L + Stands(r, i)] = r[i]
    BY <1>4, <1>15, <2>1
  <2>3. ASSUME NEW i \in 1 .. Len(r), r[i] \in Special PROVE text[3 + L + Stands(r, i) - 1] = "\\"
    <3>1. 3 + L + (Stands(r, i) - 1) = 3 + L + Stands(r, i) - 1
      BY <1>6, <2>1
    <3>2. text[3 + L + (Stands(r, i) - 1)] = "\\"
      BY <1>4, <1>15, <2>1, <2>3
    <3> QED BY <3>1, <3>2
  <2> QED BY <2>2, <2>3 DEF Written
<1>19. Behind(w, r) <= Len(text)
  BY <1>6, <1>8, <1>9, <1>11, <1>12
<1> QED BY <1>1, <1>6, <1>8, <1>12, <1>14, <1>17, <1>18, <1>19 DEF L, M

\* The lesson is read as it was written.
LEMMA LessonRead ==
  ASSUME TextType, index = 1, NEW w \in Words, NEW r \in Words, IsLesson(w, r)
  PROVE  /\ Opens # {} /\ Open = 2 /\ Teaches /\ First(Equals(2)) = Between(w) /\ Close(2) = Behind(w, r)
         /\ Holds(Trim(Content(2, 3, Between(w) - 1)), w)
         /\ Holds(Trim(Content(2, Between(w) + 1, Behind(w, r) - 1)), r)
<1> DEFINE L == Stands(w, Len(w))
           M == Stands(r, Len(r))
           e == Between(w)
           c == Behind(w, r)
<1>1. /\ w \in Seq(STRING) /\ r \in Seq(STRING) /\ NoBlankAround(w) /\ NoBlankAround(r)
      /\ L \in Nat /\ M \in Nat /\ c <= Len(text)
      /\ text[1] = "teach" /\ text[2] = "(" /\ text[e] = "=" /\ text[c] = ")"
      /\ Written(w, Len(w), 2) /\ Written(r, Len(r), e)
  BY LessonIs
<1>2. Len(w) \in Nat /\ Len(r) \in Nat
  BY <1>1, LenProperties
<1>3. e = 3 + L /\ c = e + M + 1
  BY DEF Between, Behind
<1>4. Len(text) \in Nat
  BY SpotsAre
<1> DEFINE Gone(o, b, S) == \A k \in b : text[k] \in S => Escaped(o, k)
<1>5. /\ Content(2, 2 + 1, 2 + L) = {2 + Stands(w, i) : i \in 1 .. Len(w)}
      /\ \A k \in 2 + 1 .. 2 + L : text[k] \in {"=", ")"} => Escaped(2, k)
      /\ ~Escaped(2, 2 + L + 1)
  <2>1. ~Escaped(2, 2 + 1)
    BY EscapedIs
  <2>2. 2 \in Nat /\ 2 <= 2
    OBVIOUS
  <2> QED BY <1>1, <1>2, <2>1, <2>2, WordArrives
<1>6. /\ Content(2, e + 1, e + M) = {e + Stands(r, i) : i \in 1 .. Len(r)}
      /\ \A k \in e + 1 .. e + M : text[k] \in {"=", ")"} => Escaped(2, k)
      /\ ~Escaped(2, e + M + 1)
  <2>1. e \in Nat /\ 2 < e /\ 2 <= e /\ 2 \in Nat
    BY <1>1, <1>3
  <2>2. ~Escaped(2, e + 1)
    BY <1>1, <2>1, EscapedIs
  <2> HIDE DEF e
  <2> QED BY <1>1, <1>2, <2>1, <2>2, WordArrives
<1> HIDE DEF L, M, e, c
<1>7. Opens # {} /\ Open = 2
  <2>1. Opens = {k \in 1 .. Len(text) : text[k] = "("}
    BY DEF Opens
  <2>2. 2 \in Opens /\ Opens \in SUBSET Nat /\ \A k \in Opens : 1 <= k /\ k # 1
    BY <1>1, <1>3, <1>4, <2>1
  <2>3. First(Opens) \in Opens /\ First(Opens) <= 2 /\ First(Opens) \in Nat
    BY <2>2, FirstIs
  <2>4. First(Opens) = 2
    <3>1. 1 <= First(Opens) /\ First(Opens) # 1
      BY <2>2, <2>3
    <3> QED BY <2>3, <3>1
  <2> QED BY <2>2, <2>4 DEF Open
<1>8. 2 + L + 1 = e /\ e + M + 1 = c /\ e \in Nat /\ c \in Nat /\ 2 < e /\ e < c /\ e - 1 = 2 + L /\ c - 1 = e + M
  BY <1>1, <1>3
<1>9. Unescaped(2, ")") # {} /\ Close(2) = c
  <2> DEFINE U == Unescaped(2, ")")
  <2>1. U = {k \in 3 .. Len(text) : text[k] = ")" /\ ~Escaped(2, k)}
    BY DEF Unescaped
  <2> HIDE DEF U
  <2>2. c \in U /\ U \in SUBSET Nat
    BY <1>1, <1>4, <1>6, <1>8, <2>1
  <2>3. ASSUME NEW k \in U PROVE c <= k
    <3>1. k \in Nat /\ 3 <= k /\ text[k] = ")" /\ ~Escaped(2, k)
      BY <2>1
    <3>2. k \notin 2 + 1 .. 2 + L /\ k \notin e + 1 .. e + M /\ k # e
      BY <1>1, <1>5, <1>6, <3>1
    <3> QED BY <1>1, <1>8, <3>1, <3>2
  <2>4. First(U) \in U /\ First(U) <= c /\ First(U) \in Nat
    BY <2>2, FirstIs
  <2>5. First(U) = c
    <3>1. c <= First(U)
      BY <2>3, <2>4
    <3> QED BY <1>8, <2>4, <3>1
  <2> QED BY <2>2, <2>5 DEF Close, U
<1>10. Equals(2) # {} /\ First(Equals(2)) = e
  <2> DEFINE U == Equals(2)
  <2>1. U = {k \in 3 .. Len(text) : text[k] = "=" /\ ~Escaped(2, k) /\ k < c}
    BY <1>9 DEF Equals, Unescaped
  <2> HIDE DEF U
  <2>2. e \in U /\ U \in SUBSET Nat
    <3>1. ~Escaped(2, e)
      BY <1>5, <1>8
    <3>2. e \in 3 .. Len(text)
      BY <1>1, <1>4, <1>8
    <3> QED BY <1>1, <1>8, <2>1, <3>1, <3>2
  <2>3. ASSUME NEW k \in U PROVE e <= k
    <3>1. k \in Nat /\ 3 <= k /\ text[k] = "=" /\ ~Escaped(2, k)
      BY <2>1
    <3>2. k \notin 2 + 1 .. 2 + L
      BY <1>5, <3>1
    <3> QED BY <1>1, <1>8, <3>1, <3>2
  <2>4. First(U) \in U /\ First(U) <= e /\ First(U) \in Nat
    BY <2>2, FirstIs
  <2>5. First(U) = e
    <3>1. e <= First(U)
      BY <2>3, <2>4
    <3> QED BY <1>8, <2>4, <3>1
  <2> QED BY <2>2, <2>5 DEF U
<1>11. Teaches
  BY <1>7, <1>9, <1>10 DEF Teaches, Closes
<1>12. Holds(Trim(Content(2, 3, e - 1)), w)
  <2>1. Content(2, 3, e - 1) = {2 + Stands(w, i) : i \in 1 .. Len(w)}
    BY <1>5, <1>8
  <2>2. Holds(Trim({2 + Stands(w, i) : i \in 1 .. Len(w)}), w)
    BY <1>1, WordHolds
  <2> QED BY <2>1, <2>2
<1>13. Holds(Trim(Content(2, e + 1, c - 1)), r)
  <2>1. Content(2, e + 1, c - 1) = {e + Stands(r, i) : i \in 1 .. Len(r)}
    BY <1>6, <1>8
  <2>2. Holds(Trim({e + Stands(r, i) : i \in 1 .. Len(r)}), r)
    BY <1>1, <1>8, WordHolds
  <2> QED BY <2>1, <2>2
<1> QED BY <1>7, <1>9, <1>10, <1>11, <1>12, <1>13 DEF e, c

\* A lesson is taught: it is to be read, a segment or an item.
Arrives(s, w, r) == s.action = "add_dict" /\ Holds(s.word, w) /\ Holds(s.reading, r)
InList(q, w, r) == \E i \in DOMAIN q : Arrives(q[i], w, r)
Taught == \A w, r \in Words : IsLesson(w, r) =>
  \/ pc = "parse" /\ index = 1
  \/ InList(segments, w, r) \/ InList(items, w, r)

LEMMA HoldsStays ==
  ASSUME text' = text
  PROVE  /\ \A S, w : Holds(S, w)' <=> Holds(S, w)
         /\ \A w, r : IsLesson(w, r)' <=> IsLesson(w, r)
         /\ \A s, w, r : Arrives(s, w, r)' <=> Arrives(s, w, r)
<1>1. \A S, w : Holds(S, w)' <=> Holds(S, w)
  BY DEF Holds
<1>2. \A w, r : IsLesson(w, r)' <=> IsLesson(w, r)
  BY DEF IsLesson
<1> QED BY <1>1, <1>2 DEF Arrives

LEMMA InFlushed == ASSUME Inv, NEW w, NEW r, InList(segments, w, r) PROVE InList(Flushed, w, r)
<1>1. \A i \in DOMAIN segments : i \in DOMAIN Flushed /\ Flushed[i] = segments[i]
  BY FlushedIs
<1> HIDE DEF Flushed
<1> QED BY <1>1 DEF InList

LEMMA InAppended ==
  ASSUME NEW S, NEW q \in Seq(S), NEW s \in S, NEW w, NEW r, InList(q, w, r) \/ Arrives(s, w, r)
  PROVE  InList(Append(q, s), w, r)
<1>1. /\ Len(q) \in Nat /\ DOMAIN Append(q, s) = 1 .. Len(q) + 1 /\ Append(q, s)[Len(q) + 1] = s
      /\ \A i \in DOMAIN q : i \in DOMAIN Append(q, s) /\ Append(q, s)[i] = q[i]
  BY Appended
<1>2. Len(q) + 1 \in DOMAIN Append(q, s)
  BY <1>1
<1>3. CASE InList(q, w, r)
  BY <1>1, <1>3 DEF InList
<1>4. CASE Arrives(s, w, r)
  BY <1>1, <1>2, <1>4 DEF InList
<1> QED BY <1>3, <1>4

LEMMA InTurn ==
  ASSUME Inv, NEW s, NEW w, NEW r, InList(segments, w, r) \/ Arrives(s, w, r)
  PROVE  InList(Append(Flushed, s), w, r)
<1>1. Flushed \in Seq(Records) /\ \A i \in DOMAIN segments : i \in DOMAIN Flushed /\ Flushed[i] = segments[i]
  BY FlushedIs DEF SegmentsFine, Fine
<1> HIDE DEF Flushed
<1>2. Flushed \in Seq(Records \cup {s}) /\ s \in Records \cup {s}
  BY <1>1, SeqMonotonic
<1>3. InList(segments, w, r) => InList(Flushed, w, r)
  BY <1>1 DEF InList
<1> QED BY <1>2, <1>3, InAppended

\* Reading on keeps what was taught.
LEMMA ParseTaught ==
  ASSUME Inv, NEW w, NEW r, InList(segments, w, r) \/ InList(items, w, r),
         Teach \/ Forget \/ Play \/ SetNumber \/ SetPan \/ Speak \/ EndParse
  PROVE  InList(segments', w, r) \/ InList(items', w, r)
<1>1. items' = items
  BY DEF Teach, Forget, Play, SetNumber, SetPan, Speak, EndParse, Changes, Starts
<1>2. segments' = segments \/ segments' = Flushed \/ \E s : segments' = Append(Flushed, s)
  <2> HIDE DEF Flushed
  <2>1. Teach \/ Forget \/ Play => \E s : segments' = Append(Flushed, s)
    BY DEF Teach, Forget, Play
  <2>2. SetNumber \/ SetPan \/ EndParse => segments' = Flushed
    BY DEF SetNumber, SetPan, EndParse, Changes
  <2>3. Speak => segments' = segments
    BY DEF Speak
  <2> QED BY <2>1, <2>2, <2>3
<1>3. CASE segments' = Flushed
  BY <1>1, <1>3, InFlushed
<1>4. CASE \E s : segments' = Append(Flushed, s)
  BY <1>1, <1>4, InTurn
<1> QED BY <1>1, <1>2, <1>3, <1>4

\* So does listing: a command is listed as it is.
LEMMA ListTaught ==
  ASSUME Inv, NEW w, NEW r, InList(segments, w, r) \/ InList(items, w, r), SaySentence \/ ListCommand \/ EndList
  PROVE  InList(segments', w, r) \/ InList(items', w, r)
<1>1. CASE EndList
  BY <1>1 DEF EndList
<1>2. CASE SaySentence \/ ListCommand
  <2> DEFINE h == segments[1]
  <2>1. segments # <<>>
    BY <1>2 DEF SaySentence, ListCommand, Speaks
  <2>2. /\ segments \in Seq(Records) /\ 1 \in DOMAIN segments /\ h \in Records /\ Head(segments) = h
        /\ items \in Seq(Records) /\ Tail(segments) \in Seq(Records)
        /\ \A i \in DOMAIN segments : i = 1 \/ (i - 1 \in DOMAIN Tail(segments) /\ Tail(segments)[i - 1] = segments[i])
    BY <2>1, RestFine, RestIs, ItemsAre
  <2>3. InList(segments, w, r) => Arrives(h, w, r) \/ InList(Tail(segments), w, r)
    BY <2>2 DEF InList
  <2> HIDE DEF h
  <2>4. CASE SaySentence
    <3>1. /\ h.action = "speak"
          /\ items' = items \/ \E u : items' = Append(items, u)
          /\ segments' = Tail(segments) \/ \E left : segments' = [segments EXCEPT ![1].text = left]
      BY <2>2, <2>4 DEF SaySentence, Speaks
    <3>2. ~Arrives(h, w, r)
      BY <3>1 DEF Arrives
    <3>3. InList(items, w, r) => InList(items', w, r)
      <4>1. ASSUME NEW u, items' = Append(items, u), InList(items, w, r) PROVE InList(items', w, r)
        <5>1. items \in Seq(Records \cup {u}) /\ u \in Records \cup {u}
          BY <2>2, SeqMonotonic
        <5> QED BY <4>1, <5>1, InAppended
      <4> QED BY <3>1, <4>1
    <3>4. InList(segments, w, r) => InList(segments', w, r)
      <4>1. ASSUME NEW left, segments' = [segments EXCEPT ![1].text = left], InList(segments, w, r) PROVE InList(segments', w, r)
        <5>1. PICK i \in DOMAIN segments : Arrives(segments[i], w, r)
          BY <4>1 DEF InList
        <5>2. i # 1
          BY <3>2, <5>1 DEF h
        <5>3. i \in DOMAIN segments' /\ segments'[i] = segments[i]
          BY <4>1, <5>2
        <5> QED BY <5>1, <5>3 DEF InList
      <4> QED BY <2>3, <3>1, <3>2, <4>1
    <3> QED BY <3>3, <3>4
  <2>5. CASE ListCommand
    <3>1. items' = items \o ItemsOf(h) /\ segments' = Tail(segments)
      BY <2>2, <2>5 DEF ListCommand
    <3>2. ItemsOf(h) = <<h>> \/ ItemsOf(h) = <<Notice(h), h>>
      BY DEF ItemsOf
    <3> DEFINE n == Notice(h)
    <3>3. items' = Append(items, h) \/ items' = Append(Append(items, n), h)
      <4> DEFINE S == Records \cup {n}
      <4>1. items \in Seq(S) /\ h \in S /\ n \in S
        BY <2>2, SeqMonotonic
      <4> HIDE DEF n, S
      <4>2. items \o <<h>> = Append(items, h)
        BY <4>1, AppendIsConcat
      <4>3. items \o <<n, h>> = Append(Append(items, n), h)
        BY <4>1
      <4> QED BY <3>1, <3>2, <4>2, <4>3 DEF n
    <3>4. ASSUME InList(items, w, r) \/ Arrives(h, w, r) PROVE InList(items', w, r)
      <4> DEFINE S == Records \cup {n}
      <4>1. items \in Seq(S) /\ h \in S /\ n \in S
        BY <2>2, SeqMonotonic
      <4> HIDE DEF n, S
      <4>2. Append(items, n) \in Seq(S) /\ (InList(items, w, r) => InList(Append(items, n), w, r))
        BY <4>1, InAppended, AppendProperties
      <4>3. InList(Append(items, h), w, r)
        BY <3>4, <4>1, InAppended
      <4>4. InList(Append(Append(items, n), h), w, r)
        BY <3>4, <4>1, <4>2, InAppended
      <4> QED BY <3>3, <4>3, <4>4
    <3> QED BY <2>3, <3>1, <3>4
  <2> QED BY <1>2, <2>4, <2>5
<1> QED BY <1>1, <1>2

\* At its start a lesson can only be taught.
LEMMA TeachTaught ==
  ASSUME Inv, pc = "parse", index = 1, NEW w \in Words, NEW r \in Words, IsLesson(w, r), Next
  PROVE  InList(segments', w, r)
<1>1. TextType /\ text[1] = "teach" /\ 1 <= Len(text)
  <2>1. text[1] = "teach" /\ Behind(w, r) <= Len(text) /\ Stands(w, Len(w)) \in Nat /\ Stands(r, Len(r)) \in Nat
    BY LessonIs
  <2>2. TextType /\ Len(text) \in Nat
    BY SpotsAre DEF Inv
  <2> QED BY <2>1, <2>2 DEF Behind, Between
<1>2. /\ Teaches /\ Open = 2 /\ First(Equals(2)) = Between(w) /\ Close(2) = Behind(w, r)
      /\ Holds(Trim(Content(2, 3, Between(w) - 1)), w)
      /\ Holds(Trim(Content(2, Between(w) + 1, Behind(w, r) - 1)), r)
  BY <1>1, LessonRead
<1>3. Here("teach") /\ ~Here("forget") /\ ~Here("sound") /\ ~Here("left") /\ \A a \in Numeric : ~Here(a)
  BY <1>1 DEF Here, Numeric
<1>4. Teach
  <2>1. ~Forget /\ ~Play /\ ~SetNumber /\ ~SetPan
    BY <1>3 DEF Forget, Play, SetNumber, SetPan
  <2>2. ~Speak
    BY <1>2, <1>3 DEF Speak, Command
  <2>3. ~EndParse
    BY <1>1, SpotsAre DEF EndParse
  <2>4. ~SaySentence /\ ~ListCommand /\ ~EndList
    BY DEF SaySentence, Speaks, ListCommand, EndList
  <2> QED BY <2>1, <2>2, <2>3, <2>4 DEF Next
<1> DEFINE word == Trim(Content(2, 2 + 1, Between(w) - 1))
           reading == Trim(Content(2, Between(w) + 1, Behind(w, r) - 1))
           s == Segment("add_dict", {}, word, reading)
<1>5. segments' = Append(Flushed, s)
  BY <1>2, <1>4 DEF Teach
<1>6. 2 + 1 = 3
  OBVIOUS
<1>7. Holds(word, w) /\ Holds(reading, r)
  BY <1>2, <1>6
<1> HIDE DEF word, reading
<1>8. Arrives(s, w, r)
  BY <1>7 DEF Segment, Arrives
<1> QED BY <1>5, <1>8, InTurn

LEMMA TextKept == ASSUME [Next]_vars PROVE text' = text
BY DEF Next, Teach, Forget, Play, SetNumber, SetPan, Speak, EndParse, SaySentence, ListCommand, EndList, Changes, Starts, Lists, vars

LEMMA TaughtStep == ASSUME Inv, Taught, [Next]_vars PROVE Taught'
<1>1. ASSUME NEW w \in Words, NEW r \in Words, IsLesson(w, r)
      PROVE  (pc' = "parse" /\ index' = 1) \/ InList(segments', w, r) \/ InList(items', w, r)
  <2>1. (pc = "parse" /\ index = 1) \/ InList(segments, w, r) \/ InList(items, w, r)
    BY <1>1 DEF Taught
  <2>2. CASE UNCHANGED vars
    BY <2>1, <2>2 DEF vars
  <2>3. CASE Next
    <3>1. CASE pc = "parse" /\ index = 1
      BY <1>1, <2>3, <3>1, TeachTaught
    <3>2. CASE InList(segments, w, r) \/ InList(items, w, r)
      BY <2>3, <3>2, ParseTaught, ListTaught DEF Next
    <3> QED BY <2>1, <3>1, <3>2
  <2> QED BY <2>2, <2>3
<1>2. text' = text
  BY TextKept
<1>3. /\ \A w, r : IsLesson(w, r)' <=> IsLesson(w, r)
      /\ \A s, w, r : Arrives(s, w, r)' <=> Arrives(s, w, r)
  BY <1>2, HoldsStays
<1> QED BY <1>1, <1>3 DEF Taught, InList

\* A word and a reading arrive as they were written, whatever their letters are.
THEOREM LessonsArrive == Spec => []WordsArrive
<1>1. Init => Taught
  BY DEF Init, Start, Taught
<1>2. Inv /\ Taught /\ [Next]_vars => Taught'
  BY TaughtStep
<1>3. Inv /\ Taught => WordsArrive
  <2> SUFFICES ASSUME Inv, Taught, pc = "done", NEW w \in Words, NEW r \in Words, text = Lesson(w, r) \o Fixed
               PROVE  \E i \in DOMAIN items : Arrives(items[i], w, r)
    BY DEF WordsArrive, Arrives
  <2>1. InList(segments, w, r) \/ InList(items, w, r)
    BY DEF Taught, IsLesson
  <2>2. segments = <<>>
    BY DEF Inv, PlanInv, Shape
  <2> QED BY <2>1, <2>2 DEF InList
<1> QED BY <1>1, <1>2, <1>3, PlanInvariant, PTL DEF Spec

\* PlansAreFaithful: what becomes of a comment is what it says, once and in
\* its order, with the settings and the words that were written.
THEOREM PlanIsFaithful == Spec => []PlansAreFaithful
<1>1. Inv => TypeOK /\ OnceInOrder /\ NothingLost /\ SentencesEnd /\ SettingsHold
  BY TypeIs, OrderIs, LettersAre, SentencesAre, SettingsAre
<1>2. Inv /\ WordsArrive => PlansAreFaithful
  BY <1>1 DEF PlansAreFaithful
<1> QED BY <1>2, PlanInvariant, LessonsArrive, PTL

=============================================================================
