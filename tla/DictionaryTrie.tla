--------------------------- MODULE DictionaryTrie ---------------------------
(***************************************************************************)
(* The radix tree in which the replacement looks words up                  *)
(* (native/src/dictionary/trie.rs).  Commits and lessons give words a      *)
(* reading, another one or none; an edge is split when a word ends inside  *)
(* its label, and joined with the next one when that is the only one left. *)
(*                                                                         *)
(* A text is a sequence of characters; their bytes are left out.  The      *)
(* edges of a node are kept in the order of their first characters: here   *)
(* they are a function of it.  A reading is one character that no word     *)
(* holds.  Snapshots share nodes that are never changed: values, here.     *)
(***************************************************************************)
EXTENDS Naturals, Sequences, FiniteSets, SequencesExt

CONSTANTS
  Entries,    \* words that may be given a reading
  Sounds,     \* readings
  Letters,    \* characters of a text, and the longest text
  MaxText

TrieAssumption ==
  /\ Entries \subseteq Seq(Letters) \ {<<>>} /\ Sounds \cap Letters = {}
  /\ Letters \subseteq Nat /\ MaxText \in Nat

VARIABLES root, entries
vars == <<root, entries>>

None == 0
NoEdges == [c \in {} |-> 0]
Node(reading, edges) == [reading |-> reading, edges |-> edges]
Edge(label, child) == [label |-> label, child |-> child]
OneEdge(edge) == [c \in {edge.label[1]} |-> edge]
From(s, n) == SubSeq(s, n + 1, Len(s))

\* common_bytes
Common(a, b) == Len(LongestCommonPrefix({a, b}))

\* An edge whose label goes on behind the common part is cut there.
Split(edge, n) ==
  IF n = Len(edge.label) THEN edge
  ELSE Edge(SubSeq(edge.label, 1, n), Node(None, OneEdge(Edge(From(edge.label, n), edge.child))))

\* An edge whose child has no reading is dropped with a child that has no
\* edges, and takes over the only one.  Mutants: it is not joined; the label
\* of the edge below is left out, or put first.
OnlyEdge(node) == node.edges[CHOOSE c \in DOMAIN node.edges : TRUE]
NotJoined(edge) == edge
JoinedShort(edge) ==
  IF edge.child.reading = None /\ Cardinality(DOMAIN edge.child.edges) = 1
  THEN Edge(edge.label, OnlyEdge(edge.child).child) ELSE edge
JoinedSwapped(edge) ==
  IF edge.child.reading = None /\ Cardinality(DOMAIN edge.child.edges) = 1
  THEN Edge(OnlyEdge(edge.child).label \o edge.label, OnlyEdge(edge.child).child) ELSE edge
Joined(edge) ==
  IF edge.child.reading = None /\ Cardinality(DOMAIN edge.child.edges) = 1
  THEN Edge(edge.label \o OnlyEdge(edge.child).label, OnlyEdge(edge.child).child) ELSE edge
Put(edges, edge) ==
  LET first == edge.label[1]
      dead == edge.child.reading = None /\ DOMAIN edge.child.edges = {}
  IN  [c \in (DOMAIN edges \cup {first}) \ {d \in {first} : dead} |-> IF c = first THEN Joined(edge) ELSE edges[c]]

\* Node::update
RECURSIVE Update(_, _, _)
Update(node, word, reading) ==
  IF word = <<>> THEN [node EXCEPT !.reading = reading]
  ELSE IF word[1] \notin DOMAIN node.edges
  THEN IF reading = None THEN node
       ELSE [node EXCEPT !.edges = Put(@, Edge(word, Node(reading, NoEdges)))]
  ELSE LET edge == node.edges[word[1]]
           n == Common(word, edge.label)
           cut == Split(edge, n)
       IN  IF n < Len(edge.label) /\ reading = None THEN node
           ELSE [node EXCEPT !.edges = Put(@, [cut EXCEPT !.child = Update(@, From(word, n), reading)])]

\* Node::replace.  Match: how much of the text the longest word takes, and
\* its reading.
NoMatch == <<0, None>>
RECURSIVE Match(_, _, _, _)
Match(node, text, cursor, longest) ==
  LET rest == From(text, cursor)
      edge == node.edges[rest[1]]
      goesOn == rest # <<>> /\ rest[1] \in DOMAIN node.edges /\ IsPrefix(edge.label, rest)
      next == cursor + Len(edge.label)
  IN  IF ~goesOn THEN longest
      ELSE Match(edge.child, text, next,
                 IF edge.child.reading = None THEN longest ELSE <<next, edge.child.reading>>)

RECURSIVE Replace(_, _)
Replace(node, text) ==
  LET match == Match(node, text, 0, NoMatch)
  IN  IF text = <<>> THEN <<>>
      ELSE IF match = NoMatch THEN <<text[1]>> \o Replace(node, From(text, 1))
      ELSE <<match[2]>> \o Replace(node, From(text, match[1]))

-----------------------------------------------------------------------------
Init == root = Node(None, NoEdges) /\ entries = [w \in Entries |-> None]

Set(w, reading) == root' = Update(root, w, reading) /\ entries' = [entries EXCEPT ![w] = reading]

Next == \E w \in Entries, reading \in Sounds \cup {None} : Set(w, reading)

Spec == Init /\ [][Next]_vars

-----------------------------------------------------------------------------
\* Every edge is found under the first character of its label.
RECURSIVE IsNode(_)
IsNode(node) ==
  /\ node.reading \in Sounds \cup {None}
  /\ \A c \in DOMAIN node.edges :
       /\ node.edges[c].label \in Seq(Letters) \ {<<>>} /\ node.edges[c].label[1] = c
       /\ IsNode(node.edges[c].child)
TypeOK == entries \in [Entries -> Sounds \cup {None}] /\ IsNode(root)

\* What a replacement promises (docs/users/dictionary.md:15): at every place the
\* longest word that has a reading, and no replacement inside a reading.
RECURSIVE Read(_)
Read(text) ==
  LET words == {w \in Entries : entries[w] # None /\ IsPrefix(w, text)}
      longest == CHOOSE w \in words : \A v \in words : Len(v) <= Len(w)
  IN  IF text = <<>> THEN <<>>
      ELSE IF words = {} THEN <<text[1]>> \o Read(From(text, 1))
      ELSE <<entries[longest]>> \o Read(From(text, Len(longest)))

\* After any sequence of changes the tree replaces what the entries say.
Texts == UNION {[1 .. n -> Letters] : n \in 1 .. MaxText}
ReplacesLongest == \A text \in Texts : Replace(root, text) = Read(text)

\* It never grows beyond its entries: every node but the root has a reading
\* or a fork below it, so that forgotten words leave nothing behind.
RECURSIVE IsCompact(_)
IsCompact(node) ==
  /\ node.reading # None \/ Cardinality(DOMAIN node.edges) >= 2
  /\ \A c \in DOMAIN node.edges : IsCompact(node.edges[c].child)
Compact == \A c \in DOMAIN root.edges : IsCompact(root.edges[c].child)
=============================================================================
