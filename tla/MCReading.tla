------------------------------ MODULE MCReading ------------------------------
(***************************************************************************)
(* How words come to be read: the page on which the dictionary is edited,  *)
(* the tree of words that replaces them, and the plan that is made of a    *)
(* comment.  They share no variable; part names the one that runs, while   *)
(* the others stay as they start.                                          *)
(*                                                                         *)
(* The page has two groups with a row each.  Appending, editing and        *)
(* deleting shift the rows of a group, selecting the other group drops the *)
(* pages under way, and a lesson makes an edit or a commit fail.           *)
(***************************************************************************)
EXTENDS DictionaryEditor, TextPlan

CONSTANTS
  Parts,                             \* which of them run
  Entries, Sounds, Letters, MaxText  \* see DictionaryTrie

VARIABLES
  part,
  root, entries

treeVars == <<root, entries>>

Tree == INSTANCE DictionaryTrie

ASSUME ReadingAssumption == Parts \subseteq {"page", "tree", "plan"} /\ Tree!TrieAssumption

OneRowEach == <<1, 2>>

\* Words that are prefixes of each other and part ways, so that edges are
\* split and joined; the runs have a letter more that is in no word.
SixWords == {<<1>>, <<2>>, <<1, 1>>, <<1, 2>>, <<1, 2, 1>>, <<1, 2, 2>>}

\* Every message of up to three pieces that open, fill, escape or close a
\* command, behind a name that may begin one and before a block that closes
\* it; and every lesson with a word and a reading of up to two letters.
Pieces == {
  <<"a">>, <<" ">>, <<".", "a">>, <<"teach">>, <<"forget">>, <<"sound">>, <<"left">>,
  <<"speed", "(", "1", ")">>, <<"speed", "(", "1", "1", ")">>,
  <<"(", "a">>, <<"=", "a">>, <<"\\", ")">>, <<")">>}
TwoLetters == BoundedSeq({"a", "=", ")", "\\"}, 2)
ThreePieces ==
  {FlattenSeq(s) : s \in BoundedSeq(Pieces, 3)} \cup {Lesson(w, r) : w, r \in TwoLetters}
NobodyOrTeach == {<<>>, <<"teach">>}
ClosingBlock == <<")", "a">>

\* Any plan that is not made is the empty one.
Unplanned == Start /\ text = <<>>

ReadingInit ==
  /\ part \in Parts
  /\ EditorInit /\ Tree!Init
  /\ IF part = "plan" THEN Init ELSE Unplanned

ReadingNext ==
  /\ UNCHANGED part
  /\ \/ part = "page" /\ EditorNext /\ UNCHANGED <<treeVars, vars>>
     \/ part = "tree" /\ Tree!Next /\ UNCHANGED <<editorVars, vars>>
     \/ part = "plan" /\ Next /\ UNCHANGED <<editorVars, treeVars>>

ReadingSpec == ReadingInit /\ [][ReadingNext]_<<part, editorVars, treeVars, vars>>

-----------------------------------------------------------------------------
\* The tree has its type; it replaces the longest known word everywhere, and
\* leaves no node behind when a word is taken out.
TreeIsFaithful == part = "tree" => Tree!TypeOK /\ Tree!ReplacesLongest /\ Tree!Compact
=============================================================================
