------------------------------ MODULE TextPlan ------------------------------
(***************************************************************************)
(* From a comment to its plan: plan_comment (core/chat/planning.py) cuts   *)
(* the message and joins the blocks, parse_segments (native/src/text.rs)   *)
(* finds the commands, and parse (integrations/native/text.py) splits      *)
(* sentences and lists the items.                                          *)
(*                                                                         *)
(* A character that means something is a token, and a segment holds the    *)
(* places of its characters instead of copies, so that two equal letters   *)
(* can be told apart; the characters are pushed as they are read, so what  *)
(* is said stands in the order of its places.  A setting of the voice is   *)
(* the place of the command that made it.  Entities, addresses and runs of *)
(* blanks, which are replaced before, and the wording of notices are left  *)
(* out.                                                                    *)
(***************************************************************************)
EXTENDS Integers, Sequences, FiniteSets, SequencesExt

CONSTANTS
  Messages,   \* bodies of comments
  Authors,    \* names of who sends them
  Fixed,      \* the text of a block
  Words,      \* words and readings of lessons
  Limits,     \* longest messages; NoLimit is -1
  NoLimit,
  MaxDigits   \* digits of a number that is still one (64 bits)

ASSUME PlanAssumption ==
  /\ MaxDigits \in Nat \ {0} /\ \A limit \in Limits : limit = NoLimit \/ limit \in Nat
  /\ \A said \in Messages \cup Authors \cup Words \cup {Fixed} : said \in Seq(STRING)
  /\ \A w \in Words : w = <<>> \/ " " \notin {w[1], w[Len(w)]}

VARIABLES
  pc, text,
  index, accumulated, states,   \* locals of parse_segments
  segments, items

vars == <<pc, text, index, accumulated, states, segments, items>>

Numeric == {"speed", "voice"}
Attributes == Numeric \cup {"panning"}
Untouched == [a \in Attributes |-> 0]

-----------------------------------------------------------------------------
(***************************************************************************)
(* plan_comment.                                                           *)
(***************************************************************************)
Cut(message, limit) ==
  IF limit = NoLimit \/ Len(message) <= limit THEN message
  ELSE SubSeq(message, 1, limit) \o <<"etc">>

Start ==
  /\ pc = "parse" /\ index = 1 /\ accumulated = {} /\ states = Untouched
  /\ segments = <<>> /\ items = <<>>
Init ==
  /\ Start
  /\ \E message \in Messages, author \in Authors, limit \in Limits :
       text = author \o Cut(message, limit) \o Fixed

-----------------------------------------------------------------------------
(***************************************************************************)
(* escaped_content and escaped_pair, for a parenthesis that opens at o.    *)
(***************************************************************************)
First(S) == CHOOSE k \in S : \A j \in S : k <= j

\* A character is escaped behind an odd number of backslashes.
AfterBackslash(o, k) == k - 1 > o /\ text[k - 1] = "\\"
Escaped(o, k) ==
  LET plain == {j \in o .. k - 1 : j = o \/ text[j] # "\\"}
      last == CHOOSE j \in plain : \A i \in plain : i <= j
  IN  (k - 1 - last) % 2 = 1

Unescaped(o, c) == {k \in o + 1 .. Len(text) : text[k] = c /\ ~Escaped(o, k)}
Closes(o) == Unescaped(o, ")") # {}
Close(o) == First(Unescaped(o, ")"))

AnyEqual(o) == {k \in o + 1 .. Close(o) - 1 : text[k] = "="}
Equals(o) == {k \in Unescaped(o, "=") : k < Close(o)}

\* What is between two places, without the backslashes that escape.
Content(o, a, b) == {k \in a .. b : text[k] # "\\" \/ Escaped(o, k)}

Blank(k) == text[k] = " "
Trim(S) ==
  LET words == {k \in S : ~Blank(k)}
  IN  {k \in S : (\E j \in words : j <= k) /\ (\E j \in words : k <= j)}

-----------------------------------------------------------------------------
(***************************************************************************)
(* parse_segments: one step is one turn of its loop.                       *)
(***************************************************************************)
Segment(action, said, word, reading) ==
  [action |-> action, text |-> said, word |-> word, reading |-> reading, states |-> states]

Said(places) == Segment("speak", places, {}, {})
ClearedNever == accumulated
Cleared == {}
FlushedNever == segments
Flushed == IF Trim(accumulated) = {} THEN segments ELSE Append(segments, Said(Trim(accumulated)))

Here(token) == pc = "parse" /\ index <= Len(text) /\ text[index] = token
Starts == UNCHANGED <<pc, text, items>>

\* Both look for the parenthesis anywhere behind the word.
Opens == {k \in index .. Len(text) : text[k] = "("}
Open == First(Opens)

Teaches == Opens # {} /\ Closes(Open) /\ Equals(Open) # {}
Teach ==
  /\ Here("teach") /\ Teaches
  /\ LET equals == First(Equals(Open))
     IN  segments' = Append(Flushed, Segment("add_dict", {},
           Trim(Content(Open, Open + 1, equals - 1)), Trim(Content(Open, equals + 1, Close(Open) - 1))))
  /\ index' = Close(Open) + 1 /\ accumulated' = Cleared /\ UNCHANGED states /\ Starts

Forgets == Opens # {} /\ Closes(Open)
Forget ==
  /\ Here("forget") /\ Forgets
  /\ segments' = Append(Flushed, Segment("del_dict", {}, Trim(Content(Open, Open + 1, Close(Open) - 1)), {}))
  /\ index' = Close(Open) + 1 /\ accumulated' = Cleared /\ UNCHANGED states /\ Starts

OpensAt(k) == k <= Len(text) /\ text[k] = "("
Plays == OpensAt(index + 1) /\ Closes(index + 1)
Play ==
  /\ Here("sound") /\ Plays
  /\ LET o == index + 1
     IN  /\ segments' = Append(Flushed, Segment("sound", {}, Trim(Content(o, o + 1, Close(o) - 1)), {}))
         /\ index' = Close(o) + 1
  /\ accumulated' = Cleared /\ UNCHANGED states /\ Starts

\* numeric_command: digits, and not too many, to the first parenthesis.
Closing == {k \in index + 2 .. Len(text) : text[k] = ")"}
Number ==
  /\ OpensAt(index + 1) /\ Closing # {} /\ First(Closing) - (index + 2) \in 1 .. MaxDigits
  /\ \A k \in index + 2 .. First(Closing) - 1 : text[k] = "1"

\* What was read so far is spoken as before.
ChangesAll(attribute) ==
  UNCHANGED <<segments, accumulated>> /\ states' = [states EXCEPT ![attribute] = index] /\ Starts
Changes(attribute) ==
  /\ segments' = Flushed /\ accumulated' = Cleared
  /\ states' = [states EXCEPT ![attribute] = index] /\ Starts

SetNumber == \E a \in Numeric :
  Here(a) /\ Number /\ index' = First(Closing) + 1 /\ Changes(a)
\* A side is followed by a parenthesis that closes.
Turns == index < Len(text) /\ text[index + 1] = ")"
SetPan == Here("left") /\ Turns /\ index' = index + 2 /\ Changes("panning")

\* Whatever is no command is text.
Command ==
  \/ Here("teach") /\ Teaches
  \/ Here("forget") /\ Forgets
  \/ Here("sound") /\ Plays
  \/ Here("left") /\ Turns
  \/ \E a \in Numeric : Here(a) /\ Number
Speak ==
  /\ pc = "parse" /\ index <= Len(text) /\ ~Command
  /\ accumulated' = accumulated \cup {index} /\ index' = index + 1
  /\ UNCHANGED <<states, segments>> /\ Starts

EndParse ==
  /\ pc = "parse" /\ index > Len(text) /\ pc' = "list"
  /\ segments' = Flushed /\ accumulated' = Cleared
  /\ UNCHANGED <<text, index, states, items>>

-----------------------------------------------------------------------------
(***************************************************************************)
(* The items of the plan: one step is one sentence (split_sentences), or   *)
(* one segment that is a command.  Before a command of the dictionary its  *)
(* notice is spoken.                                                       *)
(***************************************************************************)
Stops(S) == {k \in S : text[k] = "."}
SentenceWhole(S) == S
Sentence(S) == IF Stops(S) = {} THEN S ELSE {k \in S : k <= First(Stops(S))}

Utterance(segment, part) == [segment EXCEPT !.text = part]
Notice(segment) == [segment EXCEPT !.action = "notice"]
ItemsOf(segment) == IF segment.action = "sound" THEN <<segment>> ELSE <<Notice(segment), segment>>

Speaks == pc = "list" /\ segments # <<>> /\ Head(segments).action = "speak"
Lists == UNCHANGED <<pc, text, index, accumulated, states>>
SaySentence ==
  /\ Speaks
  /\ LET said == Head(segments).text
         part == Sentence(said)
     IN  /\ items' = IF Trim(part) = {} THEN items ELSE Append(items, Utterance(Head(segments), Trim(part)))
         /\ segments' = IF part = said THEN Tail(segments) ELSE [segments EXCEPT ![1].text = said \ part]
  /\ Lists
ListCommand ==
  /\ pc = "list" /\ segments # <<>> /\ Head(segments).action # "speak"
  /\ items' = items \o ItemsOf(Head(segments)) /\ segments' = Tail(segments)
  /\ Lists
EndList ==
  /\ pc = "list" /\ segments = <<>> /\ pc' = "done"
  /\ UNCHANGED <<text, index, accumulated, states, segments, items>>

Next ==
  \/ Teach \/ Forget \/ Play \/ SetNumber \/ SetPan \/ Speak \/ EndParse
  \/ SaySentence \/ ListCommand \/ EndList

Spec == Init /\ [][Next]_vars

-----------------------------------------------------------------------------
TypeOK ==
  /\ pc \in {"parse", "list", "done"} /\ index \in 1 .. Len(text) + 1
  /\ accumulated \subseteq 1 .. Len(text) /\ states \in [Attributes -> 0 .. Len(text)]
  /\ \A s \in Range(segments) \cup Range(items) :
       /\ s.action \in {"speak", "notice", "sound", "add_dict", "del_dict"}
       /\ s.text \cup s.word \cup s.reading \subseteq 1 .. Len(text)

PlacesOf(item) == IF item.action = "notice" THEN {} ELSE item.text \cup item.word \cup item.reading
Listed == UNION {PlacesOf(items[i]) : i \in DOMAIN items}
Utterances == {s \in Range(items) : s.action = "speak"}

\* The items follow the order of the comment, and nothing is used twice.
Ahead(S, T) == \A k \in S, m \in T : k < m
OnceInOrder == \A i \in DOMAIN items :
  /\ Ahead(items[i].word, items[i].reading)
  /\ \A j \in DOMAIN items : i < j => Ahead(PlacesOf(items[i]), PlacesOf(items[j]))

\* What is between the word for a command and its parenthesis is passed over.
PassedOver(k) == \E i \in 1 .. k - 1, j \in k + 1 .. Len(text) :
  text[i] \in {"teach", "forget"} /\ text[j] = "(" /\ \A h \in i .. k : text[h] # "("

\* No letter is lost, however commands are opened, escaped, cut off by the
\* limit or left unfinished: it is spoken or belongs to a command.
NothingLost == pc = "done" =>
  \A k \in DOMAIN text : text[k] = "a" => k \in Listed \/ PassedOver(k)

\* A sentence ends behind a full stop, and only there.
SentencesEnd == \A s \in Utterances : \A k \in Stops(s.text), j \in s.text : j <= k

\* docs/users/speech.md:27: a setting holds for what follows it, up to the
\* next one.  What is written inside another command sets nothing.
Digits(k, n) == \A d \in 1 .. n : text[k + d] = "1"
Sets(a, k) ==
  IF a = "panning" THEN text[k] = "left" /\ k < Len(text) /\ text[k + 1] = ")"
  ELSE /\ text[k] = a
       /\ \E n \in 1 .. MaxDigits :
            k + n + 2 <= Len(text) /\ text[k + 1] = "(" /\ Digits(k + 1, n) /\ text[k + n + 2] = ")"
SettingsHold == \A s \in Utterances, a \in Attributes :
  /\ s.states[a] # 0 => Sets(a, s.states[a]) /\ \A k \in s.text : s.states[a] < k
  /\ \A k \in s.states[a] + 1 .. First(s.text) - 1 : Sets(a, k) => k \in Listed \/ PassedOver(k)

\* docs/users/speech.md:54-56: whatever its letters, a word and a reading that
\* are written with backslashes arrive as they are.
Special == {"=", ")", "\\"}
\* Where letter i of a word is written.
Stands(w, i) == i + Cardinality({j \in 1 .. i : w[j] \in Special})
Escaping(w) == [p \in 1 .. Stands(w, Len(w)) |->
  IF \E i \in DOMAIN w : Stands(w, i) = p THEN w[CHOOSE i \in DOMAIN w : Stands(w, i) = p] ELSE "\\"]
Lesson(w, r) == <<"teach", "(">> \o Escaping(w) \o <<"=">> \o Escaping(r) \o <<")">>
Holds(S, w) == \E place \in [DOMAIN w -> S] :
  /\ S = Range(place)
  /\ \A i, j \in DOMAIN w : i < j => place[i] < place[j]
  /\ \A i \in DOMAIN w : text[place[i]] = w[i]
WordsArrive == pc = "done" => \A w, r \in Words :
  text = Lesson(w, r) \o Fixed =>
    \E i \in DOMAIN items : items[i].action = "add_dict" /\ Holds(items[i].word, w) /\ Holds(items[i].reading, r)

\* A plan holds what the comment says, once and in its order, with the
\* settings and the words that were written.
PlansAreFaithful ==
  TypeOK /\ OnceInOrder /\ NothingLost /\ SentencesEnd /\ SettingsHold /\ WordsArrive

\* docs/users/speech.md:30: what is not recognised remains as text.  The word
\* for a command of the dictionary reaches for a parenthesis anywhere behind it.
UnknownIsSpoken == pc = "done" => \A k \in DOMAIN text : text[k] = "a" => k \in Listed
=============================================================================
