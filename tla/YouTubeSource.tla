---------------------------- MODULE YouTubeSource ----------------------------
(***************************************************************************)
(* The YouTube source (integrations/youtube/source.py).  One thread finds  *)
(* the chat, reads a stream of responses, hands their comments on, and     *)
(* opens a new channel with the last page token when the stream ends or    *)
(* breaks.  close runs on another thread: it sets _stop, closes the        *)
(* channel it finds and joins the thread.                                  *)
(*                                                                         *)
(* The service holds messages 1, 2, ... in order; a page token is the      *)
(* number of the last message it covers.  A response brings the next       *)
(* messages, perhaps with a token, or says that the stream went offline; a *)
(* stream opened with a token goes on behind it, so that messages covered  *)
(* by no token come again.  The waiting times are left out.                *)
(***************************************************************************)
EXTENDS Integers, Sequences, FiniteSets

CONSTANTS
  Messages,   \* bound: number of messages in the chat
  Page,       \* bound: messages in one response
  Hidden,     \* messages whose type is not handed on
  Window,     \* identifiers remembered (10000)
  MaxOpens    \* bound: channels opened

SourceAssumption ==
  /\ Messages \in Nat /\ Page \in Nat /\ MaxOpens \in Nat
  /\ Window \in Nat \ {0} /\ Hidden \subseteq 1..Messages

VARIABLES
  at,        \* where the thread is
  leaving,   \* the finally of stream_chat runs for a return
  channel,   \* _channel: the number of the channel, or 0
  sent,      \* the last message the service sent on this stream
  token, first, order, items,  \* next_page_token, first_response, seen_order, response.items
  stop,      \* _stop
  closer, copy, shut,  \* close: where it is, the channel it read, the channels it closed
  connected, \* what on_connection said last
  opens,     \* channels opened so far
  recorded, published, answer, late, off  \* history, see below

local == <<token, first, order, items>>
caller == <<stop, closer, copy, shut>>
history == <<recorded, published, answer, late, off>>
vars == <<at, leaving, channel, sent, local, caller, connected, opens, history>>

(***************************************************************************)
(* recorded: identifiers in the order they were remembered.  published:    *)
(* the comments handed on.  answer: 0, 1 or "2 and more" responses read.   *)
(* late: comments handed on after _stop was set.  off: the stream went     *)
(* offline.                                                                *)
(***************************************************************************)
Init ==
  /\ at = "resolve" /\ leaving = FALSE /\ channel = 0 /\ sent = 0
  /\ token = 0 /\ first = TRUE /\ order = <<>> /\ items = <<>>
  /\ stop = FALSE /\ closer = "idle" /\ copy = 0 /\ shut = {}
  /\ connected = FALSE /\ opens = 0
  /\ recorded = <<>> /\ published = <<>> /\ answer = 0 /\ late = 0
  /\ off = FALSE

Go(from, to) == at = from /\ at' = to

\* Leaving stream_chat, or going round its loop again, through the finally.
Return == at' = "finally" /\ leaving' = TRUE
Again == at' = "finally" /\ leaving' = FALSE

-----------------------------------------------------------------------------
(***************************************************************************)
(* The thread of the source.                                               *)
(***************************************************************************)
Resolve ==
  /\ at = "resolve" /\ at' \in {"top", "end"}
  /\ UNCHANGED <<leaving, channel, sent, local, caller, connected, opens, history>>

Top ==
  /\ at = "top" /\ at' = IF stop THEN "end" ELSE "open"
  /\ UNCHANGED <<leaving, channel, sent, local, caller, connected, opens, history>>

\* What a new channel starts from.  Mutant: the first response of a channel
\* counts as history again.
RedoHistory == first' = TRUE /\ UNCHANGED <<token, order, items>>
Keep == UNCHANGED local

Open ==
  /\ Go("open", "stream") /\ opens < MaxOpens
  /\ opens' = opens + 1 /\ channel' = opens + 1 /\ sent' = token
  /\ Keep
  /\ UNCHANGED <<leaving, caller, connected, history>>

Answer(upto, marked) ==
  /\ Go("stream", "items") /\ ~stop
  /\ connected' = TRUE /\ sent' = upto
  /\ token' = IF marked THEN upto ELSE token
  /\ items' = [i \in 1..(upto - sent) |-> sent + i]
  /\ answer' = IF answer < 2 THEN answer + 1 ELSE 2
  /\ UNCHANGED <<leaving, channel, first, order, caller, opens, recorded, published, late, off>>

\* The response that says the stream is offline; its messages are not read.
Offline(marked) ==
  /\ at = "stream" /\ ~stop /\ Return /\ connected' = TRUE /\ off' = TRUE
  /\ token' = IF marked THEN sent ELSE token
  /\ UNCHANGED <<channel, sent, first, order, items, caller, opens,
                 recorded, published, answer, late>>

StopAtResponse ==
  /\ at = "stream" /\ stop /\ Return
  /\ UNCHANGED <<channel, sent, local, caller, connected, opens, history>>

\* The test of _stop before an item.  Mutant: it is only tested per response.
NoTest == at' = "emit" /\ UNCHANGED leaving
TestStop == IF stop THEN Return ELSE at' = "emit" /\ UNCHANGED leaving

NextItem ==
  /\ at = "items" /\ items # <<>> /\ TestStop
  /\ UNCHANGED <<channel, sent, local, caller, connected, opens, history>>

\* seen_ids holds the identifiers of seen_order.
Seen(m) == m \in {order[i] : i \in 1..Len(order)}

\* Remembering m.  Mutants: the limit is one too small; it is not applied.
RememberAll(m) == order' = Append(order, m)
RememberLess(m) == LET all == Append(order, m) IN
  order' = IF Len(all) >= Window THEN Tail(all) ELSE all
Remember(m) == LET all == Append(order, m) IN
  order' = IF Len(all) > Window THEN Tail(all) ELSE all

\* What is left of the response after its first message.  Mutant: a message
\* that is not handed on ends the response.
SkipRest == IF Head(items) \in Hidden THEN <<>> ELSE Tail(items)
Rest == Tail(items)

HandOn(m) ==
  /\ published' = Append(published, [id |-> m, history |-> first, answer |-> answer])
  /\ late' = IF stop THEN late + 1 ELSE late

Item == LET m == Head(items) IN
  /\ Go("emit", "items") /\ items' = Rest
  /\ IF Seen(m) THEN UNCHANGED <<order, recorded>>
                ELSE Remember(m) /\ recorded' = Append(recorded, m)
  /\ IF Seen(m) \/ m \in Hidden THEN UNCHANGED <<published, late>> ELSE HandOn(m)
  /\ UNCHANGED <<leaving, channel, sent, token, first, caller, connected, opens, answer, off>>

EndOfResponse ==
  /\ Go("items", "stream") /\ items = <<>> /\ first' = FALSE
  /\ UNCHANGED <<leaving, channel, sent, token, order, items, caller, connected, opens, history>>

\* The stream ends by itself, while another channel may still be opened, or
\* because its channel was closed.
MayEnd == at = "stream" /\ (opens < MaxOpens \/ channel \in shut)

Exhausted ==
  /\ MayEnd /\ Again
  /\ UNCHANGED <<channel, sent, local, caller, connected, opens, history>>

\* What an error of the stream leads to.  Mutant: it ends the source.
GiveUp == Return
AfterError == IF stop THEN Return ELSE at' = "wait" /\ UNCHANGED leaving

Broken ==
  /\ MayEnd /\ AfterError
  /\ UNCHANGED <<channel, sent, local, caller, connected, opens, history>>

Waited ==
  /\ at = "wait" /\ Again
  /\ UNCHANGED <<channel, sent, local, caller, connected, opens, history>>

\* The finally.  Mutant: it does not report the end of the connection.
Silent == UNCHANGED connected
Report == connected' = FALSE

Finally ==
  /\ at = "finally" /\ at' = IF leaving THEN "end" ELSE "top"
  /\ Report /\ channel' = 0
  /\ UNCHANGED <<leaving, sent, local, caller, opens, history>>

OnClosed ==
  /\ Go("end", "gone")
  /\ UNCHANGED <<leaving, channel, sent, local, caller, connected, opens, history>>

-----------------------------------------------------------------------------
(***************************************************************************)
(* close.                                                                  *)
(***************************************************************************)
SetStop ==
  /\ closer = "idle" /\ closer' = "copy" /\ stop' = TRUE
  /\ UNCHANGED <<at, leaving, channel, sent, local, copy, shut, connected, opens, history>>

CopyChannel ==
  /\ closer = "copy" /\ copy' = channel
  /\ closer' = IF channel = 0 THEN "join" ELSE "shut"
  /\ UNCHANGED <<at, leaving, channel, sent, local, stop, shut, connected, opens, history>>

\* Closing the channel that was read.  Mutant: only the thread is waited for.
LeaveOpen == UNCHANGED shut
CloseCopy == shut' = shut \union {copy}

ShutChannel ==
  /\ closer = "shut" /\ closer' = "join" /\ CloseCopy
  /\ UNCHANGED <<at, leaving, channel, sent, local, stop, copy, connected, opens, history>>

Join ==
  /\ closer = "join" /\ at = "gone" /\ closer' = "done"
  /\ UNCHANGED <<at, leaving, channel, sent, local, stop, copy, shut, connected, opens, history>>

-----------------------------------------------------------------------------
\* The steps the thread takes on its own, with an end of the stream that a
\* closed channel forces; responses and other failures come from outside.
Cut == channel \in shut /\ (Broken \/ Exhausted \/ StopAtResponse)
Own == \/ Resolve \/ Top \/ Open \/ NextItem \/ Item \/ EndOfResponse
       \/ Waited \/ Finally \/ OnClosed

Service ==
  \/ \E upto \in sent..Messages, marked \in BOOLEAN :
       upto <= sent + Page /\ Answer(upto, marked)
  \/ \E marked \in BOOLEAN : Offline(marked)
  \/ StopAtResponse \/ Exhausted \/ Broken

Close == SetStop \/ CopyChannel \/ ShutChannel \/ Join

Next == Own \/ Service \/ Close

Spec == Init /\ [][Next]_vars

\* The threads run.  The service owes nothing: a chat may stay silent.
FairSpec == Spec /\ WF_vars(Own) /\ WF_vars(Cut) /\ WF_vars(CopyChannel \/ ShutChannel \/ Join)

-----------------------------------------------------------------------------
Places == {"resolve", "top", "open", "stream", "items", "emit", "wait", "finally", "end", "gone"}

\* The variables have their types, and no more identifiers are remembered
\* than the limit.
TypeOK ==
  /\ at \in Places /\ leaving \in BOOLEAN
  /\ channel \in 0..MaxOpens /\ sent \in 0..Messages /\ token \in 0..Messages
  /\ first \in BOOLEAN /\ order \in Seq(1..Messages) /\ Len(order) <= Window
  /\ items \in Seq(1..Messages)
  /\ stop \in BOOLEAN /\ closer \in {"idle", "copy", "shut", "join", "done"}
  /\ copy \in 0..MaxOpens /\ shut \subseteq 1..MaxOpens /\ connected \in BOOLEAN

\* However often the stream repeats a message, it is handed on again only
\* after more than Window other identifiers came in between (source.py:120-125).
NoRepeat == \A i, j \in 1..Len(recorded) :
  i < j /\ recorded[i] = recorded[j] => j - i > Window

\* Every message the page token covers was handed on before the next response
\* is read, so that a reconnect with that token loses nothing (source.py:99-116).
NothingLost == at \in {"stream", "wait", "top", "open"} =>
  \A m \in (1..token) \ Hidden : \E i \in 1..Len(published) : published[i].id = m

\* History is what the very first response brought, whatever was reconnected
\* since (source.py:79, 135, 140).
HistoryIsFirst == \A i \in 1..Len(published) :
  published[i].history <=> published[i].answer = 1

\* Between two channels and after the end the connection is reported closed
\* (source.py:159-166).
DownIsReported == at \in {"top", "open", "end", "gone"} => connected = FALSE /\ channel = 0

\* After close has set _stop at most one more comment is handed on
\* (source.py:117-118).
AtMostOneLate == late <= 1

\* A close that found a channel returns, even if the chat stays silent
\* (source.py:45-49).
FoundIsClosed == (closer = "shut") ~> (closer = "done")

\* A stream that ended or broke is opened again, unless it went offline or
\* the source is closed (source.py:142-158).
Reconnects == (at \in {"wait", "finally"} /\ ~off) ~> (at = "stream" \/ stop)

\* What the documentation promises: every close returns
\* (docs/source/architecture.md:70-72, source.py:43-49).
CloseReturns == stop ~> (closer = "done")
=============================================================================
