------------------------------ MODULE SpeechLane ------------------------------
(***************************************************************************)
(* What a speech pipeline promises (docs/users/speech.md): accepted items  *)
(* go on the air one at a time in the order they were accepted; an item    *)
(* may drop out (blank text, a dictionary command, an error, a cancel) but *)
(* never comes back; after closing nothing new is accepted and nothing     *)
(* that was waiting is played.                                             *)
(***************************************************************************)
EXTENDS Integers

CONSTANT MaxItems   \* bound: serial numbers of items

VARIABLES
  backlog,   \* numbers of accepted items that may still be played
  onair,     \* number of the item being played, or 0
  offered,   \* the last serial number offered
  open

lane == <<backlog, onair, offered, open>>

Init == backlog = {} /\ onair = 0 /\ offered = 0 /\ open = TRUE

\* A comment's items are offered together, and accepted or refused together.
Offer(n) ==
  /\ open /\ n > offered
  /\ backlog' \in {backlog, backlog \cup (offered + 1 .. n)}
  /\ offered' = n
  /\ UNCHANGED <<onair, open>>

Begin(n) ==
  /\ open /\ onair = 0
  /\ n \in backlog /\ \A m \in backlog : n <= m
  /\ onair' = n /\ backlog' = backlog \ {n}
  /\ UNCHANGED <<offered, open>>

End == onair # 0 /\ onair' = 0 /\ UNCHANGED <<backlog, offered, open>>

Drop(S) ==
  /\ S # {} /\ backlog' = backlog \ S
  /\ UNCHANGED <<onair, offered, open>>

Close == open /\ open' = FALSE /\ UNCHANGED <<backlog, onair, offered>>

Next ==
  \/ \E n \in 1..MaxItems : Offer(n) \/ Begin(n)
  \/ \E S \in SUBSET backlog : Drop(S)
  \/ End \/ Close

Spec == Init /\ [][Next]_lane

\* A closed lane falls silent and forgets what was waiting.
FairSpec == Spec /\ WF_lane(End) /\ WF_lane(~open /\ Drop(backlog))
=============================================================================
