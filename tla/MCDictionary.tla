---------------------------- MODULE MCDictionary ----------------------------
(***************************************************************************)
(* The reading dictionary for TLC: two words, so that a row can be given   *)
(* another one, and drafts that touch two things, with a revision before   *)
(* and one after.  A draft is left alone at the last revision, where the   *)
(* bound keeps it from being committed.  Words and readings are model      *)
(* values; nothing but equality is asked of them, so they may be permuted. *)
(***************************************************************************)
EXTENDS Dictionary, TLC

\* The rest of a history whose draft cannot be committed says nothing more.
CanBeCommitted == latest.revision < MaxRevision

BoundedNext == Next /\ (draft' /\ edits' # edits => CanBeCommitted)
BoundedSpec == Init /\ [][BoundedNext]_vars

Symmetry == Permutations(Words) \cup Permutations(Readings)

\* Whatever is shown, taught and renamed, a commit is faithful to it.
CommitsAreFaithful == [][Faithful]_vars
=============================================================================
