---------------------- MODULE SpeechPipelineRefinement ----------------------
(***************************************************************************)
(* A speech pipeline implements the speech lane.  An item is waiting while *)
(* a live thread may still take it: in _input, in the plan synthesis works *)
(* on, in _output, or just taken by playback.                              *)
(***************************************************************************)
EXTENDS SpeechPipeline

Numbers(s) == {s[i].no : i \in DOMAIN s}
PlanNumbers(queue) == UNION {Numbers(queue[i]) : i \in DOMAIN queue}

Waiting ==
  IF ppc = "done" THEN {}
  ELSE PlanNumbers(input) \cup Numbers(work) \cup Numbers(output)
       \cup (IF ppc = "recheck" THEN {playing.no} ELSE {})

Lane == INSTANCE SpeechLane WITH
  backlog  <- Waiting,
  onair    <- IF ppc = "onair" THEN playing.no ELSE 0,
  offered  <- issued - Len(offer),
  open     <- ~cancelled

\* The pipeline plays accepted items in order and one at a time; cancelled,
\* it falls silent and forgets what was waiting.
LaneDrains == Lane!FairSpec
=============================================================================
