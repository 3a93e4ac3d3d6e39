---------------------------- MODULE MCDesktopLive ----------------------------
(***************************************************************************)
(* The desktop with the dictionary page of the settings dialog beside the  *)
(* rest, for what must happen in the end.  The page has two groups with a  *)
(* row each.                                                               *)
(***************************************************************************)
EXTENDS MCDesktop

CONSTANTS CacheBlocks, Actions, MaxActs, MaxTaught, MaxDialogs  \* see DictionaryEditor

VARIABLES dictionary, jobs, results, table, boxes, acts, cells

pageVars == <<dictionary, jobs, results, table, boxes, acts, cells>>

Page == INSTANCE DictionaryEditor WITH
  Homes <- <<1, 2>>, store <- dictionary, queue <- jobs, done <- results,
  ui <- table, alerts <- boxes, count <- acts, typed <- cells

LiveInit == Starts(Parts \cup {"page"}) /\ Page!EditorInit

LiveNext ==
  \/ DesktopNext /\ UNCHANGED pageVars
  \/ /\ part = "page" /\ Page!EditorNext
     /\ UNCHANGED <<part, vars, popoutVars, fileVars, monitorVars, feedVars, avatarVars>>

LiveSpec ==
  /\ LiveInit
  /\ [][LiveNext]_<<part, vars, popoutVars, fileVars, monitorVars, feedVars, avatarVars, pageVars>>
  /\ FairParts
  /\ WF_pageVars(part = "page" /\ Page!Work) /\ WF_pageVars(part = "page" /\ Page!Deliver)
  /\ WF_pageVars(part = "page" /\ Page!Dismiss) /\ WF_pageVars(part = "page" /\ Page!Outcome)
  /\ WF_pageVars(part = "page" /\ Page!Paint(0))

-----------------------------------------------------------------------------
\* Saves are answered, the program starts after a crash, what is visible is
\* measured and displayed, the monitor ends, comments are shown and pictures
\* arrive, and the dictionary page answers.
DesktopGetsOn == PartsGetOn /\ (part = "page" => Page!DialogAnswers)
=============================================================================
