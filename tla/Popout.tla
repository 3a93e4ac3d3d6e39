------------------------------- MODULE Popout --------------------------------
(***************************************************************************)
(* The presentation of the comments and the separate comment window        *)
(* (desktop/comments/window.py, desktop/settings/presentation.py,          *)
(* desktop/shell/presenter.py).  Three copies of one record are written as *)
(* a whole: the settings that are saved, the copy of the window, which is  *)
(* also what the preview of the settings dialog writes, and the copy of    *)
(* the dialog.  The control thread saves, and each save is echoed to the   *)
(* window.                                                                 *)
(*                                                                         *)
(* A field has the number of the user's step that gave it its value.  One  *)
(* colour stands for what only the dialog edits, one opacity for what the  *)
(* wheel changes.  A dialog that is confirmed is closed at once, and       *)
(* saving does not fail: see SettingsDraft for both.                       *)
(***************************************************************************)
EXTENDS Naturals, Sequences, FiniteSets

CONSTANTS
  MaxSteps,   \* bound: what the user does
  Waits,      \* the user waits for every save
  Apart       \* and leaves the window alone while the dialog is open

PopoutAssumption == MaxSteps \in Nat /\ {Waits, Apart} \subseteq BOOLEAN

Fields == {"opacity", "color", "size", "position", "ratio", "detached"}
Default == [f \in Fields |-> 0]

VARIABLES
  saved,      \* SettingsService.current.presentation
  commands, news,  \* the queues of the control thread and of the GUI thread
  created, window, visible,  \* CommentWindow and its copy
  geometry,   \* where the window is and how large
  timer,      \* _splitter_save_timer
  dialog,     \* the settings dialog: open, and its copy
  closed,     \* the program has ended
  steps,      \* what the user has done so far
  given, confirmed  \* history: the last value the user gave a field, and the
                    \* colours of the dialogs that were confirmed

popout == <<created, window, visible, geometry, timer>>
vars == <<saved, commands, news, popout, dialog, closed, steps, given, confirmed>>

NoDialog == [open |-> FALSE, copy |-> Default]

Init ==
  /\ saved = Default /\ commands = <<>> /\ news = <<>>
  /\ created = FALSE /\ window = Default /\ visible = FALSE
  /\ geometry = [f \in {"size", "position"} |-> 0] /\ timer = FALSE
  /\ dialog = NoDialog /\ closed = FALSE /\ steps = 0
  /\ given = Default /\ confirmed = {0}

\* Nothing is under way that would write one of the copies.
Settled == commands = <<>> /\ news = <<>> /\ ~timer

Acts == ~closed /\ steps < MaxSteps /\ steps' = steps + 1 /\ (Waits => Settled)
ActsOnWindow == Acts /\ (Apart => ~dialog.open)
Post(p) == commands' = Append(commands, p)
Gives(f) == given' = [given EXCEPT ![f] = steps']

\* _preview_presentation
Preview(p) == window' = IF created THEN p ELSE window

-----------------------------------------------------------------------------
(***************************************************************************)
(* The button and the window.                                              *)
(***************************************************************************)
\* set_comment_popout(True): _enable_popout; the window is created once.
\* Mutant: it is shown, and created when it has something to draw.
DetachUncreated ==
  /\ ActsOnWindow /\ ~visible /\ visible' = TRUE
  /\ geometry' = [f \in {"size", "position"} |-> saved[f]]
  /\ Gives("detached") /\ Post([saved EXCEPT !.detached = steps'])
  /\ UNCHANGED <<saved, news, created, window, timer, dialog, closed, confirmed>>
Detach ==
  /\ ActsOnWindow /\ ~visible
  /\ created' = TRUE /\ visible' = TRUE
  /\ window' = IF created THEN window ELSE saved
  /\ geometry' = [f \in {"size", "position"} |-> saved[f]]
  /\ Gives("detached") /\ Post([saved EXCEPT !.detached = steps'])
  /\ UNCHANGED <<saved, news, timer, dialog, closed, confirmed>>

\* set_comment_popout(False), by the button or by closing the window: the
\* place of the window goes into what is saved.  Mutant: into the copy of
\* the window only.
Forgotten ==
  /\ ActsOnWindow /\ visible /\ visible' = FALSE
  /\ given' = [given EXCEPT !.detached = steps', !.position = geometry.position]
  /\ Post([saved EXCEPT !.detached = steps'])
  /\ UNCHANGED <<saved, news, created, window, geometry, timer, dialog, closed, confirmed>>
Attach ==
  /\ ActsOnWindow /\ visible /\ visible' = FALSE
  /\ given' = [given EXCEPT !.detached = steps', !.position = geometry.position]
  /\ Post([saved EXCEPT !.detached = steps', !.position = geometry.position, !.size = geometry.size])
  /\ UNCHANGED <<saved, news, created, window, geometry, timer, dialog, closed, confirmed>>

\* wheelEvent
Wheel ==
  /\ ActsOnWindow /\ visible /\ Gives("opacity")
  /\ window' = [window EXCEPT !.opacity = steps'] /\ Post(window')
  /\ UNCHANGED <<saved, news, created, visible, geometry, timer, dialog, closed, confirmed>>

\* handle_mouse_press, handle_mouse_move and handle_mouse_release at an edge.
Resize ==
  /\ ActsOnWindow /\ visible /\ Gives("size")
  /\ geometry' = [geometry EXCEPT !.size = steps']
  /\ window' = [window EXCEPT !.size = steps'] /\ Post(window')
  /\ UNCHANGED <<saved, news, created, visible, timer, dialog, closed, confirmed>>

\* mouseMoveEvent in the header; its release saves nothing.
Drag ==
  /\ ActsOnWindow /\ visible /\ geometry' = [geometry EXCEPT !.position = steps']
  /\ UNCHANGED <<saved, commands, news, created, window, visible, timer, dialog, closed, given, confirmed>>

\* _on_splitter_moved: saved 250 ms after the last move.
Split ==
  /\ ActsOnWindow /\ visible /\ Gives("ratio")
  /\ window' = [window EXCEPT !.ratio = steps'] /\ timer' = TRUE
  /\ UNCHANGED <<saved, commands, news, created, visible, geometry, dialog, closed, confirmed>>

SplitterTimeout ==
  /\ timer /\ timer' = FALSE /\ ~closed /\ Post(window)
  /\ UNCHANGED <<saved, news, created, window, visible, geometry, dialog, closed, steps, given, confirmed>>

-----------------------------------------------------------------------------
(***************************************************************************)
(* The settings dialog.                                                    *)
(***************************************************************************)
OpenDialog ==
  /\ Acts /\ ~dialog.open /\ dialog' = [open |-> TRUE, copy |-> saved]
  /\ UNCHANGED <<saved, commands, news, popout, closed, given, confirmed>>

\* _preview_dialog
Edit ==
  /\ Acts /\ dialog.open
  /\ dialog' = [dialog EXCEPT !.copy.color = steps'] /\ Preview(dialog'.copy)
  /\ UNCHANGED <<saved, commands, news, created, visible, geometry, timer, closed, given, confirmed>>

Confirm ==
  /\ Acts /\ dialog.open /\ dialog' = NoDialog /\ Post(dialog.copy)
  /\ given' = [given EXCEPT !.color = dialog.copy.color] /\ confirmed' = confirmed \cup {dialog.copy.color}
  /\ UNCHANGED <<saved, news, popout, closed>>

\* _finish_settings: the window goes back to what is saved.  Mutant: not.
CancelKeepsPreview ==
  /\ Acts /\ dialog.open /\ dialog' = NoDialog
  /\ UNCHANGED <<saved, commands, news, popout, closed, given, confirmed>>
Cancel ==
  /\ Acts /\ dialog.open /\ dialog' = NoDialog /\ Preview(saved)
  /\ UNCHANGED <<saved, commands, news, created, visible, geometry, timer, closed, given, confirmed>>

-----------------------------------------------------------------------------
(***************************************************************************)
(* The control thread, the echo, and the end.                              *)
(***************************************************************************)
\* apply_presentation, _apply.
Save ==
  /\ commands # <<>> /\ commands' = Tail(commands)
  /\ saved' = Head(commands) /\ news' = Append(news, Head(commands))
  /\ UNCHANGED <<popout, dialog, closed, steps, given, confirmed>>

\* _on_event: SettingsApplied.
Deliver ==
  /\ news # <<>> /\ news' = Tail(news) /\ ~closed /\ Preview(Head(news))
  /\ UNCHANGED <<saved, commands, created, visible, geometry, timer, dialog, closed, steps, given, confirmed>>

\* SessionService.shutdown drops what waits, and ShutdownCompleted hides the
\* window.
Exit ==
  /\ ~closed /\ closed' = TRUE /\ commands' = <<>>
  /\ dialog' = NoDialog
  /\ UNCHANGED <<saved, news, popout, steps, given, confirmed>>

Next ==
  \/ Detach \/ Attach \/ Wheel \/ Resize \/ Drag \/ Split \/ SplitterTimeout
  \/ OpenDialog \/ Edit \/ Confirm \/ Cancel
  \/ Save \/ Deliver \/ Exit

Spec == Init /\ [][Next]_vars

-----------------------------------------------------------------------------
Presentations == [Fields -> 0 .. MaxSteps]

\* The shape of the state.
TypeOK ==
  /\ {saved, window, dialog.copy, given} \subseteq Presentations
  /\ commands \in Seq(Presentations) /\ news \in Seq(Presentations)
  /\ visible => created
  /\ confirmed \subseteq 0 .. MaxSteps

\* The copies come together: once every save is through, the window shows
\* what is saved, whatever was previewed and cancelled meanwhile.
ShownIsSaved == created /\ Settled /\ ~dialog.open /\ ~closed => window = saved

\* For a user who waits, and keeps the dialog and the window apart, nothing is
\* lost: every field is saved with the last value it was given,
\* whoever wrote the record last.
NothingLost == Settled /\ ~closed => saved = given

(***************************************************************************)
(* What the documentation says, and the code does not keep.                *)
(***************************************************************************)
\* docs/users/README.md:82: a dialog that is cancelled leaves no trace.
CancelDiscards == saved.color \in confirmed

\* docs/users/README.md:95: the size of the window is saved.
SizeStays == Settled /\ ~dialog.open /\ ~closed => saved.size = given.size

\* docs/users/README.md:95: so is its position, when the program is left with
\* the window open.
PositionIsSaved == closed /\ visible => saved.position = geometry.position

\* docs/users/README.md:100: the ratio of the splitter is kept.
RatioStays == Settled /\ ~dialog.open /\ ~closed => saved.ratio = given.ratio
=============================================================================
