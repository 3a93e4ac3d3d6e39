------------------------------ MODULE MCSession ------------------------------
EXTENDS Session

\* What the user may do: everything; and what it takes
\* to lose a start, to break a rebuild and to break a shutdown.
Everything == UserAction
TestAndStart == {"test", "start"}
TestAndApply == {"test", "apply"}
StopAndClose == {"start", "stop", "close"}
=============================================================================
