--------------------------- MODULE MCSpeechPipeline ---------------------------
EXTENDS SpeechPipelineRefinement

\* A lone utterance, and one after a sound effect or a dictionary command.
MCPlanShapes == { <<"say">>, <<"sound", "say">>, <<"learn", "say">> }
MCLimits == {2, 4}
=============================================================================
