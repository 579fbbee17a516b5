--------------------------- MODULE MCStreamWriter ---------------------------
(* Instances of StreamWriter for TLC.                                      *)
EXTENDS StreamWriterRefinement

\* Frames of one or two bytes; the length depends on the text only, as
\* compression at a fixed level does.
MCFrameLen(text) == 1 + (Len(text) % 2)
=============================================================================
