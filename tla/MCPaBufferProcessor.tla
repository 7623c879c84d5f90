----------------------- MODULE MCPaBufferProcessor ---------------------------
(* Model-checking instances of PaBufferProcessor.                            *)
EXTENDS PaBufferProcessor

Config(user, host, mode, directions) ==
  [framesPerUserBuffer |-> user, framesPerHostBuffer |-> host,
   hostBufferSizeMode |-> mode, directions |-> directions]

\* Fixed host buffers of 1 to 4 frames and blocks of 2, 3, 4 or any number,
\* and host buffers of varying size, full and half duplex.
AllSizes ==
  {Config(user, host, "fixed", dirs) :
     user \in {0, 2, 3}, host \in 1..4, dirs \in {{"in"}, {"out"}, Direction}}
  \cup {Config(4, 2, "fixed", Direction)}
  \cup {Config(user, 3, mode, dirs) :
     user \in {0, 2}, mode \in {"bounded", "unknown"}, dirs \in {{"in"}, {"out"}, Direction}}
=============================================================================
