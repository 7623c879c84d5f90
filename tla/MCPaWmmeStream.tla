------------------------- MODULE MCPaWmmeStream -----------------------------
(* Model-checking instances of PaWmmeStream and PaWmmeBlocking: the streams *)
(* that are opened.                                                         *)
EXTENDS PaWmmeBlocking

\* With a buffer count for either direction, 0 for an unused one.
Stream(input, output) ==
  [bufferCount |-> [d \in Direction |-> IF d = "in" THEN input ELSE output],
   chunks |-> [d \in Direction |-> 1],
   blocking |-> FALSE, starts |-> MaxStarts, mayFail |-> FALSE, stopTimeouts |-> 1]

Once(s) == [s EXCEPT !.starts = 1]
Failing(s) == [Once(s) EXCEPT !.mayFail = TRUE]

\* Pa_StopStream may give up the thread.
Hanging(s) == [s EXCEPT !.stopTimeouts = 2]
\* Two frames in a buffer.
Blocking(s) ==
  [s EXCEPT !.blocking = TRUE,
            !.chunks = [d \in Direction |-> IF s.bufferCount[d] > 0 THEN 2 ELSE 1]]

Output == {[Stream(0, 2) EXCEPT !.stopTimeouts = 0]}
Streams ==
  {Stream(3, 0), Stream(0, 3), Hanging(Stream(1, 0)), Hanging(Stream(0, 1)),
   Hanging(Once(Stream(0, 3))), Hanging(Once(Stream(2, 2))),
   Hanging(Failing(Stream(1, 2))), Failing(Stream(2, 1)),
   Blocking(Stream(2, 0)), Blocking(Stream(0, 3)), Blocking(Once(Stream(2, 2))),
   Blocking(Failing(Stream(3, 0))), Blocking(Failing(Stream(0, 2))),
   [Once(Stream(1, 2)) EXCEPT !.chunks["in"] = 2],
   [Once(Stream(2, 1)) EXCEPT !.chunks["out"] = 2]}
InputOrOutput ==
  {Stream(2, 0), Stream(0, 2), Blocking(Stream(2, 0)), Blocking(Stream(0, 2))}
=============================================================================
