------------------------- MODULE MCCompletionBatch -------------------------
EXTENDS CompletionBatch
CONSTANTS p1, p2, b1, b2, e1, e2, c1, c2, c3
SomeStreamPorts == {p1, p2}
SomeEmitters == {e1, e2}
SomeCalls == {c1, c2, c3}
SomeScalars == {c1, c2}
SomeBatchPorts == (c1 :> b1) @@ (c2 :> b2) @@ (c3 :> b1)
\* Two emitters and one subscription; one emitter and two; three calls.
SomeWorkloads ==
  {[posters |-> {e1, e2}, ports |-> {p1}, items |-> 4],
   [posters |-> {e1}, ports |-> {p1, p2}, items |-> 3],
   [posters |-> SomeCalls, ports |-> {}, items |-> 0]}
=============================================================================
