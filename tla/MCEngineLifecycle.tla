------------------------- MODULE MCEngineLifecycle -------------------------
\* Two isolates, a TLS engine on a fixed port and a plain one that asks for
\* any: small enough for every order of start, stop, reset, reload and answer.
EXTENDS EngineLifecycle, TLC
CONSTANTS i1, i2, e1, e2, k1, k2, x1, x2, x3
TheIsolates == {i1, i2}
TheEngines == {e1, e2}
TheKeys == (e1 :> "a") @@ (e2 :> "b")
ThePorts == {1, 2}
ThePort == (e1 :> 1) @@ (e2 :> 0)
TheTls == {e1}
TheConns == {k1, k2}
TheCtxs == {x1, x2, x3}
Work(a, b, engines, conns) == [may |-> (i1 :> a) @@ (i2 :> b), engines |-> engines, conns |-> conns]
TheWorkloads == {Work({"serve", "reset"}, {"serve"}, {e1, e2}, {}),
                 Work({"serve", "reload"}, {"answer"}, {e1}, {k1}),
                 Work({"serve", "reload"}, {}, {e1}, {k1, k2}),
                 Work({"serve"}, {"answer", "reset"}, {e1}, {k1}),
                 Work({"serve"}, {"reload", "reset"}, {e1}, {k1})}
=============================================================================
