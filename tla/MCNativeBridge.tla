-------------------------- MODULE MCNativeBridge --------------------------
(***************************************************************************)
(* A server with a helper isolate and a server without, one cache way, so  *)
(* that every object contends for it.                                      *)
(***************************************************************************)
EXTENDS NativeBridge

CONSTANTS m1, h1, m2, a1, a2, a3

MCIsolates == {m1, h1, m2}
MCMains == {m1, m2}
MCKey == (m1 :> "one") @@ (h1 :> "one") @@ (m2 :> "two")
MCKeys == {"one", "two"}
MCAddresses == {a1, a2, a3}
MCExercised == {"engineVersion", "supportsTls", "resetNative", "brotliEncode", "configureServer",
                "reloadTls", "registerRoute", "registerStaticRoute", "respond", "wsSend"}
MCWorkloads ==
  {[isolates |-> {m1, m2}, calls |-> (m1 :> 1) @@ (h1 :> 0) @@ (m2 :> 0)],
   [isolates |-> {m1, h1}, calls |-> (m1 :> 0) @@ (h1 :> 1) @@ (m2 :> 0)],
   [isolates |-> {m1, h1, m2}, calls |-> (m1 :> 0) @@ (h1 :> 0) @@ (m2 :> 0)]}
===========================================================================
