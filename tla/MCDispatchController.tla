------------------------ MODULE MCDispatchController ------------------------
(* An instance of DispatchController for TLC. *)
EXTENDS DispatchController

CONSTANTS e1, e2, e3

MCEmitters == {e1, e2, e3}
MCRegistered == <<e1, e2, e3>>

\* Rates on either side of the margin: 21 does not beat 20, 22 does.
MCRates == [1 .. 3 -> {20, 21, 22, 24}]
=============================================================================
