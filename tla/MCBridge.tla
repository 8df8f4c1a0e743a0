------------------------------ MODULE MCBridge ------------------------------
(* One page and one reload request besides the loader; the STM holds a     *)
(* project a controller can be built from, or one it cannot.               *)
EXTENDS Bridge, TLC

CONSTANTS good, bad, r1, p1

GoodAndBad == {good, bad}
CanBeBuilt == {good, Empty}
OneRequest == {r1}
OnePage == {p1}
=============================================================================
