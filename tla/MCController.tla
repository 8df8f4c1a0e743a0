---------------------------- MODULE MCController ----------------------------
(* A controller of one or two modules with one or two browsers and one     *)
(* command.                                                                *)
EXTENDS Controller, TLC

CONSTANTS d1, d2, s1, s2, x1

OneDevice == {d1}
TwoDevices == {d1, d2}
OneModule == <<<<d1>>>>
TwoModules == <<<<d1>>, <<d2>>>>
TwoChannels == <<<<d1, d2>>>>
OneBrowser == {s1}
TwoBrowsers == {s1, s2}
OneCommand == {x1}
NoCommand == {}
NoTarget == [x \in {} |-> d1]
CommandTarget == [x \in {x1} |-> d1]
=============================================================================
