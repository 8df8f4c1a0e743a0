----------------------------- MODULE MCLiveView -----------------------------
(* One page, one command and a module of two devices.                      *)
EXTENDS LiveView, TLC

CONSTANTS d1, d2, s1, x1

TwoDevices == {d1, d2}
TwoChannels == <<<<d1, d2>>>>
OneDevice == {d1}
OneModule == <<<<d1>>>>
OneBrowser == {s1}
OneCommand == {x1}
CommandTarget == [x \in {x1} |-> d1]
OneFetch == {1}
TwoFetches == {1, 2}
=============================================================================
