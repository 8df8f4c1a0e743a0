---------------------------- MODULE MCScheduler ----------------------------
(* The scheduler with two commands and two polls over one-slot channels:   *)
(* full channels, abandoned requests and the races of close all occur.     *)
EXTENDS Scheduler, TLC

CONSTANTS c1, c2, p1, p2

MCCommands == {c1, c2}
MCPolls == {p1, p2}
OneCommand == {c1}
OnePoll == {p1}
NoPolls == {}
MCSymmetry == Permutations(MCPolls)
=============================================================================
