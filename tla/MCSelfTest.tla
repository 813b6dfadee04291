----------------------------- MODULE MCSelfTest -----------------------------
(***************************************************************************)
(* Instances of SelfTest for TLC: days of six minutes, the three minutes   *)
(* around midnight, a grid of one slot a day and one of a slot a minute.   *)
(***************************************************************************)
EXTENDS SelfTest

CONSTANTS h1, h2

AroundMidnight == 5 .. 7
Pairs == {{"crash", "save"}, {"crash", "clock"}, {"outage", "save"},
          {"outage", "crash"}, {"save", "manual"}}

Schedule(anchor, interval) ==
  [enabled |-> TRUE, log_ok |-> TRUE, anchor |-> anchor, interval |-> interval]
Daily == Schedule(0, 6)
Often == Schedule(5, 1)
Off == [Daily EXCEPT !.enabled = FALSE]

AllSchedules == {Daily, Often, Off}

=============================================================================
