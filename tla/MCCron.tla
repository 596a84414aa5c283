------------------------------- MODULE MCCron -------------------------------
(***************************************************************************)
(* Instances of Cron on a small calendar: minutes of 2 seconds, hours of 2 *)
(* minutes, days of 3 hours, weeks of 3 days, years of 2 months, and a     *)
(* leap day now and then.                                                  *)
(***************************************************************************)
EXTENDS Cron

Star(n) == [star |-> TRUE, lo |-> 0, hi |-> 0, step |-> n]
Span(a, b, n) == [star |-> FALSE, lo |-> a, hi |-> b, step |-> n]
Only(a) == Span(a, a, 1)
Any == {Star(1)}

MCMonthStart == <<0, 2, 5, 7, 11, 13, 16, 18, 21, 23, 27, 29>>

\* Hours are 4 seconds and days 12.
Fixed(n) == [before |-> n, after |-> n, at |-> 0]
SpringWest == [before |-> -8, after |-> -4, at |-> 36 + 4 + 8]   \* 1:00 to 2:00
SpringEast == [before |-> 4, after |-> 8, at |-> 36 + 4 - 4]
AutumnWest == [before |-> -4, after |-> -8, at |-> 36 + 8 + 4]   \* 2:00 to 1:00
MidnightWest == [before |-> -8, after |-> -4, at |-> 36 + 8]     \* 0:00 to 1:00

MCZones == {Fixed(0), Fixed(-4), SpringWest, SpringEast, AutumnWest}
MCMidnight == {MidnightWest}

MCTexts ==
  [sec : {Any, {Only(1)}}, min : {Any, {Only(0)}, {Star(2)}},
   hour : {Any, {Only(0)}, {Only(1)}, {Only(0), Only(2)}, {Span(1, 2, 1)}},
   dom : {Any, {Only(1)}, {Only(4)}, {Span(2, 5, 1)}},
   month : {Any, {Only(1)}, {Only(2)}}, dow : {Any, {Only(1)}}]

MCHourTexts ==
  [sec : {{Only(0)}}, min : {{Only(0)}}, hour : {{Only(n)} : n \in 0..2},
   dom : {Any}, month : {Any}, dow : {Any}]

MCStarts == {29, 35, 42, 51}
=============================================================================
