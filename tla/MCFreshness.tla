----------------------------- MODULE MCFreshness -----------------------------
(***************************************************************************)
(* An instance of Freshness for TLC: two ticks a second, durations of up   *)
(* to fifteen ticks.                                                       *)
(***************************************************************************)
EXTENDS Freshness

D(n, v) == [name |-> n, value |-> v]

\* A lifetime, one that is clamped, one that is illegal, two that differ, both
\* kinds, and a response that may not be shared.
SomeControls ==
  {<<>>, <<D("max-age", 2)>>, <<D("max-age", 30)>>, <<D("max-age", Illegal)>>,
   <<D("max-age", 3), D("max-age", 1)>>, <<D("max-age", 1), D("s-maxage", 3)>>,
   <<D("private", 0)>>}

\* In three seconds, in the past, too far away for a duration, illegal, and two.
SomeExpires == {<<>>, <<3>>, <<0 - 40>>, <<40>>, <<Illegal>>, <<3, 3>>}

\* Long ago, and shortly before the run.
SomeBirths == {0 - 37, 0 - 1, 1}
SomeSkews == {0 - 3, 0, 1}
=============================================================================
