------------------------- MODULE MCPollingCollector -------------------------
(***************************************************************************)
(* Values for checking PollingCollector.  One tick of the model stands for *)
(* the second, the half minute and the minute alike: what matters is that  *)
(* BeatEvery <= PollEvery < Stale and that the tolerance is below them.    *)
(***************************************************************************)
EXTENDS PollingCollector

(* Time passes and the machine sleeps; UTC steps back and is set forward;  *)
(* and everything the guard knows of, elapsed time running back included.  *)
Ordinary == {<<0, 0>>, <<1, 1>>, <<3, 3>>}
Corrected == {<<0, 0>>, <<1, 1>>, <<0, -1>>, <<0, 2>>}
Unruly == {<<0, 0>>, <<1, 1>>, <<0, -1>>, <<0, 2>>, <<-1, -2>>}
=============================================================================
