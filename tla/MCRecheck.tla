----------------------------- MODULE MCRecheck -----------------------------
(* Small instances of Recheck for TLC. *)
EXTENDS Recheck

(* Workers that end in any way at all, and workers with one failing habit *)
EveryHabit ==
  {Endings, {"verdict"}, {"verdict", "pause"}, {"pause"}, {"fail"}, {"silent"},
   {"unclear"}}

Obliging == {{"verdict"}}

=============================================================================
