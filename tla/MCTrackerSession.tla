-------------------------- MODULE MCTrackerSession --------------------------
(* TrackerSession with a few concurrent searches: see tracker_session.cfg  *)
(* and one_login.cfg.                                                      *)
EXTENDS TrackerSession, TLC

SearchSymmetry == Permutations(Searches)
=============================================================================
