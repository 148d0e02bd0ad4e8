---------------------------- MODULE MCTraktSync ----------------------------
(* TraktSync on small watchlists: see the trakt_*.cfg runs.              *)
EXTENDS TraktSync
===========================================================================
