------------------------------- MODULE MCGeoapify -------------------------------
(* Three concurrent callers whose searches take up to three attempts; the    *)
(* breaker opens at the second failure in a row, for longer than an attempt  *)
(* can take, as in the code (2 s and 30 s).                                  *)
EXTENDS Geoapify
=============================================================================
