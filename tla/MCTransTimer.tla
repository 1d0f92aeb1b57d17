----------------------------- MODULE MCTransTimer -----------------------------
(* TransTimer with a counter of twelve values, so that it wraps again and   *)
(* again, and a timeout of three rounds.                                    *)
EXTENDS TransTimer
===============================================================================
