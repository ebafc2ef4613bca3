----------------------------- MODULE MCPublisher -----------------------------
(* Publisher for TLC.  One unit is AGAIN; a round of four of them is long  *)
(* enough for a refusal to begin, be asked again and last, and the clock   *)
(* runs for six rounds.                                                    *)
EXTENDS Publisher
==============================================================================
