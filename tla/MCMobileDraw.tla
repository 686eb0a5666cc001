---------------------------- MODULE MCMobileDraw ----------------------------
(* TLC instances of MobileDraw.  Three or four pages and two draws a page: *)
(* a draw page left or finished and others after it, a shuffle page both   *)
(* of whose draws open a result page, or as many direct entries.           *)
EXTENDS MobileDraw
=============================================================================
