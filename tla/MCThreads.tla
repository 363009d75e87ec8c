------------------------------ MODULE MCThreads ------------------------------
(* Instances of JobThreads for TLC.  The passing one checks liveness, so no *)
(* symmetry.                                                                *)
EXTENDS JobThreads, TLC
=============================================================================
