------------------------------- MODULE MCJobs -------------------------------
(* Instances of JobLifecycle: ingest jobs alone or geocode jobs alone, which  *)
(* share no variable, and one web request at a time.  Liveness is checked, so *)
(* there is no symmetry.                                                      *)
EXTENDS JobLifecycle
=============================================================================
