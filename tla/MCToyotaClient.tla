---------------------------- MODULE MCToyotaClient ----------------------------
(* Two requests of one client, with the default number of attempts, so that    *)
(* every wait doubles four times.  The cooldown is longer than one wait or     *)
(* delay, as in the code (30 s against 1 s, 20 s and 3 s), and shorter than    *)
(* several of them.                                                            *)
EXTENDS ToyotaClient
=============================================================================
