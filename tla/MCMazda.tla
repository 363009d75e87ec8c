------------------------------ MODULE MCMazda ------------------------------
(* A ZIP without dealers and two that overlap: the last one finds dealer 1  *)
(* again, and dealer 2.  Carline "a" has the longer listings, with a VIN at   *)
(* both dealers and rows without one; its catalog row announces too little. *)
EXTENDS MazdaPages

Near2 == [z \in {"z0", "z1", "z2"} |->
  CASE z = "z0" -> {} [] z = "z1" -> {1} [] z = "z2" -> {1, 2}]
Carlines2 == <<"a", "b">>
Places2 == <<"z0", "z1", "z2">>
Catalog2 == [c \in {"a", "b"} |-> IF c = "a" THEN 1 ELSE 0]
RowsOf2 == [c \in {"a", "b"} |->
  IF c = "a" THEN {<<1, 0>>, <<1, 1>>, <<1, 2>>, <<1, 3>>, <<2, 3>>, <<2, 4>>, <<2, 5>>} ELSE {<<2, 1>>}]
=============================================================================
