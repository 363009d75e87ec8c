------------------------------ MODULE MCGeocode ------------------------------
(* Three dealers, commits after two answers; a sync of an ingest writes two of *)
(* them in either order, so that it and the batch may wait for each other; one *)
(* request of the administrator.  Every kind of row is there at the start in   *)
(* some behaviour, and every answer is given for some dealer.                  *)
EXTENDS GeocodeBatch

Answers3 == <<{"full", "failed"}, {"full", "error"}, {"full"}>>
Before3  == {<<"none", "oem", "full">>, <<"full", "named", "failed">>}
Orders3  == {<<1, 2>>, <<2, 1>>, <<3, 1>>}
=============================================================================
