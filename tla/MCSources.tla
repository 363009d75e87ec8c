------------------------------ MODULE MCSources ------------------------------
(* Two dealers and a ZIP, which all need Nominatim, and both dealers a browser *)
(* and Google Maps; two queries where there is a loop.  The intervals differ.  *)
EXTENDS GeocodeSources

Interval2 == [r \in {"nominatim", "google"} |-> IF r = "nominatim" THEN 1 ELSE 2]
=============================================================================
