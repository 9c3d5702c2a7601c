--------------------------- MODULE MCDataFetcher ---------------------------
(* Instances of DataFetcher for TLC.                                       *)
EXTENDS DataFetcher

CONSTANTS weather_min, elpris, v1, v2

Weather == {weather_min}
Elpris == {elpris}
None == {}
OneValue == {v1}
TwoValues == {v1, v2}
=============================================================================
