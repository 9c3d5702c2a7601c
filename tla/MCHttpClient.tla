---------------------------- MODULE MCHttpClient ----------------------------
(* Instances of HttpClient for TLC.                                        *)
EXTENDS HttpClient

CONSTANTS c1, c2, c3, u1, u2

ThreeCallers == {c1, c2, c3}
TwoUrls == {u1, u2}
=============================================================================
