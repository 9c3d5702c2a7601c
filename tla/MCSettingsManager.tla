------------------------- MODULE MCSettingsManager -------------------------
(* Instances of SettingsManager for TLC.                                   *)
EXTENDS SettingsManager, TLC

CONSTANTS lvgl, httpd, n1, n2, long, cut, p1, p2, none, v1

Both == {lvgl, httpd}
NetworkNames == {n1, n2, long}
TwoPasswords == {p1, p2}
CutLong == [n \in NetworkNames |-> IF n = long THEN cut ELSE n]
NetworkKeys == {"ip"}
OtherKeys == {"zone"}

(* v1 is an address that fits, or an index of 256: 0 at the next boot.        *)
TwoValues == {none, v1}
KeptInRam == [v \in TwoValues |-> v]
ReadAtBoot == [v \in TwoValues |-> none]

Symmetry ==
  Permutations(Both) \cup Permutations({n1, n2}) \cup Permutations(TwoPasswords)
=============================================================================
