--------------------------- MODULE MCWifiManager ---------------------------
(* Instances of WifiManager for TLC.                                       *)
EXTENDS WifiManager

CONSTANTS lvgl, httpd

NoCallers == {}
Lvgl == {lvgl}
Both == {lvgl, httpd}
Transient == {"other"}
AllReasons == {"other", "no_ap", "auth"}
=============================================================================
