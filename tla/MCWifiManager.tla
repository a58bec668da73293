--------------------------- MODULE MCWifiManager ---------------------------
(***************************************************************************)
(* Instances of WifiManager for TLC: one or two networks with their own    *)
(* passwords.                                                              *)
(***************************************************************************)
EXTENDS WifiManager

CONSTANTS home, office, homeKey, officeKey

HomeNetwork == [ssid |-> home, password |-> homeKey]
OfficeNetwork == [ssid |-> office, password |-> officeKey]

OneNetwork == {HomeNetwork}
TwoNetworks == {HomeNetwork, OfficeNetwork}
=============================================================================
