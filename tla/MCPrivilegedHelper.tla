------------------------- MODULE MCPrivilegedHelper -------------------------
(***************************************************************************)
(* PrivilegedHelper for TLC: the built-in Wi-Fi service and a USB adapter  *)
(* that comes and goes, two resolvers to tell settings apart, one address  *)
(* that needs a bypass route, or two where starts with other addresses     *)
(* matter.                                                                 *)
(***************************************************************************)
EXTENDS PrivilegedHelper

CONSTANTS wifi, usb, r1, r2, a1, a2

MCServices   == {wifi, usb}
OneService   == {wifi}
MCHotplug    == {usb}
NoHotplug    == {}
MCResolvers  == {r1, r2}
OneResolver  == {r1}
OneAddress   == {a1}
TwoAddresses == {a1, a2}
=============================================================================
