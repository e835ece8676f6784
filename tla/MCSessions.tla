----------------------------- MODULE MCSessions -----------------------------
(***************************************************************************)
(* A registration, a login, and two refreshes that may present the token   *)
(* of that login.                                                          *)
(***************************************************************************)
EXTENDS Sessions

CONSTANTS signup, login, device1, device2, s, e

RouteOf ==
  [r \in AuthRequests |->
     CASE r = signup -> "register" [] r = login -> "login" [] OTHER -> "refresh"]

OneRouteEach == [r \in AuthRequests |-> {<<RouteOf[r], <<s, e>>>>}]
=============================================================================
