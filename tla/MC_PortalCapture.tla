--------------------------- MODULE MC_PortalCapture ---------------------------
(* The run of PortalCapture: descriptors for two planes on either side, and one more. *)
EXTENDS PortalCapture

FewFds == 1 .. 5
===============================================================================
