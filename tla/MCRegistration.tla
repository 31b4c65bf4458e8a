--------------------------- MODULE MCRegistration ---------------------------
(* Small instances of Registration for TLC. *)
EXTENDS Registration, TLC

\* Clients that share one device.
CONSTANTS c1, c2
=============================================================================
