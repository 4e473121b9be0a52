--------------------------- MODULE MCServerRegistry ---------------------------
(* A small instance of ServerRegistry for TLC.                             *)
EXTENDS ServerRegistry

CONSTANTS s1, s2, k1, k2
===============================================================================
