------------------------------ MODULE MCAcceptor -----------------------------
(* More connections than places, so that the limit is reached, passed and  *)
(* reached again.                                                          *)
EXTENDS Acceptor, TLC

CONSTANTS k1, k2, k3, k4

FourConnections == {k1, k2, k3, k4}
==============================================================================
