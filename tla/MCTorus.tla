------------------------------ MODULE MCTorus ------------------------------
(* TorusTraffic on small tori.                                             *)
EXTENDS TorusTraffic

\* Every PE sends to router 0, itself included (requests); router 0 also sends
\* across the torus (answers).
Crossing ==
  {f \in Routers \X Routers : f[2] = <<0, 0>>} \cup {<<<<0, 0>>, <<1, 1>>>>}
=============================================================================
