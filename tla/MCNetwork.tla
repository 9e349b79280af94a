----------------------------- MODULE MCNetwork -----------------------------
(* Network on a 2 x 2 torus.                                               *)
EXTENDS Network

Copy == [src: Ports, bit: BOOLEAN]

\* The directory answers both cores; it sends data to core 0, whatever that leaves
\* in bit 31.  A core sends to the directory or, when it hands on a line it keeps,
\* to the directory and the other core.
Responses ==
  {<<4, [dst |-> {0, 3}, bit |-> FALSE]>>, <<4, [dst |-> {0}, bit |-> TRUE]>>,
   <<0, [dst |-> {4}, bit |-> FALSE]>>, <<0, [dst |-> {3, 4}, bit |-> FALSE]>>,
   <<3, [dst |-> {0, 4}, bit |-> FALSE]>>}
=============================================================================
