---------------------------- MODULE MCTp2Frames ----------------------------
(***************************************************************************)
(* Tp2Framing for TLC with the real frame capacity and sequence numbers: a *)
(* message of each of some sizes, from each start, for each block size.    *)
(***************************************************************************)
EXTENDS Tp2Framing

CONSTANT Sizes

\* A message whose bytes differ from one frame to the next.
Payload(n) == [i \in 1..n |-> (i * 7 + i \div 7) % 256]
Payloads == {Payload(n) : n \in Sizes}
================================================================================
