------------------------------ MODULE MCBslDumper ------------------------------
(***************************************************************************)
(* A small instance of BslDumper for TLC.                                  *)
(***************************************************************************)
EXTENDS BslDumper

\* The chunk at address 0 holds nothing but 0xD5.
AckChunk == {0} \X (1..ChunkSize)
\* A gap lies behind the first chunk.
TwoSectors == <<<<0, 1>>, <<2, 3>>>>
================================================================================
