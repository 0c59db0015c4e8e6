--------------------------- MODULE MCImagePatcher ---------------------------
(***************************************************************************)
(* A small instance of ImagePatcher for TLC: words of four bits, three      *)
(* sectors, the second with the hook, the routine and two vectors, one of  *)
(* which is a trap that loops; a word in front belongs to the bootloader.  *)
(***************************************************************************)
EXTENDS ImagePatcher

ThreeSectors == {<<2, 3>>, <<4, 8>>, <<9, 10>>}
TrapsAt == {6, 7}
FirstSector == {2}

\* bootloader; original, checksum; stock hook, blank, loop, code, checksum;
\* data, checksum.
StockImage == <<9, 7, 8, 1, 15, 5, 11, 15, 4, 11>>
================================================================================
