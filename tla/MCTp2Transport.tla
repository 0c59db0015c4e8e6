--------------------------- MODULE MCTp2Transport ---------------------------
(***************************************************************************)
(* Small instances of Tp2Transport for TLC: three bytes to a frame, so that *)
(* a payload of one byte takes one frame and one of three takes two, and   *)
(* four sequence numbers, so that they wrap.                               *)
(***************************************************************************)
EXTENDS Tp2Transport

\* Two frames, and one, and one; the first request is answered by a pending response and
\* a reply of two frames.
Talk == <<<<1, 7, 7>>, <<2>>, <<3>>>>
TalkBack == <<<<<<9>>, <<11, 8, 8>>>>, <<<<12>>>>, <<<<13, 8, 8>>>>>>

\* As many frames in a reply as there are sequence numbers, and the last of them as long
\* as that of the reply before.
Exchange == <<<<1>>, <<2>>>>
ExchangeBack == <<<<<<9>>>>, <<<<11, 12, 13, 14, 15, 16, 17, 18, 19, 20>>>>>>
================================================================================
