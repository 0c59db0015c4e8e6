---------------------------- MODULE MCKwpClient ----------------------------
(***************************************************************************)
(* Small instances of KwpClient for TLC, with the profile of the Haldex     *)
(* controller (haldex_flash.py).                                           *)
(***************************************************************************)
EXTENDS KwpClient

NoBound == -1

Req(sid, sub) == [sid |-> sid, sub |-> sub]

Echoing == {"session", "ident", "access", "routine", "result"}
Retried == {"ident", "result"}
Formed == {"session", "access", "routine", "result", "transfer"}

\* A read, two routines, and the poll for the result of the second.
Work == <<Req("ident", "9B"), Req("routine", "C4"), Req("routine", "C5"), Req("result", "C5")>>
================================================================================
