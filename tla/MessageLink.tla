----------------------------- MODULE MessageLink -----------------------------
(***************************************************************************)
(* What a TP2 connection promises the client above it.  Until a call       *)
(* raises every request reaches the peer and every message of the peer the *)
(* client, whole, each once and in their order.  Afterwards any of them    *)
(* may get lost, and those that arrive are still whole and in order; a     *)
(* request that was not handed to the peer has no replies.                 *)
(***************************************************************************)
EXTENDS Integers, Sequences, SequencesExt

CONSTANTS
    Requests,   \* the payloads the client sends, in order, no two the same
    Replies     \* for each of them the messages the peer answers with, all different

VARIABLES
    sent,       \* requests the client has begun to send
    served,     \* the messages the peer was handed
    results,    \* the messages the client was handed
    broken      \* a call has raised

linkVars == <<sent, served, results, broken>>

Init == sent = 0 /\ served = <<>> /\ results = <<>> /\ broken = FALSE

Request == sent < Len(Requests) /\ sent' = sent + 1 /\ UNCHANGED <<served, results, broken>>

\* The next request is served, and the next reply to what was served is returned.
Serve ==
    /\ ~broken /\ Len(served) < sent
    /\ served' = Append(served, Requests[Len(served) + 1])
    /\ UNCHANGED <<sent, results, broken>>

Return ==
    LET due == FlattenSeq(SubSeq(Replies, 1, Len(served)))
    IN  /\ ~broken /\ Len(results) < Len(due)
        /\ results' = Append(results, due[Len(results) + 1])
        /\ UNCHANGED <<sent, served, broken>>

Break == broken' = TRUE /\ UNCHANGED <<sent, served, results>>

\* Where the last message of got stands in all, which holds it.
Reached(got, all) == IF got = <<>> THEN 0 ELSE CHOOSE i \in DOMAIN all : all[i] = Last(got)

\* The same behind a call that raised, when some are missing.
ServeLater == \E i \in (Reached(served, Requests) + 1)..sent :
    broken /\ served' = Append(served, Requests[i]) /\ UNCHANGED <<sent, results, broken>>

ReturnLater ==
    LET all == FlattenSeq(Replies)
        due == {k \in DOMAIN Requests : Contains(served, Requests[k])}
    IN  \E j \in (Reached(results, all) + 1)..Len(all) :
            /\ broken /\ \E k \in due : Contains(Replies[k], all[j])
            /\ results' = Append(results, all[j])
            /\ UNCHANGED <<sent, served, broken>>

Next == Request \/ Serve \/ Return \/ Break \/ ServeLater \/ ReturnLater

Spec == Init /\ [][Next]_linkVars
================================================================================
