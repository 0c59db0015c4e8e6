------------------------------ MODULE Tp2Framing ------------------------------
(***************************************************************************)
(* segment_message into TP2MessageReassembler of src/vag_protocols/tp2.py: *)
(* any message, numbered from any start, with any block size, fed frame by *)
(* frame, as recv does with frames that neither get lost nor come twice.   *)
(***************************************************************************)
EXTENDS Tp2Frames

CONSTANTS
    Messages,
    BlockSizes

ASSUME FramingAssumption ==
    /\ \A m \in Messages : Sendable(m)
    /\ BlockSizes \subseteq Nat

VARIABLES
    message, start, blockSize,   \* what segment_message was called with
    fed,                         \* frames that were fed
    r,                           \* the reassembler
    got                          \* messages that feed returned

framingVars == <<message, start, blockSize, fed, r, got>>

FramingInit ==
    /\ message \in Messages /\ start \in Seqs /\ blockSize \in BlockSizes
    /\ fed = 0 /\ r = Fresh(start, <<>>) /\ got = <<>>

Frame(i) == SegmentMessage(message, start, blockSize)[i]

Feed ==
    /\ fed < NumFrames(message)
    /\ ~Wrong(r, Frame(fed + 1))
    /\ got' = got \o Delivered(r, Frame(fed + 1))
    /\ r' = Fed(r, Frame(fed + 1))
    /\ fed' = fed + 1
    /\ UNCHANGED <<message, start, blockSize>>

FramingSpec == FramingInit /\ [][Feed]_framingVars

\* No frame of a message is refused, and behind the last one, not earlier, the
\* reassembler has handed over the message, holds nothing of it and expects the
\* number the sender will use next.
RoundTrip ==
    /\ fed < NumFrames(message) => ~Wrong(r, Frame(fed + 1)) /\ got = <<>>
    /\ fed = NumFrames(message) =>
         /\ got = <<message>>
         /\ r = Fresh((start + fed) % SeqNums, r.acked)
         /\ r.acked = <<Frame(fed)>>
================================================================================
