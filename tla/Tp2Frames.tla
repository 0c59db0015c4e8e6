------------------------------ MODULE Tp2Frames ------------------------------
(***************************************************************************)
(* TP2 framing: segmentation and reassembly of src/vag_protocols/tp2.py.    *)
(* A message is a nonempty sequence of bytes, its wire form has a two-byte *)
(* length in front, and a frame carries Capacity bytes of it at most.      *)
(***************************************************************************)
EXTENDS Integers, Sequences

CONSTANTS
    Capacity,   \* bytes of the wire form in a frame: 7
    SeqNums      \* sequence numbers: 16

ASSUME FramesAssumption == Capacity \in Nat \ {0, 1} /\ SeqNums \in Nat \ {0, 1}

Seqs == 0..(SeqNums - 1)

\* The sequence number behind s: what an ACK of s carries.  Mutant: the number does not wrap.
MutAfter(s) == s + 1
After(s) == (s + 1) % SeqNums
Before(s) == (s + SeqNums - 1) % SeqNums

Ack(s) == [kind |-> "ack", seq |-> After(s)]

\* An op of 0 or 1 asks for an ACK, 1 or 3 ends the message.
Asks(f) == f.op \in {0, 1}
Final(f) == f.op \in {1, 3}

\* Values of a byte; the length in front of a message has two of them.
Values == 256
Bytes == 0..(Values - 1)
Sendable(message) == message \in Seq(Bytes) /\ Len(message) \in 1..(Values * Values - 1)

Wire(message) == <<Len(message) \div Values, Len(message) % Values>> \o message

\* Mutant: a message that fills its last frame gets an empty one behind it.
MutNumFrames(message) == Len(Wire(message)) \div Capacity + 1
NumFrames(message) == (Len(Wire(message)) + Capacity - 1) \div Capacity

\* What frame i of a message carries.
Chunk(message, i) ==
    LET wire == Wire(message)
    IN  SubSeq(wire, Capacity * (i - 1) + 1,
               IF i = NumFrames(message) THEN Len(wire) ELSE Capacity * i)

\* segment_message: the last frame and, with a block size, every frame that
\* fills a block ask for an ACK.
SegmentMessage(message, start, blockSize) ==
    [i \in 1..NumFrames(message) |->
        [kind |-> "data",
         op   |-> IF i = NumFrames(message) THEN 1
                  ELSE IF blockSize > 0 /\ i % blockSize = 0 THEN 0 ELSE 2,
         seq  |-> (start + i - 1) % SeqNums,
         data |-> Chunk(message, i)]]

--------------------------------------------------------------------------------
(***************************************************************************)
(* TP2MessageReassembler.  acked is the last frame that was acknowledged,  *)
(* in a sequence, or <<>>; len is -1 before the length is known.           *)
(***************************************************************************)

Fresh(seq, acked) == [seq |-> seq, acked |-> acked, wire |-> <<>>, len |-> -1]

\* The sender's repetition of the frame that was acknowledged last.
Repeated(r, f) ==
    f.seq # r.seq /\ Asks(f) /\ f.seq = Before(r.seq) /\ r.acked = <<f>>

WireWith(r, f) == r.wire \o f.data
LengthWith(r, f) ==
    LET wire == WireWith(r, f)
    IN  IF r.len = -1 /\ Len(wire) >= 2 THEN wire[1] * Values + wire[2] ELSE r.len

Complete(r, f) == LengthWith(r, f) # -1 /\ Len(WireWith(r, f)) >= LengthWith(r, f) + 2

\* Mutant: the length of a message is not compared with what was announced.
MutWrong(r, f) == f.seq # r.seq /\ ~Repeated(r, f)
\* The errors of feed: a wrong number, a length of zero, a final frame at the
\* wrong length, a length reached before the final frame.
Wrong(r, f) ==
    \/ f.seq # r.seq /\ ~Repeated(r, f)
    \/ /\ f.seq = r.seq
       /\ \/ LengthWith(r, f) = 0
          \/ Final(f) /\ (~Complete(r, f) \/ Len(WireWith(r, f)) # LengthWith(r, f) + 2)
          \/ ~Final(f) /\ Complete(r, f)

\* The state of the reassembler behind a frame that is not wrong.
Fed(r, f) ==
    IF Repeated(r, f) THEN r
    ELSE [seq   |-> After(f.seq),
          acked |-> IF Asks(f) THEN <<f>> ELSE r.acked,
          wire  |-> IF Final(f) THEN <<>> ELSE WireWith(r, f),
          len   |-> IF Final(f) THEN -1 ELSE LengthWith(r, f)]

\* Mutant: a repeated last frame is a message again.
MutDelivered(r, f) ==
    IF Final(f) THEN <<SubSeq(WireWith(r, f), 3, Len(WireWith(r, f)))>> ELSE <<>>
\* The message that a frame which is not wrong completes, in a sequence; the wire
\* form has the length that was announced.
Delivered(r, f) ==
    IF Final(f) /\ ~Repeated(r, f)
      THEN <<SubSeq(WireWith(r, f), 3, Len(WireWith(r, f)))>> ELSE <<>>
================================================================================
