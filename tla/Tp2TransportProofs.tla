-------------------------- MODULE Tp2TransportProofs --------------------------
(***************************************************************************)
(* Proofs that messages survive framing: for every frame capacity, every   *)
(* number of sequence numbers, every message, start and block size.  And   *)
(* what that is good for: the proofs about Tp2Transport.                   *)
(***************************************************************************)
EXTENDS Tp2TransportInv, Tp2Framing, SequenceLemmas

--------------------------------------------------------------------------------
(***************************************************************************)
(* The frames of a message.                                                *)
(***************************************************************************)

LEMMA ValuesFact == Values \in Nat /\ Values >= 2
  BY DEF Values

LEMMA TimesMonotone ==
    ASSUME NEW a \in Nat, NEW b \in Nat, NEW c \in Nat
    PROVE  b >= c => a * b >= a * c
  OBVIOUS

\* What goes over the wire, and its length in front.
LEMMA WireFacts ==
    ASSUME NEW m, Sendable(m)
    PROVE  /\ Len(m) \in Nat /\ Len(m) >= 1 /\ m \in Seq(Bytes)
           /\ Wire(m) \in Seq(Bytes) /\ Len(Wire(m)) = Len(m) + 2
           /\ Wire(m)[1] * Values + Wire(m)[2] = Len(m)
           /\ SubSeq(Wire(m), 3, Len(m) + 2) = m
<1> DEFINE L == Len(m)
           high == L \div Values
           low == L % Values
           head == <<high, low>>
<1>1. L \in Nat /\ L >= 1 /\ L < Values * Values /\ m \in Seq(Bytes)
  BY ValuesFact DEF Sendable
<1>2. high \in Bytes /\ low \in Bytes /\ high * Values + low = L
  <2> HIDE DEF L
  <2>1. low \in 0..(Values - 1) /\ L = Values * high + low /\ high \in Int
    BY <1>1, ValuesFact
  <2>2. high >= 0
    <3>1. high < 0 => Values * high <= -Values
      BY <2>1, ValuesFact
    <3> QED BY <1>1, <2>1, <3>1, ValuesFact
  <2>3. high < Values
    <3> HIDE DEF high, low
    <3>1. high >= Values => Values * high >= Values * Values
      BY <2>1, <2>2, ValuesFact, TimesMonotone
    <3>2. Values * Values \in Nat /\ Values * high \in Int
      BY <2>1, ValuesFact
    <3> QED BY <1>1, <2>1, <3>1, <3>2, ValuesFact
  <2>4. high * Values = Values * high
    BY <2>1, ValuesFact
  <2> HIDE DEF high, low
  <2> QED BY <2>1, <2>2, <2>3, <2>4, ValuesFact DEF Bytes
<1> HIDE DEF high, low
<1>3. head \in Seq(Bytes) /\ Len(head) = 2 /\ head[1] = high /\ head[2] = low
  BY <1>2
<1> HIDE DEF head
<1>4. /\ head \o m \in Seq(Bytes) /\ Len(head \o m) = L + 2
      /\ (head \o m)[1] = high /\ (head \o m)[2] = low
      /\ \A i \in 1..L : (head \o m)[2 + i] = m[i]
  BY <1>1, <1>3, ConcatFacts
<1>5. SubSeq(head \o m, 3, L + 2) = m
  <2>1. 3 \in Nat /\ L + 2 \in Nat /\ 3 <= (L + 2) + 1 /\ (L + 2) - 3 + 1 = L
        /\ \A i \in 1..L : 3 + i - 1 = 2 + i
    BY <1>1
  <2>2. /\ SubSeq(head \o m, 3, L + 2) \in Seq(Bytes)
        /\ Len(SubSeq(head \o m, 3, L + 2)) = L
        /\ \A i \in 1..L : SubSeq(head \o m, 3, L + 2)[i] = (head \o m)[2 + i]
    <3> HIDE DEF L
    <3> QED BY <1>1, <1>4, <2>1, WindowFacts
  <2> QED BY <1>1, <1>4, <2>2, SameSequence
<1>6. Wire(m) = head \o m
  BY DEF Wire, head, high, low
<1> QED BY <1>1, <1>2, <1>4, <1>5, <1>6

\* Where the frames end in the wire form: the last one takes what is left.
End(m, i) == IF i = NumFrames(m) THEN Len(m) + 2 ELSE Capacity * i

LEMMA EndFacts ==
    ASSUME NEW m, Sendable(m)
    PROVE  /\ NumFrames(m) \in Nat \ {0}
           /\ \A i \in 1..(NumFrames(m) - 1) : Capacity * i < Len(m) + 2 /\ 2 <= Capacity * i
           /\ \A i \in 1..NumFrames(m) : Capacity * (i - 1) < End(m, i) /\ End(m, i) <= Len(m) + 2
                                         /\ End(m, i) \in Nat /\ Capacity * (i - 1) \in Nat
                                         /\ 2 <= End(m, i)
<1> DEFINE C == Capacity
           L == Len(m) + 2
           N == NumFrames(m)
<1>1. C \in Nat /\ C >= 2 /\ L \in Nat /\ L >= 3
  BY WireFacts, FramesAssumption
<1>2. N = (L + C - 1) \div C
  BY WireFacts DEF NumFrames
<1>3. N \in Nat /\ L + C - 1 = C * N + ((L + C - 1) % C) /\ (L + C - 1) % C \in 0..(C - 1)
  <2> HIDE DEF C, L, N
  <2> QED BY <1>1, <1>2
<1> HIDE DEF C, L, N
<1>4. C * N >= L /\ C * (N - 1) < L
  <2>1. C * (N - 1) = C * N - C
    BY <1>1, <1>3
  <2> QED BY <1>1, <1>3, <2>1
<1>5. N >= 1
  <2>1. N = 0 => C * N = 0
    BY <1>1
  <2> QED BY <1>1, <1>3, <1>4, <2>1
<1>6. ASSUME NEW i \in 1..(N - 1) PROVE C * i < L /\ 2 <= C * i
  <2>1. C * i <= C * (N - 1) /\ C <= C * i
    BY <1>1, <1>3
  <2> QED BY <1>1, <1>3, <1>4, <2>1
<1>7. ASSUME NEW i \in 1..N
      PROVE  C * (i - 1) < End(m, i) /\ End(m, i) <= L /\ End(m, i) \in Nat /\ C * (i - 1) \in Nat /\ 2 <= End(m, i)
  <2>1. C * (i - 1) \in Nat /\ C * i \in Nat /\ C * i = C * (i - 1) + C
    BY <1>1, <1>3
  <2>2. CASE i = N
    <3>1. End(m, i) = L
      BY <2>2 DEF End, N, L
    <3> QED BY <1>1, <1>4, <2>1, <2>2, <3>1
  <2>3. CASE i # N
    <3>1. End(m, i) = C * i
      BY <2>3 DEF End, N, C
    <3>2. i \in 1..(N - 1)
      BY <1>3, <2>3
    <3> QED BY <1>1, <1>6, <2>1, <3>1, <3>2
  <2> QED BY <2>2, <2>3
<1> QED BY <1>3, <1>5, <1>6, <1>7 DEF C, L, N

\* A frame continues the wire form where the one in front of it ended.
LEMMA ChunkFacts ==
    ASSUME NEW m, Sendable(m), NEW i \in 1..NumFrames(m)
    PROVE  /\ Chunk(m, i) = SubSeq(Wire(m), Capacity * (i - 1) + 1, End(m, i))
           /\ SubSeq(Wire(m), 1, Capacity * (i - 1)) \o Chunk(m, i) = SubSeq(Wire(m), 1, End(m, i))
<1>1. Chunk(m, i) = SubSeq(Wire(m), Capacity * (i - 1) + 1, End(m, i))
  BY WireFacts DEF Chunk, End
<1>2. /\ Wire(m) \in Seq(Bytes) /\ Capacity * (i - 1) \in Nat /\ End(m, i) \in Nat
      /\ Capacity * (i - 1) <= End(m, i) /\ End(m, i) <= Len(Wire(m))
  BY WireFacts, EndFacts
<1> QED BY <1>1, <1>2, WindowsJoin

\* What the next frame of a message does to a reassembler that holds those in front of it.
LEMMA ReadFrame ==
    ASSUME NEW m, Sendable(m), NEW i \in 1..NumFrames(m), NEW p, NEW f,
           f.seq = p.seq, f.data = Chunk(m, i), Final(f) <=> i = NumFrames(m),
           p.wire = SubSeq(Wire(m), 1, Capacity * (i - 1)),
           p.len = IF i = 1 THEN -1 ELSE Len(m)
    PROVE  /\ ~Wrong(p, f) /\ ~Repeated(p, f)
           /\ WireWith(p, f) = SubSeq(Wire(m), 1, End(m, i))
           /\ LengthWith(p, f) = Len(m)
           /\ Delivered(p, f) = IF i = NumFrames(m) THEN <<m>> ELSE <<>>
<1> DEFINE N == NumFrames(m)
           W == Wire(m)
           L == Len(m)
           w == WireWith(p, f)
<1>3. ~Repeated(p, f)
  BY DEF Repeated
<1>4. /\ W \in Seq(Bytes) /\ Len(W) = L + 2 /\ W[1] * Values + W[2] = L
      /\ SubSeq(W, 3, L + 2) = m /\ L \in Nat /\ L >= 1
  BY WireFacts
<1>5. w = SubSeq(W, 1, End(m, i))
  BY ChunkFacts DEF WireWith
<1>6. /\ End(m, i) \in Nat /\ 2 <= End(m, i) /\ End(m, i) <= L + 2
      /\ (i = N => End(m, i) = L + 2)
      /\ (i # N => End(m, i) < L + 2)
  <2>1. N \in Nat \ {0}
    BY EndFacts
  <2>2. i # N => i \in 1..(N - 1)
    BY <2>1
  <2> QED BY <2>2, EndFacts DEF End
<1> HIDE DEF w, W, L, N
<1>7. w \in Seq(Bytes) /\ Len(w) = End(m, i) /\ w[1] = W[1] /\ w[2] = W[2]
  <2>1. End(m, i) <= Len(W) /\ 1 <= End(m, i) + 1 /\ End(m, i) - 1 + 1 = End(m, i)
        /\ 1 \in 1..End(m, i) /\ 2 \in 1..End(m, i) /\ 1 + 1 - 1 = 1 /\ 1 + 2 - 1 = 2
    BY <1>4, <1>6
  <2> QED BY <1>4, <1>5, <1>6, <2>1, WindowFacts
<1>8. LengthWith(p, f) = L
  <2>1. p.len = -1 \/ p.len = L
    BY DEF L
  <2>2. p.len = L => p.len # -1
    BY <1>4
  <2>3. Len(w) >= 2
    BY <1>6, <1>7
  <2> QED BY <1>4, <1>7, <2>1, <2>2, <2>3 DEF LengthWith, w
<1>9. Complete(p, f) <=> i = N
  <2>1. L # -1
    BY <1>4
  <2>2. Len(w) >= L + 2 <=> i = N
    BY <1>4, <1>6, <1>7
  <2> QED BY <1>8, <2>1, <2>2 DEF Complete, w
<1>10. ~Wrong(p, f)
  <2>1. LengthWith(p, f) # 0
    BY <1>4, <1>8
  <2>2. i = N => Len(w) = LengthWith(p, f) + 2
    BY <1>6, <1>7, <1>8
  <2> QED BY <1>9, <2>1, <2>2 DEF Wrong, w, N
<1>11. Delivered(p, f) = IF i = N THEN <<m>> ELSE <<>>
  <2>1. CASE i = N
    <3>1. End(m, i) = Len(W) /\ Len(w) = L + 2 /\ Len(W) = L + 2
      BY <1>4, <1>6, <1>7, <2>1
    <3>2. w = W
      BY <1>4, <1>5, <3>1, WholeWindow
    <3>3. SubSeq(w, 3, Len(w)) = m
      BY <1>4, <3>1, <3>2
    <3> QED BY <1>3, <2>1, <3>3 DEF Delivered, w, N
  <2>2. CASE i # N
    BY <2>2 DEF Delivered, N
  <2> QED BY <2>1, <2>2
<1> QED BY <1>3, <1>5, <1>8, <1>10, <1>11 DEF N, W, L, w

\* What segment_message says of a frame.
LEMMA FrameFacts ==
    ASSUME NEW i \in 1..NumFrames(message)
    PROVE  /\ Frame(i).seq = (start + i - 1) % SeqNums
           /\ Frame(i).data = Chunk(message, i)
           /\ i = NumFrames(message) => Final(Frame(i)) /\ Asks(Frame(i))
           /\ i # NumFrames(message) => ~Final(Frame(i))
  BY DEF Frame, SegmentMessage, Final, Asks

--------------------------------------------------------------------------------
(***************************************************************************)
(* The inductive invariant: the reassembler holds what was fed.            *)
(***************************************************************************)

\* The reassembler behind the frames that were fed.
Held ==
    /\ fed < NumFrames(message) => r.wire = SubSeq(Wire(message), 1, Capacity * fed)
    /\ fed < NumFrames(message) => r.len = IF fed = 0 THEN -1 ELSE Len(message)
    /\ fed < NumFrames(message) => got = <<>>
    /\ fed = NumFrames(message) => r.wire = <<>> /\ r.len = -1 /\ r.acked = <<Frame(fed)>>
    /\ fed = NumFrames(message) => got = <<message>>

Whole ==
    /\ message \in Messages /\ start \in Seqs /\ blockSize \in BlockSizes
    /\ fed \in 0..NumFrames(message)
    /\ r = [seq |-> r.seq, acked |-> r.acked, wire |-> r.wire, len |-> r.len]
    /\ r.seq = (start + fed) % SeqNums
    /\ Held

\* The same for the frames that are fed.
LEMMA NextFrame ==
    ASSUME Whole, fed < NumFrames(message)
    PROVE  LET f == Frame(fed + 1)
           IN  /\ ~Wrong(r, f) /\ ~Repeated(r, f) /\ f.seq = r.seq
               /\ WireWith(r, f) = SubSeq(Wire(message), 1, End(message, fed + 1))
               /\ LengthWith(r, f) = Len(message)
               /\ Final(f) <=> fed + 1 = NumFrames(message)
               /\ Final(f) => Asks(f)
               /\ Delivered(r, f) = IF fed + 1 = NumFrames(message) THEN <<message>> ELSE <<>>
<1> DEFINE f == Frame(fed + 1)
           i == fed + 1
           N == NumFrames(message)
<1>0. Sendable(message) /\ start \in Nat /\ fed \in Nat
  BY FramingAssumption, FramesAssumption, EndFacts DEF Whole, Seqs
<1>1. N \in Nat /\ i \in 1..N /\ i - 1 = fed /\ start + i - 1 = start + fed /\ (i = 1 <=> fed = 0)
  BY <1>0, EndFacts DEF Whole
<1>2. /\ f.seq = r.seq /\ f.data = Chunk(message, i)
      /\ (Final(f) <=> i = N)
      /\ (Final(f) => Asks(f))
  BY <1>1, FrameFacts DEF Whole
<1> HIDE DEF f
<1>3. /\ r.wire = SubSeq(Wire(message), 1, Capacity * (i - 1))
      /\ r.len = IF i = 1 THEN -1 ELSE Len(message)
  BY <1>1 DEF Whole, Held
<1> HIDE DEF i, N
<1>4. /\ ~Wrong(r, f) /\ ~Repeated(r, f)
      /\ WireWith(r, f) = SubSeq(Wire(message), 1, End(message, i))
      /\ LengthWith(r, f) = Len(message)
      /\ Delivered(r, f) = IF i = NumFrames(message) THEN <<message>> ELSE <<>>
  BY <1>0, <1>1, <1>2, <1>3, ReadFrame DEF N
<1> QED BY <1>2, <1>4 DEF f, i, N

\* The sequence number counts on.
LEMMA NextSeq ==
    ASSUME NEW a \in Nat
    PROVE  ((a % SeqNums) + 1) % SeqNums = (a + 1) % SeqNums
<1> DEFINE q == a \div SeqNums
           t == a % SeqNums
<1>1. SeqNums \in Nat \ {0}
  BY FramesAssumption
<1>2. a = SeqNums * q + t /\ q \in Nat /\ t \in 0..(SeqNums - 1)
  BY <1>1
<1> HIDE DEF q, t
<1>3. CASE t + 1 < SeqNums
  <2>1. a + 1 = SeqNums * q + (t + 1)
    BY <1>1, <1>2
  <2> QED BY <1>1, <1>2, <1>3, <2>1
<1>4. CASE t + 1 = SeqNums
  <2>1. a + 1 = SeqNums * (q + 1) + 0
    BY <1>1, <1>2, <1>4
  <2> QED BY <1>1, <1>2, <1>4, <2>1
<1>5. (t + 1) % SeqNums = (a + 1) % SeqNums
  BY <1>1, <1>2, <1>3, <1>4
<1> QED BY <1>5 DEF t

LEMMA InitWhole == FramingInit => Whole
<1> SUFFICES ASSUME FramingInit PROVE Whole
  OBVIOUS
<1>1. /\ message \in Messages /\ start \in Seqs /\ blockSize \in BlockSizes
      /\ fed = 0 /\ got = <<>> /\ r = Fresh(start, <<>>)
  BY DEF FramingInit
<1>2. Sendable(message) /\ start \in 0..(SeqNums - 1) /\ SeqNums \in Nat \ {0}
  BY <1>1, FramingAssumption, FramesAssumption DEF Seqs
<1>3. fed < NumFrames(message) /\ fed \in 0..NumFrames(message) /\ fed # NumFrames(message)
  <2>1. NumFrames(message) \in Nat \ {0}
    BY <1>2, EndFacts
  <2> QED BY <1>1, <2>1
<1>4. r.seq = (start + fed) % SeqNums
  BY <1>1, <1>2 DEF Fresh
<1>5. Held
  <2>1. SubSeq(Wire(message), 1, Capacity * fed) = <<>>
    <3>1. Capacity * fed = 0
      BY <1>1, FramesAssumption
    <3>2. SubSeq(Wire(message), 1, 0) = <<>>
      BY <1>2, WireFacts, EmptyWindow
    <3> QED BY <3>1, <3>2
  <2> QED BY <1>1, <1>3, <2>1 DEF Held, Fresh
<1> QED BY <1>1, <1>3, <1>4, <1>5 DEF Whole, Fresh

LEMMA FeedWhole == Whole /\ Feed => Whole'
<1> SUFFICES ASSUME Whole, Feed PROVE Whole'
  OBVIOUS
<1> DEFINE f == Frame(fed + 1)
           N == NumFrames(message)
<1>1. /\ fed < N /\ got' = got \o Delivered(r, f) /\ r' = Fed(r, f) /\ fed' = fed + 1
      /\ message' = message /\ start' = start /\ blockSize' = blockSize
  BY DEF Feed
<1>2. /\ ~Repeated(r, f) /\ f.seq = r.seq
      /\ WireWith(r, f) = SubSeq(Wire(message), 1, End(message, fed + 1))
      /\ LengthWith(r, f) = Len(message)
      /\ (Final(f) <=> fed + 1 = N)
      /\ (Final(f) => Asks(f))
      /\ Delivered(r, f) = IF fed + 1 = N THEN <<message>> ELSE <<>>
  BY <1>1, NextFrame
<1>3. Sendable(message) /\ start \in Nat /\ fed \in Nat /\ N \in Nat \ {0} /\ got = <<>>
  BY <1>1, FramingAssumption, FramesAssumption, EndFacts DEF Whole, Held, Seqs
<1>4. Frame(fed)' = f
  BY <1>1 DEF Frame, SegmentMessage, Chunk
<1>5. NumFrames(message)' = N /\ Wire(message)' = Wire(message)
  BY <1>1
<1> HIDE DEF f, N
<1>6. r' = [seq |-> After(f.seq), acked |-> IF Asks(f) THEN <<f>> ELSE r.acked,
            wire |-> IF Final(f) THEN <<>> ELSE WireWith(r, f),
            len |-> IF Final(f) THEN -1 ELSE LengthWith(r, f)]
  BY <1>1, <1>2 DEF Fed
<1>7. fed' \in 0..N
  BY <1>1, <1>3
<1>8. r'.seq = (start + fed') % SeqNums
  <2>1. r'.seq = (r.seq + 1) % SeqNums
    BY <1>2, <1>6 DEF After
  <2>2. r.seq = (start + fed) % SeqNums
    BY DEF Whole
  <2>3. start + fed \in Nat /\ (start + fed) + 1 = start + fed'
    BY <1>1, <1>3
  <2>4. (((start + fed) % SeqNums) + 1) % SeqNums = ((start + fed) + 1) % SeqNums
    BY <2>3, NextSeq
  <2> QED BY <2>1, <2>2, <2>3, <2>4
<1>9. got' = IF fed + 1 = N THEN <<message>> ELSE <<>>
  BY <1>1, <1>2, <1>3
<1>10. Held'
  <2>1. CASE fed + 1 = N
    <3>1. r'.wire = <<>> /\ r'.len = -1 /\ r'.acked = <<f>> /\ got' = <<message>>
      BY <1>2, <1>6, <1>9, <2>1
    <3>2. ~(fed' < NumFrames(message'))
      BY <1>1, <1>3, <1>5, <2>1
    <3> QED BY <1>1, <1>4, <3>1, <3>2 DEF Held
  <2>2. CASE fed + 1 # N
    <3>1. r'.wire = WireWith(r, f) /\ r'.len = Len(message) /\ got' = <<>>
      BY <1>2, <1>6, <1>9, <2>2
    <3>2. End(message, fed + 1) = Capacity * fed'
      BY <1>1, <2>2 DEF End, N
    <3>3. fed' # N /\ fed' # 0
      BY <1>1, <1>3, <2>2
    <3> QED BY <1>1, <1>2, <1>5, <3>1, <3>2, <3>3 DEF Held
  <2> QED BY <2>1, <2>2
<1>11. r' = [seq |-> r'.seq, acked |-> r'.acked, wire |-> r'.wire, len |-> r'.len]
  BY <1>6
<1> QED BY <1>1, <1>5, <1>7, <1>8, <1>10, <1>11 DEF Whole

\* Whole holds initially, every step keeps it, and RoundTrip follows from it.
THEOREM FramingInductive == FramingSpec => []Whole
<1>1. Whole /\ UNCHANGED framingVars => Whole'
  BY DEF Whole, Held, framingVars, Frame
<1> QED BY <1>1, InitWhole, FeedWhole, PTL DEF FramingSpec

\* No frame that segment_message cuts a message into is refused by feed, no message
\* comes out before the last frame, and behind it the reassembler has handed over
\* exactly the message and expects the sender's next number: for every message of
\* two length bytes, every start, block size, frame capacity and number of sequence
\* numbers.
THEOREM RoundTripHolds == FramingSpec => []RoundTrip
<1>1. Whole => RoundTrip
  <2> SUFFICES ASSUME Whole PROVE RoundTrip
    OBVIOUS
  <2>1. fed < NumFrames(message) => ~Wrong(r, Frame(fed + 1)) /\ got = <<>>
    BY NextFrame DEF Whole, Held
  <2>2. ASSUME fed = NumFrames(message)
        PROVE  got = <<message>> /\ r.acked = <<Frame(fed)>> /\ r = Fresh((start + fed) % SeqNums, r.acked)
    BY <2>2 DEF Whole, Held, Fresh
  <2> QED BY <2>1, <2>2 DEF RoundTrip
<1> QED BY <1>1, FramingInductive, PTL

--------------------------------------------------------------------------------
(***************************************************************************)
(* Sequence numbers.                                                       *)
(***************************************************************************)

LEMMA SeqNumsFact == SeqNums \in Nat /\ SeqNums >= 2 /\ Seqs = 0..(SeqNums - 1)
  BY FramesAssumption DEF Seqs

\* A number moved on by at most a whole round.
LEMMA Onward ==
    ASSUME NEW a \in Seqs, NEW n \in 0..SeqNums
    PROVE  /\ (a + n) % SeqNums = IF a + n < SeqNums THEN a + n ELSE a + n - SeqNums
           /\ (a + n) % SeqNums \in Seqs
<1>1. /\ SeqNums \in Nat /\ SeqNums >= 2 /\ a \in 0..(SeqNums - 1)
  BY SeqNumsFact
<1>2. CASE a + n < SeqNums
  <2>1. a + n = SeqNums * 0 + (a + n)
    BY <1>1
  <2> QED BY <1>1, <1>2, <2>1, SeqNumsFact
<1>3. CASE a + n >= SeqNums
  <2>0. CASE a + n - SeqNums < SeqNums
    <3>1. a + n = SeqNums * 1 + (a + n - SeqNums)
      BY <1>1
    <3> QED BY <1>1, <1>3, <2>0, <3>1, SeqNumsFact
  <2> QED BY <1>1, <2>0
<1> QED BY <1>1, <1>2, <1>3

\* How far one number is ahead of another.
LEMMA AheadFact ==
    ASSUME NEW a \in Seqs, NEW b \in Seqs
    PROVE  Ahead(a, b) = (IF a >= b THEN a - b ELSE a - b + SeqNums) /\ Ahead(a, b) \in Seqs
<1>1. SeqNums \in Nat /\ SeqNums >= 2 /\ a \in 0..(SeqNums - 1) /\ b \in 0..(SeqNums - 1)
  BY SeqNumsFact
<1>2. CASE a >= b
  <2>1. a - b = SeqNums * 0 + (a - b)
    BY <1>1
  <2> QED BY <1>1, <1>2, <2>1, SeqNumsFact DEF Ahead
<1>3. CASE a < b
  <2>1. a - b = SeqNums * (-1) + (a - b + SeqNums)
    BY <1>1
  <2> QED BY <1>1, <1>3, <2>1, SeqNumsFact DEF Ahead
<1> QED BY <1>1, <1>2, <1>3

LEMMA AfterFact ==
    ASSUME NEW a \in Seqs
    PROVE  After(a) = (IF a + 1 < SeqNums THEN a + 1 ELSE 0) /\ After(a) \in Seqs
<1>1. 1 \in 0..SeqNums /\ a \in 0..(SeqNums - 1) /\ SeqNums \in Nat
  BY SeqNumsFact
<1> QED BY <1>1, Onward DEF After

--------------------------------------------------------------------------------
(***************************************************************************)
(* Queues and lists of answers.                                            *)
(***************************************************************************)

\* Without goes through the queue from the front, and keeps what kept says.
Sifts(kept, q, k) ==
    /\ kept[0] = <<>>
    /\ \A i \in 1..Len(q) : kept[i] = IF q[i].kind = k THEN kept[i - 1] ELSE Append(kept[i - 1], q[i])

LEMMA WithoutChain ==
    ASSUME NEW T, NEW q \in Seq(T), NEW k
    PROVE  \E kept : /\ Sifts(kept, q, k) /\ Without(q, k) = kept[Len(q)]
                     /\ \A i \in 0..Len(q) : kept[i] \in Seq(T)
<1> DEFINE n == Len(q)
           body(g, i) == IF i = 0 THEN <<>> ELSE IF q[i].kind = k THEN g[i - 1] ELSE Append(g[i - 1], q[i])
           kept == CHOOSE g : g = [i \in 0..n |-> body(g, i)]
           step == [i \in 1..n |-> [s \in Seq(T) |-> IF q[i].kind = k THEN s ELSE Append(s, q[i])]]
<1>1. n \in Nat /\ \A i \in 1..n : q[i] \in T
  OBVIOUS
<1>2. step \in [1..n -> [Seq(T) -> Seq(T)]]
  BY <1>1
<1>3. <<>> \in Seq(T)
  OBVIOUS
<1>4. \E f : Chain(f, Seq(T), <<>>, step, n)
  <2> HIDE DEF step, n
  <2> QED BY <1>1, <1>2, <1>3, Recursion
<1>5. PICK f : Chain(f, Seq(T), <<>>, step, n)
  BY <1>4
<1>6. f \in [0..n -> Seq(T)] /\ f[0] = <<>> /\ \A i \in 1..n : f[i] = step[i][f[i - 1]]
  <2> HIDE DEF step, n
  <2> QED BY <1>5 DEF Chain
<1>7. f = [i \in 0..n |-> body(f, i)]
  <2>1. ASSUME NEW i \in 0..n PROVE f[i] = body(f, i)
    <3>1. CASE i = 0
      BY <1>6, <3>1
    <3>2. CASE i # 0
      <4>1. i \in 1..n /\ i - 1 \in 0..n /\ f[i - 1] \in Seq(T)
        <5>1. i \in 1..n /\ i - 1 \in 0..n
          BY <1>1, <3>2
        <5> HIDE DEF step, n
        <5> QED BY <1>6, <5>1
      <4>2. step[i] = [s \in Seq(T) |-> IF q[i].kind = k THEN s ELSE Append(s, q[i])]
        BY <4>1
      <4>3. step[i][f[i - 1]] = IF q[i].kind = k THEN f[i - 1] ELSE Append(f[i - 1], q[i])
        BY <4>1, <4>2
      <4> HIDE DEF step
      <4> QED BY <1>6, <3>2, <4>1, <4>3
    <3> QED BY <3>1, <3>2
  <2> HIDE DEF body, n
  <2> QED BY <1>6, <2>1
<1>8. kept = [i \in 0..n |-> body(kept, i)]
  <2> HIDE DEF body
  <2> QED BY <1>7
<1>9. Without(q, k) = kept[n]
  BY DEF Without
<1> HIDE DEF kept
<1>10. kept[0] = <<>>
  BY <1>1, <1>8
<1>11. \A i \in 1..n : kept[i] = IF q[i].kind = k THEN kept[i - 1] ELSE Append(kept[i - 1], q[i])
  <2> SUFFICES ASSUME NEW i \in 1..n
               PROVE  kept[i] = IF q[i].kind = k THEN kept[i - 1] ELSE Append(kept[i - 1], q[i])
    OBVIOUS
  <2>1. i \in 0..n /\ i # 0
    BY <1>1
  <2> QED BY <1>8, <2>1
<1> DEFINE Good == {i \in Nat : i <= n => kept[i] \in Seq(T)}
<1>12. 0 \in Good
  BY <1>3, <1>10
<1>13. ASSUME NEW i \in Nat, i \in Good PROVE i + 1 \in Good
  <2> SUFFICES ASSUME i + 1 <= n PROVE kept[i + 1] \in Seq(T)
    OBVIOUS
  <2>1. i + 1 \in 1..n /\ (i + 1) - 1 = i /\ kept[i] \in Seq(T) /\ q[i + 1] \in T
    BY <1>1, <1>13
  <2>2. kept[i + 1] = IF q[i + 1].kind = k THEN kept[i] ELSE Append(kept[i], q[i + 1])
    BY <1>11, <2>1
  <2> QED BY <2>1, <2>2
<1> HIDE DEF Good
<1>14. \A i \in Nat : i \in Good
  BY <1>12, <1>13, Counting
<1>15. \A i \in 0..n : kept[i] \in Seq(T)
  BY <1>1, <1>14 DEF Good
<1>16. Sifts(kept, q, k)
  BY <1>10, <1>11 DEF Sifts
<1> QED BY <1>9, <1>15, <1>16

\* What Without keeps stays in its order.
LEMMA WithoutOrder ==
    ASSUME NEW T, NEW q \in Seq(T), NEW k
    PROVE  /\ Without(q, k) \in Seq(T)
           /\ \A a \in DOMAIN Without(q, k) : \E c \in DOMAIN q : Without(q, k)[a] = q[c]
           /\ \A a, b \in DOMAIN Without(q, k) : a < b =>
                \E c, d \in DOMAIN q : c < d /\ Without(q, k)[a] = q[c] /\ Without(q, k)[b] = q[d]
<1> DEFINE n == Len(q)
<1>1. n \in Nat /\ \A i \in 1..n : q[i] \in T
  OBVIOUS
<1>7. PICK kept : /\ Sifts(kept, q, k) /\ Without(q, k) = kept[n]
                  /\ \A i \in 0..n : kept[i] \in Seq(T)
  BY WithoutChain
<1>8. /\ kept[0] = <<>> /\ Without(q, k) = kept[n]
      /\ \A i \in 0..n : kept[i] \in Seq(T)
      /\ \A i \in 1..n : kept[i] = IF q[i].kind = k THEN kept[i - 1] ELSE Append(kept[i - 1], q[i])
  BY <1>7 DEF Sifts
<1> DEFINE Holds_(i) == /\ kept[i] \in Seq(T)
                        /\ \A a \in DOMAIN kept[i] : \E c \in 1..i : kept[i][a] = q[c]
                        /\ \A a, b \in DOMAIN kept[i] : a < b =>
                             \E c, d \in 1..i : c < d /\ kept[i][a] = q[c] /\ kept[i][b] = q[d]
           Good == {i \in Nat : i <= n => Holds_(i)}
<1>10. 0 \in Good
  <2>1. kept[0] = <<>>
    BY <1>8
  <2>2. Holds_(0)
    BY <2>1
  <2> QED BY <2>2
<1>11. ASSUME NEW i \in Nat, i \in Good PROVE i + 1 \in Good
  <2> SUFFICES ASSUME i + 1 <= n PROVE Holds_(i + 1)
    OBVIOUS
  <2>1. Holds_(i) /\ i + 1 \in DOMAIN q /\ q[i + 1] \in T
    BY <1>1, <1>11
  <2>2. kept[i + 1] = IF q[i + 1].kind = k THEN kept[i] ELSE Append(kept[i], q[i + 1])
    <3>1. i + 1 \in 1..n /\ (i + 1) - 1 = i
      BY <1>1
    <3> QED BY <1>8, <3>1
  <2>0. DOMAIN kept[i] = 1..Len(kept[i]) /\ Len(kept[i]) \in Nat
    BY <2>1
  <2>3. CASE q[i + 1].kind = k
    <3>1. kept[i + 1] = kept[i]
      BY <2>2, <2>3
    <3> QED BY <2>1, <3>1
  <2>4. CASE q[i + 1].kind # k
    <3>1. kept[i + 1] = Append(kept[i], q[i + 1])
      BY <2>2, <2>4
    <3>2. /\ kept[i + 1] \in Seq(T)
          /\ \A a \in DOMAIN kept[i] : kept[i + 1][a] = kept[i][a]
          /\ kept[i + 1][Len(kept[i]) + 1] = q[i + 1]
          /\ \A a \in DOMAIN kept[i + 1] : a \in DOMAIN kept[i] \/ a = Len(kept[i]) + 1
      BY <2>1, <3>1, AppendFacts
    <3>3. \A a \in DOMAIN kept[i + 1] : \E c \in 1..(i + 1) : kept[i + 1][a] = q[c]
      BY <2>1, <3>2
    <3>4. ASSUME NEW a \in DOMAIN kept[i + 1], NEW b \in DOMAIN kept[i + 1], a < b
          PROVE  \E c, d \in 1..(i + 1) : c < d /\ kept[i + 1][a] = q[c] /\ kept[i + 1][b] = q[d]
      <4>1. a \in DOMAIN kept[i]
        BY <2>0, <3>2, <3>4
      <4>2. CASE b \in DOMAIN kept[i]
        <5>1. PICK c \in 1..i, d \in 1..i : c < d /\ kept[i][a] = q[c] /\ kept[i][b] = q[d]
          BY <2>1, <3>4, <4>1, <4>2
        <5> QED BY <3>2, <4>1, <4>2, <5>1
      <4>3. CASE b = Len(kept[i]) + 1
        <5>1. PICK c \in 1..i : kept[i][a] = q[c]
          BY <2>1, <4>1
        <5> QED BY <3>2, <4>1, <4>3, <5>1
      <4> QED BY <3>2, <4>2, <4>3
    <3> QED BY <3>2, <3>3, <3>4
  <2> QED BY <2>3, <2>4
<1> HIDE DEF Good
<1>12. n \in Good
  BY <1>1, <1>10, <1>11, Counting
<1>13. Holds_(n)
  BY <1>1, <1>12 DEF Good
<1>14. DOMAIN q = 1..n
  OBVIOUS
<1> DEFINE w == Without(q, k)
<1>15. w = kept[n]
  BY <1>8
<1> HIDE DEF n, w
<1>16. /\ w \in Seq(T)
       /\ \A a \in DOMAIN w : \E c \in DOMAIN q : w[a] = q[c]
  BY <1>13, <1>14, <1>15
<1>17. \A a, b \in DOMAIN w : a < b =>
         \E c, d \in DOMAIN q : c < d /\ w[a] = q[c] /\ w[b] = q[d]
  <2>1. \A a, b \in DOMAIN kept[n] : a < b =>
          \E c, d \in 1..n : c < d /\ kept[n][a] = q[c] /\ kept[n][b] = q[d]
    BY <1>13
  <2>2. ASSUME NEW a \in DOMAIN w, NEW b \in DOMAIN w, a < b
        PROVE  \E c, d \in DOMAIN q : c < d /\ w[a] = q[c] /\ w[b] = q[d]
    <3>1. PICK c \in 1..n, d \in 1..n : c < d /\ kept[n][a] = q[c] /\ kept[n][b] = q[d]
      BY <1>15, <2>1, <2>2
    <3>2. c \in DOMAIN q /\ d \in DOMAIN q /\ w[a] = q[c] /\ w[b] = q[d]
      BY <1>14, <1>15, <3>1
    <3> QED BY <3>1, <3>2
  <2> QED BY <2>2
<1> QED BY <1>16, <1>17 DEF w

\* Without keeps what it does not drop, and adds nothing.
LEMMA WithoutFacts ==
    ASSUME NEW T, NEW q \in Seq(T), NEW k
    PROVE  /\ Without(q, k) \in Seq(T)
           /\ \A a \in DOMAIN Without(q, k) : \E b \in DOMAIN q : Without(q, k)[a] = q[b]
  BY WithoutOrder

\* FlattenSeq concatenates from the front.
LEMMA Flattened ==
    ASSUME NEW T, NEW p \in Seq(Seq(T)), p # <<>>
    PROVE  \E g \in [1..Len(p) -> Seq(T)] :
             /\ g[1] = p[1] /\ FlattenSeq(p) = g[Len(p)]
             /\ \A i \in 1..(Len(p) - 1) : g[i + 1] = g[i] \o p[i + 1]
<1> DEFINE n == Len(p)
           body(g, i) == IF i = 1 THEN p[i] ELSE g[i - 1] \o p[i]
           flat == CHOOSE g : g = [i \in 1..n |-> body(g, i)]
           step == [i \in 1..(n - 1) |-> [s \in Seq(T) |-> s \o p[i + 1]]]
<1>1. n \in Nat /\ n - 1 \in Nat /\ \A i \in 1..n : p[i] \in Seq(T)
  OBVIOUS
<1>2. step \in [1..(n - 1) -> [Seq(T) -> Seq(T)]]
  BY <1>1
<1>3. p[1] \in Seq(T)
  BY <1>1
<1>4. \E f : Chain(f, Seq(T), p[1], step, n - 1)
  <2> HIDE DEF step, n
  <2> QED BY <1>1, <1>2, <1>3, Recursion
<1>5. PICK f : Chain(f, Seq(T), p[1], step, n - 1)
  BY <1>4
<1>6. f \in [0..(n - 1) -> Seq(T)] /\ f[0] = p[1] /\ \A i \in 1..(n - 1) : f[i] = step[i][f[i - 1]]
  <2> HIDE DEF step, n
  <2> QED BY <1>5 DEF Chain
<1> HIDE DEF n
<1>7. ASSUME NEW i \in 1..(n - 1) PROVE f[i] = f[i - 1] \o p[i + 1]
  <2>1. f[i - 1] \in Seq(T)
    <3> HIDE DEF step
    <3> QED BY <1>1, <1>6
  <2>2. step[i] = [s \in Seq(T) |-> s \o p[i + 1]]
    OBVIOUS
  <2>3. step[i][f[i - 1]] = f[i - 1] \o p[i + 1]
    BY <2>1, <2>2
  <2> HIDE DEF step
  <2> QED BY <1>6, <2>3
<1> HIDE DEF step
<1> DEFINE h == [i \in 1..n |-> f[i - 1]]
<1>8. h \in [1..n -> Seq(T)] /\ h[1] = p[1]
  BY <1>1, <1>6
<1>9. \A i \in 1..(n - 1) : h[i + 1] = h[i] \o p[i + 1]
  <2> SUFFICES ASSUME NEW i \in 1..(n - 1) PROVE h[i + 1] = h[i] \o p[i + 1]
    OBVIOUS
  <2>1. h[i + 1] = f[i] /\ h[i] = f[i - 1]
    BY <1>1
  <2> QED BY <1>7, <2>1
<1> HIDE DEF h
<1>10. h = [i \in 1..n |-> body(h, i)]
  <2>1. ASSUME NEW i \in 1..n PROVE h[i] = body(h, i)
    <3>1. CASE i = 1
      BY <1>8, <3>1
    <3>2. CASE i # 1
      <4>1. i - 1 \in 1..(n - 1) /\ (i - 1) + 1 = i
        BY <1>1, <3>2
      <4> QED BY <1>9, <3>2, <4>1
    <3> QED BY <3>1, <3>2
  <2> HIDE DEF body
  <2> QED BY <1>8, <2>1
<1>11. flat = [i \in 1..n |-> body(flat, i)]
  <2> HIDE DEF body
  <2> QED BY <1>10
<1>12. FlattenSeq(p) = flat[n]
  BY DEF FlattenSeq, n
<1> HIDE DEF flat
<1>13. \A k \in Nat : 1 <= k /\ k <= n => flat[k] = h[k]
  <2> DEFINE S == {k \in Nat : 1 <= k /\ k <= n => flat[k] = h[k]}
  <2>1. 0 \in S
    OBVIOUS
  <2>2. ASSUME NEW k \in Nat, k \in S PROVE k + 1 \in S
    <3> SUFFICES ASSUME k + 1 <= n PROVE flat[k + 1] = h[k + 1]
      OBVIOUS
    <3>1. k + 1 \in 1..n /\ (k + 1) - 1 = k
      BY <1>1
    <3>2. flat[k + 1] = body(flat, k + 1) /\ h[k + 1] = body(h, k + 1)
      <4> HIDE DEF body
      <4> QED BY <1>10, <1>11, <3>1
    <3>3. CASE k = 0
      BY <3>2, <3>3
    <3>4. CASE k # 0
      <4>1. 1 <= k /\ k <= n
        BY <1>1, <3>4
      <4>2. flat[k] = h[k]
        BY <2>2, <4>1
      <4>3. k + 1 # 1
        BY <3>4
      <4> QED BY <3>1, <3>2, <4>2, <4>3
    <3> QED BY <3>3, <3>4
  <2> HIDE DEF S
  <2>3. \A k \in Nat : k \in S
    BY <2>1, <2>2, Counting
  <2> QED BY <2>3 DEF S
<1>14. FlattenSeq(p) = h[n]
  <2>1. 1 <= n /\ n \in Nat
    BY <1>1
  <2> QED BY <1>12, <1>13, <2>1
<1> QED BY <1>8, <1>9, <1>14 DEF n

LEMMA FlattenMore ==
    ASSUME NEW T, NEW p \in Seq(Seq(T)), NEW x \in Seq(T)
    PROVE  FlattenSeq(Append(p, x)) = FlattenSeq(p) \o x
<1> DEFINE q == Append(p, x)
           n == Len(p)
<1>1. /\ n \in Nat /\ q \in Seq(Seq(T)) /\ Len(q) = n + 1 /\ q # <<>>
      /\ \A i \in 1..n : q[i] = p[i]
      /\ q[n + 1] = x
  BY AppendFacts, SeqRetype
<1> HIDE DEF q
<1>2. PICK h \in [1..Len(q) -> Seq(T)] :
             /\ h[1] = q[1] /\ FlattenSeq(q) = h[Len(q)]
             /\ \A i \in 1..(Len(q) - 1) : h[i + 1] = h[i] \o q[i + 1]
  BY <1>1, Flattened
<1>3. CASE p = <<>>
  <2>1. FlattenSeq(p) = <<>> /\ n = 0
    BY <1>3 DEF FlattenSeq
  <2>2. FlattenSeq(q) = x
    BY <1>1, <1>2, <2>1
  <2> QED BY <2>1, <2>2 DEF q
<1>4. CASE p # <<>>
  <2>1. PICK g \in [1..n -> Seq(T)] :
             /\ g[1] = p[1] /\ FlattenSeq(p) = g[n]
             /\ \A i \in 1..(n - 1) : g[i + 1] = g[i] \o p[i + 1]
    BY <1>4, Flattened
  <2>2. n >= 1
    BY <1>4
  <2> DEFINE S == {k \in Nat : k + 1 <= n => g[k + 1] = h[k + 1]}
  <2>3. 0 \in S
    BY <1>1, <1>2, <2>1, <2>2
  <2>4. ASSUME NEW k \in Nat, k \in S PROVE k + 1 \in S
    <3> SUFFICES ASSUME k + 2 <= n PROVE g[(k + 1) + 1] = h[(k + 1) + 1]
      BY <1>1
    <3>1. k + 1 \in 1..(n - 1) /\ k + 1 \in 1..(Len(q) - 1) /\ (k + 1) + 1 \in 1..n
      BY <1>1
    <3>2. g[k + 1] = h[k + 1]
      BY <2>4, <3>1
    <3> HIDE DEF n
    <3> QED BY <1>1, <1>2, <2>1, <3>1, <3>2
  <2> HIDE DEF S
  <2>5. n - 1 \in S
    <3>1. n - 1 \in Nat
      BY <1>1, <2>2
    <3>2. \A k \in Nat : k \in S
      BY <2>3, <2>4, Counting
    <3> QED BY <3>1, <3>2
  <2>6. g[n] = h[n]
    BY <1>1, <2>2, <2>5 DEF S
  <2>7. h[n + 1] = h[n] \o q[n + 1]
    <3>1. n \in 1..(Len(q) - 1)
      BY <1>1, <2>2
    <3> QED BY <1>2, <3>1
  <2> QED BY <1>1, <1>2, <2>1, <2>6, <2>7 DEF q
<1> QED BY <1>3, <1>4

\* The answers to no request, and to one more.
LEMMA AnswersFacts ==
    /\ Answers(0) = <<>>
    /\ \A n \in Nat : n + 1 <= Len(Replies) => Answers(n + 1) = Answers(n) \o Replies[n + 1]
<1>1. Replies \in Seq(Seq(Seq(Bytes)))
  BY TransportAssumption
<1>2. Answers(0) = <<>>
  <2>1. SubSeq(Replies, 1, 0) = <<>>
    BY <1>1, EmptyWindow
  <2> QED BY <2>1 DEF Answers, FlattenSeq
<1>3. ASSUME NEW n \in Nat, n + 1 <= Len(Replies)
      PROVE  Answers(n + 1) = Answers(n) \o Replies[n + 1]
  <2>1. SubSeq(Replies, 1, n + 1) = Append(SubSeq(Replies, 1, n), Replies[n + 1])
    BY <1>1, <1>3
  <2>2. SubSeq(Replies, 1, n) \in Seq(Seq(Seq(Bytes))) /\ Replies[n + 1] \in Seq(Seq(Bytes))
    BY <1>1, <1>3
  <2> QED BY <2>1, <2>2, FlattenMore DEF Answers
<1> QED BY <1>2, <1>3


--------------------------------------------------------------------------------
(***************************************************************************)
(* Types: what the operators of the transport return.                      *)
(***************************************************************************)

LEMMA WireableFacts ==
    /\ \A f \in Frames : f \in Wireable /\ f.kind = "data" /\ f.seq \in Seqs /\ f.data \in Seq(Bytes)
    /\ \A f \in Wireable : f.kind = "data" => f \in Frames
    /\ \A f \in Wireable : f.kind = "ack" => f.seq \in Seqs
    /\ \A n \in Seqs : Ack(n) \in Wireable
    /\ \A k \in {"wait", "ping", "pong", "close", "setup", "timing"} : Control(k) \in Wireable
    /\ \A q \in Seq(Frames) : q \in Seq(Wireable)
<1>1. \A f \in Frames : f \in Wireable /\ f.kind = "data" /\ f.seq \in Seqs /\ f.data \in Seq(Bytes)
  BY DEF Frames, Wireable
<1>2. \A f \in Wireable : f.kind = "data" => f \in Frames
  BY DEF Frames, Wireable
<1>3. \A f \in Wireable : f.kind = "ack" => f.seq \in Seqs
  BY DEF Frames, Wireable
<1>4. \A n \in Seqs : Ack(n) \in Wireable
  BY AfterFact DEF Wireable, Ack
<1>5. \A k \in {"wait", "ping", "pong", "close", "setup", "timing"} : Control(k) \in Wireable
  BY DEF Wireable, Control
<1>6. \A q \in Seq(Frames) : q \in Seq(Wireable)
  BY DEF Wireable
<1> QED BY <1>1, <1>2, <1>3, <1>4, <1>5, <1>6

\* A message of the right size is cut into frames.
LEMMA SegmentFacts ==
    ASSUME NEW m, Sendable(m), NEW s \in Seqs, NEW b \in Nat
    PROVE  /\ SegmentMessage(m, s, b) \in Seq(Frames)
           /\ Len(SegmentMessage(m, s, b)) = NumFrames(m) /\ NumFrames(m) \in Nat \ {0}
           /\ \A i \in 1..NumFrames(m) :
                /\ SegmentMessage(m, s, b)[i].kind = "data"
                /\ SegmentMessage(m, s, b)[i].seq = (s + i - 1) % SeqNums
                /\ SegmentMessage(m, s, b)[i].data = Chunk(m, i)
                /\ Final(SegmentMessage(m, s, b)[i]) <=> i = NumFrames(m)
                /\ i = NumFrames(m) => Asks(SegmentMessage(m, s, b)[i])
<1> DEFINE N == NumFrames(m)
           o(i) == IF i = N THEN 1 ELSE IF b > 0 /\ i % b = 0 THEN 0 ELSE 2
           frame(i) == [kind |-> "data", op |-> o(i), seq |-> (s + i - 1) % SeqNums, data |-> Chunk(m, i)]
<1>1. N \in Nat \ {0}
  BY EndFacts
<1>2. ASSUME NEW i \in 1..N PROVE frame(i) \in Frames
  <2>1. (s + i - 1) % SeqNums \in Seqs
    <3>1. s + i - 1 \in Nat
      BY <1>1, SeqNumsFact
    <3> HIDE DEF N
    <3> QED BY <3>1, SeqNumsFact
  <2>2. Chunk(m, i) \in Seq(Bytes)
    <3>1. /\ Capacity * (i - 1) < End(m, i) /\ End(m, i) <= Len(m) + 2
          /\ End(m, i) \in Nat /\ Capacity * (i - 1) \in Nat
      BY EndFacts
    <3>2. Wire(m) \in Seq(Bytes) /\ Len(Wire(m)) = Len(m) + 2
      BY WireFacts
    <3>3. /\ Capacity * (i - 1) + 1 \in Nat /\ 1 <= Capacity * (i - 1) + 1
          /\ Capacity * (i - 1) + 1 <= End(m, i) + 1 /\ End(m, i) <= Len(Wire(m))
      BY <3>1, <3>2
    <3>4. SubSeq(Wire(m), Capacity * (i - 1) + 1, End(m, i)) \in Seq(Bytes)
      BY <3>1, <3>2, <3>3, WindowFacts
    <3> QED BY <3>4, ChunkFacts
  <2>3. o(i) \in 0..2
    OBVIOUS
  <2> HIDE DEF o
  <2> QED BY <2>1, <2>2, <2>3 DEF Frames
<1>3. SegmentMessage(m, s, b) = [i \in 1..N |-> frame(i)]
  BY DEF SegmentMessage
<1> HIDE DEF frame, N
<1>4. SegmentMessage(m, s, b) \in Seq(Frames) /\ Len(SegmentMessage(m, s, b)) = N
  BY <1>1, <1>2, <1>3
<1>5. ASSUME NEW i \in 1..N
      PROVE  /\ SegmentMessage(m, s, b)[i].kind = "data"
             /\ SegmentMessage(m, s, b)[i].seq = (s + i - 1) % SeqNums
             /\ SegmentMessage(m, s, b)[i].data = Chunk(m, i)
             /\ Final(SegmentMessage(m, s, b)[i]) <=> i = N
             /\ i = N => Asks(SegmentMessage(m, s, b)[i])
  <2>1. SegmentMessage(m, s, b)[i] = frame(i)
    BY <1>3
  <2> QED BY <2>1 DEF frame, Final, Asks
<1> QED BY <1>1, <1>4, <1>5 DEF N

\* The reassembler behind a frame, and the message it has.
LEMMA FedFacts ==
    ASSUME NEW p \in Reassembler, NEW f \in Frames
    PROVE  Fed(p, f) \in Reassembler /\ Delivered(p, f) \in AtMostOne(Seq(Bytes))
<1> DEFINE w == WireWith(p, f)
<1>1. p.seq \in Seqs /\ p.acked \in AtMostOne(Frames) /\ p.wire \in Seq(Bytes) /\ p.len \in Int
  BY DEF Reassembler
<1>2. f.seq \in Seqs /\ f.data \in Seq(Bytes)
  BY WireableFacts
<1>3. w \in Seq(Bytes)
  BY <1>1, <1>2 DEF WireWith
<1>4. After(f.seq) \in Seqs
  BY <1>2, AfterFact
<1> HIDE DEF w
<1>5. LengthWith(p, f) \in Int
  <2>1. Len(w) >= 2 => w[1] \in Int /\ w[2] \in Int
    <3>1. Len(w) >= 2 => w[1] \in Bytes /\ w[2] \in Bytes
      BY <1>3
    <3> QED BY <3>1, ValuesFact DEF Bytes
  <2>2. Len(w) >= 2 => w[1] * Values + w[2] \in Int
    BY <2>1, ValuesFact
  <2> QED BY <1>1, <2>2 DEF LengthWith, w
<1>6. <<f>> \in AtMostOne(Frames) /\ <<>> \in Seq(Bytes)
  BY DEF AtMostOne
<1>7. Fed(p, f) \in Reassembler
  BY <1>1, <1>3, <1>4, <1>5, <1>6 DEF Fed, Reassembler, w
<1>8. Delivered(p, f) \in AtMostOne(Seq(Bytes))
  <2>1. SubSeq(w, 3, Len(w)) \in Seq(Bytes)
    BY <1>3
  <2> QED BY <2>1 DEF Delivered, AtMostOne, w
<1> QED BY <1>7, <1>8

\* What the client sends and the peer answers with.
LEMMA TalkFacts ==
    /\ BlockSize \in Nat /\ PeerBlock \in Nat /\ MaxRepeats \in Nat /\ MaxUpsets \in Nat
    /\ Len(Requests) \in Nat /\ Len(Replies) = Len(Requests)
    /\ \A k \in 1..Len(Requests) :
         /\ Sendable(Requests[k]) /\ Requests[k] \in Seq(Bytes)
         /\ Replies[k] \in Seq(Seq(Bytes)) /\ Len(Replies[k]) \in Nat /\ Len(Replies[k]) >= 1
         /\ \A j \in 1..Len(Replies[k]) : Sendable(Replies[k][j])
  BY TransportAssumption

LEMMA FreshFacts ==
    /\ \A n \in Seqs, a \in AtMostOne(Frames) : Fresh(n, a) \in Reassembler
    /\ <<>> \in AtMostOne(Frames) /\ 0 \in Seqs
    /\ \A f \in Frames : <<f>> \in AtMostOne(Frames)
    /\ NoCall \in Call
<1>1. 0 \in Seqs /\ <<>> \in AtMostOne(Frames) /\ \A f \in Frames : <<f>> \in AtMostOne(Frames)
  BY SeqNumsFact DEF AtMostOne
<1>2. NoCall \in Call
  BY <1>1 DEF NoCall, Call, AtMostOne, Timeout, HardTimeout
<1>3. ASSUME NEW n \in Seqs, NEW a \in AtMostOne(Frames) PROVE Fresh(n, a) \in Reassembler
  BY <1>3 DEF Fresh, Reassembler
<1> QED BY <1>1, <1>2, <1>3

LEMMA TypesAtFirst ==
    ASSUME NEW open \in BOOLEAN, InitWith(open)
    PROVE  Types
<1>1. /\ pc \in {"idle", "closed"} /\ connected = open /\ txSeq = 0 /\ part = Fresh(0, <<>>) /\ msgs = <<>>
      /\ call = NoCall /\ sent = 0 /\ results = <<>> /\ failed = FALSE
      /\ toPeer = <<>> /\ toTester = <<>> /\ peer = [PeerInit EXCEPT !.closed = ~open]
      /\ upsets = 0 /\ spoilt = FALSE
  BY DEF InitWith
<1>2. peer = [in |-> Fresh(0, <<>>), tx |-> 0, out |-> <<>>, await |-> <<>>,
              repeats |-> 0, todo |-> <<>>, served |-> <<>>, closed |-> ~open]
  BY <1>1 DEF PeerInit
<1>3. peer \in Other
  BY <1>2, FreshFacts, TalkFacts DEF Other
<1>4. TypeOK
  <2>1. call.left <= call.hard
    BY <1>1 DEF NoCall
  <2>2. part \in Reassembler /\ call \in Call
    BY <1>1, FreshFacts
  <2>3. <<>> \in Seq(Wireable) /\ <<>> \in Seq(Seq(Bytes))
    OBVIOUS
  <2>4. 0 \in 0..Len(Requests) /\ 0 \in 0..MaxUpsets
    BY TalkFacts
  <2> QED BY <1>1, <1>3, <2>1, <2>2, <2>3, <2>4, FreshFacts DEF TypeOK
<1> QED BY <1>1, <1>2, <1>4 DEF Types, LastAsks, NoCall, Waits

LEMMA TypesInit == Init => Types
  BY TypesAtFirst DEF Init

--------------------------------------------------------------------------------
(***************************************************************************)
(* Every step keeps the types.                                             *)
(***************************************************************************)

\* The types, one fact at a time.
LEMMA TypesOpen ==
    ASSUME Types
    PROVE  /\ txSeq \in Seqs /\ part \in Reassembler /\ part.seq \in Seqs
           /\ part.acked \in AtMostOne(Frames) /\ part.wire \in Seq(Bytes) /\ part.len \in Int
           /\ msgs \in Seq(Wireable) /\ toPeer \in Seq(Wireable) /\ toTester \in Seq(Wireable)
           /\ connected \in BOOLEAN /\ failed \in BOOLEAN /\ spoilt \in BOOLEAN
           /\ call \in Call /\ call.job \in Seq(Frames) /\ call.awaited \in Seqs
           /\ call.due \in Nat /\ call.held \in AtMostOne(Seq(Bytes))
           /\ call.deferred \in Seq(Frames) /\ call.deferred \in Seq(Wireable)
           /\ call.left \in 0..Timeout /\ call.hard \in 0..HardTimeout /\ call.left <= call.hard
           /\ sent \in 0..Len(Requests) /\ results \in Seq(Seq(Bytes))
           /\ peer \in Other /\ peer.in \in Reassembler /\ peer.tx \in Seqs
           /\ peer.out \in Seq(Frames) /\ peer.await \in AtMostOne(Frames)
           /\ peer.repeats \in 0..MaxRepeats /\ peer.todo \in Seq(Seq(Bytes))
           /\ peer.served \in Seq(Seq(Bytes)) /\ peer.closed \in BOOLEAN
           /\ \A k \in 1..Len(peer.todo) : Sendable(peer.todo[k])
           /\ upsets \in 0..MaxUpsets
           /\ pc \in {"idle", "send", "closed", "setup", "over", "ack", "recv", "alive", "timing"}
           /\ LastAsks(call.job)
           /\ pc = "send" => call.job # <<>>
           /\ pc \in {"send", "ack", "recv", "alive"} => call.due > 0
           /\ pc = "alive" => call.held # <<>>
<1>1. /\ part.seq \in Seqs
      /\ part.acked \in AtMostOne(Frames) /\ part.wire \in Seq(Bytes) /\ part.len \in Int
  BY DEF Types, TypeOK, Reassembler
<1>2. /\ call.job \in Seq(Frames) /\ call.awaited \in Seqs
      /\ call.due \in Nat /\ call.held \in AtMostOne(Seq(Bytes))
      /\ call.deferred \in Seq(Frames)
      /\ call.left \in 0..Timeout /\ call.hard \in 0..HardTimeout
  BY DEF Types, TypeOK, Call
<1>3. /\ peer.in \in Reassembler /\ peer.tx \in Seqs
      /\ peer.out \in Seq(Frames) /\ peer.await \in AtMostOne(Frames)
      /\ peer.repeats \in 0..MaxRepeats /\ peer.todo \in Seq(Seq(Bytes))
      /\ peer.served \in Seq(Seq(Bytes)) /\ peer.closed \in BOOLEAN
  BY DEF Types, TypeOK, Other
<1>4. call.deferred \in Seq(Wireable)
  BY <1>2, WireableFacts
<1>5. \A k \in 1..Len(peer.todo) : Sendable(peer.todo[k])
  BY <1>3 DEF Types
<1> QED BY <1>1, <1>2, <1>3, <1>4, <1>5 DEF Types, TypeOK, Listening, Waits

\* A step that changes only some of the transport's own state.
LEMMA TypesFromTester ==
    ASSUME Types,
           pc' \in {"idle", "send", "closed", "setup", "over", "ack", "recv", "alive", "timing"},
           txSeq' \in Seqs, part' \in Reassembler,
           msgs' \in Seq(Wireable), toPeer' \in Seq(Wireable), toTester' \in Seq(Wireable),
           connected' \in BOOLEAN, failed' \in BOOLEAN, spoilt' \in BOOLEAN,
           call' \in Call, call'.left <= call'.hard,
           sent' \in 0..Len(Requests), results' \in Seq(Seq(Bytes)),
           peer' = peer, upsets' \in 0..MaxUpsets,
           LastAsks(call'.job), pc' = "send" => call'.job # <<>>,
           pc' \in {"send", "ack", "recv", "alive"} => call'.due > 0,
           pc' = "alive" => call'.held # <<>>
    PROVE  Types'
<1>1. TypeOK'
  BY DEF Types, TypeOK, Listening, Waits
<1>2. \A k \in DOMAIN peer'.todo : Sendable(peer'.todo[k])
  BY DEF Types
<1>3. LastAsks(call.job)'
  BY DEF LastAsks
<1> QED BY <1>1, <1>2, <1>3 DEF Types, Waits

\* A step of the peer or the link.
LEMMA TypesFromPeer ==
    ASSUME Types, UNCHANGED tester,
           toPeer' \in Seq(Wireable), toTester' \in Seq(Wireable),
           peer' \in Other, \A k \in 1..Len(peer'.todo) : Sendable(peer'.todo[k]),
           spoilt' \in BOOLEAN, upsets' \in 0..MaxUpsets
    PROVE  Types'
<1>1. peer'.todo \in Seq(Seq(Bytes))
  BY DEF Other
<1>2. \A k \in DOMAIN peer'.todo : Sendable(peer'.todo[k])
  <2>1. DOMAIN peer'.todo = 1..Len(peer'.todo)
    BY <1>1
  <2> QED BY <2>1
<1>3. TypeOK'
  BY DEF Types, TypeOK, tester
<1> QED BY <1>2, <1>3 DEF Types, tester, LastAsks

LEMMA UpsetTypes ==
    ASSUME Types, NEW what, Upset(what) \/ Calm
    PROVE  spoilt' \in BOOLEAN /\ upsets' \in 0..MaxUpsets
<1>1. spoilt \in BOOLEAN /\ upsets \in 0..MaxUpsets /\ MaxUpsets \in Nat
  BY TypesOpen, TalkFacts
<1>2. spoilt' \in BOOLEAN
  BY <1>1, Zenon DEF Upset, Calm
<1>3. upsets' \in 0..MaxUpsets
  BY <1>1 DEF Upset, Calm
<1> QED BY <1>2, <1>3

LEMMA StartedType ==
    ASSUME NEW c \in Call
    PROVE  /\ Started(c) \in Call /\ Started(c).left <= Started(c).hard
           /\ Started(c).job = c.job /\ Started(c).due = c.due /\ Started(c).held = c.held
           /\ Started(c).deferred = c.deferred /\ Started(c).awaited = c.awaited
<1>1. Started(c).left = Timeout /\ Started(c).hard = HardTimeout
  BY DEF Call, Started
<1>2. /\ Started(c).job = c.job /\ Started(c).due = c.due /\ Started(c).held = c.held
      /\ Started(c).deferred = c.deferred /\ Started(c).awaited = c.awaited
  BY DEF Call, Started
<1>3. Timeout \in 0..Timeout /\ HardTimeout \in 0..HardTimeout /\ Timeout <= HardTimeout
  BY DEF Timeout, HardTimeout
<1>4. Started(c) \in Call
  BY <1>3 DEF Call, Started
<1> QED BY <1>1, <1>2, <1>3, <1>4

LEMMA RaiseTypes ==
    ASSUME Types, NEW rest \in Seq(Wireable), Raise(rest), toPeer' = toPeer, toTester' = toTester,
           peer' = peer, connected' \in BOOLEAN, spoilt' \in BOOLEAN, upsets' \in 0..MaxUpsets
    PROVE  Types'
<1>1. /\ pc' = "idle" /\ failed' = TRUE /\ call' = NoCall
      /\ msgs' = call.deferred \o rest
      /\ part' = Fresh(part.seq, part.acked)
      /\ txSeq' = txSeq /\ sent' = sent /\ results' = results
  BY DEF Raise
<1>2. msgs' \in Seq(Wireable) /\ part' \in Reassembler /\ call' \in Call /\ call'.left <= call'.hard
      /\ LastAsks(call'.job)
  <2>1. call.deferred \in Seq(Wireable) /\ part.seq \in Seqs /\ part.acked \in AtMostOne(Frames)
    BY TypesOpen
  <2>2. NoCall.left <= NoCall.hard /\ LastAsks(NoCall.job)
    BY DEF NoCall, LastAsks
  <2> QED BY <1>1, <2>1, <2>2, FreshFacts
<1> QED BY <1>1, <1>2, TypesOpen, TypesFromTester

LEMMA TypesBegin == Types /\ Begin => Types'
<1> SUFFICES ASSUME Types, Begin PROVE Types'
  OBVIOUS
<1> DEFINE job == SegmentMessage(Requests[sent + 1], txSeq, BlockSize)
           due == Len(Replies[sent + 1])
<1>1. /\ sent < Len(Requests) /\ sent' = sent + 1 /\ msgs' = Without(msgs, "ack") /\ pc' = "send"
      /\ call' = [NoCall EXCEPT !.job = job, !.due = due]
      /\ txSeq' = txSeq /\ part' = part /\ connected' = connected /\ results' = results
      /\ failed' = failed /\ toPeer' = toPeer /\ toTester' = toTester /\ peer' = peer
      /\ spoilt' = spoilt /\ upsets' = upsets
  BY DEF Begin, Calm
<1>2. sent \in Nat /\ sent + 1 \in 1..Len(Requests)
  <2>1. sent \in 0..Len(Requests) /\ Len(Requests) \in Nat
    BY TypesOpen, TalkFacts
  <2> QED BY <1>1, <2>1
<1>3. Sendable(Requests[sent + 1]) /\ due \in Nat /\ due >= 1
  BY <1>2, TalkFacts
<1>4. job \in Seq(Frames) /\ job # <<>> /\ LastAsks(job)
  <2>1. txSeq \in Seqs /\ BlockSize \in Nat
    BY TypesOpen, TalkFacts
  <2>2. job \in Seq(Frames) /\ Len(job) \in Nat \ {0} /\ Asks(job[Len(job)])
    BY <1>3, <2>1, SegmentFacts
  <2> HIDE DEF job
  <2> QED BY <2>2 DEF LastAsks
<1>5. msgs' \in Seq(Wireable)
  BY <1>1, TypesOpen, WithoutFacts
<1> HIDE DEF job, due
<1>6. NoCall \in Call
  BY FreshFacts
<1>7. call' \in Call /\ call'.left <= call'.hard /\ call'.job = job /\ call'.due = due
  <2>1. call' = [job |-> job, awaited |-> 0, due |-> due, held |-> <<>>,
                 deferred |-> <<>>, left |-> 0, hard |-> 0]
    BY <1>1 DEF NoCall
  <2>2. <<>> \in AtMostOne(Seq(Bytes)) /\ 0 \in Seqs /\ 0 \in 0..Timeout /\ 0 \in 0..HardTimeout
    BY FreshFacts DEF AtMostOne, Timeout, HardTimeout
  <2> QED BY <1>3, <1>4, <2>1, <2>2 DEF Call
<1> QED BY <1>1, <1>2, <1>3, <1>4, <1>5, <1>7, TypesOpen, TypesFromTester

LEMMA TypesTransmit == Types /\ Transmit => Types'
<1> SUFFICES ASSUME Types, Transmit PROVE Types'
  OBVIOUS
<1> DEFINE f == Head(call.job)
<1>1. /\ pc = "send" /\ toPeer' = Append(toPeer, f)
      /\ call' = [Started(call) EXCEPT !.job = Tail(@), !.awaited = f.seq]
      /\ pc' = (IF Asks(f) THEN "ack" ELSE "send")
      /\ txSeq' = txSeq /\ part' = part /\ msgs' = msgs /\ connected' = connected /\ sent' = sent
      /\ results' = results /\ failed' = failed /\ toTester' = toTester /\ peer' = peer
      /\ spoilt' = spoilt /\ upsets' = upsets
  BY DEF Transmit, Calm, Send
<1>2. call.job # <<>>
  BY <1>1, TypesOpen
<1>3. f \in Frames /\ Tail(call.job) \in Seq(Frames)
  BY <1>2, TypesOpen, TailFacts
<1>4. f \in Wireable /\ f.seq \in Seqs
  BY <1>3, WireableFacts
<1> HIDE DEF f
<1>5. /\ Started(call) \in Call /\ Started(call).left <= Started(call).hard
      /\ Started(call).due = call.due /\ Started(call).job = call.job
  BY TypesOpen, StartedType
<1>6. call' \in Call /\ call'.left <= call'.hard /\ call'.due = call.due /\ call'.job = Tail(call.job)
  BY <1>1, <1>3, <1>4, <1>5 DEF Call
<1>7. LastAsks(Tail(call.job)) /\ (~Asks(f) => Tail(call.job) # <<>>)
  <2>1. /\ Len(call.job) \in Nat \ {0} /\ f = call.job[1]
        /\ Len(Tail(call.job)) = Len(call.job) - 1
        /\ \A i \in DOMAIN Tail(call.job) : Tail(call.job)[i] = call.job[i + 1]
        /\ DOMAIN Tail(call.job) = 1..(Len(call.job) - 1)
    BY <1>2, TypesOpen, TailFacts DEF f
  <2>2. Asks(call.job[Len(call.job)])
    BY <1>2, TypesOpen DEF LastAsks
  <2>3. ~Asks(f) => Len(call.job) # 1
    BY <2>1, <2>2
  <2>4. Tail(call.job) # <<>> => Len(call.job) - 1 \in 1..(Len(call.job) - 1)
    BY <1>3, <2>1
  <2>5. Tail(call.job) # <<>> => Tail(call.job)[Len(call.job) - 1] = call.job[Len(call.job)]
    BY <2>1, <2>4
  <2>6. Tail(call.job) = <<>> <=> Len(Tail(call.job)) = 0
    BY <1>3, EmptySeq
  <2> QED BY <2>1, <2>2, <2>3, <2>5, <2>6 DEF LastAsks
<1>8. toPeer' \in Seq(Wireable)
  BY <1>1, <1>4, TypesOpen, AppendFacts
<1>9. /\ pc' \in {"idle", "send", "ack", "recv", "alive", "closed"} /\ pc' # "alive"
      /\ call'.due > 0 /\ LastAsks(call'.job) /\ (pc' = "send" => call'.job # <<>>)
  BY <1>1, <1>6, <1>7, TypesOpen
<1> QED BY <1>1, <1>6, <1>8, <1>9, TypesOpen, TypesFromTester

LEMMA TypesPull == Types /\ Pull => Types'
<1> SUFFICES ASSUME Types, Pull PROVE Types'
  OBVIOUS
<1>1. PICK n \in 1..Len(toTester) :
        /\ msgs' = Without(SubSeq(toTester, 1, n), "setup")
        /\ toTester' = SubSeq(toTester, n + 1, Len(toTester))
  BY DEF Pull
<1>2. /\ pc' = pc /\ call' = call /\ sent' = sent
      /\ txSeq' = txSeq /\ part' = part /\ connected' = connected /\ results' = results
      /\ failed' = failed /\ toPeer' = toPeer /\ peer' = peer
      /\ spoilt' = spoilt /\ upsets' = upsets
  BY DEF Pull, Calm
<1>3. SubSeq(toTester, 1, n) \in Seq(Wireable) /\ SubSeq(toTester, n + 1, Len(toTester)) \in Seq(Wireable)
  <2>1. /\ toTester \in Seq(Wireable) /\ n \in Nat /\ n + 1 \in Nat /\ Len(toTester) \in Nat
        /\ 1 <= n + 1 /\ n <= Len(toTester)
    BY TypesOpen
  <2> QED BY <2>1, WindowFacts
<1>4. msgs' \in Seq(Wireable) /\ toTester' \in Seq(Wireable)
  BY <1>1, <1>3, WithoutFacts
<1> QED BY <1>2, <1>4, TypesOpen, TypesFromTester

\* A frame is taken from the queue, and the call goes on with other deadlines.
LEMMA TypesMeets ==
    ASSUME Types, NEW stage, NEW k, Meets(stage, k)
    PROVE  /\ Head(msgs) \in Wireable /\ Head(msgs).kind = k /\ Tail(msgs) \in Seq(Wireable)
           /\ k = "data" => Head(msgs) \in Frames
           /\ toTester' = toTester /\ peer' = peer /\ pc = stage /\ call.left > 0
           /\ msgs # <<>> /\ call.left - 1 \in 0..Timeout /\ call.hard - 1 \in 0..HardTimeout
           /\ call.left - 1 <= call.hard - 1
<1>1. msgs # <<>> /\ toTester' = toTester /\ peer' = peer /\ pc = stage /\ call.left > 0 /\ Head(msgs).kind = k
  BY DEF Meets
<1>2. Head(msgs) \in Wireable /\ Tail(msgs) \in Seq(Wireable)
  BY <1>1, TypesOpen, TailFacts
<1>3. call.left \in 0..Timeout /\ call.hard \in 0..HardTimeout /\ call.left <= call.hard
  BY TypesOpen
<1> QED BY <1>1, <1>2, <1>3, WireableFacts DEF Timeout, HardTimeout

LEMMA DeadlineTypes ==
    ASSUME Types, call.left - 1 \in 0..Timeout, call.hard - 1 \in 0..HardTimeout,
           call.left - 1 <= call.hard - 1
    PROVE  \A c \in {Waited(call), Pinged(call)} :
             /\ c \in Call /\ c.left <= c.hard
             /\ c.job = call.job /\ c.due = call.due /\ c.held = call.held
             /\ c.deferred = call.deferred /\ c.awaited = call.awaited
<1> DEFINE left == Min({call.left, call.hard - 1})
<1>1. /\ call \in Call /\ call.left \in 0..Timeout /\ call.hard \in 0..HardTimeout
  BY TypesOpen
<1>2. left \in 0..Timeout /\ left <= call.hard - 1
  <2>1. call.left \in Int /\ call.hard - 1 \in Int
    BY <1>1
  <2>2. left \in {call.left, call.hard - 1} /\ left <= call.hard - 1 /\ left <= call.left
    <3>1. CASE call.left <= call.hard - 1
      BY <2>1, <3>1 DEF Min
    <3>2. CASE call.left > call.hard - 1
      BY <2>1, <3>2 DEF Min
    <3> QED BY <2>1, <3>1, <3>2
  <2> HIDE DEF left
  <2> QED BY <1>1, <2>1, <2>2
<1>3. Waited(call) = [call EXCEPT !.left = left, !.hard = call.hard - 1]
  BY <1>1 DEF Waited, Call
<1>4. Pinged(call) = [call EXCEPT !.left = call.left - 1, !.hard = call.hard - 1]
  BY <1>1 DEF Pinged, Call
<1> HIDE DEF left
<1>5. \A a \in 0..Timeout, b \in 0..HardTimeout :
        LET c == [call EXCEPT !.left = a, !.hard = b]
        IN  /\ c \in Call /\ c.left = a /\ c.hard = b
            /\ c.job = call.job /\ c.due = call.due /\ c.held = call.held
            /\ c.deferred = call.deferred /\ c.awaited = call.awaited
  BY <1>1 DEF Call
<1>6. Waited(call) \in Call /\ Waited(call).left <= Waited(call).hard
  <2>1. left \in 0..Timeout /\ call.hard - 1 \in 0..HardTimeout
    BY <1>1, <1>2
  <2> DEFINE c == [call EXCEPT !.left = left, !.hard = call.hard - 1]
  <2>2. c \in Call /\ c.left = left /\ c.hard = call.hard - 1
    BY <1>5, <2>1
  <2> QED BY <1>2, <1>3, <2>2
<1>7. Pinged(call) \in Call /\ Pinged(call).left <= Pinged(call).hard
  <2>1. call.left - 1 \in 0..Timeout /\ call.hard - 1 \in 0..HardTimeout /\ call.left - 1 <= call.hard - 1
    BY <1>1, <1>4
  <2> DEFINE c == [call EXCEPT !.left = call.left - 1, !.hard = call.hard - 1]
  <2>2. c \in Call /\ c.left = call.left - 1 /\ c.hard = call.hard - 1
    BY <1>5, <2>1
  <2> QED BY <1>4, <2>1, <2>2
<1>8. \A c \in {Waited(call), Pinged(call)} :
        /\ c.job = call.job /\ c.due = call.due /\ c.held = call.held
        /\ c.deferred = call.deferred /\ c.awaited = call.awaited
  <2>1. /\ Waited(call).job = call.job /\ Waited(call).due = call.due /\ Waited(call).held = call.held
        /\ Waited(call).deferred = call.deferred /\ Waited(call).awaited = call.awaited
    BY <1>1, <1>3 DEF Call
  <2>2. /\ Pinged(call).job = call.job /\ Pinged(call).due = call.due /\ Pinged(call).held = call.held
        /\ Pinged(call).deferred = call.deferred /\ Pinged(call).awaited = call.awaited
    BY <1>1, <1>4 DEF Call
  <2> QED BY <2>1, <2>2
<1> QED BY <1>6, <1>7, <1>8

LEMMA TypesWaits == Types /\ (WaitFrame \/ Ping \/ Closed \/ Ignored) => Types'
<1> SUFFICES ASSUME Types, WaitFrame \/ Ping \/ Closed \/ Ignored PROVE Types'
  OBVIOUS
<1>1. CASE WaitFrame
  <2>1. PICK stage \in Waits : Meets(stage, "wait")
    BY <1>1 DEF WaitFrame, Takes
  <2>2. /\ msgs' = Tail(msgs) /\ call' = Waited(call)
        /\ pc' = pc /\ txSeq' = txSeq /\ part' = part /\ connected' = connected /\ sent' = sent
        /\ results' = results /\ failed' = failed /\ toPeer' = toPeer
        /\ spoilt' = spoilt /\ upsets' = upsets
    BY <1>1 DEF WaitFrame, Takes, Calm
  <2>3. /\ msgs' \in Seq(Wireable) /\ toTester' = toTester /\ peer' = peer
        /\ call' \in Call /\ call'.left <= call'.hard
        /\ call'.job = call.job /\ call'.due = call.due /\ call'.held = call.held
    BY <2>1, <2>2, TypesMeets, DeadlineTypes
  <2> QED BY <2>2, <2>3, TypesOpen, TypesFromTester
<1>2. CASE Ping
  <2>1. PICK stage \in Waits : Meets(stage, "ping")
    BY <1>2 DEF Ping, Takes
  <2>2. /\ msgs' = Tail(msgs) /\ call' = Pinged(call) /\ toPeer' = Append(toPeer, Control("pong"))
        /\ pc' = pc /\ txSeq' = txSeq /\ part' = part /\ connected' = connected /\ sent' = sent
        /\ results' = results /\ failed' = failed
        /\ spoilt' = spoilt /\ upsets' = upsets
    BY <1>2 DEF Ping, Takes, Calm, Send
  <2>3. /\ msgs' \in Seq(Wireable) /\ toTester' = toTester /\ peer' = peer
        /\ call' \in Call /\ call'.left <= call'.hard
        /\ call'.job = call.job /\ call'.due = call.due /\ call'.held = call.held
    BY <2>1, <2>2, TypesMeets, DeadlineTypes
  <2>4. toPeer' \in Seq(Wireable)
    BY <2>2, TypesOpen, WireableFacts, AppendFacts
  <2> QED BY <2>2, <2>3, <2>4, TypesOpen, TypesFromTester
<1>3. CASE Closed
  <2>1. PICK stage \in Waits : Meets(stage, "close")
    BY <1>3 DEF Closed, Takes
  <2>2. /\ connected' = FALSE /\ Raise(Tail(msgs)) /\ toPeer' = toPeer
        /\ spoilt' = spoilt /\ upsets' = upsets
    BY <1>3 DEF Closed, Takes, Calm
  <2>3. Tail(msgs) \in Seq(Wireable) /\ toTester' = toTester /\ peer' = peer
    BY <2>1, TypesMeets
  <2>4. connected' \in BOOLEAN /\ spoilt' \in BOOLEAN /\ upsets' \in 0..MaxUpsets
    BY <2>2, TypesOpen
  <2> QED BY <2>2, <2>3, <2>4, RaiseTypes
<1>4. CASE Ignored
  <2>1. PICK stage, k : Meets(stage, k)
    BY <1>4 DEF Ignored, Takes
  <2>2. /\ msgs' = Tail(msgs) /\ call' = call
        /\ pc' = pc /\ txSeq' = txSeq /\ part' = part /\ connected' = connected /\ sent' = sent
        /\ results' = results /\ failed' = failed /\ toPeer' = toPeer
        /\ spoilt' = spoilt /\ upsets' = upsets
    BY <1>4 DEF Ignored, Takes, Calm
  <2>3. msgs' \in Seq(Wireable) /\ toTester' = toTester /\ peer' = peer
    BY <2>1, <2>2, TypesMeets
  <2> QED BY <2>2, <2>3, TypesOpen, TypesFromTester
<1> QED BY <1>1, <1>2, <1>3, <1>4

\* The frames that are left follow, or the client receives.
LEMMA AcknowledgedTypes ==
    ASSUME Types, Acknowledged, pc = "ack", msgs' \in Seq(Wireable), toTester' = toTester, peer' = peer,
           spoilt' \in BOOLEAN, upsets' \in 0..MaxUpsets
    PROVE  Types'
<1>1. /\ pc' = (IF call.job = <<>> THEN "recv" ELSE "send")
      /\ txSeq' = (IF call.job = <<>> THEN After(call.awaited) ELSE txSeq)
      /\ call' = Started(call)
      /\ part' = part /\ connected' = connected /\ sent' = sent /\ results' = results
      /\ failed' = failed /\ toPeer' = toPeer
  BY DEF Acknowledged
<1>2. txSeq' \in Seqs
  BY <1>1, TypesOpen, AfterFact
<1>3. call' \in Call /\ call'.left <= call'.hard /\ call'.job = call.job /\ call'.due = call.due
  BY <1>1, TypesOpen, StartedType
<1>4. pc' \in {"send", "recv"} /\ call.due > 0 /\ LastAsks(call'.job) /\ (pc' = "send" => call'.job # <<>>)
  BY <1>1, <1>3, TypesOpen
<1> QED BY <1>1, <1>2, <1>3, <1>4, TypesOpen, TypesFromTester

LEMMA TypesAcks == Types /\ (AckArrives \/ AckByData) => Types'
<1> SUFFICES ASSUME Types, AckArrives \/ AckByData PROVE Types'
  OBVIOUS
<1>1. CASE AckArrives
  <2>1. Meets("ack", "ack") /\ msgs' = Tail(msgs) /\ Acknowledged /\ Calm
    BY <1>1 DEF AckArrives, Takes
  <2>2. msgs' \in Seq(Wireable) /\ toTester' = toTester /\ peer' = peer /\ pc = "ack"
    BY <2>1, TypesMeets
  <2>3. spoilt' \in BOOLEAN /\ upsets' \in 0..MaxUpsets
    BY <2>1, UpsetTypes
  <2> QED BY <2>1, <2>2, <2>3, AcknowledgedTypes
<1>2. CASE AckByData
  <2>1. /\ Meets("ack", "data") /\ msgs' = Append(Tail(msgs), Head(msgs)) /\ Acknowledged
        /\ spoilt' = (spoilt \/ Overtaken) /\ upsets' = upsets
    BY <1>2 DEF AckByData
  <2>2. msgs' \in Seq(Wireable) /\ toTester' = toTester /\ peer' = peer /\ pc = "ack"
    BY <2>1, TypesMeets, AppendFacts
  <2>3. upsets' \in 0..MaxUpsets
    BY <2>1, TypesOpen
  <2>4. spoilt' \in BOOLEAN
    BY <2>1, Zenon
  <2> QED BY <2>1, <2>2, <2>3, <2>4, AcknowledgedTypes
<1> QED BY <1>1, <1>2

\* The call goes on with the next reply, or is over.
LEMMA ReturnedTypes ==
    ASSUME Types, NEW m \in Seq(Bytes), NEW rest \in Seq(Wireable), Returned(m, rest), pc # "send",
           pc \in Waits,
           part' \in Reassembler, toPeer' \in Seq(Wireable), toTester' = toTester, peer' = peer,
           UNCHANGED <<txSeq, connected, sent, failed, spoilt, upsets>>
    PROVE  Types'
<1>1. /\ results' = Append(results, m) /\ msgs' = rest
      /\ pc' = (IF call.due = 1 THEN "idle" ELSE "recv")
      /\ call' = IF call.due = 1 THEN NoCall
                 ELSE Started([call EXCEPT !.due = @ - 1, !.held = <<>>, !.deferred = <<>>])
  BY DEF Returned
<1>2. /\ call \in Call /\ call.due \in Nat /\ call.due > 0 /\ results \in Seq(Seq(Bytes)) /\ LastAsks(call.job)
  BY TypesOpen DEF Waits
<1>3. results' \in Seq(Seq(Bytes))
  BY <1>1, <1>2
<1>4. CASE call.due = 1
  <2>1. call' \in Call /\ call'.left <= call'.hard /\ LastAsks(call'.job) /\ pc' = "idle"
    BY <1>1, <1>4, FreshFacts DEF NoCall, LastAsks
  <2> QED BY <1>1, <1>3, <2>1, TypesOpen, TypesFromTester
<1>5. CASE call.due # 1
  <2> DEFINE c == [call EXCEPT !.due = @ - 1, !.held = <<>>, !.deferred = <<>>]
  <2>1. call.due - 1 \in Nat /\ call.due - 1 > 0 /\ <<>> \in AtMostOne(Seq(Bytes)) /\ <<>> \in Seq(Frames)
    BY <1>2, <1>5 DEF AtMostOne
  <2>2. c \in Call /\ c.due = call.due - 1 /\ c.job = call.job
    BY <1>2, <2>1 DEF Call
  <2> HIDE DEF c
  <2>3. call' = Started(c) /\ pc' = "recv"
    BY <1>1, <1>5 DEF c
  <2>4. call' \in Call /\ call'.left <= call'.hard /\ LastAsks(call'.job) /\ call'.due > 0
    BY <1>2, <2>1, <2>2, <2>3, StartedType
  <2> QED BY <1>1, <1>3, <2>3, <2>4, TypesOpen, TypesFromTester
<1> QED BY <1>4, <1>5

LEMMA TypesRecvData == Types /\ RecvData => Types'
<1> SUFFICES ASSUME Types, RecvData PROVE Types'
  OBVIOUS
<1> DEFINE f == Head(msgs)
           whole == Delivered(part, f)
           answer == IF Asks(f) THEN <<Ack(f.seq)>> ELSE <<>>
<1>1. Meets("recv", "data") /\ connected' = connected /\ spoilt' = spoilt /\ upsets' = upsets
  BY DEF RecvData, Takes, Calm
<1>2. /\ f \in Frames /\ Tail(msgs) \in Seq(Wireable) /\ toTester' = toTester /\ peer' = peer /\ pc = "recv"
      /\ call.left > 0
  BY <1>1, TypesMeets
<1>3. Fed(part, f) \in Reassembler /\ whole \in AtMostOne(Seq(Bytes))
  BY <1>2, TypesOpen, FedFacts
<1>4. answer \in Seq(Wireable)
  <2>1. Ack(f.seq) \in Wireable
    BY <1>2, WireableFacts
  <2> QED BY <2>1
<1>5. toPeer \o answer \in Seq(Wireable) /\ toPeer \o answer \o <<Control("ping")>> \in Seq(Wireable)
  <2>1. toPeer \in Seq(Wireable) /\ Control("ping") \in Wireable
    BY TypesOpen, WireableFacts
  <2> HIDE DEF answer
  <2>2. toPeer \o answer \in Seq(Wireable)
    BY <1>4, <2>1
  <2>3. <<Control("ping")>> \in Seq(Wireable)
    BY <2>1
  <2> QED BY <2>2, <2>3
<1>6. CASE Wrong(part, f) /\ Raise(Tail(msgs)) /\ toPeer' = toPeer
  <2>1. connected' \in BOOLEAN /\ spoilt' \in BOOLEAN /\ upsets' \in 0..MaxUpsets
    BY <1>1, TypesOpen
  <2> QED BY <1>2, <1>6, <2>1, RaiseTypes
<1>7. CASE /\ part' = Fed(part, f) /\ toPeer' = toPeer \o answer
           /\ msgs' = Tail(msgs)
           /\ UNCHANGED <<pc, txSeq, call, sent, results, failed>>
  BY <1>1, <1>2, <1>3, <1>5, <1>7, TypesOpen, TypesFromTester
<1>8. CASE /\ whole # <<>> /\ part' = Fed(part, f) /\ toPeer' = toPeer \o answer
           /\ Returned(whole[1], Tail(msgs))
           /\ UNCHANGED <<txSeq, sent, failed>>
  <2>1. whole[1] \in Seq(Bytes)
    BY <1>3, <1>8 DEF AtMostOne
  <2> HIDE DEF whole
  <2> QED BY <1>1, <1>2, <1>3, <1>5, <1>8, <2>1, ReturnedTypes DEF Waits
<1>9. CASE /\ whole # <<>>
           /\ part' = Fed(part, f) /\ toPeer' = toPeer \o answer \o <<Control("ping")>>
           /\ msgs' = Tail(msgs) /\ pc' = "alive"
           /\ call' = [Started(call) EXCEPT !.held = whole]
           /\ UNCHANGED <<txSeq, sent, results, failed>>
  <2>1. /\ Started(call) \in Call /\ Started(call).left <= Started(call).hard
        /\ Started(call).due = call.due /\ Started(call).job = call.job
    BY TypesOpen, StartedType
  <2> HIDE DEF whole
  <2>2. /\ call' \in Call /\ call'.left <= call'.hard /\ call'.held = whole
        /\ call'.due = call.due /\ call'.job = call.job
    BY <1>3, <1>9, <2>1 DEF Call
  <2>3. call'.due > 0 /\ LastAsks(call'.job) /\ call'.held # <<>>
    BY <1>2, <1>9, <2>2, TypesOpen
  <2> QED BY <1>1, <1>2, <1>3, <1>5, <1>9, <2>2, <2>3, TypesOpen, TypesFromTester
<1> QED BY <1>6, <1>7, <1>8, <1>9 DEF RecvData

LEMMA TypesAlive == Types /\ (Alive \/ Defer) => Types'
<1> SUFFICES ASSUME Types, Alive \/ Defer PROVE Types'
  OBVIOUS
<1>1. CASE Alive
  <2>1. /\ Meets("alive", "pong") /\ Returned(call.held[1], PutBack(call.deferred, Tail(msgs)))
        /\ UNCHANGED <<txSeq, part, connected, sent, failed, toPeer>>
        /\ spoilt' = spoilt /\ upsets' = upsets
    BY <1>1 DEF Alive, Takes, Calm
  <2>2. Tail(msgs) \in Seq(Wireable) /\ toTester' = toTester /\ peer' = peer /\ pc = "alive"
    BY <2>1, TypesMeets
  <2>3. PutBack(call.deferred, Tail(msgs)) \in Seq(Wireable)
    BY <2>2, TypesOpen DEF PutBack
  <2>4. call.held[1] \in Seq(Bytes)
    <3>1. call.held \in Seq(Seq(Bytes)) /\ call.held # <<>>
      BY <2>2, TypesOpen DEF AtMostOne
    <3> QED BY <3>1
  <2>5. part' \in Reassembler /\ toPeer' \in Seq(Wireable)
    BY <2>1, TypesOpen
  <2> QED BY <2>1, <2>2, <2>3, <2>4, <2>5, ReturnedTypes DEF Waits
<1>2. CASE Defer
  <2>1. /\ Meets("alive", "data") /\ msgs' = Tail(msgs)
        /\ call' = [call EXCEPT !.deferred = Append(@, Head(msgs))]
        /\ UNCHANGED <<pc, txSeq, part, connected, sent, results, failed, toPeer>>
        /\ spoilt' = spoilt /\ upsets' = upsets
    BY <1>2 DEF Defer, Takes, Calm
  <2>2. Tail(msgs) \in Seq(Wireable) /\ toTester' = toTester /\ peer' = peer /\ pc = "alive" /\ Head(msgs) \in Frames
    BY <2>1, TypesMeets
  <2>3. Append(call.deferred, Head(msgs)) \in Seq(Frames) /\ call \in Call
    BY <2>2, TypesOpen, AppendFacts
  <2>4. /\ call' \in Call /\ call'.left = call.left /\ call'.hard = call.hard
        /\ call'.held = call.held /\ call'.due = call.due /\ call'.job = call.job
    BY <2>1, <2>3 DEF Call
  <2> QED BY <2>1, <2>2, <2>4, TypesOpen, TypesFromTester
<1> QED BY <1>1, <1>2

LEMMA TypesEnds == Types /\ (TimeOut \/ Disconnect) => Types'
<1> SUFFICES ASSUME Types, TimeOut \/ Disconnect PROVE Types'
  OBVIOUS
<1>1. CASE TimeOut
  <2>1. Raise(msgs) /\ UNCHANGED <<connected, toPeer, toTester, peer>> /\ (Calm \/ Upset("late"))
    BY <1>1 DEF TimeOut
  <2>2. spoilt' \in BOOLEAN /\ upsets' \in 0..MaxUpsets
    BY <2>1, UpsetTypes
  <2> QED BY <2>1, <2>2, TypesOpen, RaiseTypes
<1>2. CASE Disconnect
  <2>1. /\ toPeer' = Append(toPeer, Control("close")) /\ connected' = FALSE /\ pc' = "closed"
        /\ UNCHANGED <<txSeq, part, msgs, call, sent, results, failed, toTester, peer>>
        /\ spoilt' = spoilt /\ upsets' = upsets
    BY <1>2 DEF Disconnect, Send, Calm
  <2>2. toPeer' \in Seq(Wireable)
    BY <2>1, TypesOpen, WireableFacts, AppendFacts
  <2> QED BY <2>1, <2>2, TypesOpen, TypesFromTester
<1> QED BY <1>1, <1>2

\* The peer takes a frame from the tester.
LEMMA TypesPeerTakes ==
    ASSUME Types, NEW k, PeerTakes(k)
    PROVE  /\ Head(toPeer) \in Wireable /\ Head(toPeer).kind = k /\ toPeer' \in Seq(Wireable)
           /\ k = "data" => Head(toPeer) \in Frames
           /\ k = "ack" => Head(toPeer).seq \in Seqs
           /\ UNCHANGED tester
<1>1. toPeer # <<>> /\ toPeer' = Tail(toPeer) /\ UNCHANGED tester /\ Head(toPeer).kind = k
  BY DEF PeerTakes
<1>2. Head(toPeer) \in Wireable /\ Tail(toPeer) \in Seq(Wireable)
  BY <1>1, TypesOpen, TailFacts
<1> QED BY <1>1, <1>2, WireableFacts

LEMMA TypesPeerData == Types /\ PeerData => Types'
<1> SUFFICES ASSUME Types, PeerData PROVE Types'
  OBVIOUS
<1> DEFINE f == Head(toPeer)
           whole == Delivered(peer.in, f)
           replies == IF whole # <<>> /\ whole[1] \in Range(Requests)
                        THEN Replies[CHOOSE k \in DOMAIN Requests : Requests[k] = whole[1]]
                        ELSE <<>>
<1>1. PeerTakes("data") /\ spoilt' = spoilt /\ upsets' = upsets
  BY DEF PeerData, Calm
<1>2. f \in Frames /\ toPeer' \in Seq(Wireable) /\ UNCHANGED tester
  BY <1>1, TypesPeerTakes
<1>3. Fed(peer.in, f) \in Reassembler /\ whole \in AtMostOne(Seq(Bytes))
  BY <1>2, TypesOpen, FedFacts
<1>4. replies \in Seq(Seq(Bytes)) /\ \A j \in 1..Len(replies) : Sendable(replies[j])
  <2>1. CASE whole # <<>> /\ whole[1] \in Range(Requests)
    <3> DEFINE k == CHOOSE k \in DOMAIN Requests : Requests[k] = whole[1]
    <3>1. \E k_ \in DOMAIN Requests : Requests[k_] = whole[1]
      BY <2>1 DEF Range
    <3>2. k \in DOMAIN Requests
      BY <3>1
    <3>3. DOMAIN Requests = 1..Len(Requests)
      BY TransportAssumption
    <3>4. replies = Replies[k]
      BY <2>1
    <3> HIDE DEF k
    <3> QED BY <3>2, <3>3, <3>4, TalkFacts
  <2>2. CASE ~(whole # <<>> /\ whole[1] \in Range(Requests))
    BY <2>2
  <2> QED BY <2>1, <2>2
<1>5. f.kind = "data" /\ <<Ack(f.seq)>> \in Seq(Wireable) /\ <<>> \in Seq(Wireable)
  <2>1. Ack(f.seq) \in Wireable
    BY <1>2, WireableFacts
  <2> QED BY <1>2, <2>1, WireableFacts
<1> HIDE DEF replies, whole
<1>6. CASE UNCHANGED <<peer, toTester>>
  BY <1>1, <1>2, <1>6, TypesOpen, TypesFromPeer
<1>7. CASE /\ peer' = [peer EXCEPT !.in = Fed(@, f), !.todo = @ \o replies, !.served = @ \o whole]
           /\ toTester' = toTester \o (IF Asks(f) THEN <<Ack(f.seq)>> ELSE <<>>) \/ toTester' = toTester
  <2>1. toTester' \in Seq(Wireable)
    <3> DEFINE answer == IF Asks(f) THEN <<Ack(f.seq)>> ELSE <<>>
    <3>1. answer \in Seq(Wireable) /\ toTester \in Seq(Wireable)
      BY <1>5, TypesOpen
    <3>2. toTester' = toTester \o answer \/ toTester' = toTester
      BY <1>7
    <3> HIDE DEF answer
    <3>3. toTester \o answer \in Seq(Wireable)
      BY <3>1, ConcatFacts
    <3> QED BY <3>1, <3>2, <3>3
  <2>2. /\ peer \in Other /\ peer.todo \in Seq(Seq(Bytes)) /\ peer.served \in Seq(Seq(Bytes))
        /\ \A k \in 1..Len(peer.todo) : Sendable(peer.todo[k])
    BY TypesOpen
  <2>3. peer.served \o whole \in Seq(Seq(Bytes))
    BY <1>3, <2>2 DEF AtMostOne
  <2>4. /\ peer.todo \o replies \in Seq(Seq(Bytes))
        /\ \A k \in 1..Len(peer.todo \o replies) : Sendable((peer.todo \o replies)[k])
    <3>1. /\ peer.todo \o replies \in Seq(Seq(Bytes))
          /\ Len(peer.todo \o replies) = Len(peer.todo) + Len(replies)
          /\ \A i \in 1..Len(peer.todo) : (peer.todo \o replies)[i] = peer.todo[i]
          /\ \A i \in 1..Len(replies) : (peer.todo \o replies)[Len(peer.todo) + i] = replies[i]
          /\ Len(peer.todo) \in Nat /\ Len(replies) \in Nat
      BY <1>4, <2>2, ConcatFacts
    <3> SUFFICES ASSUME NEW k \in 1..Len(peer.todo \o replies)
                 PROVE  Sendable((peer.todo \o replies)[k])
      BY <3>1
    <3>2. CASE k <= Len(peer.todo)
      BY <2>2, <3>1, <3>2
    <3>3. CASE k > Len(peer.todo)
      <4>1. k - Len(peer.todo) \in 1..Len(replies) /\ Len(peer.todo) + (k - Len(peer.todo)) = k
        BY <3>1, <3>3
      <4> QED BY <1>4, <3>1, <4>1
    <3> QED BY <3>1, <3>2, <3>3
  <2>5. peer' \in Other /\ peer'.todo = peer.todo \o replies
    <3> HIDE DEF f
    <3> QED BY <1>3, <1>7, <2>2, <2>3, <2>4 DEF Other
  <2>6. spoilt' \in BOOLEAN /\ upsets' \in 0..MaxUpsets
    BY <1>1, TypesOpen
  <2> QED BY <1>2, <2>1, <2>4, <2>5, <2>6, TypesFromPeer
<1> QED BY <1>6, <1>7 DEF PeerData, ToTester, f, whole, replies

\* The other steps of the peer change less of it.
LEMMA PeerStateTypes ==
    ASSUME Types, UNCHANGED tester, toPeer' \in Seq(Wireable), toTester' \in Seq(Wireable),
           Calm \/ \E what : Upset(what),
           peer' \in Other, peer'.todo = peer.todo
    PROVE  Types'
<1>1. spoilt' \in BOOLEAN /\ upsets' \in 0..MaxUpsets
  BY UpsetTypes
<1> QED BY <1>1, TypesOpen, TypesFromPeer

LEMMA TypesAnswering ==
    Types /\ (PeerAcked \/ PeerPinged \/ PeerPonged \/ PeerClosed \/ PeerRepeats \/ Unheard) => Types'
<1> SUFFICES ASSUME Types, PeerAcked \/ PeerPinged \/ PeerPonged \/ PeerClosed \/ PeerRepeats \/ Unheard
             PROVE Types'
  OBVIOUS
<1>0. /\ peer \in Other /\ toTester \in Seq(Wireable) /\ toPeer \in Seq(Wireable)
      /\ peer.await \in AtMostOne(Frames) /\ peer.repeats \in 0..MaxRepeats /\ MaxRepeats \in Nat
  BY TypesOpen, TalkFacts
<1>1. CASE PeerAcked
  <2>1. PeerTakes("ack") /\ Calm /\ toTester' = toTester
    BY <1>1 DEF PeerAcked
  <2>2. peer' = [peer EXCEPT !.await = <<>>, !.repeats = 0] \/ peer' = peer
    BY <1>1 DEF PeerAcked
  <2>3. <<>> \in AtMostOne(Frames) /\ 0 \in 0..MaxRepeats
    BY <1>0 DEF AtMostOne
  <2>4. peer' \in Other /\ peer'.todo = peer.todo
    BY <1>0, <2>2, <2>3 DEF Other
  <2> QED BY <1>0, <2>1, <2>4, TypesPeerTakes, PeerStateTypes
<1>2. CASE PeerPinged
  <2>1. PeerTakes("ping") /\ Calm /\ toTester' = toTester \o <<Control("pong")>> /\ peer' = peer
    BY <1>2 DEF PeerPinged, ToTester
  <2>2. toTester' \in Seq(Wireable)
    BY <1>0, <2>1, WireableFacts
  <2> QED BY <1>0, <2>1, <2>2, TypesPeerTakes, PeerStateTypes
<1>3. CASE PeerPonged
  <2>1. PeerTakes("pong") /\ Calm /\ toTester' = toTester /\ peer' = peer
    BY <1>3 DEF PeerPonged
  <2> QED BY <1>0, <2>1, TypesPeerTakes, PeerStateTypes
<1>4. CASE PeerClosed
  <2>1. PeerTakes("close") /\ Calm /\ toTester' = toTester /\ peer' = [peer EXCEPT !.closed = TRUE]
    BY <1>4 DEF PeerClosed
  <2>2. peer' \in Other /\ peer'.todo = peer.todo
    BY <1>0, <2>1 DEF Other
  <2> QED BY <1>0, <2>1, <2>2, TypesPeerTakes, PeerStateTypes
<1>5. CASE PeerRepeats
  <2>1. /\ peer.repeats < MaxRepeats /\ toTester' = toTester \o peer.await
        /\ peer' = [peer EXCEPT !.repeats = @ + 1] /\ Calm /\ UNCHANGED <<tester, toPeer>>
    BY <1>5 DEF PeerRepeats, ToTester
  <2>2. peer.repeats + 1 \in 0..MaxRepeats
    BY <1>0, <2>1
  <2>3. peer' \in Other /\ peer'.todo = peer.todo
    BY <1>0, <2>1, <2>2 DEF Other
  <2>4. toTester' \in Seq(Wireable)
    <3>1. peer.await \in Seq(Wireable)
      BY <1>0, WireableFacts DEF AtMostOne
    <3> QED BY <1>0, <2>1, <3>1
  <2> QED BY <1>0, <2>1, <2>3, <2>4, PeerStateTypes
<1>6. CASE Unheard
  <2>1. toPeer # <<>> /\ toPeer' = Tail(toPeer) /\ Calm /\ UNCHANGED <<tester, toTester, peer>>
    BY <1>6 DEF Unheard
  <2>2. toPeer' \in Seq(Wireable)
    BY <1>0, <2>1, TailFacts
  <2> QED BY <1>0, <2>1, <2>2, PeerStateTypes
<1> QED BY <1>1, <1>2, <1>3, <1>4, <1>5, <1>6

\* The frames from which PeerSends takes the next.
Outgoing == IF peer.out # <<>> THEN peer.out ELSE SegmentMessage(Head(peer.todo), peer.tx, PeerBlock)

LEMMA OutgoingFacts ==
    ASSUME Types, peer.out # <<>> \/ peer.todo # <<>>
    PROVE  Outgoing \in Seq(Frames) /\ Outgoing # <<>>
<1>1. CASE peer.out # <<>>
  BY <1>1, TypesOpen DEF Outgoing
<1>2. CASE peer.out = <<>>
  <2>1. peer.todo \in Seq(Seq(Bytes)) /\ peer.todo # <<>>
    BY <1>2, TypesOpen
  <2>2. Sendable(Head(peer.todo))
    <3>1. 1 \in 1..Len(peer.todo) /\ Head(peer.todo) = peer.todo[1]
      BY <2>1
    <3> QED BY <3>1, TypesOpen
  <2>3. /\ SegmentMessage(Head(peer.todo), peer.tx, PeerBlock) \in Seq(Frames)
        /\ Len(SegmentMessage(Head(peer.todo), peer.tx, PeerBlock)) \in Nat \ {0}
    <3> DEFINE m == Head(peer.todo)
               n == peer.tx
    <3>1. n \in Seqs /\ PeerBlock \in Nat /\ Sendable(m)
      BY <2>2, TypesOpen, TalkFacts
    <3> HIDE DEF m, n
    <3>2. SegmentMessage(m, n, PeerBlock) \in Seq(Frames) /\ Len(SegmentMessage(m, n, PeerBlock)) \in Nat \ {0}
      BY <3>1, SegmentFacts
    <3> QED BY <3>2 DEF m, n
  <2>4. Outgoing = SegmentMessage(Head(peer.todo), peer.tx, PeerBlock)
    BY <1>2 DEF Outgoing
  <2> QED BY <2>3, <2>4, EmptySeq
<1> QED BY <1>1, <1>2

LEMMA TypesPeerSends == Types /\ PeerSends => Types'
<1> SUFFICES ASSUME Types, PeerSends PROVE Types'
  OBVIOUS
<1> DEFINE f == Head(Outgoing)
           todo == IF peer.out # <<>> THEN peer.todo ELSE Tail(peer.todo)
           await == IF Asks(f) THEN <<f>> ELSE <<>>
<1>1. /\ peer.out # <<>> \/ peer.todo # <<>>
      /\ toTester' = toTester \o <<f>>
      /\ peer' = [peer EXCEPT !.out = Tail(Outgoing), !.tx = After(f.seq), !.todo = todo, !.await = await]
      /\ Calm /\ UNCHANGED <<tester, toPeer>>
  BY DEF PeerSends, ToTester, Outgoing
<1>2. f \in Frames /\ Tail(Outgoing) \in Seq(Frames)
  BY <1>1, OutgoingFacts, TailFacts
<1>3. f.seq \in Seqs /\ f \in Wireable
  BY <1>2, WireableFacts
<1>4. await \in AtMostOne(Frames) /\ After(f.seq) \in Seqs
  BY <1>2, <1>3, FreshFacts, AfterFact
<1>5. todo \in Seq(Seq(Bytes)) /\ \A k \in 1..Len(todo) : Sendable(todo[k])
  <2>1. peer.todo \in Seq(Seq(Bytes)) /\ \A k \in 1..Len(peer.todo) : Sendable(peer.todo[k])
    BY TypesOpen
  <2>2. CASE peer.out # <<>>
    BY <2>1, <2>2
  <2>3. CASE peer.out = <<>>
    <3>1. peer.todo # <<>> /\ todo = Tail(peer.todo)
      BY <1>1, <2>3
    <3>2. /\ Tail(peer.todo) \in Seq(Seq(Bytes)) /\ DOMAIN Tail(peer.todo) = 1..Len(Tail(peer.todo))
          /\ \A i \in DOMAIN Tail(peer.todo) : i + 1 \in 1..Len(peer.todo) /\ Tail(peer.todo)[i] = peer.todo[i + 1]
      BY <2>1, <3>1, TailFacts
    <3> HIDE DEF todo
    <3> QED BY <2>1, <3>1, <3>2
  <2> QED BY <2>2, <2>3
<1> HIDE DEF todo, await, f
<1>6. peer' \in Other /\ peer'.todo = todo
  BY <1>1, <1>2, <1>4, <1>5, TypesOpen DEF Other
<1>7. toTester' \in Seq(Wireable)
  BY <1>1, <1>3, TypesOpen
<1>8. spoilt' \in BOOLEAN /\ upsets' \in 0..MaxUpsets
  BY <1>1, UpsetTypes
<1> QED BY <1>1, <1>5, <1>6, <1>7, <1>8, TypesOpen, TypesFromPeer

LEMMA TypesBefalling == Types /\ Befalling => Types'
<1> SUFFICES ASSUME Types, Befalling PROVE Types'
  OBVIOUS
<1>0. peer \in Other /\ toTester \in Seq(Wireable) /\ toPeer \in Seq(Wireable)
  BY TypesOpen
<1>1. CASE PeerAsks
  <2>1. PICK k \in {"wait", "ping"} :
          /\ toTester' = toTester \o <<Control(k)>> /\ Upset(k) /\ UNCHANGED <<tester, toPeer, peer>>
    BY <1>1 DEF PeerAsks, ToTester
  <2>2. toTester' \in Seq(Wireable)
    <3>1. Control(k) \in Wireable
      BY WireableFacts
    <3> QED BY <1>0, <2>1, <3>1
  <2> QED BY <1>0, <2>1, <2>2, PeerStateTypes
<1>2. CASE PeerCloses
  <2>1. /\ toTester' = toTester \o <<Control("close")>> /\ Upset("close") /\ UNCHANGED <<tester, toPeer>>
        /\ peer' = [peer EXCEPT !.closed = TRUE]
    BY <1>2 DEF PeerCloses, ToTester
  <2>2. toTester' \in Seq(Wireable)
    BY <1>0, <2>1, WireableFacts
  <2>3. peer' \in Other /\ peer'.todo = peer.todo
    BY <1>0, <2>1 DEF Other
  <2> QED BY <1>0, <2>1, <2>2, <2>3, PeerStateTypes
<1>3. CASE LoseToPeer
  <2>1. toPeer # <<>> /\ toPeer' = Tail(toPeer) /\ UNCHANGED <<tester, toTester, peer>> /\ \E what : Upset(what)
    BY <1>3 DEF LoseToPeer
  <2>2. toPeer' \in Seq(Wireable)
    BY <1>0, <2>1, TailFacts
  <2> QED BY <1>0, <2>1, <2>2, PeerStateTypes
<1>4. CASE LoseToTester
  <2>1. toTester # <<>> /\ toTester' = Tail(toTester) /\ UNCHANGED <<tester, toPeer, peer>> /\ Upset("loseFrame")
    BY <1>4 DEF LoseToTester
  <2>2. toTester' \in Seq(Wireable)
    BY <1>0, <2>1, TailFacts
  <2> QED BY <1>0, <2>1, <2>2, PeerStateTypes
<1> QED BY <1>1, <1>2, <1>3, <1>4 DEF Befalling

LEMMA TypesStep == Types /\ [Next]_vars => Types'
<1> SUFFICES ASSUME Types, [Next]_vars PROVE Types'
  OBVIOUS
<1>1. CASE Tester
  BY <1>1, TypesBegin, TypesTransmit, TypesPull, TypesWaits, TypesAcks, TypesRecvData, TypesAlive,
     TypesEnds DEF Tester
<1>2. CASE Peer
  BY <1>2, TypesPeerData, TypesAnswering, TypesPeerSends, TypesBefalling DEF Peer, Answering
<1>3. CASE UNCHANGED vars
  <2>1. UNCHANGED tester /\ UNCHANGED <<toPeer, toTester, peer, upsets, spoilt>>
    BY <1>3 DEF vars
  <2> QED BY <2>1, TypesOpen, PeerStateTypes DEF Calm
<1> QED BY <1>1, <1>2, <1>3 DEF Next

\* Every queue holds only frames of the protocol, sequence numbers stay below their bound,
\* the deadlines within the timeouts, and a call keeps at most one result: in every
\* execution, whatever the link and the peer do.
THEOREM TypesHold == Spec => []TypeOK
<1>1. Types => TypeOK
  BY DEF Types
<1> QED BY <1>1, TypesInit, TypesStep, PTL DEF Spec

--------------------------------------------------------------------------------
(***************************************************************************)
(* What queues hold, when they lose or gain a frame.                       *)
(***************************************************************************)

LEMMA AcksTail ==
    ASSUME NEW q \in Seq(Wireable), q # <<>>, NEW n, NEW low, NEW high, Acks(q, n, low, high)
    PROVE  Acks(Tail(q), n, low, high)
<1>1. /\ DOMAIN Tail(q) = 1..(Len(q) - 1) /\ DOMAIN q = 1..Len(q)
      /\ \A i \in DOMAIN Tail(q) : i + 1 \in DOMAIN q /\ Tail(q)[i] = q[i + 1]
  BY TailFacts
<1>2. \A a \in DOMAIN Tail(q) : Tail(q)[a].kind = "ack" => Ahead(n, Tail(q)[a].seq) \in low..high
  BY <1>1 DEF Acks
<1>3. ASSUME NEW a \in DOMAIN Tail(q), NEW b \in DOMAIN Tail(q), a < b,
             Tail(q)[a].kind = "ack", Tail(q)[b].kind = "ack"
      PROVE  Ahead(n, Tail(q)[b].seq) <= Ahead(n, Tail(q)[a].seq)
  <2>1. a + 1 \in DOMAIN q /\ b + 1 \in DOMAIN q /\ a + 1 < b + 1 /\ Tail(q)[a] = q[a + 1] /\ Tail(q)[b] = q[b + 1]
    BY <1>1, <1>3
  <2> QED BY <1>3, <2>1 DEF Acks
<1> QED BY <1>2, <1>3 DEF Acks

LEMMA AcksOther ==
    ASSUME NEW q \in Seq(Wireable), NEW f \in Wireable, f.kind # "ack",
           NEW n, NEW low, NEW high, Acks(q, n, low, high)
    PROVE  Acks(Append(q, f), n, low, high)
<1>1. /\ \A i \in DOMAIN Append(q, f) : i \in DOMAIN q \/ i = Len(q) + 1
      /\ \A i \in DOMAIN q : Append(q, f)[i] = q[i]
      /\ Append(q, f)[Len(q) + 1] = f
  BY AppendFacts
<1>2. \A i \in DOMAIN Append(q, f) : Append(q, f)[i].kind = "ack" => i \in DOMAIN q /\ Append(q, f)[i] = q[i]
  BY <1>1
<1> QED BY <1>2 DEF Acks

\* An ACK of the lowest number is added.
LEMMA AcksLowest ==
    ASSUME NEW q \in Seq(Wireable), NEW f \in Wireable, f.kind = "ack",
           NEW n \in Seqs, NEW low \in Int, NEW high \in Int, low <= high, Ahead(n, f.seq) = low,
           Acks(q, n, low, high)
    PROVE  Acks(Append(q, f), n, low, high)
<1>1. /\ \A i \in DOMAIN Append(q, f) : i \in DOMAIN q \/ i = Len(q) + 1
      /\ \A i \in DOMAIN q : Append(q, f)[i] = q[i] /\ i <= Len(q)
      /\ Append(q, f)[Len(q) + 1] = f
      /\ Len(q) \in Nat /\ DOMAIN q \subseteq Nat
  BY AppendFacts
<1>2. ASSUME NEW a \in DOMAIN Append(q, f), Append(q, f)[a].kind = "ack"
      PROVE  Ahead(n, Append(q, f)[a].seq) \in low..high
  <2>1. CASE a \in DOMAIN q
    BY <1>1, <1>2, <2>1 DEF Acks
  <2>2. CASE a = Len(q) + 1
    BY <1>1, <2>2
  <2> QED BY <1>1, <2>1, <2>2
<1>3. ASSUME NEW a \in DOMAIN Append(q, f), NEW b \in DOMAIN Append(q, f), a < b,
             Append(q, f)[a].kind = "ack", Append(q, f)[b].kind = "ack"
      PROVE  Ahead(n, Append(q, f)[b].seq) <= Ahead(n, Append(q, f)[a].seq)
  <2>1. a \in DOMAIN q
    BY <1>1, <1>3
  <2>2. CASE b \in DOMAIN q
    BY <1>1, <1>3, <2>1, <2>2 DEF Acks
  <2>3. CASE b = Len(q) + 1
    BY <1>1, <1>2, <1>3, <2>3
  <2> QED BY <1>1, <2>2, <2>3
<1> QED BY <1>2, <1>3 DEF Acks

LEMMA AcksWider ==
    ASSUME NEW q, NEW n, NEW low \in Int, NEW high \in Int, NEW least \in Int, NEW most \in Int,
           Acks(q, n, low, high), least <= low, high <= most
    PROVE  Acks(q, n, least, most)
  BY DEF Acks

\* Behind an ACK that is up to date are only such.
LEMMA AcksCurrent ==
    ASSUME NEW q \in Seq(Wireable), q # <<>>, NEW n \in Seqs, NEW low \in Int, NEW high \in Int,
           Acks(q, n, low, high), Head(q).kind = "ack", Ahead(n, Head(q).seq) = 0
    PROVE  low <= 0 /\ 0 <= high /\ Acks(Tail(q), n, 0, 0)
<1>1. /\ DOMAIN Tail(q) = 1..(Len(q) - 1) /\ DOMAIN q = 1..Len(q) /\ Tail(q) \in Seq(Wireable)
      /\ \A i \in DOMAIN Tail(q) : i + 1 \in DOMAIN q /\ Tail(q)[i] = q[i + 1]
      /\ Head(q) = q[1] /\ 1 \in DOMAIN q
  BY TailFacts
<1>2. 0 \in low..high
  BY <1>1 DEF Acks
<1>3. Acks(Tail(q), n, low, high)
  BY AcksTail
<1>4. ASSUME NEW a \in DOMAIN Tail(q), Tail(q)[a].kind = "ack"
      PROVE  Ahead(n, Tail(q)[a].seq) = 0
  <2>1. a + 1 \in DOMAIN q /\ 1 < a + 1 /\ Tail(q)[a] = q[a + 1]
    BY <1>1
  <2>2. Ahead(n, Tail(q)[a].seq) <= 0
    BY <1>1, <1>4, <2>1 DEF Acks
  <2>3. Tail(q)[a] \in Wireable
    BY <1>1
  <2>4. Ahead(n, Tail(q)[a].seq) \in Seqs
    BY <1>4, <2>3, WireableFacts, AheadFact
  <2> QED BY <2>2, <2>4, SeqNumsFact
<1> QED BY <1>2, <1>3, <1>4 DEF Acks

\* The next number moves on, and leaves the ACKs behind.
LEMMA AcksMoved ==
    ASSUME NEW q \in Seq(Wireable), NEW n \in Seqs, NEW low \in Int, NEW high \in Int, high + 1 < SeqNums,
           Acks(q, n, low, high)
    PROVE  Acks(q, After(n), low + 1, high + 1)
<1>1. ASSUME NEW a \in DOMAIN q, q[a].kind = "ack"
      PROVE  Ahead(After(n), q[a].seq) = Ahead(n, q[a].seq) + 1 /\ Ahead(n, q[a].seq) \in low..high
             /\ Ahead(n, q[a].seq) \in Int
  <2>1. Ahead(n, q[a].seq) \in low..high /\ q[a].seq \in Seqs
    BY <1>1, WireableFacts DEF Acks
  <2>2. /\ Ahead(n, q[a].seq) = (IF n >= q[a].seq THEN n - q[a].seq ELSE n - q[a].seq + SeqNums)
        /\ After(n) = (IF n + 1 < SeqNums THEN n + 1 ELSE 0) /\ After(n) \in Seqs
    BY <2>1, AheadFact, AfterFact
  <2>3. Ahead(After(n), q[a].seq) =
          (IF After(n) >= q[a].seq THEN After(n) - q[a].seq ELSE After(n) - q[a].seq + SeqNums)
    BY <2>1, <2>2, AheadFact
  <2> QED BY <2>1, <2>2, <2>3, SeqNumsFact, SMTT(30)
<1>2. ASSUME NEW a \in DOMAIN q, NEW b \in DOMAIN q, a < b, q[a].kind = "ack", q[b].kind = "ack"
      PROVE  Ahead(After(n), q[b].seq) <= Ahead(After(n), q[a].seq)
  <2>1. Ahead(n, q[b].seq) <= Ahead(n, q[a].seq)
    BY <1>2 DEF Acks
  <2> QED BY <1>1, <1>2, <2>1
<1> QED BY <1>1, <1>2 DEF Acks

LEMMA CarriesTail ==
    ASSUME NEW q \in Seq(Wireable), q # <<>>, NEW frames, NEW low, NEW high, Carries(q, frames, low, high)
    PROVE  Carries(Tail(q), frames, low, high)
<1>1. /\ DOMAIN Tail(q) = 1..(Len(q) - 1) /\ DOMAIN q = 1..Len(q)
      /\ \A i \in DOMAIN Tail(q) : i + 1 \in DOMAIN q /\ Tail(q)[i] = q[i + 1]
  BY TailFacts
<1> SUFFICES ASSUME NEW a \in DOMAIN Tail(q), Tail(q)[a].kind = "data"
             PROVE  /\ \E j \in low..high : Tail(q)[a] = frames[j]
                    /\ \A b \in DOMAIN Tail(q) : Tail(q)[b].kind = "data" /\ a # b =>
                            Tail(q)[a].seq # Tail(q)[b].seq
  BY DEF Carries
<1>2. a + 1 \in DOMAIN q /\ Tail(q)[a] = q[a + 1]
  BY <1>1
<1>3. \E j \in low..high : Tail(q)[a] = frames[j]
  BY <1>2 DEF Carries
<1>4. ASSUME NEW b \in DOMAIN Tail(q), Tail(q)[b].kind = "data", a # b
      PROVE  Tail(q)[a].seq # Tail(q)[b].seq
  <2>1. b + 1 \in DOMAIN q /\ Tail(q)[b] = q[b + 1] /\ a + 1 # b + 1
    BY <1>1, <1>4
  <2> QED BY <1>2, <1>4, <2>1 DEF Carries
<1> QED BY <1>3, <1>4

LEMMA CarriesOther ==
    ASSUME NEW q \in Seq(Wireable), NEW f \in Wireable, f.kind # "data",
           NEW frames, NEW low, NEW high, Carries(q, frames, low, high)
    PROVE  Carries(Append(q, f), frames, low, high)
<1>1. /\ \A i \in DOMAIN Append(q, f) : i \in DOMAIN q \/ i = Len(q) + 1
      /\ \A i \in DOMAIN q : Append(q, f)[i] = q[i]
      /\ Append(q, f)[Len(q) + 1] = f
  BY AppendFacts
<1>2. \A i \in DOMAIN Append(q, f) : Append(q, f)[i].kind = "data" => i \in DOMAIN q /\ Append(q, f)[i] = q[i]
  BY <1>1
<1> QED BY <1>2 DEF Carries

\* The next frame is added, of a number that none of the others has.
LEMMA CarriesNext ==
    ASSUME NEW q \in Seq(Wireable), NEW f \in Wireable, NEW frames,
           NEW low \in Int, NEW high \in Int, low <= high + 1, f = frames[high + 1],
           Carries(q, frames, low, high), \A j \in low..high : frames[j].seq # f.seq
    PROVE  Carries(Append(q, f), frames, low, high + 1)
<1> DEFINE t == Append(q, f)
<1>1. /\ \A i \in DOMAIN t : i \in DOMAIN q \/ i = Len(q) + 1
      /\ \A i \in DOMAIN q : t[i] = q[i]
      /\ t[Len(q) + 1] = f
  BY AppendFacts
<1> HIDE DEF t
<1>2. \A a \in DOMAIN q : q[a].kind = "data" => q[a].seq # f.seq
  BY DEF Carries
<1>3. ASSUME NEW a \in DOMAIN t, t[a].kind = "data"
      PROVE  \E j \in low..(high + 1) : t[a] = frames[j]
  <2>1. CASE a \in DOMAIN q
    <3>1. PICK j \in low..high : q[a] = frames[j]
      BY <1>1, <1>3, <2>1 DEF Carries
    <3>2. j \in low..(high + 1) /\ t[a] = frames[j]
      BY <1>1, <2>1, <3>1
    <3> QED BY <3>2
  <2>2. CASE a = Len(q) + 1
    <3>1. high + 1 \in low..(high + 1) /\ t[a] = frames[high + 1]
      BY <1>1, <2>2
    <3> QED BY <3>1
  <2> QED BY <1>1, <2>1, <2>2
<1>4. ASSUME NEW a \in DOMAIN t, t[a].kind = "data", NEW b \in DOMAIN t, t[b].kind = "data", a # b
      PROVE  t[a].seq # t[b].seq
  <2>1. CASE a \in DOMAIN q /\ b \in DOMAIN q
    BY <1>1, <1>4, <2>1 DEF Carries
  <2>2. CASE a = Len(q) + 1 /\ b \in DOMAIN q
    BY <1>1, <1>2, <1>4, <2>2
  <2>3. CASE b = Len(q) + 1 /\ a \in DOMAIN q
    BY <1>1, <1>2, <1>4, <2>3
  <2> QED BY <1>1, <1>4, <2>1, <2>2, <2>3
<1> QED BY <1>3, <1>4 DEF Carries, t

\* The first of the frames is taken.
LEMMA CarriesTaken ==
    ASSUME NEW q \in Seq(Wireable), q # <<>>, NEW frames, NEW low \in Int, NEW high \in Int,
           Carries(q, frames, low, high), Head(q).kind = "data", Head(q).seq = frames[low].seq
    PROVE  Carries(Tail(q), frames, low + 1, high)
<1>1. /\ DOMAIN Tail(q) = 1..(Len(q) - 1) /\ DOMAIN q = 1..Len(q) /\ Len(q) \in Nat
      /\ \A i \in DOMAIN Tail(q) : i + 1 \in DOMAIN q /\ Tail(q)[i] = q[i + 1]
      /\ Head(q) = q[1] /\ 1 \in DOMAIN q
  BY TailFacts
<1>2. Carries(Tail(q), frames, low, high)
  BY CarriesTail
<1>3. ASSUME NEW a \in DOMAIN Tail(q), Tail(q)[a].kind = "data"
      PROVE  \E j \in (low + 1)..high : Tail(q)[a] = frames[j]
  <2>1. PICK j \in low..high : Tail(q)[a] = frames[j]
    BY <1>2, <1>3 DEF Carries
  <2>2. a + 1 \in DOMAIN q /\ a + 1 # 1 /\ Tail(q)[a] = q[a + 1]
    BY <1>1
  <2>3. q[1].seq # q[a + 1].seq
    BY <1>1, <1>3, <2>2 DEF Carries
  <2>4. j # low
    BY <1>1, <2>1, <2>2, <2>3
  <2>5. j \in (low + 1)..high
    BY <2>1, <2>4
  <2> QED BY <2>1, <2>5
<1> QED BY <1>2, <1>3 DEF Carries

LEMMA CarriesNone ==
    ASSUME NEW q, NEW frames, NEW others, NEW low \in Int, NEW high \in Int, NEW least \in Int, NEW most \in Int,
           Carries(q, frames, low, high), high < low
    PROVE  Carries(q, others, least, most) /\ \A a \in DOMAIN q : q[a].kind # "data"
<1>1. \A a \in DOMAIN q : q[a].kind # "data"
  BY DEF Carries
<1> QED BY <1>1 DEF Carries

--------------------------------------------------------------------------------
(***************************************************************************)
(* Frames for the transport, waiting and coming.                           *)
(***************************************************************************)

\* A queue from which the frame at p is gone.
Dropped(q, p, t) ==
    /\ q \in Seq(Wireable) /\ t \in Seq(Wireable) /\ p \in 1..Len(q) /\ Len(t) = Len(q) - 1
    /\ \A i \in 1..Len(t) : t[i] = IF i < p THEN q[i] ELSE q[i + 1]

LEMMA FlightDrop ==
    ASSUME NEW k \in Nat, NEW taken \in Nat, NEW next \in Seqs, NEW unread, NEW q,
           NEW coming \in Seq(Wireable), Flight(k, taken, next, unread, q, coming),
           NEW p, NEW t, Dropped(q, p, t)
    PROVE  \E n \in 0..Len(t) : /\ Flight(n, taken, next, unread, t, coming)
                                /\ (k = 0 => n = 0) /\ (k = Len(q) => n = Len(t))
<1> DEFINE n == IF p <= k THEN k - 1 ELSE k
           h(i) == IF i < p THEN i ELSE i + 1
<1>0. k \in Nat /\ k <= Len(q) /\ Len(q) \in Nat /\ p \in Nat /\ p \in 1..Len(q) /\ Len(t) = Len(q) - 1
      /\ \A i \in 1..Len(t) : t[i] = IF i < p THEN q[i] ELSE q[i + 1]
  BY DEF Flight, Dropped
<1>1. n \in 0..Len(t) /\ n \in Nat /\ n <= Len(t) /\ Len(t) \in Nat
  BY <1>0
<1>2. ASSUME NEW i \in 1..Len(t)
      PROVE  h(i) \in 1..Len(q) /\ t[i] = q[h(i)] /\ (i <= n <=> h(i) <= k) /\ (n < i <=> k < h(i))
  BY <1>0, <1>1
<1>3. (taken # 0 => n = 0) /\ (k = 0 => n = 0) /\ (k = Len(q) => n = Len(t))
  <2>1. taken # 0 => k = 0
    BY DEF Flight
  <2> QED BY <1>0, <2>1
<1> HIDE DEF n, h
<1>4. \A a \in 1..Len(t) : a <= n /\ t[a].kind = "data" => Ahead(next, t[a].seq) # 0
  BY <1>2 DEF Flight
<1>5. \A a \in 1..Len(t) : n < a /\ t[a].kind = "data" =>
                t[a] \in unread \/ Ahead(next, t[a].seq) \in 1..(taken + 1)
  BY <1>2 DEF Flight
<1>6. ASSUME NEW a \in 1..Len(t), NEW b \in 1..Len(coming), n < a, t[a].kind = "data", t[a] \in unread,
             coming[b].kind = "data"
      PROVE  coming[b] \in unread /\ Ahead(t[a].seq, next) <= Ahead(coming[b].seq, next)
  <2>1. h(a) \in 1..Len(q) /\ t[a] = q[h(a)] /\ k < h(a)
    BY <1>2, <1>6
  <2> QED BY <1>6, <2>1 DEF Flight
<1>7. /\ \A b \in 1..Len(coming) : coming[b].kind = "data" =>
                coming[b] \in unread \/ Ahead(next, coming[b].seq) = 1
      /\ \A a, b \in 1..Len(coming) :
                a < b /\ coming[a].kind = "data" /\ coming[a] \in unread /\ coming[b].kind = "data" =>
                    /\ coming[b] \in unread
                    /\ Ahead(coming[a].seq, next) <= Ahead(coming[b].seq, next)
  BY DEF Flight
<1>8. Flight(n, taken, next, unread, t, coming)
  BY <1>1, <1>3, <1>4, <1>5, <1>6, <1>7 DEF Flight
<1> QED BY <1>1, <1>3, <1>8

\* The link loses the frame that would come next.
LEMMA FlightLost ==
    ASSUME NEW k \in Nat, NEW taken \in Nat, NEW next \in Seqs, NEW unread, NEW q \in Seq(Wireable),
           NEW coming \in Seq(Wireable), coming # <<>>, Flight(k, taken, next, unread, q, coming)
    PROVE  Flight(k, taken, next, unread, q, Tail(coming))
<1> DEFINE t == Tail(coming)
<1>1. /\ t \in Seq(Wireable) /\ Len(t) = Len(coming) - 1 /\ Len(coming) \in Nat
      /\ \A i \in 1..Len(t) : i + 1 \in 1..Len(coming) /\ t[i] = coming[i + 1]
  BY TailFacts
<1> HIDE DEF t
<1>2. /\ k \in Nat /\ k <= Len(q) /\ (taken # 0 => k = 0)
      /\ \A a \in 1..Len(q) : a <= k /\ q[a].kind = "data" => Ahead(next, q[a].seq) # 0
      /\ \A a \in 1..Len(q) : k < a /\ q[a].kind = "data" =>
                q[a] \in unread \/ Ahead(next, q[a].seq) \in 1..(taken + 1)
  BY DEF Flight
<1>3. \A b \in 1..Len(t) : t[b].kind = "data" => t[b] \in unread \/ Ahead(next, t[b].seq) = 1
  BY <1>1 DEF Flight
<1>4. \A a \in 1..Len(q), b \in 1..Len(t) :
            k < a /\ q[a].kind = "data" /\ q[a] \in unread /\ t[b].kind = "data" =>
                t[b] \in unread /\ Ahead(q[a].seq, next) <= Ahead(t[b].seq, next)
  BY <1>1 DEF Flight
<1>5. ASSUME NEW a \in 1..Len(t), NEW b \in 1..Len(t), a < b, t[a].kind = "data", t[a] \in unread, t[b].kind = "data"
      PROVE  t[b] \in unread /\ Ahead(t[a].seq, next) <= Ahead(t[b].seq, next)
  <2>1. /\ a + 1 \in 1..Len(coming) /\ b + 1 \in 1..Len(coming)
        /\ t[a] = coming[a + 1] /\ t[b] = coming[b + 1]
    BY <1>1
  <2>2. a + 1 < b + 1
    BY <1>5
  <2> QED BY <1>5, <2>1, <2>2 DEF Flight
<1>6. Flight(k, taken, next, unread, q, t)
  BY <1>1, <1>2, <1>3, <1>4, <1>5 DEF Flight
<1> QED BY <1>6 DEF t

\* The peer sends what is no data frame.
LEMMA FlightOther ==
    ASSUME NEW k \in Nat, NEW taken \in Nat, NEW next \in Seqs, NEW unread, NEW q \in Seq(Wireable),
           NEW coming \in Seq(Wireable), Flight(k, taken, next, unread, q, coming),
           NEW f \in Wireable, f.kind # "data"
    PROVE  Flight(k, taken, next, unread, q, Append(coming, f))
<1> DEFINE t == Append(coming, f)
<1>1. /\ t \in Seq(Wireable) /\ Len(t) = Len(coming) + 1
      /\ \A i \in 1..Len(t) : t[i].kind = "data" => i \in 1..Len(coming) /\ t[i] = coming[i]
  <2>1. /\ t \in Seq(Wireable) /\ Len(t) = Len(coming) + 1 /\ Len(coming) \in Nat
        /\ \A i \in 1..Len(coming) : t[i] = coming[i]
        /\ t[Len(coming) + 1] = f
    BY AppendFacts
  <2>2. \A i \in 1..Len(t) : i \in 1..Len(coming) \/ i = Len(coming) + 1
    BY <2>1
  <2> QED BY <2>1, <2>2
<1> HIDE DEF t
<1>2. /\ k \in Nat /\ k <= Len(q) /\ (taken # 0 => k = 0)
      /\ \A a \in 1..Len(q) : a <= k /\ q[a].kind = "data" => Ahead(next, q[a].seq) # 0
      /\ \A a \in 1..Len(q) : k < a /\ q[a].kind = "data" =>
                q[a] \in unread \/ Ahead(next, q[a].seq) \in 1..(taken + 1)
  BY DEF Flight
<1>3. \A b \in 1..Len(t) : t[b].kind = "data" => t[b] \in unread \/ Ahead(next, t[b].seq) = 1
  BY <1>1 DEF Flight
<1>4. \A a \in 1..Len(q), b \in 1..Len(t) :
            k < a /\ q[a].kind = "data" /\ q[a] \in unread /\ t[b].kind = "data" =>
                t[b] \in unread /\ Ahead(q[a].seq, next) <= Ahead(t[b].seq, next)
  BY <1>1 DEF Flight
<1>5. \A a, b \in 1..Len(t) : a < b /\ t[a].kind = "data" /\ t[a] \in unread /\ t[b].kind = "data" =>
                t[b] \in unread /\ Ahead(t[a].seq, next) <= Ahead(t[b].seq, next)
  BY <1>1 DEF Flight
<1>6. Flight(k, taken, next, unread, q, t)
  BY <1>1, <1>2, <1>3, <1>4, <1>5 DEF Flight
<1> QED BY <1>6 DEF t

\* The peer sends a data frame: a new one behind those that are unread, or the last
\* once more.
LEMMA FlightSent ==
    ASSUME NEW k \in Nat, NEW taken \in Nat, NEW next \in Seqs, NEW unread, NEW q \in Seq(Wireable),
           NEW coming \in Seq(Wireable), Flight(k, taken, next, unread, q, coming),
           NEW f \in Wireable, NEW others, unread \subseteq others, others \subseteq unread \union {f},
           f \in others \/ (others = {} /\ Ahead(next, f.seq) = 1),
           f \in others => \A e \in others : Ahead(e.seq, next) <= Ahead(f.seq, next),
           f \in others => f \in unread \/ Ahead(next, f.seq) \notin 1..(taken + 1),
           taken \in Nat
    PROVE  Flight(k, taken, next, others, q, Append(coming, f))
<1> DEFINE t == Append(coming, f)
<1>1. /\ t \in Seq(Wireable) /\ Len(t) = Len(coming) + 1 /\ Len(coming) \in Nat
      /\ \A i \in 1..Len(coming) : t[i] = coming[i]
      /\ t[Len(coming) + 1] = f
      /\ \A i \in 1..Len(t) : i \in 1..Len(coming) \/ i = Len(coming) + 1
  BY AppendFacts
<1> HIDE DEF t
<1>2. /\ k \in Nat /\ k <= Len(q) /\ (taken # 0 => k = 0)
      /\ \A a \in 1..Len(q) : a <= k /\ q[a].kind = "data" => Ahead(next, q[a].seq) # 0
      /\ \A a \in 1..Len(q) : k < a /\ q[a].kind = "data" =>
                q[a] \in others \/ Ahead(next, q[a].seq) \in 1..(taken + 1)
  BY DEF Flight
<1>3. \A b \in 1..Len(t) : t[b].kind = "data" => t[b] \in others \/ Ahead(next, t[b].seq) = 1
  BY <1>1 DEF Flight
<1>4. ASSUME NEW a \in 1..Len(q), NEW b \in 1..Len(t), k < a, q[a].kind = "data", q[a] \in others,
             t[b].kind = "data"
      PROVE  t[b] \in others /\ Ahead(q[a].seq, next) <= Ahead(t[b].seq, next)
  <2>1. q[a] \in unread
    BY <1>4 DEF Flight
  <2>2. CASE b \in 1..Len(coming)
    BY <1>1, <1>4, <2>1, <2>2 DEF Flight
  <2>3. CASE b = Len(coming) + 1
    BY <1>1, <1>4, <2>3
  <2> QED BY <1>1, <2>2, <2>3
<1>5. ASSUME NEW a \in 1..Len(t), NEW b \in 1..Len(t), a < b, t[a].kind = "data", t[a] \in others, t[b].kind = "data"
      PROVE  t[b] \in others /\ Ahead(t[a].seq, next) <= Ahead(t[b].seq, next)
  <2>1. a \in 1..Len(coming) /\ t[a] = coming[a]
    BY <1>1, <1>5
  <2>2. CASE b \in 1..Len(coming)
    <3>1. t[b] = coming[b] /\ (coming[a] \in unread \/ Ahead(next, coming[a].seq) = 1)
      BY <1>1, <1>5, <2>1, <2>2 DEF Flight
    <3>2. coming[a] \in unread
      BY <1>5, <2>1, <3>1
    <3> QED BY <1>5, <2>1, <2>2, <3>1, <3>2 DEF Flight
  <2>3. CASE b = Len(coming) + 1
    BY <1>1, <1>5, <2>3
  <2> QED BY <1>1, <2>2, <2>3
<1>6. Flight(k, taken, next, others, q, t)
  BY <1>1, <1>2, <1>3, <1>4, <1>5 DEF Flight
<1> QED BY <1>6 DEF t

\* The next number moves on.
LEMMA AheadMoved ==
    ASSUME NEW n \in Seqs, NEW s \in Seqs
    PROVE  /\ Ahead(After(n), s) = IF Ahead(n, s) + 1 < SeqNums THEN Ahead(n, s) + 1 ELSE 0
           /\ s # n => Ahead(s, After(n)) = Ahead(s, n) - 1
           /\ Ahead(n, n) = 0 /\ (s # n => Ahead(s, n) # 0)
           /\ Ahead(n, s) \in Seqs /\ Ahead(s, n) \in Seqs
<1>1. After(n) = (IF n + 1 < SeqNums THEN n + 1 ELSE 0) /\ After(n) \in Seqs
  BY AfterFact
<1>2. /\ Ahead(n, s) = (IF n >= s THEN n - s ELSE n - s + SeqNums)
      /\ Ahead(s, n) = (IF s >= n THEN s - n ELSE s - n + SeqNums)
      /\ Ahead(n, n) = (IF n >= n THEN n - n ELSE n - n + SeqNums)
      /\ Ahead(n, s) \in Seqs /\ Ahead(s, n) \in Seqs
  BY AheadFact
<1>3. /\ Ahead(After(n), s) = (IF After(n) >= s THEN After(n) - s ELSE After(n) - s + SeqNums)
      /\ Ahead(s, After(n)) = (IF s >= After(n) THEN s - After(n) ELSE s - After(n) + SeqNums)
  BY <1>1, AheadFact
<1> QED BY <1>1, <1>2, <1>3, SeqNumsFact

\* The adapter hands over the first n frames that come, those of some kind left out.
LEMMA FlightPull ==
    ASSUME NEW k \in Nat, NEW taken \in Nat, NEW next \in Seqs, NEW unread, NEW q \in Seq(Wireable),
           NEW coming \in Seq(Wireable), Flight(k, taken, next, unread, q, coming),
           NEW n \in 1..Len(coming), NEW t \in Seq(Wireable), Len(t) >= Len(q),
           \A i \in 1..Len(q) : t[i] = q[i],
           \A i \in 1..Len(t) : Len(q) < i => \E b \in 1..n : t[i] = coming[b]
    PROVE  Flight(k, taken, next, unread, t, SubSeq(coming, n + 1, Len(coming)))
<1> DEFINE later == SubSeq(coming, n + 1, Len(coming))
<1>1. /\ later \in Seq(Wireable) /\ Len(later) = Len(coming) - n /\ n \in Nat /\ Len(coming) \in Nat
      /\ \A i \in 1..Len(later) : n + i \in 1..Len(coming) /\ later[i] = coming[n + i]
  <2>1. n + 1 \in 1..(Len(coming) + 1) /\ Len(coming) - (n + 1) + 1 = Len(coming) - n
    OBVIOUS
  <2>2. /\ later \in Seq(Wireable) /\ Len(later) = Len(coming) - (n + 1) + 1
        /\ \A i \in 1..(Len(coming) - (n + 1) + 1) : later[i] = coming[(n + 1) + i - 1]
    BY <2>1, SuffixFacts
  <2> HIDE DEF later
  <2>3. \A i \in 1..(Len(coming) - n) : n + i \in 1..Len(coming) /\ (n + 1) + i - 1 = n + i
    OBVIOUS
  <2> QED BY <2>1, <2>2, <2>3, SMTT(30)
<1> HIDE DEF later
<1>2. k \in Nat /\ k <= Len(q) /\ Len(q) \in Nat /\ Len(t) \in Nat /\ (taken # 0 => k = 0)
  BY DEF Flight
<1>3. ASSUME NEW a \in 1..Len(t), a <= k, t[a].kind = "data" PROVE Ahead(next, t[a].seq) # 0
  <2>1. a \in 1..Len(q) /\ t[a] = q[a]
    BY <1>2, <1>3
  <2> QED BY <1>3, <2>1 DEF Flight
<1>4. ASSUME NEW a \in 1..Len(t), k < a, t[a].kind = "data"
      PROVE  t[a] \in unread \/ Ahead(next, t[a].seq) \in 1..(taken + 1)
  <2>1. CASE a \in 1..Len(q)
    BY <1>4, <2>1 DEF Flight
  <2>2. CASE Len(q) < a
    <3>1. PICK b \in 1..n : t[a] = coming[b]
      BY <2>2
    <3>2. b \in 1..Len(coming)
      BY <1>1
    <3> QED BY <1>4, <3>1, <3>2 DEF Flight
  <2> QED BY <1>2, <2>1, <2>2
<1>5. ASSUME NEW b \in 1..Len(later), later[b].kind = "data" PROVE later[b] \in unread \/ Ahead(next, later[b].seq) = 1
  <2>1. n + b \in 1..Len(coming) /\ later[b] = coming[n + b]
    BY <1>1
  <2> QED BY <1>5, <2>1 DEF Flight
<1>6. ASSUME NEW a \in 1..Len(t), NEW b \in 1..Len(later), k < a, t[a].kind = "data", t[a] \in unread,
             later[b].kind = "data"
      PROVE  later[b] \in unread /\ Ahead(t[a].seq, next) <= Ahead(later[b].seq, next)
  <2>0. n + b \in 1..Len(coming) /\ later[b] = coming[n + b]
    BY <1>1
  <2>1. CASE a \in 1..Len(q)
    BY <1>6, <2>0, <2>1 DEF Flight
  <2>2. CASE Len(q) < a
    <3>1. PICK c \in 1..n : t[a] = coming[c]
      BY <2>2
    <3>2. c \in 1..Len(coming) /\ c < n + b
      BY <1>1
    <3> QED BY <1>6, <2>0, <3>1, <3>2 DEF Flight
  <2> QED BY <1>2, <2>1, <2>2
<1>7. ASSUME NEW a \in 1..Len(later), NEW b \in 1..Len(later), a < b, later[a].kind = "data", later[a] \in unread, later[b].kind = "data"
      PROVE  later[b] \in unread /\ Ahead(later[a].seq, next) <= Ahead(later[b].seq, next)
  <2>1. /\ n + a \in 1..Len(coming) /\ n + b \in 1..Len(coming) /\ n + a < n + b
        /\ later[a] = coming[n + a] /\ later[b] = coming[n + b]
    BY <1>1, <1>7
  <2> QED BY <1>7, <2>1 DEF Flight
<1>8. k \in 0..Len(t)
  BY <1>2
<1>9. Flight(k, taken, next, unread, t, later)
  BY <1>2, <1>3, <1>4, <1>5, <1>6, <1>7, <1>8 DEF Flight
<1> QED BY <1>9 DEF later

\* The frames of the queue change places.
LEMMA FlightShuffled ==
    ASSUME NEW k \in Nat, NEW taken \in Nat, NEW next \in Seqs, NEW unread, NEW q \in Seq(Wireable),
           NEW coming \in Seq(Wireable), Flight(k, taken, next, unread, q, coming),
           k \in {0, Len(q)}, NEW t \in Seq(Wireable), Len(t) = Len(q),
           \A i \in 1..Len(t) : \E j \in 1..Len(q) : t[i] = q[j]
    PROVE  Flight(k, taken, next, unread, t, coming)
<1>1. PICK h \in [1..Len(t) -> 1..Len(q)] : \A i \in 1..Len(t) : t[i] = q[h[i]]
  <2> DEFINE g == [i \in 1..Len(t) |-> CHOOSE j \in 1..Len(q) : t[i] = q[j]]
  <2>1. g \in [1..Len(t) -> 1..Len(q)] /\ \A i \in 1..Len(t) : t[i] = q[g[i]]
    OBVIOUS
  <2> HIDE DEF g
  <2> QED BY <2>1
<1>2. ASSUME NEW i \in 1..Len(t)
      PROVE  h[i] \in 1..Len(q) /\ t[i] = q[h[i]] /\ (i <= k <=> h[i] <= k) /\ (k < i <=> k < h[i])
  <2> DEFINE n == h[i]
             m == Len(q)
  <2>1. n \in 1..m /\ t[i] = q[n] /\ m \in Nat /\ i \in 1..m /\ k \in {0, m}
    <3>1. h[i] \in 1..Len(q) /\ t[i] = q[h[i]]
      BY <1>1
    <3>2. Len(q) \in Nat /\ i \in 1..Len(q) /\ k \in {0, Len(q)}
      OBVIOUS
    <3> QED BY <3>1, <3>2
  <2> HIDE DEF n, m
  <2>2. CASE k = 0
    <3>1. ~(i <= k) /\ ~(n <= k) /\ k < i /\ k < n
      BY <2>1, <2>2
    <3> QED BY <2>1, <3>1 DEF n, m
  <2>3. CASE k = m
    <3>1. i <= k /\ n <= k /\ ~(k < i) /\ ~(k < n)
      BY <2>1, <2>3
    <3> QED BY <2>1, <3>1 DEF n, m
  <2> QED BY <2>1, <2>2, <2>3
<1>3. k \in 0..Len(t) /\ (taken # 0 => k = 0)
  BY DEF Flight
<1>4. ASSUME NEW a \in 1..Len(t), a <= k, t[a].kind = "data" PROVE Ahead(next, t[a].seq) # 0
  <2>1. h[a] \in 1..Len(q) /\ t[a] = q[h[a]] /\ h[a] <= k
    BY <1>2, <1>4
  <2> QED BY <1>4, <2>1 DEF Flight
<1>5. ASSUME NEW a \in 1..Len(t), k < a, t[a].kind = "data"
      PROVE  t[a] \in unread \/ Ahead(next, t[a].seq) \in 1..(taken + 1)
  <2>1. h[a] \in 1..Len(q) /\ t[a] = q[h[a]] /\ k < h[a]
    BY <1>2, <1>5
  <2> QED BY <1>5, <2>1 DEF Flight
<1>6. ASSUME NEW a \in 1..Len(t), NEW b \in 1..Len(coming), k < a, t[a].kind = "data", t[a] \in unread,
             coming[b].kind = "data"
      PROVE  coming[b] \in unread /\ Ahead(t[a].seq, next) <= Ahead(coming[b].seq, next)
  <2>1. h[a] \in 1..Len(q) /\ t[a] = q[h[a]] /\ k < h[a]
    BY <1>1, <1>2, <1>6
  <2> QED BY <1>6, <2>1 DEF Flight
<1>7. /\ \A b \in 1..Len(coming) : coming[b].kind = "data" =>
                coming[b] \in unread \/ Ahead(next, coming[b].seq) = 1
      /\ \A a, b \in 1..Len(coming) :
                a < b /\ coming[a].kind = "data" /\ coming[a] \in unread /\ coming[b].kind = "data" =>
                    /\ coming[b] \in unread
                    /\ Ahead(coming[a].seq, next) <= Ahead(coming[b].seq, next)
  BY DEF Flight
<1> QED BY <1>3, <1>4, <1>5, <1>6, <1>7 DEF Flight

\* No reply is under way, and a request begins: what is in the queue is old.
LEMMA FlightAll ==
    ASSUME NEW k \in Nat, NEW next \in Seqs, NEW q \in Seq(Wireable),
           NEW coming \in Seq(Wireable), Flight(k, 0, next, {}, q, coming),
           NEW t \in Seq(Wireable), \A i \in 1..Len(t) : \E j \in 1..Len(q) : t[i] = q[j]
    PROVE  Flight(Len(t), 0, next, {}, t, coming)
<1>1. ASSUME NEW a \in 1..Len(t), t[a].kind = "data" PROVE Ahead(next, t[a].seq) # 0
  <2>1. PICK j \in 1..Len(q) : t[a] = q[j]
    OBVIOUS
  <2>2. j <= k \/ k < j
    OBVIOUS
  <2> QED BY <1>1, <2>1, <2>2 DEF Flight
<1>2. \A b \in 1..Len(coming) : coming[b].kind = "data" => Ahead(next, coming[b].seq) = 1
  BY DEF Flight
<1>3. Len(t) \in 0..Len(t) /\ \A a \in 1..Len(t) : ~(Len(t) < a)
  OBVIOUS
<1> QED BY <1>1, <1>2, <1>3 DEF Flight

\* The transport takes the next frame of the reply; others are left.
LEMMA FlightTake ==
    ASSUME NEW taken \in Nat, NEW next \in Seqs, NEW unread, NEW q \in Seq(Wireable), q # <<>>,
           NEW coming \in Seq(Wireable), Flight(0, taken, next, unread, q, coming),
           taken + 2 < SeqNums, Head(q).kind = "data", Head(q) \in unread, Head(q).seq = next,
           NEW others, others \subseteq unread, unread \subseteq others \union {Head(q)},
           \A e \in others : e.seq \in Seqs /\ e.seq # next
    PROVE  Flight(0, taken + 1, After(next), others, Tail(q), coming)
<1> DEFINE f == Head(q)
           t == Tail(q)
<1>1. /\ Len(q) \in Nat /\ t \in Seq(Wireable) /\ Len(t) = Len(q) - 1 /\ f = q[1] /\ 1 \in 1..Len(q)
      /\ \A i \in 1..Len(t) : i + 1 \in 1..Len(q) /\ t[i] = q[i + 1] /\ 0 < i + 1
  BY TailFacts
<1> HIDE DEF t, f
<1>2. /\ \A a \in 1..Len(t) : t[a].kind = "data" =>
              t[a] \in unread \/ Ahead(next, t[a].seq) \in 1..(taken + 1)
      /\ \A b \in 1..Len(coming) : coming[b].kind = "data" => coming[b] \in unread
      /\ \A a \in 1..Len(t), b \in 1..Len(coming) :
              t[a].kind = "data" /\ t[a] \in unread /\ coming[b].kind = "data" =>
                Ahead(t[a].seq, next) <= Ahead(coming[b].seq, next)
      /\ \A a, b \in 1..Len(coming) :
              a < b /\ coming[a].kind = "data" /\ coming[a] \in unread /\ coming[b].kind = "data" =>
                Ahead(coming[a].seq, next) <= Ahead(coming[b].seq, next)
  <2>1. f.kind = "data" /\ f \in unread
    BY DEF f
  <2>2. ASSUME NEW a \in 1..Len(t), t[a].kind = "data"
        PROVE  t[a] \in unread \/ Ahead(next, t[a].seq) \in 1..(taken + 1)
    BY <1>1, <2>2 DEF Flight
  <2>3. ASSUME NEW b \in 1..Len(coming), coming[b].kind = "data" PROVE coming[b] \in unread
    BY <1>1, <2>1, <2>3 DEF Flight
  <2>4. ASSUME NEW a \in 1..Len(t), NEW b \in 1..Len(coming), t[a].kind = "data", t[a] \in unread,
               coming[b].kind = "data"
        PROVE  Ahead(t[a].seq, next) <= Ahead(coming[b].seq, next)
    BY <1>1, <2>4 DEF Flight
  <2>5. \A a, b \in 1..Len(coming) :
              a < b /\ coming[a].kind = "data" /\ coming[a] \in unread /\ coming[b].kind = "data" =>
                Ahead(coming[a].seq, next) <= Ahead(coming[b].seq, next)
    BY DEF Flight
  <2> QED BY <2>2, <2>3, <2>4, <2>5
<1>3. f.seq = next /\ (\A e \in unread : e \in others \/ e = f) /\ others \subseteq unread
  BY DEF f
<1>4. ASSUME NEW s \in Seqs
      PROVE  /\ s = next => Ahead(After(next), s) = 1 /\ Ahead(s, next) = 0
             /\ Ahead(next, s) \in 1..(taken + 1) => Ahead(After(next), s) \in 1..((taken + 1) + 1)
             /\ s # next => Ahead(s, After(next)) = Ahead(s, next) - 1
             /\ s # next => Ahead(s, next) # 0
             /\ Ahead(s, next) \in Nat
  <2>1. /\ Ahead(After(next), s) = IF Ahead(next, s) + 1 < SeqNums THEN Ahead(next, s) + 1 ELSE 0
        /\ s # next => Ahead(s, After(next)) = Ahead(s, next) - 1
        /\ Ahead(next, next) = 0 /\ (s # next => Ahead(s, next) # 0)
        /\ Ahead(next, s) \in Seqs /\ Ahead(s, next) \in Seqs
    BY AheadMoved
  <2>2. \A x \in Seqs : x \in Nat /\ x < SeqNums
    BY SeqNumsFact
  <2>3. s = next => Ahead(After(next), s) = 1 /\ Ahead(s, next) = 0
    BY <2>1, <2>2, SeqNumsFact
  <2>4. Ahead(next, s) \in 1..(taken + 1) => Ahead(After(next), s) \in 1..((taken + 1) + 1)
    BY <2>1, SeqNumsFact, SMTT(30)
  <2> QED BY <2>1, <2>2, <2>3, <2>4
<1>5. ASSUME NEW w \in Wireable, w.kind = "data" PROVE w.seq \in Seqs
  BY <1>5, WireableFacts
<1>6. ASSUME NEW a \in 1..Len(t), t[a].kind = "data"
      PROVE  t[a] \in others \/ Ahead(After(next), t[a].seq) \in 1..((taken + 1) + 1)
  <2>1. t[a] \in Wireable /\ t[a].seq \in Seqs
    BY <1>1, <1>5, <1>6
  <2>2. CASE t[a] \in unread
    BY <1>3, <1>4, <2>1, <2>2
  <2>3. CASE Ahead(next, t[a].seq) \in 1..(taken + 1)
    BY <1>4, <2>1, <2>3
  <2> QED BY <1>2, <1>6, <2>2, <2>3
<1>7. ASSUME NEW b \in 1..Len(coming), coming[b].kind = "data"
      PROVE  coming[b] \in others \/ (coming[b] = f /\ Ahead(After(next), coming[b].seq) = 1)
  BY <1>2, <1>3, <1>4, <1>7
<1>8. ASSUME NEW e \in others, NEW b \in 1..Len(coming), coming[b].kind = "data",
             Ahead(e.seq, next) <= Ahead(coming[b].seq, next)
      PROVE  coming[b] \in others /\ Ahead(e.seq, After(next)) <= Ahead(coming[b].seq, After(next))
  <2>1. e.seq \in Seqs /\ e.seq # next /\ Ahead(e.seq, next) # 0 /\ Ahead(e.seq, next) \in Nat
    BY <1>4, SeqNumsFact
  <2>2. coming[b] # f
    BY <1>3, <1>4, <1>8, <2>1
  <2>3. coming[b] \in others /\ coming[b].seq \in Seqs /\ coming[b].seq # next
    BY <1>7, <1>8, <2>2
  <2>4. /\ Ahead(e.seq, After(next)) = Ahead(e.seq, next) - 1
        /\ Ahead(coming[b].seq, After(next)) = Ahead(coming[b].seq, next) - 1
        /\ Ahead(coming[b].seq, next) \in Nat
    BY <1>4, <2>1, <2>3
  <2> QED BY <1>8, <2>1, <2>3, <2>4
<1>9. ASSUME NEW a \in 1..Len(t), NEW b \in 1..Len(coming), t[a].kind = "data", t[a] \in others,
             coming[b].kind = "data"
      PROVE  coming[b] \in others /\ Ahead(t[a].seq, After(next)) <= Ahead(coming[b].seq, After(next))
  BY <1>2, <1>3, <1>8, <1>9
<1>10. ASSUME NEW a \in 1..Len(coming), NEW b \in 1..Len(coming), a < b, coming[a].kind = "data",
              coming[a] \in others, coming[b].kind = "data"
       PROVE  coming[b] \in others /\ Ahead(coming[a].seq, After(next)) <= Ahead(coming[b].seq, After(next))
  BY <1>2, <1>3, <1>8, <1>10
<1>11. 0 \in 0..Len(t) /\ \A a \in 1..Len(t) : ~(a <= 0)
  BY <1>1
<1>12. Flight(0, taken + 1, After(next), others, t, coming)
  BY <1>6, <1>7, <1>9, <1>10, <1>11 DEF Flight
<1> QED BY <1>12 DEF t

\* The frame was the last of the reply.
LEMMA FlightDone ==
    ASSUME NEW taken \in Nat, NEW next \in Seqs, NEW q \in Seq(Wireable), q # <<>>,
           NEW coming \in Seq(Wireable), taken + 2 < SeqNums, Head(q).kind = "data",
           Flight(0, taken, next, {Head(q)}, q, coming), Head(q).seq = next
    PROVE  Flight(Len(Tail(q)), 0, After(next), {}, Tail(q), coming)
<1> DEFINE t == Tail(q)
           m == Len(t)
<1>1. Flight(0, taken + 1, After(next), {}, t, coming)
  BY FlightTake
<1>2. t \in Seq(Wireable) /\ m \in Nat
  BY TailFacts
<1> HIDE DEF t, m
<1>3. m \in 0..m /\ Len(t) = m
  BY <1>2 DEF m
<1>4. ASSUME NEW a \in 1..m, t[a].kind = "data" PROVE Ahead(After(next), t[a].seq) # 0
  BY <1>1, <1>3, <1>4 DEF Flight
<1>5. \A b \in 1..Len(coming) : coming[b].kind = "data" => Ahead(After(next), coming[b].seq) = 1
  BY <1>1 DEF Flight
<1>6. \A a \in 1..m : ~(m < a)
  BY <1>2
<1>7. Flight(m, 0, After(next), {}, t, coming)
  BY <1>3, <1>4, <1>5, <1>6 DEF Flight
<1> QED BY <1>7 DEF t, m

--------------------------------------------------------------------------------
(***************************************************************************)
(* The parts of the invariant, where a step leaves what they speak of.     *)
(***************************************************************************)

\* The stage of the call is the same, or the channel is given up.
SameStage == pc' = pc \/ (pc = "idle" /\ pc' = "closed")

LEMMA AskingKept ==
    ASSUME AskingInv, SameStage, UNCHANGED <<txSeq, sent>>,
           call'.job = call.job, call'.awaited = call.awaited
    PROVE  AskingInv'
<1>1. Asking' = Asking /\ (pc' = "ack" <=> pc = "ack")
  BY DEF SameStage, Asking
<1>2. OutSize' = OutSize /\ OutGone' = OutGone /\ OutFrames(txSeq)' = OutFrames(txSeq)
  BY DEF OutSize, OutGone, OutFrames
<1> QED BY <1>1, <1>2 DEF AskingInv

LEMMA ServedKept ==
    ASSUME ServedInv, SameStage, UNCHANGED <<txSeq, sent>>, call'.job = call.job,
           peer'.in = peer.in, peer'.served = peer.served,
           \A frames, low, high : Carries(toPeer, frames, low, high) => Carries(toPeer', frames, low, high)
    PROVE  ServedInv'
<1>1. Asking' = Asking /\ Served' = Served
  BY DEF SameStage, Asking, Served
<1>2. /\ OutSize' = OutSize /\ OutGone' = OutGone /\ OutGot' = OutGot /\ OutStart' = OutStart
      /\ OutFrames(OutStart)' = OutFrames(OutStart)
  BY DEF OutSize, OutGone, OutFrames, OutGot, OutStart
<1>3. /\ Empty(peer'.in) <=> Empty(peer.in)
      /\ \A m, n : Reading(peer'.in, m, n) <=> Reading(peer.in, m, n)
  OBVIOUS
<1> QED BY <1>1, <1>2, <1>3 DEF ServedInv

LEMMA GivenKept ==
    ASSUME GivenInv, SameStage, UNCHANGED <<sent, results>>, call'.due = call.due, call'.held = call.held,
           peer'.served = peer.served, call'.deferred = call.deferred \/ pc = "alive"
    PROVE  GivenInv'
<1>1. /\ Asking' = Asking /\ Served' = Served /\ Rest' = Rest
      /\ (pc' = "alive" <=> pc = "alive") /\ (pc' \in {"idle", "closed"} <=> pc \in {"idle", "closed"})
  BY DEF SameStage, Asking, Served, Rest
<1> QED BY <1>1 DEF GivenInv

\* Neither end goes on with a reply; some frames may move, come or go.
LEMMA ReplyKept ==
    ASSUME Between \/ Sending, Pending' = Pending, part' = part,
           peer'.out = peer.out, peer'.tx = peer.tx, peer'.todo = peer.todo, peer'.await = peer.await,
           Between => Acks(toPeer', peer.tx, 0, IF peer.await = <<>> THEN 0 ELSE SeqNums - 2),
           Sending => Acks(toPeer', peer.tx, Gone - Got, Gone),
           Between => \A k \in Splits : Flight(k, 0, part.seq, {}, Seen, toTester)
                        => \E n \in Splits' : Flight(n, 0, part.seq, {}, Seen', toTester'),
           Sending => \A k \in Splits : Flight(k, Got, part.seq, Unread, Seen, toTester)
                        => \E n \in Splits' : Flight(n, Got, part.seq, Unread, Seen', toTester')
    PROVE  Between' \/ Sending'
<1>1. Pending' = Pending
  OBVIOUS
<1>2. CASE Between
  <2>1. \E n \in Splits' : Flight(n, 0, part.seq, {}, Seen', toTester')
    BY <1>2 DEF Between
  <2>2. Between'
    BY <1>1, <1>2, <2>1 DEF Between
  <2> QED BY <2>2
<1>3. CASE Sending
  <2>1. \E n \in Splits' : Flight(n, Got, part.seq, Unread, Seen', toTester')
    BY <1>3 DEF Sending
  <2>2. /\ Reply' = Reply /\ ReplySize' = ReplySize /\ Got' = Got /\ Gone' = Gone
        /\ ReplyFrames' = ReplyFrames
    BY <1>1 DEF Reply, ReplySize, Got, Gone, ReplyFrames
  <2>3. Unread' = Unread
    BY <2>2 DEF Unread
  <2>4. Sending'
    BY <1>1, <1>3, <2>1, <2>2, <2>3 DEF Sending
  <2> QED BY <2>4
<1> QED BY <1>2, <1>3

--------------------------------------------------------------------------------
(***************************************************************************)
(* The numbers of the frames, and what is read of a message.               *)
(***************************************************************************)

\* Of two numbers behind b, at most a round apart.
LEMMA Numbers ==
    ASSUME NEW b \in Seqs, NEW i \in Nat, NEW j \in Nat, i <= j, j <= SeqNums
    PROVE  /\ (b + i) % SeqNums \in Seqs /\ (b + j) % SeqNums \in Seqs
           /\ j - i < SeqNums => Ahead((b + j) % SeqNums, (b + i) % SeqNums) = j - i
           /\ i < j /\ j - i < SeqNums => (b + i) % SeqNums # (b + j) % SeqNums
           /\ i < SeqNums => After((b + i) % SeqNums) = (b + (i + 1)) % SeqNums
<1>1. i \in 0..SeqNums /\ j \in 0..SeqNums /\ (i < SeqNums => i + 1 \in 0..SeqNums) /\ b \in 0..(SeqNums - 1)
  BY SeqNumsFact
<1>2. /\ (b + i) % SeqNums = (IF b + i < SeqNums THEN b + i ELSE b + i - SeqNums) /\ (b + i) % SeqNums \in Seqs
      /\ (b + j) % SeqNums = (IF b + j < SeqNums THEN b + j ELSE b + j - SeqNums) /\ (b + j) % SeqNums \in Seqs
  BY <1>1, Onward
<1>3. i < SeqNums => (b + (i + 1)) % SeqNums = (IF b + (i + 1) < SeqNums THEN b + (i + 1) ELSE b + (i + 1) - SeqNums)
  BY <1>1, Onward
<1> DEFINE x == (b + i) % SeqNums
           y == (b + j) % SeqNums
<1>4. After(x) = (IF x + 1 < SeqNums THEN x + 1 ELSE 0) /\ Ahead(y, x) = (IF y >= x THEN y - x ELSE y - x + SeqNums)
  BY <1>2, AheadFact, AfterFact
<1>5. x \in Int /\ y \in Int /\ SeqNums \in Int
  BY <1>2, SeqNumsFact
<1> HIDE DEF x, y
<1>6. /\ x = (IF b + i < SeqNums THEN b + i ELSE b + i - SeqNums)
      /\ y = (IF b + j < SeqNums THEN b + j ELSE b + j - SeqNums)
  BY <1>2 DEF x, y
<1>7. j - i < SeqNums => Ahead(y, x) = j - i
  BY <1>1, <1>4, <1>5, <1>6
<1>8. i < j /\ j - i < SeqNums => x # y
  BY <1>1, <1>5, <1>6
<1>9. i < SeqNums => After(x) = (b + (i + 1)) % SeqNums
  BY <1>1, <1>3, <1>4, <1>5, <1>6
<1> QED BY <1>2, <1>7, <1>8, <1>9 DEF x, y

\* Where a count of frames began that has come to the number a.
LEMMA Base ==
    ASSUME NEW a \in Seqs, NEW n \in Nat, n < SeqNums
    PROVE  Ahead(a, n) \in Seqs /\ a = (Ahead(a, n) + n) % SeqNums
<1>1. n \in Seqs /\ n \in 0..SeqNums
  BY SeqNumsFact
<1>2. Ahead(a, n) = (IF a >= n THEN a - n ELSE a - n + SeqNums) /\ Ahead(a, n) \in Seqs
  BY <1>1, AheadFact
<1>3. (Ahead(a, n) + n) % SeqNums = IF Ahead(a, n) + n < SeqNums THEN Ahead(a, n) + n ELSE Ahead(a, n) + n - SeqNums
  BY <1>1, <1>2, Onward
<1> QED BY <1>1, <1>2, <1>3, SeqNumsFact

\* A count of frames that began at b.
LEMMA BaseOf ==
    ASSUME NEW b \in Seqs, NEW n \in Nat, n < SeqNums
    PROVE  Ahead((b + n) % SeqNums, n) = b
<1>1. n \in Seqs /\ n \in 0..SeqNums
  BY SeqNumsFact
<1>2. (b + n) % SeqNums = (IF b + n < SeqNums THEN b + n ELSE b + n - SeqNums) /\ (b + n) % SeqNums \in Seqs
  BY <1>1, Onward
<1>3. Ahead((b + n) % SeqNums, n) = (IF (b + n) % SeqNums >= n THEN ((b + n) % SeqNums) - n
                                     ELSE ((b + n) % SeqNums) - n + SeqNums)
  BY <1>1, <1>2, AheadFact
<1> QED BY <1>1, <1>2, <1>3, SeqNumsFact

LEMMA CountNat ==
    ASSUME NEW p, p.wire \in Seq(Bytes)
    PROVE  Count(p) \in Nat
<1> DEFINE C == Capacity
           L == Len(p.wire)
           N == Count(p)
<1>1. C \in Nat /\ C >= 2 /\ L \in Nat
  BY FramesAssumption
<1>2. N = L \div C
  BY DEF Count
<1> HIDE DEF C, L, N
<1>3. N \in Int /\ L = C * N + (L % C) /\ L % C \in 0..(C - 1)
  BY <1>1, <1>2
<1>4. N < 0 => C * N <= -C
  BY <1>1, <1>3
<1>5. N \in Nat
  BY <1>1, <1>3, <1>4
<1> QED BY <1>5 DEF N

\* A reassembler that holds the frames of a message up to the n-th has n of them.
LEMMA ReadingCount ==
    ASSUME NEW m, Sendable(m), NEW n \in Nat, n < NumFrames(m), NEW p, p.wire = SubSeq(Wire(m), 1, Capacity * n)
    PROVE  Count(p) = n /\ Capacity * n \in Nat /\ (n # 0 => Capacity * n >= 2)
<1>1. Capacity \in Nat /\ Capacity >= 2
  BY FramesAssumption
<1>2. Wire(m) \in Seq(Bytes) /\ Len(Wire(m)) = Len(m) + 2 /\ Len(m) \in Nat
  BY WireFacts
<1>3. Capacity * n \in Nat /\ Capacity * n <= Len(m) + 2 /\ (n # 0 => Capacity * n >= 2)
  <2>1. CASE n = 0
    BY <1>1, <1>2, <2>1
  <2>2. CASE n # 0
    <3>1. n \in 1..(NumFrames(m) - 1)
      BY <2>2, EndFacts
    <3>2. Capacity * n < Len(m) + 2 /\ 2 <= Capacity * n
      BY <3>1, EndFacts
    <3>3. Capacity * n \in Int
      BY <1>1
    <3> QED BY <1>2, <2>2, <3>2, <3>3
  <2> QED BY <2>1, <2>2
<1>4. Len(SubSeq(Wire(m), 1, Capacity * n)) = Capacity * n
  <2> DEFINE c == Capacity * n
  <2>1. c \in Nat /\ c <= Len(Wire(m)) /\ 1 <= c + 1 /\ c - 1 + 1 = c
    BY <1>2, <1>3
  <2> HIDE DEF c
  <2>2. Len(SubSeq(Wire(m), 1, c)) = c
    BY <1>2, <2>1, WindowFacts
  <2> QED BY <2>2 DEF c
<1>5. (Capacity * n) \div Capacity = n
  BY <1>1
<1> QED BY <1>3, <1>4, <1>5 DEF Count

\* An empty reassembler has read nothing of any message.
LEMMA EmptyCount ==
    ASSUME NEW p, Empty(p)
    PROVE  Count(p) = 0 /\ \A m : Sendable(m) => Reading(p, m, 0)
<1>1. Capacity \in Nat /\ Capacity >= 2 /\ 0 \div Capacity = 0
  BY FramesAssumption
<1>2. Count(p) = 0
  BY <1>1 DEF Count, Empty
<1>3. ASSUME NEW m, Sendable(m) PROVE Reading(p, m, 0)
  <2>1. SubSeq(Wire(m), 1, 0) = <<>>
    BY <1>3, WireFacts, EmptyWindow
  <2> QED BY <1>1, <2>1 DEF Reading, Empty
<1> QED BY <1>2, <1>3

\* The next frame is read.
LEMMA ReadOn ==
    ASSUME NEW m, Sendable(m), NEW n \in Nat, n < NumFrames(m), NEW p, Reading(p, m, n),
           NEW f, f.seq = p.seq, f.data = Chunk(m, n + 1), Final(f) <=> n + 1 = NumFrames(m)
    PROVE  /\ ~Wrong(p, f) /\ ~Repeated(p, f) /\ Fed(p, f).seq = After(p.seq)
           /\ Delivered(p, f) = IF n + 1 = NumFrames(m) THEN <<m>> ELSE <<>>
           /\ n + 1 = NumFrames(m) => Empty(Fed(p, f))
           /\ n + 1 # NumFrames(m) => Reading(Fed(p, f), m, n + 1) /\ Count(Fed(p, f)) = n + 1
<1> DEFINE i == n + 1
<1>0. i \in 1..NumFrames(m) /\ i - 1 = n /\ (i = 1 <=> n = 0) /\ i # 0
  BY EndFacts
<1>1. /\ ~Wrong(p, f) /\ ~Repeated(p, f)
      /\ WireWith(p, f) = SubSeq(Wire(m), 1, End(m, i))
      /\ LengthWith(p, f) = Len(m)
      /\ Delivered(p, f) = IF i = NumFrames(m) THEN <<m>> ELSE <<>>
  <2>1. p.wire = SubSeq(Wire(m), 1, Capacity * (i - 1)) /\ p.len = IF i = 1 THEN -1 ELSE Len(m)
    BY <1>0 DEF Reading
  <2>2. f.data = Chunk(m, i) /\ (Final(f) <=> i = NumFrames(m))
    OBVIOUS
  <2> HIDE DEF i
  <2> QED BY <1>0, <2>1, <2>2, ReadFrame
<1>2. Fed(p, f).seq = After(p.seq)
  BY <1>1 DEF Fed
<1>3. i = NumFrames(m) => Empty(Fed(p, f))
  BY <1>1 DEF Fed, Empty
<1>4. ASSUME i # NumFrames(m) PROVE Reading(Fed(p, f), m, i) /\ Count(Fed(p, f)) = i
  <2>1. Fed(p, f).wire = SubSeq(Wire(m), 1, Capacity * i) /\ Fed(p, f).len = Len(m)
    BY <1>1, <1>4 DEF Fed, End
  <2>2. i < NumFrames(m) /\ i \in Nat
    BY <1>0, <1>4, EndFacts
  <2>3. Reading(Fed(p, f), m, i)
    BY <1>0, <2>1 DEF Reading
  <2> HIDE DEF i
  <2> QED BY <2>1, <2>2, <2>3, ReadingCount
<1> QED BY <1>1, <1>2, <1>3, <1>4

--------------------------------------------------------------------------------
(***************************************************************************)
(* What the invariant says of the reply and of the request under way.      *)
(***************************************************************************)

\* The replies that are left are messages that segment_message takes.
LEMMA RestFacts ==
    ASSUME Short, Types, GivenInv
    PROVE  /\ call.due = 0 => Rest = <<>>
           /\ call.due > 0 =>
                /\ sent \in 1..Len(Requests) /\ sent \in 1..Len(Replies)
                /\ Len(call.held) \in {0, 1} /\ call.due - Len(call.held) \in Nat
                /\ Rest \in Seq(Seq(Bytes)) /\ Len(Rest) = call.due - Len(call.held)
                /\ \A i \in 1..Len(Rest) :
                     /\ Rest[i] = Replies[sent][Len(Replies[sent]) - call.due + Len(call.held) + i]
                     /\ Sendable(Rest[i]) /\ NumFrames(Rest[i]) + 2 <= SeqNums
<1>1. call.due = 0 => Rest = <<>>
  BY DEF Rest
<1>2. ASSUME call.due > 0
      PROVE  /\ sent \in 1..Len(Requests) /\ sent \in 1..Len(Replies)
             /\ Len(call.held) \in {0, 1} /\ call.due - Len(call.held) \in Nat
             /\ Rest \in Seq(Seq(Bytes)) /\ Len(Rest) = call.due - Len(call.held)
             /\ \A i \in 1..Len(Rest) :
                  /\ Rest[i] = Replies[sent][Len(Replies[sent]) - call.due + Len(call.held) + i]
                  /\ Sendable(Rest[i]) /\ NumFrames(Rest[i]) + 2 <= SeqNums
  <2>1. /\ sent \in 1..Len(Requests) /\ sent \in 1..Len(Replies) /\ call.due <= Len(Replies[sent]) /\ call.due \in Nat
        /\ Len(call.held) \in {0, 1}
    BY <1>2, TypesOpen, TalkFacts DEF GivenInv
  <2> DEFINE all == Replies[sent]
             first == Len(all) - call.due + Len(call.held) + 1
  <2>2. /\ all \in Seq(Seq(Bytes)) /\ Len(all) \in Nat /\ first \in 1..(Len(all) + 1)
        /\ Len(all) - first + 1 = call.due - Len(call.held) /\ call.due - Len(call.held) \in Nat
        /\ \A i \in 1..(call.due - Len(call.held)) :
             /\ first + i - 1 = Len(all) - call.due + Len(call.held) + i
             /\ first + i - 1 \in 1..Len(all)
    <3>1. all \in Seq(Seq(Bytes)) /\ Len(all) \in Nat /\ call.due <= Len(all)
      BY <2>1, TalkFacts
    <3> DEFINE d == call.due
               h == Len(call.held)
               n == Len(all)
    <3>2. n \in Nat /\ d \in Nat /\ d > 0 /\ d <= n /\ h \in {0, 1} /\ first = n - d + h + 1
      BY <1>2, <2>1, <3>1
    <3> HIDE DEF all, first, d, h, n
    <3>3. first \in 1..(n + 1) /\ n - first + 1 = d - h /\ d - h \in Nat
      BY <3>2
    <3>4. \A i \in 1..(d - h) : first + i - 1 = n - d + h + i /\ first + i - 1 \in 1..n
      BY <3>2, <3>3
    <3> QED BY <3>1, <3>3, <3>4 DEF d, h, n
  <2>3. Rest = SubSeq(all, first, Len(all))
    <3>1. call.due # 0
      BY <1>2, <2>1
    <3> QED BY <3>1 DEF Rest
  <2>4. \A j \in 1..Len(all) : Sendable(all[j]) /\ NumFrames(all[j]) + 2 <= SeqNums
    <3>1. \A j \in 1..Len(all) : Sendable(all[j])
      BY <2>1, TalkFacts
    <3>2. sent \in DOMAIN Replies /\ DOMAIN all = 1..Len(all)
      <4>1. Replies \in Seq(Seq(Seq(Bytes)))
        BY TransportAssumption
      <4> QED BY <2>1, <2>2, <4>1
    <3> QED BY <3>1, <3>2 DEF Short
  <2> HIDE DEF all, first
  <2>5. /\ Rest \in Seq(Seq(Bytes)) /\ Len(Rest) = call.due - Len(call.held)
        /\ \A i \in 1..(call.due - Len(call.held)) : Rest[i] = all[first + i - 1]
    BY <2>2, <2>3, SuffixFacts
  <2>6. \A i \in 1..Len(Rest) :
             /\ Rest[i] = all[Len(all) - call.due + Len(call.held) + i]
             /\ Sendable(Rest[i]) /\ NumFrames(Rest[i]) + 2 <= SeqNums
    BY <2>2, <2>4, <2>5
  <2> QED BY <2>1, <2>2, <2>5, <2>6 DEF all
<1> QED BY <1>1, <1>2

\* A reply that may be answered next.
LEMMA PendingFacts ==
    ASSUME Short, Types, GivenInv, Pending # <<>>
    PROVE  /\ Served /\ Pending = Rest /\ call.due > 0 /\ sent \in 1..Len(Requests)
           /\ Rest \in Seq(Seq(Bytes)) /\ Len(Rest) \in Nat \ {0} /\ Reply = Rest[1]
           /\ Len(call.held) \in {0, 1} /\ Len(Rest) = call.due - Len(call.held)
           /\ Sendable(Reply) /\ ReplySize \in Nat \ {0} /\ ReplySize + 2 <= SeqNums
<1>1. Served /\ Pending = Rest
  BY DEF Pending
<1>2. call.due > 0
  <2>1. call.due \in Nat
    BY TypesOpen
  <2> QED BY <1>1, <2>1, RestFacts
<1>3. /\ sent \in 1..Len(Requests) /\ Len(call.held) \in {0, 1} /\ Len(Rest) = call.due - Len(call.held)
      /\ Rest \in Seq(Seq(Bytes))
      /\ \A i \in 1..Len(Rest) : Sendable(Rest[i]) /\ NumFrames(Rest[i]) + 2 <= SeqNums
  BY <1>2, RestFacts
<1>4. Len(Rest) \in Nat \ {0} /\ Head(Rest) = Rest[1]
  BY <1>1, <1>3, TailFacts
<1>5. Reply = Rest[1] /\ Sendable(Reply) /\ NumFrames(Reply) + 2 <= SeqNums
  BY <1>1, <1>3, <1>4 DEF Reply
<1> QED BY <1>1, <1>2, <1>3, <1>4, <1>5, EndFacts DEF ReplySize

\* The frames of a reply of which n were read by a transport that now expects the number a.
LEMMA FramesAt ==
    ASSUME NEW m, Sendable(m), NumFrames(m) <= SeqNums, NEW a \in Seqs, NEW n \in Nat, n < NumFrames(m),
           NEW size \in Nat
    PROVE  LET frames == SegmentMessage(m, Ahead(a, n), size)
           IN  /\ frames \in Seq(Frames) /\ Len(frames) = NumFrames(m)
               /\ Ahead(a, n) \in Seqs /\ a = (Ahead(a, n) + n) % SeqNums
               /\ \A j \in 1..NumFrames(m) :
                    /\ frames[j] \in Frames /\ frames[j].kind = "data"
                    /\ frames[j].seq = (Ahead(a, n) + (j - 1)) % SeqNums
                    /\ frames[j].data = Chunk(m, j)
                    /\ Final(frames[j]) <=> j = NumFrames(m)
                    /\ j = NumFrames(m) => Asks(frames[j])
<1> DEFINE b == Ahead(a, n)
           frames == SegmentMessage(m, b, size)
<1>1. NumFrames(m) \in Nat \ {0} /\ n < SeqNums
  BY EndFacts, SeqNumsFact
<1>2. b \in Seqs /\ a = (b + n) % SeqNums
  BY <1>1, Base
<1> HIDE DEF b
<1>3. /\ frames \in Seq(Frames) /\ Len(frames) = NumFrames(m)
      /\ \A i \in 1..NumFrames(m) :
           /\ frames[i].kind = "data"
           /\ frames[i].seq = (b + i - 1) % SeqNums
           /\ frames[i].data = Chunk(m, i)
           /\ Final(frames[i]) <=> i = NumFrames(m)
           /\ i = NumFrames(m) => Asks(frames[i])
  BY <1>2, SegmentFacts
<1> HIDE DEF frames
<1>4. \A j \in 1..NumFrames(m) : b + j - 1 = b + (j - 1) /\ frames[j] \in Frames
  BY <1>1, <1>2, <1>3, SeqNumsFact
<1> QED BY <1>2, <1>3, <1>4 DEF b, frames

LEMMA SendingFacts ==
    ASSUME Short, Types, GivenInv, Sending
    PROVE  /\ Pending # <<>> /\ Served /\ Sendable(Reply)
           /\ ReplySize \in Nat \ {0} /\ ReplySize + 2 <= SeqNums
           /\ Got \in Nat /\ Gone \in Nat /\ Got <= Gone /\ Got < ReplySize /\ Gone <= ReplySize /\ Gone > 0
           /\ Ahead(part.seq, Got) \in Seqs /\ part.seq = (Ahead(part.seq, Got) + Got) % SeqNums
           /\ peer.tx = (Ahead(part.seq, Got) + Gone) % SeqNums
           /\ ReplyFrames \in Seq(Frames) /\ Len(ReplyFrames) = ReplySize
           /\ \A j \in 1..ReplySize :
                /\ ReplyFrames[j] \in Frames /\ ReplyFrames[j].kind = "data"
                /\ ReplyFrames[j].seq = (Ahead(part.seq, Got) + (j - 1)) % SeqNums
                /\ ReplyFrames[j].data = Chunk(Reply, j)
                /\ Final(ReplyFrames[j]) <=> j = ReplySize
                /\ j = ReplySize => Asks(ReplyFrames[j])
<1>1. /\ Pending # <<>> /\ Gone \in 1..ReplySize /\ Got <= Gone /\ Got < ReplySize
      /\ peer.tx = (part.seq + (Gone - Got)) % SeqNums
  BY DEF Sending
<1>2. Served /\ Sendable(Reply) /\ ReplySize \in Nat \ {0} /\ ReplySize + 2 <= SeqNums
  BY <1>1, PendingFacts
<1>3. Got \in Nat
  BY TypesOpen, CountNat DEF Got
<1>4. /\ Ahead(part.seq, Got) \in Seqs /\ part.seq = (Ahead(part.seq, Got) + Got) % SeqNums
      /\ ReplyFrames \in Seq(Frames) /\ Len(ReplyFrames) = ReplySize
      /\ \A j \in 1..ReplySize :
           /\ ReplyFrames[j] \in Frames /\ ReplyFrames[j].kind = "data"
           /\ ReplyFrames[j].seq = (Ahead(part.seq, Got) + (j - 1)) % SeqNums
           /\ ReplyFrames[j].data = Chunk(Reply, j)
           /\ Final(ReplyFrames[j]) <=> j = ReplySize
           /\ j = ReplySize => Asks(ReplyFrames[j])
  <2>1. NumFrames(Reply) <= SeqNums /\ part.seq \in Seqs /\ PeerBlock \in Nat /\ Got < NumFrames(Reply)
    BY <1>1, <1>2, SeqNumsFact, TypesOpen, TalkFacts DEF ReplySize
  <2> QED BY <1>2, <1>3, <2>1, FramesAt DEF ReplyFrames, ReplySize
<1>5. peer.tx = (Ahead(part.seq, Got) + Gone) % SeqNums
  <2> DEFINE b == Ahead(part.seq, Got)
  <2>1. b \in Seqs /\ part.seq = (b + Got) % SeqNums /\ Got \in 0..SeqNums /\ Gone \in 0..SeqNums /\ Gone - Got \in 0..SeqNums
    BY <1>1, <1>2, <1>3, <1>4, SeqNumsFact
  <2> HIDE DEF b
  <2>2. part.seq = (IF b + Got < SeqNums THEN b + Got ELSE b + Got - SeqNums) /\ part.seq \in Seqs
    BY <2>1, Onward
  <2>3. peer.tx = IF part.seq + (Gone - Got) < SeqNums THEN part.seq + (Gone - Got)
                  ELSE part.seq + (Gone - Got) - SeqNums
    BY <1>1, <2>1, <2>2, Onward
  <2>4. (b + Gone) % SeqNums = IF b + Gone < SeqNums THEN b + Gone ELSE b + Gone - SeqNums
    BY <2>1, Onward
  <2>5. b \in 0..(SeqNums - 1) /\ part.seq \in 0..(SeqNums - 1) /\ SeqNums \in Nat /\ Gone \in Nat /\ Got \in Nat
    BY <2>1, <2>2, <1>1, <1>3, SeqNumsFact
  <2>6. Got <= Gone /\ Gone < SeqNums
    BY <1>1, <1>2, SeqNumsFact
  <2>7. peer.tx = (b + Gone) % SeqNums
    BY <2>2, <2>3, <2>4, <2>5, <2>6
  <2> QED BY <2>7 DEF b
<1> QED BY <1>1, <1>2, <1>3, <1>4, <1>5

\* The same for the request that is not served.
LEMMA AskedFacts ==
    ASSUME Short, Types, ServedInv, ~Served
    PROVE  /\ sent \in 1..Len(Requests) /\ Len(peer.served) = sent - 1
           /\ Sendable(Requests[sent]) /\ Requests[sent] \in Seq(Bytes)
           /\ OutSize \in Nat \ {0} /\ OutSize <= SeqNums
           /\ OutGot \in Nat /\ OutGot < OutSize
           /\ OutGone \in Int /\ OutGot <= OutGone /\ OutGone <= OutSize
           /\ OutStart \in Seqs /\ peer.in.seq = (OutStart + OutGot) % SeqNums
           /\ OutFrames(OutStart) \in Seq(Frames) /\ Len(OutFrames(OutStart)) = OutSize
           /\ \A j \in 1..OutSize :
                /\ OutFrames(OutStart)[j] \in Frames /\ OutFrames(OutStart)[j].kind = "data"
                /\ OutFrames(OutStart)[j].seq = (OutStart + (j - 1)) % SeqNums
                /\ OutFrames(OutStart)[j].data = Chunk(Requests[sent], j)
                /\ Final(OutFrames(OutStart)[j]) <=> j = OutSize
                /\ j = OutSize => Asks(OutFrames(OutStart)[j])
<1>0. sent \in 0..Len(Requests) /\ Len(Requests) \in Nat /\ peer.served \in Seq(Seq(Bytes))
      /\ call.job \in Seq(Frames) /\ peer.in.seq \in Seqs /\ peer.in.wire \in Seq(Bytes)
      /\ BlockSize \in Nat
  <2>1. peer.in \in Reassembler
    BY TypesOpen
  <2> QED BY <2>1, TypesOpen, TalkFacts DEF Reassembler
<1>1. Len(peer.served) = sent - 1 /\ OutGot < OutSize /\ OutGot <= OutGone
  BY DEF ServedInv, Served
<1>2. sent \in 1..Len(Requests)
  <2>1. Len(peer.served) \in Nat
    BY <1>0
  <2> QED BY <1>0, <1>1, <2>1
<1>3. Sendable(Requests[sent]) /\ Requests[sent] \in Seq(Bytes) /\ NumFrames(Requests[sent]) <= SeqNums
  <2>1. Requests \in Seq(Seq(Bytes))
    BY TransportAssumption
  <2>2. sent \in DOMAIN Requests
    BY <1>2, <2>1
  <2> QED BY <1>2, <2>2, TalkFacts DEF Short
<1>4. OutSize \in Nat \ {0} /\ OutSize <= SeqNums
  BY <1>3, EndFacts DEF OutSize
<1>5. OutGot \in Nat /\ OutGone \in Int /\ OutGone <= OutSize
  <2>1. Len(call.job) \in Nat /\ OutGot \in Nat
    BY <1>0, CountNat DEF OutGot
  <2> QED BY <1>4, <2>1 DEF OutGone
<1>6. /\ OutFrames(OutStart) \in Seq(Frames) /\ Len(OutFrames(OutStart)) = OutSize
      /\ OutStart \in Seqs /\ peer.in.seq = (OutStart + OutGot) % SeqNums
      /\ \A j \in 1..OutSize :
           /\ OutFrames(OutStart)[j] \in Frames /\ OutFrames(OutStart)[j].kind = "data"
           /\ OutFrames(OutStart)[j].seq = (OutStart + (j - 1)) % SeqNums
           /\ OutFrames(OutStart)[j].data = Chunk(Requests[sent], j)
           /\ Final(OutFrames(OutStart)[j]) <=> j = OutSize
           /\ j = OutSize => Asks(OutFrames(OutStart)[j])
  <2>1. /\ OutGot < NumFrames(Requests[sent]) /\ OutSize = NumFrames(Requests[sent])
        /\ OutStart = Ahead(peer.in.seq, OutGot)
        /\ OutFrames(OutStart) = SegmentMessage(Requests[sent], Ahead(peer.in.seq, OutGot), BlockSize)
    BY <1>1 DEF OutSize, OutStart, OutFrames
  <2> DEFINE frames == OutFrames(OutStart)
             base == OutStart
             size == OutSize
             m == Requests[sent]
  <2>2. /\ size = NumFrames(m) /\ base = Ahead(peer.in.seq, OutGot)
        /\ frames = SegmentMessage(m, Ahead(peer.in.seq, OutGot), BlockSize)
        /\ Sendable(m) /\ NumFrames(m) <= SeqNums /\ OutGot < NumFrames(m)
    BY <1>3, <2>1
  <2> HIDE DEF frames, base, size, m
  <2>3. /\ frames \in Seq(Frames) /\ Len(frames) = size
        /\ base \in Seqs /\ peer.in.seq = (base + OutGot) % SeqNums
        /\ \A j \in 1..size :
             /\ frames[j] \in Frames /\ frames[j].kind = "data"
             /\ frames[j].seq = (base + (j - 1)) % SeqNums
             /\ frames[j].data = Chunk(m, j)
             /\ Final(frames[j]) <=> j = size
             /\ j = size => Asks(frames[j])
    <3>1. OutGot \in Nat /\ peer.in.seq \in Seqs /\ BlockSize \in Nat
      BY <1>0, <1>5
    <3> DEFINE a == peer.in.seq
               n == OutGot
    <3>2. /\ size = NumFrames(m) /\ base = Ahead(a, n) /\ frames = SegmentMessage(m, Ahead(a, n), BlockSize)
          /\ Sendable(m) /\ NumFrames(m) <= SeqNums /\ n < NumFrames(m)
          /\ n \in Nat /\ a \in Seqs /\ BlockSize \in Nat
      BY <2>2, <3>1
    <3> HIDE DEF a, n
    <3>3. /\ frames \in Seq(Frames) /\ Len(frames) = size
          /\ base \in Seqs /\ a = (base + n) % SeqNums
          /\ \A j \in 1..size :
               /\ frames[j] \in Frames /\ frames[j].kind = "data"
               /\ frames[j].seq = (base + (j - 1)) % SeqNums
               /\ frames[j].data = Chunk(m, j)
               /\ Final(frames[j]) <=> j = size
               /\ j = size => Asks(frames[j])
      BY <3>2, FramesAt
    <3> QED BY <3>3 DEF a, n
  <2> QED BY <2>3 DEF frames, base, size, m
<1> QED BY <1>1, <1>2, <1>3, <1>4, <1>5, <1>6

--------------------------------------------------------------------------------
(***************************************************************************)
(* Steps that only move frames.                                            *)
(***************************************************************************)

\* What the queue to the peer holds still fits the invariant, and so does what is on its
\* way to the transport.
ToPeerFits ==
    /\ \A frames, low, high : Carries(toPeer, frames, low, high) => Carries(toPeer', frames, low, high)
    /\ Between => Acks(toPeer', peer.tx, 0, IF peer.await = <<>> THEN 0 ELSE SeqNums - 2)
    /\ Sending => Acks(toPeer', peer.tx, Gone - Got, Gone)
FlightFits ==
    /\ Between => \A k \in Splits : Flight(k, 0, part.seq, {}, Seen, toTester)
                     => \E n \in Splits' : Flight(n, 0, part.seq, {}, Seen', toTester')
    /\ Sending => \A k \in Splits : Flight(k, Got, part.seq, Unread, Seen, toTester)
                     => \E n \in Splits' : Flight(n, Got, part.seq, Unread, Seen', toTester')

LEMMA Kept ==
    ASSUME Ordered, SameStage, UNCHANGED <<txSeq, sent, part, results>>,
           call'.job = call.job, call'.awaited = call.awaited, call'.due = call.due, call'.held = call.held,
           call'.deferred = call.deferred \/ pc = "alive",
           peer'.in = peer.in, peer'.served = peer.served, peer'.out = peer.out, peer'.tx = peer.tx,
           peer'.todo = peer.todo, peer'.await = peer.await,
           ToPeerFits, FlightFits
    PROVE  Ordered'
<1>1. AskingInv'
  BY AskingKept DEF Ordered
<1>2. ServedInv'
  BY ServedKept DEF Ordered, ToPeerFits
<1>3. GivenInv'
  BY GivenKept DEF Ordered
<1>4. Between' \/ Sending'
  <2>1. Pending' = Pending
    BY DEF Pending, Served, Rest
  <2> QED BY <2>1, ReplyKept DEF Ordered, ToPeerFits, FlightFits
<1> QED BY <1>1, <1>2, <1>3, <1>4 DEF Ordered

\* The queue to the peer stays, loses its first frame, or gets one without a number.
LEMMA ToPeerMoves ==
    ASSUME Types, Between \/ Sending,
           \/ toPeer' = toPeer
           \/ toPeer # <<>> /\ toPeer' = Tail(toPeer)
           \/ \E f \in Wireable : f.kind \notin {"data", "ack"} /\ toPeer' = Append(toPeer, f)
    PROVE  ToPeerFits
<1>1. toPeer \in Seq(Wireable)
  BY TypesOpen
<1>2. /\ Between => Acks(toPeer, peer.tx, 0, IF peer.await = <<>> THEN 0 ELSE SeqNums - 2)
      /\ Sending => Acks(toPeer, peer.tx, Gone - Got, Gone)
  BY DEF Between, Sending
<1>3. CASE toPeer' = toPeer
  BY <1>2, <1>3 DEF ToPeerFits
<1>4. CASE toPeer # <<>> /\ toPeer' = Tail(toPeer)
  <2>1. \A frames, low, high : Carries(toPeer, frames, low, high) => Carries(toPeer', frames, low, high)
    BY <1>1, <1>4, CarriesTail
  <2>2. \A n, low, high : Acks(toPeer, n, low, high) => Acks(toPeer', n, low, high)
    BY <1>1, <1>4, AcksTail
  <2> QED BY <1>2, <2>1, <2>2 DEF ToPeerFits
<1>5. CASE \E f \in Wireable : f.kind \notin {"data", "ack"} /\ toPeer' = Append(toPeer, f)
  <2>0. PICK f \in Wireable : f.kind # "data" /\ f.kind # "ack" /\ toPeer' = Append(toPeer, f)
    BY <1>5
  <2>1. \A frames, low, high : Carries(toPeer, frames, low, high) => Carries(toPeer', frames, low, high)
    BY <1>1, <2>0, CarriesOther
  <2>2. \A n, low, high : Acks(toPeer, n, low, high) => Acks(toPeer', n, low, high)
    BY <1>1, <2>0, AcksOther
  <2> QED BY <1>2, <2>1, <2>2 DEF ToPeerFits
<1> QED BY <1>3, <1>4, <1>5

LEMMA SeenFacts ==
    ASSUME Types
    PROVE  /\ Seen \in Seq(Wireable) /\ Len(Seen) = Len(call.deferred) + Len(msgs) /\ Len(Seen) \in Nat
           /\ Len(call.deferred) \in Nat /\ Len(msgs) \in Nat
           /\ \A i \in 1..Len(call.deferred) : Seen[i] = call.deferred[i]
           /\ \A i \in 1..Len(msgs) : Seen[Len(call.deferred) + i] = msgs[i]
           /\ call.deferred = <<>> => Seen = msgs
<1>1. call.deferred \in Seq(Wireable) /\ msgs \in Seq(Wireable)
  BY TypesOpen
<1>2. Len(call.deferred) \in Nat /\ Len(msgs) \in Nat
  BY <1>1
<1> QED BY <1>1, <1>2, ConcatFacts DEF Seen

\* What is enough for FlightFits: every division of the queue gives one of the new queue.
LEMMA FlightFitsAll ==
    ASSUME Types,
           \A unread : \A k \in Splits, taken \in Nat, next \in Seqs :
             Flight(k, taken, next, unread, Seen, toTester)
               => \E n \in Splits' : Flight(n, taken, next, unread, Seen', toTester')
    PROVE  FlightFits
<1>1. Got \in Nat /\ part.seq \in Seqs /\ 0 \in Nat
  BY TypesOpen, CountNat DEF Got
<1> QED BY <1>1 DEF FlightFits

LEMMA SplitsFacts ==
    ASSUME Types
    PROVE  /\ \A k \in Splits : k \in Nat /\ k \in 0..Len(Seen)
           /\ 0 \in Splits /\ Len(Seen) \in Splits
           /\ Asking => Splits = {0, Len(Seen)}
           /\ ~Asking => Splits = 0..Len(Seen)
<1>1. Len(Seen) \in Nat
  BY SeenFacts
<1> QED BY <1>1 DEF Splits

\* No request begins.
NoneBegins == Asking' => Asking

\* The first frame of the queue behind the deferred is taken.
LEMMA FlightFitsDrop ==
    ASSUME Types, Types', NoneBegins, msgs # <<>>, Seen' = call.deferred \o Tail(msgs), toTester' = toTester
    PROVE  FlightFits
<1> DEFINE q == Seen
           t == Seen'
           p == Len(call.deferred) + 1
<1>1. /\ q \in Seq(Wireable) /\ Len(q) = Len(call.deferred) + Len(msgs)
      /\ Len(call.deferred) \in Nat /\ Len(msgs) \in Nat
      /\ \A i \in 1..Len(call.deferred) : q[i] = call.deferred[i]
      /\ \A i \in 1..Len(msgs) : q[Len(call.deferred) + i] = msgs[i]
  BY SeenFacts
<1>2. /\ t \in Seq(Wireable) /\ Len(t) = Len(call.deferred) + Len(Tail(msgs))
      /\ \A i \in 1..Len(call.deferred) : t[i] = call.deferred[i]
      /\ \A i \in 1..Len(Tail(msgs)) : t[Len(call.deferred) + i] = Tail(msgs)[i]
  <2> DEFINE d == call.deferred
             m == Tail(msgs)
  <2>1. d \in Seq(Wireable) /\ m \in Seq(Wireable)
    <3>1. call.deferred \in Seq(Wireable) /\ msgs \in Seq(Wireable)
      BY TypesOpen
    <3> QED BY <3>1, TailFacts
  <2> HIDE DEF d, m
  <2>2. /\ d \o m \in Seq(Wireable) /\ Len(d \o m) = Len(d) + Len(m)
        /\ \A i \in 1..Len(d) : (d \o m)[i] = d[i]
        /\ \A i \in 1..Len(m) : (d \o m)[Len(d) + i] = m[i]
    BY <2>1, ConcatFacts
  <2> QED BY <2>2 DEF d, m
<1>3. /\ Len(Tail(msgs)) = Len(msgs) - 1 /\ Len(msgs) >= 1
      /\ \A i \in 1..(Len(msgs) - 1) : Tail(msgs)[i] = msgs[i + 1]
  <2>1. msgs \in Seq(Wireable)
    BY TypesOpen
  <2> QED BY <2>1, TailFacts
<1> HIDE DEF q, t
<1>5. p \in 1..Len(q) /\ Len(t) = Len(q) - 1
  BY <1>1, <1>2, <1>3
<1>6. ASSUME NEW i \in 1..Len(t) PROVE t[i] = IF i < p THEN q[i] ELSE q[i + 1]
  <2>1. CASE i < p
    <3>1. i \in 1..Len(call.deferred)
      BY <1>1, <2>1
    <3> QED BY <1>1, <1>2, <2>1, <3>1
  <2>2. CASE ~(i < p)
    <3> DEFINE d == Len(call.deferred)
               j == i - d
    <3>1. j \in 1..(Len(msgs) - 1) /\ j + 1 \in 1..Len(msgs) /\ d + j = i /\ d + (j + 1) = i + 1
      BY <1>1, <1>2, <1>3, <2>2
    <3> HIDE DEF j
    <3>2. t[d + j] = Tail(msgs)[j] /\ Tail(msgs)[j] = msgs[j + 1] /\ q[d + (j + 1)] = msgs[j + 1]
      BY <1>1, <1>2, <1>3, <3>1
    <3> QED BY <2>2, <3>1, <3>2
  <2> QED BY <2>1, <2>2
<1>7. ASSUME NEW k \in Splits, NEW taken \in Nat, NEW next \in Seqs, NEW unread,
             Flight(k, taken, next, unread, Seen, toTester)
      PROVE  \E n \in Splits' : Flight(n, taken, next, unread, Seen', toTester')
  <2>1. k \in Nat /\ toTester \in Seq(Wireable)
    BY SplitsFacts, TypesOpen
  <2> HIDE DEF p
  <2>2. PICK n \in 0..Len(t) : /\ Flight(n, taken, next, unread, t, toTester)
                               /\ (k = 0 => n = 0) /\ (k = Len(q) => n = Len(t))
    <3>1. Flight(k, taken, next, unread, q, toTester)
      BY <1>7 DEF q
    <3>2. Dropped(q, p, t)
      BY <1>1, <1>2, <1>5, <1>6 DEF Dropped
    <3> QED BY <2>1, <3>1, <3>2, FlightDrop
  <2>3. n \in Splits'
    <3>1. Splits' = IF Asking' THEN {0, Len(t)} ELSE 0..Len(t)
      BY DEF Splits, t
    <3>2. Asking' => k \in {0, Len(q)}
      BY SplitsFacts DEF q, NoneBegins
    <3> QED BY <2>2, <3>1, <3>2
  <2>4. Flight(n, taken, next, unread, Seen', toTester')
    BY <2>2 DEF t
  <2> QED BY <2>3, <2>4
<1> QED BY <1>7, FlightFitsAll

\* The queue stays; what comes stays, loses its first frame, or gets one that is no data.
LEMMA FlightFitsMoves ==
    ASSUME Types, SameStage, Seen' = Seen,
           \/ toTester' = toTester
           \/ toTester # <<>> /\ toTester' = Tail(toTester)
           \/ \E f \in Wireable : f.kind # "data" /\ toTester' = Append(toTester, f)
    PROVE  FlightFits
<1>1. Splits' = Splits
  BY DEF Splits, SameStage, Asking
<1>2. toTester \in Seq(Wireable) /\ Seen \in Seq(Wireable)
  BY TypesOpen, SeenFacts
<1>3. ASSUME NEW k \in Splits, NEW taken \in Nat, NEW next \in Seqs, NEW unread,
             Flight(k, taken, next, unread, Seen, toTester)
      PROVE  Flight(k, taken, next, unread, Seen, toTester')
  <2>0. k \in Nat
    BY SplitsFacts
  <2>1. CASE toTester' = toTester
    BY <1>3, <2>1
  <2>2. CASE toTester # <<>> /\ toTester' = Tail(toTester)
    BY <1>2, <1>3, <2>0, <2>2, FlightLost
  <2>3. CASE \E f \in Wireable : f.kind # "data" /\ toTester' = Append(toTester, f)
    BY <1>2, <1>3, <2>0, <2>3, FlightOther
  <2> QED BY <2>1, <2>2, <2>3
<1>4. ASSUME NEW k \in Splits, NEW taken \in Nat, NEW next \in Seqs, NEW unread,
             Flight(k, taken, next, unread, Seen, toTester)
      PROVE  \E n \in Splits' : Flight(n, taken, next, unread, Seen', toTester')
  BY <1>1, <1>3, <1>4
<1> QED BY <1>4, FlightFitsAll

LEMMA OrderedWaits ==
    ASSUME Types, Types', Ordered, WaitFrame \/ Ping \/ Ignored
    PROVE  Ordered'
<1> DEFINE Keeps == /\ call'.job = call.job /\ call'.awaited = call.awaited /\ call'.due = call.due
                    /\ call'.held = call.held /\ call'.deferred = call.deferred
<1>1. PICK stage, k : Takes(stage, k)
  BY DEF WaitFrame, Ping, Ignored
<1>2. /\ toTester' = toTester /\ peer' = peer /\ msgs # <<>>
      /\ call.left - 1 \in 0..Timeout /\ call.hard - 1 \in 0..HardTimeout /\ call.left - 1 <= call.hard - 1
  BY <1>1, TypesMeets DEF Takes
<1>3. msgs' = Tail(msgs) /\ UNCHANGED <<pc, txSeq, part, sent, results>>
  BY DEF WaitFrame, Ping, Ignored
<1>4. Keeps
  <2>1. CASE WaitFrame \/ Ping
    <3>1. call' \in {Waited(call), Pinged(call)}
      BY <2>1 DEF WaitFrame, Ping
    <3> QED BY <1>2, <3>1, DeadlineTypes
  <2>2. CASE Ignored
    BY <2>2 DEF Ignored
  <2> QED BY <2>1, <2>2
<1>5. ToPeerFits
  <2>1. CASE WaitFrame \/ Ignored
    <3>1. toPeer' = toPeer
      BY <2>1 DEF WaitFrame, Ignored
    <3> QED BY <3>1, ToPeerMoves DEF Ordered
  <2>2. CASE Ping
    <3>1. toPeer' = Append(toPeer, Control("pong"))
      BY <2>2 DEF Ping, Send
    <3>2. Control("pong") \in Wireable /\ Control("pong").kind \notin {"data", "ack"}
      BY WireableFacts DEF Control
    <3> QED BY <3>1, <3>2, ToPeerMoves DEF Ordered
  <2> QED BY <2>1, <2>2
<1>6. SameStage
  BY <1>3 DEF SameStage
<1>7. FlightFits
  <2>1. NoneBegins
    BY <1>3 DEF NoneBegins, Asking
  <2>2. Seen' = call.deferred \o Tail(msgs)
    BY <1>3, <1>4 DEF Seen
  <2> QED BY <1>2, <1>3, <1>4, <2>1, <2>2, FlightFitsDrop
<1> QED BY <1>2, <1>3, <1>4, <1>5, <1>6, <1>7, Kept

LEMMA OrderedPull ==
    ASSUME Types, Types', Ordered, Pull
    PROVE  Ordered'
<1>1. /\ msgs = <<>> /\ toTester # <<>> /\ UNCHANGED <<pc, txSeq, part, call, sent, results, toPeer, peer>>
      /\ pc \in Listening
  BY DEF Pull
<1>2. PICK n \in 1..Len(toTester) :
        /\ msgs' = Without(SubSeq(toTester, 1, n), "setup")
        /\ toTester' = SubSeq(toTester, n + 1, Len(toTester))
  BY DEF Pull
<1> DEFINE batch == SubSeq(toTester, 1, n)
           q == Seen
           t == Seen'
           d == Len(call.deferred)
<1>3. toTester \in Seq(Wireable) /\ batch \in Seq(Wireable) /\ Len(batch) = n /\ \A i \in 1..n : batch[i] = toTester[i]
  <2>1. toTester \in Seq(Wireable) /\ 1 \in Nat /\ n \in Nat /\ 1 <= n + 1 /\ n <= Len(toTester) /\ n - 1 + 1 = n
    BY TypesOpen
  <2>2. /\ SubSeq(toTester, 1, n) \in Seq(Wireable) /\ Len(SubSeq(toTester, 1, n)) = n - 1 + 1
        /\ \A i \in 1..(n - 1 + 1) : SubSeq(toTester, 1, n)[i] = toTester[1 + i - 1]
    BY <2>1, WindowFacts
  <2> QED BY <2>1, <2>2
<1>4. ASSUME NEW a \in 1..Len(msgs') PROVE \E b \in 1..n : msgs'[a] = toTester[b]
  <2>1. a \in DOMAIN Without(batch, "setup")
    <3>1. msgs' \in Seq(Wireable)
      BY <1>2, <1>3, WithoutFacts
    <3> QED BY <1>2, <3>1
  <2> HIDE DEF batch
  <2>2. PICK b \in DOMAIN batch : Without(batch, "setup")[a] = batch[b]
    BY <1>3, <2>1, WithoutFacts, SMTT(30)
  <2>3. b \in 1..n
    BY <1>3, <2>2
  <2> QED BY <1>2, <1>3, <2>2, <2>3 DEF batch
<1>5. /\ q \in Seq(Wireable) /\ Len(q) = d /\ d \in Nat /\ \A i \in 1..d : q[i] = call.deferred[i]
  BY <1>1, SeenFacts
<1>6. /\ t \in Seq(Wireable) /\ Len(t) = d + Len(msgs') /\ Len(msgs') \in Nat
      /\ \A i \in 1..d : t[i] = call.deferred[i]
      /\ \A i \in 1..Len(msgs') : t[d + i] = msgs'[i]
  <2>1. call.deferred \in Seq(Wireable) /\ msgs' \in Seq(Wireable)
    BY <1>2, <1>3, TypesOpen, WithoutFacts
  <2>2. t = call.deferred \o msgs'
    BY <1>1 DEF Seen
  <2> HIDE DEF t
  <2> QED BY <2>1, <2>2, ConcatFacts
<1>7. SameStage
  BY <1>1 DEF SameStage
<1> HIDE DEF q, t, batch
<1>8. ASSUME NEW i \in 1..Len(t), Len(q) < i PROVE \E b \in 1..n : t[i] = toTester[b]
  <2> DEFINE j == i - d
  <2>1. j \in 1..Len(msgs') /\ d + j = i
    BY <1>5, <1>6, <1>8
  <2> HIDE DEF j
  <2>2. t[i] = msgs'[j]
    BY <1>6, <2>1
  <2> QED BY <1>4, <2>1, <2>2
<1>9. ASSUME NEW k \in Splits, NEW taken \in Nat, NEW next \in Seqs, NEW unread,
             Flight(k, taken, next, unread, Seen, toTester)
      PROVE  \E x \in Splits' : Flight(x, taken, next, unread, Seen', toTester')
  <2>1. k \in Nat /\ k <= Len(q) /\ (Asking => k \in {0, Len(q)})
    BY SplitsFacts, <1>5 DEF q
  <2>2. Flight(k, taken, next, unread, t, toTester')
    <3>1. Len(t) >= Len(q) /\ \A i \in 1..Len(q) : t[i] = q[i]
      BY <1>5, <1>6
    <3>2. Flight(k, taken, next, unread, q, toTester)
      BY <1>9 DEF q
    <3>3. \A i \in 1..Len(t) : Len(q) < i => \E b \in 1..n : t[i] = toTester[b]
      BY <1>8
    <3> QED BY <1>2, <1>3, <1>5, <1>6, <2>1, <3>1, <3>2, <3>3, FlightPull
  <2>3. k \in Splits'
    <3>1. Asking => k = 0
      <4>1. Asking => d = 0
        <5>1. Asking => call.deferred = <<>>
          BY DEF Asking, Ordered, GivenInv
        <5> QED BY <5>1
      <4> QED BY <1>5, <2>1, <4>1
    <3>2. Splits' = IF Asking THEN {0, Len(t)} ELSE 0..Len(t)
      BY <1>1 DEF Splits, Asking, t
    <3>3. k \in 0..Len(t)
      BY <1>5, <1>6, <2>1
    <3> QED BY <3>1, <3>2, <3>3
  <2> QED BY <2>2, <2>3 DEF t
<1>10. FlightFits
  BY <1>9, FlightFitsAll
<1>11. ToPeerFits
  BY <1>1, ToPeerMoves DEF Ordered
<1> QED BY <1>1, <1>7, <1>10, <1>11, Kept

LEMMA OrderedDefer ==
    ASSUME Types, Types', Ordered, Defer
    PROVE  Ordered'
<1>1. /\ msgs # <<>> /\ msgs' = Tail(msgs) /\ pc = "alive" /\ toTester' = toTester /\ peer' = peer
      /\ call' = [call EXCEPT !.deferred = Append(@, Head(msgs))]
      /\ UNCHANGED <<pc, txSeq, part, sent, results, toPeer>>
  BY DEF Defer, Takes, Meets
<1>2. /\ call'.job = call.job /\ call'.awaited = call.awaited /\ call'.due = call.due
      /\ call'.held = call.held /\ call'.deferred = Append(call.deferred, Head(msgs))
  <2>1. call \in Call
    BY TypesOpen
  <2> QED BY <1>1, <2>1 DEF Call
<1>3. Seen' = Seen
  <2>1. call.deferred \in Seq(Wireable) /\ msgs \in Seq(Wireable)
    BY TypesOpen
  <2> QED BY <1>1, <1>2, <2>1, HeadMoves DEF Seen
<1>4. SameStage
  BY <1>1 DEF SameStage
<1>5. FlightFits
  BY <1>1, <1>3, <1>4, FlightFitsMoves
<1>6. ToPeerFits
  BY <1>1, ToPeerMoves DEF Ordered
<1> QED BY <1>1, <1>2, <1>4, <1>5, <1>6, Kept

LEMMA OrderedDisconnect ==
    ASSUME Types, Types', Ordered, Disconnect
    PROVE  Ordered'
<1>1. /\ pc = "idle" /\ pc' = "closed" /\ toPeer' = Append(toPeer, Control("close"))
      /\ UNCHANGED <<txSeq, part, msgs, call, sent, results, toTester, peer>>
  BY DEF Disconnect, Send
<1>2. SameStage /\ Seen' = Seen
  BY <1>1 DEF SameStage, Seen
<1>3. ToPeerFits
  <2>1. Control("close") \in Wireable /\ Control("close").kind \notin {"data", "ack"}
    BY WireableFacts DEF Control
  <2> QED BY <1>1, <2>1, ToPeerMoves DEF Ordered
<1>4. FlightFits
  BY <1>1, <1>2, FlightFitsMoves
<1> QED BY <1>1, <1>2, <1>3, <1>4, Kept

\* Steps of the peer and of the link that change neither the request nor the reply.
LEMMA OrderedByOthers ==
    ASSUME Types, Types', Ordered, UNCHANGED tester,
           peer'.in = peer.in, peer'.served = peer.served, peer'.out = peer.out, peer'.tx = peer.tx,
           peer'.todo = peer.todo, peer'.await = peer.await,
           \/ toPeer' = toPeer
           \/ toPeer # <<>> /\ toPeer' = Tail(toPeer)
           \/ \E f \in Wireable : f.kind \notin {"data", "ack"} /\ toPeer' = Append(toPeer, f),
           \/ toTester' = toTester
           \/ toTester # <<>> /\ toTester' = Tail(toTester)
           \/ \E f \in Wireable : f.kind # "data" /\ toTester' = Append(toTester, f)
    PROVE  Ordered'
<1>1. UNCHANGED <<pc, txSeq, part, msgs, call, sent, results>>
  BY DEF tester
<1>2. SameStage /\ Seen' = Seen
  BY <1>1 DEF SameStage, Seen
<1>3. ToPeerFits
  BY ToPeerMoves DEF Ordered
<1>4. FlightFits
  BY <1>2, FlightFitsMoves
<1> QED BY <1>1, <1>2, <1>3, <1>4, Kept

LEMMA OrderedQuiet ==
    ASSUME Types, Types', Ordered,
           PeerPinged \/ PeerPonged \/ PeerClosed \/ Unheard \/ Befalling \/ UNCHANGED vars
    PROVE  Ordered'
<1>0. /\ peer \in Other /\ toTester \in Seq(Wireable)
      /\ \A f \in Wireable : toTester \o <<f>> = Append(toTester, f)
  BY TypesOpen
<1> DEFINE Same == /\ peer'.in = peer.in /\ peer'.served = peer.served /\ peer'.out = peer.out
                   /\ peer'.tx = peer.tx /\ peer'.todo = peer.todo /\ peer'.await = peer.await
<1>1. Same /\ UNCHANGED tester
  <2>1. CASE PeerPinged \/ PeerPonged \/ Unheard
    BY <2>1 DEF PeerPinged, PeerPonged, Unheard, PeerTakes
  <2>2. CASE PeerClosed
    BY <1>0, <2>2 DEF PeerClosed, PeerTakes, Other
  <2>3. CASE Befalling
    BY <1>0, <2>3 DEF Befalling, PeerAsks, PeerCloses, LoseToPeer, LoseToTester, Other
  <2>4. CASE UNCHANGED vars
    BY <2>4 DEF vars
  <2> QED BY <2>1, <2>2, <2>3, <2>4
<1>2. \/ toPeer' = toPeer
      \/ toPeer # <<>> /\ toPeer' = Tail(toPeer)
  BY DEF PeerPinged, PeerPonged, PeerClosed, Unheard, PeerTakes, Befalling, PeerAsks, PeerCloses, LoseToPeer,
         LoseToTester, vars
<1>3. \/ toTester' = toTester
      \/ toTester # <<>> /\ toTester' = Tail(toTester)
      \/ \E f \in Wireable : f.kind # "data" /\ toTester' = Append(toTester, f)
  <2>1. CASE PeerPonged \/ PeerClosed \/ Unheard \/ UNCHANGED vars \/ LoseToPeer \/ LoseToTester
    BY <2>1 DEF PeerPonged, PeerClosed, Unheard, PeerTakes, LoseToPeer, LoseToTester, vars
  <2>2. CASE PeerPinged \/ PeerAsks \/ PeerCloses
    <3>1. PICK k \in {"wait", "ping", "pong", "close"} : toTester' = toTester \o <<Control(k)>>
      BY <2>2 DEF PeerPinged, PeerAsks, PeerCloses, ToTester
    <3>2. Control(k) \in Wireable /\ Control(k).kind # "data"
      BY WireableFacts DEF Control
    <3> QED BY <1>0, <3>1, <3>2
  <2> QED BY <2>1, <2>2 DEF Befalling
<1> QED BY <1>1, <1>2, <1>3, OrderedByOthers

LEMMA OrderedInit == Init => Ordered
<1> SUFFICES ASSUME Init PROVE Ordered
  OBVIOUS
<1>1. /\ pc = "idle" /\ txSeq = 0 /\ part = Fresh(0, <<>>) /\ msgs = <<>> /\ call = NoCall /\ sent = 0
      /\ results = <<>> /\ toPeer = <<>> /\ toTester = <<>>
      /\ peer = [PeerInit EXCEPT !.closed = ~TRUE]
  BY DEF Init, InitWith
<1>2. /\ peer.in = Fresh(0, <<>>) /\ peer.tx = 0 /\ peer.out = <<>> /\ peer.await = <<>> /\ peer.todo = <<>>
      /\ peer.served = <<>>
      /\ call.job = <<>> /\ call.due = 0 /\ call.held = <<>> /\ call.deferred = <<>>
  BY <1>1 DEF PeerInit, NoCall
<1>3. ~Asking /\ Served /\ Rest = <<>> /\ Pending = <<>> /\ Seen = <<>>
  BY <1>1, <1>2 DEF Asking, Served, Rest, Pending, Seen
<1>4. /\ Empty(part) /\ Empty(peer.in) /\ part.seq = 0 /\ peer.in.seq = 0
  BY <1>1, <1>2 DEF Empty, Fresh
<1>5. AskingInv
  BY <1>1, <1>2, <1>3 DEF AskingInv
<1>6. ServedInv
  <2>1. SubSeq(Requests, 1, 0) = <<>>
    <3>1. Requests \in Seq(Seq(Bytes))
      BY TransportAssumption
    <3> QED BY <3>1, EmptyWindow
  <2>2. Carries(toPeer, <<>>, 1, 0)
    BY <1>1 DEF Carries
  <2>3. Len(peer.served) = 0
    BY <1>2
  <2> QED BY <1>1, <1>2, <1>3, <1>4, <2>1, <2>2, <2>3 DEF ServedInv
<1>7. GivenInv
  <2>1. (results \o call.held) \o Rest = Answers(sent) /\ Len(call.held) = 0
    BY <1>1, <1>2, <1>3, AnswersFacts
  <2> QED BY <1>1, <1>2, <1>3, <2>1 DEF GivenInv
<1>8. Between
  <2>1. Acks(toPeer, peer.tx, 0, 0)
    BY <1>1 DEF Acks
  <2>2. Flight(0, 0, part.seq, {}, Seen, toTester) /\ 0 \in Splits
    BY <1>1, <1>3 DEF Flight, Splits
  <2> QED BY <1>2, <1>3, <1>4, <2>1, <2>2 DEF Between
<1> QED BY <1>5, <1>6, <1>7, <1>8 DEF Ordered

--------------------------------------------------------------------------------
(***************************************************************************)
(* The request: it begins, its frames follow, and the ACKs for them.       *)
(***************************************************************************)

LEMMA OrderedTransmit ==
    ASSUME Short, Types, Types', Ordered, Transmit
    PROVE  Ordered'
<1> DEFINE f == Head(call.job)
           i == OutGone + 1
<1>1. /\ pc = "send" /\ toPeer' = Append(toPeer, f)
      /\ call' = [Started(call) EXCEPT !.job = Tail(@), !.awaited = f.seq]
      /\ pc' = IF Asks(f) THEN "ack" ELSE "send"
      /\ UNCHANGED <<txSeq, part, msgs, sent, results, toTester, peer>>
  BY DEF Transmit, Send
<1>2. /\ Asking /\ Asking' /\ call.job # <<>> /\ call.job \in Seq(Frames) /\ call \in Call /\ toPeer \in Seq(Wireable)
      /\ call.due \in Nat
  BY <1>1, TypesOpen DEF Asking
<1>3. /\ call'.job = Tail(call.job) /\ call'.awaited = f.seq /\ call'.due = call.due /\ call'.held = call.held
      /\ call'.deferred = call.deferred
  <2>1. Started(call) \in Call /\ Started(call).job = call.job /\ Started(call).due = call.due
        /\ Started(call).held = call.held /\ Started(call).deferred = call.deferred
    BY <1>2, StartedType
  <2> HIDE DEF f
  <2> QED BY <1>1, <2>1 DEF Call
<1>4. /\ ~Served /\ Len(call.job) \in Nat \ {0}
  BY <1>2, TailFacts DEF Ordered, ServedInv
<1>5. /\ OutSize \in Nat \ {0} /\ OutSize <= SeqNums /\ OutGot \in Nat /\ OutGot <= OutGone
      /\ OutGone \in Int /\ OutGone < OutSize /\ OutStart \in Seqs /\ txSeq = OutStart
      /\ OutFrames(OutStart) \in Seq(Frames) /\ Len(OutFrames(OutStart)) = OutSize
      /\ \A j \in 1..OutSize : OutFrames(OutStart)[j].seq = (OutStart + (j - 1)) % SeqNums
  <2>1. OutGone < OutSize
    <3>1. OutSize \in Nat
      BY <1>4, AskedFacts DEF Ordered
    <3> QED BY <1>4, <3>1 DEF OutGone
  <2> QED BY <1>2, <1>4, <2>1, AskedFacts DEF Ordered, ServedInv
<1>6. call.job = SubSeq(OutFrames(OutStart), i, OutSize)
  BY <1>2, <1>5 DEF Ordered, AskingInv
<1>7. /\ i \in 1..OutSize /\ f = OutFrames(OutStart)[i] /\ Tail(call.job) = SubSeq(OutFrames(OutStart), i + 1, OutSize)
      /\ Len(Tail(call.job)) = Len(call.job) - 1
  <2> DEFINE all == OutFrames(OutStart)
  <2>1. i \in 1..OutSize
    BY <1>5
  <2>2. all \in Seq(Frames) /\ i \in 1..Len(all) /\ Len(all) = OutSize /\ call.job = SubSeq(all, i, Len(all))
    BY <1>5, <1>6, <2>1
  <2> HIDE DEF all, i
  <2>3. Head(call.job) = all[i] /\ Tail(call.job) = SubSeq(all, i + 1, Len(all)) /\ Len(Tail(call.job)) = Len(call.job) - 1
    BY <2>2, WindowShrinks
  <2> QED BY <2>1, <2>2, <2>3 DEF all
<1> HIDE DEF f
<1>8. /\ OutSize' = OutSize /\ OutGot' = OutGot /\ OutStart' = OutStart /\ OutGone' = OutGone + 1
      /\ OutFrames(txSeq)' = OutFrames(OutStart) /\ OutFrames(OutStart)' = OutFrames(OutStart)
  <2>1. /\ OutSize' = OutSize /\ OutGot' = OutGot /\ OutStart' = OutStart
        /\ OutFrames(txSeq)' = OutFrames(txSeq) /\ OutFrames(OutStart)' = OutFrames(OutStart)
    BY <1>1 DEF OutSize, OutGot, OutStart, OutFrames
  <2>2. OutGone' = OutSize - (Len(call.job) - 1)
    BY <1>3, <1>7, <2>1 DEF OutGone
  <2>3. OutGone' = OutGone + 1
    <3>1. OutSize \in Nat /\ Len(call.job) \in Nat /\ OutGone = OutSize - Len(call.job)
      BY <1>4, <1>5 DEF OutGone
    <3> QED BY <2>2, <3>1
  <2> QED BY <1>5, <2>1, <2>3
<1>9. AskingInv'
  <2>1. sent' > 0 /\ OutGone' \in 0..OutSize' /\ OutGone' > 0
    BY <1>1, <1>2, <1>5, <1>8 DEF Ordered, AskingInv
  <2>2. i = OutGone' /\ i + 1 = OutGone' + 1
    BY <1>8
  <2> HIDE DEF i
  <2>3. /\ call'.job = SubSeq(OutFrames(txSeq)', OutGone' + 1, OutSize')
        /\ call'.awaited = OutFrames(txSeq)'[OutGone'].seq
    BY <1>3, <1>7, <1>8, <2>2
  <2> QED BY <1>1, <1>2, <1>8, <2>1, <2>2, <2>3 DEF AskingInv
<1>10. Carries(toPeer', OutFrames(OutStart), OutGot + 1, OutGone + 1)
  <2> DEFINE all == OutFrames(OutStart)
             low == OutGot + 1
  <2>1. Carries(toPeer, all, low, OutGone)
    BY <1>4 DEF Ordered, ServedInv
  <2>2. f \in Wireable /\ f = all[OutGone + 1]
    <3>1. f \in Frames
      BY <1>2, TailFacts DEF f
    <3> QED BY <1>7, <3>1, WireableFacts
  <2>3. \A j \in low..OutGone : all[j].seq # f.seq
    <3> SUFFICES ASSUME NEW j \in low..OutGone PROVE all[j].seq # f.seq
      OBVIOUS
    <3>1. j \in 1..OutSize /\ j - 1 \in Nat /\ OutGone \in Nat /\ j - 1 <= OutGone /\ OutGone <= SeqNums
          /\ j - 1 < OutGone /\ OutGone - (j - 1) < SeqNums /\ i - 1 = OutGone
      <4>1. OutGot \in Nat /\ OutGone \in Int /\ OutGone < OutSize /\ OutSize <= SeqNums /\ OutSize \in Nat
        BY <1>5
      <4>2. SeqNums \in Nat /\ j \in Int /\ OutGot + 1 <= j /\ j <= OutGone /\ i - 1 = OutGone
        BY <4>1, SeqNumsFact
      <4> QED BY <4>1, <4>2
    <3>2. (OutStart + (j - 1)) % SeqNums # (OutStart + OutGone) % SeqNums
      BY <1>5, <3>1, Numbers
    <3> QED BY <1>5, <1>7, <3>1, <3>2
  <2>4. low \in Int /\ low <= OutGone + 1
    BY <1>5
  <2> HIDE DEF all, low
  <2>5. Carries(toPeer', all, low, OutGone + 1)
    BY <1>1, <1>2, <1>5, <2>1, <2>2, <2>3, <2>4, CarriesNext
  <2> QED BY <2>5 DEF all, low
<1>11. ServedInv'
  <2>1. Served' = Served
    BY <1>1 DEF Served
  <2>2. OutGot' < OutSize' /\ OutGot' <= OutGone' /\ Reading(peer'.in, Requests[sent'], OutGot')
    BY <1>1, <1>4, <1>5, <1>8 DEF Ordered, ServedInv
  <2> QED BY <1>1, <1>2, <1>4, <1>5, <1>8, <1>10, <2>1, <2>2 DEF Ordered, ServedInv
<1>12. GivenInv'
  <2>1. Served' = Served /\ Rest' = Rest
    BY <1>1, <1>3 DEF Served, Rest
  <2>2. pc' \in {"send", "ack"}
    BY <1>1
  <2> QED BY <1>1, <1>2, <1>3, <2>1, <2>2 DEF Ordered, GivenInv
<1>13. Between' \/ Sending'
  <2>1. Between
    <3>1. Pending = <<>>
      BY <1>4 DEF Pending
    <3> QED BY <3>1 DEF Ordered, Sending
  <2>2. Pending' = Pending /\ Splits' = Splits /\ Seen' = Seen
    <3>0. /\ sent' = sent /\ peer' = peer /\ msgs' = msgs /\ call'.due = call.due /\ call'.held = call.held
          /\ call'.deferred = call.deferred
      BY <1>1, <1>3
    <3>1. Pending' = Pending /\ Seen' = Seen
      BY <3>0 DEF Pending, Served, Rest, Seen
    <3> QED BY <1>2, <3>1 DEF Splits
  <2>3. \A n, low, high : Acks(toPeer, n, low, high) => Acks(toPeer', n, low, high)
    <3>1. f \in Wireable /\ f.kind # "ack"
      <4>1. f \in Frames
        BY <1>2, TailFacts DEF f
      <4> QED BY <4>1, WireableFacts
    <3> QED BY <1>1, <1>2, <3>1, AcksOther
  <2>4. Between'
    BY <1>1, <2>1, <2>2, <2>3 DEF Between
  <2> QED BY <2>4
<1> QED BY <1>9, <1>11, <1>12, <1>13 DEF Ordered

\* A data frame that stands for the ACK goes to the end of the queue.
LEMMA FlightFitsRotate ==
    ASSUME Types, Ordered, pc = "ack", msgs # <<>>, msgs' = Append(Tail(msgs), Head(msgs)),
           call'.deferred = call.deferred, toTester' = toTester
    PROVE  FlightFits
<1>1. call.deferred = <<>>
  BY DEF Ordered, GivenInv
<1>2. /\ msgs \in Seq(Wireable) /\ Len(msgs) \in Nat \ {0} /\ Head(msgs) = msgs[1] /\ Head(msgs) \in Wireable
      /\ Tail(msgs) \in Seq(Wireable) /\ Len(Tail(msgs)) = Len(msgs) - 1
      /\ \A i \in 1..(Len(msgs) - 1) : Tail(msgs)[i] = msgs[i + 1]
  <2>1. msgs \in Seq(Wireable)
    BY TypesOpen
  <2> QED BY <2>1, TailFacts
<1>3. /\ msgs' \in Seq(Wireable) /\ Len(msgs') = Len(msgs)
      /\ \A i \in 1..(Len(msgs) - 1) : msgs'[i] = Tail(msgs)[i]
      /\ msgs'[Len(msgs)] = Head(msgs)
  <2>1. /\ msgs' \in Seq(Wireable) /\ Len(msgs') = Len(Tail(msgs)) + 1
        /\ \A i \in DOMAIN Tail(msgs) : msgs'[i] = Tail(msgs)[i]
        /\ msgs'[Len(Tail(msgs)) + 1] = Head(msgs)
    BY <1>2, AppendFacts
  <2>2. DOMAIN Tail(msgs) = 1..(Len(msgs) - 1) /\ Len(Tail(msgs)) + 1 = Len(msgs)
    BY <1>2
  <2> QED BY <2>1, <2>2
<1>4. Seen = msgs /\ Seen' = msgs'
  <2>1. Seen = msgs
    BY <1>1, SeenFacts
  <2>2. Seen' = <<>> \o msgs'
    BY <1>1 DEF Seen
  <2>3. <<>> \o msgs' = msgs'
    BY <1>3
  <2> QED BY <2>1, <2>2, <2>3
<1>5. ASSUME NEW i \in 1..Len(msgs') PROVE \E j \in 1..Len(msgs) : msgs'[i] = msgs[j]
  <2>1. CASE i = Len(msgs)
    <3>1. 1 \in 1..Len(msgs) /\ msgs'[i] = msgs[1]
      BY <1>2, <1>3, <2>1
    <3> QED BY <3>1
  <2>2. CASE i # Len(msgs)
    <3>1. i \in 1..(Len(msgs) - 1) /\ i + 1 \in 1..Len(msgs)
      <4>1. i \in 1..Len(msgs) /\ Len(msgs) \in Nat
        BY <1>2, <1>3
      <4> QED BY <2>2, <4>1
    <3>2. msgs'[i] = Tail(msgs)[i] /\ Tail(msgs)[i] = msgs[i + 1]
      BY <1>2, <1>3, <3>1
    <3> QED BY <3>1, <3>2
  <2> QED BY <2>1, <2>2
<1>6. ASSUME NEW k \in Splits, NEW taken \in Nat, NEW next \in Seqs, NEW unread,
             Flight(k, taken, next, unread, Seen, toTester)
      PROVE  \E n \in Splits' : Flight(n, taken, next, unread, Seen', toTester')
  <2>1. k \in Nat /\ k \in {0, Len(msgs)} /\ toTester \in Seq(Wireable)
    <3>1. Asking
      BY DEF Asking
    <3> QED BY <1>4, <3>1, SplitsFacts, TypesOpen
  <2>2. Flight(k, taken, next, unread, msgs', toTester)
    <3>1. Flight(k, taken, next, unread, msgs, toTester)
      BY <1>4, <1>6
    <3>2. \A i \in 1..Len(msgs') : \E j \in 1..Len(msgs) : msgs'[i] = msgs[j]
      BY <1>5
    <3> DEFINE q == msgs
               t == msgs'
    <3>3. /\ Flight(k, taken, next, unread, q, toTester) /\ q \in Seq(Wireable) /\ t \in Seq(Wireable)
          /\ k \in {0, Len(q)} /\ Len(t) = Len(q)
          /\ \A i \in 1..Len(t) : \E j \in 1..Len(q) : t[i] = q[j]
      BY <1>2, <1>3, <2>1, <3>1, <3>2
    <3> HIDE DEF q, t
    <3>4. Flight(k, taken, next, unread, t, toTester)
      BY <2>1, <3>3, FlightShuffled
    <3> QED BY <3>4 DEF t
  <2>3. k \in Splits'
    <3>1. Len(Seen') = Len(msgs)
      BY <1>3, <1>4
    <3>2. k \in {0, Len(Seen')} /\ k \in 0..Len(Seen')
      <4>1. Len(msgs) \in Nat
        BY <1>2
      <4> QED BY <2>1, <3>1, <4>1
    <3> QED BY <3>2 DEF Splits
  <2> QED BY <1>4, <2>2, <2>3
<1> QED BY <1>6, FlightFitsAll

\* An ACK for the last frame of the request moves the number of the next request.
LEMMA AwaitedFact ==
    ASSUME Short, Types, AskingInv, pc = "ack", call.job = <<>>
    PROVE  After(call.awaited) = (txSeq + OutSize) % SeqNums /\ OutGone = OutSize
<1>1. /\ sent \in 1..Len(Requests) /\ OutGone > 0 /\ call.awaited = OutFrames(txSeq)[OutGone].seq
      /\ txSeq \in Seqs /\ BlockSize \in Nat
  <2>1. sent > 0 /\ OutGone > 0 /\ call.awaited = OutFrames(txSeq)[OutGone].seq
    BY DEF AskingInv, Asking
  <2> QED BY <2>1, TypesOpen, TalkFacts
<1>2. /\ Sendable(Requests[sent]) /\ OutSize \in Nat \ {0} /\ OutSize <= SeqNums
  <2>1. Requests \in Seq(Seq(Bytes))
    BY TransportAssumption
  <2>2. sent \in DOMAIN Requests
    BY <1>1, <2>1
  <2> QED BY <1>1, <2>2, TalkFacts, EndFacts DEF Short, OutSize
<1>3. OutGone = OutSize
  <2>1. Len(call.job) = 0
    OBVIOUS
  <2> QED BY <1>2, <2>1 DEF OutGone
<1>4. OutFrames(txSeq)[OutSize].seq = (txSeq + (OutSize - 1)) % SeqNums
  <2>1. \A i \in 1..NumFrames(Requests[sent]) :
           SegmentMessage(Requests[sent], txSeq, BlockSize)[i].seq = (txSeq + i - 1) % SeqNums
    BY <1>1, <1>2, SegmentFacts
  <2>2. OutSize \in 1..NumFrames(Requests[sent]) /\ txSeq + OutSize - 1 = txSeq + (OutSize - 1)
    <3>1. OutSize = NumFrames(Requests[sent]) /\ txSeq \in Int
      BY <1>1, SeqNumsFact DEF OutSize
    <3> QED BY <1>2, <3>1
  <2> QED BY <2>1, <2>2 DEF OutFrames
<1>5. After((txSeq + (OutSize - 1)) % SeqNums) = (txSeq + ((OutSize - 1) + 1)) % SeqNums
  <2> DEFINE n == OutSize - 1
  <2>1. n \in Nat /\ n <= SeqNums /\ n < SeqNums
    BY <1>2, SeqNumsFact
  <2> HIDE DEF n
  <2>2. n <= n
    BY <2>1
  <2>3. After((txSeq + n) % SeqNums) = (txSeq + (n + 1)) % SeqNums
    BY <1>1, <2>1, <2>2, Numbers
  <2> QED BY <2>3 DEF n
<1>6. (OutSize - 1) + 1 = OutSize
  BY <1>2
<1> QED BY <1>1, <1>3, <1>4, <1>5, <1>6

LEMMA OrderedAcknowledged ==
    ASSUME Short, Types, Types', Ordered, AckArrives \/ AckByData
    PROVE  Ordered'
<1>1. pc = "ack" /\ toTester' = toTester /\ peer' = peer /\ msgs # <<>> /\ Acknowledged
  BY DEF AckArrives, AckByData, Takes, Meets
<1>2. /\ pc' = IF call.job = <<>> THEN "recv" ELSE "send"
      /\ txSeq' = IF call.job = <<>> THEN After(call.awaited) ELSE txSeq
      /\ UNCHANGED <<part, sent, results, toPeer>> /\ call' = Started(call)
  BY <1>1 DEF Acknowledged
<1>3. /\ call'.job = call.job /\ call'.awaited = call.awaited /\ call'.due = call.due /\ call'.held = call.held
      /\ call'.deferred = call.deferred /\ call.due > 0 /\ call.due \in Nat
  <2>1. call \in Call /\ call.due > 0
    BY <1>1, TypesOpen
  <2> QED BY <1>2, <2>1, StartedType, TypesOpen
<1>4. Asking /\ (Asking' <=> call.job # <<>>) /\ sent > 0
  BY <1>1, <1>2 DEF Asking, Ordered, AskingInv
<1>5. /\ Served' = Served /\ OutSize' = OutSize /\ OutGone' = OutGone /\ OutGot' = OutGot /\ OutStart' = OutStart
      /\ OutFrames(OutStart)' = OutFrames(OutStart)
      /\ call.job # <<>> => OutFrames(txSeq)' = OutFrames(txSeq)
  BY <1>1, <1>2, <1>3 DEF Served, OutSize, OutGone, OutGot, OutStart, OutFrames
<1>6. AskingInv'
  <2>1. CASE call.job = <<>>
    BY <1>3, <1>4, <2>1 DEF AskingInv
  <2>2. CASE call.job # <<>>
    BY <1>1, <1>2, <1>3, <1>4, <1>5, <2>2 DEF Ordered, AskingInv
  <2> QED BY <2>1, <2>2
<1>7. ServedInv'
  <2>1. CASE call.job = <<>>
    <3>1. txSeq' = (txSeq + OutSize) % SeqNums
      BY <1>1, <1>2, <2>1, AwaitedFact DEF Ordered
    <3> QED BY <1>1, <1>2, <1>3, <1>4, <1>5, <2>1, <3>1 DEF Ordered, ServedInv
  <2>2. CASE call.job # <<>>
    BY <1>1, <1>2, <1>3, <1>4, <1>5, <2>2 DEF Ordered, ServedInv
  <2> QED BY <2>1, <2>2
<1>8. GivenInv'
  <2>1. Rest' = Rest
    BY <1>2, <1>3 DEF Rest
  <2>2. pc' \notin {"idle", "closed", "alive"}
    BY <1>2
  <2> QED BY <1>1, <1>2, <1>3, <1>4, <1>5, <2>1, <2>2 DEF Ordered, GivenInv
<1>9. FlightFits
  <2>1. CASE AckArrives
    <3>1. msgs' = Tail(msgs)
      BY <2>1 DEF AckArrives
    <3>2. NoneBegins
      BY <1>4 DEF NoneBegins
    <3>3. Seen' = call.deferred \o Tail(msgs)
      BY <1>1, <1>3, <3>1 DEF Seen
    <3> QED BY <1>1, <1>3, <3>1, <3>2, <3>3, FlightFitsDrop
  <2>2. CASE AckByData
    <3>1. msgs' = Append(Tail(msgs), Head(msgs))
      BY <2>2 DEF AckByData
    <3> QED BY <1>1, <1>3, <3>1, FlightFitsRotate
  <2> QED BY <2>1, <2>2
<1>10. ToPeerFits
  BY <1>2, ToPeerMoves DEF Ordered
<1>11. Between' \/ Sending'
  <2>1. Pending' = Pending
    BY <1>1, <1>2, <1>3 DEF Pending, Served, Rest
  <2> QED BY <1>1, <1>2, <1>3, <1>9, <1>10, <2>1, ReplyKept DEF Ordered, ToPeerFits, FlightFits
<1> QED BY <1>6, <1>7, <1>8, <1>11 DEF Ordered

LEMMA OrderedBegin ==
    ASSUME Short, Types, Types', Ordered, Begin
    PROVE  Ordered'
<1> DEFINE n == sent + 1
           m == Requests[n]
<1>1. /\ pc = "idle" /\ pc' = "send" /\ sent < Len(Requests) /\ sent' = n /\ msgs' = Without(msgs, "ack")
      /\ call' = [NoCall EXCEPT !.job = SegmentMessage(m, txSeq, BlockSize), !.due = Len(Replies[n])]
      /\ UNCHANGED <<txSeq, part, results, toPeer, toTester, peer>>
  BY DEF Begin
<1>2. /\ call'.job = SegmentMessage(m, txSeq, BlockSize) /\ call'.due = Len(Replies[n]) /\ call'.held = <<>>
      /\ call'.deferred = <<>>
  <2> HIDE DEF m, n
  <2> QED BY <1>1 DEF NoCall
<1>3. /\ sent \in Nat /\ n \in 1..Len(Requests) /\ n \in Nat /\ n > 0 /\ n - 1 = sent /\ n <= Len(Replies)
      /\ Sendable(m) /\ Replies[n] \in Seq(Seq(Bytes)) /\ Len(Replies[n]) \in Nat /\ Len(Replies[n]) >= 1
      /\ txSeq \in Seqs /\ BlockSize \in Nat
  <2>1. sent \in Nat /\ n \in 1..Len(Requests) /\ n \in Nat /\ n > 0 /\ n - 1 = sent
    <3>1. sent \in 0..Len(Requests) /\ Len(Requests) \in Nat /\ sent < Len(Requests)
      BY <1>1, TypesOpen, TalkFacts
    <3> QED BY <3>1
  <2>2. txSeq \in Seqs
    BY TypesOpen
  <2>3. n <= Len(Replies) /\ Sendable(m) /\ Replies[n] \in Seq(Seq(Bytes)) /\ Len(Replies[n]) \in Nat
        /\ Len(Replies[n]) >= 1 /\ BlockSize \in Nat
    <3> HIDE DEF n
    <3> QED BY <2>1, TalkFacts DEF m
  <2> QED BY <2>1, <2>2, <2>3
<1> HIDE DEF n
<1>4. /\ call.job = <<>> /\ call.due = 0 /\ call.held = <<>> /\ call.deferred = <<>> /\ Served /\ Rest = <<>>
      /\ Pending = <<>> /\ ~Asking
  <2>1. ~Asking /\ call.job = <<>> /\ call.due = 0 /\ call.deferred = <<>> /\ Len(call.held) = 0
    BY <1>1 DEF Asking, Ordered, AskingInv, GivenInv
  <2>2. Rest = <<>> /\ Pending = <<>>
    BY <2>1 DEF Rest, Pending
  <2>3. Served
    <3>1. ~Served => sent \in 1..Len(Requests) /\ call.due = Len(Replies[sent])
      BY AskedFacts DEF Ordered, GivenInv
    <3> QED BY <2>1, <3>1, TalkFacts
  <2>4. call.held = <<>>
    <3>1. call.held \in Seq(Seq(Bytes))
      BY TypesOpen DEF AtMostOne
    <3> QED BY <2>1, <3>1, EmptySeq
  <2> QED BY <2>1, <2>2, <2>3, <2>4
<1>5. /\ Len(peer.served) = sent /\ peer.served = SubSeq(Requests, 1, sent) /\ Empty(peer.in)
      /\ peer.in.seq = txSeq /\ Carries(toPeer, <<>>, 1, 0)
  BY <1>4 DEF Ordered, ServedInv, Served
<1>6. /\ OutSize' = NumFrames(m) /\ NumFrames(m) \in Nat \ {0}
      /\ SegmentMessage(m, txSeq, BlockSize) \in Seq(Frames)
      /\ Len(SegmentMessage(m, txSeq, BlockSize)) = NumFrames(m)
      /\ OutFrames(txSeq)' = SegmentMessage(m, txSeq, BlockSize)
  <2>1. OutSize' = NumFrames(m) /\ OutFrames(txSeq)' = SegmentMessage(m, txSeq, BlockSize)
    BY <1>1 DEF OutSize, OutFrames
  <2> HIDE DEF m
  <2> QED BY <1>3, <2>1, SegmentFacts
<1>7. /\ ~Served' /\ Asking' /\ Pending' = <<>>
  <2>1. ~Served'
    BY <1>1, <1>3, <1>5 DEF Served
  <2> QED BY <1>1, <2>1 DEF Asking, Pending
<1>8. OutGone' = 0 /\ OutGot' = 0 /\ OutStart' = txSeq /\ OutFrames(OutStart)' = OutFrames(txSeq)'
  <2>1. OutGone' = 0
    BY <1>2, <1>6 DEF OutGone
  <2>2. OutGot' = 0
    BY <1>1, <1>5, EmptyCount DEF OutGot
  <2>3. Ahead(txSeq, 0) = txSeq
    <3>1. 0 \in Seqs /\ txSeq \in Int /\ txSeq >= 0
      BY <1>3, SeqNumsFact
    <3> QED BY <1>3, <3>1, AheadFact
  <2>4. OutStart' = txSeq
    BY <1>1, <1>5, <2>2, <2>3 DEF OutStart
  <2> QED BY <1>1, <2>1, <2>2, <2>4 DEF OutFrames
<1> HIDE DEF m
<1>9. AskingInv'
  <2>1. call'.job = SubSeq(OutFrames(txSeq)', 0 + 1, OutSize')
    BY <1>2, <1>6, WholeWindow
  <2>2. OutGone' \in 0..OutSize' /\ sent' > 0
    BY <1>1, <1>3, <1>6, <1>8
  <2> QED BY <1>1, <1>7, <1>8, <2>1, <2>2 DEF AskingInv
<1>10. ServedInv'
  <2>1. Carries(toPeer', OutFrames(OutStart)', 0 + 1, 0)
    <3>1. Carries(toPeer, OutFrames(OutStart)', 1, 0)
      <4> DEFINE others == OutFrames(OutStart)'
                 none == <<>>
      <4>1. Carries(toPeer, none, 1, 0) /\ 0 < 1
        BY <1>5
      <4> HIDE DEF others, none
      <4>2. Carries(toPeer, others, 1, 0)
        BY <4>1, CarriesNone
      <4> QED BY <4>2 DEF others
    <3> QED BY <1>1, <3>1
  <2>2. Reading(peer'.in, Requests[sent'], 0)
    BY <1>1, <1>3, <1>5, EmptyCount DEF m
  <2>3. Len(peer'.served) = sent' - 1 /\ peer'.served = SubSeq(Requests, 1, Len(peer'.served))
    BY <1>1, <1>3, <1>5
  <2>4. txSeq' = OutStart'
    BY <1>1, <1>8
  <2>5. 0 < OutSize'
    BY <1>6
  <2> QED BY <1>7, <1>8, <2>1, <2>2, <2>3, <2>4, <2>5 DEF ServedInv
<1>11. GivenInv'
  <2>1. Rest' = Replies[n]
    <3>1. Rest' = SubSeq(Replies[n], Len(Replies[n]) - Len(Replies[n]) + Len(<<>>) + 1, Len(Replies[n]))
      <4>1. sent' = n /\ call'.due = Len(Replies[n]) /\ call'.held = <<>> /\ Len(Replies[n]) # 0
        BY <1>1, <1>2, <1>3
      <4> QED BY <4>1 DEF Rest
    <3>2. Len(Replies[n]) - Len(Replies[n]) + Len(<<>>) + 1 = 1
      BY <1>3
    <3> QED BY <1>3, <3>1, <3>2, WholeWindow
  <2>2. (results' \o call'.held) \o Rest' = Answers(n)
    <3>1. results \in Seq(Seq(Bytes))
      BY TypesOpen
    <3>2. results \o <<>> = results
      BY <3>1
    <3>3. results = Answers(sent)
      BY <1>4, <3>2 DEF Ordered, GivenInv
    <3>4. Answers(n) = Answers(sent) \o Replies[n]
      BY <1>3, AnswersFacts DEF n
    <3> QED BY <1>1, <1>2, <2>1, <3>2, <3>3, <3>4
  <2>3. pc' = "send" /\ call'.due = Len(Replies[sent']) /\ call'.due > 0 /\ Len(call'.held) = 0
    BY <1>1, <1>2, <1>3
  <2>4. call'.due # 0 /\ call'.due <= Len(Replies[sent']) /\ sent' > 0
    BY <1>1, <1>2, <1>3
  <2> QED BY <1>1, <1>2, <2>2, <2>3, <2>4 DEF GivenInv
<1>12. Between'
  <2>1. Between
    BY <1>4 DEF Ordered, Sending
  <2>2. Seen = msgs /\ Seen' = msgs' /\ msgs \in Seq(Wireable) /\ msgs' \in Seq(Wireable)
    <3>1. msgs \in Seq(Wireable) /\ msgs' \in Seq(Wireable)
      <4>1. msgs \in Seq(Wireable)
        BY TypesOpen
      <4> QED BY <1>1, <4>1, WithoutFacts
    <3>2. Seen = msgs
      BY <1>4, SeenFacts
    <3>3. Seen' = <<>> \o msgs'
      BY <1>2 DEF Seen
    <3>4. <<>> \o msgs' = msgs'
      BY <3>1
    <3> QED BY <3>1, <3>2, <3>3, <3>4
  <2>3. PICK k \in Splits : Flight(k, 0, part.seq, {}, msgs, toTester)
    BY <2>1, <2>2 DEF Between
  <2>4. Flight(Len(msgs'), 0, part.seq, {}, msgs', toTester)
    <3>1. \A i \in 1..Len(msgs') : \E j \in 1..Len(msgs) : msgs'[i] = msgs[j]
      <4>1. DOMAIN msgs' = 1..Len(msgs') /\ DOMAIN msgs = 1..Len(msgs)
        BY <2>2
      <4> QED BY <1>1, <2>2, <4>1, WithoutFacts, SMTT(30)
    <3>2. k \in Nat /\ part.seq \in Seqs /\ toTester \in Seq(Wireable)
      BY SplitsFacts, TypesOpen
    <3> DEFINE q == msgs
               t == msgs'
    <3>3. /\ q \in Seq(Wireable) /\ t \in Seq(Wireable) /\ Flight(k, 0, part.seq, {}, q, toTester)
          /\ \A i \in 1..Len(t) : \E j \in 1..Len(q) : t[i] = q[j]
      BY <2>2, <2>3, <3>1
    <3> HIDE DEF q, t
    <3>4. Flight(Len(t), 0, part.seq, {}, t, toTester)
      BY <3>2, <3>3, FlightAll
    <3> QED BY <3>4 DEF t
  <2>5. Len(msgs') \in Splits'
    BY <1>7, <2>2 DEF Splits
  <2>6. \E x \in Splits' : Flight(x, 0, part'.seq, {}, Seen', toTester')
    BY <1>1, <2>2, <2>4, <2>5
  <2>7. peer'.out = <<>> /\ peer'.todo = Pending' /\ Empty(part') /\ part'.seq = peer'.tx
        /\ (peer'.await # <<>> => After(peer'.await[1].seq) = peer'.tx)
        /\ Acks(toPeer', peer'.tx, 0, IF peer'.await = <<>> THEN 0 ELSE SeqNums - 2)
    BY <1>1, <1>4, <1>7, <2>1 DEF Between
  <2> QED BY <2>6, <2>7 DEF Between
<1> QED BY <1>9, <1>10, <1>11, <1>12 DEF Ordered

--------------------------------------------------------------------------------
(***************************************************************************)
(* The peer takes frames of the request.                                   *)
(***************************************************************************)

\* What PeerData does with a frame that is not wrong: the request it ends, and the
\* messages it answers with.
RepliesBy(f) ==
    LET whole == Delivered(peer.in, f)
    IN  IF whole # <<>> /\ whole[1] \in Range(Requests)
          THEN Replies[CHOOSE k \in DOMAIN Requests : Requests[k] = whole[1]]
          ELSE <<>>

LEMMA PeerDataSplit ==
    ASSUME Types, PeerData
    PROVE  LET f == Head(toPeer)
           IN  /\ toPeer # <<>> /\ f.kind = "data" /\ f \in Frames /\ toPeer' = Tail(toPeer) /\ UNCHANGED tester
               /\ \/ UNCHANGED <<peer, toTester>>
                  \/ /\ ~Wrong(peer.in, f)
                     /\ peer'.in = Fed(peer.in, f) /\ peer'.todo = peer.todo \o RepliesBy(f)
                     /\ peer'.served = peer.served \o Delivered(peer.in, f)
                     /\ peer'.out = peer.out /\ peer'.tx = peer.tx /\ peer'.await = peer.await
                     /\ toTester' = toTester \/ \E w \in Wireable : w.kind # "data" /\ toTester' = Append(toTester, w)
<1> DEFINE f == Head(toPeer)
           answer == IF Asks(f) THEN <<Ack(f.seq)>> ELSE <<>>
<1>1. toPeer # <<>> /\ f.kind = "data" /\ f \in Frames /\ toPeer' = Tail(toPeer) /\ UNCHANGED tester
  <2>1. PeerTakes("data")
    BY DEF PeerData
  <2> QED BY <2>1, TypesPeerTakes DEF PeerTakes
<1>2. \/ UNCHANGED <<peer, toTester>>
      \/ /\ ~Wrong(peer.in, f)
         /\ peer' = [peer EXCEPT !.in = Fed(@, f), !.todo = @ \o RepliesBy(f),
                                 !.served = @ \o Delivered(peer.in, f)]
         /\ toTester' = toTester \o answer \/ toTester' = toTester
  BY DEF PeerData, RepliesBy, ToTester
<1>3. peer \in Other /\ toTester \in Seq(Wireable) /\ f.seq \in Seqs
  BY <1>1, TypesOpen, WireableFacts
<1>4. toTester \o answer = toTester \/ \E w \in Wireable : w.kind # "data" /\ toTester \o answer = Append(toTester, w)
  <2>1. CASE Asks(f)
    <3>1. Ack(f.seq) \in Wireable /\ Ack(f.seq).kind # "data"
      BY <1>3, WireableFacts DEF Ack
    <3>2. toTester \o answer = Append(toTester, Ack(f.seq))
      BY <1>3, <2>1, <3>1
    <3> QED BY <3>1, <3>2
  <2>2. CASE ~Asks(f)
    BY <1>3, <2>2
  <2> QED BY <2>1, <2>2
<1> HIDE DEF f, answer
<1>5. ASSUME ~Wrong(peer.in, f),
             peer' = [peer EXCEPT !.in = Fed(@, f), !.todo = @ \o RepliesBy(f), !.served = @ \o Delivered(peer.in, f)]
      PROVE  /\ peer'.in = Fed(peer.in, f) /\ peer'.todo = peer.todo \o RepliesBy(f)
             /\ peer'.served = peer.served \o Delivered(peer.in, f)
             /\ peer'.out = peer.out /\ peer'.tx = peer.tx /\ peer'.await = peer.await
  BY <1>3, <1>5 DEF Other
<1>6. toTester' = toTester \o answer \/ toTester' = toTester
        => toTester' = toTester \/ \E w \in Wireable : w.kind # "data" /\ toTester' = Append(toTester, w)
  BY <1>4
<1>7. \/ UNCHANGED <<peer, toTester>>
      \/ /\ ~Wrong(peer.in, f)
         /\ peer'.in = Fed(peer.in, f) /\ peer'.todo = peer.todo \o RepliesBy(f)
         /\ peer'.served = peer.served \o Delivered(peer.in, f)
         /\ peer'.out = peer.out /\ peer'.tx = peer.tx /\ peer'.await = peer.await
         /\ toTester' = toTester \/ \E w \in Wireable : w.kind # "data" /\ toTester' = Append(toTester, w)
  BY <1>2, <1>5, <1>6
<1> QED BY <1>1, <1>7 DEF f

\* A data frame that has the number which the peer expects is the next of the request.
LEMMA NextOfRequest ==
    ASSUME Short, Types, Ordered, toPeer # <<>>, Head(toPeer).kind = "data", Head(toPeer).seq = peer.in.seq
    PROVE  /\ ~Served /\ OutGot + 1 <= OutGone /\ Head(toPeer) = OutFrames(OutStart)[OutGot + 1]
           /\ Carries(Tail(toPeer), OutFrames(OutStart), (OutGot + 1) + 1, OutGone)
<1> DEFINE f == Head(toPeer)
           all == OutFrames(OutStart)
           low == OutGot + 1
<1>1. toPeer \in Seq(Wireable) /\ 1 \in DOMAIN toPeer /\ f = toPeer[1]
  <2>1. toPeer \in Seq(Wireable)
    BY TypesOpen
  <2> QED BY <2>1, TailFacts
<1>2. ~Served
  <2>1. Served => \A a \in DOMAIN toPeer : toPeer[a].kind # "data"
    BY CarriesNone DEF Ordered, ServedInv
  <2> QED BY <1>1, <2>1
<1>3. Carries(toPeer, all, low, OutGone)
  BY <1>2 DEF Ordered, ServedInv
<1>4. /\ OutSize \in Nat \ {0} /\ OutSize <= SeqNums /\ OutGot \in Nat /\ OutGot < OutSize
      /\ OutGone \in Int /\ OutGone <= OutSize /\ OutStart \in Seqs
      /\ peer.in.seq = (OutStart + OutGot) % SeqNums
      /\ \A j \in 1..OutSize : all[j].seq = (OutStart + (j - 1)) % SeqNums
  BY <1>2, AskedFacts DEF Ordered
<1> HIDE DEF f, all
<1>5. PICK j \in low..OutGone : f = all[j]
  BY <1>1, <1>3 DEF Carries, f
<1>6. j = low
  <2>1. j \in 1..OutSize /\ j - 1 \in Nat /\ OutGot <= j - 1 /\ j - 1 <= SeqNums /\ (j - 1) - OutGot < SeqNums
        /\ j \in Int
    <3>1. OutSize \in Nat /\ OutGot \in Nat /\ OutGone \in Int /\ OutGone <= OutSize /\ OutSize <= SeqNums
          /\ SeqNums \in Nat /\ j \in Int /\ OutGot + 1 <= j /\ j <= OutGone
      BY <1>4, SeqNumsFact
    <3> QED BY <3>1
  <2>2. (OutStart + OutGot) % SeqNums = (OutStart + (j - 1)) % SeqNums
    BY <1>4, <1>5, <2>1 DEF f
  <2> DEFINE i == j - 1
  <2>3. i \in Nat /\ OutGot <= i /\ i <= SeqNums /\ i - OutGot < SeqNums
        /\ (OutStart + OutGot) % SeqNums = (OutStart + i) % SeqNums
    BY <2>1, <2>2
  <2> HIDE DEF i
  <2>4. ~(OutGot < i)
    BY <1>4, <2>3, Numbers
  <2>5. i = OutGot
    BY <1>4, <2>3, <2>4
  <2> QED BY <2>1, <2>5 DEF i
<1>7. low <= OutGone /\ f = all[low]
  BY <1>5, <1>6
<1>8. Carries(Tail(toPeer), all, low + 1, OutGone)
  <2>1. f.kind = "data" /\ f.seq = all[low].seq /\ low \in Int /\ OutGone \in Int
    BY <1>4, <1>7 DEF f
  <2> HIDE DEF low
  <2> QED BY <1>1, <1>3, <2>1, CarriesTaken DEF f
<1> QED BY <1>2, <1>7, <1>8 DEF f, all

\* The peer takes a frame of the request that is not the last.
LEMMA OrderedPeerReads ==
    ASSUME Short, Types, Types', Ordered, PeerData, Head(toPeer).seq = peer.in.seq,
           peer'.in = Fed(peer.in, Head(toPeer)), peer'.out = peer.out, peer'.tx = peer.tx,
           peer'.await = peer.await, peer'.todo = peer.todo, peer'.served = peer.served,
           OutGot + 1 # OutSize,
           toTester' = toTester \/ \E w \in Wireable : w.kind # "data" /\ toTester' = Append(toTester, w)
    PROVE  Ordered'
<1> DEFINE f == Head(toPeer)
           m == Requests[sent]
<1>1. /\ toPeer # <<>> /\ f.kind = "data" /\ f \in Frames /\ toPeer' = Tail(toPeer) /\ UNCHANGED tester
  BY PeerDataSplit
<1>2. UNCHANGED <<pc, txSeq, part, msgs, call, sent, results>>
  BY <1>1 DEF tester
<1>3. /\ ~Served /\ OutGot + 1 <= OutGone /\ f = OutFrames(OutStart)[OutGot + 1]
      /\ Carries(Tail(toPeer), OutFrames(OutStart), (OutGot + 1) + 1, OutGone)
  BY <1>1, NextOfRequest
<1>4. /\ Sendable(m) /\ OutSize = NumFrames(m) /\ OutSize \in Nat \ {0} /\ OutSize <= SeqNums
      /\ OutGot \in Nat /\ OutGot < OutSize /\ OutGot + 1 < OutSize /\ OutStart \in Seqs
      /\ peer.in.seq = (OutStart + OutGot) % SeqNums
      /\ f.data = Chunk(m, OutGot + 1) /\ ~Final(f)
  <2>1. /\ Sendable(m) /\ OutSize \in Nat \ {0} /\ OutSize <= SeqNums /\ OutGot \in Nat /\ OutGot < OutSize
        /\ OutStart \in Seqs /\ peer.in.seq = (OutStart + OutGot) % SeqNums
        /\ \A j \in 1..OutSize : /\ OutFrames(OutStart)[j].data = Chunk(m, j)
                                 /\ Final(OutFrames(OutStart)[j]) <=> j = OutSize
    BY <1>3, AskedFacts DEF Ordered
  <2>2. OutGot + 1 \in 1..OutSize /\ OutGot + 1 < OutSize
    BY <2>1
  <2> QED BY <1>3, <2>1, <2>2 DEF OutSize
<1>5. Reading(peer.in, m, OutGot)
  BY <1>3 DEF Ordered, ServedInv
<1>6. /\ peer'.in.seq = After(peer.in.seq) /\ Reading(peer'.in, m, OutGot + 1) /\ Count(peer'.in) = OutGot + 1
  <2> DEFINE n == OutGot
             p == peer.in
  <2>1. /\ Sendable(m) /\ n \in Nat /\ n < NumFrames(m) /\ Reading(p, m, n) /\ f.seq = p.seq
        /\ f.data = Chunk(m, n + 1) /\ ~Final(f) /\ n + 1 # NumFrames(m)
    BY <1>4, <1>5
  <2> HIDE DEF n, p, m, f
  <2>2. Fed(p, f).seq = After(p.seq) /\ Reading(Fed(p, f), m, n + 1) /\ Count(Fed(p, f)) = n + 1
    BY <2>1, ReadOn
  <2> QED BY <2>2 DEF n, p, f
<1> HIDE DEF f
<1>7. /\ OutGot' = OutGot + 1 /\ OutSize' = OutSize /\ OutGone' = OutGone /\ OutStart' = OutStart
      /\ OutFrames(OutStart)' = OutFrames(OutStart)
  <2>1. OutGot' = OutGot + 1
    BY <1>6 DEF OutGot
  <2>2. OutSize' = OutSize /\ OutGone' = OutGone
    BY <1>2 DEF OutSize, OutGone
  <2>3. OutStart' = OutStart
    <3>1. peer'.in.seq = (OutStart + (OutGot + 1)) % SeqNums
      <4>1. OutGot <= OutGot /\ OutGot <= SeqNums /\ OutGot < SeqNums
        BY <1>4, SeqNumsFact
      <4> QED BY <1>4, <1>6, <4>1, Numbers
    <3>2. OutGot + 1 \in Nat /\ OutGot + 1 < SeqNums
      BY <1>4, SeqNumsFact
    <3>3. Ahead((OutStart + (OutGot + 1)) % SeqNums, OutGot + 1) = OutStart
      <4> DEFINE n == OutGot + 1
      <4>1. n \in Nat /\ n < SeqNums
        BY <3>2
      <4> HIDE DEF n
      <4>2. Ahead((OutStart + n) % SeqNums, n) = OutStart
        BY <1>4, <4>1, BaseOf
      <4> QED BY <4>2 DEF n
    <3>4. OutStart' = Ahead(peer'.in.seq, OutGot')
      BY DEF OutStart
    <3> QED BY <2>1, <3>1, <3>3, <3>4
  <2> QED BY <1>2, <2>1, <2>2, <2>3 DEF OutFrames
<1>8. Served' = Served /\ Asking' = Asking
  BY <1>2 DEF Served, Asking
<1>9. AskingInv'
  <2>1. SameStage /\ AskingInv
    BY <1>2 DEF SameStage, Ordered
  <2> QED BY <1>2, <2>1, AskingKept
<1>10. ServedInv'
  <2>1. Carries(toPeer', OutFrames(OutStart)', OutGot' + 1, OutGone')
    BY <1>1, <1>3, <1>7
  <2>2. OutGot' < OutSize' /\ OutGot' <= OutGone' /\ Reading(peer'.in, Requests[sent'], OutGot')
    BY <1>2, <1>3, <1>4, <1>6, <1>7
  <2>3. ~Served'
    BY <1>3, <1>8
  <2>4. txSeq' = IF Asking' THEN OutStart' ELSE (OutStart' + OutSize') % SeqNums
    BY <1>2, <1>3, <1>7, <1>8 DEF Ordered, ServedInv
  <2>5. Len(peer'.served) \in {sent' - 1, sent'} /\ peer'.served = SubSeq(Requests, 1, Len(peer'.served))
    BY <1>2 DEF Ordered, ServedInv
  <2> QED BY <2>1, <2>2, <2>3, <2>4, <2>5 DEF ServedInv
<1>11. GivenInv'
  <2>1. SameStage /\ GivenInv
    BY <1>2 DEF SameStage, Ordered
  <2> QED BY <1>2, <2>1, GivenKept
<1>12. Between' \/ Sending'
  <2>1. SameStage /\ Seen' = Seen
    BY <1>2 DEF SameStage, Seen
  <2>2. FlightFits
    BY <2>1, FlightFitsMoves
  <2>3. ToPeerFits
    BY <1>1, ToPeerMoves DEF Ordered
  <2>4. Pending' = Pending
    BY <1>2 DEF Pending, Served, Rest
  <2> QED BY <1>2, <2>2, <2>3, <2>4, ReplyKept DEF Ordered, ToPeerFits, FlightFits
<1> QED BY <1>9, <1>10, <1>11, <1>12 DEF Ordered

\* The peer takes the last frame of the request, and serves it.
LEMMA OrderedPeerServes ==
    ASSUME Short, Types, Types', Ordered, PeerData, Head(toPeer).seq = peer.in.seq,
           peer'.in = Fed(peer.in, Head(toPeer)), peer'.out = peer.out, peer'.tx = peer.tx,
           peer'.await = peer.await, peer'.todo = peer.todo \o RepliesBy(Head(toPeer)),
           peer'.served = peer.served \o Delivered(peer.in, Head(toPeer)),
           OutGot + 1 = OutSize,
           toTester' = toTester \/ \E w \in Wireable : w.kind # "data" /\ toTester' = Append(toTester, w)
    PROVE  Ordered'
<1> DEFINE f == Head(toPeer)
           m == Requests[sent]
<1>1. /\ toPeer # <<>> /\ f.kind = "data" /\ f \in Frames /\ toPeer' = Tail(toPeer) /\ UNCHANGED tester
  BY PeerDataSplit
<1>2. UNCHANGED <<pc, txSeq, part, msgs, call, sent, results>>
  BY <1>1 DEF tester
<1>3. /\ ~Served /\ OutGot + 1 <= OutGone /\ f = OutFrames(OutStart)[OutGot + 1]
      /\ Carries(Tail(toPeer), OutFrames(OutStart), (OutGot + 1) + 1, OutGone)
  BY <1>1, NextOfRequest
<1>4. /\ Sendable(m) /\ OutSize = NumFrames(m) /\ OutSize \in Nat \ {0} /\ OutSize <= SeqNums
      /\ OutGot \in Nat /\ OutGot < OutSize /\ OutStart \in Seqs /\ OutGone = OutSize /\ call.job = <<>>
      /\ peer.in.seq = (OutStart + OutGot) % SeqNums
      /\ f.data = Chunk(m, OutGot + 1) /\ Final(f)
      /\ sent \in 1..Len(Requests) /\ Len(peer.served) = sent - 1
  <2>1. /\ Sendable(m) /\ OutSize \in Nat \ {0} /\ OutSize <= SeqNums /\ OutGot \in Nat /\ OutGot < OutSize
        /\ OutGone \in Int /\ OutGone <= OutSize
        /\ OutStart \in Seqs /\ peer.in.seq = (OutStart + OutGot) % SeqNums
        /\ \A j \in 1..OutSize : /\ OutFrames(OutStart)[j].data = Chunk(m, j)
                                 /\ Final(OutFrames(OutStart)[j]) <=> j = OutSize
        /\ sent \in 1..Len(Requests) /\ Len(peer.served) = sent - 1
    BY <1>3, AskedFacts DEF Ordered
  <2>2. OutGot + 1 \in 1..OutSize /\ OutGone = OutSize
    BY <1>3, <2>1
  <2>3. call.job = <<>>
    <3>1. call.job \in Seq(Frames)
      BY TypesOpen
    <3>2. Len(call.job) = 0
      BY <2>1, <2>2, <3>1 DEF OutGone
    <3> QED BY <3>1, <3>2, EmptySeq
  <2> QED BY <1>3, <2>1, <2>2, <2>3 DEF OutSize
<1>5. Reading(peer.in, m, OutGot)
  BY <1>3 DEF Ordered, ServedInv
<1>6. /\ peer'.in.seq = After(peer.in.seq) /\ Empty(peer'.in) /\ Delivered(peer.in, f) = <<m>>
  <2> DEFINE n == OutGot
             p == peer.in
  <2>1. /\ Sendable(m) /\ n \in Nat /\ n < NumFrames(m) /\ Reading(p, m, n) /\ f.seq = p.seq
        /\ f.data = Chunk(m, n + 1) /\ Final(f) /\ n + 1 = NumFrames(m)
    BY <1>4, <1>5
  <2> HIDE DEF n, p, m, f
  <2>2. Fed(p, f).seq = After(p.seq) /\ Empty(Fed(p, f)) /\ Delivered(p, f) = <<m>>
    BY <2>1, ReadOn
  <2> QED BY <2>2 DEF n, p, f
<1>7. peer'.in.seq = (OutStart + OutSize) % SeqNums
  <2>1. OutGot <= OutGot /\ OutGot <= SeqNums /\ OutGot < SeqNums
    BY <1>4, SeqNumsFact
  <2>2. peer'.in.seq = (OutStart + (OutGot + 1)) % SeqNums
    BY <1>4, <1>6, <2>1, Numbers
  <2> QED BY <2>2
<1>8. RepliesBy(f) = Replies[sent]
  <2>1. Requests \in Seq(Seq(Bytes)) /\ sent \in DOMAIN Requests
    <3>1. Requests \in Seq(Seq(Bytes))
      BY TransportAssumption
    <3> QED BY <1>4, <3>1
  <2>2. \A k \in DOMAIN Requests : Requests[k] = m => k = sent
    BY <2>1, TransportAssumption
  <2>3. (CHOOSE k \in DOMAIN Requests : Requests[k] = m) = sent
    BY <2>1, <2>2
  <2>4. m \in Range(Requests)
    BY <2>1 DEF Range
  <2>5. <<m>> # <<>> /\ <<m>>[1] = m
    OBVIOUS
  <2> HIDE DEF m, f
  <2> QED BY <1>6, <2>3, <2>4, <2>5 DEF RepliesBy
<1> HIDE DEF f
<1>9. peer'.served = SubSeq(Requests, 1, sent) /\ Len(peer'.served) = sent
  <2>1. Requests \in Seq(Seq(Bytes))
    BY TransportAssumption
  <2>2. peer.served = SubSeq(Requests, 1, sent - 1)
    BY <1>4 DEF Ordered, ServedInv
  <2>3. SubSeq(Requests, 1, sent - 1) \o <<m>> = SubSeq(Requests, 1, sent)
    <3> DEFINE n == sent - 1
               a == SubSeq(Requests, 1, n)
               b == SubSeq(Requests, 1, n + 1)
    <3>1. n \in Nat /\ n + 1 = sent /\ n + 1 <= Len(Requests)
      BY <1>4
    <3>2. a \in Seq(Seq(Bytes)) /\ Len(a) = n /\ \A i \in 1..n : a[i] = Requests[i]
      BY <2>1, <3>1, WindowFacts
    <3>3. b \in Seq(Seq(Bytes)) /\ Len(b) = n + 1 /\ \A i \in 1..(n + 1) : b[i] = Requests[i]
      BY <2>1, <3>1, WindowFacts
    <3>4. m = Requests[n + 1] /\ m \in Seq(Bytes)
      BY <1>4, <3>1, TalkFacts
    <3> HIDE DEF a, b, n, m
    <3>5. /\ Append(a, m) \in Seq(Seq(Bytes)) /\ Len(Append(a, m)) = n + 1
          /\ \A i \in 1..(n + 1) : Append(a, m)[i] = b[i]
      BY <3>1, <3>2, <3>3, <3>4, SMTT(30)
    <3>6. Append(a, m) = b
      BY <3>3, <3>5, SameSequence
    <3>7. a \o <<m>> = Append(a, m)
      BY <3>2, <3>4
    <3> QED BY <3>1, <3>6, <3>7 DEF a, b, n
  <2>4. Len(SubSeq(Requests, 1, sent)) = sent
    BY <1>4, <2>1
  <2> QED BY <1>6, <2>2, <2>3, <2>4 DEF f
<1>10. Served' /\ Asking' = Asking /\ OutSize' = OutSize
  BY <1>2, <1>9 DEF Served, Asking, OutSize
<1>11. AskingInv'
  <2>1. SameStage /\ AskingInv
    BY <1>2 DEF SameStage, Ordered
  <2> QED BY <1>2, <2>1, AskingKept
<1>12. ServedInv'
  <2>1. Carries(toPeer', <<>>, 1, 0)
    <3> DEFINE none == <<>>
               all == OutFrames(OutStart)
               low == (OutGot + 1) + 1
    <3>1. Carries(toPeer', all, low, OutGone) /\ low \in Int /\ OutGone \in Int /\ OutGone < low
      BY <1>1, <1>3, <1>4
    <3> HIDE DEF none, all, low
    <3>2. Carries(toPeer', none, 1, 0)
      BY <3>1, CarriesNone
    <3> QED BY <3>2 DEF none
  <2>2. peer'.in.seq = IF Asking' THEN (txSeq' + OutSize') % SeqNums ELSE txSeq'
    BY <1>2, <1>3, <1>7, <1>10 DEF Ordered, ServedInv
  <2>3. Len(peer'.served) \in {sent' - 1, sent'} /\ peer'.served = SubSeq(Requests, 1, Len(peer'.served))
    BY <1>2, <1>9
  <2> QED BY <1>2, <1>4, <1>6, <1>10, <2>1, <2>2, <2>3 DEF ServedInv
<1>13. GivenInv' /\ Rest' = Rest
  <2>1. Rest' = Rest
    BY <1>2 DEF Rest
  <2> QED BY <1>2, <1>10, <2>1 DEF Ordered, GivenInv
<1>14. Between'
  <2>1. Between /\ Pending = <<>>
    <3>1. Pending = <<>>
      BY <1>3 DEF Pending
    <3> QED BY <3>1 DEF Ordered, Sending
  <2>2. Pending' = Replies[sent]
    <3>1. call.due = Len(Replies[sent]) /\ Len(call.held) = 0
      BY <1>3 DEF Ordered, GivenInv
    <3>2. Replies[sent] \in Seq(Seq(Bytes)) /\ Len(Replies[sent]) \in Nat /\ Len(Replies[sent]) >= 1
      BY <1>4, TalkFacts
    <3>3. Rest = Replies[sent]
      <4>1. Rest = SubSeq(Replies[sent], Len(Replies[sent]) - Len(Replies[sent]) + 0 + 1, Len(Replies[sent]))
        BY <3>1, <3>2 DEF Rest
      <4>2. Len(Replies[sent]) - Len(Replies[sent]) + 0 + 1 = 1
        BY <3>2
      <4> QED BY <3>2, <4>1, <4>2, WholeWindow
    <3> QED BY <1>10, <1>13, <3>3 DEF Pending
  <2>3. peer'.todo = Replies[sent]
    <3>1. peer.todo = <<>> /\ Replies[sent] \in Seq(Seq(Bytes))
      BY <1>4, <2>1, TalkFacts DEF Between
    <3> QED BY <1>8, <3>1 DEF f
  <2>4. SameStage /\ Seen' = Seen
    BY <1>2 DEF SameStage, Seen
  <2>5. FlightFits
    BY <2>4, FlightFitsMoves
  <2>6. ToPeerFits
    BY <1>1, ToPeerMoves DEF Ordered
  <2>7. \E n \in Splits' : Flight(n, 0, part.seq, {}, Seen', toTester')
    BY <2>1, <2>5 DEF Between, FlightFits
  <2>8. Acks(toPeer', peer.tx, 0, IF peer.await = <<>> THEN 0 ELSE SeqNums - 2)
    BY <2>1, <2>6 DEF ToPeerFits
  <2>9. part' = part
    BY <1>2
  <2> QED BY <2>1, <2>2, <2>3, <2>7, <2>8, <2>9 DEF Between
<1> QED BY <1>11, <1>12, <1>13, <1>14 DEF Ordered

LEMMA OrderedPeerData ==
    ASSUME Short, Types, Types', Ordered, PeerData
    PROVE  Ordered'
<1> DEFINE f == Head(toPeer)
<1>1. /\ toPeer # <<>> /\ f.kind = "data" /\ f \in Frames /\ toPeer' = Tail(toPeer) /\ UNCHANGED tester
      /\ peer.todo \in Seq(Seq(Bytes)) /\ peer.served \in Seq(Seq(Bytes))
  BY PeerDataSplit, TypesOpen
<1>4. peer.todo \o <<>> = peer.todo /\ peer.served \o <<>> = peer.served
  BY <1>1
<1>2. CASE UNCHANGED <<peer, toTester>>
  BY <1>1, <1>2, OrderedByOthers
<1>3. CASE /\ ~Wrong(peer.in, f)
           /\ peer'.in = Fed(peer.in, f) /\ peer'.todo = peer.todo \o RepliesBy(f)
           /\ peer'.served = peer.served \o Delivered(peer.in, f)
           /\ peer'.out = peer.out /\ peer'.tx = peer.tx /\ peer'.await = peer.await
           /\ toTester' = toTester \/ \E w \in Wireable : w.kind # "data" /\ toTester' = Append(toTester, w)
  <2>1. CASE f.seq # peer.in.seq
    <3>1. Repeated(peer.in, f)
      BY <1>3, <2>1 DEF Wrong
    <3>2. Fed(peer.in, f) = peer.in /\ Delivered(peer.in, f) = <<>>
      BY <3>1 DEF Fed, Delivered
    <3>3. RepliesBy(f) = <<>>
      BY <3>2 DEF RepliesBy
    <3>4. peer'.in = peer.in /\ peer'.todo = peer.todo /\ peer'.served = peer.served
      BY <1>3, <1>4, <3>2, <3>3
    <3> QED BY <1>1, <1>3, <3>4, OrderedByOthers
  <2>2. CASE f.seq = peer.in.seq
    <3>1. CASE OutGot + 1 = OutSize
      BY <1>3, <2>2, <3>1, OrderedPeerServes
    <3>2. CASE OutGot + 1 # OutSize
      <4>1. /\ ~Served /\ f = OutFrames(OutStart)[OutGot + 1]
        BY <1>1, <2>2, NextOfRequest
      <4>2. ~Final(f)
        <5>1. OutSize \in Nat /\ OutGot \in Nat /\ OutGot < OutSize
              /\ \A j \in 1..OutSize : Final(OutFrames(OutStart)[j]) <=> j = OutSize
          BY <4>1, AskedFacts DEF Ordered
        <5>2. OutGot + 1 \in 1..OutSize
          BY <5>1
        <5> QED BY <3>2, <4>1, <5>1, <5>2
      <4>3. Delivered(peer.in, f) = <<>>
        BY <4>2 DEF Delivered
      <4>4. RepliesBy(f) = <<>>
        BY <4>3 DEF RepliesBy
      <4>5. peer'.todo = peer.todo /\ peer'.served = peer.served
        BY <1>3, <1>4, <4>3, <4>4
      <4> QED BY <1>3, <2>2, <3>2, <4>5, OrderedPeerReads
    <3> QED BY <3>1, <3>2
  <2> QED BY <2>1, <2>2
<1> QED BY <1>2, <1>3, PeerDataSplit

--------------------------------------------------------------------------------
(***************************************************************************)
(* The peer's part of the reply: its frames, their repetitions, and the    *)
(* ACKs it takes.                                                          *)
(***************************************************************************)

\* What a step of the peer leaves alone that does not touch the request.
LEMMA PeerKept ==
    ASSUME Types, Ordered, UNCHANGED tester, peer'.in = peer.in, peer'.served = peer.served,
           toPeer' = toPeer \/ (toPeer # <<>> /\ toPeer' = Tail(toPeer))
    PROVE  /\ AskingInv' /\ ServedInv' /\ GivenInv'
           /\ Pending' = Pending /\ Reply' = Reply /\ ReplySize' = ReplySize /\ Got' = Got /\ ReplyFrames' = ReplyFrames
           /\ Splits' = Splits /\ Seen' = Seen /\ part' = part
<1>1. UNCHANGED <<pc, txSeq, part, msgs, call, sent, results>>
  BY DEF tester
<1>2. SameStage
  BY <1>1 DEF SameStage
<1>3. ToPeerFits
  BY ToPeerMoves DEF Ordered
<1>4. AskingInv'
  BY <1>1, <1>2, AskingKept DEF Ordered
<1>5. ServedInv'
  BY <1>1, <1>2, <1>3, ServedKept DEF Ordered, ToPeerFits
<1>6. GivenInv'
  BY <1>1, <1>2, GivenKept DEF Ordered
<1>7. Pending' = Pending
  BY <1>1 DEF Pending, Served, Rest
<1>8. Reply' = Reply /\ ReplySize' = ReplySize /\ Got' = Got /\ ReplyFrames' = ReplyFrames
  BY <1>1, <1>7 DEF Reply, ReplySize, Got, ReplyFrames
<1>9. Seen' = Seen /\ Splits' = Splits
  BY <1>1 DEF Seen, Splits, Asking
<1> QED BY <1>1, <1>4, <1>5, <1>6, <1>7, <1>8, <1>9

LEMMA OrderedPeerAcked ==
    ASSUME Short, Types, Types', Ordered, PeerAcked
    PROVE  Ordered'
<1> DEFINE a == Head(toPeer)
           Match == peer.await # <<>> /\ a.seq = After(peer.await[1].seq)
<1>1. /\ toPeer # <<>> /\ a.kind = "ack" /\ a.seq \in Seqs /\ toPeer' = Tail(toPeer) /\ UNCHANGED tester
      /\ toTester' = toTester /\ peer' = IF Match THEN [peer EXCEPT !.await = <<>>, !.repeats = 0] ELSE peer
  <2>1. PeerTakes("ack") /\ toTester' = toTester
        /\ peer' = IF Match THEN [peer EXCEPT !.await = <<>>, !.repeats = 0] ELSE peer
    BY DEF PeerAcked
  <2> QED BY <2>1, TypesPeerTakes DEF PeerTakes
<1>2. toPeer \in Seq(Wireable) /\ peer \in Other /\ peer.tx \in Seqs
  BY TypesOpen
<1> HIDE DEF a
<1>3. CASE ~Match
  BY <1>1, <1>3, OrderedByOthers
<1>4. CASE Match
  <2>1. /\ peer'.in = peer.in /\ peer'.served = peer.served /\ peer'.out = peer.out /\ peer'.tx = peer.tx
        /\ peer'.todo = peer.todo /\ peer'.await = <<>>
    BY <1>1, <1>2, <1>4 DEF Other
  <2>2. /\ AskingInv' /\ ServedInv' /\ GivenInv'
        /\ Pending' = Pending /\ Reply' = Reply /\ ReplySize' = ReplySize /\ Got' = Got /\ ReplyFrames' = ReplyFrames
        /\ Splits' = Splits /\ Seen' = Seen /\ part' = part
    BY <1>1, <2>1, PeerKept
  <2>3. ASSUME NEW low \in Int, NEW high \in Int, Acks(toPeer, peer.tx, low, high), a.seq = peer.tx
        PROVE  low <= 0 /\ 0 <= high /\ Acks(toPeer', peer.tx, 0, 0)
    <3>1. Ahead(peer.tx, peer.tx) = 0
      BY <1>2, AheadMoved
    <3>2. Head(toPeer).kind = "ack" /\ Ahead(peer.tx, Head(toPeer).seq) = 0
      BY <1>1, <2>3, <3>1 DEF a
    <3> QED BY <1>1, <1>2, <2>3, <3>2, AcksCurrent
  <2>4. CASE Between
    <3>1. a.seq = peer.tx /\ Acks(toPeer, peer.tx, 0, SeqNums - 2)
      BY <1>4, <2>4 DEF Between
    <3>2. Acks(toPeer', peer.tx, 0, 0)
      <4>1. 0 \in Int /\ SeqNums - 2 \in Int
        BY SeqNumsFact
      <4> QED BY <2>3, <3>1, <4>1
    <3>3. Between'
      BY <1>1, <2>1, <2>2, <2>4, <3>2 DEF Between
    <3> QED BY <2>2, <3>3 DEF Ordered
  <2>5. CASE Sending
    <3>1. /\ Got \in Nat /\ Gone \in Nat /\ Got <= Gone /\ Gone <= ReplySize /\ Gone > 0 /\ ReplySize \in Nat
          /\ ReplySize + 2 <= SeqNums
          /\ Ahead(part.seq, Got) \in Seqs /\ peer.tx = (Ahead(part.seq, Got) + Gone) % SeqNums
          /\ \A j \in 1..ReplySize : ReplyFrames[j].seq = (Ahead(part.seq, Got) + (j - 1)) % SeqNums
      BY <2>5, SendingFacts DEF Ordered
    <3>2. a.seq = peer.tx
      <4> DEFINE n == Gone - 1
      <4>1. peer.await = <<ReplyFrames[Gone]>> /\ Gone \in 1..ReplySize
        BY <1>4, <2>5, <3>1 DEF Sending
      <4>2. peer.await[1].seq = (Ahead(part.seq, Got) + n) % SeqNums
        BY <3>1, <4>1
      <4>3. n \in Nat /\ n <= n /\ n <= SeqNums /\ n < SeqNums /\ n + 1 = Gone
        BY <3>1, SeqNumsFact
      <4> HIDE DEF n
      <4>4. After((Ahead(part.seq, Got) + n) % SeqNums) = (Ahead(part.seq, Got) + (n + 1)) % SeqNums
        BY <3>1, <4>3, Numbers
      <4> QED BY <1>4, <3>1, <4>2, <4>3, <4>4
    <3>3. Gone - Got = 0 /\ Acks(toPeer', peer.tx, 0, 0)
      <4>1. Gone - Got \in Int /\ Gone \in Int /\ Acks(toPeer, peer.tx, Gone - Got, Gone)
        BY <2>5, <3>1 DEF Sending
      <4>2. Gone - Got <= 0 /\ Acks(toPeer', peer.tx, 0, 0)
        BY <2>3, <3>2, <4>1
      <4> QED BY <3>1, <4>2
    <3>4. Acks(toPeer', peer.tx, Gone - Got, Gone)
      <4> DEFINE n == Gone
                 l == Gone - Got
      <4>1. Acks(toPeer', peer.tx, 0, 0) /\ 0 \in Int /\ l \in Int /\ n \in Int /\ l <= 0 /\ 0 <= n
        BY <3>1, <3>3
      <4> HIDE DEF n, l
      <4>2. Acks(toPeer', peer.tx, l, n)
        BY <4>1, AcksWider
      <4> QED BY <4>2 DEF n, l
    <3>5. Gone' = Gone /\ Unread' = Unread
      BY <2>1, <2>2 DEF Gone, Unread
    <3>6. Got = Gone
      BY <3>1, <3>3
    <3>7. Sending'
      <4>1. ~(Got' < Gone')
        BY <2>2, <3>1, <3>5, <3>6
      <4>2. /\ Pending' # <<>> /\ peer'.todo = Tail(Pending')
            /\ Gone' \in 1..ReplySize' /\ Got' <= Gone' /\ Got' < ReplySize'
            /\ peer'.out = SubSeq(ReplyFrames', Gone' + 1, ReplySize')
            /\ Reading(part', Reply', Got')
            /\ peer'.tx = (part'.seq + (Gone' - Got')) % SeqNums
            /\ Acks(toPeer', peer'.tx, Gone' - Got', Gone')
        BY <2>1, <2>2, <2>5, <3>4, <3>5 DEF Sending
      <4>3. \E k \in Splits' : Flight(k, Got', part'.seq, Unread', Seen', toTester')
        BY <1>1, <2>2, <2>5, <3>5 DEF Sending
      <4> QED BY <2>1, <4>1, <4>2, <4>3 DEF Sending
    <3> QED BY <2>2, <3>7 DEF Ordered
  <2> QED BY <2>4, <2>5 DEF Ordered
<1> QED BY <1>3, <1>4

\* How far two numbers are ahead of each other.
LEMMA Opposite ==
    ASSUME NEW a \in Seqs, NEW b \in Seqs
    PROVE  Ahead(b, a) = IF Ahead(a, b) = 0 THEN 0 ELSE SeqNums - Ahead(a, b)
<1>1. /\ Ahead(a, b) = (IF a >= b THEN a - b ELSE a - b + SeqNums)
      /\ Ahead(b, a) = (IF b >= a THEN b - a ELSE b - a + SeqNums)
  BY AheadFact
<1>2. a \in Int /\ b \in Int /\ a >= 0 /\ b >= 0 /\ a < SeqNums /\ b < SeqNums /\ SeqNums \in Nat
  BY SeqNumsFact
<1> QED BY <1>1, <1>2

\* Where the frames of the reply stand from the one that the transport expects.
LEMMA ReplyNumbers ==
    ASSUME Short, Types, GivenInv, Pending # <<>>, Got < ReplySize
    PROVE  /\ \A j \in 1..ReplySize : ReplyFrames[j] \in Wireable /\ ReplyFrames[j].seq \in Seqs
           /\ \A j \in (Got + 1)..ReplySize :
                /\ Ahead(ReplyFrames[j].seq, part.seq) = j - 1 - Got
                /\ Ahead(part.seq, ReplyFrames[j].seq) \notin 1..(Got + 1)
           /\ Got > 0 => Ahead(part.seq, ReplyFrames[Got].seq) = 1
<1> DEFINE b == Ahead(part.seq, Got)
           n == Got
<1>0. /\ n \in Nat /\ n < ReplySize /\ Sendable(Reply) /\ ReplySize = NumFrames(Reply)
      /\ ReplySize \in Nat /\ ReplySize + 2 <= SeqNums /\ SeqNums \in Nat /\ part.seq \in Seqs /\ PeerBlock \in Nat
  BY PendingFacts, SeqNumsFact, TypesOpen, TalkFacts, CountNat DEF Got, ReplySize
<1>1. /\ n \in Nat /\ n < ReplySize /\ ReplySize \in Nat /\ ReplySize + 2 <= SeqNums /\ SeqNums \in Nat
      /\ b \in Seqs /\ part.seq = (b + n) % SeqNums /\ part.seq \in Seqs
      /\ \A j \in 1..ReplySize : /\ ReplyFrames[j] \in Frames
                                 /\ ReplyFrames[j].seq = (b + (j - 1)) % SeqNums
  <2> DEFINE m == Reply
             a == part.seq
  <2>1. /\ Sendable(m) /\ NumFrames(m) <= SeqNums /\ a \in Seqs /\ n \in Nat /\ n < NumFrames(m)
        /\ ReplyFrames = SegmentMessage(m, Ahead(a, n), PeerBlock) /\ PeerBlock \in Nat
    BY <1>0 DEF ReplyFrames
  <2> HIDE DEF m, a, n
  <2>2. /\ Ahead(a, n) \in Seqs /\ a = (Ahead(a, n) + n) % SeqNums
        /\ \A j \in 1..NumFrames(m) : /\ ReplyFrames[j] \in Frames
                                      /\ ReplyFrames[j].seq = (Ahead(a, n) + (j - 1)) % SeqNums
    BY <2>1, FramesAt
  <2> QED BY <1>0, <2>2 DEF m, a, n
<1>2. \A j \in 1..ReplySize : ReplyFrames[j] \in Wireable /\ ReplyFrames[j].seq \in Seqs
  BY <1>1, WireableFacts
<1> HIDE DEF b, n
<1>5. ASSUME NEW j \in (n + 1)..ReplySize
      PROVE  /\ Ahead(ReplyFrames[j].seq, part.seq) = j - 1 - n
             /\ Ahead(part.seq, ReplyFrames[j].seq) \notin 1..(n + 1)
  <2> DEFINE i == j - 1
  <2>1. j \in 1..ReplySize /\ j - 1 \in Nat /\ n <= j - 1 /\ j - 1 < SeqNums /\ j < SeqNums /\ j \in Nat
    BY <1>1
  <2>2. ReplyFrames[j].seq = (b + i) % SeqNums /\ ReplyFrames[j].seq \in Seqs
    BY <1>1, <1>2, <2>1
  <2>3. i \in Nat /\ n <= i /\ i <= SeqNums /\ i - n < SeqNums /\ i + 1 = j /\ i + 1 < SeqNums
    BY <1>1, <2>1
  <2> HIDE DEF i
  <2>4. Ahead((b + i) % SeqNums, (b + n) % SeqNums) = i - n
    <3>1. b \in Seqs /\ n \in Nat
      BY <1>1
    <3> QED BY <2>3, <3>1, Numbers
  <2>5. Ahead(ReplyFrames[j].seq, part.seq) = i - n
    BY <1>1, <2>2, <2>4
  <2>6. Ahead(part.seq, ReplyFrames[j].seq) = IF i - n = 0 THEN 0 ELSE SeqNums - (i - n)
    BY <1>1, <2>2, <2>5, Opposite
  <2>7. Ahead(part.seq, ReplyFrames[j].seq) \notin 1..(n + 1)
    BY <1>1, <2>3, <2>6
  <2> QED BY <2>3, <2>5, <2>7 DEF i
<1>6. ASSUME n > 0 PROVE Ahead(part.seq, ReplyFrames[n].seq) = 1
  <2> DEFINE i == n - 1
  <2>1. i \in Nat /\ i <= n /\ n <= SeqNums /\ n - i < SeqNums /\ n - i = 1 /\ n \in 1..ReplySize
    BY <1>1, <1>6
  <2>2. ReplyFrames[n].seq = (b + i) % SeqNums
    BY <1>1, <2>1
  <2> HIDE DEF i
  <2>3. Ahead((b + n) % SeqNums, (b + i) % SeqNums) = n - i
    <3>1. b \in Seqs /\ n \in Nat
      BY <1>1
    <3> QED BY <2>1, <3>1, Numbers
  <2> QED BY <1>1, <2>1, <2>2, <2>3
<1> QED BY <1>2, <1>5, <1>6 DEF n

LEMMA OrderedPeerRepeats ==
    ASSUME Short, Types, Types', Ordered, PeerRepeats
    PROVE  Ordered'
<1> DEFINE f == peer.await[1]
<1>1. /\ peer.await # <<>> /\ toTester' = toTester \o peer.await /\ UNCHANGED tester /\ toPeer' = toPeer
      /\ peer' = [peer EXCEPT !.repeats = @ + 1]
  BY DEF PeerRepeats, ToTester
<1>2. /\ peer \in Other /\ peer.await \in Seq(Frames) /\ Len(peer.await) <= 1 /\ toTester \in Seq(Wireable)
      /\ part.seq \in Seqs /\ Seen \in Seq(Wireable) /\ Got \in Nat
  BY TypesOpen, SeenFacts, CountNat DEF AtMostOne, Got
<1>3. /\ peer'.in = peer.in /\ peer'.served = peer.served /\ peer'.out = peer.out /\ peer'.tx = peer.tx
      /\ peer'.todo = peer.todo /\ peer'.await = peer.await
  BY <1>1, <1>2 DEF Other
<1>4. peer.await = <<f>> /\ f \in Frames /\ f \in Wireable /\ f.kind = "data" /\ f.seq \in Seqs
  <2>1. peer.await = <<f>> /\ f \in Frames
    BY <1>1, <1>2
  <2> QED BY <2>1, WireableFacts
<1>5. UNCHANGED <<pc, txSeq, part, msgs, call, sent, results>>
  BY <1>1 DEF tester
<1>6. SameStage /\ Seen' = Seen /\ Splits' = Splits
  BY <1>5 DEF SameStage, Seen, Splits, Asking
<1> HIDE DEF f
<1>7. toTester' = Append(toTester, f)
  BY <1>1, <1>2, <1>4
<1>8. \A k \in Splits : k \in Nat
  BY SplitsFacts
<1>9. ASSUME Between, NEW k \in Splits, Flight(k, 0, part.seq, {}, Seen, toTester)
      PROVE  Flight(k, 0, part.seq, {}, Seen, toTester')
  <2>1. Ahead(part.seq, f.seq) = 1
    <3>1. After(f.seq) = part.seq
      BY <1>1, <1>9 DEF Between, f
    <3>2. Ahead(f.seq, f.seq) = 0 /\ Ahead(After(f.seq), f.seq) = IF Ahead(f.seq, f.seq) + 1 < SeqNums
                                                                  THEN Ahead(f.seq, f.seq) + 1 ELSE 0
      BY <1>4, AheadMoved
    <3> QED BY <3>1, <3>2, SeqNumsFact
  <2> DEFINE none == {}
  <2>2. /\ none \subseteq none /\ none \subseteq none \union {f} /\ none = {} /\ f \notin none /\ 0 \in Nat
        /\ Flight(k, 0, part.seq, none, Seen, toTester)
    BY <1>9
  <2> HIDE DEF none
  <2>3. Flight(k, 0, part.seq, none, Seen, Append(toTester, f))
    BY <1>2, <1>4, <1>8, <2>1, <2>2, FlightSent
  <2> QED BY <1>7, <2>3 DEF none
<1>10. ASSUME Sending, NEW k \in Splits, Flight(k, Got, part.seq, Unread, Seen, toTester)
       PROVE  Flight(k, Got, part.seq, Unread, Seen, toTester')
  <2>1. /\ Gone \in Nat /\ Gone > 0 /\ Got <= Gone /\ Gone <= ReplySize /\ ReplySize \in Nat
    BY <1>10, SendingFacts DEF Ordered
  <2>2. f = ReplyFrames[Gone]
    BY <1>1, <1>10 DEF Sending, f
  <2>3. /\ \A j \in (Got + 1)..Gone : Ahead(ReplyFrames[j].seq, part.seq) = j - 1 - Got
        /\ Got > 0 => Ahead(part.seq, ReplyFrames[Got].seq) = 1
        /\ \A e \in Unread : \E j \in (Got + 1)..Gone : e = ReplyFrames[j]
        /\ \A j \in (Got + 1)..Gone : ReplyFrames[j] \in Unread
    <3>1. /\ \A j \in (Got + 1)..ReplySize : Ahead(ReplyFrames[j].seq, part.seq) = j - 1 - Got
          /\ Got > 0 => Ahead(part.seq, ReplyFrames[Got].seq) = 1
      BY <1>10, ReplyNumbers DEF Ordered, Sending
    <3>2. \A j \in (Got + 1)..Gone : j \in (Got + 1)..ReplySize
      BY <1>2, <2>1
    <3> QED BY <3>1, <3>2 DEF Unread
  <2>4. CASE Got < Gone
    <3>1. Gone \in (Got + 1)..Gone
      BY <1>2, <2>1, <2>4
    <3>2. f \in Unread /\ Ahead(f.seq, part.seq) = Gone - 1 - Got
      BY <2>2, <2>3, <3>1
    <3>3. ASSUME NEW e \in Unread PROVE Ahead(e.seq, part.seq) <= Ahead(f.seq, part.seq)
      <4>1. PICK j \in (Got + 1)..Gone : e = ReplyFrames[j]
        BY <2>3
      <4>2. Ahead(e.seq, part.seq) = j - 1 - Got
        BY <2>3, <4>1
      <4> QED BY <1>2, <2>1, <3>2, <4>2
    <3>4. Unread \subseteq Unread /\ Unread \subseteq Unread \union {f}
      OBVIOUS
    <3>5. Flight(k, Got, part.seq, Unread, Seen, Append(toTester, f))
      BY <1>2, <1>4, <1>8, <1>10, <3>2, <3>3, <3>4, FlightSent
    <3> QED BY <1>7, <3>5
  <2>5. CASE Got = Gone
    <3>1. Unread = {}
      <4>1. ~\E j \in (Got + 1)..Gone : TRUE
        BY <1>2, <2>1, <2>5
      <4> QED BY <2>3, <4>1
    <3>2. Ahead(part.seq, f.seq) = 1 /\ f \notin Unread
      BY <2>1, <2>2, <2>3, <2>5, <3>1
    <3>3. Unread \subseteq Unread /\ Unread \subseteq Unread \union {f}
      OBVIOUS
    <3>4. Flight(k, Got, part.seq, Unread, Seen, Append(toTester, f))
      BY <1>2, <1>4, <1>8, <1>10, <3>1, <3>2, <3>3, FlightSent
    <3> QED BY <1>7, <3>4
  <2> QED BY <1>2, <2>1, <2>4, <2>5
<1>11. FlightFits
  BY <1>6, <1>9, <1>10 DEF FlightFits
<1>12. ToPeerFits
  BY <1>1, ToPeerMoves DEF Ordered
<1> QED BY <1>3, <1>5, <1>6, <1>11, <1>12, Kept

\* The number that is n ahead.
LEMMA Apart ==
    ASSUME NEW a \in Seqs, NEW x \in Seqs, NEW n \in Nat, Ahead(x, a) = n
    PROVE  x = (a + n) % SeqNums /\ n < SeqNums
<1>1. Ahead(x, a) = (IF x >= a THEN x - a ELSE x - a + SeqNums) /\ Ahead(x, a) \in Seqs
  BY AheadFact
<1>2. n \in 0..SeqNums /\ n < SeqNums /\ SeqNums \in Nat
  BY <1>1, SeqNumsFact
<1>3. (a + n) % SeqNums = IF a + n < SeqNums THEN a + n ELSE a + n - SeqNums
  BY <1>2, Onward
<1>4. a \in Int /\ x \in Int /\ a >= 0 /\ x >= 0 /\ a < SeqNums /\ x < SeqNums
  BY SeqNumsFact
<1> QED BY <1>1, <1>2, <1>3, <1>4

\* The peer sends frame g + 1 of the reply; g of them went before.
LEMMA OrderedReplyGoes ==
    ASSUME Short, Types, Types', Ordered, PeerSends, NEW g \in Nat,
           Pending # <<>>, g < ReplySize, Got <= g, Reading(part, Reply, Got),
           Outgoing = SubSeq(ReplyFrames, g + 1, ReplySize), peer.tx = (part.seq + (g - Got)) % SeqNums,
           peer'.todo = Tail(Pending), Acks(toPeer, peer.tx, g - Got, g),
           \E k \in Splits : Flight(k, Got, part.seq, {ReplyFrames[j] : j \in (Got + 1)..g}, Seen, toTester)
    PROVE  Ordered'
<1> DEFINE f == Head(Outgoing)
           old == {ReplyFrames[j] : j \in (Got + 1)..g}
           all == ReplyFrames
<1>1. /\ toTester' = toTester \o <<f>> /\ UNCHANGED tester /\ toPeer' = toPeer
      /\ \E t : peer' = [peer EXCEPT !.out = Tail(Outgoing), !.tx = After(f.seq), !.todo = t,
                                     !.await = IF Asks(f) THEN <<f>> ELSE <<>>]
  BY DEF PeerSends, Outgoing, ToTester
<1>2. /\ peer \in Other /\ toTester \in Seq(Wireable) /\ toPeer \in Seq(Wireable) /\ peer.tx \in Seqs
      /\ part.seq \in Seqs /\ Seen \in Seq(Wireable) /\ Got \in Nat
  BY TypesOpen, SeenFacts, CountNat DEF Got
<1>3. /\ peer'.in = peer.in /\ peer'.served = peer.served /\ peer'.out = Tail(Outgoing) /\ peer'.tx = After(f.seq)
      /\ peer'.await = IF Asks(f) THEN <<f>> ELSE <<>>
  <2> HIDE DEF f
  <2> QED BY <1>1, <1>2 DEF Other
<1>4. /\ AskingInv' /\ ServedInv' /\ GivenInv'
      /\ Pending' = Pending /\ Reply' = Reply /\ ReplySize' = ReplySize /\ Got' = Got /\ ReplyFrames' = ReplyFrames
      /\ Splits' = Splits /\ Seen' = Seen /\ part' = part
  BY <1>1, <1>3, PeerKept
<1>5. /\ ReplySize \in Nat \ {0} /\ ReplySize + 2 <= SeqNums /\ SeqNums \in Nat /\ GivenInv /\ Got < ReplySize
      /\ all \in Seq(Frames) /\ Len(all) = ReplySize
  <2>1. Sendable(Reply) /\ ReplySize \in Nat \ {0} /\ ReplySize + 2 <= SeqNums /\ GivenInv
    BY PendingFacts DEF Ordered
  <2>2. PeerBlock \in Nat /\ SeqNums \in Nat /\ Got < ReplySize
    BY <1>2, <2>1, TalkFacts, SeqNumsFact
  <2>3. all \in Seq(Frames) /\ Len(all) = ReplySize
    <3> DEFINE m == Reply
               n == Got
               a == part.seq
    <3>1. /\ Sendable(m) /\ NumFrames(m) <= SeqNums /\ a \in Seqs /\ n \in Nat /\ n < NumFrames(m)
          /\ all = SegmentMessage(m, Ahead(a, n), PeerBlock)
      BY <1>2, <2>1, <2>2 DEF ReplyFrames, ReplySize
    <3> HIDE DEF m, n, a, all
    <3>2. all \in Seq(Frames) /\ Len(all) = NumFrames(m)
      BY <2>2, <3>1, FramesAt
    <3> QED BY <3>2 DEF m, ReplySize
  <2> QED BY <2>1, <2>2, <2>3
<1>6. g + 1 \in 1..ReplySize /\ g + 1 \in (Got + 1)..ReplySize /\ g + 1 < SeqNums /\ g - Got \in Nat
      /\ (g + 1) - 1 - Got = g - Got
  BY <1>2, <1>5
<1>7. /\ f = all[g + 1] /\ Tail(Outgoing) = SubSeq(all, (g + 1) + 1, ReplySize)
      /\ Len(Tail(Outgoing)) = ReplySize - (g + 1)
  <2> DEFINE i == g + 1
  <2>1. i \in 1..Len(all) /\ Outgoing = SubSeq(all, i, Len(all))
    BY <1>5, <1>6
  <2> HIDE DEF i, all
  <2>2. /\ Head(Outgoing) = all[i] /\ Tail(Outgoing) = SubSeq(all, i + 1, Len(all))
        /\ Len(Tail(Outgoing)) = Len(Outgoing) - 1 /\ Len(Outgoing) = Len(all) - i + 1
    BY <1>5, <2>1, WindowShrinks, ZenonT(60)
  <2>3. (Len(all) - i + 1) - 1 = Len(all) - i
    BY <1>5, <2>1
  <2> QED BY <1>5, <2>2, <2>3 DEF i
<1> HIDE DEF f
<1>8. /\ f \in Wireable /\ f.kind = "data" /\ f.seq \in Seqs /\ Ahead(f.seq, part.seq) = g - Got
      /\ Ahead(part.seq, f.seq) \notin 1..(Got + 1)
      /\ \A j \in (Got + 1)..(g + 1) : Ahead(all[j].seq, part.seq) = j - 1 - Got
  <2>1. /\ \A j \in 1..ReplySize : all[j] \in Wireable /\ all[j].seq \in Seqs
        /\ \A j \in (Got + 1)..ReplySize : /\ Ahead(all[j].seq, part.seq) = j - 1 - Got
                                           /\ Ahead(part.seq, all[j].seq) \notin 1..(Got + 1)
    BY <1>5, ReplyNumbers
  <2>2. f.kind = "data"
    <3>1. all[g + 1] \in Frames
      BY <1>5, <1>6
    <3> QED BY <1>7, <3>1, WireableFacts
  <2>3. \A j \in (Got + 1)..(g + 1) : j \in (Got + 1)..ReplySize
    BY <1>2, <1>5, <1>6
  <2> QED BY <1>6, <1>7, <2>1, <2>2, <2>3
<1>9. f.seq = peer.tx /\ After(f.seq) = (part.seq + (g + 1 - Got)) % SeqNums
  <2> DEFINE n == g - Got
             x == f.seq
             a == part.seq
  <2>1. n \in Nat /\ x \in Seqs /\ a \in Seqs /\ Ahead(x, a) = n /\ n <= n /\ n <= SeqNums /\ n < SeqNums
    BY <1>2, <1>5, <1>6, <1>8
  <2>2. n + 1 = g + 1 - Got
    BY <1>2
  <2> HIDE DEF n, x, a
  <2>3. x = (a + n) % SeqNums
    BY <2>1, Apart
  <2>4. After((a + n) % SeqNums) = (a + (n + 1)) % SeqNums
    BY <2>1, Numbers
  <2> QED BY <2>2, <2>3, <2>4 DEF n, x, a
<1>10. Gone' = g + 1
  <2>1. ReplySize - (ReplySize - (g + 1)) = g + 1
    BY <1>5
  <2> QED BY <1>3, <1>4, <1>7, <2>1 DEF Gone
<1>11. Acks(toPeer', peer'.tx, Gone' - Got, Gone')
  <2> DEFINE low == g - Got
             n == peer.tx
  <2>1. low \in Int /\ g \in Int /\ g + 1 < SeqNums /\ n \in Seqs /\ Acks(toPeer, n, low, g)
    BY <1>2, <1>6
  <2>2. low + 1 = Gone' - Got /\ g + 1 = Gone'
    BY <1>2, <1>10
  <2>3. toPeer' = toPeer /\ peer'.tx = After(n)
    BY <1>1, <1>3, <1>9
  <2> HIDE DEF low, n
  <2>4. Acks(toPeer, After(n), low + 1, g + 1)
    BY <1>2, <2>1, AcksMoved
  <2> QED BY <2>2, <2>3, <2>4
<1>12. \E k \in Splits' : Flight(k, Got', part'.seq, Unread', Seen', toTester')
  <2> DEFINE new == {all[j] : j \in (Got + 1)..(g + 1)}
  <2>1. Unread' = new
    BY <1>4, <1>10 DEF Unread
  <2>2. toTester' = Append(toTester, f)
    <3>1. toTester' = toTester \o <<f>>
      BY <1>1
    <3> QED BY <1>2, <1>8, <3>1
  <2>3. PICK k \in Splits : Flight(k, Got, part.seq, old, Seen, toTester)
    OBVIOUS
  <2>4. k \in Nat
    BY SplitsFacts
  <2>5. old \subseteq new /\ new \subseteq old \union {f} /\ f \in new
    <3>1. \A j \in (Got + 1)..g : j \in (Got + 1)..(g + 1)
      BY <1>2
    <3>2. \A j \in (Got + 1)..(g + 1) : j \in (Got + 1)..g \/ j = g + 1
      BY <1>2
    <3>3. g + 1 \in (Got + 1)..(g + 1)
      BY <1>2
    <3> QED BY <1>7, <3>1, <3>2, <3>3
  <2>6. ASSUME NEW e \in new PROVE Ahead(e.seq, part.seq) <= Ahead(f.seq, part.seq)
    <3>1. PICK j \in (Got + 1)..(g + 1) : e = all[j]
      OBVIOUS
    <3>2. Ahead(e.seq, part.seq) = j - 1 - Got /\ j <= g + 1 /\ j \in Int
      BY <1>2, <1>8, <3>1
    <3> QED BY <1>2, <1>8, <3>2
  <2> HIDE DEF new, old
  <2>7. Flight(k, Got, part.seq, new, Seen, Append(toTester, f))
    BY <1>2, <1>8, <2>3, <2>4, <2>5, <2>6, FlightSent
  <2> QED BY <1>4, <2>1, <2>2, <2>7
<1>13. Sending'
  <2>1. Gone' \in 1..ReplySize' /\ Got' <= Gone' /\ Got' < ReplySize'
    BY <1>2, <1>4, <1>5, <1>6, <1>10
  <2>2. peer'.out = SubSeq(ReplyFrames', Gone' + 1, ReplySize')
    BY <1>3, <1>4, <1>7, <1>10
  <2>3. peer'.tx = (part'.seq + (Gone' - Got')) % SeqNums
    <3>1. peer'.tx = (part.seq + (g + 1 - Got)) % SeqNums
      BY <1>3, <1>9
    <3>2. part'.seq = part.seq /\ Gone' - Got' = g + 1 - Got
      BY <1>2, <1>4, <1>10
    <3> QED BY <3>1, <3>2
  <2>4. f = ReplyFrames'[Gone']
    BY <1>4, <1>7, <1>10
  <2>5. /\ peer'.await # <<>> => peer'.await = <<ReplyFrames'[Gone']>> /\ Asks(ReplyFrames'[Gone'])
        /\ Asks(ReplyFrames'[Gone']) => peer'.await # <<>>
    BY <1>3, <2>4
  <2>6. Acks(toPeer', peer'.tx, Gone' - Got', Gone')
    BY <1>4, <1>11
  <2>7. Pending' # <<>> /\ peer'.todo = Tail(Pending') /\ Reading(part', Reply', Got')
    BY <1>4
  <2> QED BY <1>12, <2>1, <2>2, <2>3, <2>5, <2>6, <2>7 DEF Sending
<1> QED BY <1>4, <1>13 DEF Ordered

LEMMA OrderedPeerSends ==
    ASSUME Short, Types, Types', Ordered, PeerSends
    PROVE  Ordered'
<1>1. /\ peer.await = <<>> /\ (peer.out # <<>> \/ peer.todo # <<>>)
      /\ peer'.todo = IF peer.out # <<>> THEN peer.todo ELSE Tail(peer.todo)
  <2> DEFINE f == Head(Outgoing)
  <2>1. peer' = [peer EXCEPT !.out = Tail(Outgoing), !.tx = After(f.seq),
                             !.todo = IF peer.out # <<>> THEN peer.todo ELSE Tail(peer.todo),
                             !.await = IF Asks(f) THEN <<f>> ELSE <<>>]
    BY DEF PeerSends, Outgoing
  <2>2. peer \in Other
    BY TypesOpen
  <2> HIDE DEF f
  <2>3. peer'.todo = IF peer.out # <<>> THEN peer.todo ELSE Tail(peer.todo)
    BY <2>1, <2>2 DEF Other
  <2> QED BY <2>3 DEF PeerSends
<1>2. part.seq \in Seqs /\ part.seq \in Int /\ part.seq >= 0 /\ part.seq < SeqNums /\ SeqNums \in Nat
  <2>1. part.seq \in Seqs
    BY TypesOpen
  <2> QED BY <2>1, SeqNumsFact
<1>3. CASE Between
  <2>1. /\ Pending # <<>> /\ peer.todo = Pending /\ peer.out = <<>> /\ part.seq = peer.tx /\ Empty(part)
        /\ peer'.todo = Tail(Pending) /\ Acks(toPeer, peer.tx, 0, 0)
    BY <1>1, <1>3 DEF Between
  <2>2. /\ Sendable(Reply) /\ ReplySize \in Nat \ {0} /\ ReplySize + 2 <= SeqNums /\ ReplySize = NumFrames(Reply)
    BY <2>1, PendingFacts DEF Ordered, ReplySize
  <2>3. Got = 0 /\ Reading(part, Reply, Got)
    BY <2>1, <2>2, EmptyCount DEF Got
  <2>4. Ahead(part.seq, 0) = part.seq /\ (part.seq + (0 - 0)) % SeqNums = part.seq
    <3> DEFINE n == 0
    <3>1. n \in Nat /\ n < SeqNums
      BY <1>2
    <3> HIDE DEF n
    <3>2. Ahead(part.seq, n) \in Seqs /\ part.seq = (Ahead(part.seq, n) + n) % SeqNums
      BY <1>2, <3>1, Base
    <3>3. 0 \in 0..SeqNums /\ 0 \in Seqs
      BY <1>2, SeqNumsFact
    <3>4. (part.seq + 0) % SeqNums = part.seq
      BY <1>2, <3>3, Onward
    <3>5. Ahead(part.seq, 0) = part.seq
      BY <1>2, <3>3, AheadFact
    <3> QED BY <3>4, <3>5
  <2>5. Outgoing = SubSeq(ReplyFrames, 0 + 1, ReplySize)
    <3>1. Outgoing = ReplyFrames
      BY <2>1, <2>3, <2>4 DEF Outgoing, ReplyFrames, Reply
    <3>2. ReplyFrames \in Seq(Frames) /\ Len(ReplyFrames) = ReplySize
      <4>1. PeerBlock \in Nat /\ ReplyFrames = SegmentMessage(Reply, part.seq, PeerBlock)
        BY <2>3, <2>4, TalkFacts DEF ReplyFrames
      <4> HIDE DEF Reply
      <4> QED BY <1>2, <2>2, <4>1, SegmentFacts
    <3> QED BY <3>1, <3>2, WholeWindow
  <2>6. \E k \in Splits : Flight(k, Got, part.seq, {ReplyFrames[j] : j \in (Got + 1)..0}, Seen, toTester)
    <3>1. {ReplyFrames[j] : j \in (Got + 1)..0} = {}
      BY <2>3
    <3> QED BY <1>3, <2>3, <3>1 DEF Between
  <2>7. /\ 0 \in Nat /\ 0 < ReplySize /\ Got <= 0 /\ peer.tx = (part.seq + (0 - Got)) % SeqNums
        /\ Acks(toPeer, peer.tx, 0 - Got, 0)
    BY <2>1, <2>2, <2>3, <2>4
  <2> QED BY <2>1, <2>3, <2>5, <2>6, <2>7, OrderedReplyGoes
<1>4. CASE Sending
  <2>1. /\ Pending # <<>> /\ ReplySize \in Nat \ {0} /\ Got \in Nat /\ Gone \in Nat /\ Got <= Gone
        /\ Got < ReplySize /\ Gone <= ReplySize
        /\ \A j \in 1..ReplySize : j = ReplySize => Asks(ReplyFrames[j])
    BY <1>4, SendingFacts DEF Ordered
  <2>2. Gone < ReplySize
    <3>1. CASE Gone = ReplySize
      <4>1. Gone \in 1..ReplySize
        BY <2>1, <3>1
      <4>2. Asks(ReplyFrames[Gone]) /\ Got < Gone
        BY <2>1, <3>1, <4>1
      <4> QED BY <1>1, <1>4, <4>2 DEF Sending
    <3> QED BY <2>1, <3>1
  <2>3. peer.out # <<>>
    <3>1. peer.out \in Seq(Frames) /\ Len(peer.out) = ReplySize - Gone
      <4>1. peer.out \in Seq(Frames)
        BY TypesOpen
      <4>2. Len(peer.out) \in Nat /\ Gone = ReplySize - Len(peer.out)
        BY <4>1 DEF Gone
      <4> QED BY <2>1, <4>1, <4>2
    <3> QED BY <2>1, <2>2, <3>1, EmptySeq
  <2>4. Outgoing = SubSeq(ReplyFrames, Gone + 1, ReplySize) /\ peer'.todo = Tail(Pending)
    BY <1>1, <1>4, <2>3 DEF Outgoing, Sending
  <2>5. /\ Reading(part, Reply, Got) /\ peer.tx = (part.seq + (Gone - Got)) % SeqNums
        /\ Acks(toPeer, peer.tx, Gone - Got, Gone)
        /\ \E k \in Splits : Flight(k, Got, part.seq, {ReplyFrames[j] : j \in (Got + 1)..Gone}, Seen, toTester)
    BY <1>4 DEF Sending, Unread
  <2> QED BY <2>1, <2>2, <2>4, <2>5, OrderedReplyGoes
<1> QED BY <1>3, <1>4 DEF Ordered

--------------------------------------------------------------------------------
(***************************************************************************)
(* The transport receives.                                                 *)
(***************************************************************************)

\* A reply is handed over, and the call goes on or is done.
LEMMA ReturnedFacts ==
    ASSUME Types, Ordered, pc \in {"recv", "alive"}, NEW m, NEW rest, Returned(m, rest)
    PROVE  /\ results' = Append(results, m) /\ msgs' = rest /\ pc' = (IF call.due = 1 THEN "idle" ELSE "recv")
           /\ call'.job = <<>> /\ call'.due = call.due - 1 /\ call'.held = <<>> /\ call'.deferred = <<>>
           /\ call.due \in Nat \ {0} /\ call.job = <<>>
<1>1. /\ results' = Append(results, m) /\ msgs' = rest
      /\ pc' = (IF call.due = 1 THEN "idle" ELSE "recv")
      /\ call' = IF call.due = 1 THEN NoCall
                 ELSE Started([call EXCEPT !.due = @ - 1, !.held = <<>>, !.deferred = <<>>])
  BY DEF Returned
<1>2. call \in Call /\ call.due \in Nat \ {0} /\ call.job = <<>>
  <2>1. call.job = <<>>
    BY DEF Ordered, AskingInv, Asking
  <2> QED BY <2>1, TypesOpen, SMTT(30)
<1>3. CASE call.due = 1
  BY <1>1, <1>2, <1>3 DEF NoCall
<1>4. CASE call.due # 1
  <2> DEFINE c == [call EXCEPT !.due = @ - 1, !.held = <<>>, !.deferred = <<>>]
  <2>1. call.due - 1 \in Nat /\ <<>> \in AtMostOne(Seq(Bytes)) /\ <<>> \in Seq(Frames)
    BY <1>2, <1>4 DEF AtMostOne
  <2>2. c \in Call /\ c.due = call.due - 1 /\ c.job = call.job /\ c.held = <<>> /\ c.deferred = <<>>
    BY <1>2, <2>1 DEF Call
  <2> HIDE DEF c
  <2>3. call' = Started(c)
    BY <1>1, <1>4 DEF c
  <2>4. call'.job = c.job /\ call'.due = c.due /\ call'.held = c.held /\ call'.deferred = c.deferred
    BY <2>2, <2>3, StartedType
  <2> QED BY <1>1, <1>2, <2>2, <2>4
<1> QED BY <1>3, <1>4

\* What is left of the replies, from how many they are.
LEMMA RestAt ==
    ASSUME sent' = sent, NEW n \in Nat, n <= Len(Replies[sent]), Len(Replies[sent]) \in Nat,
           call'.due \in Nat, Len(call'.held) \in Nat, call'.due - Len(call'.held) = n
    PROVE  Rest' = IF n = 0 THEN <<>>
                   ELSE SubSeq(Replies[sent], Len(Replies[sent]) - n + 1, Len(Replies[sent]))
<1> DEFINE d == call'.due
           h == Len(call'.held)
           L == Len(Replies[sent])
<1>1. d = 0 => n = 0
  OBVIOUS
<1>2. L - d + h + 1 = L - n + 1
  OBVIOUS
<1>3. Rest' = IF d = 0 THEN <<>> ELSE SubSeq(Replies[sent], L - d + h + 1, L)
  BY DEF Rest
<1> HIDE DEF d, h, L
<1>4. n = 0 => SubSeq(Replies[sent], L - n + 1, L) = <<>>
  BY DEF L
<1> QED BY <1>1, <1>2, <1>3, <1>4 DEF L

LEMMA OrderedAlive ==
    ASSUME Short, Types, Types', Ordered, Alive
    PROVE  Ordered'
<1>1. /\ pc = "alive" /\ msgs # <<>> /\ Returned(call.held[1], call.deferred \o Tail(msgs))
      /\ UNCHANGED <<txSeq, part, sent, toPeer, toTester, peer>>
  BY DEF Alive, Takes, Meets, PutBack
<1>2. /\ results' = Append(results, call.held[1]) /\ msgs' = call.deferred \o Tail(msgs)
      /\ pc' = (IF call.due = 1 THEN "idle" ELSE "recv")
      /\ call'.job = <<>> /\ call'.due = call.due - 1 /\ call'.held = <<>> /\ call'.deferred = <<>>
      /\ call.due \in Nat \ {0} /\ call.job = <<>>
  BY <1>1, ReturnedFacts
<1>3. /\ results \in Seq(Seq(Bytes)) /\ call.held \in Seq(Seq(Bytes)) /\ Len(call.held) = 1 /\ Served
      /\ call.due <= Len(Replies[sent]) /\ sent \in 1..Len(Requests) /\ Len(Replies[sent]) \in Nat
  <2>1. results \in Seq(Seq(Bytes)) /\ call.held \in Seq(Seq(Bytes))
    BY TypesOpen DEF AtMostOne
  <2>2. Len(call.held) = 1 /\ Served /\ call.due <= Len(Replies[sent]) /\ sent > 0
    BY <1>1, <1>2 DEF Ordered, GivenInv
  <2>3. sent \in 1..Len(Requests)
    BY <2>2, TypesOpen, TalkFacts
  <2> QED BY <2>1, <2>2, <2>3, TalkFacts
<1>4. Served' /\ ~Asking /\ ~Asking'
  BY <1>1, <1>2, <1>3 DEF Served, Asking
<1>5. Rest' = Rest
  <2> DEFINE n == call.due - 1
             L == Len(Replies[sent])
  <2>1. n \in Nat /\ n <= L /\ L \in Nat /\ call'.due \in Nat /\ Len(call'.held) \in Nat
        /\ call'.due - Len(call'.held) = n /\ L - call.due + Len(call.held) + 1 = L - n + 1
    <3> DEFINE d == call.due
    <3>1. d \in Nat \ {0} /\ d <= L /\ L \in Nat /\ n = d - 1
      BY <1>2, <1>3
    <3>2. call'.due = d - 1 /\ Len(call'.held) = 0 /\ Len(call.held) = 1
      BY <1>2, <1>3
    <3>3. L - call.due + Len(call.held) + 1 = L - d + 1 + 1
      BY <3>2
    <3> HIDE DEF d, L, n
    <3>4. L - d + 1 + 1 = L - n + 1 /\ n \in Nat /\ n <= L /\ (d - 1) - 0 = n
      BY <3>1
    <3> QED BY <3>1, <3>2, <3>3, <3>4
  <2>2. Rest = SubSeq(Replies[sent], L - call.due + Len(call.held) + 1, L)
    BY <1>2 DEF Rest
  <2> HIDE DEF n
  <2>3. Rest' = IF n = 0 THEN <<>> ELSE SubSeq(Replies[sent], L - n + 1, L)
    BY <1>1, <2>1, RestAt
  <2>4. n = 0 => SubSeq(Replies[sent], L - n + 1, L) = <<>>
    BY <2>1
  <2> QED BY <2>1, <2>2, <2>3, <2>4
<1>6. AskingInv'
  BY <1>2, <1>4 DEF AskingInv
<1>7. ServedInv'
  BY <1>1, <1>2, <1>3, <1>4 DEF Ordered, ServedInv
<1>8. GivenInv'
  <2>1. call.held = <<call.held[1]>> /\ call.held[1] \in Seq(Bytes)
    BY <1>3
  <2>2. results \o call.held = Append(results, call.held[1])
    <3>1. \A x \in Seq(Bytes) : results \o <<x>> = Append(results, x)
      BY <1>3
    <3> QED BY <2>1, <3>1
  <2>3. Append(results, call.held[1]) \in Seq(Seq(Bytes))
    BY <1>3, <2>1
  <2>4. results' \o call'.held = results \o call.held
    BY <1>2, <2>2, <2>3
  <2>5. (results' \o call'.held) \o Rest' = Answers(sent')
    BY <1>1, <1>5, <2>4 DEF Ordered, GivenInv
  <2>6. call'.due <= Len(Replies[sent']) /\ sent' > 0 /\ Len(call'.held) = 0
        /\ (call'.due = 0 <=> pc' \in {"idle", "closed"}) /\ pc' # "alive"
    BY <1>1, <1>2, <1>3
  <2> QED BY <1>2, <1>4, <2>5, <2>6 DEF GivenInv
<1>9. Between' \/ Sending'
  <2>1. Pending' = Pending
    BY <1>3, <1>4, <1>5 DEF Pending
  <2>2. FlightFits
    <3>1. NoneBegins
      BY <1>4 DEF NoneBegins
    <3>2. Seen' = call.deferred \o Tail(msgs)
      <4>1. msgs' \in Seq(Wireable)
        <5>1. call.deferred \in Seq(Wireable) /\ msgs \in Seq(Wireable)
          BY TypesOpen
        <5>2. Tail(msgs) \in Seq(Wireable)
          BY <1>1, <5>1
        <5> QED BY <1>2, <5>1, <5>2
      <4>2. Seen' = <<>> \o msgs'
        BY <1>2 DEF Seen
      <4>3. <<>> \o msgs' = msgs'
        BY <4>1
      <4> QED BY <1>2, <4>2, <4>3
    <3> QED BY <1>1, <3>1, <3>2, FlightFitsDrop
  <2>3. ToPeerFits
    BY <1>1, ToPeerMoves DEF Ordered
  <2> QED BY <1>1, <2>1, <2>2, <2>3, ReplyKept DEF Ordered, ToPeerFits, FlightFits
<1> QED BY <1>6, <1>7, <1>8, <1>9 DEF Ordered

\* What recv adds to the queue to the peer behind a frame with the number s.
Extended(t, q, s) ==
    t \in {q, Append(q, Ack(s)), Append(q, Control("ping")), Append(Append(q, Ack(s)), Control("ping"))}

LEMMA ExtendedFacts ==
    ASSUME NEW q \in Seq(Wireable), NEW s \in Seqs, NEW t, Extended(t, q, s)
    PROVE  /\ \A frames, low, high : Carries(q, frames, low, high) => Carries(t, frames, low, high)
           /\ \A n \in Seqs, low \in Int, high \in Int :
                low <= high /\ Ahead(n, After(s)) = low /\ Acks(q, n, low, high) => Acks(t, n, low, high)
<1> DEFINE a == Ack(s)
           p == Control("ping")
<1>1. /\ a \in Wireable /\ a.kind = "ack" /\ a.kind # "data" /\ a.seq = After(s)
      /\ p \in Wireable /\ p.kind # "ack" /\ p.kind # "data"
  BY WireableFacts DEF Ack, Control
<1>2. t \in {q, Append(q, a), Append(q, p), Append(Append(q, a), p)}
  BY DEF Extended
<1> HIDE DEF a, p
<1>3. Append(q, a) \in Seq(Wireable)
  BY <1>1
<1>4. ASSUME NEW frames, NEW low, NEW high, Carries(q, frames, low, high)
      PROVE  Carries(t, frames, low, high)
  <2>1. Carries(Append(q, a), frames, low, high) /\ Carries(Append(q, p), frames, low, high)
    BY <1>1, <1>4, CarriesOther
  <2>2. Carries(Append(Append(q, a), p), frames, low, high)
    BY <1>1, <1>3, <2>1, CarriesOther
  <2> QED BY <1>2, <1>4, <2>1, <2>2
<1>5. ASSUME NEW n \in Seqs, NEW low \in Int, NEW high \in Int, low <= high, Ahead(n, After(s)) = low,
             Acks(q, n, low, high)
      PROVE  Acks(t, n, low, high)
  <2>1. Acks(Append(q, a), n, low, high)
    BY <1>1, <1>5, AcksLowest
  <2>2. Acks(Append(q, p), n, low, high)
    BY <1>1, <1>5, AcksOther
  <2>3. Acks(Append(Append(q, a), p), n, low, high)
    BY <1>1, <1>3, <2>1, AcksOther
  <2> QED BY <1>2, <1>5, <2>1, <2>2, <2>3
<1> QED BY <1>4, <1>5

LEMMA RecvDataSplit ==
    ASSUME Types, RecvData, failed' = FALSE
    PROVE  LET f == Head(msgs)
           IN  /\ pc = "recv" /\ msgs # <<>> /\ f.kind = "data" /\ f \in Frames /\ msgs' = Tail(msgs)
               /\ ~Wrong(part, f) /\ part' = Fed(part, f) /\ UNCHANGED <<txSeq, sent, toTester, peer>>
               /\ Extended(toPeer', toPeer, f.seq)
               /\ \/ Delivered(part, f) = <<>> /\ UNCHANGED <<pc, call, results>>
                  \/ Delivered(part, f) # <<>> /\ Returned(Delivered(part, f)[1], Tail(msgs))
                  \/ /\ Delivered(part, f) # <<>> /\ pc' = "alive" /\ results' = results
                     /\ call'.job = call.job /\ call'.due = call.due /\ call'.held = Delivered(part, f)
                     /\ call'.deferred = call.deferred
<1> DEFINE f == Head(msgs)
           whole == Delivered(part, f)
           answer == IF Asks(f) THEN <<Ack(f.seq)>> ELSE <<>>
           Ends == \/ whole = <<>> /\ UNCHANGED <<pc, call, results>>
                   \/ whole # <<>> /\ Returned(whole[1], Tail(msgs))
                   \/ /\ whole # <<>> /\ pc' = "alive" /\ results' = results
                      /\ call'.job = call.job /\ call'.due = call.due /\ call'.held = whole
                      /\ call'.deferred = call.deferred
<1>1. Meets("recv", "data") /\ ~(Raise(Tail(msgs)))
  BY DEF RecvData, Takes, Raise
<1>2. /\ pc = "recv" /\ msgs # <<>> /\ f.kind = "data" /\ f \in Frames /\ UNCHANGED <<toTester, peer>>
  BY <1>1, TypesMeets
<1>3. toPeer \in Seq(Wireable) /\ Ack(f.seq) \in Wireable /\ Control("ping") \in Wireable
      /\ call \in Call /\ whole \in AtMostOne(Seq(Bytes))
  BY <1>2, TypesOpen, WireableFacts, FedFacts
<1>4. /\ \A x \in Wireable : toPeer \o <<x>> = Append(toPeer, x)
      /\ \A x \in Wireable, y \in Wireable : (toPeer \o <<x>>) \o <<y>> = Append(Append(toPeer, x), y)
      /\ toPeer \o <<>> = toPeer
  BY <1>3
<1>5. Extended(toPeer \o answer, toPeer, f.seq) /\ Extended(toPeer \o answer \o <<Control("ping")>>, toPeer, f.seq)
  <2>1. CASE Asks(f)
    <3>1. answer = <<Ack(f.seq)>>
      BY <2>1
    <3> HIDE DEF answer, f
    <3> QED BY <1>3, <1>4, <3>1 DEF Extended
  <2>2. CASE ~Asks(f)
    <3>1. answer = <<>>
      BY <2>2
    <3> HIDE DEF answer, f
    <3> QED BY <1>3, <1>4, <3>1 DEF Extended
  <2> QED BY <2>1, <2>2
<1>6. CASE /\ ~Wrong(part, f) /\ whole = <<>>
           /\ part' = Fed(part, f) /\ toPeer' = toPeer \o answer
           /\ msgs' = Tail(msgs)
           /\ UNCHANGED <<pc, txSeq, call, sent, results, failed>>
  <2>1. Ends
    BY <1>6
  <2> HIDE DEF Ends, answer, whole
  <2>2. UNCHANGED <<txSeq, sent>> /\ Extended(toPeer', toPeer, f.seq) /\ msgs' = Tail(msgs)
    BY <1>5, <1>6
  <2> QED BY <1>2, <1>6, <2>1, <2>2 DEF Ends, whole
<1>7. CASE /\ ~Wrong(part, f) /\ whole # <<>>
           /\ part' = Fed(part, f) /\ toPeer' = toPeer \o answer
           /\ Returned(whole[1], Tail(msgs))
           /\ UNCHANGED <<txSeq, sent, failed>>
  <2>1. Ends /\ msgs' = Tail(msgs)
    BY <1>7 DEF Returned
  <2> HIDE DEF Ends, answer, whole
  <2>2. UNCHANGED <<txSeq, sent>> /\ Extended(toPeer', toPeer, f.seq)
    BY <1>5, <1>7
  <2> QED BY <1>2, <1>7, <2>1, <2>2 DEF Ends, whole
<1>8. CASE /\ ~Wrong(part, f) /\ whole # <<>>
           /\ part' = Fed(part, f) /\ toPeer' = toPeer \o answer \o <<Control("ping")>>
           /\ msgs' = Tail(msgs) /\ pc' = "alive"
           /\ call' = [Started(call) EXCEPT !.held = whole]
           /\ UNCHANGED <<txSeq, sent, results, failed>>
  <2>1. /\ Started(call) \in Call /\ Started(call).due = call.due /\ Started(call).job = call.job
        /\ Started(call).deferred = call.deferred
    BY <1>3, StartedType
  <2> HIDE DEF whole, answer
  <2>2. /\ call'.held = whole /\ call'.due = call.due /\ call'.job = call.job /\ call'.deferred = call.deferred
    BY <1>3, <1>8, <2>1 DEF Call
  <2>3. Ends
    BY <1>8, <2>2
  <2>4. UNCHANGED <<txSeq, sent>> /\ Extended(toPeer', toPeer, f.seq) /\ msgs' = Tail(msgs)
    BY <1>5, <1>8
  <2> HIDE DEF Ends
  <2> QED BY <1>2, <1>8, <2>3, <2>4 DEF Ends, whole
<1> QED BY <1>1, <1>6, <1>7, <1>8 DEF RecvData

LEMMA AfterBefore ==
    ASSUME NEW a \in Seqs
    PROVE  After(Before(a)) = a
<1> DEFINE n == SeqNums - 1
<1>1. /\ n \in Nat /\ n <= n /\ n <= SeqNums /\ n < SeqNums /\ n + 1 = SeqNums /\ SeqNums \in 0..SeqNums
      /\ a \in Int /\ a >= 0 /\ ~(a + SeqNums < SeqNums) /\ a + SeqNums - SeqNums = a
      /\ a + SeqNums - 1 = a + n
  BY SeqNumsFact
<1>2. (a + SeqNums) % SeqNums = a
  BY <1>1, Onward
<1>3. Before(a) = (a + n) % SeqNums
  BY <1>1 DEF Before
<1> HIDE DEF n
<1>4. After((a + n) % SeqNums) = (a + (n + 1)) % SeqNums
  BY <1>1, Numbers
<1> QED BY <1>1, <1>2, <1>3, <1>4

\* A frame that has the number which the reassembler expects is the next one of the reply.
LEMMA NextOfReply ==
    ASSUME Short, Types, Ordered, pc = "recv", msgs # <<>>, Head(msgs).kind = "data",
           Head(msgs).seq = part.seq
    PROVE  /\ Sending /\ Got < Gone /\ Head(msgs) = ReplyFrames[Got + 1]
           /\ Flight(0, Got, part.seq, Unread, msgs, toTester)
<1> DEFINE f == Head(msgs)
<1>1. /\ msgs \in Seq(Wireable) /\ part.seq \in Seqs
      /\ call.deferred = <<>> /\ Seen = msgs /\ Got \in Nat
  <2>1. call.deferred = <<>>
    BY DEF Ordered, GivenInv
  <2> QED BY <2>1, TypesOpen, SeenFacts, CountNat DEF Got
<1>2. 1 \in 1..Len(Seen) /\ Seen[1] = f
  BY <1>1, TailFacts
<1>3. Ahead(part.seq, Seen[1].seq) = 0 /\ Seen[1].kind = "data"
  BY <1>1, <1>2, AheadMoved
<1>4. \A k \in Splits : k \in Nat
  BY SplitsFacts
<1>5. ~Between
  <2> SUFFICES ASSUME Between PROVE FALSE
    OBVIOUS
  <2>1. PICK k \in Splits : Flight(k, 0, part.seq, {}, Seen, toTester)
    BY DEF Between
  <2>2. ~(1 <= k)
    BY <1>2, <1>3, <2>1 DEF Flight
  <2>3. Ahead(part.seq, Seen[1].seq) \in 1..(0 + 1)
    BY <1>2, <1>3, <1>4, <2>1, <2>2 DEF Flight
  <2> QED BY <1>3, <2>3
<1>6. Sending
  BY <1>5 DEF Ordered
<1>7. PICK k \in Splits : Flight(k, Got, part.seq, Unread, Seen, toTester)
  BY <1>6 DEF Sending
<1>8. k = 0
  <2>1. ~(1 <= k)
    BY <1>2, <1>3, <1>7 DEF Flight
  <2> QED BY <1>4, <2>1
<1>9. f \in Unread
  <2>1. Seen[1] \in Unread \/ Ahead(part.seq, Seen[1].seq) \in 1..(Got + 1)
    BY <1>2, <1>3, <1>7, <1>8 DEF Flight
  <2> QED BY <1>1, <1>2, <1>3, <2>1
<1>10. PICK j \in (Got + 1)..Gone : f = ReplyFrames[j]
  BY <1>9 DEF Unread
<1>11. Gone \in Nat /\ Gone <= ReplySize /\ ReplySize \in Nat
  BY <1>6, SendingFacts DEF Ordered
<1>12. Ahead(f.seq, part.seq) = j - 1 - Got
  <2>1. j \in (Got + 1)..ReplySize
    BY <1>1, <1>11
  <2>2. \A i \in (Got + 1)..ReplySize : Ahead(ReplyFrames[i].seq, part.seq) = i - 1 - Got
    BY <1>6, ReplyNumbers DEF Ordered, Sending
  <2> QED BY <1>10, <2>1, <2>2
<1>13. j = Got + 1 /\ Got < Gone
  <2>1. Ahead(f.seq, part.seq) = 0
    BY <1>2, <1>3
  <2> QED BY <1>1, <1>11, <1>12, <2>1
<1> QED BY <1>1, <1>6, <1>7, <1>8, <1>10, <1>13

\* The frame that was taken last comes again: it is only acknowledged.
LEMMA OrderedRepetition ==
    ASSUME Short, Types, Types', Ordered, RecvData, failed' = FALSE, Head(msgs).seq # part.seq
    PROVE  Ordered'
<1> DEFINE f == Head(msgs)
<1>1. /\ pc = "recv" /\ msgs # <<>> /\ f \in Frames /\ msgs' = Tail(msgs)
      /\ ~Wrong(part, f) /\ part' = Fed(part, f) /\ UNCHANGED <<txSeq, sent, toTester, peer>>
      /\ Extended(toPeer', toPeer, f.seq)
      /\ Delivered(part, f) = <<>> => UNCHANGED <<pc, call, results>>
  BY RecvDataSplit
<1>2. f.seq \in Seqs /\ part.seq \in Seqs /\ toPeer \in Seq(Wireable) /\ peer.tx \in Seqs
  <2>1. f.seq \in Seqs
    BY <1>1, WireableFacts
  <2> QED BY <2>1, TypesOpen
<1>3. Repeated(part, f) /\ After(f.seq) = part.seq
  <2>1. Repeated(part, f)
    BY <1>1 DEF Wrong
  <2>2. f.seq = Before(part.seq)
    BY <2>1 DEF Repeated
  <2> QED BY <1>2, <2>1, <2>2, AfterBefore
<1>4. part' = part /\ UNCHANGED <<pc, call, results>>
  BY <1>1, <1>3 DEF Fed, Delivered
<1> HIDE DEF f
<1>5. /\ \A frames, low, high : Carries(toPeer, frames, low, high) => Carries(toPeer', frames, low, high)
      /\ \A low \in Int, high \in Int :
           low <= high /\ Ahead(peer.tx, part.seq) = low /\ Acks(toPeer, peer.tx, low, high)
             => Acks(toPeer', peer.tx, low, high)
  BY <1>1, <1>2, <1>3, ExtendedFacts
<1>6. ASSUME Between
      PROVE  Acks(toPeer', peer.tx, 0, IF peer.await = <<>> THEN 0 ELSE SeqNums - 2)
  <2> DEFINE high == IF peer.await = <<>> THEN 0 ELSE SeqNums - 2
  <2>1. 0 \in Int /\ high \in Int /\ 0 <= high
    BY SeqNumsFact
  <2>2. Ahead(peer.tx, part.seq) = 0 /\ Acks(toPeer, peer.tx, 0, high)
    <3>1. peer.tx = part.seq /\ Acks(toPeer, peer.tx, 0, high)
      BY <1>6 DEF Between
    <3> QED BY <1>2, <3>1, AheadMoved
  <2> HIDE DEF high
  <2>3. Acks(toPeer', peer.tx, 0, high)
    BY <1>5, <2>1, <2>2
  <2> QED BY <2>3 DEF high
<1>7. ASSUME Sending
      PROVE  Acks(toPeer', peer.tx, Gone - Got, Gone)
  <2>1. /\ Got \in Nat /\ Gone \in Nat /\ Got <= Gone /\ Gone <= ReplySize /\ ReplySize + 2 <= SeqNums
        /\ ReplySize \in Nat /\ SeqNums \in Nat
        /\ Ahead(part.seq, Got) \in Seqs /\ part.seq = (Ahead(part.seq, Got) + Got) % SeqNums
        /\ peer.tx = (Ahead(part.seq, Got) + Gone) % SeqNums
    BY <1>7, SendingFacts, SeqNumsFact DEF Ordered
  <2> DEFINE b == Ahead(part.seq, Got)
             i == Got
             j == Gone
  <2>2. b \in Seqs /\ i \in Nat /\ j \in Nat /\ i <= j /\ j <= SeqNums /\ j - i < SeqNums
    BY <2>1
  <2>3. part.seq = (b + i) % SeqNums /\ peer.tx = (b + j) % SeqNums
    BY <2>1
  <2> HIDE DEF b, i, j
  <2>4. Ahead(peer.tx, part.seq) = j - i
    BY <2>2, <2>3, Numbers
  <2>5. Acks(toPeer, peer.tx, j - i, j)
    BY <1>7 DEF Sending, i, j
  <2>6. j - i \in Int /\ j \in Int /\ j - i <= j
    BY <2>2
  <2>7. Acks(toPeer', peer.tx, j - i, j)
    BY <1>5, <2>4, <2>5, <2>6
  <2> QED BY <2>7 DEF i, j
<1>8. ToPeerFits
  BY <1>5, <1>6, <1>7 DEF ToPeerFits
<1>9. FlightFits
  <2>1. NoneBegins
    BY <1>4 DEF NoneBegins, Asking
  <2>2. Seen' = call.deferred \o Tail(msgs)
    BY <1>1, <1>4 DEF Seen
  <2> QED BY <1>1, <2>1, <2>2, FlightFitsDrop
<1>10. SameStage
  BY <1>4 DEF SameStage
<1> QED BY <1>1, <1>4, <1>8, <1>9, <1>10, Kept

\* The next frame of the reply is taken.
LEMMA TakenFacts ==
    ASSUME Short, Types, Ordered, RecvData, failed' = FALSE, Head(msgs).seq = part.seq
    PROVE  /\ Sending /\ Got < Gone /\ Head(msgs) = ReplyFrames[Got + 1]
           /\ Flight(0, Got, part.seq, Unread, msgs, toTester)
           /\ part'.seq = After(part.seq)
           /\ Delivered(part, Head(msgs)) = IF Got + 1 = ReplySize THEN <<Reply>> ELSE <<>>
           /\ Got + 1 = ReplySize => Empty(part')
           /\ Got + 1 # ReplySize => Reading(part', Reply, Got + 1) /\ Got' = Got + 1
           /\ peer.tx = (After(part.seq) + (Gone - Got - 1)) % SeqNums
           /\ \A frames, low, high : Carries(toPeer, frames, low, high) => Carries(toPeer', frames, low, high)
           /\ \A most \in Int : Gone <= most => Acks(toPeer', peer.tx, Gone - Got - 1, most)
<1> DEFINE f == Head(msgs)
<1>1. /\ pc = "recv" /\ msgs # <<>> /\ f \in Frames /\ f.kind = "data"
      /\ part' = Fed(part, f) /\ Extended(toPeer', toPeer, f.seq)
  BY RecvDataSplit
<1>2. f.seq \in Seqs /\ part.seq \in Seqs /\ toPeer \in Seq(Wireable) /\ peer.tx \in Seqs /\ f.seq = part.seq
  BY TypesOpen
<1>3. /\ Sending /\ Got < Gone /\ f = ReplyFrames[Got + 1]
      /\ Flight(0, Got, part.seq, Unread, msgs, toTester)
  BY <1>1, NextOfReply
<1>4. /\ Sendable(Reply) /\ ReplySize \in Nat \ {0} /\ ReplySize + 2 <= SeqNums /\ SeqNums \in Nat
      /\ Got \in Nat /\ Gone \in Nat /\ Got < ReplySize /\ Gone <= ReplySize
      /\ Ahead(part.seq, Got) \in Seqs /\ part.seq = (Ahead(part.seq, Got) + Got) % SeqNums
      /\ peer.tx = (Ahead(part.seq, Got) + Gone) % SeqNums
      /\ \A j \in 1..ReplySize : ReplyFrames[j].data = Chunk(Reply, j) /\ (Final(ReplyFrames[j]) <=> j = ReplySize)
  BY <1>3, SendingFacts, SeqNumsFact DEF Ordered
<1>5. f.data = Chunk(Reply, Got + 1) /\ (Final(f) <=> Got + 1 = ReplySize)
  <2>1. Got + 1 \in 1..ReplySize
    BY <1>4
  <2> QED BY <1>3, <1>4, <2>1
<1>6. /\ Fed(part, f).seq = After(part.seq)
      /\ Delivered(part, f) = IF Got + 1 = ReplySize THEN <<Reply>> ELSE <<>>
      /\ Got + 1 = ReplySize => Empty(Fed(part, f))
      /\ Got + 1 # ReplySize => Reading(Fed(part, f), Reply, Got + 1) /\ Count(Fed(part, f)) = Got + 1
  <2> DEFINE m == Reply
             n == Got
  <2>1. /\ Sendable(m) /\ n \in Nat /\ n < NumFrames(m) /\ Reading(part, m, n)
        /\ f.seq = part.seq /\ f.data = Chunk(m, n + 1) /\ (Final(f) <=> n + 1 = NumFrames(m))
        /\ ReplySize = NumFrames(m)
    BY <1>2, <1>3, <1>4, <1>5 DEF Sending, ReplySize
  <2> HIDE DEF m, n, f
  <2>2. /\ Fed(part, f).seq = After(part.seq)
        /\ Delivered(part, f) = IF n + 1 = NumFrames(m) THEN <<m>> ELSE <<>>
        /\ n + 1 = NumFrames(m) => Empty(Fed(part, f))
        /\ n + 1 # NumFrames(m) => Reading(Fed(part, f), m, n + 1) /\ Count(Fed(part, f)) = n + 1
    BY <2>1, ReadOn
  <2> QED BY <2>1, <2>2 DEF m, n
<1> HIDE DEF f
<1>7. Ahead(peer.tx, After(part.seq)) = Gone - Got - 1
      /\ peer.tx = (After(part.seq) + (Gone - Got - 1)) % SeqNums
  <2> DEFINE b == Ahead(part.seq, Got)
             i == Got
             j == Gone
             d == j - (i + 1)
  <2>1. /\ b \in Seqs /\ i \in Nat /\ j \in Nat /\ i + 1 \in Nat /\ i + 1 <= j /\ j <= SeqNums
        /\ j - (i + 1) < SeqNums /\ i < SeqNums /\ i <= j /\ d \in Nat
        /\ part.seq = (b + i) % SeqNums /\ peer.tx = (b + j) % SeqNums
    BY <1>3, <1>4
  <2>2. Gone - Got - 1 = d
    BY <2>1
  <2> HIDE DEF b, i, j
  <2>3. After((b + i) % SeqNums) = (b + (i + 1)) % SeqNums
    BY <2>1, Numbers
  <2>4. Ahead((b + j) % SeqNums, (b + (i + 1)) % SeqNums) = j - (i + 1)
    BY <2>1, Numbers
  <2>5. Ahead(peer.tx, After(part.seq)) = d
    BY <2>1, <2>3, <2>4
  <2>6. After(part.seq) \in Seqs /\ d \in Nat
    BY <1>2, <2>1, AfterFact
  <2> HIDE DEF d
  <2>7. peer.tx = (After(part.seq) + d) % SeqNums
    BY <1>2, <2>5, <2>6, Apart
  <2> QED BY <2>2, <2>5, <2>7
<1>8. /\ \A frames, low, high : Carries(toPeer, frames, low, high) => Carries(toPeer', frames, low, high)
      /\ \A low \in Int, high \in Int :
           low <= high /\ Ahead(peer.tx, After(part.seq)) = low /\ Acks(toPeer, peer.tx, low, high)
             => Acks(toPeer', peer.tx, low, high)
  BY <1>1, <1>2, ExtendedFacts
<1>9. ASSUME NEW most \in Int, Gone <= most
      PROVE  Acks(toPeer', peer.tx, Gone - Got - 1, most)
  <2> DEFINE low == Gone - Got
             high == Gone
             least == Gone - Got - 1
  <2>1. low \in Int /\ high \in Int /\ least \in Int /\ least <= low /\ high <= most /\ least <= most
    BY <1>4, <1>9
  <2>2. Acks(toPeer, peer.tx, low, high)
    BY <1>3 DEF Sending
  <2>3. Ahead(peer.tx, After(part.seq)) = least
    BY <1>7
  <2> HIDE DEF low, high, least
  <2>4. Acks(toPeer, peer.tx, least, most)
    BY <1>9, <2>1, <2>2, AcksWider
  <2>5. Acks(toPeer', peer.tx, least, most)
    BY <1>8, <1>9, <2>1, <2>3, <2>4
  <2> QED BY <2>5 DEF least
<1>10. Got + 1 # ReplySize => Got' = Got + 1
  BY <1>1, <1>6 DEF Got
<1> QED BY <1>1, <1>3, <1>6, <1>7, <1>8, <1>9, <1>10 DEF f

\* The next frame of the reply is not its last.
LEMMA OrderedPart ==
    ASSUME Short, Types, Types', Ordered, RecvData, failed' = FALSE, Head(msgs).seq = part.seq,
           Got + 1 # ReplySize
    PROVE  Ordered'
<1> DEFINE f == Head(msgs)
           all == ReplyFrames
           next == part.seq
<1>1. /\ pc = "recv" /\ msgs # <<>> /\ f.kind = "data" /\ msgs' = Tail(msgs) /\ UNCHANGED <<txSeq, sent, toTester, peer>>
      /\ Delivered(part, f) = <<>> => UNCHANGED <<pc, call, results>>
  BY RecvDataSplit
<1>2. /\ Sending /\ Got < Gone /\ f = all[Got + 1] /\ Flight(0, Got, next, Unread, msgs, toTester)
      /\ part'.seq = After(next) /\ Delivered(part, f) = <<>>
      /\ Reading(part', Reply, Got + 1) /\ Got' = Got + 1
      /\ peer.tx = (After(next) + (Gone - Got - 1)) % SeqNums
      /\ \A frames, low, high : Carries(toPeer, frames, low, high) => Carries(toPeer', frames, low, high)
      /\ \A most \in Int : Gone <= most => Acks(toPeer', peer.tx, Gone - Got - 1, most)
  BY TakenFacts
<1>3. UNCHANGED <<pc, call, results>>
  BY <1>1, <1>2
<1>4. SameStage /\ ~Asking' /\ Served' = Served
  BY <1>1, <1>3 DEF SameStage, Asking, Served
<1>5. AskingInv' /\ ServedInv' /\ GivenInv'
  <2>1. AskingInv'
    BY <1>1, <1>3, <1>4, AskingKept DEF Ordered
  <2>2. ServedInv'
    BY <1>1, <1>2, <1>3, <1>4, ServedKept DEF Ordered
  <2>3. GivenInv'
    BY <1>1, <1>3, <1>4, GivenKept DEF Ordered
  <2> QED BY <2>1, <2>2, <2>3
<1>6. /\ Got \in Nat /\ Gone \in Nat /\ Got < ReplySize /\ Gone <= ReplySize /\ ReplySize \in Nat
      /\ ReplySize + 2 <= SeqNums /\ SeqNums \in Nat /\ Pending # <<>> /\ next \in Seqs
      /\ Ahead(next, Got) \in Seqs /\ next = (Ahead(next, Got) + Got) % SeqNums
  <2>1. next \in Seqs
    BY TypesOpen
  <2> QED BY <1>2, <2>1, SendingFacts, SeqNumsFact DEF Ordered
<1>7. Pending' = Pending /\ Reply' = Reply /\ ReplySize' = ReplySize /\ Gone' = Gone
  <2>1. Rest' = Rest
    BY <1>1, <1>3 DEF Rest
  <2>2. Pending' = Pending
    BY <1>4, <2>1 DEF Pending
  <2>3. Reply' = Reply
    BY <2>2 DEF Reply
  <2>4. ReplySize' = ReplySize
    BY <2>3 DEF ReplySize
  <2> QED BY <1>1, <2>2, <2>3, <2>4 DEF Gone
<1>8. ReplyFrames' = all
  <2> DEFINE b == Ahead(next, Got)
             i == Got
  <2>1. b \in Seqs /\ i \in Nat /\ i + 1 \in Nat /\ i <= i + 1 /\ i + 1 <= SeqNums /\ i < SeqNums /\ i + 1 < SeqNums
        /\ next = (b + i) % SeqNums
    BY <1>6
  <2> HIDE DEF b, i
  <2>2. After((b + i) % SeqNums) = (b + (i + 1)) % SeqNums
    BY <2>1, Numbers
  <2>3. Ahead((b + (i + 1)) % SeqNums, i + 1) = b
    BY <2>1, BaseOf
  <2>4. Ahead(After(next), Got + 1) = Ahead(next, Got)
    BY <2>1, <2>2, <2>3 DEF b, i
  <2>5. Ahead(part'.seq, Got') = Ahead(next, Got)
    BY <1>2, <2>4
  <2> HIDE DEF next
  <2> QED BY <1>7, <2>5 DEF ReplyFrames, next
<1>9. Unread' = {all[j] : j \in (Got + 2)..Gone}
  <2>1. Unread' = {all[j] : j \in (Got' + 1)..Gone}
    BY <1>7, <1>8 DEF Unread
  <2>2. Got' + 1 = Got + 2
    BY <1>2, <1>6
  <2> QED BY <2>1, <2>2
<1>10. Flight(0, Got', part'.seq, Unread', Seen', toTester')
  <2> DEFINE others == {all[j] : j \in (Got + 2)..Gone}
             unread == Unread
             taken == Got
  <2>1. unread = {all[j] : j \in (Got + 1)..Gone}
    BY DEF Unread
  <2>2. others \subseteq unread /\ unread \subseteq others \union {f} /\ f \in unread
    <3>1. /\ \A j \in (Got + 2)..Gone : j \in (Got + 1)..Gone
          /\ \A j \in (Got + 1)..Gone : j \in (Got + 2)..Gone \/ j = Got + 1
          /\ Got + 1 \in (Got + 1)..Gone
      BY <1>2, <1>6
    <3> HIDE DEF unread
    <3> QED BY <1>2, <2>1, <3>1
  <2>3. ASSUME NEW e \in others PROVE e.seq \in Seqs /\ e.seq # next
    <3>1. PICK j \in (Got + 2)..Gone : e = all[j]
      OBVIOUS
    <3>2. j \in 1..ReplySize /\ j \in (Got + 1)..ReplySize /\ j - 1 - Got # 0
      BY <1>6, <3>1
    <3>3. /\ \A k \in 1..ReplySize : all[k].seq \in Seqs
          /\ \A k \in (Got + 1)..ReplySize : Ahead(all[k].seq, next) = k - 1 - Got
      BY <1>6, ReplyNumbers DEF Ordered
    <3>4. e.seq \in Seqs /\ Ahead(e.seq, next) = j - 1 - Got
      BY <3>1, <3>2, <3>3
    <3>5. Ahead(next, next) = 0
      BY <1>6, AheadMoved
    <3> QED BY <3>2, <3>4, <3>5
  <2>4. msgs \in Seq(Wireable) /\ toTester \in Seq(Wireable) /\ taken \in Nat /\ taken + 2 < SeqNums /\ f.seq = next
    <3>1. Got + 1 < ReplySize
      BY <1>6
    <3>2. Got + 2 < SeqNums
      BY <1>6, <3>1
    <3> QED BY <1>6, <3>2, TypesOpen
  <2>5. Flight(0, taken, next, unread, msgs, toTester)
    BY <1>2
  <2> HIDE DEF others, unread, taken, next, f
  <2>6. Flight(0, taken + 1, After(next), others, Tail(msgs), toTester)
    BY <1>1, <1>6, <2>2, <2>3, <2>4, <2>5, FlightTake DEF f
  <2>7. Seen' = Tail(msgs)
    <3>1. call'.deferred = <<>>
      BY <1>1, <1>3 DEF Ordered, GivenInv
    <3>2. Tail(msgs) \in Seq(Wireable)
      BY <1>1, <2>4
    <3> QED BY <1>1, <3>1, <3>2 DEF Seen
  <2> QED BY <1>1, <1>2, <1>9, <2>6, <2>7 DEF others, taken
<1>11. Sending'
  <2>1. Gone' \in 1..ReplySize' /\ Got' <= Gone' /\ Got' < ReplySize'
    BY <1>2, <1>6, <1>7
  <2>2. /\ Pending' # <<>> /\ peer'.todo = Tail(Pending') /\ Reading(part', Reply', Got')
        /\ peer'.out = SubSeq(ReplyFrames', Gone' + 1, ReplySize')
        /\ peer'.await # <<>> => peer'.await = <<ReplyFrames'[Gone']>> /\ Asks(ReplyFrames'[Gone'])
    BY <1>1, <1>2, <1>7, <1>8 DEF Sending
  <2>3. Asks(ReplyFrames'[Gone']) /\ Got' < Gone' => peer'.await # <<>>
    BY <1>1, <1>2, <1>7, <1>8 DEF Sending
  <2>4. /\ peer'.tx = (part'.seq + (Gone' - Got')) % SeqNums
        /\ Acks(toPeer', peer'.tx, Gone' - Got', Gone')
    <3>1. Gone' - Got' = Gone - Got - 1 /\ Gone \in Int /\ Gone <= Gone
      BY <1>2, <1>6, <1>7
    <3> QED BY <1>1, <1>2, <1>7, <3>1
  <2>5. 0 \in Splits'
    <3>1. 0 \in 0..Len(Seen')
      BY <1>10 DEF Flight
    <3> QED BY <1>4, <3>1 DEF Splits
  <2> QED BY <1>10, <2>1, <2>2, <2>3, <2>4, <2>5 DEF Sending
<1> QED BY <1>5, <1>11 DEF Ordered

\* The reply is whole: it is handed over, at once or behind the keepalive.
LEMMA ReplyEnds ==
    ASSUME Types, Ordered, RecvData, failed' = FALSE, NEW m, Delivered(part, Head(msgs)) = <<m>>
    PROVE  /\ call'.job = <<>> /\ call'.deferred = <<>>
           /\ call.due \in Nat \ {0} /\ call'.due \in 0..call.due
           /\ Len(call'.held) \in Nat /\ call'.due - Len(call'.held) = call.due - 1
           /\ results' \o call'.held = Append(results, m)
           /\ call'.due = 0 <=> pc' \in {"idle", "closed"}
           /\ Len(call'.held) = IF pc' = "alive" THEN 1 ELSE 0
           /\ pc' \in {"idle", "recv", "alive"}
<1> DEFINE whole == Delivered(part, Head(msgs))
<1>1. /\ pc = "recv" /\ Head(msgs) \in Frames
      /\ \/ Returned(whole[1], Tail(msgs))
         \/ /\ pc' = "alive" /\ results' = results
            /\ call'.job = call.job /\ call'.due = call.due /\ call'.held = whole
            /\ call'.deferred = call.deferred
  <2>1. <<m>> # <<>> /\ whole = <<m>>
    OBVIOUS
  <2>2. whole # <<>>
    BY <2>1
  <2> HIDE DEF whole
  <2> QED BY <2>2, RecvDataSplit DEF whole
<1>2. whole = <<m>> /\ whole \in Seq(Seq(Bytes)) /\ whole[1] = m /\ m \in Seq(Bytes) /\ results \in Seq(Seq(Bytes))
  <2>1. whole \in AtMostOne(Seq(Bytes)) /\ results \in Seq(Seq(Bytes))
    BY <1>1, TypesOpen, FedFacts
  <2>2. whole \in Seq(Seq(Bytes))
    BY <2>1 DEF AtMostOne
  <2>3. whole = <<m>> /\ whole[1] = m
    OBVIOUS
  <2>4. Len(whole) = 1
    BY <2>3
  <2> HIDE DEF whole
  <2>5. whole[1] \in Seq(Bytes)
    BY <2>2, <2>4
  <2> QED BY <2>1, <2>2, <2>3, <2>5
<1>3. call.due \in Nat \ {0} /\ call.job = <<>> /\ call.deferred = <<>>
  <2>1. call.job = <<>> /\ call.deferred = <<>>
    BY <1>1 DEF Ordered, AskingInv, Asking, GivenInv
  <2> QED BY <1>1, <2>1, TypesOpen
<1>4. results \o <<m>> = Append(results, m) /\ Append(results, m) \o <<>> = Append(results, m)
  <2>1. \A x \in Seq(Bytes) : results \o <<x>> = Append(results, x) /\ Append(results, x) \o <<>> = Append(results, x)
    BY <1>2
  <2> QED BY <1>2, <2>1
<1>5. CASE Returned(whole[1], Tail(msgs))
  <2>1. Returned(m, Tail(msgs))
    BY <1>2, <1>5
  <2>2. /\ results' = Append(results, m) /\ pc' = (IF call.due = 1 THEN "idle" ELSE "recv")
        /\ call'.job = <<>> /\ call'.due = call.due - 1 /\ call'.held = <<>> /\ call'.deferred = <<>>
    BY <1>1, <2>1, ReturnedFacts
  <2> DEFINE d == call.due
             e == call'.due
             h == call'.held
  <2>3. d \in Nat \ {0} /\ e = d - 1 /\ h = <<>> /\ pc' = IF d = 1 THEN "idle" ELSE "recv"
    BY <1>3, <2>2
  <2> HIDE DEF d, e, h
  <2>4. /\ e \in 0..d /\ Len(h) = 0 /\ e - Len(h) = d - 1 /\ (e = 0 <=> pc' \in {"idle", "closed"})
        /\ pc' \in {"idle", "recv"}
    BY <2>3
  <2>5. results' \o h = Append(results, m)
    BY <1>4, <2>2, <2>3
  <2> QED BY <1>3, <2>2, <2>4, <2>5 DEF d, e, h
<1>6. CASE /\ pc' = "alive" /\ results' = results
           /\ call'.job = call.job /\ call'.due = call.due /\ call'.held = whole
           /\ call'.deferred = call.deferred
  <2>1. call'.held = <<m>> /\ Len(call'.held) = 1
    BY <1>2, <1>6
  <2>2. results' \o call'.held = Append(results, m)
    BY <1>4, <1>6, <2>1
  <2> QED BY <1>3, <1>6, <2>1, <2>2
<1> QED BY <1>1, <1>5, <1>6

\* The next frame of the reply is its last.
LEMMA OrderedWhole ==
    ASSUME Short, Types, Types', Ordered, RecvData, failed' = FALSE, Head(msgs).seq = part.seq,
           Got + 1 = ReplySize
    PROVE  Ordered'
<1> DEFINE f == Head(msgs)
           next == part.seq
           L == Len(Replies[sent])
           d == call.due
<1>1. /\ pc = "recv" /\ msgs # <<>> /\ f.kind = "data" /\ msgs' = Tail(msgs) /\ UNCHANGED <<txSeq, sent, toTester, peer>>
  BY RecvDataSplit
<1>2. /\ Sending /\ Got < Gone /\ f = ReplyFrames[Got + 1] /\ Flight(0, Got, next, Unread, msgs, toTester)
      /\ part'.seq = After(next) /\ Delivered(part, f) = <<Reply>> /\ Empty(part')
      /\ peer.tx = (After(next) + (Gone - Got - 1)) % SeqNums
      /\ \A frames, low, high : Carries(toPeer, frames, low, high) => Carries(toPeer', frames, low, high)
      /\ \A most \in Int : Gone <= most => Acks(toPeer', peer.tx, Gone - Got - 1, most)
  BY TakenFacts
<1>3. /\ call'.job = <<>> /\ call'.deferred = <<>>
      /\ d \in Nat \ {0} /\ call'.due \in 0..d
      /\ Len(call'.held) \in Nat /\ call'.due - Len(call'.held) = d - 1
      /\ results' \o call'.held = Append(results, Reply)
      /\ call'.due = 0 <=> pc' \in {"idle", "closed"}
      /\ Len(call'.held) = IF pc' = "alive" THEN 1 ELSE 0
      /\ pc' \in {"idle", "recv", "alive"}
  <2>1. Delivered(part, Head(msgs)) = <<Reply>>
    BY <1>2
  <2> QED BY <2>1, ReplyEnds
<1>4. /\ Got \in Nat /\ Gone = ReplySize /\ Gone = Got + 1 /\ ReplySize \in Nat /\ ReplySize + 2 <= SeqNums
      /\ SeqNums \in Nat /\ next \in Seqs /\ f.seq = next /\ Pending # <<>> /\ Served /\ Asks(f)
      /\ ReplyFrames \in Seq(Frames) /\ Len(ReplyFrames) = ReplySize
  <2>1. next \in Seqs
    BY TypesOpen
  <2>2. /\ Got \in Nat /\ Gone \in Nat /\ Gone <= ReplySize /\ ReplySize \in Nat /\ ReplySize + 2 <= SeqNums
        /\ SeqNums \in Nat /\ Pending # <<>> /\ Served
        /\ ReplyFrames \in Seq(Frames) /\ Len(ReplyFrames) = ReplySize
        /\ \A j \in 1..ReplySize : j = ReplySize => Asks(ReplyFrames[j])
    BY <1>2, SendingFacts, SeqNumsFact DEF Ordered
  <2>3. Gone = ReplySize /\ Gone = Got + 1 /\ Got + 1 \in 1..ReplySize
    BY <1>2, <2>2
  <2>4. Asks(ReplyFrames[Got + 1])
    BY <2>2, <2>3
  <2> QED BY <1>2, <2>1, <2>2, <2>3, <2>4
<1>5. /\ call.held = <<>> /\ Pending = Rest /\ Reply = Rest[1] /\ Rest \in Seq(Seq(Bytes)) /\ Rest # <<>>
      /\ sent \in 1..Len(Requests) /\ d <= L /\ results \in Seq(Seq(Bytes))
      /\ L \in Nat /\ Replies[sent] \in Seq(Seq(Bytes))
  <2>1. call.held \in Seq(Seq(Bytes)) /\ results \in Seq(Seq(Bytes))
    BY TypesOpen DEF AtMostOne
  <2>2. Len(call.held) = 0 /\ d <= L
    BY <1>1, <1>3 DEF Ordered, GivenInv
  <2>3. Pending = Rest /\ Reply = Rest[1] /\ Rest \in Seq(Seq(Bytes)) /\ sent \in 1..Len(Requests)
    BY <1>4, PendingFacts DEF Ordered
  <2>4. call.held = <<>>
    BY <2>1, <2>2, EmptySeq
  <2>5. Rest # <<>>
    BY <1>4, <2>3
  <2> QED BY <2>1, <2>2, <2>3, <2>4, <2>5, TalkFacts
<1>6. ~Asking /\ ~Asking' /\ Served'
  BY <1>1, <1>3, <1>4 DEF Asking, Served
<1>7. Rest' = Tail(Rest)
  <2> DEFINE n == d - 1
             i == L - d + 1
             R == Replies[sent]
  <2>1. d \in Nat \ {0} /\ d <= L /\ L \in Nat
    BY <1>3, <1>5
  <2>2. Rest = SubSeq(R, L - d + 0 + 1, L)
    BY <1>5, <2>1 DEF Rest
  <2>3. /\ n \in Nat /\ n <= L /\ i \in 1..L /\ L - d + 0 + 1 = i /\ L - n + 1 = i + 1
        /\ (n = 0 => i + 1 = L + 1)
    <3> HIDE DEF d, L
    <3> QED BY <2>1
  <2>4. call'.due \in Nat /\ Len(call'.held) \in Nat /\ call'.due - Len(call'.held) = n /\ sent' = sent
        /\ n <= Len(Replies[sent]) /\ Len(Replies[sent]) \in Nat
    BY <1>1, <1>3, <2>1, <2>3
  <2> HIDE DEF n, i
  <2>5. Rest' = IF n = 0 THEN <<>> ELSE SubSeq(R, L - n + 1, L)
    BY <2>3, <2>4, RestAt
  <2>6. R \in Seq(Seq(Bytes)) /\ L = Len(R)
    BY <1>5
  <2> HIDE DEF R, L, d
  <2>7. Tail(SubSeq(R, i, L)) = SubSeq(R, i + 1, L)
    BY <2>3, <2>6, WindowShrinks
  <2>8. SubSeq(R, L + 1, L) = <<>>
    BY <2>1, <2>6
  <2> QED BY <2>2, <2>3, <2>5, <2>7, <2>8
<1>8. Pending' = Tail(Pending)
  BY <1>5, <1>6, <1>7 DEF Pending
<1>9. AskingInv'
  BY <1>3, <1>6 DEF AskingInv
<1>10. ServedInv'
  <2>1. /\ peer.served = SubSeq(Requests, 1, Len(peer.served)) /\ Len(peer.served) \in {sent - 1, sent}
        /\ Empty(peer.in) /\ peer.in.seq = txSeq /\ Carries(toPeer, <<>>, 1, 0)
    BY <1>4, <1>6 DEF Ordered, ServedInv
  <2>2. Carries(toPeer', <<>>, 1, 0)
    BY <1>2, <2>1
  <2> QED BY <1>1, <1>3, <1>6, <2>1, <2>2 DEF ServedInv
<1>11. GivenInv'
  <2>1. (results' \o call'.held) \o Rest' = Answers(sent')
    <3>1. Head(Rest) = Reply
      BY <1>5, TailFacts
    <3>2. Append(results, Head(Rest)) \o Tail(Rest) = results \o Rest
      BY <1>5, HeadMoves
    <3>3. (results \o call.held) \o Rest = Answers(sent)
      BY DEF Ordered, GivenInv
    <3>4. results \o call.held = results
      BY <1>5
    <3> QED BY <1>1, <1>3, <1>7, <3>1, <3>2, <3>3, <3>4
  <2>2. call'.due <= Len(Replies[sent']) /\ sent' > 0
    <3>1. call'.due <= d /\ call'.due \in Nat /\ d \in Nat /\ sent > 0
      BY <1>3, <1>5
    <3> HIDE DEF d, L
    <3> QED BY <1>1, <1>5, <3>1 DEF L
  <2> QED BY <1>3, <1>6, <2>1, <2>2 DEF GivenInv
<1>12. Unread = {f}
  <2>1. Unread = {ReplyFrames[j] : j \in (Got + 1)..(Got + 1)}
    BY <1>4 DEF Unread
  <2>2. \A j \in Int : j \in (Got + 1)..(Got + 1) <=> j = Got + 1
    BY <1>4
  <2> HIDE DEF f
  <2> QED BY <1>2, <1>4, <2>1, <2>2
<1>13. peer.tx = After(next) /\ Gone - Got - 1 = 0
  <2>1. Gone - Got - 1 = 0 /\ 0 \in 0..SeqNums
    BY <1>4
  <2>2. After(next) \in Seqs
    BY <1>4, AfterFact
  <2> DEFINE x == After(next)
  <2> HIDE DEF x
  <2>3. x \in Int /\ x < SeqNums
    BY <2>2, SeqNumsFact DEF x
  <2>4. (x + 0) % SeqNums = IF x + 0 < SeqNums THEN x + 0 ELSE x + 0 - SeqNums
    BY <2>1, <2>2, Onward DEF x
  <2>5. peer.tx = (x + 0) % SeqNums
    BY <1>2, <2>1 DEF x
  <2> QED BY <2>1, <2>3, <2>4, <2>5 DEF x
<1>14. /\ Seen' = Tail(msgs) /\ Len(Tail(msgs)) \in Nat
       /\ Flight(Len(Tail(msgs)), 0, After(next), {}, Tail(msgs), toTester)
  <2>1. msgs \in Seq(Wireable) /\ toTester \in Seq(Wireable)
    BY TypesOpen
  <2>2. Tail(msgs) \in Seq(Wireable)
    BY <1>1, <2>1
  <2>3. Seen' = Tail(msgs)
    BY <1>1, <1>3, <2>2 DEF Seen
  <2> DEFINE taken == Got
  <2>4. taken \in Nat /\ taken + 2 < SeqNums /\ Flight(0, taken, next, {f}, msgs, toTester)
    BY <1>2, <1>4, <1>12
  <2> HIDE DEF taken, next
  <2>5. Flight(Len(Tail(msgs)), 0, After(next), {}, Tail(msgs), toTester)
    BY <1>1, <1>4, <2>1, <2>4, FlightDone
  <2> QED BY <2>2, <2>3, <2>5
<1>15. Between'
  <2>1. peer'.out = <<>>
    <3>1. peer.out \in Seq(Frames)
      BY TypesOpen
    <3>2. Len(peer.out) \in Nat /\ Gone = ReplySize - Len(peer.out)
      BY <3>1 DEF Gone
    <3>3. Len(peer.out) = 0
      BY <1>4, <3>2
    <3> QED BY <1>1, <3>1, <3>3, EmptySeq
  <2>2. peer'.todo = Pending'
    BY <1>1, <1>2, <1>8 DEF Sending
  <2>3. peer.await = <<f>>
    <3>1. f = ReplyFrames[Gone] /\ Asks(ReplyFrames[Gone]) /\ Got < Gone
      BY <1>2, <1>4
    <3>2. peer.await # <<>>
      BY <1>2, <3>1 DEF Sending
    <3>3. peer.await = <<ReplyFrames[Gone]>>
      BY <1>2, <3>2 DEF Sending
    <3> QED BY <3>1, <3>3
  <2>4. peer'.await # <<>> /\ After(peer'.await[1].seq) = peer'.tx
    <3>1. peer'.await = <<f>> /\ peer'.tx = After(f.seq)
      BY <1>1, <1>4, <1>13, <2>3
    <3> HIDE DEF f
    <3> QED BY <3>1
  <2>5. Acks(toPeer', peer'.tx, 0, SeqNums - 2)
    <3>1. SeqNums - 2 \in Int /\ Gone <= SeqNums - 2
      BY <1>4
    <3> QED BY <1>1, <1>2, <1>13, <3>1
  <2>6. \E k \in Splits' : Flight(k, 0, part'.seq, {}, Seen', toTester')
    <3>1. Len(Tail(msgs)) \in Splits'
      BY <1>6, <1>14 DEF Splits
    <3> QED BY <1>1, <1>2, <1>14, <3>1
  <2>7. part'.seq = peer'.tx
    BY <1>1, <1>2, <1>13
  <2> QED BY <1>2, <2>1, <2>2, <2>4, <2>5, <2>6, <2>7 DEF Between
<1> QED BY <1>9, <1>10, <1>11, <1>15 DEF Ordered

LEMMA OrderedRecvData ==
    ASSUME Short, Types, Types', Ordered, RecvData, failed' = FALSE
    PROVE  Ordered'
<1>1. CASE Head(msgs).seq # part.seq
  BY <1>1, OrderedRepetition
<1>2. CASE Head(msgs).seq = part.seq /\ Got + 1 # ReplySize
  BY <1>2, OrderedPart
<1>3. CASE Head(msgs).seq = part.seq /\ Got + 1 = ReplySize
  BY <1>3, OrderedWhole
<1> QED BY <1>1, <1>2, <1>3

--------------------------------------------------------------------------------
(***************************************************************************)
(* The inductive invariant and what follows from it.                       *)
(***************************************************************************)

\* What a step does that leaves no call failed.
LEMMA Clean ==
    ASSUME Types, [Next]_vars, failed' = FALSE
    PROVE  failed = FALSE /\ ~Closed /\ ~TimeOut
<1>1. ~Closed /\ ~TimeOut
  BY DEF Closed, TimeOut, Raise
<1>2. failed' = failed
  <2>1. CASE Tester
    <3>1. CASE Begin \/ Transmit \/ Pull \/ WaitFrame \/ Ping \/ Ignored \/ Disconnect
      BY <3>1 DEF Begin, Transmit, Pull, WaitFrame, Ping, Ignored, Disconnect
    <3>2. CASE AckArrives \/ AckByData \/ Alive \/ Defer
      BY <3>2 DEF AckArrives, AckByData, Acknowledged, Alive, Defer
    <3>3. CASE RecvData
      BY <3>3 DEF RecvData, Raise
    <3> QED BY <1>1, <2>1, <3>1, <3>2, <3>3 DEF Tester
  <2>2. CASE Peer
    <3>1. UNCHANGED tester
      BY <2>2 DEF Peer, Answering, Befalling, PeerData, PeerAcked, PeerPinged, PeerPonged, PeerClosed,
                  PeerSends, PeerRepeats, Unheard, PeerAsks, PeerCloses, LoseToPeer, LoseToTester, PeerTakes
    <3> QED BY <3>1 DEF tester
  <2>3. CASE UNCHANGED vars
    BY <2>3 DEF vars, tester
  <2> QED BY <2>1, <2>2, <2>3 DEF Next
<1> QED BY <1>1, <1>2

LEMMA OrderedStep ==
    ASSUME Short, Types, IInv, [Next]_vars
    PROVE  IInv'
<1> SUFFICES ASSUME ~failed' PROVE Ordered'
  BY DEF IInv
<1>1. Types'
  BY TypesStep
<1>2. failed' = FALSE
  BY <1>1, TypesOpen DEF Types, TypeOK
<1>3. Ordered /\ ~Closed /\ ~TimeOut
  BY <1>2, Clean DEF IInv
<1>4. CASE Begin \/ Transmit \/ Pull \/ Disconnect
  BY <1>1, <1>3, <1>4, OrderedBegin, OrderedTransmit, OrderedPull, OrderedDisconnect
<1>5. CASE WaitFrame \/ Ping \/ Ignored
  BY <1>1, <1>3, <1>5, OrderedWaits
<1>6. CASE AckArrives \/ AckByData
  BY <1>1, <1>3, <1>6, OrderedAcknowledged
<1>7. CASE RecvData
  BY <1>1, <1>2, <1>3, <1>7, OrderedRecvData
<1>8. CASE Alive \/ Defer
  BY <1>1, <1>3, <1>8, OrderedAlive, OrderedDefer
<1>9. CASE PeerData \/ PeerAcked \/ PeerSends \/ PeerRepeats
  BY <1>1, <1>3, <1>9, OrderedPeerData, OrderedPeerAcked, OrderedPeerSends, OrderedPeerRepeats
<1>10. CASE PeerPinged \/ PeerPonged \/ PeerClosed \/ Unheard \/ Befalling \/ UNCHANGED vars
  BY <1>1, <1>3, <1>10, OrderedQuiet
<1> QED BY <1>3, <1>4, <1>5, <1>6, <1>7, <1>8, <1>9, <1>10 DEF Next, Tester, Peer, Answering

\* Messages of less than a round of sequence numbers: while no call has raised, the
\* request under way and the frames and ACKs in flight fit together, and nothing an
\* earlier reply left in a queue is taken for the frame that is expected (126-157, 341-343).
THEOREM Inductive == Short => (Spec => [](Types /\ IInv))
<1> SUFFICES ASSUME Short PROVE Spec => [](Types /\ IInv)
  OBVIOUS
<1>1. Init => Types /\ IInv
  BY TypesInit, OrderedInit DEF IInv
<1>2. Types /\ IInv /\ [Next]_vars => (Types /\ IInv)'
  BY TypesStep, OrderedStep
<1> QED BY <1>1, <1>2, PTL DEF Spec

\* What is in front of a list is a prefix of it.
LEMMA Prefix ==
    ASSUME NEW S, NEW s \in Seq(S), NEW t \in Seq(S), Len(s) <= Len(t),
           \A i \in 1..Len(s) : s[i] = t[i]
    PROVE  IsPrefix(s, t)
<1>1. /\ 1 \in Nat /\ Len(s) \in Nat /\ Len(t) \in Nat /\ 1 <= Len(s) + 1 /\ 1 <= 1
  OBVIOUS
<1>2. SubSeq(s, 1, Len(s)) = SubSeq(t, 1, Len(s))
  BY <1>1, SameWindow
<1> QED BY <1>2 DEF IsPrefix

\* For messages that are Short, whatever ACKs and frames the link loses and however the
\* peer repeats its frames: until a call raises, the client has the peer's messages and
\* the peer the client's requests, whole, once and in order (126-157, 341-343).
THEOREM InOrderHolds == Short => (Spec => []InOrder)
<1> SUFFICES ASSUME Short PROVE Spec => []InOrder
  OBVIOUS
<1>1. ASSUME Types, IInv PROVE InOrder
  <2> SUFFICES ASSUME ~failed
               PROVE  IsPrefix(results, Answers(sent)) /\ IsPrefix(peer.served, SubSeq(Requests, 1, sent))
    BY DEF InOrder
  <2>1. ServedInv /\ GivenInv
    BY <1>1 DEF IInv, Ordered
  <2>2. /\ results \in Seq(Seq(Bytes)) /\ call.held \in Seq(Seq(Bytes)) /\ peer.served \in Seq(Seq(Bytes))
        /\ sent \in 0..Len(Requests) /\ Requests \in Seq(Seq(Bytes)) /\ call.due \in Nat
    BY <1>1, TypesOpen, TransportAssumption DEF AtMostOne
  <2>3. Rest \in Seq(Seq(Bytes))
    <3>1. CASE call.due = 0
      <4>1. Rest = <<>>
        BY <1>1, <2>1, <3>1, RestFacts
      <4> QED BY <4>1
    <3>2. CASE call.due > 0
      BY <1>1, <2>1, <3>2, RestFacts
    <3> QED BY <2>2, <3>1, <3>2
  <2>4. IsPrefix(results, Answers(sent))
    <3> DEFINE h == call.held
               more == Rest
               a == Answers(sent)
    <3>1. (results \o h) \o more = a
      BY <2>1 DEF GivenInv
    <3>2. h \in Seq(Seq(Bytes)) /\ more \in Seq(Seq(Bytes))
      BY <2>2, <2>3
    <3> HIDE DEF h, more, a
    <3>3. /\ results \o h \in Seq(Seq(Bytes)) /\ Len(results \o h) = Len(results) + Len(h)
          /\ \A i \in 1..Len(results) : (results \o h)[i] = results[i]
      BY <2>2, <3>2, ConcatFacts
    <3>4. /\ a \in Seq(Seq(Bytes)) /\ Len(a) = Len(results \o h) + Len(more)
          /\ \A i \in 1..Len(results \o h) : a[i] = (results \o h)[i]
      BY <3>1, <3>2, <3>3, ConcatFacts, ZenonT(60)
    <3>5. Len(results) \in Nat /\ Len(h) \in Nat /\ Len(more) \in Nat
      BY <2>2, <3>2
    <3>6. Len(results) <= Len(a) /\ \A i \in 1..Len(results) : a[i] = results[i]
      <4>1. Len(results) <= Len(results) + Len(h) /\ Len(results) <= (Len(results) + Len(h)) + Len(more)
            /\ \A i \in 1..Len(results) : i \in 1..(Len(results) + Len(h))
        BY <3>5
      <4>2. Len(results) <= Len(a) /\ \A i \in 1..Len(results) : i \in 1..Len(results \o h)
        BY <3>3, <3>4, <4>1
      <4> QED BY <3>3, <3>4, <4>2
    <3>7. IsPrefix(results, a)
      BY <2>2, <3>4, <3>6, Prefix
    <3> QED BY <3>7 DEF a
  <2>5. IsPrefix(peer.served, SubSeq(Requests, 1, sent))
    <3> DEFINE s == peer.served
               n == Len(s)
               t == SubSeq(Requests, 1, sent)
    <3>1. s = SubSeq(Requests, 1, n) /\ n \in {sent - 1, sent} /\ n \in Nat /\ sent \in Nat /\ n <= sent
          /\ sent <= Len(Requests)
      BY <2>1, <2>2 DEF ServedInv
    <3> HIDE DEF n
    <3>2. /\ Len(s) = n /\ \A i \in 1..n : s[i] = Requests[1 + i - 1]
      BY <2>2, <3>1, WindowFacts
    <3>3. t \in Seq(Seq(Bytes)) /\ Len(t) = sent /\ \A i \in 1..sent : t[i] = Requests[1 + i - 1]
      BY <2>2, <3>1, WindowFacts
    <3>4. s \in Seq(Seq(Bytes)) /\ \A i \in 1..n : i \in 1..sent
      BY <2>2, <3>1
    <3> HIDE DEF s, t
    <3>5. IsPrefix(s, t)
      BY <3>1, <3>2, <3>3, <3>4, Prefix
    <3> QED BY <3>5 DEF s, t
  <2> QED BY <2>4, <2>5
<1> QED BY <1>1, Inductive, PTL

\* Under the same premise both ends agree on both sequence numbers between calls that
\* did not raise, and the client has every message of the replies (333-345, 394-405).
THEOREM InSyncHolds == Short => (Spec => []InSync)
<1> SUFFICES ASSUME Short PROVE Spec => []InSync
  OBVIOUS
<1>1. ASSUME Types, IInv PROVE InSync
  <2> SUFFICES ASSUME pc = "idle", ~failed
               PROVE  txSeq = peer.in.seq /\ part.seq = peer.tx /\ results = Answers(sent)
    BY DEF InSync
  <2>1. ServedInv /\ GivenInv /\ (Between \/ Sending)
    BY <1>1 DEF IInv, Ordered
  <2>2. call.due = 0 /\ Len(call.held) = 0 /\ ~Asking
    BY <2>1 DEF GivenInv, Asking
  <2>3. Rest = <<>> /\ Pending = <<>>
    BY <2>2 DEF Rest, Pending
  <2>4. Served
    <3>1. ~Served => sent \in 1..Len(Requests) /\ call.due = Len(Replies[sent])
      BY <1>1, <2>1, AskedFacts DEF GivenInv
    <3> QED BY <2>2, <3>1, TalkFacts
  <2>5. txSeq = peer.in.seq
    BY <2>1, <2>2, <2>4 DEF ServedInv
  <2>6. part.seq = peer.tx
    BY <2>1, <2>3 DEF Between, Sending
  <2>7. results = Answers(sent)
    <3>1. call.held \in Seq(Seq(Bytes)) /\ results \in Seq(Seq(Bytes))
      BY <1>1, TypesOpen DEF AtMostOne
    <3>2. call.held = <<>>
      BY <2>2, <3>1, EmptySeq
    <3>3. (results \o <<>>) \o <<>> = Answers(sent)
      BY <2>1, <2>3, <3>2 DEF GivenInv
    <3> QED BY <3>1, <3>3
  <2> QED BY <2>5, <2>6, <2>7
<1> QED BY <1>1, Inductive, PTL

--------------------------------------------------------------------------------
(***************************************************************************)
(* The steps of the link.                                                  *)
(***************************************************************************)

\* The operators of the library are the same in MessageLink.
LEMMA SameFlattenSeq == \A seqs : Link!FlattenSeq(seqs) = FlattenSeq(seqs)
  BY DEF Link!FlattenSeq, FlattenSeq

\* The transport hands over a reply to a request that was served.
LEMMA LinkReturn ==
    ASSUME Types, Served, ~failed, UNCHANGED <<sent, failed, peer>>, NEW m \in Seq(Bytes),
           results' = Append(results, m), NEW more \in Seq(Seq(Bytes)),
           Append(results, m) \o more = Answers(sent)
    PROVE  Link!Return
<1> DEFINE n == Len(results)
           due == Answers(sent)
<1>1. results \in Seq(Seq(Bytes)) /\ n \in Nat
  BY TypesOpen
<1>2. /\ Append(results, m) \in Seq(Seq(Bytes)) /\ Len(Append(results, m)) = n + 1
      /\ Append(results, m)[n + 1] = m
  BY <1>1, AppendFacts
<1>3. due \in Seq(Seq(Bytes)) /\ Len(due) = n + 1 + Len(more) /\ due[n + 1] = m
  <2> DEFINE front == Append(results, m)
  <2>1. front \in Seq(Seq(Bytes)) /\ Len(front) = n + 1 /\ front[n + 1] = m /\ due = front \o more
    BY <1>2
  <2> HIDE DEF front, due, n
  <2>2. due \in Seq(Seq(Bytes)) /\ Len(due) = Len(front) + Len(more) /\ \A i \in 1..Len(front) : due[i] = front[i]
    BY <2>1, ConcatFacts
  <2>3. n + 1 \in 1..Len(front)
    BY <1>1, <2>1 DEF n
  <2> QED BY <2>1, <2>2, <2>3
<1>4. due = Link!FlattenSeq(SubSeq(Replies, 1, Len(peer.served)))
  BY SameFlattenSeq DEF Served, Answers
<1>5. Len(more) \in Nat
  OBVIOUS
<1> HIDE DEF n, due
<1>6. n < Len(due) /\ results' = Append(results, due[n + 1])
  BY <1>1, <1>3, <1>5
<1>7. UNCHANGED <<sent, peer.served, failed>>
  OBVIOUS
<1> QED BY <1>4, <1>6, <1>7 DEF Link!Return, n

\* A sequence of one element behind another sequence.
LEMMA OneMore ==
    ASSUME NEW S, NEW s \in Seq(S), NEW h \in Seq(S)
    PROVE  Len(h) = 1 => h[1] \in S /\ s \o h = Append(s, h[1])
<1>0. /\ s \o h \in Seq(S) /\ Len(s \o h) = Len(s) + Len(h)
      /\ \A i \in 1..Len(s) : (s \o h)[i] = s[i]
      /\ \A i \in 1..Len(h) : (s \o h)[Len(s) + i] = h[i]
  BY ConcatFacts
<1> SUFFICES ASSUME Len(h) = 1 PROVE h[1] \in S /\ s \o h = Append(s, h[1])
  OBVIOUS
<1>1. h[1] \in S /\ Len(s) \in Nat
  OBVIOUS
<1>2. /\ s \o h \in Seq(S) /\ Len(s \o h) = Len(s) + 1
      /\ \A i \in 1..Len(s) : (s \o h)[i] = s[i]
      /\ (s \o h)[Len(s) + 1] = h[1]
  BY <1>0
<1>3. /\ Append(s, h[1]) \in Seq(S) /\ Len(Append(s, h[1])) = Len(s) + 1
      /\ \A i \in 1..Len(s) : Append(s, h[1])[i] = s[i]
      /\ Append(s, h[1])[Len(s) + 1] = h[1]
  BY <1>1, AppendFacts
<1>4. \A i \in 1..(Len(s) + 1) : i \in 1..Len(s) \/ i = Len(s) + 1
  BY <1>1
<1>5. \A i \in 1..Len(s \o h) : (s \o h)[i] = Append(s, h[1])[i]
  BY <1>2, <1>3, <1>4
<1> QED BY <1>1, <1>2, <1>3, <1>5, SameSequence

LEMMA LinkRecvData ==
    ASSUME Short, Types, Ordered, ~failed, RecvData, failed' = FALSE
    PROVE  Link!Return \/ UNCHANGED Link!linkVars
<1> DEFINE f == Head(msgs)
<1>1. /\ pc = "recv" /\ ~Wrong(part, f) /\ UNCHANGED <<sent, peer, failed>>
      /\ Delivered(part, f) = <<>> => results' = results
  BY RecvDataSplit, TypesOpen
<1>2. CASE Delivered(part, f) = <<>>
  BY <1>1, <1>2 DEF Link!linkVars
<1>3. CASE Delivered(part, f) # <<>>
  <2>1. f.seq = part.seq
    BY <1>1, <1>3 DEF Wrong, Delivered
  <2>2. Delivered(part, f) = IF Got + 1 = ReplySize THEN <<Reply>> ELSE <<>>
    BY <2>1, TakenFacts
  <2>3. Delivered(part, f) = <<Reply>> /\ Pending # <<>>
    BY <1>3, <2>1, <2>2, TakenFacts DEF Sending
  <2>4. results' \o call'.held = Append(results, Reply) /\ Len(call'.held) = IF pc' = "alive" THEN 1 ELSE 0
    BY <2>3, ReplyEnds
  <2>5. /\ Served /\ Rest \in Seq(Seq(Bytes)) /\ Rest # <<>> /\ Reply = Head(Rest) /\ Reply \in Seq(Bytes)
        /\ results \in Seq(Seq(Bytes)) /\ call.held = <<>>
    BY <1>1, <2>3, PendingFacts, TypesOpen DEF Ordered, GivenInv
  <2>6. Append(results, Reply) \o Tail(Rest) = Answers(sent) /\ Tail(Rest) \in Seq(Seq(Bytes))
    <3>1. Append(results, Head(Rest)) \o Tail(Rest) = results \o Rest /\ Tail(Rest) \in Seq(Seq(Bytes))
      BY <2>5, HeadMoves, TailFacts
    <3>2. (results \o call.held) \o Rest = Answers(sent)
      BY DEF Ordered, GivenInv
    <3>3. results \o <<>> = results
      BY <2>5
    <3> QED BY <2>5, <3>1, <3>2, <3>3
  <2>7. results' = results \/ results' = Append(results, Reply)
    <3>1. Returned(Delivered(part, f)[1], Tail(msgs)) \/ results' = results
      BY <1>3, RecvDataSplit
    <3>2. Delivered(part, f)[1] = Reply
      BY <2>3
    <3> QED BY <3>1, <3>2 DEF Returned
  <2> QED BY <1>1, <2>5, <2>6, <2>7, LinkReturn DEF Link!linkVars
<1> QED BY <1>2, <1>3

LEMMA LinkAlive ==
    ASSUME Short, Types, Ordered, ~failed, Alive
    PROVE  Link!Return
<1>1. pc = "alive" /\ results' = Append(results, call.held[1]) /\ UNCHANGED <<sent, peer, failed>>
  BY DEF Alive, Returned, Takes, Meets
<1>2. Served /\ Len(call.held) = 1 /\ call.held \in Seq(Seq(Bytes)) /\ results \in Seq(Seq(Bytes))
  BY <1>1, TypesOpen DEF Ordered, GivenInv, AtMostOne
<1>3. call.held[1] \in Seq(Bytes) /\ results \o call.held = Append(results, call.held[1])
  BY <1>2, OneMore
<1>4. Rest \in Seq(Seq(Bytes)) /\ (results \o call.held) \o Rest = Answers(sent)
  <2>1. call.due > 0 /\ GivenInv
    BY <1>1, TypesOpen DEF Ordered
  <2>2. Rest \in Seq(Seq(Bytes))
    BY <2>1, RestFacts
  <2> QED BY <2>1, <2>2 DEF GivenInv
<1> QED BY <1>1, <1>2, <1>3, <1>4, LinkReturn

\* The peer has the next request.
LEMMA LinkServe ==
    ASSUME Short, Types, Ordered, Ordered', ~failed, PeerData
    PROVE  Link!Serve \/ UNCHANGED Link!linkVars
<1> DEFINE whole == Delivered(peer.in, Head(toPeer))
           n == Len(peer.served)
<1>1. UNCHANGED <<sent, results, failed>> /\ Head(toPeer) \in Frames
      /\ (peer'.served = peer.served \/ peer'.served = peer.served \o whole)
  BY PeerDataSplit DEF tester
<1>2. /\ peer.served \in Seq(Seq(Bytes)) /\ whole \in AtMostOne(Seq(Bytes)) /\ sent \in 0..Len(Requests)
      /\ Requests \in Seq(Seq(Bytes)) /\ n \in Nat
  <2>1. peer.served \in Seq(Seq(Bytes)) /\ sent \in 0..Len(Requests) /\ peer.in \in Reassembler
    BY TypesOpen
  <2> QED BY <1>1, <2>1, FedFacts, TransportAssumption
<1> HIDE DEF whole
<1>3. CASE whole = <<>>
  <2>1. peer.served \o whole = peer.served
    BY <1>2, <1>3
  <2> QED BY <1>1, <2>1 DEF Link!linkVars
<1>4. CASE whole # <<>> /\ peer'.served = peer.served \o whole
  <2>1. whole \in Seq(Seq(Bytes)) /\ Len(whole) = 1
    <3>1. whole \in Seq(Seq(Bytes)) /\ Len(whole) <= 1
      BY <1>2 DEF AtMostOne
    <3>2. Len(whole) # 0
      BY <1>4, <3>1, EmptySeq
    <3> DEFINE k == Len(whole)
    <3>3. k \in Nat /\ k <= 1 /\ k # 0
      BY <3>1, <3>2
    <3> HIDE DEF k
    <3>4. k = 1
      BY <3>3
    <3> QED BY <3>1, <3>4 DEF k
  <2>2. whole[1] \in Seq(Bytes) /\ peer'.served = Append(peer.served, whole[1])
    BY <1>2, <1>4, <2>1, OneMore
  <2>3. Len(peer'.served) = n + 1 /\ peer'.served[n + 1] = whole[1]
    BY <1>2, <2>1, <2>2, AppendFacts
  <2>4. n \in {sent - 1, sent} /\ n + 1 \in {sent - 1, sent} /\ peer'.served = SubSeq(Requests, 1, n + 1)
    BY <1>1, <2>3 DEF Ordered, ServedInv
  <2>5. n + 1 = sent /\ n < sent /\ n + 1 <= Len(Requests)
    BY <1>2, <2>4
  <2> HIDE DEF n
  <2>6. SubSeq(Requests, 1, n + 1)[n + 1] = Requests[n + 1]
    BY <1>2, <2>5, WindowFacts
  <2>7. peer'.served = Append(peer.served, Requests[n + 1])
    BY <2>2, <2>3, <2>4, <2>6
  <2> QED BY <1>1, <2>5, <2>7 DEF Link!Serve, n
<1> QED BY <1>1, <1>3, <1>4 DEF Link!linkVars

LEMMA LinkStep ==
    ASSUME Short, Types, Types', IInv, IInv', [Next]_vars, ~failed
    PROVE  Link!Next \/ UNCHANGED Link!linkVars
<1>1. failed' \in BOOLEAN /\ failed = FALSE /\ peer \in Other /\ Ordered
  BY TypesOpen DEF Types, TypeOK, IInv
<1>2. CASE failed' = TRUE
  <2>1. ~UNCHANGED failed /\ ~UNCHANGED tester
    BY <1>1, <1>2 DEF tester
  <2>2. Tester
    <3>1. CASE Peer
      BY <2>1, <3>1 DEF Peer, Answering, Befalling, PeerData, PeerAcked, PeerPinged, PeerPonged, PeerClosed,
                        PeerSends, PeerRepeats, Unheard, PeerAsks, PeerCloses, LoseToPeer, LoseToTester,
                        PeerTakes
    <3>2. CASE UNCHANGED vars
      BY <2>1, <3>2 DEF vars
    <3> QED BY <3>1, <3>2 DEF Next
  <2>3. Closed \/ TimeOut \/ RecvData
    <3>1. CASE Begin \/ Transmit \/ Pull \/ WaitFrame \/ Ping \/ Ignored \/ Disconnect
      BY <2>1, <3>1 DEF Begin, Transmit, Pull, WaitFrame, Ping, Ignored, Disconnect
    <3>2. CASE AckArrives \/ AckByData \/ Alive \/ Defer
      BY <2>1, <3>2 DEF AckArrives, AckByData, Acknowledged, Alive, Defer
    <3> QED BY <2>2, <3>1, <3>2 DEF Tester
  <2>4. UNCHANGED <<sent, results, peer>>
    <3>1. CASE Closed
      BY <3>1 DEF Closed, Takes, Meets, Raise
    <3>2. CASE TimeOut
      BY <3>2 DEF TimeOut, Raise
    <3>3. CASE RecvData
      BY <2>1, <3>3 DEF RecvData, Takes, Meets, Raise
    <3> QED BY <2>3, <3>1, <3>2, <3>3
  <2> QED BY <1>2, <2>4 DEF Link!Next, Link!Break
<1>3. CASE failed' = FALSE
  <2>0. UNCHANGED failed /\ ~Closed /\ ~TimeOut /\ Ordered'
    BY <1>1, <1>3, Clean DEF IInv
  <2>1. CASE Begin
    BY <2>0, <2>1 DEF Begin, Link!Next, Link!Request
  <2>2. CASE \/ Transmit \/ Pull \/ WaitFrame \/ Ping \/ Ignored \/ AckArrives \/ AckByData \/ Defer
             \/ Disconnect \/ UNCHANGED vars
    <3>1. UNCHANGED <<sent, results, peer>>
      BY <2>2 DEF Transmit, Pull, WaitFrame, Ping, Ignored, AckArrives, AckByData, Acknowledged, Defer,
                  Disconnect, Takes, Meets, vars, tester
    <3> QED BY <2>0, <3>1 DEF Link!linkVars
  <2>3. CASE RecvData
    BY <1>1, <1>3, <2>3, LinkRecvData DEF Link!Next
  <2>4. CASE Alive
    BY <1>1, <2>4, LinkAlive DEF Link!Next
  <2>5. CASE PeerData
    BY <1>1, <2>0, <2>5, LinkServe DEF Link!Next
  <2>6. CASE PeerAcked \/ PeerClosed \/ PeerSends \/ PeerRepeats \/ PeerCloses
    <3>1. UNCHANGED tester
      BY <2>6 DEF PeerAcked, PeerClosed, PeerSends, PeerRepeats, PeerCloses, PeerTakes
    <3>2. peer'.served = peer.served
      BY <1>1, <2>6 DEF PeerAcked, PeerClosed, PeerSends, PeerRepeats, PeerCloses, Other
    <3> QED BY <3>1, <3>2 DEF tester, Link!linkVars
  <2>7. CASE PeerPinged \/ PeerPonged \/ Unheard \/ PeerAsks \/ LoseToPeer \/ LoseToTester
    <3>1. UNCHANGED <<tester, peer>>
      BY <2>7 DEF PeerPinged, PeerPonged, Unheard, PeerAsks, LoseToPeer, LoseToTester, PeerTakes
    <3> QED BY <3>1 DEF tester, Link!linkVars
  <2> QED BY <2>0, <2>1, <2>2, <2>3, <2>4, <2>5, <2>6, <2>7 DEF Next, Tester, Peer, Answering, Befalling
<1> QED BY <1>1, <1>2, <1>3

\* For messages that are Short the transport is, until a call raises, a link that hands
\* over the requests and their replies one by one, each reply behind the request that
\* it answers (333-405).
THEOREM LinkUntilRaiseHolds == Short => (Spec => LinkUntilRaise)
<1> SUFFICES ASSUME Short PROVE Spec => LinkUntilRaise
  OBVIOUS
<1>1. Init => Link!Init
  BY DEF Init, InitWith, PeerInit, Link!Init
<1>2. Types /\ IInv /\ (Types /\ IInv)' /\ [Next]_vars => [failed \/ Link!Next]_(Link!linkVars)
  BY LinkStep
<1> QED BY <1>1, <1>2, Inductive, PTL DEF Spec, LinkUntilRaise
================================================================================
