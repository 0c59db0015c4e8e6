--------------------------- MODULE Tp2TransportInv ---------------------------
(***************************************************************************)
(* The inductive invariant of Tp2Transport, for messages that are Short:   *)
(* where both ends stand in the request and in the reply under way, which  *)
(* frames and ACKs may still be on their way, and where a frame of an      *)
(* earlier reply may hide.                                                 *)
(***************************************************************************)
EXTENDS Tp2Transport

\* A reply leaves two sequence numbers over: with one of them, the last frame of the
\* reply before, moved behind this one by AckByData, would have the number that
\* is expected next.
Short ==
    /\ \A k \in DOMAIN Requests : NumFrames(Requests[k]) <= SeqNums
    /\ \A k \in DOMAIN Replies : \A j \in DOMAIN Replies[k] : NumFrames(Replies[k][j]) + 2 <= SeqNums

\* How far the number a is ahead of b.
Ahead(a, b) == (a - b) % SeqNums

\* What a reassembler holds of a message of which it was fed n frames, and how many
\* those were.
Reading(p, m, n) ==
    /\ p.wire = SubSeq(Wire(m), 1, Capacity * n)
    /\ p.len = IF n = 0 THEN -1 ELSE Len(m)
Empty(p) == p.wire = <<>> /\ p.len = -1
Count(p) == Len(p.wire) \div Capacity

--------------------------------------------------------------------------------
(***************************************************************************)
(* The request under way.                                                  *)
(***************************************************************************)

Asking == pc \in {"send", "ack"}
Served == Len(peer.served) = sent

\* Frames of the request, from the number s, and how many of them the transport sent
\* and the peer took.
OutFrames(s) == SegmentMessage(Requests[sent], s, BlockSize)
OutSize == NumFrames(Requests[sent])
OutGone == OutSize - Len(call.job)
OutGot == Count(peer.in)
OutStart == Ahead(peer.in.seq, OutGot)

AskingInv ==
    /\ ~Asking => call.job = <<>>
    /\ Asking =>
        /\ sent > 0 /\ OutGone \in 0..OutSize
        /\ call.job = SubSeq(OutFrames(txSeq), OutGone + 1, OutSize)
        /\ pc = "ack" => OutGone > 0 /\ call.awaited = OutFrames(txSeq)[OutGone].seq

\* The data frames in the queue are frames from low to high of those, each once.
Carries(queue, frames, low, high) ==
    \A a \in DOMAIN queue : queue[a].kind = "data" =>
        /\ \E j \in low..high : queue[a] = frames[j]
        /\ \A b \in DOMAIN queue : queue[b].kind = "data" /\ a # b => queue[a].seq # queue[b].seq

\* The peer has the requests in their order; frames of the last one that are not
\* served yet are on their way, some lost, none twice.
ServedInv ==
    /\ Len(peer.served) \in {sent - 1, sent}
    /\ peer.served = SubSeq(Requests, 1, Len(peer.served))
    /\ Served =>
        /\ Empty(peer.in) /\ call.job = <<>>
        /\ peer.in.seq = IF Asking THEN (txSeq + OutSize) % SeqNums ELSE txSeq
        /\ Carries(toPeer, <<>>, 1, 0)
    /\ ~Served =>
        /\ OutGot < OutSize /\ OutGot <= OutGone
        /\ Reading(peer.in, Requests[sent], OutGot)
        /\ txSeq = IF Asking THEN OutStart ELSE (OutStart + OutSize) % SeqNums
        /\ Carries(toPeer, OutFrames(OutStart), OutGot + 1, OutGone)

--------------------------------------------------------------------------------
(***************************************************************************)
(* What the client was given.                                              *)
(***************************************************************************)

\* The replies to the last request that the transport has not taken yet, and what
\* the peer has begun to answer of them.
Rest ==
    IF call.due = 0 THEN <<>>
    ELSE SubSeq(Replies[sent], Len(Replies[sent]) - call.due + Len(call.held) + 1, Len(Replies[sent]))
Pending == IF Served THEN Rest ELSE <<>>

GivenInv ==
    /\ call.due = 0 <=> pc \in {"idle", "closed"}
    /\ call.due > 0 => sent > 0 /\ call.due <= Len(Replies[sent])
    /\ Len(call.held) = IF pc = "alive" THEN 1 ELSE 0
    /\ pc # "alive" => call.deferred = <<>>
    /\ ~Served => call.due = Len(Replies[sent]) /\ pc # "alive"
    /\ Asking => call.due = Len(Replies[sent])
    /\ (results \o call.held) \o Rest = Answers(sent)

--------------------------------------------------------------------------------
(***************************************************************************)
(* The reply under way.                                                    *)
(***************************************************************************)

\* The reply, its frames, how many the transport took and the peer sent, and those
\* between.
Reply == Head(Pending)
ReplySize == NumFrames(Reply)
Got == Count(part)
Gone == ReplySize - Len(peer.out)
ReplyFrames == SegmentMessage(Reply, Ahead(part.seq, Got), PeerBlock)
Unread == {ReplyFrames[j] : j \in (Got + 1)..Gone}

\* What the transport will find in its queue, deferred frames first.
Seen == call.deferred \o msgs

\* How many of them earlier replies may have left: while a request is under way, all
\* or none.
Splits == IF Asking THEN {0, Len(Seen)} ELSE 0..Len(Seen)

\* In front of the queue are k frames that earlier replies left; behind them frames of
\* the reply under way, unread or taken, and the last of the reply before.  What comes
\* is unread, in the order in which it was sent, or the frame that was taken last.
Flight(k, taken, next, unread, queue, coming) ==
    /\ k \in 0..Len(queue)
    /\ taken # 0 => k = 0
    /\ \A a \in 1..Len(queue) : a <= k /\ queue[a].kind = "data" => Ahead(next, queue[a].seq) # 0
    /\ \A a \in 1..Len(queue) : k < a /\ queue[a].kind = "data" =>
            queue[a] \in unread \/ Ahead(next, queue[a].seq) \in 1..(taken + 1)
    /\ \A b \in 1..Len(coming) : coming[b].kind = "data" =>
            coming[b] \in unread \/ Ahead(next, coming[b].seq) = 1
    /\ \A a \in 1..Len(queue), b \in 1..Len(coming) :
            k < a /\ queue[a].kind = "data" /\ queue[a] \in unread /\ coming[b].kind = "data" =>
                /\ coming[b] \in unread
                /\ Ahead(queue[a].seq, next) <= Ahead(coming[b].seq, next)
    /\ \A a, b \in 1..Len(coming) :
            a < b /\ coming[a].kind = "data" /\ coming[a] \in unread /\ coming[b].kind = "data" =>
                /\ coming[b] \in unread
                /\ Ahead(coming[a].seq, next) <= Ahead(coming[b].seq, next)

\* The ACKs in the queue are low to high numbers behind the next frame, in order.
Acks(queue, next, low, high) ==
    /\ \A a \in DOMAIN queue : queue[a].kind = "ack" => Ahead(next, queue[a].seq) \in low..high
    /\ \A a, b \in DOMAIN queue : a < b /\ queue[a].kind = "ack" /\ queue[b].kind = "ack" =>
            Ahead(next, queue[b].seq) <= Ahead(next, queue[a].seq)

\* No reply is under way.
Between ==
    /\ peer.out = <<>> /\ peer.todo = Pending
    /\ Empty(part) /\ part.seq = peer.tx
    /\ peer.await # <<>> => After(peer.await[1].seq) = peer.tx
    /\ Acks(toPeer, peer.tx, 0, IF peer.await = <<>> THEN 0 ELSE SeqNums - 2)
    /\ \E k \in Splits : Flight(k, 0, part.seq, {}, Seen, toTester)

\* The peer has sent frames of a reply that is not complete.
Sending ==
    /\ Pending # <<>> /\ peer.todo = Tail(Pending)
    /\ Gone \in 1..ReplySize /\ Got <= Gone /\ Got < ReplySize
    /\ peer.out = SubSeq(ReplyFrames, Gone + 1, ReplySize)
    /\ Reading(part, Reply, Got)
    /\ peer.tx = (part.seq + (Gone - Got)) % SeqNums
    /\ peer.await # <<>> => peer.await = <<ReplyFrames[Gone]>> /\ Asks(ReplyFrames[Gone])
    /\ Asks(ReplyFrames[Gone]) /\ Got < Gone => peer.await # <<>>
    /\ Acks(toPeer, peer.tx, Gone - Got, Gone)
    /\ \E k \in Splits : Flight(k, Got, part.seq, Unread, Seen, toTester)

Ordered == AskingInv /\ ServedInv /\ GivenInv /\ (Between \/ Sending)

\* A call that raises may leave anything behind.
IInv == ~failed => Ordered

--------------------------------------------------------------------------------
\* Frames of which the last asks for an ACK, as segment_message makes them.
LastAsks(frames) == frames # <<>> => Asks(frames[Len(frames)])

\* Types of what TypeOK leaves out.
Types ==
    /\ TypeOK
    /\ \A k \in DOMAIN peer.todo : Sendable(peer.todo[k])
    /\ LastAsks(call.job)
    /\ pc = "send" => call.job # <<>>
    /\ pc \in {"send"} \union Waits => call.due > 0
    /\ pc = "alive" => call.held # <<>>
================================================================================
