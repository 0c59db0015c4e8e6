------------------------------ MODULE Tp2Reading ------------------------------
(***************************************************************************)
(* The inductive invariant of Tp2Transport while the only trouble is lost  *)
(* ACKs and repetitions, for messages of any length: what each end will    *)
(* have read behind the frames that are on their way is what the other     *)
(* has sent, and for each repetition of a frame that is still awaited a    *)
(* copy, an ACK or a loss is at hand.                                      *)
(***************************************************************************)
EXTENDS Tp2TransportInv

\* Where a sequence leads: each element takes a state to the next.
Folded(step, first, queue) ==
    LET at[i \in 0..Len(queue)] == IF i = 0 THEN first ELSE step[<<at[i - 1], queue[i]>>]
    IN  at[Len(queue)]

\* An end that reads: its reassembler, the messages it was handed, and whether a frame
\* was wrong.
Readers == [at : Reassembler, got : Seq(Seq(Bytes)), wrong : BOOLEAN]
Taken(reader, f) ==
    IF f.kind = "data"
      THEN [at    |-> Fed(reader.at, f),
            got   |-> reader.got \o Delivered(reader.at, f),
            wrong |-> reader.wrong \/ Wrong(reader.at, f)]
      ELSE reader
Takings == [c \in Readers \X Wireable |-> Taken(c[1], c[2])]
Behind(reader, queue) == Folded(Takings, reader, queue)

\* How often x is in a queue.
Counts(x) == [c \in Nat \X Wireable |-> IF c[2] = x THEN c[1] + 1 ELSE c[1]]
Times(x, queue) == Folded(Counts(x), 0, queue)

\* Both ends behind all that is on its way to them.
PeerNow == [at |-> peer.in, got |-> peer.served, wrong |-> FALSE]
PeerThen == Behind(PeerNow, toPeer)
ClientNow == [at |-> part, got |-> results \o call.held, wrong |-> FALSE]
ClientThen == Behind(ClientNow, Seen \o toTester)

\* No frame is on its way that only trouble sends, and no time has passed.
Undisturbed ==
    /\ pc \in {"idle", "send"} \union Waits
    /\ pc \in Waits => call.left = Timeout
    /\ ~peer.closed
    /\ \A a \in DOMAIN msgs : msgs[a].kind \in {"data", "ack", "pong"}
    /\ \A a \in DOMAIN toTester : toTester[a].kind \in {"data", "ack", "pong"}
    /\ \A a \in DOMAIN toPeer : toPeer[a].kind \in {"data", "ack", "ping"}

\* What is left of the call.
DueInv ==
    /\ call.due = 0 <=> pc = "idle"
    /\ call.due > 0 => sent > 0
    /\ Len(call.held) = IF pc = "alive" THEN 1 ELSE 0
    /\ pc # "alive" => call.deferred = <<>>
    /\ Asking => call.due = Len(Replies[sent])
    /\ Len(results) + call.due = Len(Answers(sent))
    /\ ~Asking => call.job = <<>>

\* The peer will have read the requests, the last one as far as it was sent.
RequestsInv ==
    /\ ~PeerThen.wrong
    /\ call.job = <<>> =>
        /\ PeerThen.got = SubSeq(Requests, 1, sent) /\ Empty(PeerThen.at)
        /\ PeerThen.at.seq = IF pc = "ack" THEN After(call.awaited) ELSE txSeq
    /\ call.job # <<>> =>
        /\ sent > 0 /\ OutGone \in 0..OutSize
        /\ call.job = SubSeq(OutFrames(txSeq), OutGone + 1, OutSize)
        /\ PeerThen.got = SubSeq(Requests, 1, sent - 1)
        /\ Reading(PeerThen.at, Requests[sent], OutGone)
        /\ PeerThen.at.seq = (txSeq + OutGone) % SeqNums

\* The peer is between two replies, or in one, m, whose frames began at the number s.
Resting(p, given) ==
    /\ peer.out = <<>> /\ Empty(p)
    /\ given \o peer.todo = Answers(Len(peer.served))
Replying(p, given, m, s) ==
    LET n == NumFrames(m) - Len(peer.out) IN
    /\ peer.out # <<>> /\ n \in 0..NumFrames(m)
    /\ peer.out = SubSeq(SegmentMessage(m, s, PeerBlock), n + 1, NumFrames(m))
    /\ Reading(p, m, n) /\ peer.tx = (s + n) % SeqNums
    /\ Append(given, m) \o peer.todo = Answers(Len(peer.served))

\* The client will have read the replies to what the peer has served, the last one as
\* far as it was sent, and as the last frame that asked for an ACK the one that awaits it.
RepliesInv ==
    /\ ~ClientThen.wrong /\ ClientThen.at.seq = peer.tx
    /\ \/ Resting(ClientThen.at, ClientThen.got)
       \/ \E m \in Range(Answers(Len(peer.served))), s \in Seqs :
            Replying(ClientThen.at, ClientThen.got, m, s)
    /\ peer.await # <<>> => /\ ClientThen.at.acked = peer.await /\ Asks(peer.await[1])
                            /\ After(peer.await[1].seq) = peer.tx

\* Of the frame that awaits its ACK each copy is on its way, or its ACK is, or was lost.
CopiesInv ==
    /\ peer.await = <<>> => peer.repeats = 0
    /\ peer.await # <<>> /\ "loseAck" \notin Unbounded =>
        upsets + Times(peer.await[1], Seen \o toTester) + Times(Ack(peer.await[1].seq), toPeer)
            >= peer.repeats + 1

\* What the transport waits for will come: the ACK, or its frame will be read, or the
\* request is served, and the reply stands for the ACK; the answer to its ping.
ComingInv ==
    /\ pc = "ack" =>
        \/ \E a \in DOMAIN toPeer :
             toPeer[a].kind = "data" /\ Asks(toPeer[a]) /\ toPeer[a].seq = call.awaited
        \/ \E a \in DOMAIN (msgs \o toTester) : (msgs \o toTester)[a] = Ack(call.awaited)
        \/ Served
    /\ pc = "alive" =>
        \/ \E a \in DOMAIN toPeer : toPeer[a].kind = "ping"
        \/ \E a \in DOMAIN (msgs \o toTester) : (msgs \o toTester)[a].kind = "pong"

Exact == Undisturbed /\ DueInv /\ RequestsInv /\ RepliesInv /\ CopiesInv /\ ComingInv

\* Once the channel is left no call can raise.
ExactInv == ~spoilt /\ ~failed /\ pc # "closed" => Exact
================================================================================
