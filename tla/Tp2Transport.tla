---------------------------- MODULE Tp2Transport ----------------------------
(***************************************************************************)
(* TP2Transport of src/vag_protocols/tp2.py on an open channel, its adapter *)
(* and the peer at the other end.  The client above sends request after    *)
(* request and receives the replies to each; a call that raises does not   *)
(* keep it from the next request, as the readout's and the flasher's       *)
(* cleanup does.  The peer and the link are external: they are modelled as *)
(* the transport relies on them or survives them.                          *)
(*                                                                         *)
(* Time passes in units of one second, the extension a wait frame grants.  *)
(* With Upset a deadline passes however fast the peer is; without, only    *)
(* when nothing is on its way.                                             *)
(***************************************************************************)
EXTENDS Tp2Frames, SequencesExt, FiniteSetsExt

CONSTANTS
    Requests,      \* the payloads the client sends, in order, no two the same
    Replies,       \* for each of them the messages the peer answers with
    BlockSize,     \* frames between ACKs the peer asked for; 0: one at the end
    PeerBlock,     \* the same for the frames of the peer
    Heartbeat,     \* keepalive_after_response, the interval always elapsed
    ImplicitAck,   \* the peer may omit the ACK when its reply fits one frame
    Adversities,   \* what the link and the peer may do
    Unbounded,     \* those that may happen without end
    MaxUpsets,     \* bound on the others
    MaxRepeats,    \* bound on the repetitions of one frame by the peer
    MaxQueue       \* bound on what the adapter holds

ASSUME TransportAssumption ==
    /\ Requests \in Seq(Seq(Bytes)) /\ Replies \in Seq(Seq(Seq(Bytes)))
    /\ Len(Replies) = Len(Requests)
    /\ \A k \in DOMAIN Requests :
         /\ Sendable(Requests[k])
         /\ \A j \in DOMAIN Requests : Requests[j] = Requests[k] => j = k
         /\ Replies[k] # <<>> /\ \A j \in DOMAIN Replies[k] : Sendable(Replies[k][j])
    /\ BlockSize \in Nat /\ PeerBlock \in Nat
    /\ Heartbeat \in BOOLEAN /\ ImplicitAck \in BOOLEAN
    /\ Adversities \subseteq {"loseAck", "loseFrame", "close", "wait", "ping", "late", "adapter"}
    /\ Unbounded \subseteq Adversities
    /\ MaxUpsets \in Nat /\ MaxRepeats \in Nat /\ MaxQueue \in Nat \ {0}

VARIABLES
    pc,         \* idle, send, the wait it is in, or closed
    txSeq,      \* tx_seq
    part,       \* the reassembler; rx_seq and last_acked_rx_frame between calls
    msgs,       \* msgs, for rx_addr
    connected,
    call,       \* the locals of the call
    sent,       \* requests begun
    results,    \* the messages recv returned
    failed,     \* a call has raised
    toPeer, toTester, peer, upsets,
    spoilt      \* something went wrong beside the loss of an ACK: an event, or
                \* a data frame that was overtaken by another

tester == <<pc, txSeq, part, msgs, connected, call, sent, results, failed>>
vars == <<tester, toPeer, toTester, peer, upsets, spoilt>>

Timeout == 2        \* self.timeout, in seconds
HardTimeout == 4    \* the hard deadline: 30 s

Control(kind) == [kind |-> kind]
Waits == {"ack", "recv", "alive"}
\* A wait that reads frames for rx_addr; that for the timing ends with the first.
Listening == Waits \union {"timing"}

\* job: frames to send; awaited: the number of the last frame sent; due: replies
\* to receive; held: a result whose keepalive is not answered; deferred: data
\* frames met by send_keep_alive; left, hard: time to the deadlines.
NoCall == [job |-> <<>>, awaited |-> 0, due |-> 0, held |-> <<>>,
           deferred |-> <<>>, left |-> 0, hard |-> 0]

PeerInit == [in |-> Fresh(0, <<>>), tx |-> 0, out |-> <<>>, await |-> <<>>,
             repeats |-> 0, todo |-> <<>>, served |-> <<>>, closed |-> FALSE]

\* An open channel, or none.
InitWith(open) ==
    /\ pc = (IF open THEN "idle" ELSE "closed") /\ connected = open
    /\ txSeq = 0 /\ part = Fresh(0, <<>>) /\ msgs = <<>>
    /\ call = NoCall /\ sent = 0 /\ results = <<>> /\ failed = FALSE
    /\ toPeer = <<>> /\ toTester = <<>> /\ peer = [PeerInit EXCEPT !.closed = ~open]
    /\ upsets = 0 /\ spoilt = FALSE

Init == InitWith(TRUE)

Calm == UNCHANGED <<upsets, spoilt>>
Upset(what) ==
    /\ what \in Adversities
    /\ what \in Unbounded \/ upsets < MaxUpsets
    /\ upsets' = IF what \in Unbounded THEN upsets ELSE upsets + 1
    /\ spoilt' = (spoilt \/ what # "loseAck")

--------------------------------------------------------------------------------
(***************************************************************************)
(* The calls of the transport.                                             *)
(***************************************************************************)

\* A frame for the peer, and what the link does to it.
Send(f) == toPeer' = Append(toPeer, f)

\* A queue without its frames of a kind.
Without(queue, kind) ==
    LET kept[i \in 0..Len(queue)] ==
            IF i = 0 THEN <<>>
            ELSE IF queue[i].kind = kind THEN kept[i - 1] ELSE Append(kept[i - 1], queue[i])
    IN  kept[Len(queue)]

\* The deadlines of a wait that starts now.
Started(c) == [c EXCEPT !.left = Timeout, !.hard = HardTimeout]

\* Mutant: a wait frame restarts the deadline, and nothing limits it.
MutWaited(c) == Started(c)
\* A wait frame: a second passes, and the deadline moves by one.
Waited(c) == [c EXCEPT !.left = Min({@, c.hard - 1}), !.hard = @ - 1]
Pinged(c) == [c EXCEPT !.left = @ - 1, !.hard = @ - 1]

\* send: ACKs left from earlier calls are dropped, then the frames follow.
Begin ==
    /\ pc = "idle" /\ sent < Len(Requests)
    /\ sent' = sent + 1
    /\ msgs' = Without(msgs, "ack")
    /\ call' = [NoCall EXCEPT !.job = SegmentMessage(Requests[sent + 1], txSeq, BlockSize),
                              !.due = Len(Replies[sent + 1])]
    /\ pc' = "send"
    /\ Calm /\ UNCHANGED <<txSeq, part, connected, results, failed, toPeer, toTester, peer>>

Transmit ==
    /\ pc = "send"
    /\ LET f == Head(call.job) IN
        /\ Send(f)
        /\ call' = [Started(call) EXCEPT !.job = Tail(@), !.awaited = f.seq]
        /\ pc' = IF Asks(f) THEN "ack" ELSE "send"
    /\ Calm
    /\ UNCHANGED <<txSeq, part, msgs, connected, sent, results, failed, toTester, peer>>

\* can_recv: the queue is empty, and the adapter hands over a batch; answers to
\* a channel setup have another address.
Pull ==
    /\ pc \in Listening /\ call.left > 0 /\ msgs = <<>> /\ toTester # <<>>
    /\ \E n \in 1..Len(toTester) :
        /\ msgs' = Without(SubSeq(toTester, 1, n), "setup")
        /\ toTester' = SubSeq(toTester, n + 1, Len(toTester))
    /\ Calm
    /\ UNCHANGED <<pc, txSeq, part, connected, call, sent, results, failed, toPeer, peer>>

\* The call raises; send_keep_alive puts back what it deferred, in front, and
\* the partial message of recv is gone.  rest is what stays in the queue.
Raise(rest) ==
    /\ pc' = "idle" /\ failed' = TRUE /\ call' = NoCall
    /\ msgs' = call.deferred \o rest
    /\ part' = Fresh(part.seq, part.acked)
    /\ UNCHANGED <<txSeq, sent, results>>

\* The oldest frame in the queue, of kind k, is taken.
Meets(stage, k) ==
    /\ pc = stage /\ call.left > 0
    /\ msgs # <<>> /\ Head(msgs).kind = k
    /\ UNCHANGED <<toTester, peer>>
Takes(stage, k) == Meets(stage, k) /\ Calm

\* Every wait: a wait frame extends the deadline, a ping is answered, A8 ends
\* the call, and what does not fit is dropped.
WaitFrame == \E stage \in Waits :
    /\ Takes(stage, "wait")
    /\ msgs' = Tail(msgs) /\ call' = Waited(call)
    /\ UNCHANGED <<pc, txSeq, part, connected, sent, results, failed, toPeer>>

Ping == \E stage \in Waits :
    /\ Takes(stage, "ping")
    /\ msgs' = Tail(msgs) /\ call' = Pinged(call) /\ Send(Control("pong"))
    /\ UNCHANGED <<pc, txSeq, part, connected, sent, results, failed>>

Closed == \E stage \in Waits :
    /\ Takes(stage, "close")
    /\ connected' = FALSE /\ Raise(Tail(msgs))
    /\ UNCHANGED toPeer

Ignored ==
    /\ \/ Takes("ack", "pong")
       \/ Takes("ack", "ack") /\ Head(msgs).seq # After(call.awaited)
       \/ Takes("recv", "pong")
       \/ Takes("recv", "ack")
       \/ Takes("alive", "ack")
    /\ msgs' = Tail(msgs)
    /\ UNCHANGED <<pc, txSeq, part, connected, call, sent, results, failed, toPeer>>

--------------------------------------------------------------------------------
(***************************************************************************)
(* wait_for_ack, recv and send_keep_alive.                                 *)
(***************************************************************************)

\* Mutant: the sequence number of the next request is not moved.
MutAcknowledged ==
    /\ pc' = IF call.job = <<>> THEN "recv" ELSE "send"
    /\ call' = Started(call)
    /\ UNCHANGED <<txSeq, part, connected, sent, results, failed, toPeer>>
\* The wait for an ACK is over: the frames that are left follow; behind the last
\* of them the transport counts them as sent, and the client receives.
Acknowledged ==
    /\ pc' = IF call.job = <<>> THEN "recv" ELSE "send"
    /\ txSeq' = IF call.job = <<>> THEN After(call.awaited) ELSE txSeq
    /\ call' = Started(call)
    /\ UNCHANGED <<part, connected, sent, results, failed, toPeer>>

AckArrives ==
    /\ Takes("ack", "ack") /\ Head(msgs).seq = After(call.awaited)
    /\ msgs' = Tail(msgs)
    /\ Acknowledged

\* A data frame stands for the ACK, and waits at the end of the queue: whatever data
\* frame arrived together with it overtakes it.
Overtaken == \E f \in Range(Tail(msgs)) : f.kind = "data" /\ f # Head(msgs)
AckByData ==
    /\ Meets("ack", "data")
    /\ msgs' = Append(Tail(msgs), Head(msgs))
    /\ spoilt' = (spoilt \/ Overtaken) /\ UNCHANGED upsets
    /\ Acknowledged

\* The client has the reply; it receives the next, or is done.
Returned(message, rest) ==
    /\ results' = Append(results, message)
    /\ msgs' = rest
    /\ pc' = IF call.due = 1 THEN "idle" ELSE "recv"
    /\ call' = IF call.due = 1 THEN NoCall
               ELSE Started([call EXCEPT !.due = @ - 1, !.held = <<>>, !.deferred = <<>>])

\* A data frame in recv: an error of the reassembler raises; otherwise the frame
\* is acknowledged where it asks for it, and the message it ends is returned,
\* behind a keepalive when there is one to send.
RecvData ==
    /\ Takes("recv", "data")
    /\ LET f == Head(msgs)
           whole == Delivered(part, f)
           answer == IF Asks(f) THEN <<Ack(f.seq)>> ELSE <<>>
       IN  \/ /\ Wrong(part, f)
              /\ Raise(Tail(msgs))
              /\ UNCHANGED toPeer
           \/ /\ ~Wrong(part, f) /\ whole = <<>>
              /\ part' = Fed(part, f) /\ toPeer' = toPeer \o answer
              /\ msgs' = Tail(msgs)
              /\ UNCHANGED <<pc, txSeq, call, sent, results, failed>>
           \/ /\ ~Wrong(part, f) /\ whole # <<>> /\ ~Heartbeat
              /\ part' = Fed(part, f) /\ toPeer' = toPeer \o answer
              /\ Returned(whole[1], Tail(msgs))
              /\ UNCHANGED <<txSeq, sent, failed>>
           \/ /\ ~Wrong(part, f) /\ whole # <<>> /\ Heartbeat
              /\ part' = Fed(part, f) /\ toPeer' = toPeer \o answer \o <<Control("ping")>>
              /\ msgs' = Tail(msgs) /\ pc' = "alive"
              /\ call' = [Started(call) EXCEPT !.held = whole]
              /\ UNCHANGED <<txSeq, sent, results, failed>>
    /\ UNCHANGED connected

\* Mutant: what the keepalive deferred follows what arrived later.
MutPutBack(deferred, rest) == rest \o deferred
PutBack(deferred, rest) == deferred \o rest

Alive ==
    /\ Takes("alive", "pong")
    /\ Returned(call.held[1], PutBack(call.deferred, Tail(msgs)))
    /\ UNCHANGED <<txSeq, part, connected, sent, failed, toPeer>>

Defer ==
    /\ Takes("alive", "data")
    /\ msgs' = Tail(msgs)
    /\ call' = [call EXCEPT !.deferred = Append(@, Head(msgs))]
    /\ UNCHANGED <<pc, txSeq, part, connected, sent, results, failed, toPeer>>

\* Nothing can reach the tester but what the peer does on its own.
Silent ==
    /\ toTester = <<>>
    /\ Control("setup") \notin Range(toPeer) /\ (toPeer = <<>> \/ peer.closed)
    /\ peer.closed \/ (peer.await # <<>> /\ peer.repeats = MaxRepeats)
                   \/ (peer.await = <<>> /\ peer.out = <<>> /\ peer.todo = <<>>)

\* The deadline passes, in the loop or in can_recv.
TimeOut ==
    /\ pc \in Waits
    /\ \/ call.left = 0 /\ Calm
       \/ call.left > 0 /\ msgs = <<>> /\ Silent /\ Calm
       \/ call.left > 0 /\ msgs = <<>> /\ toTester = <<>> /\ Upset("late")
    /\ Raise(msgs)
    /\ UNCHANGED <<connected, toPeer, toTester, peer>>

Disconnect ==
    /\ pc = "idle" /\ (failed \/ sent = Len(Requests))
    /\ Send(Control("close"))
    /\ connected' = FALSE /\ pc' = "closed"
    /\ Calm
    /\ UNCHANGED <<txSeq, part, msgs, call, sent, results, failed, toTester, peer>>

Tester ==
    \/ Begin \/ Transmit \/ Pull
    \/ WaitFrame \/ Ping \/ Closed \/ Ignored
    \/ AckArrives \/ AckByData \/ RecvData \/ Alive \/ Defer
    \/ TimeOut \/ Disconnect

--------------------------------------------------------------------------------
(***************************************************************************)
(* The peer and the link (external).                                       *)
(***************************************************************************)

Room == Len(toTester) < MaxQueue
ToTester(frames) == toTester' = toTester \o frames
PeerTakes(k) ==
    /\ ~peer.closed /\ Room
    /\ toPeer # <<>> /\ Head(toPeer).kind = k
    /\ toPeer' = Tail(toPeer)
    /\ UNCHANGED tester

\* A data frame: one that is wrong is dropped, any other is acknowledged where
\* it asks for it, and the request it ends is served.
PeerData ==
    /\ PeerTakes("data") /\ Calm
    /\ LET f == Head(toPeer)
           whole == Delivered(peer.in, f)
           replies == IF whole # <<>> /\ whole[1] \in Range(Requests)
                        THEN Replies[CHOOSE k \in DOMAIN Requests : Requests[k] = whole[1]]
                        ELSE <<>>
           idle == peer.out = <<>> /\ peer.await = <<>> /\ peer.todo = <<>>
           omit == ImplicitAck /\ idle /\ replies # <<>> /\ NumFrames(replies[1]) = 1
       IN  \/ /\ Wrong(peer.in, f)
              /\ UNCHANGED <<peer, toTester>>
           \/ /\ ~Wrong(peer.in, f)
              /\ peer' = [peer EXCEPT !.in = Fed(@, f), !.todo = @ \o replies,
                                      !.served = @ \o whole]
              /\ \/ ToTester(IF Asks(f) THEN <<Ack(f.seq)>> ELSE <<>>)
                 \/ omit /\ UNCHANGED toTester

PeerAcked ==
    /\ PeerTakes("ack") /\ Calm
    /\ peer' = IF peer.await # <<>> /\ Head(toPeer).seq = After(peer.await[1].seq)
                 THEN [peer EXCEPT !.await = <<>>, !.repeats = 0] ELSE peer
    /\ UNCHANGED toTester

PeerPinged ==
    /\ PeerTakes("ping") /\ Calm
    /\ ToTester(<<Control("pong")>>)
    /\ UNCHANGED peer

PeerPonged == PeerTakes("pong") /\ Calm /\ UNCHANGED <<peer, toTester>>

PeerClosed ==
    /\ PeerTakes("close") /\ Calm
    /\ peer' = [peer EXCEPT !.closed = TRUE]
    /\ UNCHANGED toTester

\* The next frame of a reply.
PeerSends ==
    /\ ~peer.closed /\ Room /\ peer.await = <<>>
    /\ peer.out # <<>> \/ peer.todo # <<>>
    /\ LET out == IF peer.out # <<>> THEN peer.out
                  ELSE SegmentMessage(Head(peer.todo), peer.tx, PeerBlock)
           f == Head(out)
       IN  /\ ToTester(<<f>>)
           /\ peer' = [peer EXCEPT !.out = Tail(out), !.tx = After(f.seq),
                                   !.todo = IF peer.out # <<>> THEN @ ELSE Tail(@),
                                   !.await = IF Asks(f) THEN <<f>> ELSE <<>>]
    /\ Calm /\ UNCHANGED <<tester, toPeer>>

\* The frame that awaits its ACK once more.
PeerRepeats ==
    /\ ~peer.closed /\ Room /\ peer.await # <<>> /\ peer.repeats < MaxRepeats
    /\ ToTester(peer.await)
    /\ peer' = [peer EXCEPT !.repeats = @ + 1]
    /\ Calm /\ UNCHANGED <<tester, toPeer>>

\* The peer asks for time, or whether the tester is there; one that does so without
\* end asks again when it was heard.
PeerAsks == \E k \in {"wait", "ping"} :
    /\ ~peer.closed /\ Room /\ pc \in Listening
    /\ k \in Unbounded => toTester = <<>> /\ msgs = <<>> /\ toPeer = <<>>
    /\ ToTester(<<Control(k)>>)
    /\ Upset(k) /\ UNCHANGED <<tester, toPeer, peer>>

\* The gateway tears the channel down.
PeerCloses ==
    /\ ~peer.closed /\ Room /\ Upset("close")
    /\ ToTester(<<Control("close")>>)
    /\ peer' = [peer EXCEPT !.closed = TRUE]
    /\ UNCHANGED <<tester, toPeer>>

\* What a closed channel is sent goes nowhere.
Unheard ==
    /\ peer.closed /\ toPeer # <<>> /\ Head(toPeer).kind # "setup"
    /\ toPeer' = Tail(toPeer)
    /\ Calm /\ UNCHANGED <<tester, toTester, peer>>

LoseToPeer ==
    /\ toPeer # <<>>
    /\ Upset(IF Head(toPeer).kind = "ack" THEN "loseAck" ELSE "loseFrame")
    /\ toPeer' = Tail(toPeer)
    /\ UNCHANGED <<tester, toTester, peer>>

LoseToTester ==
    /\ toTester # <<>> /\ Upset("loseFrame")
    /\ toTester' = Tail(toTester)
    /\ UNCHANGED <<tester, toPeer, peer>>

\* What the peer does in its time, and what befalls it and the link.
Answering ==
    \/ PeerData \/ PeerAcked \/ PeerPinged \/ PeerPonged \/ PeerClosed
    \/ PeerSends \/ PeerRepeats \/ Unheard
Befalling == PeerAsks \/ PeerCloses \/ LoseToPeer \/ LoseToTester

Peer == Answering \/ Befalling

Next == Tester \/ Peer

Spec == Init /\ [][Next]_vars

--------------------------------------------------------------------------------
(***************************************************************************)
(* Properties.                                                             *)
(***************************************************************************)

Frames == [kind : {"data"}, op : 0..2, seq : Seqs, data : Seq(Bytes)]
Wireable == Frames \union [kind : {"ack"}, seq : Seqs]
                  \union [kind : {"wait", "ping", "pong", "close", "setup", "timing"}]
AtMostOne(S) == {s \in Seq(S) : Len(s) <= 1}
Reassembler == [seq : Seqs, acked : AtMostOne(Frames), wire : Seq(Bytes), len : Int]
Call == [job : Seq(Frames), awaited : Seqs, due : Nat, held : AtMostOne(Seq(Bytes)),
         deferred : Seq(Frames), left : 0..Timeout, hard : 0..HardTimeout]
Other == [in : Reassembler, tx : Seqs, out : Seq(Frames), await : AtMostOne(Frames),
          repeats : 0..MaxRepeats, todo : Seq(Seq(Bytes)), served : Seq(Seq(Bytes)),
          closed : BOOLEAN]

TypeOK ==
    /\ pc \in {"idle", "send", "closed", "setup", "over"} \union Listening
    /\ txSeq \in Seqs /\ part \in Reassembler
    /\ msgs \in Seq(Wireable) /\ toPeer \in Seq(Wireable) /\ toTester \in Seq(Wireable)
    /\ connected \in BOOLEAN /\ failed \in BOOLEAN /\ spoilt \in BOOLEAN
    /\ call \in Call /\ call.left <= call.hard
    /\ sent \in 0..Len(Requests) /\ results \in Seq(Seq(Bytes))
    /\ peer \in Other /\ upsets \in 0..MaxUpsets

\* Everything the peer answers to the first n requests.
Answers(n) == FlattenSeq(SubSeq(Replies, 1, n))

\* While no call has raised, the peer was handed the client's requests and the
\* client the peer's messages, whole, once and in order: neither repetitions nor
\* lost ACKs, nor frames met in the wrong wait, show (126-157, 341-343).  Replies leave
\* two sequence numbers over: the run tp2_repetition shows what becomes of one that
\* takes them all, and behind one that leaves a single number a reply of one frame that
\* was put behind it is returned once more, for the next request.
InOrder ==
    ~failed => /\ IsPrefix(results, Answers(sent))
               /\ IsPrefix(peer.served, SubSeq(Requests, 1, sent))

\* Between calls that did not raise both ends agree on both sequence numbers, and
\* the replies are complete.
InSync ==
    pc = "idle" /\ ~failed => /\ txSeq = peer.in.seq /\ part.seq = peer.tx
                              /\ results = Answers(sent)

Link == INSTANCE MessageLink WITH served <- peer.served, broken <- failed

\* Until a call raises the transport hands over the requests and their replies one by
\* one, a reply never before its request was served (tp2.py:346-405).
LinkUntilRaise == Link!Init /\ [][failed \/ Link!Next]_(Link!linkVars)

\* And whichever calls raised and whatever was lost, the messages that are handed over
\* are those of the other end, each once and in their order.  The code owes that to
\* the requests the client sends behind a failure, which fit one frame each, and to
\* replies whose later frames are no message of their own: the reassemblers keep the
\* number of a message that was broken off, and take what follows for its rest, or
\* its rest for what follows.
ImplementsLink == Link!Spec

\* src/vag_protocols/README.md gives TP2 its retransmission handling: while
\* the only trouble is ACKs of the tester that get lost, in all no more of them than the
\* peer repeats one frame, and frames of the peer that come again, no call raises, unless
\* one of these came in one batch with the next and went to the end of the queue (342).
RetransmissionHandled == MaxUpsets <= MaxRepeats /\ "loseAck" \notin Unbounded /\ failed => spoilt
================================================================================
