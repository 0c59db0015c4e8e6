---------------------------- MODULE Tp2ChannelInv ----------------------------
(***************************************************************************)
(* The inductive invariant for Released of Tp2Channel: which frames of an  *)
(* earlier attempt or channel may still be on their way while the next is  *)
(* opened and used.                                                        *)
(***************************************************************************)
EXTENDS Tp2Channel

Running == pc \in {"idle", "send"} \union Waits

\* A call is under way, or one can follow.
Calling == pc \in {"send"} \union Waits \/ (pc = "idle" /\ sent < Len(Requests))

\* Few enough failures that one more leaves the premise FewFailed.
Tame == failures <= IF intercept THEN 0 ELSE 1

\* A frame x in the queue has a frame y somewhere behind it.
Precedes(queue, x, y) == \E i, j \in 1..Len(queue) : i < j /\ queue[i] = x /\ queue[j] = y

NoSetup == ~Contains(toPeer, Control("setup"))
NoAnswer == ~Contains(toTester, Control("setup"))

\* What the peer answers with an A1.
NoQuery == ~Contains(toPeer, Control("ping")) /\ ~Contains(toPeer, Control("timing"))
Unasked == NoQuery /\ ~Contains(toTester, Control("pong"))

\* One setup is on its way to the peer, behind everything else, or its answer is on its
\* way back, and an A8 behind that is the last word of the peer; or both were lost.
OneSetup ==
    /\ \A k \in {"ping", "timing", "setup"} : ~Precedes(toPeer, Control("setup"), Control(k))
    /\ NoSetup \/ NoAnswer
    /\ NoQuery \/ NoAnswer
    /\ \A k \in {"pong", "setup"} : ~Precedes(toTester, Control("setup"), Control(k))
    /\ Precedes(toTester, Control("setup"), Control("close")) => peer.closed

\* There is an A8 in the queue that no setup follows.
Closes(queue) == \E i \in 1..Len(queue) :
    queue[i] = Control("close") /\ \A j \in 1..Len(queue) : j > i => queue[j] # Control("setup")

\* The channel is closed at the peer, or will be when it has read on.
Ending == (peer.closed /\ NoSetup) \/ Closes(toPeer)

ChanTypes ==
    /\ intercept \in BOOLEAN /\ addressed \in BOOLEAN /\ closeLost \in BOOLEAN
    /\ probes \in Nat /\ failures \in 0..Few

FailedInv ==
    /\ failed => failures > 0
    /\ pc \in {"setup", "timing"} => ~failed
    /\ Running /\ ~connected => failed

AddressInv ==
    /\ pc = "setup" => ~addressed /\ msgs = <<>>
    /\ probes > 0 => intercept

\* What was left when the channel was given up, in the attempt that did not get the
\* addresses or the one that did.
ClosedInv ==
    pc = "closed" /\ Tame /\ sent < Len(Requests) =>
        /\ failures = 0 => Unasked /\ NoSetup /\ NoAnswer
        /\ Unasked \/ (NoSetup /\ NoAnswer)

SetupInv ==
    pc = "setup" /\ Tame /\ sent < Len(Requests) =>
        /\ failures = 0 => Unasked /\ (intercept \/ OneSetup)
        /\ Unasked \/ (~intercept /\ OneSetup)

\* An A1 answers the timing of this attempt, behind every setup: an A8 behind it is
\* from the channel at hand.
TimingInv ==
    pc = "timing" /\ Tame /\ sent < Len(Requests) =>
        /\ failures = 0 /\ ~intercept => NoSetup /\ NoAnswer
        /\ ~Contains(toPeer, Control("ping"))
        /\ ~Precedes(toPeer, Control("timing"), Control("setup"))
        /\ Contains(msgs \o toTester, Control("pong")) => NoSetup
        /\ Precedes(msgs \o toTester, Control("pong"), Control("close")) => peer.closed

CallInv ==
    Calling /\ Tame =>
        /\ NoSetup
        /\ Contains(msgs, Control("close")) \/ Contains(toTester, Control("close")) => peer.closed
        /\ ~intercept /\ (failures = 0 \/ failed) => NoAnswer

\* A channel whose end the client was told has ended.
EndedInv == Running /\ ~connected /\ FewFailed => peer.closed /\ NoSetup

ReleasedInv ==
    pc \in {"closed", "over"} /\ addressed /\ FewFailed /\ ~closeLost => Ending

ChannelInv ==
    /\ ChanTypes /\ FailedInv /\ AddressInv /\ ClosedInv /\ SetupInv /\ TimingInv /\ CallInv
    /\ EndedInv /\ ReleasedInv
================================================================================
