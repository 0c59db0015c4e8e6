------------------------------ MODULE Tp2Channel ------------------------------
(***************************************************************************)
(* The life of TP2 channels: the constructor of TP2Transport with           *)
(* open_channel or intercept_channel, driven by reconnect_tp and           *)
(* _disconnect of src/haldex_flasher.py, around the calls of Tp2Transport. *)
(* Whenever a channel is given up the client opens another over the same   *)
(* adapter and peer, which hold what the last one left.                    *)
(*                                                                         *)
(* Every channel gets the same addresses, as the gateway assigns them: a   *)
(* frame of an earlier channel looks like one of this.                     *)
(***************************************************************************)
EXTENDS Tp2Transport

CONSTANTS
    Tries,        \* reconnect_tp(tries)
    MaxOpens,     \* bound on the channels opened
    MaxProbes     \* bound on the setups repeated by intercept_channel

ASSUME ChannelAssumption == Tries \in Nat \ {0} /\ MaxOpens \in Nat /\ MaxProbes \in Nat

VARIABLES
    tries,      \* attempts left in reconnect_tp
    opens,      \* channels opened
    intercept,  \* the constructors' argument, the same for all
    probes,     \* setups that intercept_channel may still repeat
    addressed,  \* tx_addr of the transport at hand is known
    failures,   \* history: constructors and calls that raised, up to Few
    closeLost   \* history: the link lost an A8

chan == <<tries, opens, intercept, probes, addressed>>
channelVars == <<vars, chan, failures, closeLost>>

Few == 3

ChannelInit ==
    /\ InitWith(FALSE)
    /\ tries = Tries /\ opens = 0 /\ intercept \in BOOLEAN /\ probes = 0 /\ addressed = FALSE
    /\ failures = 0 /\ closeLost = FALSE

Untouched == UNCHANGED <<sent, results, peer, intercept>>

--------------------------------------------------------------------------------
\* Mutant: a constructor that raises leaves the channel as it is.
MutClosing == toPeer
\* disconnect sends an A8 once an address is known.
Closing == IF addressed THEN Append(toPeer, Control("close")) ELSE toPeer

\* The constructor raises.
AttemptFails ==
    /\ pc' = IF tries = 0 THEN "over" ELSE "closed"
    /\ toPeer' = Closing
    /\ connected' = FALSE /\ call' = NoCall /\ failed' = TRUE
    /\ UNCHANGED <<txSeq, part, tries, opens, probes, addressed>>

\* Mutant: the numbers go on where the last channel left them.
MutRenumbered == UNCHANGED <<txSeq, part>>
\* A new transport, and _apply_parameters.
Renumbered == txSeq' = 0 /\ part' = Fresh(0, <<>>)

\* can_clear drops what has arrived, and a new transport sends the setup.
Open == \E n \in 0..Len(toTester) :
    /\ pc = "closed" /\ tries > 0 /\ opens < MaxOpens
    /\ toTester' = SubSeq(toTester, n + 1, Len(toTester))
    /\ Send(Control("setup"))
    /\ pc' = "setup" /\ Renumbered /\ msgs' = <<>>
    /\ connected' = FALSE /\ call' = Started(NoCall) /\ failed' = FALSE
    /\ tries' = tries - 1 /\ addressed' = FALSE
    /\ probes' = IF intercept THEN MaxProbes ELSE 0
    /\ Calm /\ Untouched /\ UNCHANGED opens

ClearFails ==
    /\ pc = "closed" /\ tries > 0 /\ opens < MaxOpens
    /\ Upset("adapter")
    /\ tries' = tries - 1 /\ pc' = IF tries = 1 THEN "over" ELSE "closed"
    /\ UNCHANGED <<txSeq, part, msgs, connected, call, sent, results, failed,
                   toPeer, toTester, peer, opens, intercept, probes, addressed>>

\* intercept_channel sends the setup every 10 ms.
Probe ==
    /\ pc = "setup" /\ probes > 0
    /\ probes' = probes - 1 /\ Send(Control("setup"))
    /\ Calm /\ Untouched
    /\ UNCHANGED <<pc, txSeq, part, msgs, connected, call, failed, toTester,
                   tries, opens, addressed>>

Answered(batch) == Control("setup") \in Range(batch)

\* A batch with a D0 in it gives the addresses, whichever setup it answers, and
\* the timing is asked for; any other batch is thrown away.
SetupReceives == \E n \in 1..Len(toTester) :
    /\ pc = "setup"
    /\ toTester' = SubSeq(toTester, n + 1, Len(toTester))
    /\ IF Answered(SubSeq(toTester, 1, n))
         THEN pc' = "timing" /\ addressed' = TRUE /\ Send(Control("timing"))
         ELSE UNCHANGED <<pc, addressed, toPeer>>
    /\ Calm /\ Untouched
    /\ UNCHANGED <<txSeq, part, msgs, connected, call, failed, tries, opens, probes>>

\* The first frame on rx_addr must be the A1 with the timing.
Timing ==
    /\ pc = "timing" /\ msgs # <<>> /\ msgs' = Tail(msgs)
    /\ \/ /\ Head(msgs).kind = "pong"
          /\ Renumbered
          /\ connected' = TRUE /\ pc' = "idle" /\ call' = NoCall
          /\ opens' = opens + 1 /\ tries' = Tries
          /\ UNCHANGED <<failed, toPeer, probes, addressed>>
       \/ Head(msgs).kind # "pong" /\ AttemptFails
    /\ Calm /\ Untouched /\ UNCHANGED toTester

SetupTimesOut ==
    /\ pc \in {"setup", "timing"} /\ msgs = <<>>
    /\ \/ Silent /\ Calm
       \/ toTester = <<>> /\ Upset("late")
    /\ AttemptFails
    /\ Untouched /\ UNCHANGED <<msgs, toTester>>

\* _routine_done drops a transport whose channel was closed, without an A8.
Abandon ==
    /\ pc = "idle" /\ ~connected
    /\ pc' = "closed"
    /\ Calm /\ Untouched
    /\ UNCHANGED <<txSeq, part, msgs, connected, call, failed, toPeer, toTester,
                   tries, opens, probes, addressed>>

Opening == Open \/ ClearFails \/ Probe \/ SetupReceives \/ Timing \/ SetupTimesOut \/ Abandon

--------------------------------------------------------------------------------
\* The peer (external): a setup begins a channel of its own.
PeerOpens ==
    /\ Room /\ toPeer # <<>> /\ Head(toPeer).kind = "setup"
    /\ toPeer' = Tail(toPeer)
    /\ ToTester(<<Control("setup")>>)
    /\ peer' = [PeerInit EXCEPT !.served = peer.served]
    /\ Calm /\ UNCHANGED <<tester, chan>>

PeerTimed ==
    /\ PeerTakes("timing") /\ Calm
    /\ ToTester(<<Control("pong")>>)
    /\ UNCHANGED <<peer, chan>>

Raises ==
    /\ pc \in {"setup"} \union Listening /\ pc' \in {"idle", "closed", "over"}
    /\ failed' /\ results' = results

LosesClose == LoseToPeer /\ Head(toPeer).kind = "close"

Client == Opening \/ (Tester /\ UNCHANGED chan)
Server == PeerOpens \/ PeerTimed \/ (Answering /\ UNCHANGED chan)

ChannelNext ==
    /\ Client \/ Server \/ (Befalling /\ UNCHANGED chan)
    /\ failures' = IF Raises THEN Min({failures + 1, Few}) ELSE failures
    /\ closeLost' = (closeLost \/ LosesClose)

ChannelSpec == ChannelInit /\ [][ChannelNext]_channelVars
\* The tester's thread runs, and its clock; a peer that does not answer in time is
\* an adverse event.
FairSpec ==
    /\ ChannelSpec
    /\ WF_channelVars(Client /\ ChannelNext)
    /\ WF_channelVars(Server /\ ChannelNext)

--------------------------------------------------------------------------------
(***************************************************************************)
(* Properties.                                                             *)
(***************************************************************************)

\* The premise of the next two is a limit of the code: when three attempts or calls
\* fail, or two where the setup is repeated, their late answers, the D0 among
\* them, can put the client on a channel that the peer is about to replace.
FewFailed == failures <= IF intercept THEN 1 ELSE 2

\* Between calls that did not raise both ends agree on both sequence numbers on every
\* channel, whatever the one before left on its way (tp2.py:250-259, 267-290): a
\* D0 that answers an earlier attempt is taken, and does no harm.
SyncedAgain ==
    pc = "idle" /\ ~failed /\ FewFailed /\ Control("setup") \notin Range(toPeer) =>
        txSeq = peer.in.seq /\ part.seq = peer.tx

\* A constructor that raises closes the channel whose addresses it was given
\* (tp2.py:193-202), and so does the client with one it is done with, unless an A8
\* has told it that the gateway closed it (haldex_flasher.py:168-172): no channel
\* is left open, but where an A8 is lost.
Released ==
    pc \in {"closed", "over"} /\ addressed /\ FewFailed /\ toPeer = <<>> /\ ~closeLost =>
        peer.closed

\* Over all the channels that are opened one after the other the messages handed over
\* keep their order, none comes twice or from a channel that was given up and out of
\* turn, whatever can_clear left (haldex_flasher.py:101-117), for messages like those
\* of ImplementsLink.
AllChannels == INSTANCE MessageLink WITH served <- peer.served, broken <- (failures > 0)
ImplementsLinkThroughout == AllChannels!Spec

\* Every constructor, send and recv returns or raises, whatever the peer keeps
\* sending: the hard deadline ends a wait that a peer prolongs.
AtRest == pc \in {"idle", "closed", "over"}
CallsReturn == ~AtRest ~> AtRest
================================================================================
