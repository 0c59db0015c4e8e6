------------------------- MODULE HaldexFlasherProofs -------------------------
(***************************************************************************)
(* Proofs about HaldexFlasher, for every number of blocks, every bound on   *)
(* attempts and polls, and every budget of adverse events, unbounded too.   *)
(* Inductive is the theorem the others follow from: IInv holds initially    *)
(* (InitInv), the controller and the link preserve it (EnvironmentStep), and *)
(* so does every step of flash_binary (the lemmas Host...) and of the user. *)
(***************************************************************************)
EXTENDS HaldexFlasherInv, SequenceTheorems, TLAPS

--------------------------------------------------------------------------------
(***************************************************************************)
(* Queues.                                                                 *)
(***************************************************************************)

\* What Tail does to a sequence of a given type, index by index.
LEMMA TailFacts ==
    ASSUME NEW S, NEW s \in Seq(S), s # <<>>
    PROVE  /\ Len(s) \in Nat \ {0} /\ DOMAIN s = 1..Len(s)
           /\ Head(s) = s[1] /\ s[1] \in S /\ 1 \in DOMAIN s
           /\ Tail(s) \in Seq(S) /\ Len(Tail(s)) = Len(s) - 1
           /\ DOMAIN Tail(s) = 1..(Len(s) - 1)
           /\ \A i \in DOMAIN Tail(s) : i + 1 \in DOMAIN s /\ Tail(s)[i] = s[i + 1]
  OBVIOUS

\* What Append does to a sequence of a given type, index by index.
LEMMA AppendFacts ==
    ASSUME NEW S, NEW s \in Seq(S), NEW x \in S
    PROVE  /\ Append(s, x) \in Seq(S) /\ Len(Append(s, x)) = Len(s) + 1
           /\ DOMAIN Append(s, x) = 1..(Len(s) + 1)
           /\ Append(s, x) # <<>>
           /\ \A i \in DOMAIN Append(s, x) :
                 \/ i \in DOMAIN s /\ Append(s, x)[i] = s[i]
                 \/ i = Len(s) + 1 /\ Append(s, x)[i] = x
           /\ Append(s, x)[Len(s) + 1] = x
           /\ \A i \in DOMAIN s : i \in DOMAIN Append(s, x)
  OBVIOUS

--------------------------------------------------------------------------------
(***************************************************************************)
(* Types.                                                                  *)
(***************************************************************************)

\* An answer keeps the types of the queues.
LEMMA ReplyType ==
    ASSUME ControllerTypeOK, req # <<>>, NEW k \in Kinds, Reply(k)
    PROVE  req' \in Seq(Request) /\ rsp' \in Seq(Response) /\ open' \in BOOLEAN
<1>1. Head(req) \in Request
  BY TailFacts DEF ControllerTypeOK
<1>2. [to |-> Head(req).sid, kind |-> k] \in Response
  BY <1>1 DEF Request, Response
<1>3. Append(rsp, [to |-> Head(req).sid, kind |-> k]) \in Seq(Response)
  BY <1>2, AppendFacts DEF ControllerTypeOK
<1> QED BY <1>3, TailFacts DEF ControllerTypeOK, Reply

\* The budget of adverse events stays an integer, bounded or not.
LEMMA UpsetType ==
    ASSUME upsets \in Int, Upset \/ Calm
    PROVE  upsets' \in Int
  BY DEF Upset, Calm

\* No step of the controller or the link leaves its types.
LEMMA ControllerType == ControllerTypeOK /\ ControllerNext => ControllerTypeOK'
<1> SUFFICES ASSUME ControllerTypeOK, ControllerNext PROVE ControllerTypeOK'
  OBVIOUS
<1>0. NumBlocks \in Nat \ {0} /\ 1 \in 1..(NumBlocks + 1)
  BY ControllerAssumption
<1>d. <<>> \in Seq(Request)
  OBVIOUS
<1>a. Ram0 \in Ram /\ [Ram0 EXCEPT !.stay = TRUE] \in Ram
  BY <1>0 DEF Ram0, Ram
<1>b. A8 \in Response /\ \A s \in Services : \A k \in Kinds : [to |-> s, kind |-> k] \in Response
  BY DEF A8, Response, Kinds, Services
<1>c. Append(rsp, A8) \in Seq(Response)
  BY <1>b, AppendFacts DEF ControllerTypeOK
<1>u. upsets' \in Int
  <2>1. Upset \/ Calm
    BY DEF ControllerNext, ControllerSteps, LinkSteps, Serve, Refuse, ServeRead, ServeStrange,
       ServeEnterLoader, ServeSession, ServeErase, ServeTransfer, ServeResult, ServeCommit,
       RoutineEnds, Reboot, CloseChannel, LoseRequest, LoseResponse, PowerCycle
  <2> QED BY <2>1, UpsetType DEF ControllerTypeOK
<1>1. CASE Refuse
  BY <1>u, <1>1, ReplyType DEF Refuse, Kinds, ControllerTypeOK, ecu
<1>2. CASE ServeRead
  BY <1>u, <1>2, ReplyType DEF ServeRead, Accepted, Asked, Kinds, ControllerTypeOK, ecu
<1>3. CASE ServeStrange
  BY <1>u, <1>3, ReplyType DEF ServeStrange, Accepted, Asked, Kinds, ControllerTypeOK, ecu
<1>4. CASE ServeEnterLoader
  <2>1. Append(rsp, [to |-> "session85", kind |-> "pos"]) \in Seq(Response)
    BY <1>b, AppendFacts DEF ControllerTypeOK, Services, Kinds
  <2> QED BY <1>u, <1>d, <1>4, <1>a, <1>c, <2>1 DEF ServeEnterLoader, ControllerTypeOK
<1>5. CASE ServeSession
  <2>1. ram' \in Ram
    BY <1>5 DEF ServeSession, ControllerTypeOK, Ram
  <2> QED BY <1>u, <2>1, <1>5, ReplyType DEF ServeSession, Accepted, Asked, Kinds, ControllerTypeOK
<1>6. CASE ServeErase
  <2>1. ram' \in Ram
    BY <1>0, <1>6 DEF ServeErase, ControllerTypeOK, Ram
  <2>2. flash' \in [Blocks -> {Old, Blank} \cup Blocks]
    BY <1>6 DEF ServeErase, BlankFlash
  <2> QED BY <1>u, <2>1, <2>2, <1>6, ReplyType DEF ServeErase, Accepted, Asked, Kinds, ControllerTypeOK
<1>7. CASE ServeTransfer
  <2>1. Head(req) \in Request /\ ram.wp \in Blocks
    BY <1>7, TailFacts DEF ServeTransfer, Accepted, Asked, Acceptable, ControllerTypeOK, Ram, Blocks,
       Readable, AppServices
  <2>4. ram.wp + 1 \in 1..(NumBlocks + 1)
    BY <1>0, <2>1 DEF Blocks
  <2>2. ram' \in Ram
    BY <2>4, <1>7 DEF ServeTransfer, ControllerTypeOK, Ram
  <2>3. flash' \in [Blocks -> {Old, Blank} \cup Blocks]
    BY <1>u, <2>1, <1>7 DEF ServeTransfer, ControllerTypeOK, Request, Blank, Blocks
  <2> QED BY <1>u, <2>2, <2>3, <1>7, ReplyType DEF ServeTransfer, Accepted, Asked, Kinds, ControllerTypeOK
<1>8. CASE ServeResult
  BY <1>u, <1>8, ReplyType DEF ServeResult, Accepted, Asked, Kinds, ControllerTypeOK, ecu
<1>9. CASE ServeCommit
  <2> DEFINE ok == [to |-> "stop82", kind |-> "pos"]
  <2>1. ok \in Response /\ Append(rsp, ok) \in Seq(Response) /\ rsp \o <<ok, A8>> \in Seq(Response)
    BY <1>b, AppendFacts DEF ControllerTypeOK, Services, Kinds
  <2> QED BY <1>u, <1>d, <1>9, <1>a, <1>c, <2>1 DEF ServeCommit, ControllerTypeOK
<1>10. CASE RoutineEnds
  <2>1. ram' \in Ram
    BY <1>10 DEF RoutineEnds, ControllerTypeOK, Ram
  <2> QED BY <1>u, <2>1, <1>10 DEF RoutineEnds, ControllerTypeOK
<1>11. CASE Reboot
  BY <1>u, <1>11, <1>a DEF Reboot, ControllerTypeOK
<1>12. CASE CloseChannel
  BY <1>u, <1>d, <1>12, <1>c DEF CloseChannel, ControllerTypeOK, ecu
<1>13. CASE LoseRequest
  BY <1>u, <1>13, TailFacts DEF LoseRequest, ControllerTypeOK
<1>14. CASE LoseResponse
  BY <1>u, <1>14, TailFacts DEF LoseResponse, ControllerTypeOK
<1>15. CASE PowerCycle
  BY <1>u, <1>d, <1>15, <1>a DEF PowerCycle, ControllerTypeOK
<1> QED BY <1>1, <1>2, <1>3, <1>4, <1>5, <1>6, <1>7, <1>8, <1>9, <1>10, <1>11, <1>12,
           <1>13, <1>14, <1>15 DEF ControllerNext, ControllerSteps, LinkSteps, Serve

\* A run that ends, with any result and any error, keeps the host's types.
LEMMA FailType ==
    ASSUME HostTypeOK, NEW r \in LastResult, NEW e \in Errors, FailWith(r, e)
    PROVE  HostTypeOK' /\ open' \in BOOLEAN
<1>1. last' \in LastResult
  BY DEF FailWith, LastResult, HostTypeOK
<1> QED BY <1>1 DEF FailWith, HostTypeOK

\* The count of polls does not go below zero while a poll is under way.
LEMMA PollsLeftType == HostTypeOK /\ PollsInv /\ awaiting => PollsLeft \in Nat
  BY DEF PollsLeft, PollsInv, HostTypeOK

\* Giving the channel up for another keeps the host's types.
LEMMA ReconnectType ==
    ASSUME HostTypeOK, PollsInv, awaiting, NEW s \in Connecting, Reconnect(s)
    PROVE  HostTypeOK' /\ open' \in BOOLEAN
<1>1. polls' \in Nat /\ tries' \in Nat
  BY PollsLeftType, FlasherAssumption DEF Reconnect
<1> QED BY <1>1 DEF Reconnect, HostTypeOK

\* Going on from 20 to 82, or from 82 to verification, keeps them.
LEMMA CommitStepType ==
    ASSUME HostTypeOK, open \in BOOLEAN, NEW a \in SUBSET Committing, CommitStep(a)
    PROVE  HostTypeOK' /\ open' \in BOOLEAN
<1>1. last' \in LastResult
  BY DEF CommitStep, LastResult, HostTypeOK
<1>2. tries' \in Nat
  BY FlasherAssumption DEF CommitStep, HostTypeOK
<1>3. pc' \in {"stop82", "verify"}
  BY DEF CommitStep
<1> QED BY <1>1, <1>2, <1>3 DEF CommitStep, HostTypeOK, Connecting, Exchanges, Services

\* So does an exception, whichever handler it reaches.
LEMMA RaiseType ==
    ASSUME HostTypeOK, PollsInv, awaiting, open \in BOOLEAN, NEW e \in Errors, Raise(e)
    PROVE  HostTypeOK' /\ open' \in BOOLEAN
<1>1. CASE pc \in DOMAIN ReconnectStage /\ e \in {"timeout", "a8"}
  <2>1. ReconnectStage[pc] \in Connecting
    BY <1>1 DEF ReconnectStage, Connecting
  <2> QED BY <1>1, <2>1, ReconnectType DEF Raise
<1>2. CASE ~(pc \in DOMAIN ReconnectStage /\ e \in {"timeout", "a8"}) /\ pc \in Committing
  BY <1>2, CommitStepType DEF Raise
<1>3. CASE ~(pc \in DOMAIN ReconnectStage /\ e \in {"timeout", "a8"}) /\ pc \notin Committing
  <2>1. Fail(e) /\ last \in LastResult
    BY <1>3 DEF Raise, HostTypeOK
  <2> QED BY <2>1, FailType DEF Fail
<1> QED BY <1>1, <1>2, <1>3

\* So does a positive response.  The number of the block stays within the image.
LEMMA AdvanceType ==
    ASSUME HostTypeOK, PollsInv, awaiting, pc \in Exchanges, open \in BOOLEAN, Advance
    PROVE  HostTypeOK' /\ open' \in BOOLEAN
<1>1. CASE pc = "status"
  <2>1. Verify
    BY <1>1 DEF Advance
  <2>2. last \in LastResult /\ [last EXCEPT !.boot = TRUE] \in LastResult
    BY DEF HostTypeOK, LastResult
  <2>3. CASE kwp.addr # "app"
    BY <2>1, <2>2, <2>3, FailType DEF Verify, Fail, Errors
  <2>4. CASE kwp.addr = "app" /\ ~Acknowledged
    BY <2>1, <2>2, <2>4, FailType DEF Verify, Errors
  <2>5. CASE kwp.addr = "app" /\ Acknowledged
    <3>1. last' \in LastResult
      BY <2>1, <2>5 DEF Verify, HostTypeOK, LastResult
    <3> QED BY <2>1, <2>5, <3>1 DEF Verify, HostTypeOK
  <2> QED BY <2>3, <2>4, <2>5
<1>2. CASE pc \in Committing
  <2>1. CommitStep({pc}) /\ {pc} \in SUBSET Committing
    BY <1>2 DEF Advance, Committing
  <2> QED BY <2>1, CommitStepType
<1>3. CASE pc = "session85"
  BY <1>3, ReconnectType DEF Advance, Committing, Connecting
<1>4. CASE pc \notin Committing \cup {"status", "session85"}
  <2>1. pc' \in Exchanges
    BY <1>4 DEF Advance, Exchanges, Services, NextStage, Committing
  <2>2. off' \in Blocks
    <3>1. 1 \in Blocks /\ (MoreBlocks => off + 1 \in Blocks)
      BY ControllerAssumption DEF HostTypeOK, Blocks, MoreBlocks
    <3> QED BY <1>4, <3>1 DEF Advance, HostTypeOK
  <2>3. polls' \in Nat
    BY <1>4, FlasherAssumption DEF Advance, HostTypeOK
  <2>4. last' \in LastResult
    BY <1>4 DEF Advance, HostTypeOK, LastResult
  <2> QED BY <1>4, <2>1, <2>2, <2>3, <2>4 DEF Advance, HostTypeOK
<1> QED BY <1>1, <1>2, <1>3, <1>4

\* The controller's own variables keep their types when only the queues, the
\* channel and the budget of adverse events change.
LEMMA HostSideControllerType ==
    ASSUME ControllerTypeOK, UNCHANGED ecu, Upset \/ Calm,
           open' \in BOOLEAN, req' \in Seq(Request), rsp' \in Seq(Response)
    PROVE  ControllerTypeOK'
<1>1. upsets' \in Int
  BY UpsetType DEF ControllerTypeOK
<1> QED BY <1>1 DEF ControllerTypeOK, ecu

\* The same as FailType, for a run that ends with the result it has so far.
LEMMA FailureType ==
    ASSUME TypeOK, NEW e \in Errors, Fail(e)
    PROVE  HostTypeOK' /\ open' \in BOOLEAN
<1>1. last \in LastResult
  BY DEF TypeOK, HostTypeOK
<1> QED BY <1>1, FailType DEF Fail, TypeOK

\* reconnect_tp, and a run cancelled on its way, keep every type.
LEMMA ConnectionType == TypeOK /\ (Cancelled \/ Connection) => TypeOK'
<1> SUFFICES ASSUME TypeOK, Cancelled \/ Connection PROVE TypeOK'
  OBVIOUS
<1> USE DEF TypeOK
<1>0. <<>> \in Seq(Response) /\ req \in Seq(Request) /\ rsp \in Seq(Response)
  BY DEF ControllerTypeOK
<1>1. CASE Cancelled
  BY <1>0, <1>1, FailureType, HostSideControllerType DEF Cancelled, Errors
<1>2. CASE AdapterFails
  BY <1>0, <1>2, FailureType, HostSideControllerType DEF AdapterFails, Errors
<1>3. CASE ConnectOk
  <2>1. HostTypeOK' /\ open' \in BOOLEAN
    <3>1. CASE pc = "reconnLoader" /\ mode = "app"
      BY <1>3, <3>1, FailureType DEF ConnectOk, Errors
    <3>2. CASE ~(pc = "reconnLoader" /\ mode = "app")
      <4>1. pc' \in Exchanges
        BY <1>3, <3>2 DEF ConnectOk, AfterConnect, Connecting, Exchanges, Services
      <4>2. kwp' \in Transport
        <5>1. mode \in {"app", "loader"}
          BY <1>3 DEF ConnectOk, ControllerTypeOK
        <5>2. \A h, l \in BOOLEAN : [addr |-> mode, heartbeat |-> h, held |-> l] \in Transport
          BY <5>1 DEF Transport
        <5>3. /\ (pc # "verify") \in BOOLEAN
              /\ (pc \notin {"reconnErase", "reconnChecksum"}) \in BOOLEAN
          OBVIOUS
        <5> QED BY <1>3, <3>2, <5>2, <5>3 DEF ConnectOk
      <4> QED BY <1>3, <3>2, <4>1, <4>2 DEF ConnectOk, HostTypeOK
    <3> QED BY <3>1, <3>2
  <2> QED BY <1>0, <1>3, <2>1, HostSideControllerType DEF ConnectOk
<1>4. CASE ConnectFails
  <2>1. HostTypeOK' /\ open' \in BOOLEAN
    <3>1. CASE tries > 1
      <4>1. tries' \in Nat
        BY <1>4, <3>1 DEF ConnectFails, HostTypeOK
      <4> QED BY <1>4, <3>1, <4>1 DEF ConnectFails, HostTypeOK, ControllerTypeOK
    <3>2. CASE ~(tries > 1)
      BY <1>4, <3>2, FailureType DEF ConnectFails, Errors
    <3> QED BY <3>1, <3>2
  <2> QED BY <1>0, <1>4, <2>1, HostSideControllerType DEF ConnectFails
<1> QED BY <1>1, <1>2, <1>3, <1>4 DEF Connection

\* What comes of a request keeps every type.
LEMMA ExchangeType ==
    ASSUME TypeOK, PollsInv, awaiting, pc \in Exchanges, Receive \/ KeepAliveFails \/ Timeout
    PROVE  TypeOK'
<1> USE DEF TypeOK
<1>0. req \in Seq(Request) /\ rsp \in Seq(Response) /\ open \in BOOLEAN
  BY DEF ControllerTypeOK
<1>t. rsp # <<>> => Tail(rsp) \in Seq(Response)
  BY <1>0, TailFacts
<1>2. CASE Receive
  <2>1. HostTypeOK' /\ open' \in BOOLEAN
    <3>1. CASE Advance
      BY <1>0, <3>1, AdvanceType
    <3>2. CASE PollAgain
      BY <1>0, <3>2, PollsLeftType DEF PollAgain, HostTypeOK
    <3>3. CASE \E e \in Errors : Raise(e)
      BY <1>0, <3>3, RaiseType
    <3>4. {"a8", "kwp", "nrc", "unverified"} \subseteq Errors
      BY DEF Errors
    <3>5. \/ Advance \/ PollAgain
          \/ Raise("a8") \/ Raise("kwp") \/ Raise("nrc") \/ Raise("unverified")
      BY <1>2 DEF Receive
    <3> QED BY <3>1, <3>2, <3>3, <3>4, <3>5
  <2> QED BY <1>0, <1>2, <1>t, <2>1, HostSideControllerType DEF Receive
<1>3. CASE KeepAliveFails
  <2>1. HostTypeOK' /\ open' \in BOOLEAN
    BY <1>0, <1>3, RaiseType DEF KeepAliveFails, Errors
  <2>2. rsp' \in Seq(Response)
    <3>1. Len(rsp) > 1 => Tail(Tail(rsp)) \in Seq(Response)
      <4> SUFFICES ASSUME Len(rsp) > 1 PROVE Tail(Tail(rsp)) \in Seq(Response)
        OBVIOUS
      <4>1. rsp # <<>> /\ Len(Tail(rsp)) # 0
        BY <1>0, TailFacts
      <4>2. Tail(rsp) # <<>>
        BY <1>t, <4>1, EmptySeq
      <4> QED BY <1>t, <4>1, <4>2, TailFacts
    <3> QED BY <1>3, <1>t, <3>1 DEF KeepAliveFails
  <2> QED BY <1>0, <1>3, <2>1, <2>2, HostSideControllerType DEF KeepAliveFails
<1>4. CASE Timeout
  <2>1. HostTypeOK' /\ open' \in BOOLEAN
    BY <1>0, <1>4, RaiseType DEF Timeout, Errors
  <2> QED BY <1>0, <1>4, <2>1, HostSideControllerType DEF Timeout
<1> QED BY <1>2, <1>3, <1>4

\* A request, and the end of the polls, keep every type.
LEMMA SendType == TypeOK /\ (Send \/ PollsExhausted) => TypeOK'
<1> SUFFICES ASSUME TypeOK, Send \/ PollsExhausted PROVE TypeOK'
  OBVIOUS
<1> USE DEF TypeOK
<1>0. req \in Seq(Request) /\ rsp \in Seq(Response) /\ open \in BOOLEAN
  BY DEF ControllerTypeOK
<1>1. CASE Send
  <2>1. req' \in Seq(Request)
    <3>1. 0 \in 0..NumBlocks /\ off \in 0..NumBlocks
      BY ControllerAssumption DEF HostTypeOK, Blocks
    <3>2. Pending \in Request
      BY <1>1, <3>1 DEF Send, Pending, Request, Exchanges
    <3> QED BY <1>0, <1>1, <3>2, AppendFacts DEF Send
  <2>2. kwp' \in Transport
    <3>1. HeartbeatNow \in BOOLEAN
      BY DEF HeartbeatNow
    <3> QED BY <1>1, <3>1 DEF Send, HostTypeOK, Transport
  <2>3. recovery' \in BOOLEAN
    BY <1>1 DEF Send, RecoveryMark
  <2>4. ControllerTypeOK'
    BY <1>1, <2>1 DEF Send, ControllerTypeOK, ecu
  <2> QED BY <1>1, <2>2, <2>3, <2>4 DEF Send, HostTypeOK
<1>2. CASE PollsExhausted
  BY <1>0, <1>2, FailureType, HostSideControllerType DEF PollsExhausted, Errors
<1> QED BY <1>1, <1>2

\* What the user does keeps every type.
LEMMA UserType == TypeOK /\ User => TypeOK'
<1> SUFFICES ASSUME TypeOK, User PROVE TypeOK'
  OBVIOUS
<1> USE DEF TypeOK
<1>0. \A st \in {"none", "validated", "running"} : [NoResult EXCEPT !.status = st] \in LastResult
  BY DEF NoResult, LastResult
<1>1. ASSUME NEW fresh \in BOOLEAN, Start(fresh) PROVE TypeOK'
  <2>1. last' \in LastResult
    BY <1>0, <1>1 DEF Start
  <2>2. tries' \in Nat
    BY <1>1, FlasherAssumption DEF Start
  <2>3. before' \in [Blocks -> {Old, Blank} \cup Blocks]
    BY <1>1 DEF Start, ControllerTypeOK
  <2>4. pc' \in Connecting
    BY <1>1 DEF Start, Connecting
  <2>5. abort' \in BOOLEAN /\ device' \in BOOLEAN
    BY <1>1 DEF Start, HostTypeOK
  <2> QED BY <1>1, <2>1, <2>2, <2>3, <2>4, <2>5 DEF Start, HostTypeOK, ControllerTypeOK, controllerVars
<1>2. CASE Preflight
  <2>1. last' \in LastResult
    <3>1. NoResult \in LastResult
      BY DEF NoResult, LastResult
    <3> QED BY <1>0, <1>2, <3>1 DEF Preflight
  <2> QED BY <1>2, <2>1 DEF Preflight, HostTypeOK, ControllerTypeOK, controllerVars
<1>3. CASE RequestAbort
  <2>1. ControllerTypeOK'
    BY <1>3, HostSideControllerType DEF RequestAbort, ControllerTypeOK
  <2> QED BY <1>3, <2>1 DEF RequestAbort, HostTypeOK
<1> QED BY <1>1, <1>2, <1>3 DEF User

--------------------------------------------------------------------------------
(***************************************************************************)
(* What a step of the controller or the link does to the queues.           *)
(***************************************************************************)

\* Requests only go away, with the channel if it closes; what is new among the
\* responses is an A8 or the one answer to the request at the head.
QueueStep ==
    /\ \A i \in DOMAIN req' : \E j \in DOMAIN req : req'[i] = req[j]
    /\ req' # <<>> => req # <<>> /\ (open => open')
    /\ Len(req') <= Len(req)
    /\ \A i \in DOMAIN rsp' :
         \/ i \in DOMAIN rsp /\ rsp'[i] = rsp[i]
         \/ i + 1 \in DOMAIN rsp /\ rsp'[i] = rsp[i + 1] /\ LoseResponse
         \/ rsp'[i] = A8
         \/ /\ i = Len(rsp) + 1 /\ req # <<>> /\ rsp'[i].to = req[1].sid
            /\ Len(req) <= 1 => req' = <<>>

\* An answer to the request at the head is a QueueStep.
LEMMA ReplyStep ==
    ASSUME ControllerTypeOK, req # <<>>, NEW k \in Kinds, Reply(k)
    PROVE  QueueStep
<1>1. /\ req \in Seq(Request) /\ rsp \in Seq(Response)
      /\ Head(req) = req[1] /\ Len(req) \in Nat \ {0} /\ req[1] \in Request
  BY TailFacts DEF ControllerTypeOK
<1>2. /\ \A i \in DOMAIN req' : i + 1 \in DOMAIN req /\ req'[i] = req[i + 1]
      /\ Len(req') = Len(req) - 1 /\ open' = open
  BY <1>1, TailFacts DEF Reply
<1>3. Len(req) <= 1 => req' = <<>>
  <2>1. req' \in Seq(Request)
    BY <1>1, TailFacts DEF Reply
  <2>2. Len(req) <= 1 => Len(req') = 0
    BY <1>1, <1>2
  <2> QED BY <2>1, <2>2, EmptySeq
<1>4. [to |-> req[1].sid, kind |-> k] \in Response
  BY <1>1 DEF Request, Response
<1>5. \A i \in DOMAIN rsp' :
         \/ i \in DOMAIN rsp /\ rsp'[i] = rsp[i]
         \/ i = Len(rsp) + 1 /\ rsp'[i].to = req[1].sid
  <2>1. CASE open
    BY <1>1, <1>4, <2>1, AppendFacts DEF Reply
  <2>2. CASE ~open
    BY <2>2 DEF Reply
  <2> QED BY <2>1, <2>2
<1>6. Len(req') <= Len(req)
  BY <1>1, <1>2
<1> QED BY <1>2, <1>3, <1>5, <1>6 DEF QueueStep

\* So is a step that drops the requests and appends one answer at most.
LEMMA DropStep ==
    ASSUME ControllerTypeOK, req' = <<>>,
           \/ rsp' = rsp
           \/ rsp' = Append(rsp, A8)
           \/ req # <<>> /\ \E k \in Kinds : rsp' = Append(rsp, [to |-> req[1].sid, kind |-> k])
           \/ req # <<>> /\ \E k \in Kinds :
                 rsp' = rsp \o <<[to |-> req[1].sid, kind |-> k], A8>>
    PROVE  QueueStep
<1>1. /\ req \in Seq(Request) /\ rsp \in Seq(Response)
      /\ Len(rsp) \in Nat /\ DOMAIN rsp = 1..Len(rsp) /\ Len(req) \in Nat
  BY LenProperties DEF ControllerTypeOK
<1>2. A8 \in Response
  BY DEF A8, Response, Kinds
<1>3. Len(<<>>) = 0 /\ DOMAIN (<<>>) = {}
  OBVIOUS
<1>4. req' = <<>> /\ Len(req') <= Len(req) /\ DOMAIN req' = {}
  BY <1>1, <1>3
<1>5. \A i \in DOMAIN rsp' :
         \/ i \in DOMAIN rsp /\ rsp'[i] = rsp[i]
         \/ rsp'[i] = A8
         \/ i = Len(rsp) + 1 /\ req # <<>> /\ rsp'[i].to = req[1].sid
  <2>1. CASE rsp' = rsp
    BY <2>1
  <2>2. CASE rsp' = Append(rsp, A8)
    BY <1>1, <1>2, <2>2, AppendFacts
  <2>3. ASSUME req # <<>>, NEW k \in Kinds, rsp' = Append(rsp, [to |-> req[1].sid, kind |-> k])
        PROVE  \A i \in DOMAIN rsp' :
                  \/ i \in DOMAIN rsp /\ rsp'[i] = rsp[i]
                  \/ i = Len(rsp) + 1 /\ rsp'[i].to = req[1].sid
    <3>1. req[1] \in Request
      BY <1>1, <2>3, TailFacts
    <3>2. [to |-> req[1].sid, kind |-> k] \in Response
      BY <2>3, <3>1 DEF Request, Response
    <3> DEFINE x == [to |-> req[1].sid, kind |-> k]
    <3>3. x.to = req[1].sid /\ x \in Response /\ rsp' = Append(rsp, x)
      BY <2>3, <3>2
    <3> HIDE DEF x
    <3>4. \A i \in DOMAIN rsp' : (i \in DOMAIN rsp /\ rsp'[i] = rsp[i]) \/ (i = Len(rsp) + 1 /\ rsp'[i] = x)
      <4>1. x \in Response /\ rsp \in Seq(Response)
        BY <1>1, <3>3
      <4>2. \A i \in DOMAIN Append(rsp, x) :
               \/ i \in DOMAIN rsp /\ Append(rsp, x)[i] = rsp[i]
               \/ i = Len(rsp) + 1 /\ Append(rsp, x)[i] = x
        BY <4>1, AppendFacts
      <4> QED BY <3>3, <4>2
    <3> QED BY <3>3, <3>4
  <2>4. ASSUME req # <<>>, NEW k \in Kinds, rsp' = rsp \o <<[to |-> req[1].sid, kind |-> k], A8>>
        PROVE  \A i \in DOMAIN rsp' :
                  \/ i \in DOMAIN rsp /\ rsp'[i] = rsp[i]
                  \/ rsp'[i] = A8
                  \/ i = Len(rsp) + 1 /\ rsp'[i].to = req[1].sid
    <3> DEFINE t == <<[to |-> req[1].sid, kind |-> k], A8>>
    <3>1. req[1] \in Request
      BY <1>1, <2>4, TailFacts
    <3>2. [to |-> req[1].sid, kind |-> k] \in Response
      BY <2>4, <3>1 DEF Request, Response
    <3>3. t \in Seq(Response) /\ Len(t) = 2 /\ t[1].to = req[1].sid /\ t[2] = A8
      BY <1>2, <3>2
    <3>4. /\ rsp' \in Seq(Response) /\ Len(rsp') = Len(rsp) + 2
          /\ \A i \in 1..(Len(rsp) + 2) : rsp'[i] = IF i <= Len(rsp) THEN rsp[i] ELSE t[i - Len(rsp)]
      <4> HIDE DEF t
      <4> QED BY <1>1, <2>4, <3>3, ConcatProperties DEF t
    <3>5. DOMAIN rsp' = 1..(Len(rsp) + 2)
      BY <3>4, LenProperties
    <3> HIDE DEF t
    <3>0. SUFFICES ASSUME NEW i \in DOMAIN rsp'
                   PROVE  \/ i \in DOMAIN rsp /\ rsp'[i] = rsp[i]
                          \/ rsp'[i] = A8
                          \/ i = Len(rsp) + 1 /\ rsp'[i].to = req[1].sid
      OBVIOUS
    <3>6. i \in 1..(Len(rsp) + 2)
      BY <3>5
    <3>7. CASE i <= Len(rsp)
      BY <1>1, <3>4, <3>6, <3>7
    <3>8. CASE i = Len(rsp) + 1
      <4>1. i - Len(rsp) = 1 /\ ~(i <= Len(rsp))
        BY <1>1, <3>8
      <4> QED BY <3>3, <3>4, <3>6, <3>8, <4>1
    <3>9. CASE i = Len(rsp) + 2
      <4>1. i - Len(rsp) = 2 /\ ~(i <= Len(rsp))
        BY <1>1, <3>9
      <4> QED BY <3>3, <3>4, <3>6, <3>9, <4>1
    <3> QED BY <1>1, <3>6, <3>7, <3>8, <3>9
  <2> QED BY <2>1, <2>2, <2>3, <2>4
<1> QED BY <1>4, <1>5 DEF QueueStep

\* Every step of the controller or the link is a QueueStep.
LEMMA ControllerQueueStep == ControllerTypeOK /\ ControllerNext => QueueStep
<1> SUFFICES ASSUME ControllerTypeOK, ControllerNext PROVE QueueStep
  OBVIOUS
<1>0. /\ req \in Seq(Request) /\ rsp \in Seq(Response)
      /\ Len(rsp) \in Nat /\ DOMAIN rsp = 1..Len(rsp)
      /\ Len(req) \in Nat /\ DOMAIN req = 1..Len(req)
  BY LenProperties DEF ControllerTypeOK
<1>h. req # <<>> => Head(req) = req[1]
  BY <1>0, TailFacts
<1>1. CASE Refuse \/ ServeRead \/ ServeStrange \/ ServeSession \/ ServeErase \/ ServeTransfer \/ ServeResult
  <2>1. req # <<>> /\ (Reply("pos") \/ Reply("neg") \/ Reply("bad") \/ Reply("busy"))
    BY <1>1 DEF Refuse, ServeRead, ServeStrange, ServeSession, ServeErase, ServeTransfer, ServeResult,
       Accepted, Asked
  <2> QED BY <2>1, ReplyStep DEF Kinds
<1>2. CASE ServeEnterLoader
  <2>1. req # <<>> /\ req[1].sid = "session85"
    BY <1>2, <1>h DEF ServeEnterLoader, Accepted, Asked
  <2> QED BY <1>2, <2>1, DropStep DEF ServeEnterLoader, Kinds
<1>3. CASE ServeCommit
  <2>1. req # <<>> /\ req[1].sid = "stop82"
    BY <1>3, <1>h DEF ServeCommit, Accepted, Asked
  <2> QED BY <1>3, <2>1, DropStep DEF ServeCommit, Kinds
<1>4. CASE CloseChannel \/ PowerCycle
  BY <1>4, DropStep DEF CloseChannel, PowerCycle
<1>5. CASE RoutineEnds \/ Reboot
  BY <1>0, <1>5 DEF RoutineEnds, Reboot, QueueStep
<1>6. CASE LoseRequest
  <2>1. /\ \A i \in DOMAIN req' : i + 1 \in DOMAIN req /\ req'[i] = req[i + 1]
        /\ Len(req') = Len(req) - 1 /\ open' = open /\ rsp' = rsp /\ req # <<>>
    BY <1>0, <1>6, TailFacts DEF LoseRequest
  <2>2. Len(req') <= Len(req)
    BY <1>0, <2>1
  <2> QED BY <2>1, <2>2 DEF QueueStep
<1>7. CASE LoseResponse
  <2>1. \A i \in DOMAIN rsp' : i + 1 \in DOMAIN rsp /\ rsp'[i] = rsp[i + 1]
    BY <1>0, <1>7, TailFacts DEF LoseResponse
  <2>2. req' = req /\ open' = open /\ Len(req') <= Len(req)
    BY <1>0, <1>7 DEF LoseResponse
  <2> QED BY <1>7, <2>1, <2>2 DEF QueueStep
<1> QED BY <1>1, <1>2, <1>3, <1>4, <1>5, <1>6, <1>7
        DEF ControllerNext, ControllerSteps, LinkSteps, Serve

--------------------------------------------------------------------------------
(***************************************************************************)
(* What a step of the controller or the link does to the controller.       *)
(***************************************************************************)

\* The request that is acted upon is the first.
LEMMA HeadIsFirst ==
    ASSUME ControllerTypeOK
    PROVE  req # <<>> => Head(req) = req[1] /\ 1 \in DOMAIN req /\ req[1] \in Request
  BY TailFacts DEF ControllerTypeOK

\* The steps that leave the controller as it is.
Idle == Refuse \/ ServeRead \/ ServeStrange \/ ServeResult \/ CloseChannel
        \/ LoseRequest \/ LoseResponse

\* Which services change what, and which request they answer.
LEMMA ControllerEffect ==
    ASSUME ControllerTypeOK, ControllerNext
    PROVE  \/ Idle /\ UNCHANGED <<mode, ram, flash, committed>>
           \/ /\ ServeEnterLoader /\ req # <<>> /\ req[1].sid = "session85" /\ mode = "app"
              /\ UNCHANGED <<flash, committed>>
           \/ /\ ServeSession /\ req # <<>> /\ UNCHANGED <<mode, flash, committed>>
              /\ req[1].sid \in {"loaderKey", "download", "stop20", "checksum"}
           \/ /\ ServeErase /\ req # <<>> /\ req[1].sid = "erase" /\ mode = "loader"
           \/ /\ ServeTransfer /\ req # <<>> /\ req[1].sid = "transfer" /\ mode = "loader"
           \/ /\ ServeCommit /\ req # <<>> /\ req[1].sid = "stop82" /\ mode = "loader"
              /\ UNCHANGED flash
           \/ RoutineEnds /\ UNCHANGED <<mode, flash, committed, req, rsp, open>>
           \/ Reboot /\ UNCHANGED <<flash, committed, req, rsp, open>>
           \/ PowerCycle /\ UNCHANGED <<flash, committed, rsp>>
<1>h. req # <<>> => Head(req) = req[1]
  BY HeadIsFirst
<1>1. CASE Idle
  BY <1>1 DEF Idle, Refuse, ServeRead, ServeStrange, ServeResult, CloseChannel, LoseRequest, LoseResponse, ecu
<1>2. CASE ServeEnterLoader
  BY <1>2, <1>h DEF ServeEnterLoader, Accepted, Asked, Acceptable, Readable
<1>3. CASE ServeSession
  BY <1>3, <1>h DEF ServeSession, Accepted, Asked
<1>4. CASE ServeErase
  BY <1>4, <1>h DEF ServeErase, Accepted, Asked, Acceptable, Readable, AppServices
<1>5. CASE ServeTransfer
  BY <1>5, <1>h DEF ServeTransfer, Accepted, Asked, Acceptable, Readable, AppServices
<1>6. CASE ServeCommit
  BY <1>6, <1>h DEF ServeCommit, Accepted, Asked, Acceptable, Readable, AppServices
<1>7. CASE RoutineEnds \/ Reboot \/ PowerCycle
  BY <1>7 DEF RoutineEnds, Reboot, PowerCycle
<1> QED BY <1>1, <1>2, <1>3, <1>4, <1>5, <1>6, <1>7
        DEF ControllerNext, ControllerSteps, LinkSteps, Serve, Idle

\* Only the tester opens the channel.
LEMMA OpenStays == ControllerNext /\ open' => open
<1> SUFFICES ASSUME ControllerNext, open', ~open PROVE FALSE
  OBVIOUS
<1>1. open' # open
  OBVIOUS
<1> QED BY <1>1 DEF ControllerNext, ControllerSteps, LinkSteps, Serve, Refuse, ServeRead, ServeStrange,
     ServeEnterLoader, ServeSession, ServeErase, ServeTransfer, ServeResult, ServeCommit, Reply,
     RoutineEnds, Reboot, CloseChannel, LoseRequest, LoseResponse, PowerCycle

\* What the controller did when it gave a positive response.
Effect(sid) ==
    /\ sid = "erase" => flash' = BlankFlash /\ ram'.wp = 1
    /\ sid = "eraseResult" => ram.routine = "erase" /\ ram.phase = "done" /\ ram' = ram
    /\ sid = "transfer" =>
         /\ ServeTransfer
         /\ ram.routine = "erase" /\ ram.phase = "done"
         /\ flash' = [flash EXCEPT ![ram.wp] = req[1].blk]
         /\ ram' = [ram EXCEPT !.wp = @ + 1]
    /\ sid = "checksumResult" => ram.routine = "sum" /\ ram.phase = "done" /\ ram' = ram
    /\ sid = "stop20" => ram'.stopped
    /\ sid = "stop82" => mode' = "reset" /\ ram' = Ram0 /\ (ram.stopped => committed')

\* A new positive answer is the answer to the request at the head.
LEMMA ReplyPositive ==
    ASSUME ControllerTypeOK, req # <<>>, NEW k \in Kinds, Reply(k), NEW sid,
           Positive(sid)', ~Positive(sid)
    PROVE  k = "pos" /\ open /\ req[1].sid = sid
<1>0. /\ rsp \in Seq(Response) /\ Head(req) = req[1] /\ req[1] \in Request
  BY HeadIsFirst DEF ControllerTypeOK
<1> DEFINE x == [to |-> req[1].sid, kind |-> k]
<1>1. x \in Response /\ x.to = req[1].sid /\ x.kind = k
  BY <1>0 DEF Request, Response
<1>2. rsp' = (IF open THEN Append(rsp, x) ELSE rsp)
  BY <1>0 DEF Reply
<1> HIDE DEF x
<1>3. PICK i \in DOMAIN rsp' : rsp'[i].to = sid /\ rsp'[i].kind = "pos"
  BY DEF Positive
<1>4. ~(i \in DOMAIN rsp /\ rsp'[i] = rsp[i])
  BY <1>3 DEF Positive
<1>5. open
  BY <1>2, <1>3, <1>4
<1>6. \A n \in DOMAIN Append(rsp, x) :
         (n \in DOMAIN rsp /\ Append(rsp, x)[n] = rsp[n]) \/ Append(rsp, x)[n] = x
  BY <1>0, <1>1, AppendFacts
<1>7. rsp'[i] = x
  BY <1>2, <1>3, <1>4, <1>5, <1>6
<1> QED BY <1>1, <1>3, <1>5, <1>7

\* A new positive answer means that the request had its effect, on a live channel.
LEMMA PositiveEffect ==
    ASSUME ControllerTypeOK, ControllerNext, NEW sid, Positive(sid)', ~Positive(sid)
    PROVE  req # <<>> /\ req[1].sid = sid /\ open /\ Effect(sid)
<1>h. req # <<>> => Head(req) = req[1]
  BY HeadIsFirst
<1>q. QueueStep
  BY ControllerQueueStep
<1>p. PICK i \in DOMAIN rsp' : rsp'[i].to = sid /\ rsp'[i].kind = "pos"
  BY DEF Positive
<1>n. \A j \in DOMAIN rsp : rsp'[i] # rsp[j]
  BY <1>p DEF Positive
<1>a. rsp'[i] # A8
  BY <1>p DEF A8
<1>1. ASSUME Refuse \/ ServeStrange PROVE FALSE
  <2>1. req # <<>> /\ (Reply("neg") \/ Reply("bad"))
    BY <1>1 DEF Refuse, ServeStrange, Accepted, Asked
  <2> QED BY <2>1, ReplyPositive DEF Kinds
<1>2. CASE ServeRead
  <2>1. req # <<>> /\ Reply("pos") /\ Head(req).sid \in AppServices \cup {"loaderSeed", "exit"} \cup Readable
    BY <1>2 DEF ServeRead, Accepted, Asked
  <2>2. open /\ req[1].sid = sid
    BY <2>1, ReplyPositive DEF Kinds
  <2> QED BY <1>h, <2>1, <2>2 DEF Effect, AppServices, Readable
<1>3. CASE ServeSession
  <2>1. req # <<>> /\ Reply("pos")
    BY <1>3 DEF ServeSession, Accepted, Asked
  <2>2. open /\ req[1].sid = sid
    BY <2>1, ReplyPositive DEF Kinds
  <2>3. /\ sid \in {"loaderKey", "download", "stop20", "checksum"}
        /\ sid = "stop20" => ram' = [ram EXCEPT !.stopped = TRUE]
    BY <1>3, <1>h, <2>1, <2>2 DEF ServeSession, Accepted, Asked
  <2>4. sid = "stop20" => ram'.stopped
    BY <2>3 DEF ControllerTypeOK, Ram
  <2> QED BY <2>1, <2>2, <2>3, <2>4 DEF Effect
<1>4. CASE ServeErase
  <2>1. req # <<>> /\ Reply("pos") /\ Head(req).sid = "erase"
    BY <1>4 DEF ServeErase, Accepted, Asked
  <2>2. open /\ req[1].sid = sid
    BY <2>1, ReplyPositive DEF Kinds
  <2>3. flash' = BlankFlash /\ ram'.wp = 1
    BY <1>4 DEF ServeErase, ControllerTypeOK, Ram
  <2> QED BY <1>h, <2>1, <2>2, <2>3 DEF Effect
<1>5. CASE ServeTransfer
  <2>1. req # <<>> /\ Reply("pos") /\ Head(req).sid = "transfer" /\ Acceptable(Head(req))
    BY <1>5 DEF ServeTransfer, Accepted, Asked
  <2>2. open /\ req[1].sid = sid
    BY <2>1, ReplyPositive DEF Kinds
  <2>3. ram.routine = "erase" /\ ram.phase = "done"
    BY <2>1 DEF Acceptable, Readable, AppServices
  <2> QED BY <1>5, <1>h, <2>1, <2>2, <2>3 DEF ServeTransfer, Effect
<1>6. CASE ServeResult
  <2>1. /\ req # <<>> /\ Head(req).sid \in {"eraseResult", "checksumResult"} /\ Acceptable(Head(req))
        /\ (ram.phase = "done" /\ Reply("pos")) \/ Reply("busy") \/ Reply("bad")
    BY <1>6 DEF ServeResult, Accepted, Asked
  <2>2. open /\ req[1].sid = sid /\ ram.phase = "done"
    BY <2>1, ReplyPositive DEF Kinds
  <2>3. /\ Head(req).sid = "eraseResult" => ram.routine = "erase"
        /\ Head(req).sid = "checksumResult" => ram.routine = "sum"
    BY <2>1 DEF Acceptable, Readable, AppServices
  <2>4. ram' = ram
    BY <1>6 DEF ServeResult, ecu
  <2> QED BY <1>h, <2>1, <2>2, <2>3, <2>4 DEF Effect
<1>7. CASE ServeEnterLoader
  <2>1. /\ req # <<>> /\ Head(req).sid = "session85"
        /\ rsp' = rsp \/ rsp' = Append(rsp, A8)
           \/ (open /\ rsp' = Append(rsp, [to |-> "session85", kind |-> "pos"]))
    BY <1>7 DEF ServeEnterLoader, Accepted, Asked
  <2>2. rsp' # rsp
    BY <1>p, <1>n
  <2>3. sid = "session85"
    BY <1>p, <1>n, <1>a, <1>q, <1>h, <2>1 DEF QueueStep, LoseResponse
  <2>4. rsp' # Append(rsp, A8)
    <3>1. A8 \in Response /\ rsp \in Seq(Response)
      BY DEF A8, Response, Kinds, ControllerTypeOK
    <3>2. \A n \in DOMAIN Append(rsp, A8) :
             (n \in DOMAIN rsp /\ Append(rsp, A8)[n] = rsp[n]) \/ Append(rsp, A8)[n] = A8
      BY <3>1, AppendFacts
    <3> QED BY <1>p, <1>n, <1>a, <3>2
  <2> QED BY <1>h, <2>1, <2>2, <2>3, <2>4 DEF Effect
<1>8. CASE ServeCommit
  <2>1. /\ req # <<>> /\ Head(req).sid = "stop82"
        /\ mode' = "reset" /\ ram' = Ram0 /\ (ram.stopped => committed')
        /\ rsp' # rsp => open
    BY <1>8 DEF ServeCommit, Accepted, Asked
  <2>2. rsp' # rsp
    BY <1>p, <1>n
  <2>3. sid = "stop82"
    BY <1>p, <1>n, <1>a, <1>q, <1>h, <2>1 DEF QueueStep
  <2> QED BY <1>h, <2>1, <2>2, <2>3 DEF Effect
<1>9. ASSUME CloseChannel \/ LoseRequest \/ LoseResponse \/ RoutineEnds \/ Reboot \/ PowerCycle
      PROVE  FALSE
  <2>1. rsp' # rsp
    BY <1>p, <1>n
  <2>2. rsp' = Append(rsp, A8) \/ (rsp # <<>> /\ rsp' = Tail(rsp))
    BY <1>9, <2>1 DEF CloseChannel, LoseRequest, LoseResponse, RoutineEnds, Reboot, PowerCycle
  <2>3. rsp \in Seq(Response) /\ A8 \in Response
    BY DEF A8, Response, Kinds, ControllerTypeOK
  <2>4. rsp' # Append(rsp, A8)
    <3>2. \A n \in DOMAIN Append(rsp, A8) :
             (n \in DOMAIN rsp /\ Append(rsp, A8)[n] = rsp[n]) \/ Append(rsp, A8)[n] = A8
      BY <2>3, AppendFacts
    <3> QED BY <1>p, <1>n, <1>a, <3>2
  <2>5. i + 1 \in DOMAIN rsp /\ rsp'[i] = rsp[i + 1]
    BY <1>p, <2>2, <2>3, <2>4, TailFacts
  <2> QED BY <1>n, <2>5
<1> QED BY <1>1, <1>2, <1>3, <1>4, <1>5, <1>6, <1>7, <1>8, <1>9
        DEF ControllerNext, ControllerSteps, LinkSteps, Serve

--------------------------------------------------------------------------------
(***************************************************************************)
(* The controller and the link preserve the invariant.                     *)
(***************************************************************************)

\* Except at 82 a request and its answer are not under way together.
LEMMA OneOfTheTwo ==
    ASSUME QueueInv, pc \in Exchanges, pc # "stop82", Answered
    PROVE  req = <<>> /\ awaiting
  BY DEF QueueInv, Answered, Positive, A8

\* The request that is acted upon is one the tester may still have out.
LEMMA HeadOutstanding ==
    ASSUME TypeOK, QueueInv, req # <<>>
    PROVE  req[1].sid \in Outstanding /\ 1 \in DOMAIN req /\ req[1] \in Request
  BY HeadIsFirst DEF TypeOK, QueueInv

\* The controller and the link leave the queues as the tester expects them.
LEMMA EnvironmentQueue ==
    ASSUME TypeOK, QueueInv, ControllerNext, UNCHANGED hostVars
    PROVE  QueueInv'
<1>0. QueueStep
  BY ControllerQueueStep DEF TypeOK
<1>1. /\ pc' = pc /\ awaiting' = awaiting /\ polls' = polls
      /\ Outstanding' = Outstanding /\ (pc \in Exchanges)' = (pc \in Exchanges)
  BY DEF hostVars, Outstanding
<1>2. /\ req \in Seq(Request) /\ rsp \in Seq(Response)
      /\ Len(req) \in Nat /\ DOMAIN req = 1..Len(req) /\ Len(rsp) \in Nat /\ DOMAIN rsp = 1..Len(rsp)
      /\ req # <<>> => 1 \in DOMAIN req
  BY LenProperties, TailFacts DEF TypeOK, ControllerTypeOK
<1>r. req' \in Seq(Request) /\ Len(req') \in Nat
  BY ControllerType, LenProperties DEF TypeOK, ControllerTypeOK
<1>9. (open \/ req # <<>> => mode # "reset")'
  <2>1. open \/ req # <<>> => mode # "reset"
    BY DEF QueueInv
  <2>2. open' \/ req' # <<>> => open \/ req # <<>>
    BY <1>0, OpenStays DEF QueueStep
  <2> QED BY <2>1, <2>2, ControllerEffect DEF TypeOK, ServeErase, ServeTransfer,
       ServeEnterLoader, ServeCommit, Reboot, PowerCycle
<1>3. \A i \in DOMAIN req' : req'[i].sid \in Outstanding'
  BY <1>0, <1>1 DEF QueueStep, QueueInv
<1>4. \A i, j \in DOMAIN req' : req'[i].sid \in Committing => req'[j].sid \in Committing
  BY <1>0 DEF QueueStep, QueueInv
<1>5. PollsInv'
  BY <1>1 DEF PollsInv, QueueInv
<1>6. ASSUME pc \in Exchanges
      PROVE  /\ req' # <<>> => open'
             /\ \A i \in DOMAIN rsp' : rsp'[i] = A8 \/ rsp'[i].to \in Outstanding
  BY <1>0, <1>1, <1>2, <1>6 DEF QueueStep, QueueInv
<1>7. ASSUME pc \in Exchanges, pc # "stop82"
      PROVE  /\ awaiting \/ (req' = <<>> /\ \A i \in DOMAIN rsp' : rsp'[i] = A8)
             /\ Len(req') <= 1
             /\ req' # <<>> => \A i \in DOMAIN rsp' : rsp'[i] = A8
             /\ \A i, j \in DOMAIN rsp' : rsp'[i] # A8 /\ rsp'[j] # A8 => i = j
  <2>0. /\ awaiting \/ (req = <<>> /\ \A i \in DOMAIN rsp : rsp[i] = A8)
        /\ Len(req) <= 1
        /\ req # <<>> => \A i \in DOMAIN rsp : rsp[i] = A8
        /\ \A i, j \in DOMAIN rsp : rsp[i] # A8 /\ rsp[j] # A8 => i = j
    BY <1>7 DEF QueueInv
  <2>1. awaiting \/ (req' = <<>> /\ \A i \in DOMAIN rsp' : rsp'[i] = A8)
    BY <1>0, <2>0 DEF QueueStep
  <2>2. Len(req') <= 1
    BY <1>0, <1>2, <1>r, <2>0 DEF QueueStep
  <2>3. req' # <<>> => \A i \in DOMAIN rsp' : rsp'[i] = A8
    BY <1>0, <2>0 DEF QueueStep
  <2>4. ASSUME NEW i \in DOMAIN rsp', NEW j \in DOMAIN rsp', rsp'[i] # A8, rsp'[j] # A8
        PROVE  i = j
    <3>1. CASE req = <<>>
      <4>1. LoseResponse => rsp' = Tail(rsp) /\ rsp # <<>>
        BY DEF LoseResponse
      <4>2. i \in Nat /\ j \in Nat
        <5>1. rsp' \in Seq(Response)
          BY ControllerType DEF TypeOK, ControllerTypeOK
        <5>2. DOMAIN rsp' = 1..Len(rsp')
          BY <5>1, LenProperties
        <5> QED BY <2>4, <5>2
      <4>3. CASE i \in DOMAIN rsp /\ rsp'[i] = rsp[i] /\ ~LoseResponse
        BY <1>0, <2>0, <2>4, <3>1, <4>3 DEF QueueStep
      <4>4. CASE LoseResponse
        <5>1. /\ i + 1 \in DOMAIN rsp /\ rsp'[i] = rsp[i + 1]
              /\ j + 1 \in DOMAIN rsp /\ rsp'[j] = rsp[j + 1]
          BY <1>2, <2>4, <4>1, <4>4, TailFacts
        <5>2. i + 1 = j + 1
          BY <2>0, <2>4, <5>1
        <5> QED BY <4>2, <5>2
      <4>5. CASE ~LoseResponse
        BY <1>0, <2>0, <2>4, <3>1, <4>5 DEF QueueStep
      <4> QED BY <4>4, <4>5
    <3>2. CASE req # <<>>
      <4>1. \A k \in DOMAIN rsp : rsp[k] = A8
        BY <2>0, <3>2
      <4>2. i = Len(rsp) + 1 /\ j = Len(rsp) + 1
        BY <1>0, <2>4, <4>1 DEF QueueStep
      <4> QED BY <4>2
    <3> QED BY <3>1, <3>2
  <2> QED BY <2>1, <2>2, <2>3, <2>4
<1>8. ASSUME pc = "stop82", ~awaiting
      PROVE  /\ \A i \in DOMAIN req' : req'[i].sid = "stop20"
             /\ \A i \in DOMAIN rsp' : rsp'[i] = A8 \/ rsp'[i].to = "stop20"
  <2>0. /\ \A i \in DOMAIN req : req[i].sid = "stop20"
        /\ \A i \in DOMAIN rsp : rsp[i] = A8 \/ rsp[i].to = "stop20"
    BY <1>8 DEF QueueInv, Exchanges, Services
  <2> QED BY <1>0, <1>2, <2>0 DEF QueueStep
<1> QED BY <1>1, <1>3, <1>4, <1>5, <1>6, <1>7, <1>8, <1>9 DEF QueueInv

\* Nothing changes the flash before a request to erase is out.
LEMMA EnvironmentMark ==
    ASSUME TypeOK, QueueInv, MarkInv, ControllerNext, UNCHANGED hostVars
    PROVE  MarkInv'
<1>1. ASSUME Untouched PROVE Untouched'
  <2>1. \A i \in DOMAIN req' : \E j \in DOMAIN req : req'[i] = req[j]
    BY ControllerQueueStep DEF TypeOK, QueueStep
  <2>2. req # <<>> => req[1].sid \notin {"erase", "transfer"}
    BY <1>1, HeadOutstanding DEF Untouched
  <2>3. flash' = flash
    BY <2>2, ControllerEffect DEF TypeOK
  <2>4. before' = before
    BY DEF hostVars
  <2> QED BY <1>1, <2>1, <2>3, <2>4 DEF Untouched
<1>2. pc' = pc /\ awaiting' = awaiting /\ recovery' = recovery /\ last' = last
  BY DEF hostVars
<1> QED BY <1>1, <1>2 DEF MarkInv

\* A positive answer to erase means a blank flash.
LEMMA EnvironmentErase ==
    ASSUME TypeOK, QueueInv, ProgressInv, ControllerNext, UNCHANGED hostVars, pc = "erase", Answered'
    PROVE  flash' = BlankFlash /\ (ram'.routine = "erase" => ram'.wp = 1)
<1>0. pc' = pc
  BY DEF hostVars
<1>1. CASE Answered
  <2>1. req = <<>>
    BY <1>1, OneOfTheTwo DEF Exchanges, Services
  <2>2. flash = BlankFlash /\ (ram.routine = "erase" => ram.wp = 1) /\ ram \in Ram
    BY <1>1 DEF ProgressInv, TypeOK, ControllerTypeOK
  <2>3. /\ flash' = flash
        /\ \/ ram' = ram
           \/ ram' = Ram0
           \/ ram' = [ram EXCEPT !.phase = "done"]
           \/ ram' = [ram EXCEPT !.phase = "failed"]
    BY <2>1, ControllerEffect DEF TypeOK, RoutineEnds, Reboot, PowerCycle
  <2> QED BY <2>2, <2>3 DEF Ram, Ram0
<1>2. CASE ~Answered
  BY <1>0, <1>2, PositiveEffect DEF TypeOK, Answered, Effect
<1> QED BY <1>1, <1>2

\* The flash stays blank, and the loader at its start, while erase is polled.
LEMMA EnvironmentErasing ==
    ASSUME TypeOK, QueueInv, ProgressInv, ControllerNext, UNCHANGED hostVars, pc \in Erasing
    PROVE  /\ flash' = BlankFlash
           /\ ram'.routine = "erase" => ram'.wp = 1
           /\ pc = "eraseResult" /\ Answered' /\ open' =>
                ram'.routine = "erase" /\ ram'.phase = "done"
<1>0. pc' = pc
  BY DEF hostVars
<1>1. req # <<>> => req[1].sid = "eraseResult"
  BY HeadOutstanding DEF Erasing, Outstanding, Exchanges, Services
<1>2. /\ flash = BlankFlash /\ ram \in Ram
      /\ ram.routine = "erase" => ram.wp = 1
      /\ pc = "eraseResult" /\ Answered /\ open => ram.routine = "erase" /\ ram.phase = "done"
  BY DEF ProgressInv, TypeOK, ControllerTypeOK
<1>3. /\ flash' = flash
      /\ \/ ram' = ram
         \/ ram' = Ram0
         \/ ram.phase = "running" /\ ram' = [ram EXCEPT !.phase = "done"]
         \/ ram.phase = "running" /\ ram' = [ram EXCEPT !.phase = "failed"]
  BY <1>1, ControllerEffect DEF TypeOK, RoutineEnds, Reboot, PowerCycle
<1>4. ram'.routine = "erase" => ram'.wp = 1
  BY <1>2, <1>3 DEF Ram, Ram0
<1>5. ASSUME pc = "eraseResult", Answered', open'
      PROVE  ram'.routine = "erase" /\ ram'.phase = "done"
  <2>1. CASE Answered
    <3>1. open /\ mode # "reset"
      BY <1>5, OpenStays DEF QueueInv
    <3>2. ram.routine = "erase" /\ ram.phase = "done"
      BY <1>2, <1>5, <2>1, <3>1
    <3>3. ram' = ram
      BY <1>1, <1>5, <3>1, <3>2, ControllerEffect DEF TypeOK, RoutineEnds, Reboot, PowerCycle
    <3> QED BY <3>2, <3>3
  <2>2. CASE ~Answered
    BY <1>0, <1>5, <2>2, PositiveEffect DEF TypeOK, Answered, Effect
  <2> QED BY <2>1, <2>2
<1> QED BY <1>2, <1>3, <1>4, <1>5

\* A block goes to the loader's pointer, which moves when the answer is on its way.
LEMMA EnvironmentTransfer ==
    ASSUME TypeOK, QueueInv, QueueInv', ProgressInv, ControllerNext, UNCHANGED hostVars, pc = "transfer"
    PROVE  /\ \A i \in DOMAIN req' : req'[i].blk = off
           /\ \/ Written(off)' /\ AtBlock(off)' /\ ~Answered'
              \/ Written(off + 1)' /\ AtBlock(off + 1)' /\ awaiting' /\ req' = <<>>
<1>0. pc' = pc /\ awaiting' = awaiting /\ off' = off
  BY DEF hostVars
<1>1. /\ req # <<>> => req[1].sid = "transfer" /\ open /\ awaiting /\ 1 \in DOMAIN req
      /\ Len(req) <= 1 /\ Len(req) \in Nat
      /\ open' => open /\ mode # "reset"
  <2>1. req # <<>> => req[1].sid = "transfer" /\ 1 \in DOMAIN req
    BY HeadOutstanding DEF Outstanding, Exchanges, Services
  <2>2. /\ req # <<>> => open /\ awaiting
        /\ Len(req) <= 1
        /\ open => mode # "reset"
    BY DEF QueueInv, Exchanges, Services
  <2>3. Len(req) \in Nat
    BY LenProperties DEF TypeOK, ControllerTypeOK
  <2> QED BY <2>1, <2>2, <2>3, OpenStays
<1>2. \A i \in DOMAIN req' : req'[i].blk = off
  <2>1. \A i \in DOMAIN req : req[i].blk = off
    BY DEF ProgressInv
  <2> QED BY <2>1, ControllerQueueStep DEF TypeOK, QueueStep
<1>3. off \in Nat /\ ram \in Ram /\ flash \in [Blocks -> {Old, Blank} \cup Blocks]
  BY DEF TypeOK, ControllerTypeOK, HostTypeOK, Blocks
<1>4. CASE ServeTransfer
  <2>1. req # <<>>
    BY <1>4 DEF ServeTransfer, Accepted, Asked
  <2>2. Written(off) /\ AtBlock(off)
    BY <2>1, <1>0 DEF ProgressInv
  <2>3. req' = <<>> /\ open' = open
    BY <1>1, <1>4, <2>1, ReplyStep, HeadIsFirst DEF ServeTransfer, Reply, QueueStep, Kinds, TypeOK
  <2>4. ram.routine = "erase" /\ ram.phase = "done" /\ ram.wp = off
    BY <1>1, <2>1, <2>2 DEF AtBlock
  <2>5. flash' = [flash EXCEPT ![off] = off]
    <3>1. Head(req).blk = off
      BY <1>1, <2>1, HeadIsFirst DEF ProgressInv, TypeOK
    <3> QED BY <1>4, <2>4, <3>1 DEF ServeTransfer
  <2>6. Written(off + 1)'
    <3>1. flash' = [i \in Blocks |-> IF i < off + 1 THEN i ELSE Blank]
      <4>1. flash = [i \in Blocks |-> IF i < off THEN i ELSE Blank]
        BY <2>2 DEF Written
      <4>2. \A i \in Blocks : (i < off + 1) <=> (i < off \/ i = off)
        BY <1>3 DEF Blocks
      <4> QED BY <2>5, <4>1, <4>2
    <3> QED BY <1>0, <3>1 DEF Written
  <2>7. AtBlock(off + 1)'
    BY <1>0, <1>3, <1>4, <2>4 DEF AtBlock, ServeTransfer, Ram
  <2> QED BY <1>0, <1>1, <1>2, <2>1, <2>3, <2>6, <2>7
<1>5. CASE ~ServeTransfer
  <2>1. flash' = flash
    BY <1>1, <1>5, ControllerEffect DEF TypeOK
  <2>2. ASSUME open', ram.routine = "erase", ram.phase = "done" PROVE ram' = ram
    BY <1>1, <1>5, <2>2, ControllerEffect DEF TypeOK, RoutineEnds, Reboot, PowerCycle
  <2>3. CASE Written(off) /\ AtBlock(off) /\ ~Answered
    <3>1. Written(off)' /\ AtBlock(off)'
      BY <1>0, <1>1, <2>1, <2>2, <2>3 DEF Written, AtBlock
    <3>2. ASSUME Answered' PROVE FALSE
      <4>1. Effect("transfer")
        BY <1>0, <2>3, <3>2, PositiveEffect DEF TypeOK, Answered
      <4> QED BY <1>5, <4>1 DEF Effect
    <3> QED BY <1>2, <3>1, <3>2
  <2>4. CASE Written(off + 1) /\ AtBlock(off + 1) /\ awaiting /\ req = <<>>
    <3>1. Written(off + 1)' /\ AtBlock(off + 1)'
      BY <1>0, <1>1, <2>1, <2>2, <2>4 DEF Written, AtBlock
    <3>2. req' = <<>>
      BY <2>4, ControllerQueueStep DEF TypeOK, QueueStep
    <3> QED BY <1>0, <1>2, <2>4, <3>1, <3>2
  <2> QED BY <2>3, <2>4 DEF ProgressInv
<1> QED BY <1>4, <1>5

\* Together: the flash holds what the tester's progress says, on every step.
LEMMA EnvironmentProgress ==
    ASSUME TypeOK, QueueInv, QueueInv', ProgressInv, ControllerNext, UNCHANGED hostVars
    PROVE  ProgressInv'
<1>0. pc' = pc /\ off' = off
  BY DEF hostVars
<1>1. ASSUME pc \in AfterTransfer PROVE flash' = Image
  <2>1. req # <<>> => req[1].sid \notin {"erase", "transfer"}
    BY <1>1, HeadOutstanding DEF AfterTransfer, Outstanding, Exchanges, Services, Committing
  <2> QED BY <1>1, <2>1, ControllerEffect DEF ProgressInv, TypeOK
<1> QED BY <1>0, <1>1, EnvironmentErase, EnvironmentErasing, EnvironmentTransfer DEF ProgressInv

\* The outcome of the checksum outlives everything but the end of the session.
LEMMA SumStays ==
    ASSUME TypeOK, QueueInv, ControllerNext, SumDone, open' \/ req' # <<>>,
           req # <<>> => req[1].sid \in Committing
    PROVE  SumDone'
<1>1. open \/ req # <<>>
  BY ControllerQueueStep, OpenStays DEF TypeOK, QueueStep
<1>2. mode # "reset"
  BY <1>1 DEF QueueInv
<1>3. ram \in Ram /\ (req # <<>> => Head(req) = req[1])
  BY HeadIsFirst DEF TypeOK, ControllerTypeOK
<1>4. CASE ServeSession /\ req # <<>>
  <2>1. ram' = [ram EXCEPT !.stopped = TRUE]
    BY <1>3, <1>4 DEF ServeSession, Accepted, Asked, Committing
  <2> QED BY <1>3, <2>1 DEF SumDone, Ram
<1> QED BY <1>2, <1>3, <1>4, ControllerEffect
        DEF TypeOK, SumDone, ServeCommit, RoutineEnds, Reboot, PowerCycle, Committing

\* The loader found the image right, and remembers it, when a commit can reach it.
LEMMA EnvironmentCheck ==
    ASSUME TypeOK, QueueInv, ProgressInv', CheckInv, ControllerNext, UNCHANGED hostVars
    PROVE  CheckInv'
<1>0. pc' = pc
  BY DEF hostVars
<1>q. QueueStep
  BY ControllerQueueStep DEF TypeOK
<1>1. ASSUME NEW i \in DOMAIN req', req'[i].sid \in Committing
      PROVE  SumDone' /\ flash' = Image
  <2>1. PICK j \in DOMAIN req : req'[i] = req[j]
    BY <1>q DEF QueueStep
  <2>2. req # <<>> /\ req' # <<>>
    <3>1. req' \in Seq(Request) /\ req \in Seq(Request)
      BY ControllerType DEF TypeOK, ControllerTypeOK
    <3> QED BY <1>1, <2>1, <3>1
  <2>3. req[1].sid \in Committing
    BY <1>1, <2>1, <2>2, HeadOutstanding DEF QueueInv
  <2>4. SumDone /\ flash = Image
    BY <1>1, <2>1 DEF CheckInv, ChecksumBeforeCommit, SumDone
  <2>5. SumDone'
    BY <2>2, <2>3, <2>4, SumStays
  <2>6. flash' = flash
    BY <2>3, ControllerEffect DEF TypeOK, Committing
  <2> QED BY <2>4, <2>5, <2>6
<1>2. ASSUME pc = "checksumResult", Answered', open' PROVE SumDone'
  <2>1. CASE Answered
    <3>1. req = <<>> /\ open
      BY <1>2, <2>1, OneOfTheTwo, OpenStays DEF Exchanges, Services
    <3> QED BY <1>2, <2>1, <3>1, SumStays DEF CheckInv
  <2>2. CASE ~Answered
    BY <1>0, <1>2, <2>2, PositiveEffect DEF TypeOK, Answered, Effect, SumDone
  <2> QED BY <2>1, <2>2
<1>3. ASSUME pc \in Committing, open' PROVE SumDone'
  <2>1. SumDone
    BY <1>3, OpenStays DEF CheckInv
  <2>2. req # <<>> => req[1].sid \in Committing
    BY <1>3, HeadOutstanding DEF Outstanding, Committing, Exchanges, Services
  <2> QED BY <1>3, <2>1, <2>2, SumStays
<1> QED BY <1>0, <1>1, <1>2, <1>3 DEF CheckInv, ChecksumBeforeCommit, SumDone

\* An accepted 20 is remembered for as long as the channel lives.
LEMMA StoppedStays ==
    ASSUME TypeOK, QueueInv, ControllerNext, ram.stopped, open'
    PROVE  ram'.stopped
<1>1. mode # "reset" /\ ram \in Ram
  BY OpenStays DEF QueueInv, TypeOK, ControllerTypeOK
<1>2. CASE ServeSession
  BY <1>1, <1>2 DEF ServeSession, Ram
<1>3. CASE ServeErase \/ ServeTransfer \/ RoutineEnds
  <2>1. \/ ram' = [ram EXCEPT !.routine = "erase", !.phase = "running", !.wp = 1]
        \/ ram' = [ram EXCEPT !.wp = @ + 1]
        \/ ram' = [ram EXCEPT !.phase = "done"]
        \/ ram' = [ram EXCEPT !.phase = "failed"]
    BY <1>3 DEF ServeErase, ServeTransfer, RoutineEnds
  <2>2. ram'.stopped = ram.stopped
    BY <1>1, <2>1 DEF Ram
  <2> QED BY <2>2
<1> QED BY <1>1, <1>2, <1>3, ControllerEffect
        DEF TypeOK, ServeEnterLoader, ServeCommit, Reboot, PowerCycle

\* A committed application runs, whatever happens to the controller.
LEMMA ProgrammedStays ==
    ASSUME TypeOK, QueueInv, ControllerNext, Programmed, req # <<>> => req[1].sid # "session85"
    PROVE  Programmed'
<1>1. ram \in Ram /\ Image \in {OldImage, Image} /\ ~Ram0.stay
  BY DEF TypeOK, ControllerTypeOK, Ram0
<1>2. CASE ServeSession /\ UNCHANGED <<mode, flash, committed>>
  <2>1. ram'.stay = ram.stay
    BY <1>1, <1>2 DEF ServeSession, Ram
  <2> QED BY <1>2, <2>1 DEF Programmed
<1>3. CASE Reboot
  BY <1>1, <1>3 DEF Programmed, Reboot
<1> QED BY <1>1, <1>2, <1>3, ControllerEffect DEF TypeOK, Programmed, RoutineEnds, PowerCycle

\* Acknowledged commit services mean a committed application.
LEMMA EnvironmentCommit ==
    ASSUME TypeOK, QueueInv, ProgressInv, ProgressInv', CommitInv, ControllerNext, UNCHANGED hostVars
    PROVE  CommitInv'
<1>0. pc' = pc /\ last' = last
  BY DEF hostVars
<1>1. ASSUME pc = "stop20", Answered', open' PROVE ram'.stopped
  <2>1. CASE Answered
    BY <1>1, <2>1, StoppedStays, OpenStays DEF CommitInv
  <2>2. CASE ~Answered
    BY <1>0, <1>1, <2>2, PositiveEffect DEF TypeOK, Answered, Effect
  <2> QED BY <2>1, <2>2
<1>2. ASSUME pc = "stop82", "stop20" \in last.acked
      PROVE  (open' => ram'.stopped) /\ (Answered' => Programmed')
  <2>1. open => ram.stopped
    BY <1>2 DEF CommitInv
  <2>2. open' => ram'.stopped
    BY <2>1, StoppedStays, OpenStays
  <2>3. CASE Answered
    <3>1. req # <<>> => req[1].sid # "session85"
      BY <1>2, HeadOutstanding DEF Outstanding, Committing
    <3> QED BY <1>2, <2>2, <2>3, <3>1, ProgrammedStays DEF CommitInv
  <2>4. ASSUME Answered', ~Answered PROVE Programmed'
    <3>1. open /\ Effect("stop82")
      BY <1>0, <1>2, <2>4, PositiveEffect DEF TypeOK, Answered
    <3>2. flash' = Image
      BY <1>0, <1>2 DEF ProgressInv, AfterTransfer
    <3> QED BY <2>1, <3>1, <3>2 DEF Effect, Programmed, Ram0
  <2> QED BY <2>2, <2>3, <2>4
<1>3. ASSUME pc \in Verifying, Acknowledged PROVE Programmed'
  <2>1. req # <<>> => req[1].sid # "session85"
    BY <1>3, HeadOutstanding DEF Outstanding, Committing, Verifying, Exchanges, Services
  <2> QED BY <1>3, <2>1, ProgrammedStays DEF CommitInv
<1>4. ASSUME pc = "idle", last.status = "ok" PROVE Programmed' /\ req' = <<>>
  <2>1. Programmed /\ req = <<>>
    BY <1>4 DEF CommitInv
  <2>2. req' = <<>>
    BY <2>1, ControllerQueueStep DEF TypeOK, QueueStep
  <2> QED BY <2>1, <2>2, ProgrammedStays
<1>5. Acknowledged' = Acknowledged
  BY <1>0 DEF Acknowledged
<1> QED BY <1>0, <1>1, <1>2, <1>3, <1>4, <1>5 DEF CommitInv

\* The loader stays ready for the block that is on its way.
LEMMA EnvironmentBlocks ==
    ASSUME TypeOK, QueueInv, TransferInv, ControllerNext
    PROVE  TransferInv'
<1>q. QueueStep
  BY ControllerQueueStep DEF TypeOK
<1>1. SUFFICES ASSUME NEW i \in DOMAIN req', req'[i].sid = "transfer"
               PROVE  /\ ram'.routine = "erase" /\ ram'.phase = "done" /\ ram'.wp = req'[i].blk
                      /\ Len(req') <= 1
  BY DEF TransferInv, InStep
<1>2. PICK j \in DOMAIN req : req'[i] = req[j]
  BY <1>q DEF QueueStep
<1>3. /\ ram.routine = "erase" /\ ram.phase = "done" /\ ram.wp = req[j].blk /\ Len(req) <= 1
      /\ req \in Seq(Request) /\ Len(req) \in Nat /\ DOMAIN req = 1..Len(req)
      /\ req' \in Seq(Request) /\ Len(req') \in Nat
  BY <1>1, <1>2, ControllerType, LenProperties DEF TypeOK, ControllerTypeOK, TransferInv, InStep
<1>4. j = 1 /\ req # <<>> /\ req' # <<>> /\ Len(req') <= 1
  BY <1>1, <1>2, <1>3, <1>q DEF QueueStep
<1>5. mode # "reset" /\ Head(req) = req[1]
  BY <1>4, HeadIsFirst DEF QueueInv, TypeOK
<1>6. ~ServeTransfer
  <2>1. ASSUME ServeTransfer PROVE Len(req') = Len(req) - 1
    BY <1>3, <1>4, <2>1, TailFacts DEF ServeTransfer, Reply
  <2>2. ASSUME Len(req') = Len(req) - 1 PROVE FALSE
    <3>1. Len(req') = 0
      BY <1>3, <2>2
    <3> QED BY <1>3, <1>4, <3>1, EmptySeq
  <2> QED BY <2>1, <2>2
<1>7. ram' = ram
  BY <1>1, <1>2, <1>3, <1>4, <1>5, <1>6, ControllerEffect DEF TypeOK, RoutineEnds, Reboot, PowerCycle
<1> QED BY <1>2, <1>3, <1>4, <1>7

\* The controller and the link preserve the inductive invariant.
LEMMA EnvironmentStep == IInv /\ Environment => IInv'
<1> SUFFICES ASSUME IInv, ControllerNext, UNCHANGED hostVars PROVE IInv'
  BY DEF Environment
<1>1. HostTypeOK'
  BY DEF IInv, TypeOK, HostTypeOK, hostVars
<1>2. TypeOK'
  BY <1>1, ControllerType DEF IInv, TypeOK
<1>3. QueueInv'
  BY EnvironmentQueue DEF IInv
<1>4. ProgressInv'
  BY <1>3, EnvironmentProgress DEF IInv
<1> QED BY <1>2, <1>3, <1>4, EnvironmentMark, EnvironmentBlocks, EnvironmentCheck, EnvironmentCommit DEF IInv

--------------------------------------------------------------------------------
(***************************************************************************)
(* The host preserves the invariant.                                       *)
(***************************************************************************)

\* A step that leaves the session and the requests alone leaves the block ready.
LEMMA TransferKept ==
    ASSUME TransferInv, UNCHANGED <<ram, req>> PROVE TransferInv'
  BY DEF TransferInv, InStep

\* With no request out, no block is on its way.
LEMMA TransferNone ==
    ASSUME req' = <<>> PROVE TransferInv'
<1>1. DOMAIN req' = {}
  OBVIOUS
<1> QED BY <1>1 DEF TransferInv, InStep

\* The invariant is about these variables only, the types aside.
LEMMA Unaffected ==
    ASSUME IInv, TypeOK',
           UNCHANGED <<mode, ram, flash, committed, open, req, rsp, pc, awaiting, polls, off,
                       recovery, last, before>>
    PROVE  IInv'
<1>1. QueueInv'
  BY DEF IInv, QueueInv, Outstanding, PollsInv
<1>2. MarkInv'
  BY DEF IInv, MarkInv, Untouched
<1>3. ProgressInv'
  BY DEF IInv, ProgressInv, Answered, Positive, Written, AtBlock
<1>4. CheckInv'
  BY DEF IInv, CheckInv, ChecksumBeforeCommit, SumDone, Answered, Positive
<1>5. CommitInv'
  BY DEF IInv, CommitInv, Answered, Positive, Programmed, Acknowledged
<1> QED BY <1>1, <1>2, <1>3, <1>4, <1>5, TransferKept DEF IInv

\* A run that ends with an exception.
LEMMA HostFails ==
    ASSUME IInv, TypeOK', pc # "idle", NEW r \in LastResult, NEW e, FailWith(r, e), UNCHANGED <<ecu, req>>
    PROVE  IInv'
<1>0. /\ pc' = "idle" /\ awaiting' = FALSE /\ open' = FALSE /\ before' = before /\ req' = req
      /\ recovery' = recovery /\ flash' = flash /\ ram' = ram /\ mode' = mode
      /\ last'.status = IF recovery THEN "recovery_required" ELSE "error"
  BY DEF FailWith, ecu, LastResult
<1>1. QueueInv'
  <2>1. Outstanding' = Services
    BY <1>0 DEF Outstanding, Exchanges, Services
  <2>2. \A i \in DOMAIN req : req[i].sid \in Services
    <3>1. \A i \in DOMAIN req : req[i] \in Request
      BY DEF IInv, TypeOK, ControllerTypeOK
    <3> QED BY <3>1 DEF Request
  <2> QED BY <1>0, <2>1, <2>2 DEF IInv, QueueInv, PollsInv, Exchanges, Services
<1>2. MarkInv'
  <2>1. ~recovery => Untouched
    BY DEF IInv, MarkInv, TypeOK, HostTypeOK
  <2>2. Untouched => Untouched'
    BY <1>0 DEF Untouched
  <2> QED BY <1>0, <2>1, <2>2 DEF MarkInv, BeforeErase, Connecting, Exchanges, Services
<1>3. ProgressInv'
  BY <1>0 DEF ProgressInv, Erasing, AfterTransfer
<1>4. CheckInv'
  BY <1>0 DEF IInv, CheckInv, ChecksumBeforeCommit, Committing
<1>5. CommitInv'
  BY <1>0 DEF CommitInv, BeforeErase, Erasing, Verifying
<1> QED BY <1>1, <1>2, <1>3, <1>4, <1>5, TransferKept DEF IInv, ecu

\* The tester gives the channel up, and opens another.
LEMMA HostReconnects ==
    ASSUME IInv, TypeOK', awaiting, pc \in DOMAIN ReconnectStage, Reconnect(ReconnectStage[pc]),
           UNCHANGED <<ecu, req>>
    PROVE  IInv'
<1>0. /\ pc' = ReconnectStage[pc] /\ awaiting' = FALSE /\ open' = FALSE /\ before' = before /\ req' = req
      /\ recovery' = recovery /\ flash' = flash /\ ram' = ram /\ mode' = mode /\ last' = last
      /\ pc \in {"session85", "eraseResult", "checksumResult"}
  BY DEF Reconnect, ReconnectStage, ecu
<1>p. /\ pc = "session85" => pc' = "reconnLoader"
      /\ pc = "eraseResult" => pc' = "reconnErase"
      /\ pc = "checksumResult" => pc' = "reconnChecksum"
  BY <1>0 DEF ReconnectStage
<1>1. QueueInv'
  <2>1. Outstanding' = Outstanding
    BY <1>0, <1>p DEF Outstanding, Exchanges, Services
  <2> QED BY <1>0, <1>p, <2>1 DEF IInv, QueueInv, PollsInv, Exchanges, Services
<1>2. MarkInv'
  <2>1. Untouched => Untouched'
    BY <1>0 DEF Untouched
  <2> QED BY <1>0, <1>p, <2>1 DEF IInv, MarkInv, BeforeErase, Connecting, Exchanges, Services
<1>3. ProgressInv'
  BY <1>0, <1>p DEF IInv, ProgressInv, Erasing, AfterTransfer
<1>4. CheckInv'
  BY <1>0, <1>p DEF IInv, CheckInv, ChecksumBeforeCommit, Committing
<1>5. CommitInv'
  BY <1>0, <1>p DEF IInv, CommitInv, BeforeErase, Erasing, Verifying
<1> QED BY <1>1, <1>2, <1>3, <1>4, <1>5, TransferKept DEF IInv, ecu

\* 20 and 82 are behind the tester, answered or not.
LEMMA HostCommits ==
    ASSUME IInv, TypeOK', awaiting, pc \in Committing, NEW a, CommitStep(a),
           a = {} \/ (a = {pc} /\ Answered), UNCHANGED <<ecu, req>>,
           \A i \in DOMAIN rsp' : rsp'[i] = A8 \/ rsp'[i].to \in Outstanding
    PROVE  IInv'
<1>0. /\ awaiting' = FALSE /\ before' = before /\ req' = req
      /\ recovery' = recovery /\ flash' = flash /\ ram' = ram /\ mode' = mode /\ committed' = committed
      /\ last'.acked = last.acked \cup a
      /\ pc = "stop20" => pc' = "stop82" /\ open' = open
      /\ pc = "stop82" => pc' = "verify" /\ open' = FALSE
      /\ pc \in {"stop20", "stop82"}
  BY DEF CommitStep, ecu, Committing, IInv, TypeOK, HostTypeOK, LastResult
<1>1. QueueInv'
  <2>1. Outstanding' = Committing
    BY <1>0 DEF Outstanding, Exchanges, Services
  <2>2. Outstanding \subseteq Committing /\ (pc = "stop20" => Outstanding = {"stop20"})
    BY <1>0 DEF Outstanding, Exchanges, Services, Committing
  <2>3. CASE pc = "stop20"
    BY <1>0, <2>1, <2>2, <2>3 DEF IInv, QueueInv, PollsInv, Exchanges, Services
  <2>4. CASE pc = "stop82"
    BY <1>0, <2>1, <2>2, <2>4 DEF IInv, QueueInv, PollsInv, Exchanges, Services
  <2> QED BY <1>0, <2>3, <2>4
<1>2. MarkInv'
  BY <1>0 DEF IInv, MarkInv, BeforeErase, Connecting, Exchanges, Services
<1>3. ProgressInv'
  BY <1>0 DEF IInv, ProgressInv, Erasing, AfterTransfer
<1>4. CheckInv'
  BY <1>0 DEF IInv, CheckInv, ChecksumBeforeCommit, SumDone, Committing
<1>5. CommitInv'
  <2>1. CASE pc = "stop20"
    <3>1. ~Answered'
      <4>1. \A i \in DOMAIN rsp' : rsp'[i] = A8 \/ rsp'[i].to = "stop20"
        BY <2>1 DEF Outstanding, Exchanges, Services
      <4> QED BY <1>0, <2>1, <4>1 DEF Answered, Positive, A8
    <3>2. last.acked = {} /\ (Answered /\ open => ram.stopped)
      BY <2>1 DEF IInv, CommitInv
    <3> QED BY <1>0, <2>1, <3>1, <3>2 DEF CommitInv, BeforeErase, Erasing, Verifying
  <2>2. CASE pc = "stop82"
    <3>1. Acknowledged' => Programmed
      BY <1>0, <2>2 DEF Acknowledged, Committing, IInv, CommitInv
    <3>2. Programmed => Programmed'
      BY <1>0 DEF Programmed
    <3> QED BY <1>0, <2>2, <3>1, <3>2 DEF CommitInv, BeforeErase, Erasing, Verifying
  <2> QED BY <1>0, <2>1, <2>2
<1> QED BY <1>1, <1>2, <1>3, <1>4, <1>5, TransferKept DEF IInv, ecu

\* An exception from a request, by the handler around it.
LEMMA HostRaises ==
    ASSUME IInv, TypeOK', awaiting, NEW e \in Errors, Raise(e), UNCHANGED <<ecu, req>>,
           \A i \in DOMAIN rsp' : \E j \in DOMAIN rsp : rsp'[i] = rsp[j]
    PROVE  IInv'
<1>0. pc \in Exchanges /\ last \in LastResult
  BY DEF IInv, QueueInv, PollsInv, TypeOK, HostTypeOK
<1>1. CASE pc \in DOMAIN ReconnectStage /\ e \in {"timeout", "a8"}
  BY <1>1, HostReconnects DEF Raise
<1>2. CASE ~(pc \in DOMAIN ReconnectStage /\ e \in {"timeout", "a8"}) /\ pc \in Committing
  <2>1. \A i \in DOMAIN rsp' : rsp'[i] = A8 \/ rsp'[i].to \in Outstanding
    BY <1>0 DEF IInv, QueueInv
  <2> QED BY <1>2, <2>1, HostCommits DEF Raise
<1>3. CASE ~(pc \in DOMAIN ReconnectStage /\ e \in {"timeout", "a8"}) /\ pc \notin Committing
  BY <1>0, <1>3, HostFails DEF Raise, Fail, Exchanges, Services
<1> QED BY <1>1, <1>2, <1>3

\* The answer to the request that is waited for is at the head: nothing else is
\* under way but an A8 behind it (at 82, also what came of 20).
LEMMA OwnAnswer ==
    ASSUME TypeOK, QueueInv, awaiting, pc # "stop82", rsp # <<>>, Head(rsp).to = pc
    PROVE  /\ req = <<>> /\ Tail(rsp) \in Seq(Response)
           /\ \A i \in DOMAIN Tail(rsp) : Tail(rsp)[i] = A8
           /\ Head(rsp).kind = "pos" => Answered
<1>0. pc \in Exchanges
  BY DEF QueueInv, PollsInv
<1>1. /\ Head(rsp) = rsp[1] /\ 1 \in DOMAIN rsp /\ Tail(rsp) \in Seq(Response)
      /\ \A i \in DOMAIN Tail(rsp) : i \in Nat \ {0} /\ i + 1 \in DOMAIN rsp /\ Tail(rsp)[i] = rsp[i + 1]
  BY TailFacts DEF TypeOK, ControllerTypeOK
<1>2. rsp[1] # A8
  BY <1>0, <1>1 DEF A8, Exchanges, Services
<1>3. req = <<>>
  BY <1>0, <1>1, <1>2 DEF QueueInv
<1>4. ASSUME NEW i \in DOMAIN Tail(rsp) PROVE Tail(rsp)[i] = A8
  <2>1. i + 1 # 1
    BY <1>1
  <2>2. rsp[i + 1] = A8
    BY <1>0, <1>1, <1>2, <2>1 DEF QueueInv
  <2> QED BY <1>1, <2>2
<1> QED BY <1>1, <1>3, <1>4 DEF Answered, Positive

\* The next poll follows a response that the routine is not complete.
LEMMA HostPollsAgain ==
    ASSUME IInv, TypeOK', awaiting, PollAgain, UNCHANGED ecu, req = <<>>, req' = req,
           \A i \in DOMAIN rsp' : rsp'[i] = A8
    PROVE  IInv'
<1>0. /\ pc' = pc /\ awaiting' = FALSE /\ open' = open /\ before' = before /\ req' = <<>>
      /\ recovery' = recovery /\ flash' = flash /\ ram' = ram /\ mode' = mode /\ last' = last
      /\ pc \in {"eraseResult", "checksumResult"}
      /\ DOMAIN req' = {} /\ Len(req') = 0
  BY DEF PollAgain, ecu, Polling
<1>1. ~Answered'
  BY <1>0 DEF Answered, Positive, A8
<1>2. QueueInv'
  BY <1>0 DEF IInv, QueueInv, PollsInv
<1>3. MarkInv'
  BY <1>0 DEF IInv, MarkInv, Untouched
<1>4. ProgressInv'
  BY <1>0, <1>1 DEF IInv, ProgressInv, Erasing, AfterTransfer
<1>5. CheckInv'
  BY <1>0, <1>1 DEF IInv, CheckInv, ChecksumBeforeCommit, SumDone, Committing
<1>6. CommitInv'
  BY <1>0 DEF IInv, CommitInv, BeforeErase, Erasing, Verifying
<1> QED BY <1>2, <1>3, <1>4, <1>5, <1>6, <1>0, TransferNone DEF IInv

\* A statement begins: nothing is under way but an A8, and no response is due.
LEMMA FreshQueue ==
    ASSUME pc' \in Exchanges, awaiting' = FALSE, req' = <<>>, open' => mode' # "reset",
           \A i \in DOMAIN rsp' : rsp'[i] = A8
    PROVE  QueueInv' /\ ~Answered' /\ ChecksumBeforeCommit'
<1>1. DOMAIN req' = {} /\ Len(req') = 0
  OBVIOUS
<1> QED BY <1>1 DEF QueueInv, PollsInv, Answered, Positive, A8, ChecksumBeforeCommit

\* The checks behind the second ident: 'ok', or the run ends without it.
LEMMA HostVerifies ==
    ASSUME IInv, TypeOK', awaiting, pc = "status", Verify, UNCHANGED ecu, req = <<>>, req' = req
    PROVE  IInv'
<1>t. last \in LastResult /\ [last EXCEPT !.boot = TRUE] \in LastResult
  BY DEF IInv, TypeOK, HostTypeOK, LastResult
<1>1. CASE kwp.addr # "app"
  BY <1>1, <1>t, HostFails DEF Verify, Fail
<1>2. CASE kwp.addr = "app" /\ ~Acknowledged
  BY <1>2, <1>t, HostFails DEF Verify
<1>3. CASE kwp.addr = "app" /\ Acknowledged
  <2>d. DOMAIN req' = {}
    OBVIOUS
  <2>l. last' = [last EXCEPT !.status = "ok", !.boot = TRUE]
    BY <1>3 DEF Verify
  <2>0. /\ pc' = "idle" /\ awaiting' = FALSE /\ open' = FALSE /\ req' = <<>>
        /\ DOMAIN req' = {} /\ last'.status = "ok"
        /\ flash' = flash /\ ram' = ram /\ mode' = mode /\ committed' = committed
    BY <1>3, <1>t, <2>d, <2>l DEF Verify, ecu, LastResult
  <2>1. Programmed'
    BY <1>3, <2>0 DEF IInv, CommitInv, Verifying, Programmed
  <2>2. QueueInv' /\ MarkInv'
    BY <2>0 DEF QueueInv, PollsInv, MarkInv, BeforeErase, Exchanges, Services, Connecting
  <2>3. ProgressInv' /\ CheckInv'
    BY <2>0 DEF ProgressInv, Erasing, AfterTransfer, CheckInv, ChecksumBeforeCommit, Committing
  <2>4. CommitInv'
    BY <2>0, <2>1 DEF CommitInv, BeforeErase, Erasing, Verifying
  <2> QED BY <2>2, <2>3, <2>4, <2>0, TransferNone DEF IInv
<1> QED BY <1>1, <1>2, <1>3

\* A positive response, and the statement behind it, short of the commit.
LEMMA HostAdvances ==
    ASSUME IInv, TypeOK', awaiting, Advance, pc \notin Committing \cup {"status", "session85"},
           Answered, UNCHANGED ecu, req = <<>>, req' = req, \A i \in DOMAIN rsp' : rsp'[i] = A8
    PROVE  IInv'
<1>0. /\ awaiting' = FALSE /\ open' = open /\ before' = before /\ req' = <<>>
      /\ recovery' = recovery /\ flash' = flash /\ ram' = ram /\ mode' = mode /\ committed' = committed
      /\ last'.acked = last.acked
      /\ pc' \in CASE pc = "appSeed" -> {"appKey", "session85"}
                   [] pc = "transfer" -> {IF MoreBlocks THEN "transfer" ELSE "exit"}
                   [] OTHER -> {NextStage[pc]}
      /\ off' = IF pc = "eraseResult" THEN 1
                ELSE IF pc = "transfer" /\ MoreBlocks THEN off + 1 ELSE off
  BY DEF Advance, ecu, IInv, TypeOK, HostTypeOK, LastResult
<1>e. pc \in Exchanges
  BY DEF IInv, QueueInv, PollsInv
<1>p. \/ pc = "session89" /\ pc' = "appSeed"
      \/ pc = "appSeed" /\ pc' \in {"appKey", "session85"}
      \/ pc = "appKey" /\ pc' = "session85"
      \/ pc = "loaderSeed" /\ pc' = "loaderKey"
      \/ pc = "loaderKey" /\ pc' = "download"
      \/ pc = "download" /\ pc' = "erase"
      \/ pc = "erase" /\ pc' = "eraseResult"
      \/ pc = "eraseResult" /\ pc' = "transfer"
      \/ pc = "transfer" /\ MoreBlocks /\ pc' = "transfer"
      \/ pc = "transfer" /\ ~MoreBlocks /\ pc' = "exit"
      \/ pc = "exit" /\ pc' = "checksum"
      \/ pc = "checksum" /\ pc' = "checksumResult"
      \/ pc = "checksumResult" /\ pc' = "stop20"
      \/ pc = "ident" /\ pc' = "status"
  BY <1>0, <1>e DEF Exchanges, Services, NextStage, Committing
<1>1. QueueInv' /\ ~Answered' /\ ChecksumBeforeCommit'
  <2>1. pc' \in Exchanges
    BY <1>p DEF Exchanges, Services
  <2>2. open' => mode' # "reset"
    BY <1>0 DEF IInv, QueueInv
  <2> QED BY <1>0, <2>1, <2>2, FreshQueue
<1>2. MarkInv'
  <2>1. Untouched => Untouched'
    BY <1>0 DEF Untouched
  <2> QED BY <1>0, <1>p, <2>1 DEF IInv, MarkInv, BeforeErase, Connecting, Exchanges, Services
<1>o. off \in 1..NumBlocks /\ NumBlocks \in Nat
  BY ControllerAssumption DEF IInv, TypeOK, HostTypeOK, Blocks
<1>d. DOMAIN req' = {}
  BY <1>0
<1>3. ProgressInv'
  <2>1. CASE pc = "erase"
    BY <1>0, <1>1, <1>p, <2>1 DEF IInv, ProgressInv, Erasing, AfterTransfer
  <2>2. CASE pc = "eraseResult"
    <3>1. off' = 1 /\ pc' = "transfer" /\ AtBlock(1)
      BY <1>0, <1>p, <2>2 DEF IInv, ProgressInv, Erasing, AtBlock
    <3>2. BlankFlash = [i \in Blocks |-> IF i < 1 THEN i ELSE Blank]
      BY DEF BlankFlash, Blocks
    <3>3. flash' = [i \in Blocks |-> IF i < 1 THEN i ELSE Blank]
      BY <1>0, <2>2, <3>2 DEF IInv, ProgressInv, Erasing
    <3>4. Written(off)' /\ AtBlock(off)'
      BY <1>0, <3>1, <3>3 DEF Written, AtBlock
    <3> QED BY <1>1, <1>d, <3>1, <3>4 DEF ProgressInv, Erasing, AfterTransfer
  <2>3. CASE pc = "transfer"
    <3>1. Written(off + 1) /\ AtBlock(off + 1)
      BY <2>3 DEF IInv, ProgressInv
    <3>2. CASE MoreBlocks
      <4>1. off' = off + 1 /\ pc' = "transfer"
        BY <1>0, <1>p, <2>3, <3>2
      <4>2. Written(off)' /\ AtBlock(off)'
        BY <1>0, <3>1, <4>1 DEF Written, AtBlock
      <4> QED BY <1>1, <1>d, <4>1, <4>2 DEF ProgressInv, Erasing, AfterTransfer
    <3>3. CASE ~MoreBlocks
      <4>1. off = NumBlocks /\ pc' = "exit"
        BY <1>o, <1>p, <2>3, <3>3 DEF MoreBlocks
      <4>2. flash = Image
        BY <1>o, <3>1, <4>1 DEF Written, Image, Blocks
      <4> QED BY <1>0, <4>1, <4>2 DEF ProgressInv, Erasing, AfterTransfer
    <3> QED BY <3>2, <3>3
  <2>4. CASE pc \notin {"erase", "eraseResult", "transfer"}
    BY <1>0, <1>1, <1>p, <2>4 DEF IInv, ProgressInv, Erasing, AfterTransfer
  <2> QED BY <2>1, <2>2, <2>3, <2>4
<1>4. CheckInv'
  BY <1>0, <1>1, <1>p DEF IInv, CheckInv, SumDone, Committing
<1>5. CommitInv'
  <2>1. Acknowledged' = Acknowledged /\ Programmed' = Programmed
    BY <1>0 DEF Acknowledged, Programmed
  <2> QED BY <1>0, <1>1, <1>p, <2>1 DEF IInv, CommitInv, BeforeErase, Erasing, Verifying
<1> QED BY <1>1, <1>2, <1>3, <1>4, <1>5, <1>0, TransferNone DEF IInv

\* The response is read.
LEMMA HostReceives == IInv /\ TypeOK' /\ Receive => IInv'
<1> SUFFICES ASSUME IInv, TypeOK', Receive PROVE IInv'
  OBVIOUS
<1> DEFINE m == Head(rsp)
<1>0. /\ awaiting /\ rsp # <<>> /\ rsp' = Tail(rsp) /\ UNCHANGED <<ecu, req>>
      /\ \/ Raise("a8") \/ Raise("kwp") \/ Raise("nrc") \/ Raise("unverified")
         \/ m.to = pc /\ m.kind = "pos" /\ Advance
         \/ m.to = pc /\ m.kind = "busy" /\ PollAgain
  BY DEF Receive
<1>1. /\ rsp \in Seq(Response) /\ pc \in Exchanges
      /\ \A i \in DOMAIN rsp' : \E j \in DOMAIN rsp : rsp'[i] = rsp[j]
  BY <1>0, TailFacts DEF IInv, TypeOK, ControllerTypeOK, QueueInv, PollsInv
<1>2. CASE Raise("a8") \/ Raise("kwp") \/ Raise("nrc") \/ Raise("unverified")
  BY <1>0, <1>1, <1>2, HostRaises DEF Errors
<1>3. CASE m.to = pc /\ m.kind = "busy" /\ PollAgain
  <2>1. pc # "stop82"
    BY <1>3 DEF PollAgain, Polling
  <2> QED BY <1>0, <1>3, <2>1, OwnAnswer, HostPollsAgain DEF IInv
<1>4. CASE m.to = pc /\ m.kind = "pos" /\ Advance
  <2>1. CASE pc \in Committing
    <3>1. Answered
      BY <1>0, <1>1, <1>4, TailFacts DEF Answered, Positive
    <3>2. \A i \in DOMAIN rsp' : rsp'[i] = A8 \/ rsp'[i].to \in Outstanding
      BY <1>1 DEF IInv, QueueInv
    <3>3. CommitStep({pc})
      BY <1>4, <2>1 DEF Advance, Committing
    <3> QED BY <1>0, <2>1, <3>1, <3>2, <3>3, HostCommits
  <2>2. CASE pc \notin Committing
    <3>1. /\ req = <<>> /\ Answered /\ \A i \in DOMAIN rsp' : rsp'[i] = A8
      BY <1>0, <1>4, <2>2, OwnAnswer DEF IInv, Committing
    <3>2. CASE pc = "status"
      BY <1>0, <1>4, <3>1, <3>2, HostVerifies DEF Advance
    <3>3. CASE pc = "session85"
      BY <1>0, <1>4, <2>2, <3>3, HostReconnects DEF Advance, ReconnectStage
    <3>4. CASE pc \notin {"status", "session85"}
      BY <1>0, <1>4, <2>2, <3>1, <3>4, HostAdvances
    <3> QED BY <3>2, <3>3, <3>4
  <2> QED BY <2>1, <2>2
<1> QED BY <1>0, <1>2, <1>3, <1>4

\* The response is not read, or the run ends between two requests.
LEMMA HostGivesUp ==
    ASSUME IInv, TypeOK', KeepAliveFails \/ Timeout \/ PollsExhausted \/ Cancelled \/ AdapterFails
    PROVE  IInv'
<1>0. rsp \in Seq(Response) /\ last \in LastResult
  BY DEF IInv, TypeOK, ControllerTypeOK, HostTypeOK
<1>1. CASE KeepAliveFails
  <2>0. awaiting /\ rsp # <<>> /\ UNCHANGED <<ecu, req>>
    BY <1>1 DEF KeepAliveFails
  <2>t. /\ Tail(rsp) \in Seq(Response)
        /\ \A i \in DOMAIN Tail(rsp) : \E j \in DOMAIN rsp : Tail(rsp)[i] = rsp[j]
        /\ Len(rsp) > 1 => Len(Tail(rsp)) # 0
    BY <1>0, <2>0, TailFacts
  <2>1. CASE Len(rsp) > 1 /\ rsp' = Tail(Tail(rsp)) /\ Raise("a8")
    <3>1. Tail(rsp) # <<>>
      BY <2>1, <2>t, EmptySeq
    <3>2. \A i \in DOMAIN rsp' : \E j \in DOMAIN Tail(rsp) : rsp'[i] = Tail(rsp)[j]
      BY <2>1, <2>t, <3>1, TailFacts
    <3>3. \A i \in DOMAIN rsp' : \E j \in DOMAIN rsp : rsp'[i] = rsp[j]
      BY <2>t, <3>2
    <3> QED BY <2>0, <2>1, <3>3, HostRaises DEF Errors
  <2>2. CASE rsp' = Tail(rsp) /\ Raise("timeout")
    <3>1. \A i \in DOMAIN rsp' : \E j \in DOMAIN rsp : rsp'[i] = rsp[j]
      BY <2>t, <2>2
    <3> QED BY <2>0, <2>2, <3>1, HostRaises DEF Errors
  <2> QED BY <1>1, <2>1, <2>2 DEF KeepAliveFails
<1>2. CASE Timeout
  BY <1>2, HostRaises DEF Timeout, Errors
<1>3. CASE PollsExhausted
  BY <1>0, <1>3, HostFails DEF PollsExhausted, Fail, Polling
<1>4. CASE Cancelled
  BY <1>0, <1>4, HostFails DEF Cancelled, Fail, CancelPoints, Connecting, Polling
<1>5. CASE AdapterFails
  BY <1>0, <1>5, HostFails DEF AdapterFails, Fail, Connecting
<1> QED BY <1>1, <1>2, <1>3, <1>4, <1>5

\* A connection is opened, or not.
LEMMA HostConnects == IInv /\ TypeOK' /\ (ConnectOk \/ ConnectFails) => IInv'
<1> SUFFICES ASSUME IInv, TypeOK', ConnectOk \/ ConnectFails PROVE IInv'
  OBVIOUS
<1>t. last \in LastResult
  BY DEF IInv, TypeOK, HostTypeOK
<1>1. CASE ConnectFails
  <2>1. CASE tries > 1
    BY <1>1, <2>1, Unaffected DEF ConnectFails, ecu
  <2>2. CASE ~(tries > 1)
    BY <1>1, <1>t, <2>2, HostFails DEF ConnectFails, Fail, Connecting
  <2> QED BY <2>1, <2>2
<1>2. CASE ConnectOk /\ pc = "reconnLoader" /\ mode = "app"
  BY <1>2, <1>t, HostFails DEF ConnectOk, Fail
<1>3. CASE ConnectOk /\ ~(pc = "reconnLoader" /\ mode = "app")
  <2>0. /\ awaiting' = FALSE /\ before' = before /\ req' = <<>> /\ req = <<>> /\ rsp' = <<>>
        /\ recovery' = recovery /\ flash' = flash /\ ram' = ram /\ mode' = mode /\ committed' = committed
        /\ last' = last /\ off' = off /\ mode # "reset" /\ pc' = AfterConnect(mode)
    BY <1>3 DEF ConnectOk, ecu
  <2>p. \/ pc = "connect" /\ pc' \in {"session89", "loaderSeed"}
        \/ pc = "reconnLoader" /\ pc' = "loaderSeed"
        \/ pc = "reconnErase" /\ pc' = "eraseResult"
        \/ pc = "reconnChecksum" /\ pc' = "checksumResult"
        \/ pc = "verify" /\ pc' = "ident"
    BY <1>3, <2>0 DEF ConnectOk, AfterConnect, Connecting
  <2>1. QueueInv' /\ ~Answered' /\ ChecksumBeforeCommit'
    <3>1. DOMAIN rsp' = {}
      BY <2>0
    <3>2. pc' \in Exchanges
      BY <2>p DEF Exchanges, Services
    <3> QED BY <2>0, <3>1, <3>2, FreshQueue
  <2>2. MarkInv'
    <3>1. Untouched => Untouched'
      BY <2>0 DEF Untouched
    <3> QED BY <2>0, <2>p, <3>1 DEF IInv, MarkInv, BeforeErase, Connecting, Exchanges, Services
  <2>3. ProgressInv'
    BY <2>0, <2>1, <2>p DEF IInv, ProgressInv, Erasing, AfterTransfer
  <2>4. CheckInv'
    BY <2>0, <2>1, <2>p DEF IInv, CheckInv, Committing
  <2>5. CommitInv'
    <3>1. Acknowledged' = Acknowledged /\ Programmed' = Programmed
      BY <2>0 DEF Acknowledged, Programmed
    <3> QED BY <2>0, <2>1, <2>p, <3>1 DEF IInv, CommitInv, BeforeErase, Erasing, Verifying
  <2> QED BY <2>1, <2>2, <2>3, <2>4, <2>5, <2>0, TransferNone DEF IInv
<1> QED BY <1>1, <1>2, <1>3

\* A run begins, is refused, or is asked to stop.
LEMMA UserStep == IInv /\ TypeOK' /\ User => IInv'
<1> SUFFICES ASSUME IInv, TypeOK', User PROVE IInv'
  OBVIOUS
<1>1. ASSUME NEW fresh \in BOOLEAN, Start(fresh) PROVE IInv'
  <2>0. /\ pc' = "connect" /\ awaiting' = FALSE /\ before' = flash /\ req' = <<>> /\ req = <<>>
        /\ flash' = flash /\ mode' = mode /\ open' = open /\ last'.acked = {}
    BY <1>1 DEF Start, controllerVars, NoResult
  <2>1. DOMAIN req' = {}
    BY <2>0
  <2>2. QueueInv'
    BY <2>0, <2>1 DEF IInv, QueueInv, PollsInv, Exchanges, Services
  <2>3. MarkInv'
    BY <2>0, <2>1 DEF MarkInv, Untouched, BeforeErase
  <2>4. ProgressInv' /\ CheckInv'
    BY <2>0, <2>1 DEF ProgressInv, Erasing, AfterTransfer, CheckInv, ChecksumBeforeCommit, Committing
  <2>5. CommitInv'
    BY <2>0 DEF CommitInv, Verifying
  <2> QED BY <2>2, <2>3, <2>4, <2>5, <2>0, TransferNone DEF IInv
<1>2. CASE Preflight
  <2>0. /\ pc = "idle" /\ pc' = "idle" /\ awaiting' = awaiting /\ last'.status \in {"none", "validated"}
        /\ UNCHANGED <<mode, ram, flash, committed, open, req, rsp>>
    BY <1>2 DEF Preflight, controllerVars, NoResult
  <2>1. QueueInv'
    BY <2>0 DEF IInv, QueueInv, PollsInv, Outstanding, Exchanges, Services
  <2>2. MarkInv'
    BY <2>0 DEF MarkInv, BeforeErase, Connecting, Exchanges, Services
  <2>3. ProgressInv' /\ CheckInv'
    BY <2>0 DEF IInv, ProgressInv, Erasing, AfterTransfer, CheckInv, ChecksumBeforeCommit, Committing
  <2>4. CommitInv'
    BY <2>0 DEF CommitInv, BeforeErase, Erasing, Verifying
  <2> QED BY <2>0, <2>1, <2>2, <2>3, <2>4, TransferKept DEF IInv
<1>3. CASE RequestAbort
  BY <1>3, Unaffected DEF RequestAbort, ecu
<1> QED BY <1>1, <1>2, <1>3 DEF User

\* A request goes out.
LEMMA HostSends == IInv /\ TypeOK' /\ Send => IInv'
<1> SUFFICES ASSUME IInv, TypeOK', Send PROVE IInv'
  OBVIOUS
<1>0. /\ pc \in Exchanges /\ ~awaiting /\ awaiting' /\ recovery' = RecoveryMark
      /\ req' = (IF open THEN Append(req, Pending) ELSE req)
      /\ UNCHANGED <<pc, polls, off, last, before, mode, ram, flash, committed, open, rsp>>
      /\ pc \in Polling => polls > 0
  BY DEF Send, ecu
<1>1. Answered' = Answered /\ Outstanding' = Outstanding
  BY <1>0 DEF Answered, Positive, Outstanding
<1>r. Pending \in Request /\ req \in Seq(Request) /\ Len(req) \in Nat /\ DOMAIN req = 1..Len(req)
  <2>1. 0 \in 0..NumBlocks /\ off \in 0..NumBlocks
    BY ControllerAssumption DEF IInv, TypeOK, HostTypeOK, Blocks
  <2>2. Pending \in Request
    BY <1>0, <2>1 DEF Pending, Request, Exchanges
  <2> QED BY <2>2, LenProperties DEF IInv, TypeOK, ControllerTypeOK
<1>s. /\ pc # "stop82" => req = <<>> /\ \A i \in DOMAIN rsp : rsp[i] = A8
      /\ pc = "stop82" => \A i \in DOMAIN req : req[i].sid = "stop20"
      /\ req # <<>> => open
  BY <1>0 DEF IInv, QueueInv
<1>n. /\ \A i \in DOMAIN req' : (i \in DOMAIN req /\ req'[i] = req[i]) \/ (req'[i] = Pending /\ open)
      /\ Len(req') \in {Len(req), Len(req) + 1}
  <2>1. /\ \A i \in DOMAIN Append(req, Pending) :
             (i \in DOMAIN req /\ Append(req, Pending)[i] = req[i]) \/ Append(req, Pending)[i] = Pending
        /\ Len(Append(req, Pending)) = Len(req) + 1
    BY <1>r, AppendFacts
  <2> QED BY <1>0, <2>1
<1>d. Pending.sid = pc /\ (pc = "transfer" => Pending.blk = off)
  BY DEF Pending
<1>2. QueueInv'
  <2>1. pc \in Outstanding /\ (pc = "stop82" => Outstanding = Committing)
    BY <1>0 DEF Outstanding, Committing, Exchanges, Services
  <2>2. \A i \in DOMAIN req' : req'[i].sid \in Outstanding
    BY <1>n, <1>d, <2>1 DEF IInv, QueueInv
  <2>3. \A i, j \in DOMAIN req' : req'[i].sid \in Committing => req'[j].sid \in Committing
    <3>1. CASE pc = "stop82"
      BY <2>1, <2>2, <3>1
    <3>2. CASE pc # "stop82"
      <4>1. DOMAIN req = {}
        BY <1>s, <3>2
      <4> QED BY <1>n, <4>1
    <3> QED BY <3>1, <3>2
  <2>4. req' # <<>> => open
    BY <1>0, <1>s
  <2>5. pc # "stop82" => Len(req') <= 1
    <3>1. pc # "stop82" => Len(req) = 0
      BY <1>s
    <3> QED BY <1>n, <1>r, <3>1
  <2>6. \A i \in DOMAIN rsp : rsp[i] = A8 \/ rsp[i].to \in Outstanding
    BY <1>0 DEF IInv, QueueInv
  <2>7. open => mode # "reset"
    BY DEF IInv, QueueInv
  <2>8. PollsInv'
    BY <1>0 DEF PollsInv
  <2>9. pc # "stop82" => \A i \in DOMAIN rsp : rsp[i] = A8
    BY <1>s
  <2>10. \A i, j \in DOMAIN rsp : rsp[i] # A8 /\ rsp[j] # A8 /\ pc # "stop82" => i = j
    BY <2>9
  <2> HIDE DEF A8
  <2> QED BY <1>0, <1>1, <2>2, <2>3, <2>4, <2>5, <2>6, <2>7, <2>8, <2>9, <2>10 DEF QueueInv
<1>3. MarkInv'
  <2>1. CASE pc = "erase"
    BY <1>0, <2>1 DEF MarkInv, RecoveryMark, BeforeErase
  <2>2. CASE pc # "erase"
    <3>1. recovery' = recovery
      BY <1>0, <2>2 DEF RecoveryMark, IInv, TypeOK, HostTypeOK
    <3>2. pc \in BeforeErase => Untouched'
      <4>1. pc \in BeforeErase => \A i \in DOMAIN req' : req'[i].sid \notin {"erase", "transfer"}
        BY <1>n, <1>d DEF IInv, MarkInv, Untouched, BeforeErase
      <4> QED BY <1>0, <4>1 DEF IInv, MarkInv, Untouched
    <3> QED BY <1>0, <2>2, <3>1, <3>2 DEF IInv, MarkInv, Exchanges, Services
  <2> QED BY <2>1, <2>2
<1>4. ProgressInv'
  <2>1. ASSUME pc = "transfer"
        PROVE  /\ \A i \in DOMAIN req' : req'[i].blk = off
               /\ Written(off)' /\ AtBlock(off)' /\ ~Answered'
    <3>1. \A i \in DOMAIN req' : req'[i].blk = off
      BY <1>n, <1>d, <2>1 DEF IInv, ProgressInv
    <3>2. Written(off) /\ AtBlock(off) /\ ~Answered
      BY <1>0, <2>1 DEF IInv, ProgressInv
    <3> QED BY <1>0, <1>1, <3>1, <3>2 DEF Written, AtBlock
  <2> QED BY <1>0, <1>1, <2>1 DEF IInv, ProgressInv
<1>7. TransferInv'
  <2>1. ASSUME NEW i \in DOMAIN req', req'[i].sid = "transfer"
        PROVE  /\ ram.routine = "erase" /\ ram.phase = "done" /\ ram.wp = req'[i].blk
               /\ Len(req') <= 1
    <3>1. pc = "transfer"
      BY <1>n, <1>d, <1>s, <2>1
    <3>2. req = <<>> /\ Len(req) = 0 /\ DOMAIN req = {}
      BY <1>s, <3>1
    <3>3. req'[i] = Pending /\ open
      BY <1>n, <2>1, <3>2
    <3>5. Len(req') <= 1
      <4>1. Len(req') \in {0, 0 + 1}
        BY <1>n, <3>2
      <4> QED BY <4>1
    <3>4. AtBlock(off)
      BY <1>0, <3>1 DEF IInv, ProgressInv
    <3> QED BY <1>d, <3>1, <3>3, <3>4, <3>5 DEF AtBlock
  <2> QED BY <1>0, <2>1 DEF TransferInv, InStep
<1>5. CheckInv'
  <2>1. ASSUME NEW i \in DOMAIN req', req'[i].sid \in Committing PROVE SumDone /\ flash = Image
    <3>1. CASE i \in DOMAIN req /\ req'[i] = req[i]
      BY <2>1, <3>1 DEF IInv, CheckInv, ChecksumBeforeCommit, SumDone
    <3>2. CASE req'[i] = Pending /\ open
      BY <1>d, <2>1, <3>2 DEF IInv, CheckInv, ProgressInv, AfterTransfer, Committing
    <3> QED BY <1>n, <3>1, <3>2
  <2> QED BY <1>0, <1>1, <2>1 DEF IInv, CheckInv, ChecksumBeforeCommit, SumDone
<1>6. CommitInv'
  <2>1. Acknowledged' = Acknowledged /\ Programmed' = Programmed
    BY <1>0 DEF Acknowledged, Programmed
  <2>2. pc # "idle"
    BY <1>0 DEF Exchanges, Services
  <2> QED BY <1>0, <1>1, <2>1, <2>2 DEF IInv, CommitInv
<1> QED BY <1>2, <1>3, <1>4, <1>5, <1>6, <1>7 DEF IInv

--------------------------------------------------------------------------------
(***************************************************************************)
(* The theorems.                                                           *)
(***************************************************************************)

\* A run that has not begun has nothing to show: the controller is as it was
\* found, and the queues are empty.
LEMMA InitInv == Init => IInv
<1> SUFFICES ASSUME Init PROVE IInv
  OBVIOUS
<1> USE DEF Init, ControllerInit
<1>1. ControllerTypeOK
  <2>1. Ram0 \in Ram
    BY ControllerAssumption DEF Ram0, Ram
  <2>2. upsets \in Int
    BY ControllerAssumption
  <2>3. flash \in [Blocks -> {Old, Blank} \cup Blocks]
    BY DEF OldImage, BlankFlash
  <2>4. req \in Seq(Request) /\ rsp \in Seq(Response)
    OBVIOUS
  <2>5. mode \in {"app", "loader", "reset"} /\ committed \in BOOLEAN /\ open \in BOOLEAN
    OBVIOUS
  <2> HIDE DEF Init, ControllerInit
  <2> QED BY <2>1, <2>2, <2>3, <2>4, <2>5 DEF Init, ControllerInit, ControllerTypeOK
<1>2. HostTypeOK
  <2>1. tries \in Nat /\ polls \in Nat /\ off \in Blocks
    BY ControllerAssumption, FlasherAssumption DEF Blocks
  <2>2. NoResult \in LastResult
    BY DEF NoResult, LastResult
  <2>3. kwp \in Transport
    BY DEF Transport
  <2> QED BY <1>1, <2>1, <2>2, <2>3 DEF HostTypeOK, ControllerTypeOK
<1>3. DOMAIN req = {}
  OBVIOUS
<1>4. QueueInv
  BY <1>3 DEF QueueInv, PollsInv, Exchanges, Services
<1>5. MarkInv
  BY DEF MarkInv, BeforeErase, Connecting, Exchanges, Services, NoResult
<1>6. ProgressInv /\ CheckInv /\ TransferInv
  BY <1>3 DEF TransferInv, InStep, ProgressInv, Erasing, AfterTransfer, CheckInv,
     ChecksumBeforeCommit, Committing
<1>7. CommitInv
  BY DEF CommitInv, BeforeErase, Erasing, Verifying, NoResult
<1> QED BY <1>1, <1>2, <1>4, <1>5, <1>6, <1>7 DEF IInv, TypeOK

\* Every step keeps the types, given the bound on the polls.
LEMMA NextType == TypeOK /\ PollsInv /\ [Next]_vars => TypeOK'
<1> SUFFICES ASSUME TypeOK, PollsInv, [Next]_vars PROVE TypeOK'
  OBVIOUS
<1>1. CASE Environment
  <2>1. ControllerTypeOK'
    BY <1>1, ControllerType DEF Environment, TypeOK
  <2> QED BY <1>1, <2>1 DEF Environment, TypeOK, HostTypeOK, hostVars
<1>2. CASE Run
  <2>1. Receive \/ KeepAliveFails \/ Timeout => awaiting /\ pc \in Exchanges
    BY DEF PollsInv, Receive, KeepAliveFails, Timeout
  <2> QED BY <1>2, <2>1, ConnectionType, ExchangeType, SendType DEF Run, Exchange
<1>3. CASE UNCHANGED vars
  BY <1>3 DEF vars, hostVars, controllerVars, TypeOK, ControllerTypeOK, HostTypeOK
<1> QED BY <1>1, <1>2, <1>3, UserType DEF Next

\* Every step preserves the inductive invariant.
LEMMA NextInv == IInv /\ [Next]_vars => IInv'
<1> SUFFICES ASSUME IInv, [Next]_vars PROVE IInv'
  OBVIOUS
<1>1. TypeOK'
  BY NextType DEF IInv, QueueInv
<1>2. CASE Run
  BY <1>1, <1>2, HostSends, HostReceives, HostConnects, HostGivesUp DEF Run, Connection, Exchange
<1>3. CASE User
  BY <1>1, <1>3, UserStep
<1>4. CASE Environment
  BY <1>4, EnvironmentStep
<1>5. CASE UNCHANGED vars
  BY <1>1, <1>5, Unaffected DEF vars, hostVars, controllerVars
<1> QED BY <1>2, <1>3, <1>4, <1>5 DEF Next

\* The inductive invariant holds of every behaviour.
THEOREM Inductive == Spec => []IInv
<1> QED BY InitInv, NextInv, PTL DEF Spec

\* Every variable keeps its type; the number of the block that is sent and the
\* loader's write pointer stay within the image, and no poll is counted twice.
THEOREM TypeCorrect == Spec => []TypeOK
<1>1. IInv => TypeOK
  BY DEF IInv
<1> QED BY Inductive, <1>1, PTL

\* flash_binary returns 'ok' only when the whole image is programmed, committed
\* and running or about to run.
THEOREM OkMeansProgrammedHolds == Spec => []OkMeansProgrammed
<1>1. IInv => OkMeansProgrammed
  BY DEF IInv, CommitInv, Programmed, OkMeansProgrammed
<1> QED BY Inductive, <1>1, PTL

\* A run that is not reported as needing recovery has not damaged anything.
THEOREM DamageReportedHolds == Spec => []DamageReported
<1>1. IInv => DamageReported
  BY DEF IInv, MarkInv, Untouched, DamageReported
<1> QED BY Inductive, <1>1, PTL

\* The tester's loop over the blocks and the loader's write pointer agree
\* whenever a block is on its way.
THEOREM InStepHolds == Spec => []InStep
<1>1. IInv => InStep
  BY DEF IInv, TransferInv
<1> QED BY Inductive, <1>1, PTL

\* The commit services are sent only to a loader that has found the image right.
THEOREM ChecksumBeforeCommitHolds == Spec => []ChecksumBeforeCommit
<1>1. IInv => ChecksumBeforeCommit
  BY DEF IInv, CheckInv
<1> QED BY Inductive, <1>1, PTL

\* A block is never written to the place of another.
THEOREM WritesInPlaceHolds == Spec => WritesInPlace
<1>1. ASSUME IInv, [Next]_vars, NEW i \in Blocks, flash'[i] # flash[i]
      PROVE  flash'[i] \in {Blank, i}
  <2>1. flash' # flash
    BY <1>1
  <2>2. ControllerNext
    BY <1>1, <2>1 DEF Next, Environment, Run, Connection, Exchange, User, vars, controllerVars, ecu,
       Cancelled, AdapterFails, ConnectOk, ConnectFails, Send, Receive, KeepAliveFails, Timeout,
       PollsExhausted, Start, Preflight, RequestAbort
  <2>3. CASE ServeErase
    BY <2>3 DEF ServeErase, BlankFlash
  <2>4. CASE ServeTransfer
    <3>1. req # <<>> /\ Head(req).sid = "transfer" /\ Head(req) = req[1] /\ 1 \in DOMAIN req
      BY <1>1, <2>4, HeadIsFirst DEF ServeTransfer, Accepted, Asked, IInv, TypeOK
    <3>2. ram.wp = Head(req).blk
      BY <1>1, <3>1 DEF IInv, TransferInv, InStep
    <3>3. flash' = [flash EXCEPT ![ram.wp] = ram.wp] /\ flash \in [Blocks -> {Old, Blank} \cup Blocks]
      BY <1>1, <2>4, <3>2 DEF ServeTransfer, IInv, TypeOK, ControllerTypeOK
    <3> QED BY <1>1, <3>3
  <2> QED BY <1>1, <2>1, <2>2, <2>3, <2>4, ControllerEffect DEF IInv, TypeOK, RoutineEnds
<1>2. IInv /\ [Next]_vars => [\A i \in Blocks : flash'[i] # flash[i] => flash'[i] \in {Blank, i}]_vars
  BY <1>1
<1> QED BY Inductive, <1>2, PTL DEF Spec, WritesInPlace

--------------------------------------------------------------------------------
(***************************************************************************)
(* HaldexFlasher implements FlashContract, for every value of the           *)
(* constants.  The contract's held is not a variable of the flasher: that  *)
(* the flash is the old image or the first blocks of the new one, whatever *)
(* is under way, is HeldInv, which is inductive together with IInv.        *)
(***************************************************************************)

(***************************************************************************)
(* What the controller holds.                                              *)
(***************************************************************************)

\* The old image is no part of the new one.
LEMMA HeldOld == flash = OldImage => Held = -1
  BY DEF Held

\* The contents tell how many blocks were written, and none of them is old.
LEMMA FirstBlocksDiffer ==
    ASSUME NEW k \in 0..NumBlocks
    PROVE  /\ FirstBlocks(k) # OldImage
           /\ \A j \in 0..NumBlocks : FirstBlocks(k) = FirstBlocks(j) => j = k
<1>0. NumBlocks \in Nat \ {0} /\ 1 \in Blocks
  BY ControllerAssumption DEF Blocks
<1>1. FirstBlocks(k)[1] \in {1, Blank} /\ OldImage[1] = Old /\ Old # 1 /\ Old # Blank
  BY <1>0 DEF FirstBlocks, OldImage, Old, Blank
<1>2. ASSUME NEW m \in 0..NumBlocks, NEW n \in 0..NumBlocks, m < n, FirstBlocks(m) = FirstBlocks(n)
      PROVE  FALSE
  <2>1. n \in Blocks /\ n # Blank
    BY <1>0, <1>2 DEF Blocks, Blank
  <2>2. FirstBlocks(m)[n] = Blank /\ FirstBlocks(n)[n] = n
    BY <1>2, <2>1 DEF FirstBlocks
  <2> QED BY <1>2, <2>1, <2>2
<1>3. ASSUME NEW j \in 0..NumBlocks, FirstBlocks(k) = FirstBlocks(j) PROVE j = k
  BY <1>0, <1>2, <1>3
<1> QED BY <1>1, <1>3

\* So Held is that number.
LEMMA HeldBlocks ==
    ASSUME NEW k \in 0..NumBlocks, Holds(k)
    PROVE  Held = k
<1>1. flash # OldImage /\ \A j \in 0..NumBlocks : Holds(j) => j = k
  BY FirstBlocksDiffer DEF Holds
<1>2. (CHOOSE j \in 0..NumBlocks : Holds(j)) = k
  BY <1>1
<1> QED BY <1>1, <1>2 DEF Held

\* The same of the next state.
LEMMA HeldOfFirst ==
    ASSUME NEW k \in 0..NumBlocks, flash' = FirstBlocks(k)
    PROVE  Held' = k
<1>1. \A f : (f = FirstBlocks(k)) =>
         /\ f # OldImage
         /\ \A j \in 0..NumBlocks : f = FirstBlocks(j) => j = k
  BY FirstBlocksDiffer
<1> QED BY <1>1 DEF Held, Holds

\* Erased, and written to the end.
LEMMA HoldsEnds == (flash = BlankFlash => Holds(0)) /\ (flash = Image => Holds(NumBlocks))
<1>0. NumBlocks \in Nat \ {0}
  BY ControllerAssumption
<1> QED BY <1>0 DEF Holds, FirstBlocks, BlankFlash, Image, Blocks, Blank

\* A block behind the written ones makes them one more.
LEMMA HoldsNext ==
    ASSUME NEW k \in Blocks, Holds(k - 1), flash' = [flash EXCEPT ![k] = k]
    PROVE  flash' = FirstBlocks(k)
<1>0. NumBlocks \in Nat \ {0} /\ k \in 1..NumBlocks
  BY ControllerAssumption DEF Blocks
<1>1. flash = [i \in Blocks |-> IF i <= k - 1 THEN i ELSE Blank]
  BY DEF Holds, FirstBlocks
<1>2. flash' = [i \in Blocks |-> IF i <= k THEN i ELSE Blank]
  BY <1>0, <1>1 DEF Blocks
<1> QED BY <1>2 DEF Holds, FirstBlocks

--------------------------------------------------------------------------------
(***************************************************************************)
(* HeldInv is inductive, given IInv.                                       *)
(***************************************************************************)

\* What does not touch the flash, and brings no block.
LEMMA HeldKept ==
    ASSUME HeldInv, flash' = flash,
           \A i \in DOMAIN req' : req'[i].sid = "transfer" =>
              \E j \in DOMAIN req : req'[i] = req[j],
           last'.status = "running" <=> pc' # "idle"
    PROVE  HeldInv'
<1>1. \A i \in DOMAIN req' : req'[i].sid = "transfer" => flash' = FirstBlocks(req'[i].blk - 1)
  BY DEF HeldInv, Holds
<1> QED BY <1>1 DEF HeldInv, Holds

\* The controller and the link.
LEMMA EnvironmentHeld == IInv /\ HeldInv /\ Environment => HeldInv'
<1> SUFFICES ASSUME IInv, HeldInv, ControllerNext, UNCHANGED hostVars PROVE HeldInv'
  BY DEF Environment
<1>t. ControllerTypeOK /\ TypeOK /\ TransferInv
  BY DEF IInv, TypeOK
<1>q. QueueStep /\ (last'.status = "running" <=> pc' # "idle")
  BY <1>t, ControllerQueueStep DEF HeldInv, hostVars
<1>h. req # <<>> => Head(req) = req[1] /\ 1 \in DOMAIN req /\ req[1] \in Request
  BY <1>t, HeadIsFirst
<1>1. CASE flash' = flash
  BY <1>1, <1>q, HeldKept DEF QueueStep
<1>2. CASE ServeErase
  <2>1. flash' = BlankFlash /\ req # <<>> /\ req[1].sid = "erase"
    BY <1>2, <1>h DEF ServeErase, Accepted, Asked
  <2>2. Holds(0)' /\ 0 \in 0..NumBlocks
    BY <2>1, ControllerAssumption, HoldsEnds DEF Holds, FirstBlocks, BlankFlash, Blocks, Blank
  <2>3. \A i \in DOMAIN req' : req'[i].sid # "transfer"
    <3>1. SUFFICES ASSUME NEW i \in DOMAIN req', req'[i].sid = "transfer" PROVE FALSE
      OBVIOUS
    <3>2. PICK j \in DOMAIN req : req'[i] = req[j]
      BY <1>q DEF QueueStep
    <3>3. Len(req) <= 1 /\ req \in Seq(Request) /\ DOMAIN req = 1..Len(req) /\ Len(req) \in Nat
      BY <1>t, <3>1, <3>2, LenProperties DEF TransferInv, ControllerTypeOK
    <3>4. j = 1
      BY <3>3
    <3> QED BY <2>1, <3>1, <3>2, <3>4
  <2> QED BY <1>q, <2>2, <2>3 DEF HeldInv
<1>3. CASE ServeTransfer
  <2>1. req # <<>> /\ req[1].sid = "transfer" /\ flash' = [flash EXCEPT ![ram.wp] = req[1].blk]
    BY <1>3, <1>h DEF ServeTransfer, Accepted, Asked
  <2>2. ram.wp = req[1].blk /\ Len(req) <= 1 /\ Holds(req[1].blk - 1)
    BY <1>t, <1>h, <2>1 DEF TransferInv, InStep, HeldInv
  <2>3. ram.wp \in Blocks
    BY <1>3, <1>h, <2>1, <1>t DEF ServeTransfer, Accepted, Asked, Acceptable, ControllerTypeOK, Ram,
       Blocks, Readable, AppServices
  <2>4. flash' = FirstBlocks(req[1].blk) /\ req[1].blk \in 0..NumBlocks
    <3>1. PICK k \in Blocks : k = ram.wp /\ k = req[1].blk
      BY <2>2, <2>3
    <3>2. Holds(k - 1) /\ flash' = [flash EXCEPT ![k] = k]
      BY <2>1, <2>2, <3>1
    <3>3. flash' = FirstBlocks(k)
      BY <3>2, HoldsNext
    <3> QED BY <3>1, <3>3, ControllerAssumption DEF Blocks
  <2>5. DOMAIN req' = {}
    <3>1. Len(req') = Len(req) - 1 /\ Len(req) \in Nat \ {0} /\ DOMAIN req' = 1..Len(req')
      BY <1>3, <1>t, <2>1, TailFacts DEF ServeTransfer, Reply, ControllerTypeOK
    <3> QED BY <2>2, <3>1
  <2>6. \E k \in 0..NumBlocks : Holds(k)'
    BY <2>4 DEF Holds
  <2> QED BY <1>q, <2>5, <2>6 DEF HeldInv
<1> QED BY <1>1, <1>2, <1>3, <1>t, ControllerEffect DEF RoutineEnds

\* A request goes out, of a block only when those in front of it are written.
LEMMA SendHeld == IInv /\ HeldInv /\ Send => HeldInv'
<1> SUFFICES ASSUME IInv, HeldInv, Send PROVE HeldInv'
  OBVIOUS
<1>1. /\ pc \in Exchanges /\ ~awaiting /\ UNCHANGED <<pc, last, flash>>
      /\ req' = (IF open THEN Append(req, Pending) ELSE req)
  BY DEF Send, ecu
<1>2. last'.status = "running" <=> pc' # "idle"
  BY <1>1 DEF HeldInv
<1>3. CASE pc # "transfer" \/ ~open
  <2>1. Pending.sid = pc
    BY DEF Pending
  <2>2. req \in Seq(Request) /\ Pending \in Request
    <3>1. 0 \in 0..NumBlocks /\ off \in 0..NumBlocks
      BY ControllerAssumption DEF IInv, TypeOK, HostTypeOK, Blocks
    <3> QED BY <1>1, <3>1 DEF Pending, Request, Exchanges, IInv, TypeOK, ControllerTypeOK
  <2>3. \A i \in DOMAIN Append(req, Pending) :
           (i \in DOMAIN req /\ Append(req, Pending)[i] = req[i]) \/ Append(req, Pending)[i] = Pending
    BY <2>2, AppendFacts
  <2>4. \A i \in DOMAIN req' : req'[i].sid = "transfer" => \E j \in DOMAIN req : req'[i] = req[j]
    BY <1>1, <1>3, <2>1, <2>3
  <2> QED BY <1>1, <1>2, <2>4, HeldKept
<1>4. CASE pc = "transfer" /\ open
  <2>1. req = <<>> /\ Holds(off - 1)
    <3>1. req = <<>> /\ Written(off)
      BY <1>1, <1>4 DEF IInv, QueueInv, ProgressInv
    <3>2. off \in Int /\ \A i \in Blocks : (i < off) = (i <= off - 1)
      BY ControllerAssumption DEF IInv, TypeOK, HostTypeOK, Blocks
    <3> QED BY <3>1, <3>2 DEF Written, Holds, FirstBlocks
  <2>2. req' = <<Pending>> /\ Pending.blk = off
    BY <1>1, <1>4, <2>1 DEF Pending
  <2>3. \A i \in DOMAIN req' : req'[i].blk = off
    BY <2>2
  <2>4. flash' = FirstBlocks(off - 1)
    BY <1>1, <2>1 DEF Holds
  <2> QED BY <1>1, <1>2, <2>3, <2>4 DEF HeldInv, Holds
<1> QED BY <1>3, <1>4

\* Every other step of flash_binary, and of the user, leaves the flash and the requests
\* as they are, and gives a verdict when the run ends, not before.
LEMMA HostHeld == IInv /\ HeldInv /\ (Run \/ User) /\ ~Send => HeldInv'
<1> SUFFICES ASSUME IInv, HeldInv, Run \/ User, ~Send PROVE HeldInv'
  OBVIOUS
<1>1. flash' = flash /\ req' = req
  BY DEF Run, Connection, Exchange, User, Cancelled, AdapterFails, ConnectOk, ConnectFails, Receive,
     KeepAliveFails, Timeout, PollsExhausted, Start, Preflight, RequestAbort, ecu, controllerVars
<1>l. last \in LastResult
  BY DEF IInv, TypeOK, HostTypeOK
<1>f. ASSUME NEW r \in LastResult, NEW e, FailWith(r, e)
      PROVE  pc' = "idle" /\ last'.status # "running"
  BY <1>f DEF FailWith, LastResult
<1>r. ASSUME NEW e, Raise(e), pc \in Exchanges
      PROVE  last'.status = "running" <=> pc' # "idle"
  <2>1. pc # "idle" /\ last.status = "running"
    BY <1>r DEF HeldInv, Exchanges, Services
  <2>2. CASE pc \in DOMAIN ReconnectStage /\ e \in {"timeout", "a8"}
    BY <1>r, <2>1, <2>2 DEF Raise, Reconnect, ReconnectStage
  <2>3. CASE ~(pc \in DOMAIN ReconnectStage /\ e \in {"timeout", "a8"}) /\ pc \in Committing
    BY <1>r, <2>1, <2>3, <1>l DEF Raise, CommitStep, LastResult
  <2>4. CASE ~(pc \in DOMAIN ReconnectStage /\ e \in {"timeout", "a8"}) /\ pc \notin Committing
    BY <1>r, <2>4, <1>f, <1>l DEF Raise, Fail
  <2> QED BY <2>2, <2>3, <2>4
<1>a. ASSUME Advance, pc \in Exchanges
      PROVE  last'.status = "running" <=> pc' # "idle"
  <2>1. pc # "idle" /\ last.status = "running"
    BY <1>a DEF HeldInv, Exchanges, Services
  <2>2. CASE pc = "status"
    <3>1. Verify /\ [last EXCEPT !.boot = TRUE] \in LastResult
      BY <1>a, <1>l, <2>2 DEF Advance, LastResult
    <3> QED BY <1>l, <3>1, <1>f DEF Verify, Fail, LastResult
  <2>3. CASE pc \in Committing
    BY <1>a, <2>1, <2>3, <1>l DEF Advance, CommitStep, LastResult, Committing
  <2>4. CASE pc = "session85"
    BY <1>a, <2>1, <2>4 DEF Advance, Reconnect, Committing
  <2>5. CASE pc \notin Committing \cup {"status", "session85"}
    BY <1>a, <2>1, <2>5, <1>l DEF Advance, NextStage, LastResult, Exchanges, Services, Committing
  <2> QED BY <2>2, <2>3, <2>4, <2>5
<1>2. last'.status = "running" <=> pc' # "idle"
  <2>1. CASE Receive
    <3>1. pc \in Exchanges /\ pc # "idle"
      BY <2>1 DEF Receive, IInv, QueueInv, PollsInv, Exchanges, Services
    <3>2. (\E e \in Errors : Raise(e)) \/ Advance \/ PollAgain
      BY <2>1 DEF Receive, Errors
    <3> QED BY <3>1, <3>2, <1>r, <1>a DEF PollAgain, HeldInv
  <2>2. CASE KeepAliveFails \/ Timeout
    <3>1. pc \in Exchanges
      BY <2>2 DEF KeepAliveFails, Timeout, IInv, QueueInv, PollsInv
    <3>2. \E e \in Errors : Raise(e)
      BY <2>2 DEF KeepAliveFails, Timeout, Errors
    <3> QED BY <3>1, <3>2, <1>r
  <2>3. CASE Cancelled \/ AdapterFails \/ PollsExhausted
    BY <2>3, <1>f, <1>l DEF Cancelled, AdapterFails, PollsExhausted, Fail
  <2>4. CASE ConnectOk
    <3>1. mode \in {"app", "loader"}
      BY <2>4 DEF ConnectOk, IInv, TypeOK, ControllerTypeOK
    <3>2. pc \in Connecting => AfterConnect(mode) # "idle" /\ pc # "idle"
      BY <3>1 DEF AfterConnect, Connecting
    <3> QED BY <2>4, <3>2, <1>f, <1>l DEF ConnectOk, Fail, HeldInv
  <2>5. CASE ConnectFails
    BY <2>5, <1>f, <1>l DEF ConnectFails, Fail, HeldInv
  <2>6. CASE \E fresh \in BOOLEAN : Start(fresh)
    BY <2>6 DEF Start, NoResult
  <2>7. CASE Preflight
    BY <2>7 DEF Preflight, NoResult
  <2>8. CASE RequestAbort
    BY <2>8 DEF RequestAbort, HeldInv
  <2> QED BY <2>1, <2>2, <2>3, <2>4, <2>5, <2>6, <2>7, <2>8 DEF Run, Connection, Exchange, User
<1> QED BY <1>1, <1>2, HeldKept

\* Initially the flash is old or blank, and no run has begun.
LEMMA InitHeld == Init => HeldInv
<1> SUFFICES ASSUME Init PROVE HeldInv
  OBVIOUS
<1>1. flash = OldImage \/ \E k \in 0..NumBlocks : Holds(k)
  BY ControllerAssumption, HoldsEnds DEF Init, ControllerInit
<1> QED BY <1>1 DEF Init, ControllerInit, HeldInv, NoResult

\* Every step preserves HeldInv.
LEMMA NextHeld == IInv /\ HeldInv /\ [Next]_vars => HeldInv'
<1>1. ASSUME HeldInv, UNCHANGED vars PROVE HeldInv'
  BY <1>1 DEF vars, hostVars, controllerVars, HeldInv, Holds
<1> QED BY <1>1, EnvironmentHeld, SendHeld, HostHeld DEF Next

\* What the flasher's own invariants leave open, whatever is under way: the flash is
\* the old image or the first blocks of the new one, a block on its way comes next,
\* and a run that goes on has no verdict yet.
THEOREM HeldInductive == Spec => []HeldInv
<1> QED BY Inductive, InitHeld, NextHeld, PTL DEF Spec

--------------------------------------------------------------------------------
(***************************************************************************)
(* Every step is a step of the contract, or leaves it alone.               *)
(***************************************************************************)

\* A request of the controller's that changes what it holds.
LEMMA DestructiveExposed ==
    ASSUME req # <<>>, 1 \in DOMAIN req, req[1].sid \in Destructive PROVE Exposed
  BY DEF Exposed

\* While a run goes on, exposed is its own mark: before the mark nothing destructive
\* is under way.
LEMMA RunExposed == IInv /\ pc # "idle" => Exposed = recovery
<1> SUFFICES ASSUME IInv, pc # "idle", ~recovery, NEW i \in DOMAIN req, req[i].sid \in Destructive
             PROVE FALSE
  BY DEF Exposed, IInv, TypeOK, HostTypeOK
<1>1. pc \in BeforeErase \/ (pc = "erase" /\ ~awaiting)
  BY DEF IInv, MarkInv, TypeOK, HostTypeOK
<1>2. req[i].sid \in Outstanding
  BY DEF IInv, QueueInv
<1>3. CASE pc \in BeforeErase
  BY <1>2, <1>3 DEF Outstanding, BeforeErase, Exchanges, Services, Destructive, Committing
<1>4. CASE pc = "erase" /\ ~awaiting
  <2>1. req = <<>>
    BY <1>4 DEF IInv, QueueInv, Exchanges, Services
  <2> QED BY <2>1
<1> QED BY <1>1, <1>3, <1>4

\* The same of the next state.
LEMMA RunExposedNext == (IInv /\ pc # "idle" => Exposed = recovery)'
  BY RunExposed, PTL

\* Held is as in the state before, where the flash is.
LEMMA HeldSame == flash' = flash => Held' = Held
  BY DEF Held, Holds, FirstBlocks

\* The initial states are those of the contract.
LEMMA InitContract == Init => Contract!Init
<1> SUFFICES ASSUME Init PROVE Contract!Init
  OBVIOUS
<1>1. ~Exposed /\ last.status = "none"
  BY DEF Init, ControllerInit, Exposed, NoResult
<1>2. CASE flash = OldImage /\ committed = TRUE
  BY <1>1, <1>2, HeldOld DEF Contract!Init, Contract!Old
<1>3. CASE flash = BlankFlash /\ committed = FALSE
  <2>1. 0 \in 0..NumBlocks
    BY ControllerAssumption
  <2> QED BY <1>1, <1>3, <2>1, HeldBlocks, HoldsEnds DEF Contract!Init
<1> QED BY <1>2, <1>3 DEF Init, ControllerInit

\* The controller and the link: erase, the next block or the commit, behind the mark;
\* anything else at most takes the last destructive request off its way.
LEMMA EnvironmentContract ==
    ASSUME IInv, IInv', HeldInv, HeldInv', ControllerNext, UNCHANGED hostVars
    PROVE  [Contract!Next]_Contract!contractVars
<1>t. ControllerTypeOK
  BY DEF IInv, TypeOK
<1>h. req # <<>> => Head(req) = req[1] /\ 1 \in DOMAIN req /\ req[1] \in Request
  BY <1>t, HeadIsFirst
<1>0. last' = last /\ pc' = pc /\ recovery' = recovery
  BY DEF hostVars
<1>q. Exposed' => Exposed
  BY <1>0, <1>t, ControllerQueueStep DEF Exposed, QueueStep
<1>r. last.status = "running" => Exposed' = Exposed
  BY <1>0, RunExposed, RunExposedNext DEF HeldInv
<1>b. Exposed \in BOOLEAN /\ Exposed' \in BOOLEAN
  BY DEF Exposed, IInv, TypeOK, HostTypeOK
<1> DEFINE Changed == Contract!Erase \/ Contract!Program \/ Contract!Commit \/ UNCHANGED <<Held, committed>>
<1>1. ASSUME Exposed, Changed PROVE [Contract!Next]_Contract!contractVars
  <2>1. last.status = "running" => Exposed'
    BY <1>1, <1>r
  <2>2. Contract!Change
    BY <1>0, <1>1, <1>b, <2>1 DEF Contract!Change
  <2> QED BY <2>2 DEF Contract!Next
<1>2. CASE UNCHANGED <<flash, committed>>
  <2>1. Held' = Held
    BY <1>2, HeldSame
  <2>2. CASE Exposed
    BY <1>1, <1>2, <2>1, <2>2
  <2>3. CASE ~Exposed
    BY <1>0, <1>2, <1>q, <1>b, <2>1, <2>3 DEF Contract!contractVars
  <2> QED BY <2>2, <2>3
<1>3. CASE ServeErase
  <2>1. req # <<>> /\ req[1].sid = "erase" /\ flash' = BlankFlash /\ committed' = FALSE
    BY <1>3, <1>h DEF ServeErase, Accepted, Asked
  <2>2. Exposed
    BY <1>h, <2>1, DestructiveExposed DEF Destructive
  <2>3. Held' = 0
    <3>1. flash' = FirstBlocks(0)
      BY <2>1, ControllerAssumption DEF BlankFlash, FirstBlocks, Blocks, Blank
    <3> QED BY <3>1, ControllerAssumption, HeldOfFirst
  <2> QED BY <1>1, <2>1, <2>2, <2>3 DEF Contract!Erase
<1>4. CASE ServeTransfer
  <2>1. /\ req # <<>> /\ req[1].sid = "transfer" /\ committed' = committed
        /\ flash' = [flash EXCEPT ![ram.wp] = req[1].blk]
    BY <1>4, <1>h DEF ServeTransfer, Accepted, Asked
  <2>2. PICK k \in Blocks : k = ram.wp /\ k = req[1].blk
    BY <1>4, <1>h, <2>1, <1>t DEF ServeTransfer, Accepted, Asked, Acceptable, ControllerTypeOK, Ram,
       Blocks, Readable, AppServices, IInv, TransferInv, InStep
  <2>3. Holds(k - 1) /\ k - 1 \in 0..NumBlocks /\ k \in 0..NumBlocks /\ k - 1 \in 0..(NumBlocks - 1)
    BY <1>h, <2>1, <2>2, ControllerAssumption DEF HeldInv, Blocks
  <2>4. flash' = FirstBlocks(k)
    BY <2>1, <2>2, <2>3, HoldsNext
  <2>5. Held = k - 1 /\ Held' = k
    BY <2>3, <2>4, HeldBlocks, HeldOfFirst
  <2>6. Exposed
    BY <1>h, <2>1, DestructiveExposed DEF Destructive
  <2>7. k - 1 + 1 = k
    BY <2>3
  <2> QED BY <1>1, <2>1, <2>3, <2>5, <2>6, <2>7 DEF Contract!Program
<1>5. CASE ServeCommit
  <2>1. req # <<>> /\ req[1].sid = "stop82" /\ flash' = flash /\ committed' \in BOOLEAN
    BY <1>5, <1>h DEF ServeCommit, Accepted, Asked
  <2>2. flash = Image
    BY <1>h, <2>1 DEF IInv, CheckInv, ChecksumBeforeCommit, Committing
  <2>3. Held = NumBlocks /\ Held' = Held
    BY <2>1, <2>2, ControllerAssumption, HoldsEnds, HeldBlocks, HeldSame
  <2>4. Exposed
    BY <1>h, <2>1, DestructiveExposed DEF Destructive, Committing
  <2> QED BY <1>1, <2>1, <2>3, <2>4 DEF Contract!Commit
<1> QED BY <1>2, <1>3, <1>4, <1>5, <1>t, ControllerEffect DEF RoutineEnds

\* A run that ends with an exception, and says whether it counted itself as destructive.
LEMMA FailsContract ==
    ASSUME IInv, HeldInv, pc # "idle", UNCHANGED <<ecu, req>>,
           NEW r \in LastResult, NEW e, FailWith(r, e)
    PROVE  Contract!Next
<1>1. Held' = Held /\ committed' = committed
  BY HeldSame DEF ecu
<1>2. Exposed' = Exposed /\ Exposed = recovery
  BY RunExposed DEF FailWith, Exposed
<1>3. last.status = "running"
  BY DEF HeldInv
<1>4. last'.status = IF Exposed THEN "recovery_required" ELSE "error"
  BY <1>2 DEF FailWith, LastResult
<1>5. Contract!Finish
  BY <1>1, <1>2, <1>3, <1>4 DEF Contract!Finish, Contract!Fail
<1> QED BY <1>5 DEF Contract!Next

\* A step of a run that is not its end is none of the contract's, but for the mark.
LEMMA GoesOn ==
    ASSUME IInv, IInv', UNCHANGED <<flash, committed>>, pc # "idle", pc' # "idle",
           last'.status = last.status, last.status = "running", recovery => recovery'
    PROVE  [Contract!Next]_Contract!contractVars
<1>1. Held' = Held
  BY HeldSame
<1>2. Exposed = recovery /\ Exposed' = recovery' /\ recovery \in BOOLEAN /\ recovery' \in BOOLEAN
  BY RunExposed, RunExposedNext DEF IInv, TypeOK, HostTypeOK
<1>3. CASE recovery' = recovery
  BY <1>1, <1>2, <1>3 DEF Contract!contractVars
<1>4. CASE recovery' = TRUE
  BY <1>1, <1>2, <1>4 DEF Contract!Mark, Contract!Next
<1> QED BY <1>2, <1>3, <1>4

\* A run that succeeds: the fresh application was seen behind an acknowledged commit.
LEMMA SucceedsContract ==
    ASSUME IInv, HeldInv, UNCHANGED <<ecu, req>>, pc = "status",
           kwp.addr = "app", Acknowledged, Verify
    PROVE  Contract!Next
<1>1. flash = Image /\ committed
  BY DEF IInv, CommitInv, Verifying, Programmed
<1>2. Held = NumBlocks /\ Held' = Held /\ committed' = committed
  BY <1>1, ControllerAssumption, HoldsEnds, HeldBlocks, HeldSame DEF ecu
<1>3. last.status = "running" /\ last'.status = "ok" /\ recovery' = FALSE
  BY DEF HeldInv, Verify, IInv, TypeOK, HostTypeOK, LastResult
<1>4. Exposed' = FALSE
  <2>1. \A i \in DOMAIN req : req[i].sid \in {"status"}
    BY DEF IInv, QueueInv, Outstanding, Exchanges, Services
  <2> QED BY <1>3, <2>1 DEF Exposed, Destructive, Committing
<1>5. Contract!Finish
  BY <1>1, <1>2, <1>3, <1>4 DEF Contract!Finish, Contract!Succeed
<1> QED BY <1>5 DEF Contract!Next

\* Every step of flash_binary, of its connections and its requests.
LEMMA RunContract ==
    ASSUME IInv, IInv', HeldInv, HeldInv', Run
    PROVE  [Contract!Next]_Contract!contractVars
<1>0. /\ UNCHANGED ecu /\ UNCHANGED <<flash, committed>>
      /\ last \in LastResult /\ last' \in LastResult /\ recovery \in BOOLEAN
  BY DEF Run, Connection, Exchange, Cancelled, AdapterFails, ConnectOk, ConnectFails, Send, Receive,
     KeepAliveFails, Timeout, PollsExhausted, ecu, IInv, TypeOK, HostTypeOK
<1>1. pc # "idle" /\ last.status = "running"
  BY DEF Run, Connection, Exchange, Cancelled, AdapterFails, ConnectOk, ConnectFails, Send, Receive,
     KeepAliveFails, Timeout, PollsExhausted, CancelPoints, Connecting, Polling, Exchanges, Services,
     IInv, QueueInv, PollsInv, HeldInv
<1>2. CASE pc' # "idle"
  <2>1. last'.status = "running"
    BY <1>2 DEF HeldInv
  <2>2. recovery => recovery'
    BY <1>1, <1>2, <1>0 DEF Run, Connection, Exchange, Cancelled, AdapterFails, ConnectOk, ConnectFails,
       Send, RecoveryMark, Receive, KeepAliveFails, Timeout, PollsExhausted, Fail, FailWith, Raise,
       Reconnect, CommitStep, Advance, Verify, PollAgain
  <2> QED BY <1>0, <1>1, <1>2, <2>1, <2>2, GoesOn
<1>3. CASE pc' = "idle"
  <2>1. req' = req
    BY <1>1, <1>3 DEF Run, Connection, Exchange, Cancelled, AdapterFails, ConnectOk, ConnectFails,
       Send, Receive, KeepAliveFails, Timeout, PollsExhausted
  <2>2. \/ \E r \in LastResult, e \in Errors : FailWith(r, e)
        \/ pc = "status" /\ kwp.addr = "app" /\ Acknowledged /\ Verify
    <3>1. ASSUME NEW e \in Errors, Raise(e) PROVE Fail(e)
      <4>1. pc \in DOMAIN ReconnectStage => ReconnectStage[pc] # "idle"
        BY DEF ReconnectStage
      <4> QED BY <1>3, <3>1, <4>1 DEF Raise, Reconnect, CommitStep
    <3>2. ASSUME Advance, pc \in Exchanges PROVE pc = "status" /\ Verify
      BY <1>3, <3>2 DEF Advance, CommitStep, Reconnect, NextStage, Exchanges, Services, Committing
    <3>3. ASSUME Verify, pc = "status", ~(kwp.addr = "app" /\ Acknowledged)
          PROVE \E r \in LastResult, e \in Errors : FailWith(r, e)
      <4>1. [last EXCEPT !.boot = TRUE] \in LastResult
        BY <1>0 DEF LastResult
      <4> QED BY <1>0, <3>3, <4>1 DEF Verify, Fail, Errors
    <3>4. CASE Receive \/ KeepAliveFails \/ Timeout
      <4>1. pc \in Exchanges
        BY <3>4 DEF Receive, KeepAliveFails, Timeout, IInv, QueueInv, PollsInv
      <4>2. (\E e \in Errors : Raise(e)) \/ Advance
        BY <1>1, <1>3, <3>4 DEF Receive, KeepAliveFails, Timeout, Errors, PollAgain
      <4> QED BY <1>0, <3>1, <3>2, <3>3, <4>1, <4>2 DEF Fail
    <3>5. CASE Cancelled \/ AdapterFails \/ ConnectFails \/ PollsExhausted
      BY <1>0, <1>1, <1>3, <3>5 DEF Cancelled, AdapterFails, ConnectFails, PollsExhausted, Fail, Errors
    <3>6. CASE ConnectOk
      <4>1. mode \in {"app", "loader"}
        BY <3>6 DEF ConnectOk, IInv, TypeOK, ControllerTypeOK
      <4>2. pc \in Connecting => AfterConnect(mode) # "idle"
        BY <4>1 DEF AfterConnect, Connecting
      <4> QED BY <1>0, <1>3, <3>6, <4>2 DEF ConnectOk, Fail, Errors
    <3>7. CASE Send
      BY <1>1, <1>3, <3>7 DEF Send
    <3> QED BY <3>4, <3>5, <3>6, <3>7 DEF Run, Connection, Exchange
  <2> QED BY <1>0, <1>1, <2>1, <2>2, FailsContract, SucceedsContract
<1> QED BY <1>2, <1>3

\* The user begins a run when nothing is left of an earlier one, is refused, or asks
\* to abort, which alone changes nothing.
LEMMA UserContract ==
    ASSUME IInv, IInv', HeldInv, User
    PROVE  [Contract!Next]_Contract!contractVars
<1>0. UNCHANGED <<flash, committed, req>> /\ Held' = Held
  BY HeldSame DEF User, Start, Preflight, RequestAbort, ecu, controllerVars
<1>1. CASE \E fresh \in BOOLEAN : Start(fresh)
  <2>1. last.status # "running" /\ last'.status = "running" /\ ~Exposed'
    BY <1>0, <1>1 DEF Start, HeldInv, NoResult, Exposed
  <2>2. Exposed' = FALSE
    BY <2>1 DEF Exposed
  <2> QED BY <1>0, <2>1, <2>2 DEF Contract!Begin, Contract!Next
<1>2. CASE Preflight
  <2>1. last.status # "running" /\ last'.status \in {"none", "validated"}
    BY <1>2 DEF Preflight, HeldInv, NoResult
  <2>2. Exposed' => Exposed
    BY <1>0, <1>2 DEF Preflight, Exposed
  <2> QED BY <1>0, <2>1, <2>2 DEF Contract!Refuse, Contract!Next
<1>3. CASE RequestAbort
  <2>1. last' = last /\ Exposed' = Exposed
    BY <1>0, <1>3 DEF RequestAbort, Exposed
  <2> QED BY <1>0, <2>1 DEF Contract!contractVars
<1> QED BY <1>1, <1>2, <1>3 DEF User

\* A step that changes nothing leaves the contract's variables alone.
LEMMA StutterContract == UNCHANGED vars => UNCHANGED Contract!contractVars
  BY DEF vars, hostVars, controllerVars, Contract!contractVars, Held, Holds, Exposed

\* flash_binary keeps its contract with its caller: the controller's contents change
\* only behind the mark of a destructive run, in order, and the verdict tells.
THEOREM KeepsContractHolds == Spec => KeepsContract
<1>1. IInv /\ IInv' /\ HeldInv /\ HeldInv' /\ [Next]_vars => [Contract!Next]_Contract!contractVars
  BY EnvironmentContract, RunContract, UserContract, StutterContract DEF Next, Environment
<1> QED BY <1>1, InitContract, Inductive, HeldInductive, PTL DEF Spec, KeepsContract, Contract!Spec
================================================================================
