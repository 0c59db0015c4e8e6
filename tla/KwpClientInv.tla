----------------------------- MODULE KwpClientInv -----------------------------
(***************************************************************************)
(* The inductive invariant behind the safety properties of KwpClient: what *)
(* a response on the line says of the request it answers, when a request   *)
(* is sent, and, where no call left an answer behind, what is under way.   *)
(* KwpClientProofs proves it.                                              *)
(***************************************************************************)
EXTENDS KwpClient

Turns == 1..Len(Script)
Services == {Script[t].sid : t \in Turns}
Subs == {Script[t].sub : t \in Turns}
Codes == {"pending", "busy", "refused", "malformed"}
Hows == {"response", "error", "negative", "pendingTimeout", "transport"}

Negatives == [kind : {"negative"}, sid : Services, code : Codes, to : Nat]
Positives == [kind : {"positive"}, sid : Services, sub : Subs, form : {"right", "wrong"}, to : Nat]
Responses == Negatives \union Positives

\* A response answers a request that was sent, and repeats its service, a positive one
\* its subfunction too.
GenuineIn(sent, response) ==
    /\ response \in Responses /\ response.to \in DOMAIN sent
    /\ response.sid = Script[sent[response.to]].sid
    /\ response.kind = "positive" => response.sub = Script[sent[response.to]].sub
Genuine(response) == GenuineIn(sendings, response)

CallsInv ==
    /\ pc \in {"idle", "send", "recv"} /\ turn \in 0..Len(Script)
    /\ pending \in 0..PendingLimit /\ busy \in 0..BusyRetries /\ astray \in BOOLEAN
    /\ pc # "idle" => turn \in Turns
    /\ outcomes \in Seq([how : Hows, response : Responses \union {<<>>}])
    /\ Len(outcomes) = IF pc = "idle" THEN turn ELSE turn - 1

LinkInv ==
    /\ sendings \in Seq(Turns) /\ asked \in Seq(Nat) /\ line \in Seq(Responses)
    /\ ecu \in [pending : Nat, done : SUBSET Nat] /\ ecu.done \subseteq DOMAIN sendings
    /\ \A i \in DOMAIN asked : asked[i] \in DOMAIN sendings
    /\ \A i \in DOMAIN line : Genuine(line[i])

\* The response a caller is given fits its request; a response that ends a call is genuine.
OutcomesInv ==
    \A t \in DOMAIN outcomes :
        /\ outcomes[t].how = "response" => outcomes[t].response # <<>>
        /\ outcomes[t].response # <<>> => Genuine(outcomes[t].response)
        /\ outcomes[t].how = "response" =>
             /\ outcomes[t].response.kind = "positive"
             /\ outcomes[t].response.sid = Script[t].sid
             /\ Script[t].sid \in EchoServices => outcomes[t].response.sub = Script[t].sub

\* A request is sent in its own call, and sent again only where busy asks for it.
OnceInv ==
    /\ \A n \in DOMAIN sendings : sendings[n] <= turn
    /\ pc = "send" /\ Request.sid \notin BusyServices => SendingsOf(turn) = {}
    /\ \A t \in Turns : Script[t].sid \notin BusyServices => \A m, n \in SendingsOf(t) : m = n

\* One request is under way at most, the last one sent; its pending responses go before
\* the one response that is final.
Last == Len(sendings)
IsPending(response) == response.kind = "negative" /\ response.code = "pending"
UnderWay ==
    IF pc = "recv"
      THEN /\ Last > 0 /\ sendings[Last] = turn
           /\ \A i \in DOMAIN line : line[i].to = Last
           /\ \/ asked = <<Last>> /\ \A i \in DOMAIN line : IsPending(line[i])
              \/ /\ asked = <<>> /\ line # <<>> /\ ~IsPending(line[Len(line)])
                 /\ \A i \in DOMAIN line : i < Len(line) => IsPending(line[i])
      ELSE line = <<>> /\ asked = <<>>

\* What the call at hand has sent and the controller has carried out: the last request
\* alone, and the positive response is on the line.
Undone ==
    pc # "idle" =>
        \A n \in SendingsOf(turn) \intersect ecu.done :
            pc = "recv" /\ n = Last /\ asked = <<>> /\ line[Len(line)].kind = "positive"

\* How the calls have ended.
Settled ==
    \A t \in DOMAIN outcomes :
        /\ outcomes[t].response # <<>> =>
             /\ sendings[outcomes[t].response.to] = t
             /\ \A n \in SendingsOf(t) : n <= outcomes[t].response.to
        /\ outcomes[t].how = "negative" => SendingsOf(t) \intersect ecu.done = {}

StepInv == ~astray => UnderWay /\ Undone /\ Settled

IInv == CallsInv /\ LinkInv /\ OutcomesInv /\ OnceInv /\ StepInv
================================================================================
