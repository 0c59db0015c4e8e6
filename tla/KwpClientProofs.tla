--------------------------- MODULE KwpClientProofs ---------------------------
(***************************************************************************)
(* Proofs about KwpClient, for every script, every profile and every limit  *)
(* of busy and pending responses.  IInv of KwpClientInv holds initially and *)
(* is preserved, one lemma per conjunct.                                    *)
(***************************************************************************)
EXTENDS KwpClientInv, SequenceLemmas

--------------------------------------------------------------------------------
(***************************************************************************)
(* What a step does to the queues.                                         *)
(***************************************************************************)

\* The script is a sequence of requests.
LEMMA ScriptFacts ==
    /\ Len(Script) \in Nat /\ BusyRetries \in Nat /\ PendingLimit \in Nat
    /\ \A t \in Turns : Script[t].sid \in Services /\ Script[t].sub \in Subs
<1>1. Script \in Seq({Script[i] : i \in DOMAIN Script}) /\ BusyRetries \in Nat /\ PendingLimit \in Nat
  BY KwpAssumption
<1>2. Len(Script) \in Nat
  BY <1>1, LenProperties
<1> QED BY <1>1, <1>2 DEF Services, Subs, Turns

\* The queues by their lengths and domains.
LEMMA Queues ==
    ASSUME LinkInv
    PROVE  /\ Len(sendings) \in Nat /\ DOMAIN sendings = 1..Len(sendings)
           /\ Len(asked) \in Nat /\ DOMAIN asked = 1..Len(asked)
           /\ Len(line) \in Nat /\ DOMAIN line = 1..Len(line)
  BY LenProperties DEF LinkInv

\* A request that is sent is one of the call at hand; the others stay what they were.
LEMMA Sending ==
    ASSUME LinkInv, turn \in Turns, turn' = turn, sendings' = Append(sendings, turn)
    PROVE  /\ sendings' \in Seq(Turns) /\ Len(sendings') = Len(sendings) + 1
           /\ DOMAIN sendings \subseteq DOMAIN sendings' /\ Len(sendings) + 1 \in DOMAIN sendings'
           /\ \A n \in DOMAIN sendings' : n \in DOMAIN sendings \/ n = Len(sendings) + 1
           /\ \A n \in DOMAIN sendings : sendings'[n] = sendings[n]
           /\ sendings'[Len(sendings) + 1] = turn
           /\ Len(sendings) + 1 \notin DOMAIN sendings
           /\ \A r : GenuineIn(sendings, r) => GenuineIn(sendings', r)
           /\ \A t : t # turn => SendingsOf(t)' = SendingsOf(t)
           /\ SendingsOf(turn)' = SendingsOf(turn) \union {Len(sendings) + 1}
<1>1. sendings \in Seq(Turns)
  BY DEF LinkInv
<1>2. /\ sendings' \in Seq(Turns) /\ Len(sendings') = Len(sendings) + 1
      /\ DOMAIN sendings \subseteq DOMAIN sendings' /\ Len(sendings) + 1 \in DOMAIN sendings'
      /\ \A n \in DOMAIN sendings' : n \in DOMAIN sendings \/ n = Len(sendings) + 1
      /\ \A n \in DOMAIN sendings : sendings'[n] = sendings[n]
      /\ sendings'[Len(sendings) + 1] = turn
      /\ Len(sendings) + 1 \notin DOMAIN sendings
  <2>1. Len(sendings) \in Nat /\ DOMAIN sendings = 1..Len(sendings)
    BY Queues
  <2> QED BY <1>1, <2>1, AppendFacts
<1>3. ASSUME NEW r, GenuineIn(sendings, r) PROVE GenuineIn(sendings', r)
  BY <1>2, <1>3 DEF GenuineIn
<1>4. ASSUME NEW t, t # turn PROVE SendingsOf(t)' = SendingsOf(t)
  BY <1>2, <1>4 DEF SendingsOf
<1>5. SendingsOf(turn)' = SendingsOf(turn) \union {Len(sendings) + 1}
  BY <1>2 DEF SendingsOf
<1> QED BY <1>2, <1>3, <1>4, <1>5

\* A response that is received is the oldest, and the others move up.
LEMMA Receiving ==
    ASSUME LinkInv, NEW kind, Receives(kind)
    PROVE  /\ line # <<>> /\ Head(line) = line[1] /\ line[1] \in Responses /\ line[1].kind = kind
           /\ Genuine(line[1]) /\ 1 \in DOMAIN line
           /\ line' \in Seq(Responses) /\ Len(line') = Len(line) - 1 /\ Len(line) \in Nat \ {0}
           /\ \A i \in DOMAIN line' : i + 1 \in DOMAIN line /\ line'[i] = line[i + 1]
           /\ DOMAIN line' = 1..(Len(line) - 1)
           /\ pc = "recv" /\ UNCHANGED <<sendings, asked, ecu>>
<1>1. line # <<>> /\ line \in Seq(Responses) /\ line' = Tail(line) /\ Head(line).kind = kind
      /\ pc = "recv" /\ UNCHANGED <<sendings, asked, ecu>>
  BY DEF Receives, LinkInv
<1>2. Genuine(line[1])
  BY <1>1, TailFacts DEF LinkInv
<1> QED BY <1>1, <1>2, TailFacts

\* A call that ends adds its outcome.
LEMMA Ending ==
    ASSUME CallsInv, pc # "idle", NEW how \in Hows, NEW response \in Responses \union {<<>>},
           Ends(how, response)
    PROVE  /\ pc' = "idle" /\ turn' = turn /\ pending' = pending /\ busy' = busy /\ turn \in Turns
           /\ outcomes' \in Seq([how : Hows, response : Responses \union {<<>>}])
           /\ Len(outcomes) = turn - 1 /\ Len(outcomes') = turn
           /\ DOMAIN outcomes = 1..(turn - 1) /\ DOMAIN outcomes' = 1..turn
           /\ \A t \in DOMAIN outcomes : t \in DOMAIN outcomes' /\ outcomes'[t] = outcomes[t] /\ t < turn
           /\ outcomes'[turn] = [how |-> how, response |-> response]
           /\ \A t \in DOMAIN outcomes' : t \in DOMAIN outcomes \/ t = turn
<1> DEFINE outcome == [how |-> how, response |-> response]
           Outcomes == [how : Hows, response : Responses \union {<<>>}]
<1>1. turn \in Turns /\ outcomes \in Seq(Outcomes) /\ Len(outcomes) = turn - 1 /\ turn \in Nat
      /\ outcome \in Outcomes
  BY ScriptFacts DEF CallsInv, Turns
<1>2. pc' = "idle" /\ outcomes' = Append(outcomes, outcome) /\ UNCHANGED <<turn, pending, busy>>
  BY DEF Ends
<1> HIDE DEF outcome, Outcomes
<1>3. /\ outcomes' \in Seq(Outcomes) /\ Len(outcomes') = Len(outcomes) + 1
      /\ DOMAIN outcomes' = 1..(Len(outcomes) + 1) /\ DOMAIN outcomes = 1..Len(outcomes)
      /\ \A t \in DOMAIN outcomes : t \in DOMAIN outcomes' /\ outcomes'[t] = outcomes[t]
      /\ outcomes'[Len(outcomes) + 1] = outcome
  BY <1>1, <1>2, AppendFacts
<1>4. Len(outcomes) + 1 = turn
  BY <1>1
<1>5. \A t \in 1..(turn - 1) : t < turn
  BY <1>1
<1>6. \A t \in 1..turn : t \in 1..(turn - 1) \/ t = turn
  BY <1>1
<1> QED BY <1>1, <1>2, <1>3, <1>4, <1>5, <1>6 DEF outcome, Outcomes

\* The ways a call ends on a response, with what they say of the response.
Judged(how) ==
    /\ Ends(how, line[1])
    /\ \/ /\ how = "error" /\ astray' = astray
          /\ line[1].sid # Request.sid \/ ~IsPending(line[1])
       \/ how = "pendingTimeout" /\ astray'
       \/ /\ how = "negative" /\ astray' = astray
          /\ line[1].sid = Request.sid /\ ~IsPending(line[1]) /\ line[1].kind = "negative"
       \/ /\ how = "response" /\ astray' = astray
          /\ line[1].kind = "positive" /\ ~IsPending(line[1]) /\ Valid(line[1])

\* What a step that takes a response does: wait on, ask again, or end the call.
LEMMA Taking ==
    ASSUME LinkInv, Mismatch \/ Pending \/ BusyAgain \/ Refused \/ Answered
    PROVE  /\ \E kind : Receives(kind)
           /\ \/ /\ pending < PendingLimit /\ pending' = pending + 1 /\ IsPending(line[1])
                 /\ UNCHANGED <<pc, turn, busy, outcomes, astray>>
              \/ /\ busy < BusyRetries /\ busy' = busy + 1 /\ pc' = "send" /\ Request.sid \in BusyServices
                 /\ line[1].kind = "negative" /\ ~IsPending(line[1])
                 /\ UNCHANGED <<turn, pending, outcomes, astray>>
              \/ \E how \in Hows : Judged(how)
<1>1. \E kind : Receives(kind)
  BY DEF Mismatch, Pending, BusyAgain, Refused, Answered
<1>2. Head(line) = line[1]
  BY <1>1, Receiving
<1>3. CASE Mismatch
  <2>1. Judged("error")
    BY <1>2, <1>3 DEF Mismatch, Judged, IsPending
  <2> QED BY <1>1, <2>1 DEF Hows
<1>4. CASE Pending
  <2>1. IsPending(line[1])
    BY <1>2, <1>4 DEF Pending, Receives, IsPending
  <2> QED BY <1>1, <1>2, <1>4, <2>1 DEF Pending, PendingLeft, Counted, Judged, Hows
<1>5. CASE BusyAgain
  BY <1>1, <1>2, <1>5 DEF BusyAgain, AsksAgain, Receives, IsPending
<1>6. CASE Refused
  BY <1>1, <1>2, <1>6 DEF Refused, Receives, IsPending, Judged, Hows
<1>7. CASE Answered
  <2>1. Judged(IF Valid(line[1]) THEN "response" ELSE "error")
    BY <1>2, <1>7 DEF Answered, Receives, Judged, IsPending
  <2> QED BY <1>1, <2>1 DEF Hows
<1> QED BY <1>3, <1>4, <1>5, <1>6, <1>7

--------------------------------------------------------------------------------
(***************************************************************************)
(* The calls and the link.                                                 *)
(***************************************************************************)

\* Every call ends with one outcome, and counts within its limits.
LEMMA CallsStep ==
    ASSUME CallsInv, LinkInv, Next
    PROVE  CallsInv'
<1>0. /\ Len(Script) \in Nat /\ turn \in 0..Len(Script) /\ astray \in BOOLEAN
      /\ pending \in 0..PendingLimit /\ busy \in 0..BusyRetries
      /\ BusyRetries \in Nat /\ PendingLimit \in Nat
  BY ScriptFacts DEF CallsInv
<1>1. ASSUME NEW how \in Hows, NEW response \in Responses \union {<<>>}, pc # "idle",
             Ends(how, response), astray' \in BOOLEAN
      PROVE  CallsInv'
  <2>1. pc' = "idle" /\ turn' = turn /\ pending' = pending /\ busy' = busy /\ Len(outcomes') = turn
        /\ outcomes' \in Seq([how : Hows, response : Responses \union {<<>>}])
    BY <1>1, Ending
  <2> QED BY <1>0, <1>1, <2>1 DEF CallsInv
<1>2. CASE Call
  <2>1. turn' = turn + 1 /\ turn + 1 \in Turns /\ pc' = "send" /\ pc = "idle"
    BY <1>0, <1>2 DEF Call, Turns
  <2>2. turn' - 1 = turn /\ turn' \in 0..Len(Script) /\ turn' \in Turns
    BY <1>0, <2>1 DEF Turns
  <2> QED BY <1>0, <1>2, <2>1, <2>2 DEF Call, CallsInv
<1>3. CASE Sent
  BY <1>3 DEF Sent, CallsInv
<1>4. CASE SendFails \/ RecvFails
  <2>1. pc # "idle" /\ Ends("transport", <<>>) /\ astray' \in BOOLEAN
    BY <1>0, <1>4 DEF SendFails, RecvFails
  <2> QED BY <1>1, <2>1 DEF Hows
<1>5. CASE Mismatch \/ Pending \/ BusyAgain \/ Refused \/ Answered
  <2>1. pc = "recv" /\ line[1] \in Responses
    BY <1>5, Taking, Receiving
  <2>2. CASE pending < PendingLimit /\ pending' = pending + 1 /\ UNCHANGED <<pc, turn, busy, outcomes, astray>>
    <3>1. pending' \in 0..PendingLimit
      BY <1>0, <2>2
    <3> QED BY <2>2, <3>1 DEF CallsInv
  <2>3. CASE busy < BusyRetries /\ busy' = busy + 1 /\ pc' = "send" /\ UNCHANGED <<turn, pending, outcomes, astray>>
    <3>1. busy' \in 0..BusyRetries
      BY <1>0, <2>3
    <3> QED BY <2>1, <2>3, <3>1 DEF CallsInv
  <2>4. ASSUME NEW how \in Hows, Judged(how) PROVE CallsInv'
    <3>1. Ends(how, line[1]) /\ astray' \in BOOLEAN
      BY <1>0, <2>4 DEF Judged
    <3> QED BY <1>1, <2>1, <3>1
  <2> QED BY <1>5, <2>2, <2>3, <2>4, Taking
<1>6. CASE Ecu
  <2>1. UNCHANGED client
    BY <1>6 DEF Ecu, AskForTime, Serve, ServeOddly, Decline, Answer
  <2> QED BY <2>1 DEF client, CallsInv
<1> QED BY <1>2, <1>3, <1>4, <1>5, <1>6 DEF Next, Client

\* What the controller puts on the line says what it answers.
LEMMA AnswersGenuine ==
    ASSUME LinkInv, NEW n \in DOMAIN sendings
    PROVE  /\ \A code \in Codes : Genuine(Negative(n, code))
           /\ \A form \in {"right", "wrong"} : Genuine(Positive(n, form))
<1>1. n \in Nat /\ sendings[n] \in Turns
  BY Queues DEF LinkInv
<1>2. Script[sendings[n]].sid \in Services /\ Script[sendings[n]].sub \in Subs
  BY <1>1, ScriptFacts
<1>3. ASSUME NEW code \in Codes PROVE Genuine(Negative(n, code))
  BY <1>1, <1>2 DEF Genuine, GenuineIn, Negative, Responses, Negatives
<1>4. ASSUME NEW form \in {"right", "wrong"} PROVE Genuine(Positive(n, form))
  BY <1>1, <1>2 DEF Genuine, GenuineIn, Positive, Responses, Positives
<1> QED BY <1>3, <1>4

\* The controller's steps in one: a response is added; a final one ends the work, and
\* a positive one says that the work is done.
Responds(response) ==
    /\ asked # <<>> /\ line' = Append(line, response) /\ response.to = asked[1]
    /\ Genuine(response) /\ UNCHANGED <<client, sendings>>
    /\ \/ IsPending(response) /\ asked' = asked /\ ecu'.done = ecu.done
       \/ /\ ~IsPending(response) /\ asked' = Tail(asked)
          /\ ecu'.done = ecu.done \union IF response.kind = "positive" THEN {asked[1]} ELSE {}
LEMMA Responding ==
    ASSUME LinkInv, Ecu
    PROVE  /\ \E response \in Responses : Responds(response)
           /\ ecu' \in [pending : Nat, done : SUBSET Nat] /\ ecu'.done \subseteq DOMAIN sendings
<1>1. asked # <<>>
  BY DEF Ecu, AskForTime, Serve, ServeOddly, Decline
<1>2. asked[1] \in DOMAIN sendings /\ asked[1] \in Nat /\ InWork = asked[1]
  <2>1. asked \in Seq(Nat)
    BY DEF LinkInv
  <2> QED BY <1>1, <2>1, TailFacts DEF LinkInv, InWork
<1>3. /\ \A code \in Codes : Genuine(Negative(InWork, code)) /\ Negative(InWork, code) \in Responses
      /\ \A form \in {"right", "wrong"} : Genuine(Positive(InWork, form)) /\ Positive(InWork, form) \in Responses
  BY <1>2, AnswersGenuine DEF Genuine, GenuineIn
<1>4. ecu \in [pending : Nat, done : SUBSET Nat] /\ ecu.done \subseteq DOMAIN sendings
  BY DEF LinkInv
<1>5. CASE AskForTime
  <2> DEFINE response == Negative(InWork, "pending")
  <2>1. response \in Responses /\ Genuine(response)
    BY <1>3 DEF Codes
  <2>2. response.to = InWork /\ IsPending(response)
    BY DEF Negative, IsPending
  <2>3. line' = Append(line, response) /\ UNCHANGED <<client, sendings, asked>>
        /\ ecu' = [ecu EXCEPT !.pending = IF MaxPending = -1 THEN 0 ELSE ecu.pending + 1]
    BY <1>5 DEF AskForTime
  <2>4. ecu' \in [pending : Nat, done : SUBSET Nat] /\ ecu'.done = ecu.done
    BY <1>4, <2>3
  <2> HIDE DEF response
  <2>5. Responds(response)
    BY <1>1, <1>2, <2>1, <2>2, <2>3, <2>4 DEF Responds
  <2> QED BY <1>4, <2>1, <2>4, <2>5
<1>6. ASSUME NEW response \in Responses, Genuine(response), response.to = InWork, ~IsPending(response),
             Answer(response, IF response.kind = "positive" THEN {InWork} ELSE {})
      PROVE  /\ Responds(response) /\ ecu' \in [pending : Nat, done : SUBSET Nat]
             /\ ecu'.done \subseteq DOMAIN sendings
  BY <1>1, <1>2, <1>4, <1>6 DEF Answer, Responds
<1>7. CASE Serve \/ ServeOddly
  <2>1. PICK form \in {"right", "wrong"} : Answer(Positive(InWork, form), {InWork})
    BY <1>7 DEF Serve, ServeOddly
  <2> DEFINE response == Positive(InWork, form)
  <2>2. response.to = InWork /\ ~IsPending(response) /\ response.kind = "positive"
    BY DEF Positive, IsPending
  <2>3. response \in Responses /\ Genuine(response) /\ Answer(response, {InWork})
    BY <1>3, <2>1
  <2> HIDE DEF response
  <2> QED BY <1>6, <2>2, <2>3
<1>8. CASE Decline
  <2>1. PICK code \in {"busy", "refused", "malformed"} : Answer(Negative(InWork, code), {})
    BY <1>8 DEF Decline
  <2> DEFINE response == Negative(InWork, code)
  <2>2. response.to = InWork /\ ~IsPending(response) /\ response.kind # "positive"
    BY <2>1 DEF Negative, IsPending
  <2>3. response \in Responses /\ Genuine(response) /\ Answer(response, {})
    BY <1>3, <2>1 DEF Codes
  <2> HIDE DEF response
  <2> QED BY <1>6, <2>2, <2>3
<1> QED BY <1>5, <1>7, <1>8 DEF Ecu

\* Every response on the line answers a request that was sent.
LEMMA LinkStep ==
    ASSUME CallsInv, LinkInv, Next
    PROVE  LinkInv'
<1>0. /\ sendings \in Seq(Turns) /\ asked \in Seq(Nat) /\ line \in Seq(Responses)
      /\ Len(sendings) \in Nat /\ DOMAIN sendings = 1..Len(sendings)
  BY Queues DEF LinkInv
<1>1. ASSUME UNCHANGED <<sendings, asked, line, ecu>> PROVE LinkInv'
  BY <1>1 DEF LinkInv, Genuine
<1>2. ASSUME sendings' = Append(sendings, turn), asked' = Append(asked, Len(sendings) + 1), turn \in Turns,
             turn' = turn, UNCHANGED <<line, ecu>>
      PROVE  LinkInv'
  <2>1. /\ sendings' \in Seq(Turns) /\ DOMAIN sendings \subseteq DOMAIN sendings'
        /\ Len(sendings) + 1 \in DOMAIN sendings'
        /\ \A r : GenuineIn(sendings, r) => GenuineIn(sendings', r)
    BY <1>2, Sending
  <2>2. asked' \in Seq(Nat) /\ \A i \in DOMAIN asked' : asked'[i] \in DOMAIN sendings'
    <3>1. Len(sendings) + 1 \in Nat
      BY <1>0
    <3>2. asked' \in Seq(Nat) /\ \A i \in DOMAIN asked' :
            (i \in DOMAIN asked /\ asked'[i] = asked[i]) \/ asked'[i] = Len(sendings) + 1
      BY <1>0, <1>2, <3>1, AppendFacts
    <3> QED BY <2>1, <3>2 DEF LinkInv
  <2>3. \A i \in DOMAIN line' : Genuine(line[i])'
    <3>1. \A i \in DOMAIN line : Genuine(line[i])
      BY DEF LinkInv
    <3> QED BY <1>2, <2>1, <3>1 DEF Genuine
  <2>4. ecu' \in [pending : Nat, done : SUBSET Nat] /\ ecu'.done \subseteq DOMAIN sendings'
    BY <1>2, <2>1 DEF LinkInv
  <2> QED BY <1>0, <1>2, <2>1, <2>2, <2>3, <2>4 DEF LinkInv
<1>3. CASE Call \/ RecvFails
  BY <1>1, <1>3 DEF Call, RecvFails
<1>4. CASE Sent
  BY <1>2, <1>4 DEF Sent, CallsInv
<1>5. CASE SendFails
  <2>1. turn' = turn /\ turn \in Turns /\ UNCHANGED <<line, ecu>>
        /\ \/ UNCHANGED <<sendings, asked>>
           \/ sendings' = Append(sendings, turn) /\ asked' = Append(asked, Len(sendings) + 1)
    BY <1>5 DEF SendFails, Ends, CallsInv
  <2> QED BY <1>1, <1>2, <2>1
<1>6. CASE Mismatch \/ Pending \/ BusyAgain \/ Refused \/ Answered
  <2>1. PICK kind : Receives(kind)
    BY <1>6, Taking
  <2>2. line' \in Seq(Responses) /\ UNCHANGED <<sendings, asked, ecu>>
        /\ \A i \in DOMAIN line' : i + 1 \in DOMAIN line /\ line'[i] = line[i + 1]
    BY <2>1, Receiving
  <2> QED BY <2>2 DEF LinkInv, Genuine
<1>7. CASE Ecu
  <2>1. PICK response \in Responses : Responds(response)
    BY <1>7, Responding
  <2>2. line' \in Seq(Responses) /\ \A i \in DOMAIN line' :
          (i \in DOMAIN line /\ line'[i] = line[i]) \/ line'[i] = response
    BY <1>0, <2>1, AppendFacts DEF Responds
  <2>3. sendings' = sendings /\ asked' \in Seq(Nat) /\ \A i \in DOMAIN asked' : asked'[i] \in DOMAIN sendings
    <3>1. asked' = asked \/ asked' = Tail(asked)
      BY <2>1 DEF Responds
    <3>2. asked # <<>> /\ sendings' = sendings /\ \A i \in DOMAIN asked : asked[i] \in DOMAIN sendings
      BY <2>1 DEF Responds, LinkInv
    <3>3. CASE asked' = Tail(asked)
      <4>1. asked' \in Seq(Nat) /\ \A i \in DOMAIN asked' : i + 1 \in DOMAIN asked /\ asked'[i] = asked[i + 1]
        BY <1>0, <3>2, <3>3, TailFacts
      <4> QED BY <3>2, <4>1
    <3> QED BY <1>0, <3>1, <3>2, <3>3
  <2>4. \A i \in DOMAIN line' : Genuine(line[i])'
    BY <2>1, <2>2, <2>3 DEF LinkInv, Genuine, Responds
  <2>5. ecu' \in [pending : Nat, done : SUBSET Nat] /\ ecu'.done \subseteq DOMAIN sendings
    BY <1>7, Responding
  <2> QED BY <1>0, <2>2, <2>3, <2>4, <2>5 DEF LinkInv
<1> QED BY <1>3, <1>4, <1>5, <1>6, <1>7 DEF Next, Client

--------------------------------------------------------------------------------
(***************************************************************************)
(* The outcomes, and when a request is sent.                               *)
(***************************************************************************)

\* A response that a caller is given has been validated against the request of its call.
LEMMA OutcomesStep ==
    ASSUME CallsInv, LinkInv, OutcomesInv, Next
    PROVE  OutcomesInv'
<1>0. /\ \A t \in Turns : Script[t].sid \in Services
      /\ \A t \in DOMAIN outcomes : outcomes[t].response # <<>> => GenuineIn(sendings, outcomes[t].response)
  BY ScriptFacts DEF OutcomesInv, Genuine
<1>1. ASSUME outcomes' = outcomes, \A r : GenuineIn(sendings, r) => GenuineIn(sendings', r) PROVE OutcomesInv'
  BY <1>1 DEF OutcomesInv, Genuine
<1>2. ASSUME NEW how \in Hows, NEW response \in Responses \union {<<>>}, pc # "idle", Ends(how, response),
             \A r : GenuineIn(sendings, r) => GenuineIn(sendings', r),
             response # <<>> => GenuineIn(sendings, response),
             how = "response" =>
                 /\ response # <<>> /\ response.kind = "positive" /\ response.sid = Script[turn].sid
                 /\ Script[turn].sid \in EchoServices => response.sub = Script[turn].sub
      PROVE  OutcomesInv'
  <2>1. /\ \A t \in DOMAIN outcomes : outcomes'[t] = outcomes[t]
        /\ outcomes'[turn] = [how |-> how, response |-> response]
        /\ \A t \in DOMAIN outcomes' : t \in DOMAIN outcomes \/ t = turn
    BY <1>2, Ending
  <2>2. outcomes'[turn].how = how /\ outcomes'[turn].response = response
    BY <2>1
  <2>3. SUFFICES ASSUME NEW t \in DOMAIN outcomes'
                 PROVE  /\ outcomes'[t].how = "response" => outcomes'[t].response # <<>>
                        /\ outcomes'[t].response # <<>> => GenuineIn(sendings', outcomes'[t].response)
                        /\ outcomes'[t].how = "response" =>
                             /\ outcomes'[t].response.kind = "positive"
                             /\ outcomes'[t].response.sid = Script[t].sid
                             /\ Script[t].sid \in EchoServices => outcomes'[t].response.sub = Script[t].sub
    BY DEF OutcomesInv, Genuine
  <2>4. CASE t \in DOMAIN outcomes
    BY <1>2, <2>1, <2>4 DEF OutcomesInv, Genuine
  <2>5. CASE t = turn
    BY <1>2, <2>2, <2>5
  <2> QED BY <2>1, <2>4, <2>5
<1>3. CASE Call
  BY <1>1, <1>3 DEF Call
<1>4. CASE Sent
  BY <1>1, <1>4, Sending DEF Sent, CallsInv
<1>5. CASE SendFails \/ RecvFails
  <2>1. pc # "idle" /\ Ends("transport", <<>>) /\ "transport" \in Hows
    BY <1>5 DEF SendFails, RecvFails, Hows
  <2>2. sendings' = sendings \/ sendings' = Append(sendings, turn)
    BY <1>5 DEF SendFails, RecvFails
  <2>3. turn' = turn /\ turn \in Turns
    BY <2>1, Ending
  <2>4. \A r : GenuineIn(sendings, r) => GenuineIn(sendings', r)
    BY <2>2, <2>3, Sending
  <2> QED BY <1>2, <2>1, <2>4
<1>6. CASE Mismatch \/ Pending \/ BusyAgain \/ Refused \/ Answered
  <2>1. pc = "recv" /\ Genuine(line[1]) /\ line[1] \in Responses /\ sendings' = sendings
    BY <1>6, Taking, Receiving
  <2>2. CASE outcomes' = outcomes
    BY <1>1, <2>1, <2>2
  <2>3. ASSUME NEW how \in Hows, Judged(how) PROVE OutcomesInv'
    <3>1. Ends(how, line[1])
      BY <2>3 DEF Judged
    <3>2. how = "response" => line[1].kind = "positive" /\ Valid(line[1])
      BY <2>3 DEF Judged
    <3>3. how = "response" => line[1] # <<>>
      <4>1. ASSUME how = "response", line[1] = <<>> PROVE FALSE
        <5>1. <<>> \in Positives
          BY <2>1, <3>2, <4>1 DEF Responses, Positives, Negatives
        <5> QED BY <5>1 DEF Positives
      <4> QED BY <4>1
    <3> QED BY <1>2, <2>1, <3>1, <3>2, <3>3 DEF Valid, Request, Genuine
  <2> QED BY <1>6, <2>2, <2>3, Taking
<1>7. CASE Ecu
  <2>1. outcomes' = outcomes /\ sendings' = sendings
    BY <1>7 DEF Ecu, AskForTime, Serve, ServeOddly, Decline, Answer, client
  <2> QED BY <1>1, <2>1
<1> QED BY <1>3, <1>4, <1>5, <1>6, <1>7 DEF Next, Client

\* A request is sent once in its call, unless the controller was busy with a read.
LEMMA OnceStep ==
    ASSUME CallsInv, LinkInv, OnceInv, Next
    PROVE  OnceInv'
<1>0. /\ turn \in Nat /\ \A n \in DOMAIN sendings : sendings[n] \in Nat
      /\ pc # "idle" => turn \in Turns
  BY ScriptFacts DEF CallsInv, LinkInv, Turns
<1>1. ASSUME sendings' = sendings, turn' = turn,
             pc' = "send" => pc = "send" \/ Request.sid \in BusyServices
      PROVE  OnceInv'
  BY <1>1 DEF OnceInv, SendingsOf, Request
<1>2. ASSUME sendings' = Append(sendings, turn), turn' = turn, pc = "send", pc' # "send" PROVE OnceInv'
  <2>1. turn \in Turns
    BY <1>0, <1>2
  <2>2. \A n \in DOMAIN sendings' : sendings'[n] <= turn
    BY <1>0, <1>2, <2>1, Sending DEF OnceInv
  <2>3. ASSUME NEW t \in Turns, Script[t].sid \notin BusyServices PROVE \A m, n \in SendingsOf(t)' : m = n
    <3>1. CASE t = turn
      <4>1. SendingsOf(turn) = {}
        BY <1>2, <2>3, <3>1 DEF OnceInv, Request
      <4>2. SendingsOf(turn)' = {Len(sendings) + 1}
        BY <1>2, <2>1, <4>1, Sending
      <4> QED BY <1>2, <3>1, <4>2 DEF SendingsOf
    <3>2. CASE t # turn
      BY <1>2, <2>1, <2>3, <3>2, Sending DEF OnceInv
    <3> QED BY <3>1, <3>2
  <2> QED BY <1>2, <2>2, <2>3 DEF OnceInv
<1>3. CASE Call
  <2>1. turn' = turn + 1 /\ sendings' = sendings /\ turn + 1 > turn
    BY <1>0, <1>3 DEF Call
  <2>2. \A n \in DOMAIN sendings : sendings[n] <= turn + 1 /\ sendings[n] # turn + 1
    BY <1>0 DEF OnceInv
  <2>3. SendingsOf(turn)' = {}
    BY <2>1, <2>2 DEF SendingsOf
  <2> QED BY <2>1, <2>2, <2>3 DEF OnceInv, SendingsOf
<1>4. CASE Sent
  BY <1>2, <1>4 DEF Sent
<1>5. CASE SendFails
  BY <1>1, <1>2, <1>5 DEF SendFails, Ends
<1>6. CASE RecvFails
  BY <1>1, <1>6 DEF RecvFails, Ends
<1>7. CASE Mismatch \/ Pending \/ BusyAgain \/ Refused \/ Answered
  <2>1. sendings' = sendings /\ pc = "recv"
    BY <1>7, Taking, Receiving
  <2>2. turn' = turn /\ (pc' = "send" => Request.sid \in BusyServices)
    BY <1>7, <2>1, Taking DEF Judged, Ends
  <2> QED BY <1>1, <2>1, <2>2
<1>8. CASE Ecu
  <2>1. UNCHANGED <<sendings, turn, pc>>
    BY <1>8 DEF Ecu, AskForTime, Serve, ServeOddly, Decline, Answer, client
  <2> QED BY <1>1, <2>1
<1> QED BY <1>3, <1>4, <1>5, <1>6, <1>7, <1>8 DEF Next, Client

--------------------------------------------------------------------------------
(***************************************************************************)
(* What is under way where no call left an answer behind.                  *)
(***************************************************************************)

\* An answer that was left behind stays left behind.
LEMMA AstrayStays ==
    ASSUME Next, ~astray'
    PROVE  ~astray
<1>1. CASE Mismatch \/ Pending \/ BusyAgain \/ Refused \/ Answered
  BY <1>1 DEF Mismatch, Pending, BusyAgain, Refused, Answered
<1>2. CASE Call \/ Sent \/ SendFails \/ RecvFails
  BY <1>2 DEF Call, Sent, SendFails, RecvFails
<1>3. CASE Ecu
  BY <1>3 DEF Ecu, AskForTime, Serve, ServeOddly, Decline, Answer, client
<1> QED BY <1>1, <1>2, <1>3 DEF Next, Client

\* The response that is received answers the last request, and is the final one unless it
\* is pending: then the final one is still behind it, or still with the controller.
LEMMA InTurn ==
    ASSUME LinkInv, UnderWay, NEW kind, Receives(kind)
    PROVE  /\ line[1].to = Last /\ line[1].sid = Request.sid
           /\ Last \in Nat \ {0} /\ sendings[Last] = turn /\ \A n \in DOMAIN sendings : n <= Last
           /\ ~IsPending(line[1]) => line' = <<>> /\ asked = <<>> /\ line[Len(line)] = line[1]
           /\ IsPending(line[1]) =>
                /\ \A i \in DOMAIN line' : line'[i].to = Last
                /\ \/ asked = <<Last>> /\ \A i \in DOMAIN line' : IsPending(line'[i])
                   \/ /\ asked = <<>> /\ line' # <<>> /\ line'[Len(line')] = line[Len(line)]
                      /\ ~IsPending(line'[Len(line')])
                      /\ \A i \in DOMAIN line' : i < Len(line') => IsPending(line'[i])
<1>1. /\ line # <<>> /\ line[1] \in Responses /\ Genuine(line[1]) /\ 1 \in DOMAIN line
      /\ line' \in Seq(Responses) /\ Len(line') = Len(line) - 1 /\ Len(line) \in Nat \ {0}
      /\ \A i \in DOMAIN line' : i + 1 \in DOMAIN line /\ line'[i] = line[i + 1]
      /\ DOMAIN line' = 1..(Len(line) - 1) /\ pc = "recv"
  BY Receiving
<1>2. /\ Last > 0 /\ sendings[Last] = turn /\ \A i \in DOMAIN line : line[i].to = Last
      /\ \/ asked = <<Last>> /\ \A i \in DOMAIN line : IsPending(line[i])
         \/ /\ asked = <<>> /\ ~IsPending(line[Len(line)])
            /\ \A i \in DOMAIN line : i < Len(line) => IsPending(line[i])
  BY <1>1 DEF UnderWay
<1>3. Last \in Nat \ {0} /\ \A n \in DOMAIN sendings : n <= Last
  BY <1>2, Queues DEF Last
<1>4. line[1].to = Last /\ line[1].sid = Request.sid
  BY <1>1, <1>2 DEF Genuine, GenuineIn, Request
<1>5. ASSUME ~IsPending(line[1]) PROVE line' = <<>> /\ asked = <<>> /\ line[Len(line)] = line[1]
  <2>1. asked = <<>> /\ ~(1 < Len(line))
    BY <1>1, <1>2, <1>5
  <2>2. Len(line) = 1
    BY <1>1, <2>1
  <2>3. line' = <<>>
    BY <1>1, <2>2
  <2> QED BY <2>1, <2>2, <2>3
<1>6. ASSUME IsPending(line[1])
      PROVE  /\ \A i \in DOMAIN line' : line'[i].to = Last
             /\ \/ asked = <<Last>> /\ \A i \in DOMAIN line' : IsPending(line'[i])
                \/ /\ asked = <<>> /\ line' # <<>> /\ line'[Len(line')] = line[Len(line)]
                   /\ ~IsPending(line'[Len(line')])
                   /\ \A i \in DOMAIN line' : i < Len(line') => IsPending(line'[i])
  <2>1. \A i \in DOMAIN line' : line'[i].to = Last
    BY <1>1, <1>2
  <2>2. CASE asked = <<Last>> /\ \A i \in DOMAIN line : IsPending(line[i])
    BY <1>1, <2>1, <2>2
  <2>3. CASE /\ asked = <<>> /\ ~IsPending(line[Len(line)])
             /\ \A i \in DOMAIN line : i < Len(line) => IsPending(line[i])
    <3>1. Len(line) # 1
      BY <1>6, <2>3
    <3>2. Len(line') \in DOMAIN line' /\ Len(line') + 1 = Len(line) /\ line' # <<>>
      BY <1>1, <3>1
    <3>3. line'[Len(line')] = line[Len(line)]
      BY <1>1, <3>2
    <3>4. \A i \in DOMAIN line' : i < Len(line') => i + 1 < Len(line)
      BY <1>1
    <3>5. \A i \in DOMAIN line' : i < Len(line') => IsPending(line'[i])
      BY <1>1, <2>3, <3>4
    <3> QED BY <2>1, <2>3, <3>2, <3>3, <3>5
  <2> QED BY <1>2, <2>2, <2>3
<1> QED BY <1>2, <1>3, <1>4, <1>5, <1>6

\* While the controller has a request, it is the last, and nothing final is on the line.
LEMMA InService ==
    ASSUME UnderWay, asked # <<>>
    PROVE  /\ pc = "recv" /\ asked = <<Last>> /\ asked[1] = Last /\ Tail(asked) = <<>>
           /\ Last > 0 /\ sendings[Last] = turn
           /\ \A i \in DOMAIN line : line[i].to = Last /\ IsPending(line[i])
<1>1. /\ pc = "recv" /\ asked = <<Last>>
      /\ Last > 0 /\ sendings[Last] = turn
      /\ \A i \in DOMAIN line : line[i].to = Last /\ IsPending(line[i])
  BY DEF UnderWay
<1>2. asked[1] = Last /\ Tail(asked) = <<>>
  BY <1>1
<1> QED BY <1>1, <1>2

\* One request stays under way at most.
LEMMA UnderWayStep ==
    ASSUME CallsInv, LinkInv, UnderWay, Next, ~astray'
    PROVE  UnderWay'
<1>1. CASE Call
  BY <1>1 DEF Call, UnderWay
<1>2. CASE Sent
  <2>1. line' = <<>> /\ asked = <<>> /\ pc' = "recv" /\ turn' = turn /\ turn \in Turns
        /\ sendings' = Append(sendings, turn) /\ asked' = Append(asked, Len(sendings) + 1)
    BY <1>2 DEF Sent, UnderWay, CallsInv
  <2>2. Last' = Len(sendings) + 1 /\ sendings'[Last'] = turn /\ Last' > 0
    BY <2>1, Sending, Queues DEF Last
  <2>3. asked' = <<Last'>>
    BY <2>1, <2>2
  <2> HIDE DEF Last
  <2>4. \A i \in DOMAIN line' : FALSE
    BY <2>1
  <2> QED BY <2>1, <2>2, <2>3, <2>4 DEF UnderWay
<1>3. CASE SendFails \/ RecvFails
  <2>1. pc = "send" /\ pc' = "idle" /\ UNCHANGED <<asked, line>>
    BY <1>3 DEF SendFails, RecvFails, Ends
  <2> QED BY <2>1 DEF UnderWay
<1>4. CASE Mismatch \/ Pending \/ BusyAgain \/ Refused \/ Answered
  <2>1. PICK kind : Receives(kind)
    BY <1>4, Taking
  <2>2. pc = "recv" /\ UNCHANGED <<sendings, asked>> /\ Last' = Last
    BY <2>1, Receiving DEF Last
  <2>3. CASE IsPending(line[1]) /\ UNCHANGED <<pc, turn>>
    <3>1. /\ pc' = "recv" /\ Last' > 0 /\ sendings'[Last'] = turn'
          /\ \A i \in DOMAIN line' : line'[i].to = Last'
          /\ \/ asked' = <<Last'>> /\ \A i \in DOMAIN line' : IsPending(line'[i])
             \/ /\ asked' = <<>> /\ line' # <<>> /\ ~IsPending(line'[Len(line')])
                /\ \A i \in DOMAIN line' : i < Len(line') => IsPending(line'[i])
      BY <2>1, <2>2, <2>3, InTurn
    <3> QED BY <3>1 DEF UnderWay, IsPending
  <2>4. CASE ~IsPending(line[1]) /\ pc' # "recv"
    BY <2>1, <2>2, <2>4, InTurn DEF UnderWay
  <2>5. ASSUME NEW how \in Hows, Judged(how) PROVE ~IsPending(line[1]) /\ pc' # "recv"
    BY <2>1, <2>5, InTurn DEF Judged, Ends
  <2> QED BY <1>4, <2>3, <2>4, <2>5, Taking
<1>5. CASE Ecu
  <2>1. PICK response \in Responses : Responds(response)
    BY <1>5, Responding
  <2>2. /\ pc = "recv" /\ asked = <<Last>> /\ asked[1] = Last /\ Tail(asked) = <<>>
        /\ Last > 0 /\ sendings[Last] = turn
        /\ \A i \in DOMAIN line : line[i].to = Last /\ IsPending(line[i])
    BY <2>1, InService DEF Responds
  <2>3. pc' = pc /\ turn' = turn /\ sendings' = sendings /\ Last' = Last
    BY <2>1 DEF Responds, client, Last
  <2>4. /\ Len(line') = Len(line) + 1 /\ DOMAIN line' = 1..(Len(line) + 1) /\ DOMAIN line = 1..Len(line)
        /\ Len(line) \in Nat /\ line'[Len(line) + 1] = response
        /\ \A i \in DOMAIN line' : (i \in DOMAIN line /\ line'[i] = line[i]) \/ i = Len(line) + 1
    BY <2>1, AppendFacts, Queues DEF Responds, LinkInv
  <2>5. response.to = Last
    BY <2>1, <2>2 DEF Responds
  <2>6. \A i \in DOMAIN line' : line'[i].to = Last
    BY <2>2, <2>4, <2>5
  <2>7. CASE IsPending(response) /\ asked' = asked
    <3>1. \A i \in DOMAIN line' : IsPending(line'[i])
      BY <2>2, <2>4, <2>7
    <3>2. asked' = <<Last'>> /\ Last' > 0 /\ sendings'[Last'] = turn' /\ pc' = "recv"
          /\ \A i \in DOMAIN line' : line'[i].to = Last'
      BY <2>2, <2>3, <2>6, <2>7
    <3> QED BY <3>1, <3>2 DEF UnderWay, IsPending
  <2>8. CASE ~IsPending(response) /\ asked' = Tail(asked)
    <3>1. \A i \in DOMAIN line' : i < Len(line') => i # Len(line) + 1
      BY <2>4
    <3>2. \A i \in DOMAIN line' : i < Len(line') => IsPending(line'[i])
      BY <2>2, <2>4, <3>1
    <3>3. ~IsPending(line'[Len(line')]) /\ line' # <<>>
      BY <2>4, <2>8
    <3>4. asked' = <<>> /\ Last' > 0 /\ sendings'[Last'] = turn' /\ pc' = "recv"
          /\ \A i \in DOMAIN line' : line'[i].to = Last'
      BY <2>2, <2>3, <2>6, <2>8
    <3> QED BY <3>2, <3>3, <3>4 DEF UnderWay, IsPending
  <2> QED BY <2>1, <2>7, <2>8 DEF Responds
<1> QED BY <1>1, <1>2, <1>3, <1>4, <1>5 DEF Next, Client

\* Of the call at hand the controller has carried out the last request at most, and then
\* the response to it is positive.
LEMMA UndoneStep ==
    ASSUME CallsInv, LinkInv, OnceInv, UnderWay, Undone, Next, ~astray'
    PROVE  Undone'
<1>0. /\ ecu.done \subseteq DOMAIN sendings /\ turn \in Nat
      /\ \A n \in DOMAIN sendings : sendings[n] \in Nat /\ sendings[n] <= turn
  BY ScriptFacts DEF CallsInv, LinkInv, OnceInv, Turns
<1>1. ASSUME pc' = "idle" \/ (SendingsOf(turn) \intersect ecu.done)' = {} PROVE Undone'
  <2>1. CASE pc' = "idle"
    BY <2>1 DEF Undone
  <2>2. CASE (SendingsOf(turn) \intersect ecu.done)' = {}
    BY <2>2 DEF Undone
  <2> QED BY <1>1, <2>1, <2>2
<1>2. CASE Call
  <2>1. turn' = turn + 1 /\ sendings' = sendings
    BY <1>2 DEF Call
  <2>2. \A n \in DOMAIN sendings : sendings[n] # turn + 1
    BY <1>0
  <2> QED BY <1>1, <2>1, <2>2 DEF SendingsOf
<1>3. CASE Sent
  <2>1. pc = "send" /\ turn' = turn /\ turn \in Turns /\ sendings' = Append(sendings, turn) /\ ecu' = ecu
    BY <1>3 DEF Sent, CallsInv
  <2>2. SendingsOf(turn) \intersect ecu.done = {}
    BY <2>1 DEF Undone
  <2>3. SendingsOf(turn)' = SendingsOf(turn) \union {Len(sendings) + 1} /\ Len(sendings) + 1 \notin ecu.done
    BY <1>0, <2>1, Sending
  <2> QED BY <1>1, <2>1, <2>2, <2>3
<1>4. CASE SendFails \/ RecvFails
  BY <1>1, <1>4 DEF SendFails, RecvFails, Ends
<1>5. CASE Mismatch \/ Pending \/ BusyAgain \/ Refused \/ Answered
  <2>1. PICK kind : Receives(kind)
    BY <1>5, Taking
  <2>2. pc = "recv" /\ UNCHANGED <<sendings, asked, ecu>> /\ Last' = Last
    BY <2>1, Receiving DEF Last
  <2>3. CASE IsPending(line[1]) /\ UNCHANGED <<pc, turn>>
    <3>1. SUFFICES ASSUME NEW n \in SendingsOf(turn) \intersect ecu.done
                   PROVE  n = Last /\ asked = <<>> /\ line'[Len(line')].kind = "positive"
      BY <2>2, <2>3 DEF Undone, SendingsOf
    <3>2. n = Last /\ asked = <<>> /\ line[Len(line)].kind = "positive"
      BY <2>2 DEF Undone
    <3>3. line'[Len(line')] = line[Len(line)]
      BY <2>1, <2>3, <3>2, InTurn
    <3> QED BY <3>2, <3>3
  <2>4. CASE ~IsPending(line[1]) /\ line[1].kind = "negative" /\ UNCHANGED turn
    <3>1. SendingsOf(turn) \intersect ecu.done = {}
      BY <2>1, <2>2, <2>4, InTurn DEF Undone
    <3> QED BY <1>1, <2>2, <2>4, <3>1 DEF SendingsOf
  <2>5. ASSUME NEW how \in Hows, Judged(how) PROVE pc' = "idle"
    BY <2>5 DEF Judged, Ends
  <2> QED BY <1>1, <1>5, <2>3, <2>4, <2>5, Taking
<1>6. CASE Ecu
  <2>1. PICK response \in Responses : Responds(response)
    BY <1>6, Responding
  <2>2. /\ pc = "recv" /\ asked = <<Last>> /\ asked[1] = Last /\ Tail(asked) = <<>>
        /\ Last > 0 /\ sendings[Last] = turn
    BY <2>1, InService DEF Responds
  <2>3. pc' = pc /\ turn' = turn /\ sendings' = sendings /\ Last' = Last
    BY <2>1 DEF Responds, client, Last
  <2>4. line'[Len(line')] = response
    BY <2>1, AppendFacts DEF Responds, LinkInv
  <2>5. SendingsOf(turn) \intersect ecu.done = {}
    BY <2>2 DEF Undone
  <2>6. CASE ecu'.done = ecu.done
    BY <1>1, <2>3, <2>5, <2>6 DEF SendingsOf
  <2>7. CASE asked' = Tail(asked) /\ ecu'.done = ecu.done \union {asked[1]} /\ response.kind = "positive"
    <3>1. SUFFICES ASSUME NEW n \in SendingsOf(turn) \intersect ecu'.done
                   PROVE  n = Last /\ asked' = <<>> /\ line'[Len(line')].kind = "positive"
      BY <2>2, <2>3 DEF Undone, SendingsOf
    <3> QED BY <2>2, <2>4, <2>5, <2>7
  <2> QED BY <2>1, <2>6, <2>7 DEF Responds
<1> QED BY <1>2, <1>3, <1>4, <1>5, <1>6 DEF Next, Client

\* A call that has ended stays settled, and the one that ends is settled.
LEMMA SettledStep ==
    ASSUME CallsInv, LinkInv, OutcomesInv, UnderWay, Undone, Settled, Next, ~astray'
    PROVE  Settled'
<1>0. /\ ecu.done \subseteq DOMAIN sendings
      /\ \A t \in DOMAIN outcomes : outcomes[t].response # <<>> => outcomes[t].response.to \in DOMAIN sendings
  BY DEF LinkInv, OutcomesInv, Genuine, GenuineIn
<1>1. pc # "idle" => turn \in Turns /\ \A t \in DOMAIN outcomes : t # turn
  <2>1. pc # "idle" => turn \in Nat /\ Len(outcomes) = turn - 1 /\ turn \in Turns
    BY ScriptFacts DEF CallsInv, Turns
  <2>2. DOMAIN outcomes = 1..Len(outcomes)
    BY LenProperties DEF CallsInv
  <2> QED BY <2>1, <2>2
<1>2. ASSUME outcomes' = outcomes,
             \A n \in DOMAIN sendings : sendings'[n] = sendings[n],
             \A t \in DOMAIN outcomes : SendingsOf(t)' = SendingsOf(t),
             \A n \in ecu'.done : n \in ecu.done \/ \A t \in DOMAIN outcomes : n \notin SendingsOf(t)
      PROVE  Settled'
  <2>1. SUFFICES ASSUME NEW t \in DOMAIN outcomes
                 PROVE  /\ outcomes[t].response # <<>> =>
                             /\ sendings'[outcomes[t].response.to] = t
                             /\ \A n \in SendingsOf(t)' : n <= outcomes[t].response.to
                        /\ outcomes[t].how = "negative" => SendingsOf(t)' \intersect ecu'.done = {}
    BY <1>2 DEF Settled, SendingsOf
  <2> QED BY <1>0, <1>2 DEF Settled
<1>3. ASSUME NEW how \in Hows, NEW response \in Responses \union {<<>>}, pc # "idle", Ends(how, response),
             UNCHANGED <<sendings, ecu>>,
             response # <<>> => sendings[response.to] = turn /\ \A n \in SendingsOf(turn) : n <= response.to,
             how = "negative" => SendingsOf(turn) \intersect ecu.done = {}
      PROVE  Settled'
  <2>1. /\ \A t \in DOMAIN outcomes : outcomes'[t] = outcomes[t]
        /\ outcomes'[turn] = [how |-> how, response |-> response]
        /\ \A t \in DOMAIN outcomes' : t \in DOMAIN outcomes \/ t = turn
    BY <1>3, Ending
  <2>2. outcomes'[turn].how = how /\ outcomes'[turn].response = response
    BY <2>1
  <2>3. SUFFICES ASSUME NEW t \in DOMAIN outcomes'
                 PROVE  /\ outcomes'[t].response # <<>> =>
                             /\ sendings[outcomes'[t].response.to] = t
                             /\ \A n \in SendingsOf(t) : n <= outcomes'[t].response.to
                        /\ outcomes'[t].how = "negative" => SendingsOf(t) \intersect ecu.done = {}
    BY <1>3 DEF Settled, SendingsOf
  <2>4. CASE t \in DOMAIN outcomes
    BY <2>1, <2>4 DEF Settled
  <2>5. CASE t = turn
    BY <1>3, <2>2, <2>5
  <2> QED BY <2>1, <2>4, <2>5
<1>4. CASE Call
  BY <1>2, <1>4 DEF Call, SendingsOf
<1>5. CASE Sent
  <2>1. outcomes' = outcomes /\ ecu' = ecu /\ sendings' = Append(sendings, turn) /\ turn' = turn
        /\ turn \in Turns /\ \A t \in DOMAIN outcomes : t # turn
    BY <1>1, <1>5 DEF Sent
  <2>2. /\ \A n \in DOMAIN sendings : sendings'[n] = sendings[n]
        /\ \A t \in DOMAIN outcomes : SendingsOf(t)' = SendingsOf(t)
    BY <2>1, Sending
  <2> QED BY <1>2, <2>1, <2>2
<1>6. CASE SendFails \/ RecvFails
  <2>1. pc # "idle" /\ Ends("transport", <<>>) /\ UNCHANGED <<sendings, ecu>>
    BY <1>6 DEF SendFails, RecvFails
  <2> QED BY <1>3, <2>1 DEF Hows
<1>7. CASE Mismatch \/ Pending \/ BusyAgain \/ Refused \/ Answered
  <2>1. PICK kind : Receives(kind)
    BY <1>7, Taking
  <2>2. pc = "recv" /\ UNCHANGED <<sendings, ecu>> /\ line[1] \in Responses
    BY <2>1, Receiving
  <2>3. CASE outcomes' = outcomes
    BY <1>2, <2>2, <2>3 DEF SendingsOf
  <2>4. ASSUME NEW how \in Hows, Judged(how) PROVE Settled'
    <3>1. Ends(how, line[1])
      BY <2>4 DEF Judged
    <3>2. sendings[line[1].to] = turn /\ \A n \in SendingsOf(turn) : n <= line[1].to
      BY <2>1, InTurn DEF SendingsOf
    <3>3. ASSUME how = "negative" PROVE SendingsOf(turn) \intersect ecu.done = {}
      <4>1. ~IsPending(line[1]) /\ line[1].kind = "negative"
        BY <2>4, <3>3 DEF Judged
      <4> QED BY <2>1, <2>2, <4>1, InTurn DEF Undone
    <3> QED BY <1>3, <2>2, <3>1, <3>2, <3>3
  <2> QED BY <1>7, <2>3, <2>4, Taking
<1>8. CASE Ecu
  <2>1. PICK response \in Responses : Responds(response)
    BY <1>8, Responding
  <2>2. pc = "recv" /\ asked[1] = Last /\ sendings[Last] = turn
    BY <2>1, InService DEF Responds
  <2>3. outcomes' = outcomes /\ sendings' = sendings
    BY <2>1 DEF Responds, client
  <2>4. \A n \in ecu'.done : n \in ecu.done \/ \A t \in DOMAIN outcomes : n \notin SendingsOf(t)
    <3>1. \A n \in ecu'.done : n \in ecu.done \/ n = Last
      BY <2>1, <2>2 DEF Responds
    <3>2. \A t \in DOMAIN outcomes : Last \notin SendingsOf(t)
      BY <1>1, <2>2 DEF SendingsOf
    <3> QED BY <3>1, <3>2
  <2> QED BY <1>2, <2>3, <2>4 DEF SendingsOf
<1> QED BY <1>4, <1>5, <1>6, <1>7, <1>8 DEF Next, Client

--------------------------------------------------------------------------------
(***************************************************************************)
(* The theorems.                                                           *)
(***************************************************************************)

\* Before the first call nothing is under way.
LEMMA InitIInv ==
    ASSUME Init
    PROVE  IInv
<1>1. CallsInv
  <2>1. turn \in 0..Len(Script) /\ pending \in 0..PendingLimit /\ busy \in 0..BusyRetries
    BY ScriptFacts DEF Init
  <2>2. outcomes \in Seq([how : Hows, response : Responses \union {<<>>}]) /\ Len(outcomes) = turn
    BY DEF Init
  <2> QED BY <2>1, <2>2 DEF Init, CallsInv
<1>2. LinkInv
  BY DEF Init, LinkInv
<1>3. OutcomesInv /\ OnceInv /\ StepInv
  BY DEF Init, OutcomesInv, OnceInv, SendingsOf, StepInv, UnderWay, Undone, Settled
<1> QED BY <1>1, <1>2, <1>3 DEF IInv

\* Every step preserves the invariant.
LEMMA NextIInv ==
    ASSUME IInv, [Next]_vars
    PROVE  IInv'
<1>1. CASE Next
  <2>1. CallsInv /\ LinkInv /\ OutcomesInv /\ OnceInv /\ StepInv
    BY DEF IInv
  <2>2. CallsInv' /\ LinkInv' /\ OutcomesInv' /\ OnceInv'
    BY <1>1, <2>1, CallsStep, LinkStep, OutcomesStep, OnceStep
  <2>3. ASSUME ~astray' PROVE UnderWay' /\ Undone' /\ Settled'
    <3>1. UnderWay /\ Undone /\ Settled
      BY <1>1, <2>1, <2>3, AstrayStays DEF StepInv
    <3> QED BY <1>1, <2>1, <2>3, <3>1, UnderWayStep, UndoneStep, SettledStep
  <2>4. StepInv'
    BY <2>3 DEF StepInv
  <2> QED BY <2>2, <2>4 DEF IInv
<1>2. CASE UNCHANGED vars
  <2>1. UNCHANGED <<pc, turn, pending, busy, outcomes, astray, sendings, asked, line, ecu>>
    BY <1>2 DEF vars, client
  <2>2. CallsInv' /\ LinkInv' /\ OutcomesInv'
    BY <2>1 DEF IInv, CallsInv, LinkInv, OutcomesInv, Genuine
  <2>3. OnceInv' /\ StepInv'
    BY <2>1 DEF IInv, OnceInv, SendingsOf, Request, StepInv, UnderWay, Undone, Settled, Last, IsPending
  <2> QED BY <2>2, <2>3 DEF IInv
<1> QED BY <1>1, <1>2

\* IInv holds in every state the client, the link and the controller reach, for every
\* script and every limit.
THEOREM Inductive == Spec => []IInv
<1>1. Init => IInv
  BY InitIInv
<1>2. IInv /\ [Next]_vars => IInv'
  BY NextIInv
<1> QED BY <1>1, <1>2, PTL DEF Spec

\* pending_count and busy_count stay within pending_limit and busy_retries, and what is on
\* the link answers or is a request that was sent.
THEOREM TypesHold == Spec => []TypeOK
<1>1. IInv => TypeOK
  <2>1. SUFFICES ASSUME IInv PROVE TypeOK
    OBVIOUS
  <2>2. /\ pc \in {"idle", "send", "recv"} /\ turn \in 0..Len(Script)
        /\ pending \in 0..PendingLimit /\ busy \in 0..BusyRetries /\ astray \in BOOLEAN
        /\ sendings \in Seq(1..Len(Script)) /\ ecu.done \subseteq DOMAIN sendings
    BY <2>1 DEF IInv, CallsInv, LinkInv, Turns
  <2>3. asked \in Seq(DOMAIN sendings)
    <3>1. asked \in Seq(Nat) /\ \A i \in 1..Len(asked) : asked[i] \in DOMAIN sendings
      BY <2>1, Queues DEF IInv, LinkInv
    <3> QED BY <3>1, SeqRetype
  <2>4. \A i \in DOMAIN line : line[i].to \in DOMAIN sendings
    BY <2>1 DEF IInv, LinkInv, Genuine, GenuineIn
  <2> QED BY <2>2, <2>3, <2>4 DEF TypeOK
<1> QED BY <1>1, Inductive, PTL

\* A caller of KWPClient.request is given a response of the service it asked for, and of the
\* subfunction where answers repeat it, whatever was left on the line before.
THEOREM OwnKindHolds == Spec => []OwnKind
<1>1. IInv => OwnKind
  BY DEF IInv, OutcomesInv, Genuine, GenuineIn, OwnKind
<1> QED BY <1>1, Inductive, PTL

\* A request that is no busy-retried read reaches the controller once at most in its call,
\* and one that it refused has not been carried out.
THEOREM DoneOnceHolds == Spec => []DoneOnce
<1>1. IInv => DoneOnce
  <2>1. SUFFICES ASSUME IInv, NEW t \in 1..turn
                 PROVE  /\ Script[t].sid \notin BusyServices => \A m, n \in SendingsOf(t) : m = n
                        /\ ~astray /\ t \in DOMAIN outcomes /\ outcomes[t].how = "negative" =>
                             SendingsOf(t) \intersect ecu.done = {}
    BY DEF DoneOnce
  <2>2. t \in Turns
    BY <2>1, ScriptFacts DEF IInv, CallsInv, Turns
  <2> QED BY <2>1, <2>2 DEF IInv, OnceInv, StepInv, Settled
<1> QED BY <1>1, Inductive, PTL

\* Where no call left an answer behind, each ends on the response to its own last request,
\* and the line is empty between calls.
THEOREM InStepHolds == Spec => []InStep
<1>1. IInv => InStep
  BY DEF IInv, StepInv, Settled, UnderWay, InStep
<1> QED BY <1>1, Inductive, PTL
================================================================================
