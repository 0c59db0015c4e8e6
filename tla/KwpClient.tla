------------------------------ MODULE KwpClient ------------------------------
(***************************************************************************)
(* KWPClient.request of src/vag_protocols/kwp.py over a transport that     *)
(* keeps order and may raise, and the controller that serves the requests  *)
(* (external).  The client issues the requests of Script one by one; a call *)
(* that raises does not keep it from the next.  The answer to a call that  *)
(* gave up is not lost: a later call meets it.                             *)
(***************************************************************************)
EXTENDS Integers, Sequences

CONSTANTS
    Script,         \* the requests, records of a service and a subfunction
    EchoServices,   \* echo_services: the answer repeats the subfunction
    BusyServices,   \* busy_retry_services
    FormServices,   \* services whose answer has one form, or one length
    BusyRetries,    \* busy_retries
    PendingLimit,   \* pending_limit
    MaxUpsets,      \* bound on what goes wrong, or -1 for none
    MaxPending      \* bound on the pending responses to one request, or -1 for none

ASSUME KwpAssumption ==
    /\ Script \in Seq({Script[i] : i \in DOMAIN Script}) /\ Script # <<>>
    /\ BusyRetries \in Nat /\ PendingLimit \in Nat
    /\ MaxUpsets \in Nat \union {-1} /\ MaxPending \in Nat \union {-1}

VARIABLES
    pc,        \* idle, send or recv
    turn,      \* the request at hand
    pending,   \* pending_count
    busy,      \* busy_count
    outcomes,  \* how each call ended, and with what
    astray,    \* a call has left an answer behind
    sendings,  \* the turn of every request that was sent
    asked,     \* requests on their way or in work: positions of sendings
    line,      \* responses on their way
    ecu,       \* responses pending for the request in work, and the sendings done
    upsets

client == <<pc, turn, pending, busy, outcomes, astray>>
vars == <<client, sendings, asked, line, ecu, upsets>>

Request == Script[turn]

\* A negative response carries a code, or is "malformed"; a positive one has the form
\* the profile asks for, or not.  to is the sending a response answers; the bytes do not show it.
Negative(n, code) ==
    [kind |-> "negative", sid |-> Script[sendings[n]].sid, code |-> code, to |-> n]
Positive(n, form) ==
    [kind |-> "positive", sid |-> Script[sendings[n]].sid,
     sub |-> Script[sendings[n]].sub, form |-> form, to |-> n]

Init ==
    /\ pc = "idle" /\ turn = 0 /\ pending = 0 /\ busy = 0
    /\ outcomes = <<>> /\ astray = FALSE
    /\ sendings = <<>> /\ asked = <<>> /\ line = <<>>
    /\ ecu = [pending |-> 0, done |-> {}] /\ upsets = 0

Calm == upsets' = upsets
Upset ==
    /\ MaxUpsets = -1 \/ upsets < MaxUpsets
    /\ upsets' = IF MaxUpsets = -1 THEN upsets ELSE upsets + 1

--------------------------------------------------------------------------------

Call ==
    /\ pc = "idle" /\ turn < Len(Script)
    /\ turn' = turn + 1 /\ pending' = 0 /\ busy' = 0 /\ pc' = "send"
    /\ Calm /\ UNCHANGED <<outcomes, astray, sendings, asked, line, ecu>>

\* The call ends: how is a response, or the error it raises.
Ends(how, response) ==
    /\ pc' = "idle"
    /\ outcomes' = Append(outcomes, [how |-> how, response |-> response])
    /\ UNCHANGED <<turn, pending, busy>>

Sent ==
    /\ pc = "send" /\ pc' = "recv"
    /\ sendings' = Append(sendings, turn)
    /\ asked' = Append(asked, Len(sendings) + 1)
    /\ Calm /\ UNCHANGED <<turn, pending, busy, outcomes, astray, line, ecu>>

\* The transport raises; the request has reached the controller, or has not.
SendFails == \E arrived \in BOOLEAN :
    /\ pc = "send" /\ Upset
    /\ Ends("transport", <<>>)
    /\ astray' = (astray \/ arrived)
    /\ sendings' = IF arrived THEN Append(sendings, turn) ELSE sendings
    /\ asked' = IF arrived THEN Append(asked, Len(sendings) + 1) ELSE asked
    /\ UNCHANGED <<line, ecu>>

RecvFails ==
    /\ pc = "recv" /\ line = <<>> /\ Upset
    /\ Ends("transport", <<>>) /\ astray' = TRUE
    /\ UNCHANGED <<sendings, asked, line, ecu>>

\* recv returns the oldest response.
Receives(kind) ==
    /\ pc = "recv" /\ line # <<>> /\ Head(line).kind = kind
    /\ line' = Tail(line)
    /\ Calm /\ UNCHANGED <<sendings, asked, ecu>>

\* Mutant: the answers of the controller are waited for without limit.
MutPendingLeft == TRUE
PendingLeft == pending < PendingLimit

\* Mutant: pending responses are not counted.
MutCounted == pending
Counted == pending + 1

\* Mutant: whatever the service, a busy controller is asked again.
MutAsksAgain == busy < BusyRetries
AsksAgain == Request.sid \in BusyServices /\ busy < BusyRetries

Mismatch ==
    /\ Receives("negative")
    /\ Head(line).sid # Request.sid \/ Head(line).code = "malformed"
    /\ Ends("error", line[1]) /\ UNCHANGED astray

\* Within the limit and the deadline, which may pass at any response, the call waits
\* on; beyond, it raises.
Pending ==
    /\ Receives("negative") /\ Head(line).sid = Request.sid /\ Head(line).code = "pending"
    /\ \/ /\ PendingLeft /\ pending' = Counted
          /\ UNCHANGED <<pc, turn, busy, outcomes, astray>>
       \/ Ends("pendingTimeout", line[1]) /\ astray' = TRUE

BusyAgain ==
    /\ Receives("negative") /\ Head(line).sid = Request.sid /\ Head(line).code = "busy"
    /\ AsksAgain
    /\ busy' = busy + 1 /\ pc' = "send"
    /\ UNCHANGED <<turn, pending, outcomes, astray>>

\* Mutant: a pending response ends the call like any negative one.
MutRefused ==
    /\ Receives("negative") /\ Head(line).sid = Request.sid
    /\ Head(line).code \in {"pending", "refused"} \/ (Head(line).code = "busy" /\ ~AsksAgain)
    /\ Ends("negative", line[1]) /\ UNCHANGED astray
Refused ==
    /\ Receives("negative") /\ Head(line).sid = Request.sid
    /\ \/ Head(line).code = "refused"
       \/ Head(line).code = "busy" /\ ~AsksAgain
    /\ Ends("negative", line[1]) /\ UNCHANGED astray

\* Mutant: the subfunction is not compared.
MutValid(response) ==
    /\ response.sid = Request.sid
    /\ Request.sid \in FormServices => response.form = "right"
\* _validate_positive.
Valid(response) ==
    /\ response.sid = Request.sid
    /\ Request.sid \in EchoServices => response.sub = Request.sub
    /\ Request.sid \in FormServices => response.form = "right"

Answered ==
    /\ Receives("positive")
    /\ Ends(IF Valid(line[1]) THEN "response" ELSE "error", line[1])
    /\ UNCHANGED astray

Client ==
    \/ Call \/ Sent \/ SendFails \/ RecvFails
    \/ Mismatch \/ Pending \/ BusyAgain \/ Refused \/ Answered

--------------------------------------------------------------------------------
(***************************************************************************)
(* The controller (external): it serves one request after the other, may   *)
(* ask for time, be busy, refuse, or answer in a form of its own, which    *)
(* goes wrong like a transport that raises.                                *)
(***************************************************************************)

InWork == asked[1]

Answer(response, done) ==
    /\ line' = Append(line, response)
    /\ asked' = Tail(asked)
    /\ ecu' = [pending |-> 0, done |-> ecu.done \union done]
    /\ UNCHANGED <<client, sendings>>

AskForTime ==
    /\ asked # <<>> /\ (MaxPending = -1 \/ ecu.pending < MaxPending)
    /\ Len(line) < 2
    /\ line' = Append(line, Negative(InWork, "pending"))
    /\ ecu' = [ecu EXCEPT !.pending = IF MaxPending = -1 THEN 0 ELSE @ + 1]
    /\ Calm /\ UNCHANGED <<client, sendings, asked>>

Serve == asked # <<>> /\ Answer(Positive(InWork, "right"), {InWork}) /\ Calm
ServeOddly == asked # <<>> /\ Answer(Positive(InWork, "wrong"), {InWork}) /\ Upset
Decline == \E code \in {"busy", "refused", "malformed"} :
    asked # <<>> /\ Answer(Negative(InWork, code), {}) /\ Upset

Ecu == AskForTime \/ Serve \/ ServeOddly \/ Decline

Next == Client \/ Ecu

Spec == Init /\ [][Next]_vars
\* The client's thread runs, and the timeout of the transport with it; of the
\* controller nothing is expected.
FairSpec == Spec /\ WF_vars(Client)

--------------------------------------------------------------------------------
(***************************************************************************)
(* Properties.                                                             *)
(***************************************************************************)

TypeOK ==
    /\ pc \in {"idle", "send", "recv"} /\ turn \in 0..Len(Script)
    /\ pending \in 0..PendingLimit /\ busy \in 0..BusyRetries /\ astray \in BOOLEAN
    /\ sendings \in Seq(1..Len(Script)) /\ asked \in Seq(DOMAIN sendings)
    /\ \A i \in DOMAIN line : line[i].to \in DOMAIN sendings
    /\ ecu.done \subseteq DOMAIN sendings

\* The sendings of call t, and the last of them.
SendingsOf(t) == {n \in DOMAIN sendings : sendings[n] = t}

\* Where no call left an answer behind, every call ends on the response to its own
\* last sending, and nothing is left on the line between calls: neither pending
\* nor busy responses make the client answer one request with another's response.
InStep ==
    ~astray =>
        /\ \A t \in DOMAIN outcomes : outcomes[t].response # <<>> =>
             \A n \in SendingsOf(t) : n <= outcomes[t].response.to /\ sendings[outcomes[t].response.to] = t
        /\ pc = "idle" => line = <<>> /\ asked = <<>>

\* Whatever was left behind: a response the caller is given answers a request of the
\* same service, and of the same subfunction where answers repeat it.
OwnKind ==
    \A t \in DOMAIN outcomes : outcomes[t].how = "response" =>
        LET own == Script[t]
            other == Script[sendings[outcomes[t].response.to]]
        IN  other.sid = own.sid /\ (own.sid \in EchoServices => other.sub = own.sub)

\* The controller carries out a request that is no mere read once at most, however
\* often it was busy, and a call that ended on a negative response it could only
\* have been given for that request did nothing.
DoneOnce ==
    \A t \in 1..turn :
        /\ Script[t].sid \notin BusyServices =>
             \A m, n \in SendingsOf(t) : m = n
        /\ ~astray /\ t \in DOMAIN outcomes /\ outcomes[t].how = "negative" =>
             SendingsOf(t) \intersect ecu.done = {}

\* A controller that answers "pending" for ever does not keep the caller.
CallsEnd == pc # "idle" ~> pc = "idle"
================================================================================
