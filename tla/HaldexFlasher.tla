---------------------------- MODULE HaldexFlasher ----------------------------
(***************************************************************************)
(* The flash lifecycle of src/haldex_flasher.py: flash_binary, with        *)
(* reconnect_tp, _routine_done, _ident, _cancel and close, against the     *)
(* controller and the channel of HaldexController.                         *)
(*                                                                         *)
(* pc names the statement of flash_binary that runs next: the request it   *)
(* sends, or a connection it opens.  A request is two steps, Send and      *)
(* Receive (or Timeout), between which the controller, the link and a user *)
(* who asks to abort take theirs.  One HaldexFlasher object may run more   *)
(* than once, and may be replaced by a new one.                            *)
(***************************************************************************)
EXTENDS HaldexController

CONSTANTS
    ConnectTries,   \* reconnect_tp(): 5
    LoaderTries,    \* reconnect_tp(15, ...)
    MaxPolls        \* range(30) in _routine_done

ASSUME FlasherAssumption ==
    {ConnectTries, LoaderTries, MaxPolls} \subseteq Nat \ {0}

VARIABLES
    pc,
    awaiting,   \* the request named by pc was sent, its response is due
    tries,      \* connection attempts left in reconnect_tp
    polls,      \* polls left in _routine_done
    off,        \* number of the block that the transfer loop is at
    kwp,        \* the transport kwp uses: address, heartbeat, and whether the
                \* local variable tp of flash_binary is that same transport
    abort,      \* abort_requested
    saved,      \* cancelled: abort_requested as it was before verification
    recovery,   \* recovery_required (destructive_started is set with it)
    last,       \* last_result
    device,     \* the adapter is open
    before      \* history: the flash contents when the run began

hostVars == <<pc, awaiting, tries, polls, off, kwp, abort, saved, recovery,
              last, device, before>>
vars == <<controllerVars, hostVars>>

Connecting == {"connect", "reconnLoader", "reconnErase", "reconnChecksum", "verify"}
Polling == {"eraseResult", "checksumResult"}
Committing == {"stop20", "stop82"}
Verifying == {"verify", "ident", "status"}
Exchanges == Services
CancelPoints == Connecting \cup Polling \cup {"download", "erase", "transfer"}

Transport == [addr : {"app", "loader"}, heartbeat : BOOLEAN, held : BOOLEAN]
Errors == {"timeout", "a8", "noack", "nrc", "kwp", "cancelled", "adapter",
           "notLoader", "unverified", "ambiguous"}
LastResult == [status : {"none", "validated", "running", "ok", "error", "recovery_required"},
               error : Errors \cup {"none"},
               checksum : BOOLEAN, boot : BOOLEAN, acked : SUBSET Committing]
NoResult == [status |-> "none", error |-> "none", checksum |-> FALSE,
             boot |-> FALSE, acked |-> {}]

Init ==
    /\ ControllerInit
    /\ pc = "idle" /\ awaiting = FALSE
    /\ tries = ConnectTries /\ polls = MaxPolls /\ off = 1
    /\ kwp = [addr |-> "app", heartbeat |-> FALSE, held |-> FALSE]
    /\ abort = FALSE /\ saved = FALSE /\ recovery = FALSE
    /\ last = NoResult
    /\ device \in BOOLEAN
    /\ before = flash

--------------------------------------------------------------------------------
(***************************************************************************)
(* Where control goes.                                                     *)
(***************************************************************************)

\* The statement that follows one that succeeded.
NextStage ==
    [session89 |-> "appSeed", appKey |-> "session85", session85 |-> "reconnLoader",
     loaderSeed |-> "loaderKey", loaderKey |-> "download", download |-> "erase",
     erase |-> "eraseResult", eraseResult |-> "transfer", exit |-> "checksum",
     checksum |-> "checksumResult", checksumResult |-> "stop20", stop20 |-> "stop82",
     ident |-> "status"]

\* Mutants: a reconnection in _routine_done taken for the routine's end; an
\* application session asked of a controller that is in the loader.
MutAfterConnectDone(addr) ==
    [connect |-> IF addr = "app" THEN "session89" ELSE "loaderSeed",
     reconnLoader |-> "loaderSeed", reconnErase |-> "transfer",
     reconnChecksum |-> "stop20", verify |-> "ident"][pc]
MutAfterConnectApp(addr) ==
    [connect |-> "session89", reconnLoader |-> "loaderSeed",
     reconnErase |-> "eraseResult", reconnChecksum |-> "checksumResult",
     verify |-> "ident"][pc]

\* The statement that a successful connection leads to, where one is opened.
AfterConnect(addr) ==
    [connect |-> IF addr = "app" THEN "session89" ELSE "loaderSeed",
     reconnLoader |-> "loaderSeed", reconnErase |-> "eraseResult",
     reconnChecksum |-> "checksumResult", verify |-> "ident"][pc]

\* except Exception, finally: the result, and close(), which releases the
\* transport (with an A8) and the adapter.  From verification the inner
\* finally puts abort_requested back to what it was before.
FailWith(result, e) ==
    /\ pc' = "idle" /\ awaiting' = FALSE
    /\ last' = [result EXCEPT !.status = IF recovery THEN "recovery_required" ELSE "error",
                            !.error = e]
    /\ device' = FALSE /\ open' = FALSE
    /\ abort' = IF pc \in Verifying THEN saved ELSE abort
    /\ UNCHANGED <<tries, polls, off, kwp, saved, recovery, before>>

Fail(e) == FailWith(last, e)

\* Mutant: the loop polls for as long as it takes.
MutPollsLeft == polls

\* Each iteration of the loop over the polls uses one up.
PollsLeft == IF pc \in Polling THEN polls - 1 ELSE polls

\* reconnect_tp(15, ...) begins: _disconnect() gives the channel up.
Reconnect(stage) ==
    /\ pc' = stage /\ awaiting' = FALSE
    /\ tries' = LoaderTries
    /\ polls' = PollsLeft
    /\ open' = FALSE
    /\ UNCHANGED <<off, kwp, abort, saved, recovery, last, device, before>>

\* After 20 the other service is sent, whatever came of 20.  After 82 close()
\* releases everything, a request to abort is put aside, and the fresh
\* connection for the completion check begins.
CommitStep(acked) ==
    /\ last' = [last EXCEPT !.acked = @ \cup acked]
    /\ awaiting' = FALSE
    /\ IF pc = "stop20"
         THEN /\ pc' = "stop82"
              /\ UNCHANGED <<tries, open, device, abort, saved>>
         ELSE /\ pc' = "verify" /\ tries' = LoaderTries
              /\ open' = FALSE /\ device' = FALSE
              /\ saved' = abort /\ abort' = FALSE
    /\ UNCHANGED <<polls, off, kwp, recovery, before>>

ReconnectStage == [session85 |-> "reconnLoader", eraseResult |-> "reconnErase",
                   checksumResult |-> "reconnChecksum"]

\* Mutant: a block whose response did not come is sent again.
MutRaiseResend(e) ==
    IF pc = "transfer" /\ e = "timeout"
      THEN /\ awaiting' = FALSE
           /\ UNCHANGED <<pc, tries, polls, off, kwp, abort, saved, recovery, last,
                          device, before, open>>
    ELSE IF pc \in DOMAIN ReconnectStage /\ e \in {"timeout", "a8"}
      THEN Reconnect(ReconnectStage[pc])
    ELSE IF pc \in Committing THEN CommitStep({})
    ELSE Fail(e)

\* An exception out of a request, by the handler around it.
Raise(e) ==
    IF pc \in DOMAIN ReconnectStage /\ e \in {"timeout", "a8"}
      THEN Reconnect(ReconnectStage[pc])
    ELSE IF pc \in Committing THEN CommitStep({})
    ELSE Fail(e)

\* A routine that is not complete is polled again.
PollAgain ==
    /\ pc \in Polling
    /\ polls' = PollsLeft /\ awaiting' = FALSE
    /\ UNCHANGED <<pc, tries, off, kwp, abort, saved, recovery, last, device, before, open>>

--------------------------------------------------------------------------------
(***************************************************************************)
(* The run begins.                                                         *)
(***************************************************************************)

\* The user starts a run, on the same object or on a new one: a new object has
\* no request to abort, and may have been given an open adapter.  A run starts
\* when the controller has nothing left to act upon from an earlier one.
Start(fresh) ==
    /\ pc = "idle" /\ req = <<>>
    /\ pc' = "connect" /\ awaiting' = FALSE
    /\ tries' = ConnectTries
    /\ last' = [NoResult EXCEPT !.status = "running"]
    /\ recovery' = FALSE
    /\ before' = flash
    /\ IF fresh THEN abort' = FALSE /\ device' \in BOOLEAN
                ELSE UNCHANGED <<abort, device>>
    /\ UNCHANGED <<polls, off, kwp, saved, controllerVars>>

\* prepare_image refuses the image, before the try block, or the run is dry.
Preflight ==
    /\ pc = "idle"
    /\ last' \in {NoResult, [NoResult EXCEPT !.status = "validated"]}
    /\ recovery' = FALSE
    /\ UNCHANGED <<pc, awaiting, tries, polls, off, kwp, abort, saved, device,
                   before, controllerVars>>

\* The user interface sets abort_requested, at any time during a run.
RequestAbort ==
    /\ pc # "idle" /\ ~abort /\ Upset
    /\ abort' = TRUE
    /\ UNCHANGED <<pc, awaiting, tries, polls, off, kwp, saved, recovery, last,
                   device, before, ecu, open, req, rsp>>

Cancelled ==
    /\ abort /\ pc \in CancelPoints /\ ~awaiting
    /\ pc \in Polling => polls > 0
    /\ Fail("cancelled") /\ Calm
    /\ UNCHANGED <<ecu, req, rsp>>

--------------------------------------------------------------------------------
(***************************************************************************)
(* reconnect_tp                                                            *)
(***************************************************************************)

\* _ensure_device is outside the loop over the attempts.
AdapterFails ==
    /\ pc \in Connecting /\ ~device /\ Upset
    /\ Fail("adapter")
    /\ UNCHANGED <<ecu, req, rsp>>

\* can_clear, the channel setup, and where flash_binary goes from there.
ConnectOk ==
    /\ pc \in Connecting /\ ~abort
    /\ mode # "reset" /\ req = <<>>
    /\ rsp' = <<>> /\ Calm
    /\ IF pc = "reconnLoader" /\ mode = "app"
         THEN Fail("notLoader")
         ELSE /\ open' = TRUE /\ device' = TRUE
              /\ pc' = AfterConnect(mode) /\ awaiting' = FALSE
              /\ kwp' = [addr |-> mode, heartbeat |-> pc # "verify",
                         held |-> pc \notin {"reconnErase", "reconnChecksum"}]
              /\ UNCHANGED <<tries, polls, off, abort, saved, recovery, last, before>>
    /\ UNCHANGED <<ecu, req>>

\* No channel: the attempt timed out, or the adapter could not be cleared.
ConnectFails ==
    /\ pc \in Connecting /\ ~abort /\ Upset
    /\ IF tries > 1
         THEN /\ tries' = tries - 1 /\ device' = TRUE
              /\ UNCHANGED <<pc, awaiting, polls, off, kwp, abort, saved,
                             recovery, last, before, open>>
         ELSE Fail("timeout")
    /\ UNCHANGED <<ecu, req, rsp>>

--------------------------------------------------------------------------------
(***************************************************************************)
(* One request and its response.                                           *)
(***************************************************************************)

Pending == [sid |-> pc, blk |-> IF pc = "transfer" THEN off ELSE 0]

\* Mutant: recovery is marked when erase was answered.
MutRecoveryMark == recovery \/ pc = "eraseResult"

\* "Mark before send: even a missing erase reply is destructive ambiguity."
RecoveryMark == recovery \/ pc = "erase"

\* The heartbeat is turned off on the transport that tp names, before 85 and
\* before 20.
HeartbeatNow == kwp.heartbeat /\ ~(pc \in {"session85", "stop20"} /\ kwp.held)

Send ==
    /\ pc \in Exchanges /\ ~awaiting
    /\ ~(abort /\ pc \in CancelPoints)
    /\ pc \in Polling => polls > 0
    /\ awaiting' = TRUE
    /\ req' = IF open THEN Append(req, Pending) ELSE req
    /\ kwp' = [kwp EXCEPT !.heartbeat = HeartbeatNow]
    /\ recovery' = RecoveryMark
    /\ UNCHANGED <<pc, tries, polls, off, abort, saved, last, device, before,
                   ecu, open, rsp, upsets>>

\* Mutant: the commit counts as acknowledged once 82 is.
MutAcknowledged == "stop82" \in last.acked

\* What 'acknowledged' asks of the two commit services.
Acknowledged == last.acked = Committing

\* After the second ident response: the finally restores abort_requested, and
\* the checks on the application, and then on the commit outcome, follow.
Verify ==
    IF kwp.addr # "app" THEN Fail("unverified")
    ELSE IF ~Acknowledged THEN FailWith([last EXCEPT !.boot = TRUE], "ambiguous")
    ELSE
        /\ pc' = "idle" /\ awaiting' = FALSE
        /\ recovery' = FALSE
        /\ last' = [last EXCEPT !.status = "ok", !.boot = TRUE]
        /\ abort' = saved
        /\ device' = FALSE /\ open' = FALSE
        /\ UNCHANGED <<tries, polls, off, kwp, saved, before>>

\* Mutant: one block too many.
MutMoreBlocks == off <= NumBlocks

\* for off in range(0, len(region), chunk)
MoreBlocks == off < NumBlocks

\* The transfer loop, and the assignments between two requests.  A zero seed
\* is not answered with a key.
Advance ==
    IF pc = "status" THEN Verify
    ELSE IF pc \in Committing THEN CommitStep({pc})
    ELSE IF pc = "session85" THEN Reconnect("reconnLoader")
    ELSE
        /\ awaiting' = FALSE
        /\ pc' \in CASE pc = "appSeed" -> {"appKey", "session85"}
                     [] pc = "transfer" -> {IF MoreBlocks THEN "transfer" ELSE "exit"}
                     [] OTHER -> {NextStage[pc]}
        /\ off' = IF pc = "eraseResult" THEN 1
                  ELSE IF pc = "transfer" /\ MoreBlocks THEN off + 1 ELSE off
        /\ polls' = IF pc \in {"erase", "checksum"} THEN MaxPolls ELSE polls
        /\ last' = [last EXCEPT !.checksum = @ \/ pc = "checksumResult"]
        /\ UNCHANGED <<tries, kwp, abort, saved, recovery, device, before, open>>

\* The response is read; kwp checks it, and flash_binary goes on.
Receive ==
    /\ awaiting /\ rsp # <<>>
    /\ rsp' = Tail(rsp)
    /\ LET m == Head(rsp)
           own == m.to = pc
       IN  \/ m = A8 /\ Raise("a8")
           \/ m # A8 /\ ~own /\ Raise("kwp")
           \/ own /\ m.kind = "pos" /\ Advance
           \/ own /\ m.kind = "neg" /\ Raise("nrc")
           \/ own /\ m.kind = "busy" /\ PollAgain
           \/ own /\ m.kind = "bad" /\ Raise("unverified")
    /\ Calm
    /\ UNCHANGED <<ecu, req>>

\* With the heartbeat on, recv() sends a keepalive behind a complete response
\* when a second has passed, and raises in place of the response when the
\* keepalive finds the channel closed or is not answered.
KeepAliveFails ==
    /\ awaiting /\ kwp.heartbeat
    /\ rsp # <<>> /\ Head(rsp) # A8
    /\ \/ /\ Len(rsp) > 1 /\ rsp[2] = A8
          /\ rsp' = Tail(Tail(rsp)) /\ Raise("a8") /\ Calm
       \/ /\ rsp' = Tail(rsp) /\ Raise("timeout")
          /\ IF open THEN Upset ELSE Calm
    /\ UNCHANGED <<ecu, req>>

\* No response in time (MessageTimeoutError), or no TP2 ACK for the request
\* (TP2Error).  It costs an adverse event when the controller is still at it.
Timeout ==
    /\ awaiting /\ rsp = <<>>
    /\ IF req # <<>> THEN Upset ELSE Calm
    /\ \/ Raise("timeout")
       \/ Raise("noack")
    /\ UNCHANGED <<ecu, req, rsp>>

PollsExhausted ==
    /\ pc \in Polling /\ ~awaiting /\ polls = 0
    /\ Fail("timeout") /\ Calm
    /\ UNCHANGED <<ecu, req, rsp>>

Exchange == Send \/ Receive \/ KeepAliveFails \/ Timeout \/ PollsExhausted
Connection == AdapterFails \/ ConnectOk \/ ConnectFails
Run == Cancelled \/ Connection \/ Exchange
User == (\E fresh \in BOOLEAN : Start(fresh)) \/ Preflight \/ RequestAbort
Environment == ControllerNext /\ UNCHANGED hostVars

Next == Run \/ User \/ Environment

Spec == Init /\ [][Next]_vars

(***************************************************************************)
(* The thread that runs flash_binary goes on, the controller answers and   *)
(* boots, and a user whose run failed tries again with a new object.       *)
(***************************************************************************)
Fairness ==
    /\ WF_vars(Run)
    /\ WF_vars(ControllerSteps /\ UNCHANGED hostVars)

FairSpec == Spec /\ Fairness
ResumingSpec == FairSpec /\ SF_vars(Start(TRUE))

--------------------------------------------------------------------------------
(***************************************************************************)
(* Properties.                                                             *)
(***************************************************************************)

HostTypeOK ==
    /\ pc \in {"idle"} \cup Connecting \cup Exchanges
    /\ awaiting \in BOOLEAN
    /\ tries \in Nat /\ polls \in Nat
    /\ off \in Blocks
    /\ kwp \in Transport
    /\ abort \in BOOLEAN /\ saved \in BOOLEAN
    /\ recovery \in BOOLEAN
    /\ last \in LastResult
    /\ device \in BOOLEAN
    /\ before \in [Blocks -> {Old, Blank} \cup Blocks]

\* The types of both sides; the bounds that off and wp keep to are in them.
TypeOK == ControllerTypeOK /\ HostTypeOK

\* A run that returns status 'ok' (flash_binary:289-292) leaves a controller
\* that holds the whole image, in order, is committed, and does not stay in the
\* loader: whatever was lost, late, closed or power-cycled on the way.
OkMeansProgrammed ==
    pc = "idle" /\ last.status = "ok" => flash = Image /\ committed /\ mode # "loader"

\* A run that ends with status 'error', and not 'recovery_required', has left
\* the flash as it found it, and nothing is under way that will change it
\* (flash_binary:235-236 and 293-295).
DamageReported ==
    pc = "idle" /\ last.status = "error" =>
        flash = before /\ \A i \in DOMAIN req : req[i].sid \notin {"erase", "transfer"}

\* A block reaches its own place or none: a retried or doubled TransferData
\* would shift what follows (flash_binary:245, "never resend TransferData").
WritesInPlace ==
    [][\A i \in Blocks : flash'[i] # flash[i] => flash'[i] \in {Blank, i}]_vars

\* Whenever a block is on its way to the loader, the loader has completed the
\* erase of this session and its write pointer stands at that block: the two
\* loops stay in step through lost channels and reconnections (155-187,
\* 242-250), and a block that outlives its run still falls into its place.
InStep ==
    \A i \in DOMAIN req : req[i].sid = "transfer" =>
        ram.routine = "erase" /\ ram.phase = "done" /\ ram.wp = req[i].blk

\* A commit service reaches the loader only after the loader itself has
\* reported that the checksum over what it holds is right (253-269).
ChecksumBeforeCommit ==
    \A i \in DOMAIN req : req[i].sid \in Committing =>
        ram.routine = "sum" /\ ram.phase = "done" /\ flash = Image

\* "A heartbeat here would turn that transition into a false failure"
\* (258-261): no keepalive is sent behind the responses to 20 and 82.
HeartbeatOffAtCommit == pc \in Committing /\ awaiting => ~kwp.heartbeat

\* "Cancellation cannot replace the fresh completion check after commit" (273):
\* the check of the fresh application never ends as a cancelled run.
CompletionCheckNotCancelled ==
    [][(pc \in Verifying) => last'.error # "cancelled"]_vars

\* The flash as the contract sees it: -2 where it is neither.
FirstBlocks(k) == [i \in Blocks |-> IF i <= k THEN i ELSE Blank]
Holds(k) == flash = FirstBlocks(k)
Held ==
    IF flash = OldImage THEN -1
    ELSE IF \E k \in 0..NumBlocks : Holds(k) THEN CHOOSE k \in 0..NumBlocks : Holds(k) ELSE -2

Destructive == {"erase", "transfer"} \cup Committing
Exposed == recovery \/ \E i \in DOMAIN req : req[i].sid \in Destructive

Contract == INSTANCE FlashContract WITH
    held <- Held, verdict <- last.status, exposed <- Exposed

\* flash_binary keeps its contract: nothing is erased, written or committed by a run
\* that did not count itself as destructive first, blocks arrive in order behind an
\* erase, and each verdict says what the controller holds (227-296), whatever
\* was lost, late, closed, cancelled or power-cycled.
KeepsContract == Contract!Spec

\* Every run ends, whatever the controller and the link do: the bounds on
\* attempts (102-121) and polls (156) are enough.
Terminates == pc # "idle" ~> pc = "idle"

\* A controller reported 'recovery_required' can be flashed again, from the
\* loader or from an application that boots: once nothing more goes wrong a
\* further run ends with 'ok'.
Resumable == last.status = "recovery_required" ~> last.status = "ok"
================================================================================
