------------------------------- MODULE Readout -------------------------------
(***************************************************************************)
(* The application readout: ApplicationReader and capture of                *)
(* src/haldex_flash.py, driven by run_readout of src/runner.py, and the     *)
(* controller it reads (external).  No recovery is ever passed to capture,  *)
(* so a window that fails ends the run.                                    *)
(*                                                                         *)
(* The byte at an address of the range stands for the address.  An answer  *)
(* that the reader gave up on stays on the line and is met by the next      *)
(* exchange.                                                               *)
(***************************************************************************)
EXTENDS Integers, Sequences, CanAdapter

CONSTANTS
    Length,    \* bytes of the range
    Window,    \* bytes of a window
    MaxBlock,  \* MAX_BLOCK, bytes of an upload block
    Passes     \* passes: 1 or 2

ASSUME ReadoutAssumption ==
    {Length, Window, MaxBlock} \subseteq Nat \ {0} /\ Passes \in {1, 2}

VARIABLES
    stage,     \* the exchange at hand, or where the run is
    waiting,   \* the request of the exchange is sent, or being sent
    special,   \* special_session
    upload,    \* upload_active
    offset,    \* where the window being read lies in the range
    data,      \* the bytes received of it
    files,     \* per pass, the range in the file
    report,    \* the status that is reported, and whether saved_ranges and
               \* cleanup_errors are there
    device,    \* the adapter
    toEcu, line,   \* the request and the answers under way
    ecu,           \* the controller's session, key and upload
    missed         \* StopCommunication has not reached it, was declined, or was not
                   \* sent as Ctrl-C ended leave

reader == <<stage, waiting, special, upload, offset, data, files, report, device>>
vars == <<reader, toEcu, line, ecu, missed>>

\* The exchanges: what reads, and the cleanup of leave.
Entering == {"identify", "extend", "seed", "key", "special"}
Reading == {"upload", "block", "exit"}
Leaving == {"leaveExit", "leaveStop", "leaveExtend"}
Exchanges == Entering \union Reading \union Leaving

\* The service of each exchange: an answer shows no more than that.
Service == [s \in Exchanges |->
    CASE s \in {"extend", "leaveExtend"} -> "1089"
      [] s \in {"exit", "leaveExit"}     -> "37"
      [] s = "leaveStop"                 -> "20"
      [] OTHER                           -> s]

Ecu0 == [session |-> "default", key |-> FALSE, next |-> <<>>]

MinOf(a, b) == IF a <= b THEN a ELSE b
Padding == -1
EmptyFile == [at \in 0..(Length - 1) |-> Padding]

Init ==
    /\ stage = "open" /\ waiting = FALSE /\ special = FALSE /\ upload = FALSE
    /\ offset = 0 /\ data = <<>> /\ files = <<>>
    /\ report = [status |-> "in_progress", ranges |-> FALSE, errors |-> FALSE]
    /\ \E kind \in Kinds : device = Shut(kind)
    /\ toEcu = <<>> /\ line = <<>> /\ ecu = Ecu0 /\ missed = FALSE

--------------------------------------------------------------------------------
(***************************************************************************)
(* The run.                                                                *)
(***************************************************************************)

\* leave: the upload is ended, then the session, and what was never begun is not.
FirstToLeave(up, in) == IF up THEN "leaveExit" ELSE IF in THEN "leaveStop" ELSE "release"

\* The body raises, or is over: leave follows.
Leave(status) ==
    /\ stage' = FirstToLeave(upload, special) /\ waiting' = FALSE
    /\ report' = [report EXCEPT !.status = status]

\* open_adapter: one call of the driver after the other.
OpenCall ==
    /\ stage = "open" /\ ~Owned(device)
    /\ device' = Advanced(device)
    /\ UNCHANGED <<stage, waiting, special, upload, offset, data, files, report,
                   toEcu, line, ecu, missed>>

\* A call raises, or Ctrl-C ends it: open_adapter closes what it opened, and there
\* is no adapter, transport or reader for the run to release.
OpenFails == \E refused \in Refusals(device) :
    /\ stage = "open" /\ ~Owned(device)
    /\ device' = Abandoned(device, refused) /\ stage' = "close"
    /\ \E status \in {report.status, "requires_attention"} :
         report' = [report EXCEPT !.status = status]
    /\ UNCHANGED <<waiting, special, upload, offset, data, files,
                   toEcu, line, ecu, missed>>

\* TP20Transport returns, or raises (or is interrupted), and only the adapter is left
\* to release.
Open ==
    /\ stage = "open" /\ Owned(device)
    /\ \/ stage' = "identify" /\ UNCHANGED report
       \/ /\ stage' = "close"
          /\ \E status \in {report.status, "requires_attention"} :
               report' = [report EXCEPT !.status = status]
    /\ UNCHANGED <<waiting, special, upload, offset, data, files, device,
                   toEcu, line, ecu, missed>>

\* Mutant: the session is not noted.
MutNotedSpecial == special
\* enter and read_window note what is to be undone before the request is sent.
NotedSpecial == special \/ stage = "special"
NotedUpload == upload \/ stage = "upload"

\* capture: the window at hand is cut off by the end of the range.
Size == MinOf(Window, Length - offset)

\* exchange: the request is sent; with the first window of a pass its file is new.
Ask ==
    /\ stage \in Exchanges /\ ~waiting
    /\ waiting' = TRUE
    /\ toEcu' = Append(toEcu, [service |-> stage, at |-> offset, size |-> Size])
    /\ special' = NotedSpecial /\ upload' = NotedUpload
    /\ files' = IF stage = "upload" /\ offset = 0 THEN Append(files, EmptyFile) ELSE files
    /\ UNCHANGED <<stage, offset, data, report, device, line, ecu, missed>>

\* Mutant: a block that was not answered is asked for again.
MutFailed ==
    IF stage = "block"
      THEN waiting' = FALSE /\ UNCHANGED <<stage, special, upload, offset, data, files, report>>
      ELSE /\ Leave("requires_attention")
           /\ UNCHANGED <<special, upload, offset, data, files>>
\* Mutant: leave goes on with what it has not undone.
MutUndone ==
    IF stage \in Leaving
      THEN /\ stage' = FirstToLeave(upload, special) /\ waiting' = FALSE
           /\ report' = [report EXCEPT !.errors = TRUE]
           /\ UNCHANGED <<special, upload, offset, data, files>>
      ELSE Leave("requires_attention") /\ UNCHANGED <<special, upload, offset, data, files>>
\* The exchange raises: an error of leave is noted, any other ends the body.
Failed ==
    IF stage \in Leaving
      THEN /\ stage' = IF stage = "leaveExit" THEN FirstToLeave(FALSE, special) ELSE "release"
           /\ waiting' = FALSE
           /\ report' = [report EXCEPT !.errors = TRUE]
           /\ UNCHANGED <<special, upload, offset, data, files>>
      ELSE Leave("requires_attention") /\ UNCHANGED <<special, upload, offset, data, files>>

\* send or recv raises: what is under way may still arrive.
TransportFails ==
    /\ waiting /\ Failed /\ UNCHANGED <<device, toEcu, line, ecu, missed>>

\* Ctrl-C is no Exception: the status stays, and leave runs.
Interrupted ==
    /\ stage \in Entering \union Reading
    /\ Leave(report.status)
    /\ UNCHANGED <<special, upload, offset, data, files, device, toEcu, line, ecu, missed>>

\* For the same reason Ctrl-C in the cleanup, the first of a run or another, escapes
\* from leave, disconnect or close and from the finally: what was not reached is not
\* done any more, close among it, and no report is written.
CleanupInterrupted ==
    /\ stage \in Leaving \union {"release", "close"}
    /\ stage' = "broken" /\ waiting' = FALSE
    /\ report' = [report EXCEPT !.status = "unwritten"]
    /\ \/ device' = device
       \/ /\ stage = "close" /\ Owned(device)
          /\ \E refused \in Refusals(device) : device' = Closed(device, refused)
    /\ missed' = (missed \/ stage = "leaveExit" \/ (stage = "leaveStop" /\ ~waiting))
    /\ UNCHANGED <<special, upload, offset, data, files, toEcu, line, ecu>>

\* read_window takes one limit for the blocks, and blocks of one length.
Accepted(answer) ==
    /\ answer.ok /\ answer.service = Service[stage]
    /\ stage = "upload" => answer.data = <<MinOf(MaxBlock, Size)>>
    /\ stage = "block" => Len(answer.data) = MinOf(MaxBlock, Size - Len(data))

Entered ==
    /\ stage \in Entering
    /\ stage' = CASE stage = "identify" -> "extend"  [] stage = "extend" -> "seed"
                  [] stage = "seed"     -> "key"     [] stage = "key"    -> "special"
                  [] stage = "special"  -> "upload"
    /\ UNCHANGED <<special, upload, offset, data, files, report>>

BeginBlocks ==
    /\ stage = "upload" /\ stage' = "block"
    /\ UNCHANGED <<special, upload, offset, data, files, report>>

TakeBlock(answer) ==
    /\ stage = "block"
    /\ data' = data \o answer.data
    /\ stage' = IF Len(data') < Size THEN "block" ELSE "exit"
    /\ UNCHANGED <<special, upload, offset, files, report>>

\* What the checksums and the comparison with a reference, which may raise, make of
\* a complete capture, if Ctrl-C does not end them.
Verdicts == {"captured_checksums_valid", "checksum_mismatch", "requires_attention", "in_progress"}

\* Mutant: one window too many.
MutLastWindow == offset >= Length
LastWindow == offset + Window >= Length

\* What a file holds behind the window.
Saved(file) ==
    [at \in DOMAIN file |->
        IF at - offset + 1 \in DOMAIN data THEN data[at - offset + 1] ELSE file[at]]

\* read_window returns, and capture saves the window; behind the last window of
\* the last pass the report is completed.  Two passes that differ end the body.
SaveWindow ==
    LET saved == [files EXCEPT ![Len(files)] = Saved(@)]
        complete == LastWindow /\ Len(files) = Passes
        differ == complete /\ Passes = 2 /\ saved[1] # saved[2]
    IN  /\ stage = "exit"
        /\ upload' = FALSE /\ data' = <<>> /\ files' = saved
        /\ offset' = IF LastWindow THEN 0 ELSE offset + Window
        /\ UNCHANGED special
        /\ \/ ~complete /\ stage' = "upload" /\ UNCHANGED report
           \/ /\ complete /\ stage' = FirstToLeave(FALSE, special)
              /\ \E status \in IF differ THEN {"requires_attention", "in_progress"} ELSE Verdicts :
                   report' = [report EXCEPT !.status = status, !.ranges = ~differ]

LeaveStep ==
    /\ stage \in Leaving
    /\ upload' = (upload /\ stage # "leaveExit")
    /\ special' = (special /\ stage # "leaveExtend")
    /\ stage' = CASE stage = "leaveExit"   -> FirstToLeave(FALSE, special)
                  [] stage = "leaveStop"   -> "leaveExtend"
                  [] stage = "leaveExtend" -> "release"
    /\ UNCHANGED <<offset, data, files, report>>

\* exchange returns, or raises ProtocolError on an answer it does not expect.
Take ==
    /\ waiting /\ line # <<>>
    /\ line' = Tail(line)
    /\ \/ /\ Accepted(Head(line)) /\ waiting' = FALSE
          /\ Entered \/ BeginBlocks \/ TakeBlock(Head(line)) \/ SaveWindow \/ LeaveStep
       \/ ~Accepted(Head(line)) /\ Failed
    /\ UNCHANGED <<device, toEcu, ecu, missed>>

\* tp.disconnect, whose exception is noted like the errors of leave.
Disconnect == \E fails \in BOOLEAN :
    /\ stage = "release" /\ stage' = "close"
    /\ report' = [report EXCEPT !.errors = @ \/ fails]
    /\ UNCHANGED <<waiting, special, upload, offset, data, files, device,
                   toEcu, line, ecu, missed>>

\* Mutant: the status stays what the body made it.
MutStatusAfter(errors) == report.status
\* Any error of the cleanup takes the status.
StatusAfter(errors) == IF errors THEN "requires_attention" ELSE report.status

\* device.close, where the run has one, and the report.
Release == \E refused \in Refusals(device) :
    LET raises == Owned(device) /\ CloseRaises(device, refused)
        errors == report.errors \/ raises
    IN  /\ stage = "close" /\ stage' = "ended"
        /\ device' = IF Owned(device) THEN Closed(device, refused) ELSE device
        /\ report' = [report EXCEPT !.errors = errors, !.status = StatusAfter(errors)]
        /\ UNCHANGED <<waiting, special, upload, offset, data, files,
                       toEcu, line, ecu, missed>>

Thread ==
    OpenCall \/ OpenFails \/ Open \/ Ask \/ TransportFails \/ Take \/ Disconnect \/ Release
CtrlC == Interrupted \/ CleanupInterrupted

Run == Thread \/ CtrlC

--------------------------------------------------------------------------------
(***************************************************************************)
(* The controller and the link (external).                                 *)
(***************************************************************************)

Asked == Head(toEcu).service
Reply(ok, bytes) == line' = Append(line, [service |-> Service[Asked], ok |-> ok, data |-> bytes])

\* What the controller serves, and in which state.
Served ==
    CASE Asked = "identify"               -> TRUE
      [] Asked \in {"extend", "leaveExtend"} -> TRUE
      [] Asked = "seed"                   -> ecu.session = "extended"
      [] Asked = "key"                    -> ecu.session = "extended"
      [] Asked = "special"                -> ecu.session = "extended" /\ ecu.key
      [] Asked = "upload"                 -> ecu.session = "special"
      [] Asked = "block"                  -> ecu.next # <<>>
      [] Asked \in {"exit", "leaveExit"}  -> ecu.next # <<>>
      [] Asked = "leaveStop"              -> ecu.session # "default"

\* The bytes of the next block; behind the end of the upload, whatever lies there.
Foreign == -2
Block == MinOf(MaxBlock, ecu.next.left)
NextBlock == IF ecu.next.left > 0 THEN [i \in 1..Block |-> ecu.next.at + i - 1]
                                  ELSE [i \in 1..MaxBlock |-> Foreign]
Answer(request) ==
    CASE Asked = "upload" -> <<MinOf(MaxBlock, request.size)>>
      [] Asked = "block"  -> NextBlock
      [] OTHER            -> <<>>

Behind(request) ==
    CASE Asked \in {"identify", "seed"}      -> ecu
      [] Asked \in {"extend", "leaveExtend"} -> [Ecu0 EXCEPT !.session = "extended"]
      [] Asked = "key"                       -> [ecu EXCEPT !.key = TRUE]
      [] Asked = "special"                   -> [ecu EXCEPT !.session = "special"]
      [] Asked = "upload"                    -> [ecu EXCEPT !.next = [at |-> request.at, left |-> request.size]]
      [] Asked = "block"                     -> [ecu EXCEPT !.next = [at |-> @.at + Block, left |-> @.left - Block]]
      [] Asked \in {"exit", "leaveExit"}     -> [ecu EXCEPT !.next = <<>>]
      [] Asked = "leaveStop"                 -> Ecu0

Serve ==
    /\ toEcu # <<>> /\ Served
    /\ Reply(TRUE, Answer(Head(toEcu)))
    /\ ecu' = Behind(Head(toEcu)) /\ toEcu' = Tail(toEcu)
    /\ UNCHANGED <<reader, missed>>

\* Carried out, and answered with less than the request asks for.
ServeShort ==
    /\ toEcu # <<>> /\ Served /\ Answer(Head(toEcu)) # <<>>
    /\ Reply(TRUE, Tail(Answer(Head(toEcu))))
    /\ ecu' = Behind(Head(toEcu)) /\ toEcu' = Tail(toEcu)
    /\ UNCHANGED <<reader, missed>>

\* A negative response, or a positive one of another form.
Decline ==
    /\ toEcu # <<>> /\ Reply(FALSE, <<>>) /\ toEcu' = Tail(toEcu)
    /\ missed' = (missed \/ Asked = "leaveStop")
    /\ UNCHANGED <<reader, ecu>>

LoseRequest ==
    /\ toEcu # <<>> /\ toEcu' = Tail(toEcu)
    /\ missed' = (missed \/ Asked = "leaveStop")
    /\ UNCHANGED <<reader, line, ecu>>

LoseAnswer == line # <<>> /\ line' = Tail(line) /\ UNCHANGED <<reader, toEcu, ecu, missed>>

PowerCycle ==
    /\ stage \notin {"open", "ended", "broken"} /\ ecu # Ecu0
    /\ ecu' = Ecu0 /\ UNCHANGED <<reader, toEcu, line, missed>>

Environment == Serve \/ ServeShort \/ Decline \/ LoseRequest \/ LoseAnswer \/ PowerCycle

Next == Run \/ Environment

Spec == Init /\ [][Next]_vars
\* The thread of the run goes on; a wait for an answer ends by the timeout of the
\* transport where it does not end by an answer.  Nobody has to press Ctrl-C.
FairSpec == Spec /\ WF_vars(Thread)

--------------------------------------------------------------------------------
(***************************************************************************)
(* Properties.                                                             *)
(***************************************************************************)

TypeOK ==
    /\ stage \in {"open", "release", "close", "ended", "broken"} \union Exchanges
    /\ {waiting, special, upload, missed} \subseteq BOOLEAN
    /\ offset \in 0..(Length - 1) /\ Len(data) < Size + MaxBlock /\ Len(files) <= Passes
    /\ report.status \in {"in_progress", "requires_attention", "unwritten",
                          "captured_checksums_valid", "checksum_mismatch"}
    /\ report.ranges \in BOOLEAN /\ report.errors \in BOOLEAN
    /\ ecu.session \in {"default", "extended", "special"} /\ ecu.key \in BOOLEAN
    /\ device \in Adapter

\* A file holds at every address what the controller has there, or padding: no answer
\* that came late, was lost or belongs to another exchange, and no cut of the range
\* into windows and blocks, shifts what follows it.
FilesFaithful ==
    \A p \in DOMAIN files : \A at \in 0..(Length - 1) : files[p][at] \in {Padding, at}

\* A run that reports success has read every byte in every pass, and has left the
\* controller, which has neither the special session nor an upload open, and the
\* adapter, but for a J2534 device that its driver did not close (j2534.py:135-138).
SuccessMeansClean ==
    stage = "ended" /\ report.status \in {"captured_checksums_valid", "checksum_mismatch"} =>
        /\ Len(files) = Passes
        /\ \A p \in DOMAIN files : Padding \notin {files[p][at] : at \in 0..(Length - 1)}
        /\ ecu.session # "special" /\ ecu.next = <<>>
        /\ device.held => device.kind = "j2534"

\* haldex_flash.py:162, "Set before sending so an uncertain reply still causes
\* cleanup": whatever replies were lost or late, and wherever Ctrl-C struck, a run does
\* not leave the controller in the special session unless the request to stop did not
\* get through, or Ctrl-C kept leave from sending it.
SessionLeft ==
    stage \in {"ended", "broken"} /\ toEcu = <<>> /\ ~missed => ecu.session # "special"

\* The handle is given back, and no frame goes out, but for what the driver refused.
AdapterClosed ==
    /\ device.held => "handle" \in device.refused
    /\ device.able => device.refused # {}

\* However far open_adapter or the body of the run came before it failed or was
\* interrupted, and whatever of the cleanup raised, a run that comes to its end has
\* given the adapter's handle back, and no frame goes out any more, unless the driver
\* itself refused just that (runner.py:58-62, 103-110, 115-122, 277-281).  One that
\* Ctrl-C breaks off in its cleanup may leave the adapter as the body had it, since
\* 270-281 catch Exceptions only; but never one that open_adapter had to give up, nor
\* one whose close had begun.
AdapterReleased ==
    /\ stage = "ended" => AdapterClosed
    /\ stage = "broken" => AdapterClosed \/ Owned(device)

\* The run ends: behind its cleanup, or broken off in it.
RunEnds == <>(stage \in {"ended", "broken"})
================================================================================
