------------------------------ MODULE ReadoutInv ------------------------------
(***************************************************************************)
(* The inductive invariant behind the safety properties of Readout: what   *)
(* is under way at each exchange, how far the upload and the files have     *)
(* come, and what is still to be undone.  ReadoutProofs proves it.          *)
(***************************************************************************)
EXTENDS Readout

Positions == 0..(Length - 1)
Leaf == Leaving \union {"release", "close", "ended", "broken"}
Successes == {"captured_checksums_valid", "checksum_mismatch"}

Requests == [service : Exchanges, at : Positions, size : 1..Length]
Answers == [service : {Service[s] : s \in Exchanges}, ok : BOOLEAN, data : Seq(Int)]
Statuses == {"in_progress", "requires_attention", "unwritten"} \union Successes
Reports == [status : Statuses, ranges : BOOLEAN, errors : BOOLEAN]
Sessions == {"default", "extended", "special"}

LinkTypeOK ==
    /\ toEcu \in Seq(Requests) /\ line \in Seq(Answers)
    /\ ecu \in [session : Sessions, key : BOOLEAN, next : {<<>>} \union [at : Nat, left : Nat]]
    /\ data \in Seq(Int) /\ Len(data) <= Size
    /\ files \in Seq([Positions -> Int])
    /\ report \in Reports /\ (waiting => stage \in Exchanges)

\* The adapter: open while the run is on, and closed once, by whoever has it.
DeviceInv ==
    /\ device.done <= Len(SetUp[device.kind])
    /\ stage = "open" => device.held \/ ~device.able
    /\ stage \notin {"close", "ended", "broken"} => device.refused = {}
    /\ stage \notin {"open", "close", "ended", "broken"} => Owned(device)
    /\ stage = "close" =>
         \/ Owned(device) /\ device.refused = {}
         \/ ~Owned(device) /\ AdapterClosed

\* The special session, once asked for, is noted until the request to stop is sent; that
\* request is behind the one for the session.
Asking(service) == \E i \in DOMAIN toEcu : toEcu[i].service = service
Stopping ==
    \E i \in DOMAIN toEcu :
        /\ toEcu[i].service = "leaveStop"
        /\ \A j \in DOMAIN toEcu : toEcu[j].service = "special" => j < i
Undone ==
    \/ stage \in Entering \union Reading \union {"leaveExit"}
    \/ stage = "leaveStop" /\ ~waiting
SessionInv ==
    (ecu.session = "special" \/ Asking("special")) /\ ~missed =>
        Stopping \/ (special /\ Undone)

\* Nothing has gone wrong so far.
Sound ==
    \/ stage \in {"open"} \union Entering \union Reading
    \/ report.status \in Successes /\ ~report.errors

\* Then one exchange follows the other, and nothing is under way beside it.
LineInv ==
    Sound =>
        /\ ~waiting => toEcu = <<>> /\ line = <<>>
        /\ Len(toEcu) + Len(line) <= 1
        /\ \A i \in DOMAIN toEcu : toEcu[i] = [service |-> stage, at |-> offset, size |-> Size]
        /\ \A i \in DOMAIN line : line[i].service = Service[stage]

\* The controller's upload stands where the data do, or was broken off.
UploadAt(n) == ecu.next \in {<<>>, [at |-> offset + n, left |-> Size - n]}
Due == MinOf(MaxBlock, Size - Len(data))
UploadInv ==
    /\ stage = "upload" /\ line # <<>> /\ Accepted(line[1]) => UploadAt(0)
    /\ stage = "block" /\ (~waiting \/ toEcu # <<>>) => UploadAt(Len(data))
    /\ stage = "block" /\ line # <<>> /\ Accepted(line[1]) =>
         /\ UploadAt(Len(data) + Due)
         /\ \A i \in 1..Due : line[1].data[i] = offset + Len(data) + i - 1

DataInv ==
    /\ stage \in {"open"} \union Entering => files = <<>> /\ offset = 0
    /\ stage \in {"open", "upload"} \union Entering => data = <<>>
    /\ stage = "special" /\ waiting => special
    /\ stage \in Reading =>
         /\ special
         /\ \A i \in DOMAIN data : data[i] = offset + i - 1
    /\ stage = "block" => Len(data) < Size
    /\ stage = "exit" => Len(data) = Size

\* A pass has filled its file up to the window being read; the passes before, all of it.
Fresh == stage = "upload" /\ offset = 0 /\ ~waiting
FilesInv ==
    /\ FilesFaithful
    /\ stage \in Reading =>
         /\ Len(files) <= Passes
         /\ IF Fresh THEN Len(files) < Passes ELSE Len(files) > 0
         /\ \A p \in DOMAIN files : \A at \in Positions :
              p < Len(files) \/ at < offset \/ Fresh => files[p][at] # Padding

SuccessInv ==
    /\ stage \in {"open"} \union Entering \union Reading => report.status = "in_progress"
    /\ report.status \in Successes =>
         /\ stage \in Leaf \ {"leaveExit", "broken"}
         /\ Len(files) = Passes
         /\ \A p \in DOMAIN files : \A at \in Positions : files[p][at] # Padding
         /\ stage # "ended" => Owned(device)
         /\ stage = "leaveStop" => special
    /\ stage = "ended" /\ report.status \in Successes =>
         ~report.errors /\ (device.held => device.kind = "j2534")

\* Behind the answer to the request to stop, the controller is in no session of the run's.
CleanInv ==
    report.status \in Successes /\ ~report.errors =>
        /\ stage = "leaveStop" /\ line # <<>> /\ line[1].ok => ecu = Ecu0
        /\ stage \in {"leaveExtend", "release", "close", "ended"} =>
             ecu.session # "special" /\ ecu.next = <<>>

IInv ==
    /\ TypeOK /\ LinkTypeOK /\ DeviceInv /\ AdapterReleased /\ SessionInv
    /\ LineInv /\ UploadInv /\ DataInv /\ FilesInv /\ SuccessInv /\ CleanInv
================================================================================
