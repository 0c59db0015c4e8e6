---------------------------- MODULE ReadoutProofs ----------------------------
(***************************************************************************)
(* Proofs about Readout, for every length of the range, of the windows and *)
(* of the blocks.  IInv of ReadoutInv holds initially and is preserved, one *)
(* lemma per conjunct: the types, the adapter, the special session, the    *)
(* link, the upload, the data and the files, and what a success rests on.  *)
(***************************************************************************)
EXTENDS ReadoutInv, SequenceLemmas

--------------------------------------------------------------------------------
(***************************************************************************)
(* Sizes.                                                                  *)
(***************************************************************************)

\* The smaller of two numbers is one of them, and below both.
LEMMA MinOfFacts ==
    ASSUME NEW a \in Int, NEW b \in Int
    PROVE  MinOf(a, b) \in {a, b} /\ MinOf(a, b) <= a /\ MinOf(a, b) <= b /\ MinOf(a, b) \in Int
  BY DEF MinOf

\* The constants, each with its type.
LEMMA Constants ==
    /\ Length \in Nat \ {0} /\ Window \in Nat \ {0} /\ MaxBlock \in Nat \ {0}
    /\ Passes \in {1, 2}
  BY ReadoutAssumption

\* What is due of a window is not empty, and does not go beyond it.
LEMMA DueFits ==
    \A m \in Nat \ {0}, n, size \in Nat :
        n < size => MinOf(m, size - n) \in Nat \ {0} /\ n + MinOf(m, size - n) <= size
  BY DEF MinOf

\* A window is not empty, and lies in the range.
LEMMA SizeType ==
    ASSUME offset \in Positions
    PROVE  Size \in 1..Length /\ Size <= Length - offset /\ Size <= Window
<1>1. Length \in Nat /\ Window \in Nat \ {0} /\ Length - offset \in 1..Length
  BY ReadoutAssumption DEF Positions
<1>2. Size \in {Window, Length - offset} /\ Size <= Window /\ Size <= Length - offset
  BY <1>1 DEF Size, MinOf
<1> QED BY <1>1, <1>2

\* The variables that the types do not let out of sight of the prover.
LEMMA Types ==
    ASSUME TypeOK, LinkTypeOK
    PROVE  /\ offset \in Positions /\ Size \in 1..Length /\ Len(data) \in 0..Size
           /\ Len(files) \in 0..Passes /\ DOMAIN files = 1..Len(files)
           /\ toEcu \in Seq(Requests) /\ line \in Seq(Answers) /\ data \in Seq(Int)
           /\ Len(toEcu) \in Nat /\ DOMAIN toEcu = 1..Len(toEcu)
           /\ Len(line) \in Nat /\ DOMAIN line = 1..Len(line)
           /\ DOMAIN data = 1..Len(data)
           /\ (toEcu = <<>> <=> Len(toEcu) = 0) /\ (line = <<>> <=> Len(line) = 0)
           /\ Passes \in {1, 2} /\ MaxBlock \in Nat \ {0} /\ Window \in Nat \ {0} /\ Length \in Nat \ {0}
           /\ report \in Reports
<1>1. offset \in Positions
  BY DEF TypeOK, Positions
<1>2. Size \in 1..Length
  BY <1>1, SizeType
<1>3. /\ Passes \in {1, 2} /\ MaxBlock \in Nat \ {0} /\ Window \in Nat \ {0} /\ Length \in Nat \ {0}
  BY ReadoutAssumption
<1>4. Len(data) \in 0..Size /\ DOMAIN data = 1..Len(data) /\ data \in Seq(Int)
  BY <1>2, <1>3, LenProperties DEF LinkTypeOK
<1>5. Len(files) \in 0..Passes /\ DOMAIN files = 1..Len(files)
  <2>1. files \in Seq([Positions -> Int]) /\ Len(files) <= Passes
    BY DEF LinkTypeOK, TypeOK
  <2> QED BY <1>3, <2>1, LenProperties
<1>6. /\ toEcu \in Seq(Requests) /\ Len(toEcu) \in Nat /\ DOMAIN toEcu = 1..Len(toEcu)
      /\ (toEcu = <<>> <=> Len(toEcu) = 0)
  BY LenProperties, EmptySeq DEF LinkTypeOK
<1>7. /\ line \in Seq(Answers) /\ Len(line) \in Nat /\ DOMAIN line = 1..Len(line)
      /\ (line = <<>> <=> Len(line) = 0)
  BY LenProperties, EmptySeq DEF LinkTypeOK
<1> QED BY <1>1, <1>2, <1>3, <1>4, <1>5, <1>6, <1>7 DEF LinkTypeOK

\* The request at the head, and its service.
LEMMA HeadRequest ==
    ASSUME TypeOK, LinkTypeOK, toEcu # <<>>
    PROVE  /\ Head(toEcu) = toEcu[1] /\ 1 \in DOMAIN toEcu /\ Head(toEcu) \in Requests
           /\ Asked \in Exchanges /\ Asked = toEcu[1].service
<1>1. Head(toEcu) = toEcu[1] /\ 1 \in DOMAIN toEcu /\ Head(toEcu) \in Requests
  BY TailFacts DEF LinkTypeOK
<1> QED BY <1>1 DEF Asked, Requests

--------------------------------------------------------------------------------
(***************************************************************************)
(* What the controller and the exchanges leave to the types.               *)
(***************************************************************************)

\* What the controller answers, and where its upload stands behind the request.
LEMMA Serving ==
    ASSUME TypeOK, LinkTypeOK, toEcu # <<>>, Served
    PROVE  /\ Answer(Head(toEcu)) \in Seq(Int)
           /\ Behind(Head(toEcu)) \in
                [session : Sessions, key : BOOLEAN, next : {<<>>} \union [at : Nat, left : Nat]]
<1>1. /\ Head(toEcu).size \in Nat /\ Head(toEcu).at \in Nat /\ Asked \in Exchanges
      /\ MaxBlock \in Nat
  BY HeadRequest, Types DEF Requests, Positions
<1>2. ASSUME Asked \in {"block", "exit", "leaveExit"} PROVE ecu.next \in [at : Nat, left : Nat]
  BY <1>2 DEF Served, LinkTypeOK
<1>3. Answer(Head(toEcu)) \in Seq(Int)
  <2>1. CASE Asked = "upload"
    <3>1. MinOf(MaxBlock, Head(toEcu).size) \in Int
      BY <1>1 DEF MinOf
    <3> QED BY <2>1, <3>1 DEF Answer
  <2>2. CASE Asked = "block"
    <3>1. Block \in Nat /\ ecu.next.at \in Nat
      BY <1>1, <1>2, <2>2 DEF Block, MinOf
    <3>2. /\ [i \in 1..Block |-> ecu.next.at + i - 1] \in Seq(Int)
          /\ [i \in 1..MaxBlock |-> Foreign] \in Seq(Int)
      BY <1>1, <3>1 DEF Foreign
    <3> QED BY <2>2, <3>2 DEF Answer, NextBlock
  <2>3. CASE Asked \notin {"upload", "block"}
    BY <2>3 DEF Answer
  <2> QED BY <2>1, <2>2, <2>3
<1>4. Behind(Head(toEcu)) \in
        [session : Sessions, key : BOOLEAN, next : {<<>>} \union [at : Nat, left : Nat]]
  <2>1. ecu \in [session : Sessions, key : BOOLEAN, next : {<<>>} \union [at : Nat, left : Nat]]
    BY DEF LinkTypeOK
  <2>2. CASE Asked = "block"
    <3>1. [at |-> ecu.next.at + Block, left |-> ecu.next.left - Block] \in [at : Nat, left : Nat]
      BY <1>1, <1>2, <2>2 DEF Block, MinOf
    <3>2. Behind(Head(toEcu)) =
            [ecu EXCEPT !.next = [at |-> ecu.next.at + Block, left |-> ecu.next.left - Block]]
      BY <2>1, <2>2 DEF Behind
    <3> QED BY <2>1, <3>1, <3>2
  <2>3. CASE Asked = "upload"
    BY <1>1, <2>1, <2>3 DEF Behind
  <2>4. CASE Asked \notin {"upload", "block"}
    BY <1>1, <2>1, <2>4 DEF Behind, Ecu0, Sessions, Exchanges, Entering, Reading, Leaving
  <2> QED BY <2>2, <2>3, <2>4
<1> QED BY <1>3, <1>4

\* Each exchange has a service, and an answer to it is an answer.
LEMMA ReplyType ==
    ASSUME NEW s \in Exchanges, NEW ok \in BOOLEAN, NEW bytes \in Seq(Int)
    PROVE  [service |-> Service[s], ok |-> ok, data |-> bytes] \in Answers
  BY DEF Answers

\* Serve, ServeShort and Decline in one: the request at the head is answered.
Replied(ok, bytes) ==
    /\ toEcu # <<>> /\ toEcu' = Tail(toEcu)
    /\ line' = Append(line, [service |-> Service[Asked], ok |-> ok, data |-> bytes])
    /\ UNCHANGED reader

\* An answer that is sent, in full or short of its first byte.
LEMMA ServeReplies ==
    ASSUME TypeOK, LinkTypeOK, Serve \/ ServeShort
    PROVE  /\ Served /\ ecu' = Behind(Head(toEcu)) /\ missed' = missed
           /\ \E bytes \in Seq(Int) :
                /\ Replied(TRUE, bytes)
                /\ bytes = Answer(Head(toEcu)) \/ Len(bytes) = Len(Answer(Head(toEcu))) - 1
<1>1. toEcu # <<>> /\ Served /\ ecu' = Behind(Head(toEcu)) /\ missed' = missed
  BY DEF Serve, ServeShort
<1>2. Answer(Head(toEcu)) \in Seq(Int)
  BY <1>1, Serving
<1>3. CASE Serve
  BY <1>1, <1>2, <1>3 DEF Serve, Reply, Replied
<1>4. CASE ServeShort
  <2>1. Tail(Answer(Head(toEcu))) \in Seq(Int)
        /\ Len(Tail(Answer(Head(toEcu)))) = Len(Answer(Head(toEcu))) - 1
    BY <1>2, <1>4, TailFacts DEF ServeShort
  <2> QED BY <1>1, <1>4, <2>1 DEF ServeShort, Reply, Replied
<1> QED BY <1>1, <1>3, <1>4

\* The next state of the stage, by what leave finds.
LEMMA LeaveStages == \A up, in \in BOOLEAN :
    /\ FirstToLeave(up, in) \in {"leaveExit", "leaveStop", "release"}
    /\ FirstToLeave(up, in) = "leaveStop" => in
    /\ ~up => FirstToLeave(up, in) # "leaveExit"
    /\ ~in => FirstToLeave(FALSE, in) = "release"
    /\ FirstToLeave(up, in) \in Leaf
  BY DEF FirstToLeave, Leaf, Leaving

\* The failure of an exchange.
LEMMA FailedStep ==
    ASSUME TypeOK, Failed, stage \in Exchanges
    PROVE  /\ waiting' = FALSE /\ UNCHANGED <<special, upload, offset, data, files>>
           /\ stage' \in Leaf \ {"leaveExtend", "close", "ended", "broken"}
           /\ stage' = "leaveExit" => upload
           /\ stage' = "leaveStop" => special
           /\ report' = IF stage \in Leaving THEN [report EXCEPT !.errors = TRUE]
                                             ELSE [report EXCEPT !.status = "requires_attention"]
<1>1. special \in BOOLEAN /\ upload \in BOOLEAN
  BY DEF TypeOK
<1> QED BY <1>1 DEF Failed, Leave, FirstToLeave, Leaf, Leaving

\* Ctrl-C in the cleanup ends the run where it stands, without a report.
LEMMA BrokenOff ==
    ASSUME LinkTypeOK, CleanupInterrupted
    PROVE  /\ stage \in Leaf /\ stage' = "broken" /\ waiting' = FALSE
           /\ report' \in Reports /\ report'.status = "unwritten"
           /\ UNCHANGED <<special, upload, offset, data, files, toEcu, line, ecu>>
<1>1. report \in Reports
  BY DEF LinkTypeOK
<1> QED BY <1>1 DEF CleanupInterrupted, Leaf, Reports, Statuses

--------------------------------------------------------------------------------
(***************************************************************************)
(* The types.                                                              *)
(***************************************************************************)

\* The link and the controller, whatever the environment does.
LEMMA EnvironmentTypes ==
    ASSUME TypeOK, LinkTypeOK, Environment
    PROVE  TypeOK' /\ LinkTypeOK'
<1>1. /\ UNCHANGED reader /\ missed' \in BOOLEAN
      /\ toEcu' \in Seq(Requests) /\ line' \in Seq(Answers)
      /\ ecu' \in [session : Sessions, key : BOOLEAN, next : {<<>>} \union [at : Nat, left : Nat]]
  <2>0. missed \in BOOLEAN
    BY DEF TypeOK
  <2>1. ASSUME NEW ok \in BOOLEAN, NEW bytes \in Seq(Int), Replied(ok, bytes)
        PROVE  toEcu' \in Seq(Requests) /\ line' \in Seq(Answers)
    <3>1. toEcu' \in Seq(Requests)
      BY <2>1, TailFacts DEF Replied, LinkTypeOK
    <3>2. [service |-> Service[Asked], ok |-> ok, data |-> bytes] \in Answers
      BY <2>1, HeadRequest, ReplyType DEF Replied
    <3> QED BY <2>1, <3>1, <3>2, AppendFacts DEF Replied, LinkTypeOK
  <2>2. CASE Serve \/ ServeShort
    <3>1. toEcu # <<>>
      BY <2>2 DEF Serve, ServeShort
    <3> QED BY <2>0, <2>1, <2>2, <3>1, ServeReplies, Serving DEF Replied
  <2>3. CASE Decline
    <3>1. Replied(FALSE, <<>>) /\ <<>> \in Seq(Int) /\ missed' \in BOOLEAN /\ ecu' = ecu
      BY <2>0, <2>3 DEF Decline, Reply, Replied
    <3> QED BY <2>1, <3>1 DEF Replied, LinkTypeOK
  <2>4. CASE LoseRequest
    BY <2>0, <2>4, TailFacts DEF LoseRequest, LinkTypeOK
  <2>5. CASE LoseAnswer
    BY <2>0, <2>5, TailFacts DEF LoseAnswer, LinkTypeOK
  <2>6. CASE PowerCycle
    BY <2>0, <2>6 DEF PowerCycle, LinkTypeOK, Ecu0, Sessions
  <2> QED BY <2>2, <2>3, <2>4, <2>5, <2>6 DEF Environment
<1>2. Size' = Size /\ ecu'.session \in Sessions /\ ecu'.key \in BOOLEAN
  BY <1>1 DEF Size, reader
<1> QED BY <1>1, <1>2 DEF TypeOK, LinkTypeOK, reader, Sessions

\* The setups, call by call.
LEMMA SetUps ==
    ASSUME NEW d \in Adapter
    PROVE  /\ Len(SetUp[d.kind]) \in {1, 3, 4} /\ d.done \in 0..4
           /\ d.held \in BOOLEAN /\ d.able \in BOOLEAN
<1>1. /\ d.kind \in {"j2534", "panda", "socketcan"} /\ d.done \in 0..4
      /\ d.held \in BOOLEAN /\ d.able \in BOOLEAN
  BY DEF Adapter, Kinds, SetUp
<1>2. /\ SetUp["j2534"] = <<"PassThruOpen", "PassThruConnect", "PassThruStartMsgFilter">>
      /\ SetUp["panda"] = <<"Panda", "set_can_speed_kbps", "can_clear", "set_safety_mode">>
      /\ SetUp["socketcan"] = <<"Bus">>
  BY DEF SetUp
<1>3. Len(SetUp["j2534"]) = 3 /\ Len(SetUp["panda"]) = 4 /\ Len(SetUp["socketcan"]) = 1
  BY <1>2
<1> QED BY <1>1, <1>3

\* A record keeps its type with its fields.
LEMMA AdapterFields ==
    ASSUME NEW K, NEW D, NEW H, NEW A, NEW R,
           NEW d \in [kind : K, done : D, held : H, able : A, refused : R],
           NEW x \in D, NEW h \in H, NEW a \in A, NEW r \in R
    PROVE  [d EXCEPT !.done = x, !.refused = r, !.held = h, !.able = a]
             \in [kind : K, done : D, held : H, able : A, refused : R]
  OBVIOUS

\* What the driver does to an adapter leaves an adapter.
LEMMA DriverTypes ==
    ASSUME NEW d \in Adapter, NEW refused \in Refusals(d), d.done <= Len(SetUp[d.kind])
    PROVE  /\ Closed(d, refused) \in Adapter /\ Abandoned(d, refused) \in Adapter
           /\ ~Owned(d) => Advanced(d) \in Adapter
<1>2. refused \in SUBSET {"mode", "handle"}
  BY DEF Refusals
<1>3. Closed(d, refused) \in Adapter
  <2>1. /\ (d.held /\ "handle" \in refused) \in BOOLEAN
        /\ (d.able /\ (IF d.kind = "panda" THEN "mode" ELSE "handle") \in refused) \in BOOLEAN
    OBVIOUS
  <2>2. [d EXCEPT !.done = 0, !.refused = refused,
                  !.held = d.held /\ "handle" \in refused,
                  !.able = d.able /\ (IF d.kind = "panda" THEN "mode" ELSE "handle") \in refused]
          \in [kind : Kinds, done : 0..4, held : BOOLEAN, able : BOOLEAN,
               refused : SUBSET {"mode", "handle"}]
    <3>1. d \in [kind : Kinds, done : 0..4, held : BOOLEAN, able : BOOLEAN,
                 refused : SUBSET {"mode", "handle"}] /\ 0 \in 0..4
      BY DEF Adapter
    <3> QED BY <1>2, <2>1, <3>1, AdapterFields, Zenon
  <2> QED BY <2>2, Zenon DEF Closed, Adapter
<1>4. ~Owned(d) => d.done + 1 \in 0..4
  <2> DEFINE calls == Len(SetUp[d.kind])
  <2>1. calls \in {1, 3, 4} /\ d.done \in 0..4 /\ d.done <= calls
    BY SetUps
  <2> HIDE DEF calls
  <2>2. d.done # calls => d.done + 1 \in 0..4
    BY <2>1
  <2> QED BY <2>2 DEF Owned, calls
<1>5. (d.able \/ SetUp[d.kind][d.done + 1] \in Enabling) \in BOOLEAN
  OBVIOUS
<1> QED BY <1>3, <1>4, <1>5 DEF Abandoned, Advanced, Adapter

\* What read_window's return does: the window is in the file of the pass, the files of
\* the earlier passes stay, and the run goes on, or leaves with its verdict.
LEMMA WindowSaved ==
    ASSUME TypeOK, LinkTypeOK, SaveWindow, Len(files) > 0
    PROVE  /\ stage = "exit" /\ upload' = FALSE /\ data' = <<>> /\ special' = special
           /\ offset' = IF LastWindow THEN 0 ELSE offset + Window
           /\ files' \in Seq([Positions -> Int]) /\ Len(files') = Len(files)
           /\ \A p \in DOMAIN files : p # Len(files) => files'[p] = files[p]
           /\ files'[Len(files)] = Saved(files[Len(files)])
           /\ Saved(files[Len(files)]) \in [Positions -> Int]
           /\ IF LastWindow /\ Len(files) = Passes
                THEN /\ stage' = FirstToLeave(FALSE, special)
                     /\ \E status \in Verdicts, ranges \in BOOLEAN :
                          report' = [report EXCEPT !.status = status, !.ranges = ranges]
                ELSE stage' = "upload" /\ report' = report
<1> DEFINE saved == [files EXCEPT ![Len(files)] = Saved(@)]
           complete == LastWindow /\ Len(files) = Passes
           differ == complete /\ Passes = 2 /\ saved[1] # saved[2]
<1>1. /\ stage = "exit" /\ upload' = FALSE /\ data' = <<>> /\ files' = saved /\ special' = special
      /\ offset' = IF LastWindow THEN 0 ELSE offset + Window
      /\ \/ ~complete /\ stage' = "upload" /\ UNCHANGED report
         \/ /\ complete /\ stage' = FirstToLeave(FALSE, special)
            /\ \E status \in IF differ THEN {"requires_attention", "in_progress"} ELSE Verdicts :
                 report' = [report EXCEPT !.status = status, !.ranges = ~differ]
  BY Zenon DEF SaveWindow
<1>2. files \in Seq([Positions -> Int]) /\ Len(files) \in 1..Len(files) /\ DOMAIN files = 1..Len(files)
  BY Types DEF LinkTypeOK
<1>3. Saved(files[Len(files)]) \in [Positions -> Int]
  <2>1. files[Len(files)] \in [Positions -> Int]
    BY <1>2
  <2>2. \A i \in DOMAIN data : data[i] \in Int
    BY Types
  <2> QED BY <2>1, <2>2 DEF Saved
<1>4. /\ files' \in Seq([Positions -> Int]) /\ Len(files') = Len(files)
      /\ \A p \in DOMAIN files : p # Len(files) => files'[p] = files[p]
      /\ files'[Len(files)] = Saved(files[Len(files)])
  <2> DEFINE File == [Positions -> Int]
             window == Saved(files[Len(files)])
  <2>1. files \in Seq(File) /\ Len(files) \in 1..Len(files) /\ window \in File
    BY <1>2, <1>3
  <2> HIDE DEF File, window
  <2>2. /\ [files EXCEPT ![Len(files)] = window] \in Seq(File)
        /\ Len([files EXCEPT ![Len(files)] = window]) = Len(files)
        /\ \A p \in 1..Len(files) :
             [files EXCEPT ![Len(files)] = window][p] = IF p = Len(files) THEN window ELSE files[p]
    BY <2>1, ExceptSeq
  <2>3. files' = [files EXCEPT ![Len(files)] = window]
    BY <1>1 DEF window
  <2>4. files' \in Seq(File) /\ Len(files') = Len(files) /\ files'[Len(files)] = window
        /\ \A p \in DOMAIN files : p # Len(files) => files'[p] = files[p]
    BY <1>2, <2>1, <2>2, <2>3
  <2> QED BY <2>4 DEF File, window
<1>5. ASSUME complete
      PROVE  /\ stage' = FirstToLeave(FALSE, special)
             /\ \E status \in Verdicts, ranges \in BOOLEAN :
                  report' = [report EXCEPT !.status = status, !.ranges = ranges]
  <2> HIDE DEF differ
  <2>1. PICK status \in IF differ THEN {"requires_attention", "in_progress"} ELSE Verdicts :
          report' = [report EXCEPT !.status = status, !.ranges = ~differ]
    BY <1>1, <1>5
  <2>2. status \in Verdicts /\ (~differ) \in BOOLEAN
    BY <2>1 DEF Verdicts
  <2> QED BY <1>1, <1>5, <2>1, <2>2, Zenon
<1> QED BY <1>1, <1>3, <1>4, <1>5

\* A report by its fields, and with other ones.
LEMMA ReportTypes == \A r \in Reports :
    /\ r.status \in {"in_progress", "requires_attention", "unwritten",
                     "captured_checksums_valid", "checksum_mismatch"}
    /\ r.ranges \in BOOLEAN /\ r.errors \in BOOLEAN
  BY DEF Reports, Statuses, Successes

LEMMA ReportFields ==
    ASSUME NEW r \in Reports, NEW errors \in BOOLEAN
    PROVE  /\ [r EXCEPT !.errors = errors] \in Reports
           /\ [r EXCEPT !.errors = errors].status = r.status
           /\ [r EXCEPT !.errors = errors].errors = errors
  BY DEF Reports

LEMMA ReportEnds ==
    ASSUME NEW r \in Reports, NEW errors \in BOOLEAN, NEW status \in Statuses
    PROVE  /\ [r EXCEPT !.errors = errors, !.status = status] \in Reports
           /\ [r EXCEPT !.errors = errors, !.status = status].status = status
           /\ [r EXCEPT !.errors = errors, !.status = status].errors = errors
  BY DEF Reports

\* The run goes on within its types: a block is no longer than what is due, and a file
\* is added only where a pass begins.
LEMMA RunTypes ==
    ASSUME TypeOK, LinkTypeOK, DeviceInv, FilesInv, DataInv, SuccessInv, Run
    PROVE  TypeOK' /\ LinkTypeOK'
<1>0. /\ offset \in Positions /\ Size \in 1..Length /\ Len(data) \in 0..Size /\ data \in Seq(Int)
      /\ files \in Seq([Positions -> Int]) /\ Len(files) \in 0..Passes
      /\ toEcu \in Seq(Requests) /\ line \in Seq(Answers) /\ device \in Adapter
      /\ report \in Reports
  BY Types DEF TypeOK, LinkTypeOK
<1>1. ASSUME UNCHANGED <<offset, data>> PROVE Size' = Size
  BY <1>1 DEF Size
<1>2. CASE OpenCall
  <2>1. {} \in Refusals(device) /\ device.done <= Len(SetUp[device.kind])
    BY DEF Refusals, DeviceInv
  <2>2. device' \in Adapter
    BY <1>0, <1>2, <2>1, DriverTypes DEF OpenCall
  <2> QED BY <1>1, <1>2, <2>2 DEF OpenCall, TypeOK, LinkTypeOK
<1>3. CASE OpenFails
  <2>1. device.done <= Len(SetUp[device.kind])
    BY DEF DeviceInv
  <2>2. device' \in Adapter
    BY <1>0, <1>3, <2>1, DriverTypes DEF OpenFails
  <2>3. report' \in Reports
    BY <1>0, <1>3 DEF OpenFails, Reports, Statuses
  <2> QED BY <1>1, <1>3, <2>2, <2>3, ReportTypes DEF OpenFails, TypeOK, LinkTypeOK, Exchanges, Entering, Reading, Leaving
<1>4. CASE Open
  <2>1. report' \in Reports
    BY <1>0, <1>4 DEF Open, Reports, Statuses
  <2> QED BY <1>1, <1>4, <2>1, ReportTypes DEF Open, TypeOK, LinkTypeOK, Exchanges, Entering, Reading, Leaving
<1>5. CASE Ask
  <2>1. [service |-> stage, at |-> offset, size |-> Size] \in Requests /\ stage \in Exchanges
    BY <1>0, <1>5 DEF Ask, Requests
  <2>2. toEcu' \in Seq(Requests)
    BY <1>0, <1>5, <2>1 DEF Ask
  <2>3. files' \in Seq([Positions -> Int]) /\ Len(files') <= Passes
    <3>1. CASE stage = "upload" /\ offset = 0
      <4>1. EmptyFile \in [Positions -> Int]
        BY DEF EmptyFile, Positions, Padding
      <4>2. Len(files) < Passes
        BY <1>5, <3>1 DEF Ask, FilesInv, Fresh, Reading
      <4>3. files' = Append(files, EmptyFile)
        BY <1>5, <3>1 DEF Ask
      <4>4. files' \in Seq([Positions -> Int]) /\ Len(files') = Len(files) + 1
        BY <1>0, <4>1, <4>3, AppendFacts
      <4> QED BY <1>0, <4>2, <4>4, ReadoutAssumption
    <3>2. CASE ~(stage = "upload" /\ offset = 0)
      BY <1>5, <3>2 DEF Ask, LinkTypeOK, TypeOK
    <3> QED BY <3>1, <3>2
  <2>4. special' \in BOOLEAN /\ upload' \in BOOLEAN
    BY <1>5 DEF Ask, NotedSpecial, NotedUpload, TypeOK
  <2> QED BY <1>1, <1>5, <2>1, <2>2, <2>3, <2>4 DEF Ask, TypeOK, LinkTypeOK
<1>6. ASSUME Failed, stage \in Exchanges, line' \in Seq(Answers),
             UNCHANGED <<device, toEcu, ecu, missed>>
      PROVE  TypeOK' /\ LinkTypeOK'
  <2>1. report' \in Reports
    BY <1>0, <1>6, FailedStep DEF Reports, Statuses
  <2> QED BY <1>1, <1>6, <2>1, FailedStep, ReportTypes DEF TypeOK, LinkTypeOK, Leaf, Exchanges
<1>7. CASE TransportFails
  BY <1>0, <1>6, <1>7 DEF TransportFails, LinkTypeOK
<1>8. CASE Interrupted
  <2>1. stage' \in {"leaveExit", "leaveStop", "release"} /\ waiting' = FALSE
    BY <1>8, LeaveStages DEF Interrupted, Leave, TypeOK
  <2>2. report' \in Reports
    BY <1>0, <1>8 DEF Interrupted, Leave, Reports, Statuses
  <2> QED BY <1>1, <1>8, <2>1, <2>2, ReportTypes DEF Interrupted, Leave, TypeOK, LinkTypeOK, Exchanges, Leaving
<1>9. CASE Take
  <2>1. line' \in Seq(Answers) /\ Head(line) \in Answers /\ stage \in Exchanges
        /\ UNCHANGED <<device, toEcu, ecu, missed>>
    BY <1>0, <1>9, TailFacts DEF Take, LinkTypeOK
  <2>2. CASE ~Accepted(Head(line)) /\ Failed
    BY <1>6, <2>1, <2>2
  <2>3. ASSUME waiting' = FALSE, Entered \/ BeginBlocks PROVE TypeOK' /\ LinkTypeOK'
    <3>1. stage' \in Exchanges
      BY <2>3 DEF Entered, BeginBlocks, Entering, Reading, Exchanges
    <3> QED BY <1>1, <2>1, <2>3, <3>1 DEF Entered, BeginBlocks, TypeOK, LinkTypeOK
  <2>4. ASSUME waiting' = FALSE, Accepted(Head(line)), TakeBlock(Head(line)) PROVE TypeOK' /\ LinkTypeOK'
    <3>1. Size' = Size
      BY <2>4 DEF TakeBlock, Size
    <3>2. /\ Head(line).data \in Seq(Int) /\ Len(Head(line).data) = MinOf(MaxBlock, Size - Len(data))
          /\ MaxBlock \in Nat \ {0}
      BY <2>1, <2>4, Types DEF Accepted, TakeBlock, Answers
    <3>3. data' \in Seq(Int) /\ Len(data') = Len(data) + Len(Head(line).data)
      BY <1>0, <2>4, <3>2 DEF TakeBlock
    <3>4. Len(data') <= Size /\ Len(data') < Size + MaxBlock
      BY SMTT(30), <1>0, <3>2, <3>3 DEF MinOf
    <3> QED BY <2>1, <2>4, <3>1, <3>3, <3>4 DEF TakeBlock, TypeOK, LinkTypeOK, Exchanges, Reading
  <2>5. ASSUME waiting' = FALSE, SaveWindow PROVE TypeOK' /\ LinkTypeOK'
    <3>0. ~Fresh /\ stage \in Reading
      BY <2>5 DEF SaveWindow, Fresh, Reading
    <3>1. Len(files) > 0
      BY <3>0 DEF FilesInv
    <3>2. offset' \in Positions
      <4>1. offset' = IF offset + Window >= Length THEN 0 ELSE offset + Window
        BY <2>5, <3>1, WindowSaved DEF LastWindow
      <4> QED BY <1>0, <4>1, ReadoutAssumption DEF Positions
    <3>3. Size' \in 1..Length /\ MaxBlock \in Nat \ {0}
      <4>1. Length - offset' \in 1..Length /\ Window \in Nat \ {0} /\ MaxBlock \in Nat \ {0}
        BY <3>2, ReadoutAssumption DEF Positions
      <4> QED BY <4>1, ReadoutAssumption DEF Size, MinOf
    <3>4. data' = <<>> /\ Len(data') <= Size' /\ Len(data') < Size' + MaxBlock /\ data' \in Seq(Int)
      <4>1. data' = <<>>
        BY <2>5, <3>1, WindowSaved
      <4>2. Len(data') = 0 /\ data' \in Seq(Int)
        BY <4>1
      <4>3. Length \in Nat /\ Size' \in 1..Length /\ MaxBlock \in Nat
        BY <3>3, Constants
      <4> DEFINE n == Size'
                 len == Len(data')
      <4>4. Length \in Nat /\ n \in 1..Length /\ MaxBlock \in Nat /\ len = 0
        BY <4>2, <4>3
      <4> HIDE DEF n, len
      <4>5. len <= n /\ len < n + MaxBlock
        BY <4>4
      <4> QED BY <4>1, <4>2, <4>5 DEF n, len
    <3>5. report' \in Reports /\ stage' \in {"upload"} \union Leaf
      <4>1. CASE stage' = "upload" /\ report' = report
        BY <1>0, <4>1
      <4>2. CASE stage' = FirstToLeave(FALSE, special) /\ \E status \in Verdicts, ranges \in BOOLEAN :
                 report' = [report EXCEPT !.status = status, !.ranges = ranges]
        <5>1. stage' \in Leaf
          BY <4>2, LeaveStages DEF TypeOK
        <5>2. PICK status \in Verdicts, ranges \in BOOLEAN :
                report' = [report EXCEPT !.status = status, !.ranges = ranges]
          BY <4>2
        <5> QED BY <1>0, <5>1, <5>2 DEF Verdicts, Successes, Statuses, Reports
      <4> QED BY <2>5, <3>1, <4>1, <4>2, WindowSaved
    <3>6. files' \in Seq([Positions -> Int]) /\ Len(files') <= Passes /\ upload' = FALSE /\ special' = special
      <4>1. Len(files') = Len(files) /\ files' \in Seq([Positions -> Int])
            /\ upload' = FALSE /\ special' = special
        BY <2>5, <3>1, WindowSaved
      <4> QED BY <1>0, <4>1
    <3> QED BY <2>1, <2>5, <3>2, <3>3, <3>4, <3>5, <3>6, ReportTypes
         DEF TypeOK, LinkTypeOK, Exchanges, Reading, Leaf, Positions
  <2>6. ASSUME waiting' = FALSE, LeaveStep PROVE TypeOK' /\ LinkTypeOK'
    <3>1. stage' \in Exchanges \union {"release"} /\ upload' \in BOOLEAN /\ special' \in BOOLEAN
      BY <2>6, LeaveStages DEF LeaveStep, Leaving, Exchanges, TypeOK
    <3>2. UNCHANGED <<offset, data, files, report>>
      BY <2>6 DEF LeaveStep
    <3>3. Size' = Size
      BY <1>1, <3>2
    <3>4. TypeOK'
      BY <2>1, <2>6, <3>1, <3>2, <3>3 DEF TypeOK
    <3>5. LinkTypeOK'
      BY <2>1, <2>6, <3>2, <3>3 DEF LinkTypeOK
    <3> QED BY <3>4, <3>5
  <2> QED BY <1>9, <2>2, <2>3, <2>4, <2>5, <2>6 DEF Take
<1>10. CASE Disconnect
  <2>1. report' \in Reports
    <3>1. PICK fails \in BOOLEAN : report' = [report EXCEPT !.errors = report.errors \/ fails]
      BY <1>10 DEF Disconnect
    <3>2. (report.errors \/ fails) \in BOOLEAN
      BY Zenon
    <3>3. [report EXCEPT !.errors = report.errors \/ fails] \in Reports
      BY <1>0, <3>2, ReportFields, Zenon
    <3> QED BY <3>1, <3>3
  <2> QED BY <1>1, <1>10, <2>1, ReportTypes DEF Disconnect, TypeOK, LinkTypeOK, Exchanges, Entering, Reading, Leaving
<1>11. CASE Release
  <2>1. device' \in Adapter
    <3>1. device.done <= Len(SetUp[device.kind])
      BY DEF DeviceInv
    <3> QED BY <1>0, <1>11, <3>1, DriverTypes DEF Release
  <2>2. report' \in Reports
    <3>1. PICK errors : report' = [report EXCEPT !.errors = errors, !.status = StatusAfter(errors)]
                        /\ errors \in BOOLEAN
      <4>1. \A refused : (report.errors \/ (Owned(device) /\ CloseRaises(device, refused))) \in BOOLEAN
        OBVIOUS
      <4> QED BY <1>11, <4>1 DEF Release
    <3>2. StatusAfter(errors) \in Statuses
      BY <1>0 DEF StatusAfter, Statuses, Reports
    <3> QED BY <1>0, <3>1, <3>2, ReportEnds
  <2>3. /\ stage = "close" /\ stage' = "ended"
        /\ UNCHANGED <<waiting, special, upload, offset, data, files, toEcu, line, ecu, missed>>
    BY <1>11 DEF Release
  <2> QED BY <1>1, <1>11, <2>1, <2>2, <2>3, ReportTypes DEF TypeOK, LinkTypeOK, Exchanges, Entering, Reading, Leaving
<1>12. CASE CleanupInterrupted
  <2>1. device.done <= Len(SetUp[device.kind])
    BY DEF DeviceInv
  <2>2. device' \in Adapter
    BY <1>0, <1>12, <2>1, DriverTypes DEF CleanupInterrupted
  <2>3. missed' \in BOOLEAN
    BY <1>12 DEF CleanupInterrupted, TypeOK
  <2> QED BY <1>1, <1>12, <2>2, <2>3, BrokenOff, ReportTypes DEF TypeOK, LinkTypeOK
<1> QED BY <1>2, <1>3, <1>4, <1>5, <1>7, <1>8, <1>9, <1>10, <1>11, <1>12 DEF Run, Thread, CtrlC

--------------------------------------------------------------------------------
(***************************************************************************)
(* The adapter.                                                            *)
(***************************************************************************)

\* Behind close the adapter is nobody's, and the driver holds what it refused.
LEMMA CloseGives ==
    ASSUME NEW d \in Adapter, NEW refused \in Refusals(d)
    PROVE  LET e == Closed(d, refused)
           IN  /\ ~Owned(e) /\ e.done <= Len(SetUp[e.kind]) /\ e.kind = d.kind
               /\ e.held => "handle" \in e.refused
               /\ e.able => e.refused # {}
<1>1. /\ Closed(d, refused).held => "handle" \in refused
      /\ Closed(d, refused).able => refused # {}
  BY DEF Closed, Adapter
<1>2. Closed(d, refused).done = 0 /\ Closed(d, refused).kind = d.kind /\ Closed(d, refused).refused = refused
  BY DEF Closed, Adapter
<1>3. Len(SetUp[d.kind]) \in {1, 3, 4}
  BY SetUps
<1> QED BY <1>1, <1>2, <1>3 DEF Owned, Closed

\* The adapter is open while the run is on, and closed by open_adapter or by the run.
LEMMA DeviceStep ==
    ASSUME TypeOK, LinkTypeOK, DeviceInv, AdapterReleased, Next
    PROVE  DeviceInv' /\ AdapterReleased'
<1>0. device \in Adapter /\ stage \in {"open", "release", "close", "ended", "broken"} \union Exchanges
  BY DEF TypeOK
<1>1. ASSUME device' = device, stage' = stage PROVE DeviceInv' /\ AdapterReleased'
  BY <1>1 DEF DeviceInv, AdapterClosed, AdapterReleased
<1>2. ASSUME device' = device, stage \in Exchanges, stage' \notin {"open", "close", "ended", "broken"}
      PROVE  DeviceInv' /\ AdapterReleased'
  BY <1>2 DEF DeviceInv, AdapterReleased, Exchanges, Entering, Reading, Leaving
<1>3. CASE Environment
  BY <1>1, <1>3 DEF Environment, Serve, ServeShort, Decline, LoseRequest, LoseAnswer, PowerCycle, reader
<1>4. CASE OpenCall
  <2>1. device' = Advanced(device) /\ stage = "open" /\ stage' = stage /\ ~Owned(device)
    BY <1>4 DEF OpenCall
  <2>2. device'.done = device.done + 1 /\ device'.kind = device.kind /\ device'.held = TRUE
        /\ device'.refused = device.refused
    BY <1>0, <2>1 DEF Advanced, Adapter
  <2>3. device.done \in 0..4 /\ Len(SetUp[device.kind]) \in {1, 3, 4}
        /\ device.done <= Len(SetUp[device.kind]) /\ device.done # Len(SetUp[device.kind])
    BY <1>0, <2>1, SetUps DEF Owned, DeviceInv
  <2> DEFINE calls == Len(SetUp[device.kind])
             done == device.done
  <2>4. done + 1 <= calls
    <3>1. done \in 0..4 /\ calls \in {1, 3, 4} /\ done <= calls /\ done # calls
      BY <2>3
    <3> HIDE DEF done, calls
    <3> QED BY <3>1
  <2> QED BY <2>1, <2>2, <2>4 DEF DeviceInv, AdapterReleased
<1>5. CASE OpenFails
  <2>1. PICK refused \in Refusals(device) : device' = Abandoned(device, refused)
        /\ stage = "open" /\ stage' = "close" /\ ~Owned(device)
    BY <1>5 DEF OpenFails
  <2>2. CASE device.held
    BY <1>0, <2>1, <2>2, CloseGives DEF Abandoned, DeviceInv, AdapterClosed, AdapterReleased
  <2>3. CASE ~device.held
    BY <2>1, <2>3 DEF Abandoned, DeviceInv, AdapterClosed, AdapterReleased
  <2> QED BY <2>2, <2>3
<1>6. CASE Open
  BY <1>6 DEF Open, DeviceInv, AdapterReleased
<1>7. CASE Ask
  BY <1>1, <1>7 DEF Ask
<1>8. CASE TransportFails
  <2>1. stage \in Exchanges /\ device' = device /\ Failed
    BY <1>8 DEF TransportFails, LinkTypeOK
  <2>2. stage' \notin {"open", "close", "ended", "broken"}
    BY <2>1, FailedStep DEF Leaf, Leaving
  <2> QED BY <1>2, <2>1, <2>2
<1>9. CASE Interrupted
  <2>1. stage' \notin {"open", "close", "ended", "broken"}
    BY <1>9 DEF Interrupted, Leave, FirstToLeave
  <2> QED BY <1>2, <1>9, <2>1 DEF Interrupted, Exchanges
<1>10. CASE Take
  <2>1. stage \in Exchanges /\ device' = device
    BY <1>10 DEF Take, LinkTypeOK
  <2>2. stage' \notin {"open", "close", "ended", "broken"}
    <3>1. CASE Failed
      BY <2>1, <3>1, FailedStep DEF Leaf, Leaving
    <3>2. CASE Entered \/ BeginBlocks
      BY <3>2 DEF Entered, BeginBlocks, Entering
    <3>3. CASE TakeBlock(Head(line))
      BY <3>3 DEF TakeBlock
    <3>4. CASE SaveWindow
      <4>1. stage' \in {"upload", FirstToLeave(FALSE, special)}
        BY <3>4, Zenon DEF SaveWindow
      <4> QED BY <4>1 DEF FirstToLeave
    <3>5. CASE LeaveStep
      BY <3>5 DEF LeaveStep, Leaving, FirstToLeave
    <3> QED BY <1>10, <3>1, <3>2, <3>3, <3>4, <3>5 DEF Take
  <2> QED BY <1>2, <2>1, <2>2
<1>11. CASE Disconnect
  BY <1>11 DEF Disconnect, DeviceInv, AdapterReleased
<1>12. CASE Release
  <2>1. PICK refused \in Refusals(device) :
          /\ device' = IF Owned(device) THEN Closed(device, refused) ELSE device
          /\ stage = "close" /\ stage' = "ended"
    BY <1>12 DEF Release
  <2>2. CASE Owned(device)
    BY <1>0, <2>1, <2>2, CloseGives DEF DeviceInv, AdapterClosed, AdapterReleased
  <2>3. CASE ~Owned(device)
    BY <2>1, <2>3 DEF DeviceInv, AdapterClosed, AdapterReleased
  <2> QED BY <2>2, <2>3
<1>13. CASE CleanupInterrupted
  <2>1. stage \in Leaving \union {"release", "close"} /\ stage' = "broken"
    BY <1>13 DEF CleanupInterrupted
  <2>2. CASE device' = device
    BY <2>1, <2>2 DEF DeviceInv, AdapterClosed, AdapterReleased, Leaving
  <2>3. CASE stage = "close" /\ Owned(device) /\ \E refused \in Refusals(device) : device' = Closed(device, refused)
    BY <1>0, <2>1, <2>3, CloseGives DEF DeviceInv, AdapterClosed, AdapterReleased
  <2> QED BY <1>13, <2>2, <2>3 DEF CleanupInterrupted
<1> QED BY <1>3, <1>4, <1>5, <1>6, <1>7, <1>8, <1>9, <1>10, <1>11, <1>12, <1>13 DEF Next, Run, Thread, CtrlC

--------------------------------------------------------------------------------
(***************************************************************************)
(* The special session.                                                    *)
(***************************************************************************)

\* A request that leaves the queue takes neither the stop nor what it is behind,
\* unless it is the stop itself.
LEMMA TailStops ==
    ASSUME TypeOK, LinkTypeOK, toEcu # <<>>, toEcu' = Tail(toEcu)
    PROVE  /\ Asking("special")' => Asking("special")
           /\ Stopping /\ (Asked # "leaveStop" \/ Asking("special")') => Stopping'
<1>1. /\ Len(toEcu) \in Nat /\ DOMAIN toEcu = 1..Len(toEcu) /\ 1 \in DOMAIN toEcu
      /\ DOMAIN toEcu' = 1..(Len(toEcu) - 1)
      /\ \A i \in DOMAIN toEcu' : i + 1 \in DOMAIN toEcu /\ toEcu'[i] = toEcu[i + 1]
      /\ Asked = toEcu[1].service
  BY TailFacts, HeadRequest DEF LinkTypeOK
<1>2. Asking("special")' => Asking("special")
  BY <1>1 DEF Asking
<1>3. ASSUME Stopping, Asked # "leaveStop" \/ Asking("special")' PROVE Stopping'
  <2>1. PICK i \in DOMAIN toEcu :
          /\ toEcu[i].service = "leaveStop"
          /\ \A j \in DOMAIN toEcu : toEcu[j].service = "special" => j < i
    BY <1>3 DEF Stopping
  <2>2. i # 1
    <3>1. CASE Asked # "leaveStop"
      BY <1>1, <2>1, <3>1
    <3>2. CASE Asking("special")'
      <4>1. PICK j \in DOMAIN toEcu' : toEcu'[j].service = "special"
        BY <3>2 DEF Asking
      <4>2. j + 1 \in DOMAIN toEcu /\ toEcu[j + 1].service = "special" /\ j \in 1..(Len(toEcu) - 1)
        BY <1>1, <4>1
      <4> QED BY <1>1, <2>1, <4>2
    <3> QED BY <1>3, <3>1, <3>2
  <2>3. i - 1 \in DOMAIN toEcu' /\ toEcu'[i - 1].service = "leaveStop"
    BY <1>1, <2>1, <2>2
  <2>4. \A j \in DOMAIN toEcu' : toEcu'[j].service = "special" => j < i - 1
    BY <1>1, <2>1
  <2> QED BY <2>3, <2>4 DEF Stopping
<1> QED BY <1>2, <1>3

\* The controller enters the session by the request alone, and leaves it by the stop.
LEMMA SessionServed ==
    ASSUME TypeOK, LinkTypeOK, toEcu # <<>>, Served, ecu' = Behind(Head(toEcu))
    PROVE  /\ ecu'.session = "special" => ecu.session = "special" \/ Asked = "special"
           /\ ecu'.session = "special" => Asked # "leaveStop"
<1>1. ecu \in [session : Sessions, key : BOOLEAN, next : {<<>>} \union [at : Nat, left : Nat]]
      /\ Asked \in Exchanges
  BY HeadRequest DEF LinkTypeOK
<1>2. CASE Asked \in {"extend", "leaveExtend", "leaveStop"}
  BY <1>2 DEF Behind, Ecu0
<1>3. CASE Asked = "special"
  BY <1>3
<1>4. CASE Asked \in {"identify", "seed", "key", "upload", "block", "exit", "leaveExit"}
  <2>1. ecu'.session = ecu.session
    BY <1>1, <1>4 DEF Behind
  <2> QED BY <1>4, <2>1
<1> QED BY <1>1, <1>2, <1>3, <1>4 DEF Exchanges, Entering, Reading, Leaving

\* A session that is noted stays to be undone until the request to stop is sent.
LEMMA StaysUndone ==
    ASSUME TypeOK, LinkTypeOK, Run, ~Ask, ~CleanupInterrupted, special, Undone
    PROVE  special' /\ Undone'
<1>0. special \in BOOLEAN /\ upload \in BOOLEAN
  BY DEF TypeOK
<1>1. ASSUME Failed, waiting PROVE special' /\ Undone'
  <2>1. stage \in Entering \union Reading \union {"leaveExit"}
    BY <1>1 DEF Undone
  <2> QED BY <1>1, <2>1 DEF Failed, Leave, FirstToLeave, Undone, Entering, Reading, Leaving
<1>2. CASE OpenCall \/ OpenFails \/ Open \/ Disconnect \/ Release
  BY <1>2 DEF OpenCall, OpenFails, Open, Disconnect, Release, Undone, Entering, Reading
<1>3. CASE TransportFails
  BY <1>1, <1>3 DEF TransportFails
<1>4. CASE Interrupted
  BY <1>4 DEF Interrupted, Leave, FirstToLeave, Undone
<1>5. CASE Take
  <2>1. CASE ~Accepted(Head(line)) /\ Failed
    BY <1>1, <1>5, <2>1 DEF Take
  <2>2. CASE Entered \/ BeginBlocks \/ TakeBlock(Head(line))
    BY <2>2 DEF Entered, BeginBlocks, TakeBlock, Undone, Entering, Reading
  <2>3. CASE SaveWindow /\ waiting' = FALSE
    <3>1. special' = special /\ stage' \in {"upload", FirstToLeave(FALSE, special)}
      BY <2>3, Zenon DEF SaveWindow
    <3> QED BY <2>3, <3>1 DEF FirstToLeave, Undone, Reading
  <2>4. CASE LeaveStep /\ waiting' = FALSE
    <3>1. stage = "leaveExit"
      BY <1>5, <2>4 DEF Take, LeaveStep, Undone, Entering, Reading, Leaving
    <3> QED BY <2>4, <3>1 DEF LeaveStep, FirstToLeave, Undone
  <2> QED BY <1>5, <2>1, <2>2, <2>3, <2>4 DEF Take
<1> QED BY <1>2, <1>3, <1>4, <1>5 DEF Run, Thread, CtrlC

\* The special session is noted, or the request to stop it is on its way.
LEMMA SessionStep ==
    ASSUME TypeOK, LinkTypeOK, SessionInv, Next
    PROVE  SessionInv'
<1>0. missed \in BOOLEAN
  BY DEF TypeOK
<1>1. ASSUME UNCHANGED <<toEcu, ecu, missed>>, special /\ Undone => special' /\ Undone'
      PROVE  SessionInv'
  BY <1>1 DEF SessionInv, Stopping, Asking
<1>2. ASSUME UNCHANGED reader PROVE special' = special /\ Undone' = Undone
  BY <1>2 DEF reader, Undone
<1>3. CASE Run /\ ~Ask /\ ~CleanupInterrupted
  <2>1. UNCHANGED <<toEcu, ecu, missed>>
    BY <1>3 DEF Run, Thread, CtrlC, OpenCall, OpenFails, Open, TransportFails, Interrupted, Take, Disconnect, Release
  <2> QED BY <1>1, <1>3, <2>1, StaysUndone
<1>4. CASE Ask
  <2>1. /\ toEcu' = Append(toEcu, [service |-> stage, at |-> offset, size |-> Size])
        /\ stage \in Exchanges /\ stage' = stage /\ ~waiting /\ UNCHANGED <<ecu, missed>>
        /\ special' = (special \/ stage = "special")
    BY <1>4 DEF Ask, NotedSpecial
  <2>2. /\ Len(toEcu) \in Nat /\ DOMAIN toEcu = 1..Len(toEcu) /\ DOMAIN toEcu' = 1..(Len(toEcu) + 1)
        /\ \A i \in DOMAIN toEcu : toEcu'[i] = toEcu[i]
        /\ toEcu'[Len(toEcu) + 1].service = stage
    BY <2>1, Types
  <2>3. CASE stage = "special"
    BY <2>1, <2>3 DEF SessionInv, Undone, Entering
  <2>4. CASE stage = "leaveStop"
    <3>1. \A j \in DOMAIN toEcu' : toEcu'[j].service = "special" => j < Len(toEcu) + 1
      BY <2>2, <2>4
    <3>2. Len(toEcu) + 1 \in DOMAIN toEcu'
      BY <2>2
    <3> QED BY <2>2, <2>4, <3>1, <3>2 DEF SessionInv, Stopping
  <2>5. CASE stage \notin {"special", "leaveStop"}
    <3>1. Asking("special")' => Asking("special")
      BY <2>2, <2>5 DEF Asking
    <3>2. Stopping => Stopping'
      BY <2>2, <2>5 DEF Stopping
    <3>3. special /\ Undone => special' /\ Undone'
      BY <2>1, <2>5 DEF Undone
    <3> QED BY <2>1, <3>1, <3>2, <3>3 DEF SessionInv
  <2> QED BY <2>3, <2>4, <2>5
<1>5. CASE Serve \/ ServeShort
  <2>1. toEcu # <<>> /\ Served /\ toEcu' = Tail(toEcu) /\ ecu' = Behind(Head(toEcu)) /\ missed' = missed
        /\ UNCHANGED reader
    BY <1>5 DEF Serve, ServeShort
  <2>2. Asked = "special" => Asking("special")
    BY <2>1, HeadRequest DEF Asking
  <2> QED BY <1>2, <2>1, <2>2, TailStops, SessionServed DEF SessionInv
<1>6. CASE Decline \/ LoseRequest
  <2>1. toEcu # <<>> /\ toEcu' = Tail(toEcu) /\ ecu' = ecu /\ missed' = (missed \/ Asked = "leaveStop")
        /\ UNCHANGED reader
    BY <1>6 DEF Decline, LoseRequest
  <2> QED BY <1>0, <1>2, <2>1, TailStops DEF SessionInv
<1>7. CASE LoseAnswer
  BY <1>1, <1>2, <1>7 DEF LoseAnswer
<1>8. CASE PowerCycle
  <2>1. ecu'.session # "special" /\ UNCHANGED <<toEcu, missed>> /\ UNCHANGED reader
    BY <1>8 DEF PowerCycle, Ecu0
  <2> QED BY <1>2, <2>1 DEF SessionInv, Stopping, Asking
<1>9. CASE CleanupInterrupted
  <2>1. Undone => missed'
    BY <1>9 DEF CleanupInterrupted, Undone, Leaving, Entering, Reading
  <2>2. ~missed' => ~missed
    BY <1>0, <1>9 DEF CleanupInterrupted
  <2> QED BY <1>9, <2>1, <2>2 DEF CleanupInterrupted, SessionInv, Stopping, Asking
<1> QED BY <1>3, <1>4, <1>5, <1>6, <1>7, <1>8, <1>9 DEF Next, Run, Thread, CtrlC, Environment

--------------------------------------------------------------------------------
(***************************************************************************)
(* One exchange at a time, while nothing has gone wrong.                   *)
(***************************************************************************)

\* Of two numbers that make one at most, one that is not 0 is 1, and the other 0.
LEMMA OneOfTwo == \A m, n \in Nat : m + n <= 1 => (m # 0 => m = 1 /\ n = 0) /\ (n # 0 => n = 1 /\ m = 0)
  OBVIOUS

\* An exchange that fails, or a run that is interrupted, is sound no more.
LEMMA FailedUnsound ==
    ASSUME TypeOK, LinkTypeOK, SuccessInv,
           (Failed /\ stage \in Exchanges) \/ Interrupted
    PROVE  ~Sound' /\ stage' \in Leaf /\ ~(report'.status \in Successes /\ ~report'.errors)
<1>1. report \in Reports /\ special \in BOOLEAN /\ upload \in BOOLEAN
  BY DEF TypeOK, LinkTypeOK
<1>2. CASE Failed /\ stage \in Exchanges
  <2>1. stage' \in Leaf
    BY <1>2, FailedStep
  <2>2. report' = IF stage \in Leaving THEN [report EXCEPT !.errors = TRUE]
                                       ELSE [report EXCEPT !.status = "requires_attention"]
    BY <1>2, FailedStep
  <2>3. ~(report'.status \in Successes /\ ~report'.errors)
    BY <1>1, <2>2 DEF Reports, Successes
  <2> QED BY <2>1, <2>3 DEF Sound, Leaf, Entering, Reading, Leaving
<1>3. CASE Interrupted
  <2>1. stage' \in Leaf /\ report'.status = "in_progress"
    BY <1>1, <1>3, LeaveStages DEF Interrupted, Leave, SuccessInv, Reports
  <2> QED BY <2>1 DEF Sound, Successes, Leaf, Entering, Reading, Leaving
<1> QED BY <1>2, <1>3

\* An exchange that is answered as expected leaves the line empty.
LEMMA TakenAlone ==
    ASSUME TypeOK, LinkTypeOK, LineInv, Sound, Take
    PROVE  toEcu = <<>> /\ toEcu' = <<>> /\ line' = <<>> /\ Head(line) = line[1]
<1>1. /\ line # <<>> /\ line' = Tail(line) /\ toEcu' = toEcu
      /\ Len(toEcu) \in Nat /\ Len(line) \in Nat \ {0} /\ Len(toEcu) + Len(line) <= 1
      /\ line \in Seq(Answers) /\ (toEcu = <<>> <=> Len(toEcu) = 0)
  BY Types DEF Take, LineInv
<1>2. Len(toEcu) = 0 /\ Len(line) = 1
  BY <1>1, OneOfTwo
<1>3. line' = <<>> /\ Head(line) = line[1]
  BY <1>1, <1>2
<1> QED BY <1>1, <1>2, <1>3

\* An answer to the request at the head is the only one on the line.
LEMMA RepliedAlone ==
    ASSUME TypeOK, LinkTypeOK, LineInv, Sound, NEW ok \in BOOLEAN, NEW bytes \in Seq(Int), Replied(ok, bytes)
    PROVE  /\ Asked = stage /\ Head(toEcu) = [service |-> stage, at |-> offset, size |-> Size]
           /\ line = <<>> /\ toEcu' = <<>>
           /\ line' = <<[service |-> Service[stage], ok |-> ok, data |-> bytes]>>
           /\ waiting
<1>1. /\ toEcu # <<>> /\ Len(toEcu) \in Nat /\ Len(line) \in Nat /\ Len(toEcu) + Len(line) <= 1
      /\ (toEcu = <<>> <=> Len(toEcu) = 0) /\ (line = <<>> <=> Len(line) = 0)
      /\ toEcu \in Seq(Requests)
  BY Types DEF Replied, LineInv
<1>2. Len(toEcu) = 1 /\ line = <<>>
  BY <1>1, OneOfTwo
<1>3. /\ Asked = toEcu[1].service /\ 1 \in DOMAIN toEcu /\ Head(toEcu) = toEcu[1]
  BY <1>1, HeadRequest
<1>4. toEcu[1] = [service |-> stage, at |-> offset, size |-> Size]
  BY <1>3 DEF LineInv
<1>5. waiting
  BY <1>1 DEF LineInv, TypeOK
<1>6. toEcu' = <<>>
  BY <1>1, <1>2 DEF Replied
<1>7. line' = <<[service |-> Service[stage], ok |-> ok, data |-> bytes]>>
  BY <1>2, <1>3, <1>4 DEF Replied
<1> QED BY <1>2, <1>3, <1>4, <1>5, <1>6, <1>7

\* Request and answer alternate, and belong to the exchange at hand.
LEMMA LineStep ==
    ASSUME TypeOK, LinkTypeOK, SuccessInv, LineInv, Next
    PROVE  LineInv'
<1>0. /\ Len(toEcu) \in Nat /\ Len(line) \in Nat /\ toEcu \in Seq(Requests) /\ line \in Seq(Answers)
      /\ DOMAIN toEcu = 1..Len(toEcu) /\ DOMAIN line = 1..Len(line)
      /\ report \in Reports
  BY Types
<1>1. ASSUME Sound' => Sound /\ toEcu' = <<>> /\ line' = <<>> PROVE LineInv'
  BY <1>1 DEF LineInv
<1>2. ASSUME Sound' => Sound /\ ~waiting /\ ~waiting', UNCHANGED <<toEcu, line>> PROVE LineInv'
  BY <1>2 DEF LineInv
<1>3. CASE OpenCall
  <2>1. UNCHANGED <<stage, waiting, offset, report, toEcu, line>>
    BY <1>3 DEF OpenCall
  <2> QED BY <2>1 DEF LineInv, Sound, Size
<1>4. CASE OpenFails \/ Open
  <2>1. stage = "open" /\ ~waiting /\ ~waiting' /\ UNCHANGED <<toEcu, line>>
    BY <1>4 DEF OpenFails, Open, LinkTypeOK, Exchanges, Entering, Reading, Leaving
  <2> QED BY <1>2, <2>1 DEF Sound
<1>5. CASE Ask
  <2> DEFINE request == [service |-> stage, at |-> offset, size |-> Size]
  <2>1. /\ toEcu' = Append(toEcu, request) /\ line' = line /\ ~waiting /\ waiting'
        /\ stage' = stage /\ offset' = offset /\ Size' = Size /\ report' = report
    BY <1>5 DEF Ask, Size
  <2>2. ASSUME Sound'
        PROVE  Sound /\ line' = <<>> /\ toEcu' = <<request>>
    <3>1. Sound
      BY <2>1, <2>2 DEF Sound
    <3>2. toEcu = <<>> /\ line = <<>>
      BY <2>1, <3>1 DEF LineInv
    <3> QED BY <2>1, <3>1, <3>2
  <2>3. Len(<<request>>) + Len(<<>>) <= 1 /\ \A i \in DOMAIN <<request>> : <<request>>[i] = request
    OBVIOUS
  <2>4. request = [service |-> stage', at |-> offset', size |-> Size']
    BY <2>1
  <2> HIDE DEF request
  <2> QED BY <2>1, <2>2, <2>3, <2>4 DEF LineInv
<1>6. CASE TransportFails \/ Interrupted
  <2>1. ~Sound'
    BY <1>6, FailedUnsound DEF TransportFails, LinkTypeOK
  <2> QED BY <2>1 DEF LineInv
<1>7. CASE Take
  <2>1. CASE Failed
    BY <1>7, <2>1, FailedUnsound DEF Take, LinkTypeOK, LineInv
  <2>2. CASE Entered \/ BeginBlocks \/ TakeBlock(Head(line)) \/ SaveWindow
    <3>1. Sound
      BY <2>2, Zenon DEF Entered, BeginBlocks, TakeBlock, SaveWindow, Sound, Reading
    <3> QED BY <1>1, <1>7, <3>1, TakenAlone
  <2>3. CASE LeaveStep
    <3>1. stage' \in Leaf /\ report' = report
      BY <2>3, LeaveStages DEF LeaveStep, Leaf, Leaving, TypeOK
    <3>2. Sound' => Sound
      BY <3>1 DEF Sound, Leaf, Leaving, Entering, Reading
    <3> QED BY <1>1, <1>7, <3>2, TakenAlone
  <2> QED BY <1>7, <2>1, <2>2, <2>3 DEF Take
<1>8. CASE Disconnect
  <2>1. PICK fails \in BOOLEAN : report' = [report EXCEPT !.errors = report.errors \/ fails]
    BY <1>8 DEF Disconnect
  <2>2. report'.status = report.status /\ (report.errors => report'.errors)
    BY <1>0, <2>1 DEF Reports
  <2>3. stage = "release" /\ stage' = "close" /\ ~waiting /\ ~waiting' /\ UNCHANGED <<toEcu, line>>
    BY <1>8 DEF Disconnect, LinkTypeOK, Exchanges, Entering, Reading, Leaving
  <2> QED BY <1>2, <2>2, <2>3 DEF Sound, Entering, Reading
<1>9. CASE Release
  <2>1. PICK errors : report' = [report EXCEPT !.errors = errors, !.status = StatusAfter(errors)]
                      /\ (report.errors => errors)
    BY <1>9 DEF Release
  <2>2. report'.errors = errors /\ report'.status = StatusAfter(errors)
    BY <1>0, <2>1 DEF Reports
  <2>3. stage = "close" /\ stage' = "ended" /\ ~waiting /\ ~waiting' /\ UNCHANGED <<toEcu, line>>
    BY <1>9 DEF Release, LinkTypeOK, Exchanges, Entering, Reading, Leaving
  <2> QED BY <1>2, <2>1, <2>2, <2>3 DEF Sound, StatusAfter, Successes, Entering, Reading
<1>10. CASE Environment
  <2>1. /\ UNCHANGED reader /\ Sound' = Sound /\ Size' = Size /\ stage' = stage
        /\ offset' = offset /\ waiting' = waiting
    <3>1. UNCHANGED reader
      BY <1>10 DEF Environment, Serve, ServeShort, Decline, LoseRequest, LoseAnswer, PowerCycle
    <3> QED BY <3>1 DEF reader, Sound, Size
  <2>2. ASSUME Sound, NEW ok \in BOOLEAN, NEW bytes \in Seq(Int), Replied(ok, bytes) PROVE LineInv'
    <3> DEFINE answer == [service |-> Service[stage], ok |-> ok, data |-> bytes]
    <3>1. toEcu' = <<>> /\ line' = <<answer>> /\ waiting
      BY <2>2, RepliedAlone
    <3>2. Len(<<>>) + Len(<<answer>>) <= 1 /\ \A i \in DOMAIN <<answer>> : <<answer>>[i] = answer
      OBVIOUS
    <3>3. answer.service = Service[stage]
      OBVIOUS
    <3> HIDE DEF answer
    <3> QED BY <2>1, <3>1, <3>2, <3>3 DEF LineInv
  <2>3. CASE Serve \/ ServeShort
    BY <2>1, <2>2, <2>3, ServeReplies DEF LineInv
  <2>4. CASE Decline
    <3>1. Replied(FALSE, <<>>) /\ <<>> \in Seq(Int)
      BY <2>4 DEF Decline, Reply, Replied
    <3> QED BY <2>1, <2>2, <3>1 DEF LineInv
  <2>5. CASE LoseRequest \/ LoseAnswer
    <3>1. Sound => toEcu' = <<>> /\ line' = <<>>
      <4>1. CASE LoseRequest
        BY <1>0, <2>5, <4>1 DEF LoseRequest, LineInv
      <4>2. CASE LoseAnswer
        BY <1>0, <2>5, <4>2 DEF LoseAnswer, LineInv
      <4> QED BY <2>5, <4>1, <4>2
    <3> QED BY <1>1, <2>1, <3>1
  <2>6. CASE PowerCycle
    BY <2>1, <2>6 DEF PowerCycle, LineInv
  <2> QED BY <1>10, <2>3, <2>4, <2>5, <2>6 DEF Environment
<1>11. CASE CleanupInterrupted
  <2>1. ~Sound'
    BY <1>11, BrokenOff DEF Sound, Successes, Entering, Reading
  <2> QED BY <2>1 DEF LineInv
<1> QED BY <1>3, <1>4, <1>5, <1>6, <1>7, <1>8, <1>9, <1>10, <1>11 DEF Next, Run, Thread, CtrlC

--------------------------------------------------------------------------------
(***************************************************************************)
(* The upload and the data.                                                *)
(***************************************************************************)

\* The upload stands where the answer to a request leaves it.
LEMMA UploadServed ==
    ASSUME TypeOK, LinkTypeOK, LineInv, UploadInv, DataInv, stage \in {"upload", "block"},
           NEW bytes \in Seq(Int), Replied(TRUE, bytes), Served, ecu' = Behind(Head(toEcu)),
           bytes = Answer(Head(toEcu)) \/ Len(bytes) = Len(Answer(Head(toEcu))) - 1
    PROVE  UploadInv'
<1>0. /\ offset \in Nat /\ Size \in Nat \ {0} /\ Len(data) \in Nat /\ MaxBlock \in Nat \ {0}
      /\ ecu \in [session : Sessions, key : BOOLEAN, next : {<<>>} \union [at : Nat, left : Nat]]
  BY Types DEF Positions, LinkTypeOK
<1>1. /\ Asked = stage /\ Head(toEcu) = [service |-> stage, at |-> offset, size |-> Size]
      /\ toEcu # <<>> /\ toEcu' = <<>> /\ waiting
      /\ line' = <<[service |-> Service[stage], ok |-> TRUE, data |-> bytes]>>
  BY RepliedAlone DEF Sound, Reading, Replied
<1>2. /\ stage' = stage /\ waiting' = waiting /\ offset' = offset /\ data' = data /\ Size' = Size
      /\ Due' = Due
  BY DEF Replied, reader, Size, Due
<1>3. line'[1] = [service |-> Service[stage], ok |-> TRUE, data |-> bytes]
  BY <1>1
<1>4. CASE stage = "upload"
  <2>1. ecu'.next = [at |-> offset, left |-> Size]
    BY <1>0, <1>1, <1>4 DEF Behind
  <2>2. UploadAt(0)'
    BY <1>0, <1>2, <2>1 DEF UploadAt
  <2> QED BY <1>2, <1>4, <2>2 DEF UploadInv
<1>5. CASE stage = "block"
  <2>1. Len(data) < Size /\ UploadAt(Len(data)) /\ ecu.next # <<>>
    BY <1>1, <1>5 DEF DataInv, UploadInv, Served
  <2>2. ecu.next = [at |-> offset + Len(data), left |-> Size - Len(data)]
    BY <2>1 DEF UploadAt
  <2>3. Block = Due /\ Due \in Nat \ {0} /\ ecu.next.left > 0
    BY <1>0, <2>1, <2>2 DEF Block, Due, MinOf
  <2>4. Answer(Head(toEcu)) = [i \in 1..Due |-> offset + Len(data) + i - 1]
    BY <1>1, <1>5, <2>2, <2>3 DEF Answer, NextBlock
  <2>5. ecu'.next = [at |-> offset + Len(data) + Due, left |-> Size - Len(data) - Due]
    <3>1. ecu'.next = [at |-> ecu.next.at + Block, left |-> ecu.next.left - Block]
      BY <1>0, <1>1, <1>5 DEF Behind
    <3>2. Block = Due /\ ecu.next = [at |-> offset + Len(data), left |-> Size - Len(data)]
      BY <2>2, <2>3
    <3> QED BY <3>1, <3>2
  <2>6. UploadAt(Len(data) + Due)'
    <3>1. offset + (Len(data) + Due) = offset + Len(data) + Due
          /\ Size - (Len(data) + Due) = Size - Len(data) - Due
      BY <1>0, <2>3
    <3> QED BY <1>2, <2>5, <3>1 DEF UploadAt
  <2>7. Len(Answer(Head(toEcu))) = Due
    BY <2>3, <2>4
  <2>8. Accepted(line[1])' => bytes = Answer(Head(toEcu))
    <3>1. Accepted(line[1])' => Len(bytes) = Due
      BY <1>2, <1>3, <1>5 DEF Accepted, Due
    <3> QED BY <2>3, <2>7, <3>1
  <2>9. bytes = Answer(Head(toEcu)) => \A i \in 1..Due : line'[1].data[i] = offset + Len(data) + i - 1
    <3>1. line'[1].data = bytes
      BY <1>3
    <3>2. \A i \in 1..Due : Answer(Head(toEcu))[i] = offset + Len(data) + i - 1
      BY <2>4
    <3> QED BY <3>1, <3>2
  <2> QED BY <1>1, <1>2, <1>5, <2>6, <2>8, <2>9 DEF UploadInv
<1> QED BY <1>4, <1>5

\* The upload goes on with the data, and the data with it.
LEMMA UploadStep ==
    ASSUME TypeOK, LinkTypeOK, SuccessInv, LineInv, UploadInv, DataInv, Next
    PROVE  UploadInv'
<1>0. /\ offset \in Nat /\ Size \in Nat \ {0} /\ Len(data) \in Nat /\ MaxBlock \in Nat \ {0}
      /\ Len(toEcu) \in Nat /\ Len(line) \in Nat /\ toEcu \in Seq(Requests) /\ line \in Seq(Answers)
  BY Types DEF Positions
<1>1. ASSUME stage' \notin {"upload", "block"} PROVE UploadInv'
  BY <1>1 DEF UploadInv
<1>2. ASSUME stage' \in {"upload", "block"}, Run, ~Ask
      PROVE  /\ Take /\ Sound /\ Accepted(line[1]) /\ line' = <<>> /\ ecu' = ecu
             /\ (stage = "special" /\ Entered) \/ BeginBlocks \/ TakeBlock(line[1]) \/ SaveWindow
  <2>1. Take /\ ~Failed
    <3>1. CASE Failed /\ stage \in Exchanges
      BY <1>2, <3>1, FailedStep DEF Leaf, Leaving
    <3>2. CASE OpenCall \/ OpenFails \/ Open \/ Disconnect \/ Release
      BY <1>2, <3>2 DEF OpenCall, OpenFails, Open, Disconnect, Release
    <3>3. CASE Interrupted \/ CleanupInterrupted
      BY <1>2, <3>3 DEF Interrupted, CleanupInterrupted, Leave, FirstToLeave
    <3>4. CASE Take
      BY <3>1, <3>4 DEF Take, LinkTypeOK
    <3>5. CASE TransportFails
      BY <3>1, <3>5 DEF TransportFails, LinkTypeOK
    <3> QED BY <1>2, <3>2, <3>3, <3>4, <3>5 DEF Run, Thread, CtrlC
  <2>2. Accepted(Head(line)) /\ (Entered \/ BeginBlocks \/ TakeBlock(Head(line)) \/ SaveWindow \/ LeaveStep)
    BY <2>1 DEF Take
  <2>3. ~LeaveStep
    BY <1>2 DEF LeaveStep, Leaving, FirstToLeave
  <2>4. Entered => stage = "special"
    BY <1>2 DEF Entered, Entering
  <2>5. Sound
    BY <2>2, <2>3, Zenon DEF Entered, BeginBlocks, TakeBlock, SaveWindow, Sound, Reading
  <2> QED BY <2>1, <2>2, <2>3, <2>4, <2>5, TakenAlone DEF Take
<1>3. CASE Run /\ ~Ask /\ stage' = "upload"
  BY <1>2, <1>3 DEF UploadInv
<1>4. CASE Run /\ ~Ask /\ stage' = "block"
  <2>1. BeginBlocks \/ TakeBlock(line[1])
    BY <1>2, <1>4, Zenon DEF Entered, SaveWindow, FirstToLeave
  <2>2. line' = <<>> /\ ecu' = ecu /\ Accepted(line[1]) /\ line # <<>>
    BY <1>2, <1>4 DEF Take
  <2>3. offset' = offset /\ Size' = Size
    BY <2>1 DEF BeginBlocks, TakeBlock, Size
  <2>4. UploadAt(Len(data))'
    <3>1. CASE BeginBlocks
      <4>1. data' = <<>> /\ UploadAt(0)
        BY <2>2, <3>1 DEF BeginBlocks, UploadInv, DataInv
      <4>2. Len(data') = 0
        BY <4>1
      <4> QED BY <2>2, <2>3, <4>1, <4>2 DEF UploadAt
    <3>2. CASE TakeBlock(line[1])
      <4>1. stage = "block" /\ data' = data \o line[1].data /\ Len(line[1].data) = Due
        BY <2>2, <3>2 DEF TakeBlock, Accepted, Due
      <4>2. line[1].data \in Seq(Int) /\ data \in Seq(Int)
        <5>1. line[1] \in Answers /\ data \in Seq(Int)
          BY <1>0, <2>2, TailFacts DEF LinkTypeOK
        <5> QED BY <5>1 DEF Answers
      <4>3. Len(data') = Len(data) + Due
        <5>1. Len(data \o line[1].data) = Len(data) + Len(line[1].data)
          BY <4>2, ConcatProperties
        <5> QED BY <4>1, <5>1
      <4>4. UploadAt(Len(data) + Due)
        BY <2>2, <4>1 DEF UploadInv
      <4> QED BY <2>2, <2>3, <4>3, <4>4 DEF UploadAt
    <3> QED BY <2>1, <3>1, <3>2
  <2> QED BY <1>4, <2>2, <2>4 DEF UploadInv
<1>5. CASE Ask
  <2>1. /\ stage' = stage /\ offset' = offset /\ data' = data /\ Size' = Size /\ ecu' = ecu /\ line' = line
        /\ ~waiting
    BY <1>5 DEF Ask, Size
  <2>2. stage \in {"upload", "block"} => line = <<>>
    BY <2>1 DEF LineInv, Sound, Reading
  <2> QED BY <2>1, <2>2 DEF UploadInv, UploadAt
<1>6. CASE Environment
  <2>1. UNCHANGED reader
    BY <1>6 DEF Environment, Serve, ServeShort, Decline, LoseRequest, LoseAnswer, PowerCycle
  <2>2. /\ stage' = stage /\ waiting' = waiting /\ offset' = offset /\ data' = data /\ Size' = Size
        /\ Due' = Due
    BY <2>1 DEF reader, Size, Due
  <2>3. CASE stage \in {"upload", "block"}
    <3>0. Sound
      BY <2>3 DEF Sound, Reading
    <3>1. CASE Serve \/ ServeShort
      BY <2>3, <3>1, ServeReplies, UploadServed
    <3>2. CASE Decline
      <4>1. Replied(FALSE, <<>>) /\ <<>> \in Seq(Int)
        BY <3>2 DEF Decline, Reply, Replied
      <4>2. toEcu' = <<>> /\ waiting /\ line' = <<[service |-> Service[stage], ok |-> FALSE, data |-> <<>>]>>
        BY <3>0, <4>1, RepliedAlone
      <4>3. ~Accepted(line[1])'
        BY <4>2 DEF Accepted
      <4> QED BY <2>2, <4>2, <4>3 DEF UploadInv
    <3>3. CASE LoseRequest
      <4>1. toEcu # <<>> /\ toEcu' = Tail(toEcu) /\ line' = line
        BY <3>3 DEF LoseRequest
      <4>2. toEcu' = <<>> /\ line' = <<>> /\ waiting
        BY <1>0, <3>0, <4>1 DEF LineInv, TypeOK
      <4> QED BY <2>2, <4>2 DEF UploadInv
    <3>4. CASE LoseAnswer
      <4>1. line # <<>> /\ line' = Tail(line) /\ toEcu' = toEcu /\ ecu' = ecu
        BY <3>4 DEF LoseAnswer
      <4>2. toEcu' = toEcu /\ line' = <<>> /\ ecu' = ecu
        BY <1>0, <3>0, <4>1 DEF LineInv
      <4> QED BY <2>2, <4>2 DEF UploadInv, UploadAt
    <3>5. CASE PowerCycle
      <4>1. ecu'.next = <<>> /\ UNCHANGED <<toEcu, line>>
        BY <3>5 DEF PowerCycle, Ecu0
      <4>2. \A n : UploadAt(n)'
        BY <4>1 DEF UploadAt
      <4>3. Accepted(line[1])' = Accepted(line[1])
        BY <2>2, <4>1 DEF Accepted
      <4> QED BY <2>2, <4>1, <4>2, <4>3 DEF UploadInv
    <3> QED BY <1>6, <3>1, <3>2, <3>3, <3>4, <3>5 DEF Environment
  <2> QED BY <1>1, <2>2, <2>3
<1> QED BY <1>1, <1>3, <1>4, <1>5, <1>6 DEF Next

\* Behind its last step the run only leaves: nothing is entered or read any more.
LEMMA OnlyLeaves ==
    ASSUME TypeOK, LinkTypeOK, SuccessInv,
           \/ TransportFails \/ Interrupted \/ CleanupInterrupted \/ Disconnect \/ Release \/ OpenFails
           \/ Take /\ (Failed \/ LeaveStep)
    PROVE  stage' \in Leaf /\ files' = files /\ data' = data /\ offset' = offset
<1>1. special \in BOOLEAN /\ upload \in BOOLEAN
  BY DEF TypeOK
<1>2. CASE Interrupted
  BY <1>1, <1>2, LeaveStages DEF Interrupted, Leave
<1>3. CASE TransportFails \/ (Take /\ Failed)
  BY <1>3, FailedStep DEF TransportFails, Take, LinkTypeOK
<1>4. CASE CleanupInterrupted \/ Disconnect \/ Release \/ OpenFails
  BY <1>4 DEF CleanupInterrupted, Disconnect, Release, OpenFails, Leaf
<1>5. CASE Take /\ LeaveStep
  <2>1. stage' \in {"release", "leaveExtend", FirstToLeave(FALSE, special)}
    BY <1>5 DEF LeaveStep, Leaving
  <2> QED BY <1>1, <1>5, <2>1, LeaveStages DEF LeaveStep, Leaf, Leaving
<1> QED BY <1>2, <1>3, <1>4, <1>5

\* Each byte received is the one at its place in the window, and none is left over
\* from the window before.
LEMMA DataStep ==
    ASSUME TypeOK, LinkTypeOK, SuccessInv, LineInv, UploadInv, DataInv, FilesInv, Next
    PROVE  DataInv'
<1>0. /\ offset \in Nat /\ Size \in Nat \ {0} /\ Len(data) \in Nat /\ MaxBlock \in Nat \ {0}
      /\ data \in Seq(Int) /\ line \in Seq(Answers) /\ DOMAIN data = 1..Len(data)
  BY Types DEF Positions
<1>1. ASSUME stage' \in Leaf PROVE DataInv'
  BY <1>1 DEF DataInv, Leaf, Leaving, Entering, Reading
<1>2. ASSUME UNCHANGED <<stage, special, offset, data, files, waiting>> PROVE DataInv'
  BY <1>2 DEF DataInv, Size
<1>3. CASE Environment \/ OpenCall
  <2>1. UNCHANGED reader \/ OpenCall
    BY <1>3 DEF Environment, Serve, ServeShort, Decline, LoseRequest, LoseAnswer, PowerCycle
  <2>2. UNCHANGED <<stage, special, offset, data, files, waiting>>
    BY <2>1 DEF OpenCall, reader
  <2> QED BY <1>2, <2>2
<1>4. CASE \/ OpenFails \/ TransportFails \/ Interrupted \/ CleanupInterrupted \/ Disconnect \/ Release
           \/ Take /\ (Failed \/ LeaveStep)
  BY <1>1, <1>4, OnlyLeaves
<1>5. CASE Open
  <2>1. stage = "open" /\ stage' \in {"identify", "close"} /\ UNCHANGED <<offset, data, files>>
    BY <1>5 DEF Open
  <2> QED BY <1>1, <2>1 DEF DataInv, Leaf, Entering, Reading
<1>6. CASE Ask
  <2>1. /\ stage' = stage /\ offset' = offset /\ data' = data /\ Size' = Size
        /\ special' = (special \/ stage = "special")
        /\ stage # "upload" => files' = files
    BY <1>6 DEF Ask, Size, NotedSpecial
  <2> QED BY <2>1 DEF DataInv, Entering, Reading
<1>7. CASE Take /\ (Entered \/ BeginBlocks)
  <2>1. stage' \in Reading \union Entering /\ UNCHANGED <<special, offset, data, files>> /\ Size' = Size
        /\ (waiting' = FALSE \/ Failed)
    BY <1>7 DEF Entered, BeginBlocks, Entering, Reading, Take, Size
  <2>2. data = <<>> /\ DOMAIN data = {} /\ Len(data) = 0
    <3>1. data = <<>>
      BY <1>7 DEF Entered, BeginBlocks, DataInv
    <3> QED BY <3>1
  <2>3. CASE stage' \in Reading
    <3>1. special /\ stage' \in {"upload", "block"}
      BY <1>7, <2>3 DEF Entered, BeginBlocks, Entering, Reading, DataInv, Take
    <3>2. data' = <<>> /\ DOMAIN data' = {} /\ special'
      BY <2>1, <2>2, <3>1
    <3>3. Len(data') < Size'
      <4>1. Len(data) = 0 /\ Len(data) < Size
        BY <1>0, <2>2
      <4> QED BY <2>1, <4>1
    <3> QED BY <3>1, <3>2, <3>3 DEF DataInv, Entering
  <2>4. CASE stage' \in Entering /\ stage' # "special"
    BY <1>7, <2>1, <2>2, <2>4 DEF Entered, BeginBlocks, DataInv, Entering, Reading
  <2>5. CASE stage' = "special"
    <3>1. waiting' = FALSE /\ Entered
      <4>1. Entered
        BY <1>7, <2>5 DEF BeginBlocks
      <4>2. ~Failed
        BY <1>7, <2>5, FailedStep DEF Leaf, Leaving, Take, LinkTypeOK
      <4> QED BY <2>1, <4>1, <4>2
    <3>2. files' = <<>> /\ offset' = 0 /\ data' = <<>>
      BY <2>1, <2>2, <3>1 DEF Entered, DataInv
    <3>3. stage' \notin Reading
      BY <2>5 DEF Reading
    <3> QED BY <2>5, <3>1, <3>2, <3>3 DEF DataInv
  <2> QED BY <2>1, <2>3, <2>4, <2>5
<1>8. CASE Take /\ Accepted(Head(line)) /\ TakeBlock(Head(line))
  <2>1. stage = "block" /\ Sound /\ line # <<>>
    BY <1>8 DEF TakeBlock, Take, Sound, Reading
  <2>2. Head(line) = line[1] /\ line[1] \in Answers
    BY <1>0, <2>1, TailFacts
  <2>3. /\ line[1].data \in Seq(Int) /\ Len(line[1].data) = Due /\ Due \in Nat \ {0}
        /\ Len(data) < Size /\ Len(data) + Due <= Size
        /\ \A i \in 1..Due : line[1].data[i] = offset + Len(data) + i - 1
    <3>1. Len(data) < Size /\ Len(line[1].data) = Due /\ line[1].data \in Seq(Int)
      BY <1>8, <2>1, <2>2 DEF DataInv, Accepted, Due, Answers
    <3>2. Due \in Nat \ {0} /\ Len(data) + Due <= Size
      BY <1>0, <3>1, DueFits DEF Due
    <3>3. \A i \in 1..Due : line[1].data[i] = offset + Len(data) + i - 1
      BY <1>8, <2>1, <2>2 DEF UploadInv
    <3> QED BY <3>1, <3>2, <3>3
  <2>4. /\ data' \in Seq(Int) /\ Len(data') = Len(data) + Due
        /\ \A i \in 1..(Len(data) + Due) :
             data'[i] = IF i <= Len(data) THEN data[i] ELSE line[1].data[i - Len(data)]
    <3>1. data' = data \o line[1].data
      BY <1>8, <2>2 DEF TakeBlock
    <3>2. data \in Seq(Int) /\ line[1].data \in Seq(Int) /\ Len(line[1].data) = Due
      BY <1>0, <2>3
    <3> DEFINE block == line[1].data
    <3>3. /\ data \o block \in Seq(Int) /\ Len(data \o block) = Len(data) + Len(block)
          /\ \A i \in 1..(Len(data) + Len(block)) :
               (data \o block)[i] = IF i <= Len(data) THEN data[i] ELSE block[i - Len(data)]
      BY <3>2, ConcatProperties, ZenonT(30)
    <3> QED BY <3>1, <3>2, <3>3, ZenonT(30)
  <2>5. \A i \in DOMAIN data' : data'[i] = offset + i - 1
    <3>1. \A i \in DOMAIN data : data[i] = offset + i - 1
      BY <2>1 DEF DataInv, Reading
    <3>2. SUFFICES ASSUME NEW i \in 1..(Len(data) + Due) PROVE data'[i] = offset + i - 1
      BY <2>4
    <3>3. CASE i <= Len(data)
      <4>1. i \in DOMAIN data /\ data'[i] = data[i]
        BY <1>0, <2>3, <2>4, <3>3
      <4> QED BY <3>1, <4>1
    <3>4. CASE i > Len(data)
      <4>1. i - Len(data) \in 1..Due /\ data'[i] = line[1].data[i - Len(data)]
        BY <1>0, <2>3, <2>4, <3>4
      <4>2. line[1].data[i - Len(data)] = offset + Len(data) + (i - Len(data)) - 1
        BY <2>3, <4>1
      <4> QED BY <1>0, <4>1, <4>2
    <3> QED BY <1>0, <2>3, <3>3, <3>4
  <2>6. special' /\ Size' = Size /\ offset' = offset /\ stage' = IF Len(data') < Size THEN "block" ELSE "exit"
    BY <1>8, <2>1 DEF TakeBlock, DataInv, Reading, Size
  <2>7. Len(data') <= Size /\ Len(data') \in Nat
    BY <1>0, <2>3, <2>4
  <2>8. stage' = "block" => Len(data') < Size'
    BY <2>6
  <2>9. stage' = "exit" => Len(data') = Size'
    BY <1>0, <2>6, <2>7
  <2> QED BY <2>5, <2>6, <2>8, <2>9 DEF DataInv, Entering
<1>9. CASE Take /\ SaveWindow
  <2>1. stage = "exit" /\ Len(files) > 0
    <3>1. stage = "exit"
      BY <1>9, Zenon DEF SaveWindow
    <3> QED BY <3>1 DEF FilesInv, Fresh, Reading
  <2>2. data' = <<>> /\ special' = special /\ stage' \in {"upload", FirstToLeave(FALSE, special)}
    BY <1>9, <2>1, WindowSaved
  <2>3. CASE stage' = "upload"
    <3>1. special' /\ DOMAIN data' = {}
      BY <2>1, <2>2 DEF DataInv, Reading
    <3> QED BY <2>2, <2>3, <3>1 DEF DataInv, Entering
  <2>4. CASE stage' = FirstToLeave(FALSE, special)
    BY <1>1, <2>4, LeaveStages DEF TypeOK
  <2> QED BY <2>2, <2>3, <2>4
<1> QED BY <1>3, <1>4, <1>5, <1>6, <1>7, <1>8, <1>9 DEF Next, Run, Thread, CtrlC, Take

--------------------------------------------------------------------------------
(***************************************************************************)
(* The files, and what a success rests on.                                 *)
(***************************************************************************)

\* Every byte of the window is in the file of the pass, and at its place.
LEMMA WindowComplete ==
    ASSUME TypeOK, LinkTypeOK, DataInv, FilesInv, SaveWindow
    PROVE  /\ Len(files) > 0 /\ FilesFaithful'
           /\ \A p \in DOMAIN files, at \in Positions :
                p < Len(files) \/ at < offset + Window => files'[p][at] # Padding
<1>0. /\ stage = "exit" /\ Len(files) > 0 /\ Len(data) = Size
      /\ \A p \in DOMAIN files : \A at \in Positions :
           p < Len(files) \/ at < offset => files[p][at] # Padding
      /\ \A i \in DOMAIN data : data[i] = offset + i - 1
  <2>1. stage = "exit"
    BY Zenon DEF SaveWindow
  <2> QED BY <2>1 DEF FilesInv, DataInv, Fresh, Reading
<1>1. /\ DOMAIN files = 1..Len(files) /\ Len(files) \in Nat /\ DOMAIN data = 1..Len(data) /\ Len(data) \in Nat
      /\ offset \in Positions /\ offset \in Nat /\ Length \in Nat \ {0} /\ Window \in Nat \ {0}
      /\ files \in Seq([Positions -> Int])
  BY Types DEF Positions, LinkTypeOK
<1>2. /\ DOMAIN files' = DOMAIN files
      /\ \A p \in DOMAIN files : p # Len(files) => files'[p] = files[p]
      /\ files'[Len(files)] = Saved(files[Len(files)])
  <2>1. files' \in Seq([Positions -> Int]) /\ Len(files') = Len(files)
    BY <1>0, WindowSaved
  <2>2. DOMAIN files' = 1..Len(files')
    BY <2>1
  <2>3. /\ \A p \in DOMAIN files : p # Len(files) => files'[p] = files[p]
        /\ files'[Len(files)] = Saved(files[Len(files)])
    BY <1>0, WindowSaved
  <2> QED BY <1>1, <2>1, <2>2, <2>3
<1>3. ASSUME NEW at \in Positions
      PROVE  files'[Len(files)][at] =
               IF at - offset + 1 \in DOMAIN data THEN at ELSE files[Len(files)][at]
  <2>1. DOMAIN files[Len(files)] = Positions
    BY <1>0, <1>1
  <2>2. files'[Len(files)][at] =
          IF at - offset + 1 \in DOMAIN data THEN data[at - offset + 1] ELSE files[Len(files)][at]
    BY <1>2, <1>3, <2>1 DEF Saved
  <2>3. at \in Nat
    BY <1>3 DEF Positions
  <2>4. at - offset + 1 \in DOMAIN data => data[at - offset + 1] = at
    <3>1. at - offset + 1 \in DOMAIN data => data[at - offset + 1] = offset + (at - offset + 1) - 1
      BY <1>0
    <3> QED BY <1>1, <2>3, <3>1
  <2> QED BY <2>2, <2>4
<1>4. FilesFaithful'
  <2>1. \A p \in DOMAIN files : \A at \in Positions : files[p][at] \in {Padding, at}
    BY DEF FilesInv, FilesFaithful, Positions
  <2>2. \A p \in DOMAIN files : \A at \in Positions : files'[p][at] \in {Padding, at}
    BY <1>0, <1>1, <1>2, <1>3, <2>1
  <2> QED BY <1>2, <2>2 DEF FilesFaithful, Positions
<1>5. ASSUME NEW p \in DOMAIN files, NEW at \in Positions, p < Len(files) \/ at < offset + Window
      PROVE  files'[p][at] # Padding
  <2>1. CASE p # Len(files)
    BY <1>0, <1>1, <1>2, <1>5, <2>1
  <2>2. CASE p = Len(files) /\ at - offset + 1 \in DOMAIN data
    <3>1. files'[p][at] = at /\ at \in Nat
      BY <1>3, <1>5, <2>2 DEF Positions
    <3> QED BY <3>1 DEF Padding
  <2>3. CASE p = Len(files) /\ at - offset + 1 \notin DOMAIN data
    <3>1. at \in Nat /\ at < Length
      BY <1>1, <1>5 DEF Positions
    <3>2. at < offset
      <4>1. Size = IF Window <= Length - offset THEN Window ELSE Length - offset
        BY DEF Size, MinOf
      <4>2. ~(at - offset + 1 \in 1..Size) /\ at < offset + Window
        BY <1>0, <1>1, <1>5, <2>3
      <4> QED BY <1>1, <3>1, <4>1, <4>2
    <3>3. files'[p][at] = files[p][at]
      BY <1>3, <1>5, <2>3
    <3> QED BY <1>0, <1>5, <3>2, <3>3
  <2> QED BY <2>1, <2>2, <2>3
<1> QED BY <1>0, <1>4, <1>5

\* The files are filled from their beginning, one pass behind the other.
LEMMA FilesStep ==
    ASSUME TypeOK, LinkTypeOK, SuccessInv, LineInv, UploadInv, DataInv, FilesInv, Next
    PROVE  FilesInv'
<1>0. /\ DOMAIN files = 1..Len(files) /\ Len(files) \in Nat /\ Passes \in {1, 2} /\ Len(files) <= Passes
      /\ offset \in Nat /\ Window \in Nat \ {0} /\ Length \in Nat \ {0}
      /\ files \in Seq([Positions -> Int])
  BY Types DEF Positions, LinkTypeOK, TypeOK
<1>1. ASSUME files' = files PROVE FilesFaithful'
  BY <1>1 DEF FilesInv, FilesFaithful
<1>2. ASSUME files' = files, stage' \notin Reading PROVE FilesInv'
  BY <1>1, <1>2 DEF FilesInv
<1>3. ASSUME files' = files, offset' = offset, stage \in Reading, stage' \in Reading, Fresh' <=> Fresh
      PROVE  FilesInv'
  BY <1>1, <1>3 DEF FilesInv
<1>4. CASE Environment \/ OpenCall
  <2>1. UNCHANGED reader \/ OpenCall
    BY <1>4 DEF Environment, Serve, ServeShort, Decline, LoseRequest, LoseAnswer, PowerCycle
  <2>2. UNCHANGED <<stage, waiting, offset, files>>
    BY <2>1 DEF OpenCall, reader
  <2> QED BY <1>2, <1>3, <2>2 DEF Fresh
<1>5. CASE \/ OpenFails \/ TransportFails \/ Interrupted \/ CleanupInterrupted \/ Disconnect \/ Release
           \/ Take /\ (Failed \/ LeaveStep)
  <2>1. stage' \notin Reading /\ files' = files
    BY <1>5, OnlyLeaves DEF Leaf, Leaving, Reading
  <2> QED BY <1>2, <2>1
<1>6. CASE Open
  BY <1>2, <1>6 DEF Open, Reading
<1>7. CASE Ask
  <2>1. stage' = stage /\ offset' = offset /\ waiting' /\ ~waiting
        /\ files' = IF stage = "upload" /\ offset = 0 THEN Append(files, EmptyFile) ELSE files
    BY <1>7 DEF Ask
  <2>2. CASE ~(stage = "upload" /\ offset = 0)
    BY <1>2, <1>3, <2>1, <2>2 DEF Fresh
  <2>3. CASE stage = "upload" /\ offset = 0
    <3>1. /\ Len(files) < Passes
          /\ \A p \in DOMAIN files : \A at \in Positions : files[p][at] # Padding
      BY <2>1, <2>3 DEF FilesInv, Fresh, Reading
    <3>2. EmptyFile \in [Positions -> Int] /\ \A at \in Positions : EmptyFile[at] = Padding
      BY DEF EmptyFile, Positions, Padding
    <3>3. /\ Len(files') = Len(files) + 1 /\ DOMAIN files' = 1..(Len(files) + 1)
          /\ \A p \in DOMAIN files : files'[p] = files[p]
          /\ files'[Len(files) + 1] = EmptyFile
      BY <1>0, <2>1, <2>3, <3>2, AppendFacts
    <3>4. \A p \in DOMAIN files' : p \in DOMAIN files \/ p = Len(files) + 1
      BY <1>0, <3>3
    <3>5. FilesFaithful'
      <4>1. \A p \in DOMAIN files : \A at \in Positions : files[p][at] \in {Padding, at}
        BY DEF FilesInv, FilesFaithful, Positions
      <4>2. \A p \in DOMAIN files' : \A at \in Positions : files'[p][at] \in {Padding, at}
        BY <3>2, <3>3, <3>4, <4>1
      <4> QED BY <4>2 DEF FilesFaithful, Positions
    <3>6. Len(files') <= Passes /\ Len(files') > 0
      BY <1>0, <3>1, <3>3
    <3>7. \A p \in DOMAIN files', at \in Positions : p < Len(files') \/ at < offset' => files'[p][at] # Padding
      <4>1. SUFFICES ASSUME NEW p \in DOMAIN files', NEW at \in Positions, p < Len(files') \/ at < offset'
                     PROVE  files'[p][at] # Padding
        OBVIOUS
      <4>2. at \in Nat
        BY <4>1 DEF Positions
      <4>3. p \in DOMAIN files
        BY <1>0, <2>1, <2>3, <3>3, <4>1, <4>2
      <4> QED BY <3>1, <3>3, <4>1, <4>3
    <3>8. ~Fresh'
      BY <2>1 DEF Fresh
    <3> QED BY <3>5, <3>6, <3>7, <3>8 DEF FilesInv
  <2> QED BY <2>2, <2>3
<1>8. CASE Take /\ Entered /\ waiting' = FALSE
  <2>1. CASE stage' \notin Reading
    BY <1>2, <1>8, <2>1 DEF Entered
  <2>2. CASE stage' \in Reading
    <3>1. stage' = "upload" /\ files' = files /\ files = <<>> /\ offset' = 0
      BY <1>8, <2>2 DEF Entered, Entering, Reading, DataInv
    <3>2. Fresh' /\ Len(files') = 0 /\ DOMAIN files' = {}
      BY <1>8, <3>1 DEF Fresh
    <3>3. Len(files') <= Passes /\ Len(files') < Passes
      BY <1>0, <3>2
    <3> QED BY <1>1, <3>1, <3>2, <3>3 DEF FilesInv
  <2> QED BY <2>1, <2>2
<1>9. CASE Take /\ (BeginBlocks \/ TakeBlock(Head(line)))
  <2>1. stage \in Reading /\ stage' \in Reading /\ files' = files /\ offset' = offset /\ ~Fresh /\ ~Fresh'
    BY <1>9 DEF BeginBlocks, TakeBlock, Reading, Fresh, Take
  <2> QED BY <1>3, <2>1
<1>10. CASE Take /\ SaveWindow /\ waiting' = FALSE
  <2>1. /\ Len(files) > 0 /\ FilesFaithful' /\ Len(files') = Len(files) /\ DOMAIN files' = DOMAIN files
        /\ \A p \in DOMAIN files, at \in Positions :
             p < Len(files) \/ at < offset + Window => files'[p][at] # Padding
    <3>1. Len(files) > 0 /\ FilesFaithful' /\ \A p \in DOMAIN files, at \in Positions :
             p < Len(files) \/ at < offset + Window => files'[p][at] # Padding
      BY <1>10, WindowComplete
    <3>2. Len(files') = Len(files) /\ files' \in Seq([Positions -> Int])
      BY <1>10, <3>1, WindowSaved
    <3> QED BY <1>0, <3>1, <3>2
  <2>2. CASE LastWindow /\ Len(files) = Passes
    <3>1. stage' \notin Reading
      <4>1. stage' = FirstToLeave(FALSE, special)
        BY <1>10, <2>1, <2>2, WindowSaved
      <4> QED BY <4>1 DEF FirstToLeave, Reading
    <3> QED BY <2>1, <3>1 DEF FilesInv
  <2>3. CASE LastWindow /\ Len(files) # Passes
    <3>1. stage' = "upload" /\ offset' = 0
      BY <1>10, <2>1, <2>3, WindowSaved
    <3>2. Fresh' /\ Len(files') < Passes
      <4>1. Len(files) < Passes
        <5>1. Passes \in Nat
          BY Constants
        <5>2. Len(files) \in Nat /\ Len(files) <= Passes
          BY <1>0
        <5>3. Len(files) # Passes
          BY <2>3
        <5> QED BY <5>1, <5>2, <5>3
      <4> QED BY <1>10, <2>1, <3>1, <4>1 DEF Fresh
    <3>3. \A at \in Positions : at < offset + Window
      <4>1. offset + Window >= Length
        BY <2>3 DEF LastWindow
      <4>2. \A at \in Positions : at \in Nat /\ at < Length
        BY <1>0 DEF Positions
      <4> QED BY <1>0, <4>1, <4>2
    <3>4. Len(files') <= Passes
      BY <1>0, <2>1
    <3> QED BY <2>1, <3>2, <3>3, <3>4 DEF FilesInv
  <2>4. CASE ~LastWindow
    <3>1. stage' = "upload" /\ offset' = offset + Window
      BY <1>10, <2>1, <2>4, WindowSaved
    <3>2. ~Fresh'
      BY <1>0, <3>1 DEF Fresh
    <3>3. Len(files') <= Passes
      BY <1>0, <2>1
    <3> QED BY <2>1, <3>1, <3>2, <3>3 DEF FilesInv
  <2> QED BY <2>2, <2>3, <2>4
<1> QED BY <1>4, <1>5, <1>6, <1>7, <1>8, <1>9, <1>10 DEF Next, Run, Thread, CtrlC, Take

\* A capture that is complete: what the report of a success says of the files.
Complete ==
    /\ Len(files) = Passes
    /\ \A p \in DOMAIN files : \A at \in Positions : files[p][at] # Padding

\* A run succeeds behind the last window of the last pass, and keeps what it has
\* through its cleanup; an error takes the success away.
LEMMA SuccessStep ==
    ASSUME TypeOK, LinkTypeOK, DeviceInv, SuccessInv, DataInv, FilesInv, Next
    PROVE  SuccessInv'
<1>0. report \in Reports /\ device \in Adapter /\ special \in BOOLEAN /\ upload \in BOOLEAN
  BY DEF TypeOK, LinkTypeOK
<1>1. ASSUME stage' \in Leaf, report'.status \notin Successes PROVE SuccessInv'
  BY <1>1 DEF SuccessInv, Leaf, Leaving, Entering, Reading
<1>2. ASSUME UNCHANGED <<stage, special, files, report>>, stage \notin {"open", "close", "ended", "broken"},
             device' = device
      PROVE  SuccessInv'
  BY <1>2 DEF SuccessInv
<1>3. ASSUME report.status \in Successes
      PROVE  Complete /\ stage \in Leaf \ {"leaveExit", "broken"} /\ (stage = "leaveStop" => special)
             /\ (stage # "ended" => Owned(device))
  BY <1>3 DEF SuccessInv, Complete
<1>4. ASSUME Complete, files' = files, special' = special, device' = device, Owned(device),
             stage' \in Leaf \ {"leaveExit", "ended", "broken"}, stage' = "leaveStop" => special
      PROVE  SuccessInv'
  <2>1. Complete'
    BY <1>4 DEF Complete
  <2> QED BY <1>4, <2>1 DEF SuccessInv, Complete, Leaf, Leaving, Entering, Reading
<1>5. CASE Environment
  <2>1. UNCHANGED reader
    BY <1>5 DEF Environment, Serve, ServeShort, Decline, LoseRequest, LoseAnswer, PowerCycle
  <2> QED BY <2>1 DEF reader, SuccessInv
<1>6. CASE OpenCall
  <2>1. stage = "open" /\ stage' = "open" /\ report' = report
    BY <1>6 DEF OpenCall
  <2>2. report.status = "in_progress"
    BY <2>1 DEF SuccessInv
  <2> QED BY <2>1, <2>2 DEF SuccessInv, Successes
<1>7. CASE OpenFails \/ Open
  <2>1. stage = "open" /\ report.status = "in_progress" /\ stage' \in {"close", "identify"}
    BY <1>7 DEF OpenFails, Open, SuccessInv
  <2>2. \/ stage' = "close" /\ report'.status \notin Successes
        \/ stage' = "identify" /\ report' = report
    BY <1>0, <1>7, <2>1 DEF OpenFails, Open, Reports, Successes
  <2>3. stage' = "close" => SuccessInv'
    BY <1>1, <2>2 DEF Leaf
  <2> QED BY <2>1, <2>2, <2>3 DEF SuccessInv, Successes
<1>8. CASE Ask
  <2>1. stage' = stage /\ device' = device /\ report' = report /\ stage \in Exchanges
        /\ (special => special') /\ (stage # "upload" => files' = files)
    BY <1>8 DEF Ask, NotedSpecial
  <2> QED BY <2>1 DEF SuccessInv, Exchanges, Leaf, Leaving, Entering, Reading
<1>9. CASE Interrupted \/ ((TransportFails \/ Take) /\ Failed)
  <2>1. stage \in Exchanges /\ stage' \in Leaf
    BY <1>9, OnlyLeaves DEF Interrupted, TransportFails, Take, LinkTypeOK, Exchanges
  <2>2. CASE stage \notin Leaving
    <3>1. report'.status \in {"in_progress", "requires_attention"}
      <4>1. report.status = "in_progress"
        BY <2>1, <2>2 DEF SuccessInv, Exchanges
      <4> QED BY <1>0, <1>9, <2>2, <4>1 DEF Interrupted, Leave, Failed, Reports
    <3> QED BY <1>1, <2>1, <3>1 DEF Successes
  <2>3. CASE stage \in Leaving
    <3>1. /\ Failed /\ UNCHANGED <<files, special, device>>
      BY <1>9, <2>3, FailedStep DEF Interrupted, TransportFails, Take, Leaving, Entering, Reading, Exchanges
    <3>2. report'.status = report.status /\ stage' \in Leaf \ {"ended", "broken"} /\ (stage' = "leaveStop" => special)
      BY <1>0, <2>1, <2>3, <3>1, FailedStep DEF Reports
    <3>3. report.status \in Successes => stage' # "leaveExit"
      BY <1>0, <1>3, <2>3, <3>1 DEF Failed, FirstToLeave, Leaving
    <3>4. stage # "ended"
      BY <2>3 DEF Leaving
    <3> QED BY <1>1, <1>3, <1>4, <3>1, <3>2, <3>3, <3>4
  <2> QED BY <2>2, <2>3
<1>10. CASE Take /\ (Entered \/ BeginBlocks \/ TakeBlock(Head(line)))
  <2>1. stage \in Entering \union Reading /\ stage' \in Entering \union Reading /\ report' = report
    BY <1>10 DEF Entered, BeginBlocks, TakeBlock, Entering, Reading
  <2>2. report.status = "in_progress"
    BY <2>1 DEF SuccessInv
  <2> QED BY <2>1, <2>2 DEF SuccessInv, Successes, Entering, Reading
<1>11. CASE Take /\ SaveWindow
  <2>1. stage = "exit" /\ Len(files) > 0
    BY <1>11, WindowComplete, Zenon DEF SaveWindow
  <2>2. report.status = "in_progress" /\ special /\ Owned(device) /\ device' = device /\ special' = special
    BY <1>11, <2>1, WindowSaved DEF SuccessInv, DataInv, DeviceInv, Reading, Take
  <2>3. CASE LastWindow /\ Len(files) = Passes
    <3>1. stage' = FirstToLeave(FALSE, special)
      BY <1>11, <2>1, <2>3, WindowSaved
    <3>2. stage' = "leaveStop"
      BY <2>2, <3>1 DEF FirstToLeave
    <3>3. Complete'
      <4>1. DOMAIN files' = DOMAIN files /\ Len(files') = Len(files)
        <5>1. files' \in Seq([Positions -> Int]) /\ Len(files') = Len(files)
          BY <1>11, <2>1, WindowSaved
        <5> QED BY <5>1, Types
      <4>2. \A at \in Positions : at < offset + Window
        <5>1. offset + Window >= Length /\ offset \in Nat /\ Window \in Nat /\ Length \in Nat
          BY <2>3, Types DEF LastWindow, Positions
        <5>2. \A at \in Positions : at \in Nat /\ at < Length
          BY <5>1 DEF Positions
        <5> QED BY <5>1, <5>2
      <4>3. \A p \in DOMAIN files : \A at \in Positions : files'[p][at] # Padding
        BY <1>11, <4>2, WindowComplete
      <4> QED BY <2>3, <4>1, <4>3 DEF Complete
    <3> QED BY <2>2, <3>2, <3>3 DEF SuccessInv, Complete, Leaf, Leaving, Entering, Reading
  <2>4. CASE ~(LastWindow /\ Len(files) = Passes)
    <3>1. stage' = "upload" /\ report' = report
      BY <1>11, <2>1, <2>4, WindowSaved
    <3> QED BY <2>2, <3>1 DEF SuccessInv, Successes
  <2> QED BY <2>3, <2>4
<1>12. CASE Take /\ LeaveStep
  <2>1. /\ stage \in Leaving /\ stage' \in Leaf \ {"leaveExit", "close", "ended", "broken"} /\ UNCHANGED <<files, report, device>>
        /\ stage' = "leaveStop" => special /\ stage = "leaveExit"
        /\ special' = (special /\ stage # "leaveExtend")
    BY <1>0, <1>12, LeaveStages DEF LeaveStep, Take, Leaf, Leaving
  <2>2. CASE report.status \in Successes
    <3>1. Complete' /\ Owned(device') /\ stage' # "leaveStop"
      BY <1>3, <2>1, <2>2 DEF Complete, Leaving
    <3> QED BY <2>1, <3>1 DEF SuccessInv, Complete, Leaf, Leaving, Entering, Reading
  <2>3. CASE report.status \notin Successes
    BY <1>1, <2>1, <2>3
  <2> QED BY <2>2, <2>3
<1>13. CASE Disconnect
  <2>1. PICK fails \in BOOLEAN : report' = [report EXCEPT !.errors = report.errors \/ fails]
    BY <1>13 DEF Disconnect
  <2>2. report'.status = report.status
    BY <1>0, <2>1 DEF Reports
  <2>3. stage = "release" /\ stage' = "close" /\ UNCHANGED <<files, special, device>>
    BY <1>13 DEF Disconnect
  <2> QED BY <1>1, <1>3, <1>4, <2>2, <2>3 DEF Leaf
<1>14. CASE Release
  <2>1. PICK refused \in Refusals(device) :
          /\ device' = IF Owned(device) THEN Closed(device, refused) ELSE device
          /\ report' = [report EXCEPT !.errors = report.errors \/ (Owned(device) /\ CloseRaises(device, refused)),
               !.status = StatusAfter(report.errors \/ (Owned(device) /\ CloseRaises(device, refused)))]
    BY <1>14 DEF Release
  <2>2. stage = "close" /\ stage' = "ended" /\ UNCHANGED <<files, special>>
    BY <1>14 DEF Release
  <2> DEFINE errors == report.errors \/ (Owned(device) /\ CloseRaises(device, refused))
  <2>3. report'.errors = errors /\ report'.status = StatusAfter(errors)
    <3>1. report' = [report EXCEPT !.errors = errors, !.status = StatusAfter(errors)]
      BY <2>1
    <3> HIDE DEF errors
    <3> QED BY <1>0, <3>1 DEF Reports
  <2>4. CASE errors
    <3>1. report'.status = "requires_attention"
      BY <2>3, <2>4 DEF StatusAfter
    <3> QED BY <1>1, <2>2, <3>1 DEF Leaf, Successes
  <2>5. CASE ~errors
    <3>1. report'.status = report.status /\ ~report'.errors
      BY <2>3, <2>5 DEF StatusAfter
    <3>2. CASE report.status \in Successes
      <4>1. Complete' /\ Owned(device)
        BY <1>3, <2>2, <3>2 DEF Complete
      <4>2. device'.held => device'.kind = "j2534"
        <5>1. refused = {} \/ device.kind = "j2534"
          BY <2>5, <4>1 DEF CloseRaises
        <5>2. device' = Closed(device, refused) /\ device'.kind = device.kind /\ (device'.held => "handle" \in refused)
          BY <1>0, <2>1, <4>1 DEF Closed, Adapter
        <5> QED BY <5>1, <5>2
      <4> QED BY <2>2, <3>1, <4>1, <4>2 DEF SuccessInv, Complete, Leaf, Leaving, Entering, Reading
    <3>3. CASE report.status \notin Successes
      BY <1>1, <2>2, <3>1, <3>3 DEF Leaf
    <3> QED BY <3>2, <3>3
  <2> QED BY <2>4, <2>5
<1>15. CASE CleanupInterrupted
  BY <1>1, <1>15, BrokenOff DEF Leaf, Successes
<1> QED BY <1>5, <1>6, <1>7, <1>8, <1>9, <1>10, <1>11, <1>12, <1>13, <1>14, <1>15 DEF Next, Run, Thread, CtrlC, Take, TransportFails

\* Behind the stop, and behind the request that follows it, the controller keeps
\* neither session nor upload, as long as no exchange of the cleanup has failed.
LEMMA CleanStep ==
    ASSUME TypeOK, LinkTypeOK, SuccessInv, DataInv, LineInv, CleanInv, FilesInv, Next
    PROVE  CleanInv'
<1> DEFINE Good == report.status \in Successes /\ ~report.errors
           Clean == ecu.session # "special" /\ ecu.next = <<>>
<1>0. /\ report \in Reports /\ special \in BOOLEAN /\ upload \in BOOLEAN
      /\ ecu \in [session : Sessions, key : BOOLEAN, next : {<<>>} \union [at : Nat, left : Nat]]
      /\ Len(line) \in Nat /\ line \in Seq(Answers) /\ (line = <<>> <=> Len(line) = 0)
  BY Types DEF TypeOK, LinkTypeOK
<1>1. ASSUME ~Good' PROVE CleanInv'
  BY <1>1 DEF CleanInv
<1>2. ASSUME Good PROVE Sound /\ stage \in Leaf \ {"leaveExit", "broken"}
  BY <1>2 DEF Sound, SuccessInv
<1>3. ASSUME Good, stage \in {"leaveExtend", "release", "close", "ended"} PROVE Clean
  BY <1>3 DEF CleanInv
<1>4. ASSUME Good, Clean, ecu' = ecu, stage' \notin {"leaveStop"} PROVE CleanInv'
  BY <1>4 DEF CleanInv
<1>5. ASSUME stage' = "leaveStop", line' = <<>> PROVE CleanInv'
  BY <1>5 DEF CleanInv
<1>6. CASE Environment
  <2>1. UNCHANGED <<stage, report, waiting>>
    BY <1>6 DEF Environment, Serve, ServeShort, Decline, LoseRequest, LoseAnswer, PowerCycle, reader
  <2>2. SUFFICES ASSUME Good PROVE CleanInv'
    BY <1>1, <2>1
  <2>3. Sound /\ stage \in Leaf \ {"leaveExit", "broken"}
    BY <1>2, <2>2
  <2>4. ASSUME NEW ok \in BOOLEAN, NEW bytes \in Seq(Int), Replied(ok, bytes)
        PROVE  /\ Asked = stage /\ stage \in {"leaveStop", "leaveExtend"} /\ line = <<>> /\ toEcu # <<>>
               /\ line' = <<[service |-> Service[stage], ok |-> ok, data |-> bytes]>>
    <3>1. waiting /\ Asked = stage /\ line = <<>>
          /\ line' = <<[service |-> Service[stage], ok |-> ok, data |-> bytes]>>
      BY <2>3, <2>4, RepliedAlone
    <3>2. stage \in {"leaveStop", "leaveExtend"}
      BY <2>3, <3>1 DEF LinkTypeOK, Leaf, Leaving, Exchanges, Entering, Reading
    <3> QED BY <2>4, <3>1, <3>2 DEF Replied
  <2>5. CASE Serve \/ ServeShort
    <3>1. /\ ecu' = Behind(Head(toEcu)) /\ Served
          /\ \E bytes \in Seq(Int) : Replied(TRUE, bytes)
      BY <2>5, ServeReplies
    <3>2. Asked = stage /\ stage \in {"leaveStop", "leaveExtend"}
      BY <2>4, <3>1
    <3>3. CASE stage = "leaveStop"
      BY <2>1, <3>1, <3>2, <3>3 DEF Behind, CleanInv
    <3>4. CASE stage = "leaveExtend"
      <4>1. ecu'.session = "extended" /\ ecu'.next = <<>>
        BY <3>1, <3>2, <3>4 DEF Behind, Ecu0
      <4> QED BY <2>1, <3>4, <4>1 DEF CleanInv
    <3> QED BY <3>2, <3>3, <3>4
  <2>6. CASE Decline
    <3>1. Replied(FALSE, <<>>) /\ <<>> \in Seq(Int) /\ ecu' = ecu
      BY <2>6 DEF Decline, Reply, Replied
    <3>2. /\ stage \in {"leaveStop", "leaveExtend"}
          /\ line' = <<[service |-> Service[stage], ok |-> FALSE, data |-> <<>>]>>
      BY <2>4, <3>1
    <3>3. ~line'[1].ok
      BY <3>2
    <3> QED BY <1>3, <2>1, <2>2, <3>1, <3>2, <3>3 DEF CleanInv
  <2>7. CASE LoseRequest
    BY <2>1, <2>7 DEF LoseRequest, CleanInv
  <2>8. CASE LoseAnswer
    <3>1. line' = <<>> /\ ecu' = ecu
      BY <1>0, <2>3, <2>8 DEF LoseAnswer, LineInv
    <3> QED BY <1>5, <2>1, <3>1 DEF CleanInv
  <2>9. CASE PowerCycle
    <3>1. ecu' = Ecu0 /\ ecu'.session # "special" /\ ecu'.next = <<>> /\ line' = line
      BY <2>9 DEF PowerCycle, Ecu0
    <3> QED BY <3>1 DEF CleanInv
  <2> QED BY <1>6, <2>5, <2>6, <2>7, <2>8, <2>9 DEF Environment
<1>7. CASE OpenCall \/ OpenFails \/ Open
  <2>1. report'.status \notin Successes
    <3>1. report.status = "in_progress"
      BY <1>7 DEF OpenCall, OpenFails, Open, SuccessInv
    <3> QED BY <1>0, <1>7, <3>1 DEF OpenCall, OpenFails, Open, Reports, Successes
  <2> QED BY <1>1, <2>1
<1>8. CASE Ask
  <2>1. stage' = stage /\ report' = report /\ ecu' = ecu /\ line' = line
    BY <1>8 DEF Ask
  <2> QED BY <2>1 DEF CleanInv
<1>9. CASE Interrupted \/ ((TransportFails \/ Take) /\ Failed)
  <2>1. ~Good'
    BY <1>9, FailedUnsound DEF TransportFails, Take, LinkTypeOK
  <2> QED BY <1>1, <2>1
<1>10. CASE Take /\ (Entered \/ BeginBlocks \/ TakeBlock(Head(line)))
  <2>1. report.status = "in_progress" /\ report' = report
    BY <1>10 DEF Entered, BeginBlocks, TakeBlock, SuccessInv, Reading
  <2> QED BY <1>1, <2>1 DEF Successes
<1>11. CASE Take /\ Accepted(Head(line)) /\ SaveWindow
  <2>1. stage = "exit" /\ Len(files) > 0 /\ special /\ Sound /\ report.status = "in_progress"
    <3>1. stage = "exit" /\ Len(files) > 0
      BY <1>11, WindowComplete, Zenon DEF SaveWindow
    <3> QED BY <3>1 DEF DataInv, Sound, SuccessInv, Reading
  <2>2. line' = <<>>
    BY <1>11, <2>1, TakenAlone
  <2>3. CASE LastWindow /\ Len(files) = Passes
    <3>1. stage' = "leaveStop"
      <4>1. stage' = FirstToLeave(FALSE, special)
        BY <1>11, <2>1, <2>3, WindowSaved
      <4> QED BY <2>1, <4>1 DEF FirstToLeave
    <3> QED BY <1>5, <2>2, <3>1
  <2>4. CASE ~(LastWindow /\ Len(files) = Passes)
    <3>1. report' = report
      BY <1>11, <2>1, <2>4, WindowSaved
    <3> QED BY <1>1, <2>1, <3>1 DEF Successes
  <2> QED BY <2>3, <2>4
<1>12. CASE Take /\ Accepted(Head(line)) /\ LeaveStep
  <2>1. report' = report /\ ecu' = ecu /\ stage \in Leaving
    BY <1>12 DEF Take, LeaveStep
  <2>2. SUFFICES ASSUME Good PROVE CleanInv'
    BY <1>1, <2>1
  <2>3. Sound /\ stage \in {"leaveStop", "leaveExtend"}
    BY <1>2, <2>1, <2>2 DEF Leaf, Leaving
  <2>4. line # <<>> /\ Head(line) = line[1]
    BY <1>12, <2>3, TakenAlone DEF Take
  <2>5. CASE stage = "leaveStop"
    <3>1. ecu = Ecu0 /\ stage' = "leaveExtend"
      BY <1>12, <2>2, <2>4, <2>5 DEF CleanInv, Accepted, LeaveStep
    <3>2. Clean
      BY <3>1 DEF Ecu0
    <3> QED BY <1>4, <2>1, <2>2, <3>1, <3>2
  <2>6. CASE stage = "leaveExtend"
    <3>1. stage' = "release" /\ Clean
      BY <1>3, <1>12, <2>2, <2>6 DEF LeaveStep
    <3> QED BY <1>4, <2>1, <2>2, <3>1
  <2> QED BY <2>3, <2>5, <2>6
<1>13. CASE Disconnect
  <2>1. PICK fails \in BOOLEAN : report' = [report EXCEPT !.errors = report.errors \/ fails]
    BY <1>13 DEF Disconnect
  <2>2. report'.status = report.status /\ (report.errors => report'.errors)
    BY <1>0, <2>1 DEF Reports
  <2>3. stage = "release" /\ stage' = "close" /\ ecu' = ecu
    BY <1>13 DEF Disconnect
  <2> QED BY <1>1, <1>3, <1>4, <2>2, <2>3
<1>14. CASE Release
  <2>1. PICK errors : report' = [report EXCEPT !.errors = errors, !.status = StatusAfter(errors)]
                      /\ (report.errors => errors)
    BY <1>14 DEF Release
  <2>2. report'.errors = errors /\ report'.status = StatusAfter(errors)
    BY <1>0, <2>1 DEF Reports
  <2>3. stage = "close" /\ stage' = "ended" /\ ecu' = ecu
    BY <1>14 DEF Release
  <2>4. Good' => Good
    BY <2>1, <2>2 DEF StatusAfter
  <2> QED BY <1>1, <1>3, <1>4, <2>3, <2>4
<1>15. CASE CleanupInterrupted
  BY <1>1, <1>15, BrokenOff DEF Successes
<1> QED BY <1>6, <1>7, <1>8, <1>9, <1>10, <1>11, <1>12, <1>13, <1>14, <1>15 DEF Next, Run, Thread, CtrlC, Take, TransportFails

--------------------------------------------------------------------------------
(***************************************************************************)
(* The theorems.                                                           *)
(***************************************************************************)

\* The run begins with nothing open and nothing asked.
LEMMA InitIInv == Init => IInv
<1> SUFFICES ASSUME Init PROVE IInv
  OBVIOUS
<1>1. /\ stage = "open" /\ waiting = FALSE /\ special = FALSE /\ upload = FALSE /\ missed = FALSE
      /\ offset = 0 /\ data = <<>> /\ files = <<>> /\ toEcu = <<>> /\ line = <<>> /\ ecu = Ecu0
      /\ report = [status |-> "in_progress", ranges |-> FALSE, errors |-> FALSE]
  BY DEF Init
<1>2. PICK kind \in Kinds : device = Shut(kind)
  BY DEF Init
<1>3. /\ device \in Adapter /\ device.done = 0 /\ ~device.held /\ ~device.able /\ device.refused = {}
  BY <1>2 DEF Shut, Adapter
<1>4. Len(SetUp[device.kind]) \in {1, 3, 4}
  BY <1>3, SetUps
<1>5. /\ offset \in Positions /\ Size \in 1..Length /\ MaxBlock \in Nat \ {0} /\ Passes \in {1, 2}
      /\ Length \in Nat \ {0}
  <2>1. 0 \in Positions
    BY Constants DEF Positions
  <2> QED BY <1>1, <2>1, SizeType, Constants
<1>6. Len(data) = 0 /\ Len(files) = 0 /\ Len(data) < Size + MaxBlock /\ Len(data) <= Size /\ Len(files) <= Passes
  <2>1. Len(data) = 0 /\ Len(files) = 0
    BY <1>1
  <2>2. 0 < Size + MaxBlock /\ 0 <= Size /\ 0 <= Passes
    BY <1>5
  <2> QED BY <2>1, <2>2
<1>7. TypeOK
  BY <1>1, <1>3, <1>5, <1>6 DEF TypeOK, Ecu0, Positions
<1>8. LinkTypeOK
  BY <1>1, <1>6 DEF LinkTypeOK, Ecu0, Sessions, Reports, Statuses
<1>9. DeviceInv /\ AdapterReleased
  BY <1>1, <1>3, <1>4 DEF DeviceInv, AdapterReleased
<1>10. SessionInv
  BY <1>1 DEF SessionInv, Asking, Ecu0
<1>11. LineInv
  BY <1>1 DEF LineInv
<1>12. UploadInv /\ DataInv
  BY <1>1 DEF UploadInv, DataInv, Reading, Entering
<1>13. FilesInv /\ SuccessInv /\ CleanInv
  BY <1>1 DEF FilesInv, FilesFaithful, SuccessInv, CleanInv, Reading, Successes
<1> QED BY <1>7, <1>8, <1>9, <1>10, <1>11, <1>12, <1>13 DEF IInv

\* No step of the run, of the controller or of the link leaves the invariant.
LEMMA NextIInv == IInv /\ [Next]_vars => IInv'
<1>1. ASSUME IInv, Next PROVE IInv'
  <2>1. /\ TypeOK /\ LinkTypeOK /\ DeviceInv /\ AdapterReleased /\ SessionInv
        /\ LineInv /\ UploadInv /\ DataInv /\ FilesInv /\ SuccessInv /\ CleanInv
    BY <1>1 DEF IInv
  <2>2. TypeOK' /\ LinkTypeOK'
    BY <1>1, <2>1, RunTypes, EnvironmentTypes DEF Next
  <2>3. DeviceInv' /\ AdapterReleased'
    BY <1>1, <2>1, DeviceStep
  <2>4. SessionInv' /\ LineInv'
    BY <1>1, <2>1, SessionStep, LineStep
  <2>5. UploadInv' /\ DataInv'
    BY <1>1, <2>1, UploadStep, DataStep
  <2>6. FilesInv' /\ SuccessInv' /\ CleanInv'
    BY <1>1, <2>1, FilesStep, SuccessStep, CleanStep
  <2> QED BY <2>2, <2>3, <2>4, <2>5, <2>6 DEF IInv
<1>2. ASSUME IInv, UNCHANGED vars PROVE IInv'
  <2>1. /\ UNCHANGED <<stage, waiting, special, upload, offset, data, files, report, device>>
        /\ UNCHANGED <<toEcu, line, ecu, missed>>
    BY <1>2 DEF vars, reader
  <2> QED BY <1>2, <2>1
       DEF IInv, TypeOK, LinkTypeOK, DeviceInv, AdapterClosed, AdapterReleased, SessionInv, Asking, Stopping, Undone,
           LineInv, Sound, UploadInv, UploadAt, Due, Accepted, DataInv, FilesInv, FilesFaithful, Fresh,
           SuccessInv, CleanInv, Size
<1> QED BY <1>1, <1>2

\* The invariant that the properties rest on holds for every range, window and block.
THEOREM Inductive == Spec => []IInv
  BY InitIInv, NextIInv, PTL DEF Spec

\* The variables keep their types: a window never holds more than its bytes, and no
\* pass is recorded beyond the last one.
THEOREM TypesHold == Spec => []TypeOK
<1>1. IInv => TypeOK
  BY DEF IInv
<1> QED BY <1>1, Inductive, PTL

\* At every address a file holds what the controller has there, or padding
\* (haldex_flash.py: read_window and capture).
THEOREM FilesFaithfulHolds == Spec => []FilesFaithful
<1>1. IInv => FilesFaithful
  BY DEF IInv, FilesInv
<1> QED BY <1>1, Inductive, PTL

\* A run that reports success has every byte of every pass, and leaves a controller
\* in none of its sessions and an adapter that is released.
THEOREM SuccessMeansCleanHolds == Spec => []SuccessMeansClean
<1>1. IInv => SuccessMeansClean
  <2>1. ASSUME IInv, stage = "ended", report.status \in Successes
        PROVE  /\ Len(files) = Passes
               /\ \A p \in DOMAIN files : \A at \in Positions : files[p][at] # Padding
               /\ ecu.session # "special" /\ ecu.next = <<>>
               /\ device.held => device.kind = "j2534"
    BY <2>1 DEF IInv, SuccessInv, CleanInv
  <2> QED BY <2>1 DEF SuccessMeansClean, Successes, Positions
<1> QED BY <1>1, Inductive, PTL

\* Whatever replies were lost or late, and wherever Ctrl-C struck, the special session is
\* not left open but where the request to stop did not get through, or Ctrl-C kept leave
\* from sending it (haldex_flash.py:162).
THEOREM SessionLeftHolds == Spec => []SessionLeft
<1>1. IInv => SessionLeft
  <2>1. ASSUME IInv, stage \in {"ended", "broken"}, toEcu = <<>>, ~missed PROVE ecu.session # "special"
    <3>1. ~Undone
      BY <2>1 DEF Undone, Entering, Reading
    <3>2. ~Stopping
      BY <2>1 DEF Stopping
    <3> QED BY <2>1, <3>1, <3>2 DEF IInv, SessionInv
  <2> QED BY <2>1 DEF SessionLeft
<1> QED BY <1>1, Inductive, PTL

\* Wherever opening or the body was cut short, and whatever of the cleanup raised, a run
\* that comes to its end has closed the adapter but for what the driver refused.  One that
\* Ctrl-C breaks off in leave, disconnect or close (runner.py:270-281) leaves it so, or as
\* the body had it, and that only where open_adapter had returned it.
THEOREM AdapterReleasedHolds == Spec => []AdapterReleased
<1>1. IInv => AdapterReleased
  BY DEF IInv
<1> QED BY <1>1, Inductive, PTL
================================================================================
