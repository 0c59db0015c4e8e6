--------------------------- MODULE BslDumperProofs ---------------------------
(***************************************************************************)
(* Proofs about BslDumper, for every table of sectors, every contents of    *)
(* the flash and every number of retries.  IInv of BslDumperInv holds       *)
(* initially and is preserved, one lemma per conjunct.                     *)
(***************************************************************************)
EXTENDS BslDumperInv, SequenceLemmas, FiniteSetTheorems

--------------------------------------------------------------------------------
(***************************************************************************)
(* The constants, and what a step does to the bytes under way.             *)
(***************************************************************************)

LEMMA Constants ==
    /\ Chunks \in Nat \ {0} /\ SaveEvery \in Nat \ {0} /\ ChunkSize \in Nat /\ ChunkSize >= 2
    /\ Blank \in Image /\ \A a \in Addresses : Blank[a] = Erased
    /\ Erased \in Seq(Bytes) /\ Ack \in Bytes
  BY DumperAssumption DEF Blank, Image, Erased, Bytes, Ack

\* Every chunk has an address in the flash.
LEMMA ChunkInFlash ==
    ASSUME NEW c \in 0..(Chunks - 1)
    PROVE  ChunkToFlashAddr(c) \in Flash /\ ChunkToFlashAddr(c) \in Addresses
<1> DEFINE s == CHOOSE s \in DOMAIN Sectors : FirstChunk[s] <= c /\ c < FirstChunk[s] + Sectors[s][2]
<1>1. s \in DOMAIN Sectors /\ FirstChunk[s] <= c /\ c < FirstChunk[s] + Sectors[s][2]
  BY SectorsAssumption
<1>2. ChunkToFlashAddr(c) = Sectors[s][1] + c - FirstChunk[s]
  BY DEF ChunkToFlashAddr
<1> HIDE DEF s
<1>3. Sectors[s][1] \in Nat /\ Sectors[s][2] \in Nat /\ FirstChunk[s] \in Nat /\ Sectors[s] \in Range(Sectors)
  BY <1>1, SectorsAssumption DEF Range
<1>4. ChunkToFlashAddr(c) \in Sectors[s][1]..(Sectors[s][1] + Sectors[s][2] - 1)
  BY <1>1, <1>2, <1>3
<1> QED BY <1>3, <1>4, DumperAssumption DEF Flash

\* Every address of the flash is that of a chunk.
LEMMA FlashInChunks ==
    ASSUME NEW a \in Flash
    PROVE  \E c \in 0..(Chunks - 1) : ChunkToFlashAddr(c) = a
<1>1. PICK s \in DOMAIN Sectors : a \in Sectors[s][1]..(Sectors[s][1] + Sectors[s][2] - 1)
  BY DEF Flash, Range
<1>2. /\ Sectors[s][1] \in Nat /\ Sectors[s][2] \in Nat /\ FirstChunk[s] \in Nat
      /\ FirstChunk[s] + Sectors[s][2] <= Chunks /\ DOMAIN Sectors \subseteq Nat
  BY SectorsAssumption
<1> DEFINE c == FirstChunk[s] + a - Sectors[s][1]
<1>3. c \in 0..(Chunks - 1) /\ FirstChunk[s] <= c /\ c < FirstChunk[s] + Sectors[s][2]
      /\ a = Sectors[s][1] + c - FirstChunk[s]
  <2> DEFINE first == FirstChunk[s]
             start == Sectors[s][1]
             size == Sectors[s][2]
  <2>1. start \in Nat /\ size \in Nat /\ first \in Nat /\ first + size <= Chunks /\ Chunks \in Nat
        /\ a \in start..(start + size - 1)
    BY <1>1, <1>2, Constants
  <2> HIDE DEF first, start, size
  <2>2. LET d == first + a - start
        IN  d \in 0..(Chunks - 1) /\ first <= d /\ d < first + size /\ a = start + d - first
    BY <2>1
  <2> QED BY <2>2 DEF first, start, size
<1> HIDE DEF c
<1>4. ASSUME NEW t \in DOMAIN Sectors, FirstChunk[t] <= c, c < FirstChunk[t] + Sectors[t][2] PROVE t = s
  <2>1. FirstChunk[t] \in Nat /\ Sectors[t][2] \in Nat
    BY SectorsAssumption
  <2>2. ~(s < t)
    <3>1. s < t => FirstChunk[s] + Sectors[s][2] <= FirstChunk[t]
      BY SectorsAssumption
    <3> QED BY <1>2, <1>3, <1>4, <2>1, <3>1
  <2>3. ~(t < s)
    <3>1. t < s => FirstChunk[t] + Sectors[t][2] <= FirstChunk[s]
      BY SectorsAssumption
    <3> QED BY <1>2, <1>3, <1>4, <2>1, <3>1
  <2> QED BY <1>2, <2>2, <2>3
<1>5. ChunkToFlashAddr(c) = a
  <2>1. (CHOOSE t \in DOMAIN Sectors : FirstChunk[t] <= c /\ c < FirstChunk[t] + Sectors[t][2]) = s
    BY <1>3, <1>4
  <2> QED BY <1>3, <2>1 DEF ChunkToFlashAddr
<1> QED BY <1>3, <1>5

\* What the controller sends of a chunk.
LEMMA ContentsFacts ==
    ASSUME NEW a \in Addresses
    PROVE  /\ Contents[a] \in Seq(Bytes) /\ Len(Contents[a]) = ChunkSize /\ Contents[a] # Erased
  BY Constants DEF Contents, Bytes, Erased

\* Among as many numbers in a row as lie between two saves, one is due.
LEMMA MultipleAmong ==
    ASSUME NEW n \in Nat \ {0}, NEW a \in Nat
    PROVE  \E i \in (a + 1)..(a + n) : i % n = 0
<1> DEFINE i == a + n - (a % n)
<1>1. a % n \in 0..(n - 1) /\ a = n * (a \div n) + (a % n) /\ a \div n \in Int
  OBVIOUS
<1>2. i \in (a + 1)..(a + n)
  BY <1>1
<1>3. i = n * ((a \div n) + 1)
  BY <1>1
<1>4. i % n = 0
  <2> DEFINE q == (a \div n) + 1
  <2>1. q \in Int /\ i = n * q
    BY <1>1, <1>3
  <2> HIDE DEF q, i
  <2> QED BY <2>1
<1> QED BY <1>2, <1>4

\* What a flush leaves of the bytes under way.
LEMMA Flushing ==
    ASSUME TypesInv, NEW kept \in {SubSeq(line, n, Len(line)) : n \in 1..(Len(line) + 1)}, Flushed(kept)
    PROVE  /\ kept \in Seq(Bytes) /\ Len(kept) \in Nat /\ Len(kept) <= Len(line)
           /\ \/ kept = <<>> /\ late' = late
              \/ kept # <<>> /\ late' = late + 1
<1>1. PICK n \in 1..(Len(line) + 1) : kept = SubSeq(line, n, Len(line))
  OBVIOUS
<1>2. line \in Seq(Bytes) /\ Len(line) \in Nat
  BY DEF TypesInv
<1>3. kept \in Seq(Bytes) /\ Len(kept) = Len(line) - n + 1
  BY <1>1, <1>2, SuffixFacts
<1>4. Len(kept) \in Nat /\ Len(kept) <= Len(line)
  BY <1>2, <1>3
<1> QED BY <1>3, <1>4 DEF Flushed, OnTime, Late

\* Bytes come late one by one.
LEMMA LateCounts ==
    ASSUME TypesInv, [Next]_vars
    PROVE  late' \in Nat /\ late <= late'
<1>1. late \in Nat
  BY DEF TypesInv
<1>2. late' = late \/ late' = late + 1
  BY DEF Next, vars, Start, Script, Probe, Flushed, HandshakeFails, Answered, NoAnswer, Upload, Read, Accept,
         TooShort, Save, Saved, Stop, Transmit, Watchdog, OnTime, Late
<1> QED BY <1>1, <1>2

\* The ways to go on: the run ends, or the next chunk is asked for.
LEMMA Continuing ==
    ASSUME NEW i, Continue(i)
    PROVE  \/ i = to /\ pc' = "off" /\ result' = "ok"
           \/ i < to /\ pc' = "off" /\ result' = "raised"
           \/ i < to /\ i < Chunks /\ pc' = "probe" /\ result' = result
  BY DEF Continue, Ends

--------------------------------------------------------------------------------
(***************************************************************************)
(* The types, and how far the run has come.                                *)
(***************************************************************************)

\* The run's own state keeps its type.
LEMMA RunTypes ==
    ASSUME TypesInv, RangeInv, Next
    PROVE  /\ pc' \in Stages /\ synced' \in BOOLEAN /\ result' \in Results
           /\ from' \in Nat /\ to' \in Nat /\ idx' \in Nat /\ got' \subseteq 0..(Chunks - 1)
           /\ late' \in Nat
<1>0. /\ pc \in Stages /\ synced \in BOOLEAN /\ result \in Results
      /\ from \in Nat /\ to \in Nat /\ idx \in Nat /\ got \subseteq 0..(Chunks - 1)
  BY DEF TypesInv
<1>1. late' \in Nat
  BY LateCounts
<1>2. CASE Start
  <2>1. PICK a \in 0..(Chunks - 1), b \in 1..(Chunks + 1) :
          from' = a /\ to' = b /\ idx' = a /\ got' = {} /\ pc' = "probe" /\ synced' = FALSE /\ result' = "running"
    BY <1>2 DEF Start
  <2>2. a \in Nat /\ b \in Nat
    BY Constants
  <2> QED BY <1>1, <2>1, <2>2 DEF Stages, Results
<1>3. CASE Accept
  <2>1. idx < Chunks /\ got' = got \union {idx} /\ idx' = idx + 1 /\ UNCHANGED <<synced, from, to>>
    BY <1>3 DEF Accept, RangeInv, Reading
  <2>2. idx \in 0..(Chunks - 1) /\ idx + 1 \in Nat
    BY <1>0, <2>1, Constants
  <2>3. pc' \in Stages /\ result' \in Results
    BY <1>0, <1>3, Continuing DEF Accept, Stages, Results
  <2> QED BY <1>0, <1>1, <2>1, <2>2, <2>3
<1>4. CASE Answered \/ Saved
  <2>1. UNCHANGED <<from, to, idx, got>> /\ synced' \in BOOLEAN
    BY <1>0, <1>4 DEF Answered, Saved
  <2>2. pc' \in Stages /\ result' \in Results
    <3>1. CASE Answered
      BY <1>0, <3>1, Continuing DEF Answered, Stages, Results
    <3>2. CASE Saved
      BY <1>0, <3>2, Continuing DEF Saved, Ends, Stages, Results
    <3> QED BY <1>4, <3>1, <3>2
  <2> QED BY <1>0, <1>1, <2>1, <2>2
<1>5. CASE Probe \/ NoAnswer \/ Upload \/ Read \/ Save
  BY <1>0, <1>1, <1>5 DEF Probe, NoAnswer, Upload, Read, Save, run, Stages
<1>6. CASE HandshakeFails \/ TooShort
  BY <1>0, <1>1, <1>6 DEF HandshakeFails, TooShort, AttemptFails, Ends, Stages, Results
<1>7. CASE Stop
  BY <1>0, <1>1, <1>7 DEF Stop, Ends, Stages, Results
<1>8. CASE Transmit \/ Watchdog
  BY <1>0, <1>1, <1>8 DEF Transmit, Watchdog, run
<1> QED BY <1>2, <1>3, <1>4, <1>5, <1>6, <1>7, <1>8 DEF Next, Script

\* What is under way, and the image and the file, keep their types.
LEMMA TypesStep ==
    ASSUME TypesInv, RangeInv, LineInv, Next
    PROVE  TypesInv'
<1>0. /\ buf \in Seq(Bytes) /\ line \in Seq(Bytes) /\ out \in Seq(Bytes) /\ data \in Image
      /\ file \in [whole : BOOLEAN, image : Image] /\ ecu \in {"boot", "loads", "runs", "silent"}
      /\ idx \in Nat
  BY DEF TypesInv
<1> DEFINE Rest == /\ buf' \in Seq(Bytes) /\ line' \in Seq(Bytes) /\ out' \in Seq(Bytes)
                   /\ data' \in Image /\ file' \in [whole : BOOLEAN, image : Image]
                   /\ ecu' \in {"boot", "loads", "runs", "silent"}
<1>1. SUFFICES Rest
  BY RunTypes DEF TypesInv
<1>2. CASE Start
  <2>1. data' \in Image
    BY <1>0, <1>2, Constants DEF Start, Loaded
  <2> QED BY <1>0, <1>2, <2>1 DEF Start
<1>3. CASE Probe
  <2>1. PICK kept \in {SubSeq(line, n, Len(line)) : n \in 1..(Len(line) + 1)} :
          Flushed(kept) /\ line' = IF ecu = "boot" THEN Append(kept, Ack) ELSE kept
    BY <1>3 DEF Probe
  <2>2. kept \in Seq(Bytes)
    BY <2>1, Flushing
  <2>3. line' \in Seq(Bytes)
    BY <2>1, <2>2, Constants, AppendFacts
  <2>4. ecu' \in {"boot", "loads", "runs", "silent"} /\ UNCHANGED <<buf, out, data, file>>
    BY <1>0, <1>3 DEF Probe, run
  <2> QED BY <1>0, <2>3, <2>4
<1>4. CASE Upload
  <2>1. PICK kept \in {SubSeq(line, n, Len(line)) : n \in 1..(Len(line) + 1)} :
          /\ Flushed(kept)
          /\ \/ ecu' = "runs" /\ out' = Contents[ChunkToFlashAddr(idx)] /\ line' = kept
             \/ ecu' = "silent" /\ line' = Append(kept, Ack) /\ UNCHANGED out
             \/ line' = kept /\ UNCHANGED <<ecu, out>>
    BY <1>4 DEF Upload
  <2>2. kept \in Seq(Bytes)
    BY <2>1, Flushing
  <2>3. line' \in Seq(Bytes)
    <3>1. Append(kept, Ack) \in Seq(Bytes)
      BY <2>2, Constants, AppendFacts
    <3> QED BY <2>1, <2>2, <3>1
  <2>4. idx \in 0..(Chunks - 1)
    BY <1>0, <1>4, Constants DEF Upload, RangeInv, Reading
  <2>5. out' \in Seq(Bytes) /\ ecu' \in {"boot", "loads", "runs", "silent"}
    BY <1>0, <2>1, <2>4, ChunkInFlash, ContentsFacts
  <2>6. buf' = <<>> /\ UNCHANGED <<data, file>>
    BY <1>4 DEF Upload, run
  <2> QED BY <1>0, <2>3, <2>5, <2>6
<1>5. CASE Answered
  <2>1. line # <<>> /\ line' = Tail(line) /\ UNCHANGED <<buf, out, data, file, ecu>>
    BY <1>5 DEF Answered
  <2> QED BY <1>0, <2>1, TailFacts
<1>6. CASE Read
  <2>1. line # <<>> /\ line' = Tail(line) /\ buf' = Append(buf, Head(line)) /\ UNCHANGED <<out, data, file, ecu>>
    BY <1>6 DEF Read, run
  <2>2. line' \in Seq(Bytes) /\ Head(line) \in Bytes
    BY <1>0, <2>1, TailFacts
  <2>3. buf' \in Seq(Bytes)
    BY <1>0, <2>1, <2>2, AppendFacts
  <2> QED BY <1>0, <2>1, <2>2, <2>3
<1>7. CASE Accept
  <2>1. data' \in Image
    BY <1>0, <1>7 DEF Accept, Image
  <2> QED BY <1>0, <1>7, <2>1 DEF Accept
<1>8. CASE Transmit
  <2>1. ecu = "runs" /\ line' = Append(line, Head(out)) /\ out' = Tail(out)
        /\ UNCHANGED <<buf, data, file>> /\ ecu' \in {"boot", "loads", "runs", "silent"}
    BY <1>8 DEF Transmit, run
  <2>2. out # <<>>
    BY <2>1 DEF LineInv
  <2>3. out' \in Seq(Bytes) /\ Head(out) \in Bytes
    BY <1>0, <2>1, <2>2, TailFacts
  <2>4. line' \in Seq(Bytes)
    BY <1>0, <2>1, <2>3, AppendFacts
  <2> QED BY <1>0, <2>1, <2>3, <2>4
<1>9. CASE Save \/ Saved
  <2>1. UNCHANGED <<buf, line, out, data, ecu>>
    BY <1>9 DEF Save, Saved
  <2>2. file' = NoFile \/ file' = [whole |-> TRUE, image |-> data]
    BY <1>9 DEF Save, Saved, Written
  <2>3. NoFile \in [whole : BOOLEAN, image : Image] /\ [whole |-> TRUE, image |-> data] \in [whole : BOOLEAN, image : Image]
    BY <1>0, Constants DEF NoFile
  <2> QED BY <1>0, <2>1, <2>2, <2>3
<1>10. CASE HandshakeFails \/ NoAnswer \/ TooShort
  <2>1. UNCHANGED <<line, out, data, file, ecu>> /\ (buf' = buf \/ buf' = <<>>)
    <3>1. CASE HandshakeFails
      BY <3>1 DEF HandshakeFails, AttemptFails
    <3>2. CASE NoAnswer
      BY <3>2 DEF NoAnswer, run
    <3>3. CASE TooShort
      BY <3>3 DEF TooShort, AttemptFails
    <3> QED BY <1>10, <3>1, <3>2, <3>3
  <2> QED BY <1>0, <2>1, Constants DEF Erased
<1>11. CASE Stop \/ Watchdog
  <2>1. UNCHANGED <<line, data, file>> /\ (buf' = buf \/ buf' = <<>>) /\ (out' = out \/ out' = <<>>)
        /\ (ecu' = ecu \/ ecu' = "boot")
    <3>1. CASE Stop
      BY <3>1 DEF Stop
    <3>2. CASE Watchdog
      BY <3>2 DEF Watchdog, run
    <3> QED BY <1>11, <3>1, <3>2
  <2> QED BY <1>0, <2>1, Constants DEF Erased
<1> QED BY <1>2, <1>3, <1>4, <1>5, <1>6, <1>7, <1>8, <1>9, <1>10, <1>11 DEF Next, Script

\* The range is read chunk by chunk, and the run ends behind its last.
LEMMA RangeStep ==
    ASSUME TypesInv, RangeInv, LineInv, Next
    PROVE  RangeInv'
<1>0. from \in Nat /\ to \in Nat /\ idx \in Nat
  BY DEF TypesInv
<1>1. CASE Start
  <2>1. PICK a \in 0..(Chunks - 1), b \in 1..(Chunks + 1) :
          /\ a < b /\ from' = a /\ to' = b /\ idx' = a /\ got' = {} /\ pc' = "probe"
          /\ synced' = FALSE /\ result' = "running"
    BY <1>1 DEF Start
  <2>2. a \in Nat /\ a < Chunks /\ a <= b /\ a..(a - 1) = {} /\ a <= a
    BY <2>1, Constants
  <2> QED BY <2>1, <2>2 DEF RangeInv, Reading
<1>2. CASE Accept
  <2>1. /\ idx < to /\ idx < Chunks /\ result = "running" /\ synced /\ from <= idx /\ got = from..(idx - 1)
        /\ idx' = idx + 1 /\ got' = got \union {idx} /\ UNCHANGED <<synced, from, to>>
    BY <1>2 DEF Accept, RangeInv, Reading, LineInv
  <2>2. from <= idx + 1 /\ idx + 1 <= to /\ got' = from..idx /\ idx' - 1 = idx
    BY <1>0, <2>1
  <2>3. \/ pc' = "save" /\ result' = result
        \/ pc' = "off"
        \/ pc' = "probe" /\ result' = result /\ idx + 1 < to /\ idx + 1 < Chunks
    BY <1>2, Continuing DEF Accept
  <2> QED BY <2>1, <2>2, <2>3 DEF RangeInv, Reading
<1>3. CASE Answered
  <2>1. idx < to /\ idx < Chunks /\ result = "running" /\ from <= idx /\ got = from..(idx - 1) /\ pc = "await"
        /\ UNCHANGED <<from, to, idx, got>>
    BY <1>3 DEF Answered, RangeInv, Reading
  <2>2. CASE synced' = synced /\ result' = result /\ (pc' = "probe" \/ (pc' = "upload" /\ synced))
    BY <2>1, <2>2 DEF RangeInv, Reading
  <2>3. CASE synced' = TRUE /\ Continue(idx)
    <3>1. pc' = "off" \/ (pc' = "probe" /\ result' = result)
      BY <2>3, Continuing
    <3> QED BY <1>0, <2>1, <2>3, <3>1 DEF RangeInv, Reading
  <2> QED BY <1>3, <2>2, <2>3 DEF Answered
<1>4. CASE Saved
  <2>1. from <= idx /\ got = from..(idx - 1) /\ pc = "saving" /\ UNCHANGED <<synced, from, to, idx, got>>
        /\ idx <= to /\ synced
        /\ (result = "failed" \/ result = "running")
    BY <1>4 DEF Saved, RangeInv
  <2>2. \/ pc' = "off"
        \/ pc' = "probe" /\ result' = result /\ result = "running" /\ idx < to /\ idx < Chunks
    BY <1>4, <2>1, Continuing DEF Saved, Ends
  <2> QED BY <2>1, <2>2 DEF RangeInv, Reading
<1>5. CASE HandshakeFails \/ TooShort
  <2>1. from <= idx /\ idx <= to /\ got = from..(idx - 1) /\ UNCHANGED <<synced, from, to, idx, got>>
        /\ idx < to /\ idx < Chunks /\ result = "running"
    <3>1. CASE HandshakeFails
      BY <1>0, <3>1 DEF HandshakeFails, AttemptFails, RangeInv, Reading
    <3>2. CASE TooShort
      BY <1>0, <3>2 DEF TooShort, AttemptFails, RangeInv, Reading
    <3> QED BY <1>5, <3>1, <3>2
  <2>2. \/ pc' = "off"
        \/ synced /\ pc' = "save" /\ result' = "failed"
        \/ synced /\ pc' = "probe" /\ result' = result
    <3>1. CASE HandshakeFails
      BY <3>1 DEF HandshakeFails, AttemptFails, Ends
    <3>2. CASE TooShort
      BY <3>2 DEF TooShort, AttemptFails, LineInv
    <3> QED BY <1>5, <3>1, <3>2
  <2> QED BY <2>1, <2>2 DEF RangeInv, Reading
<1>6. CASE Probe \/ NoAnswer \/ Upload \/ Read \/ Save
  <2>1. UNCHANGED <<synced, idx, from, to, got, result>>
    BY <1>6 DEF Probe, NoAnswer, Upload, Read, Save, run
  <2>2. \/ pc \in {"probe", "await"} /\ pc' \in {"probe", "await"}
        \/ pc \in {"upload", "read"} /\ pc' = "read"
        \/ pc = "save" /\ pc' = "saving"
    BY <1>6 DEF Probe, NoAnswer, Upload, Read, Save
  <2> QED BY <2>1, <2>2 DEF RangeInv, Reading
<1>7. CASE Stop
  BY <1>7 DEF Stop, Ends, RangeInv, Reading
<1>8. CASE Transmit \/ Watchdog
  <2>1. UNCHANGED <<pc, synced, idx, from, to, got, result>>
    BY <1>8 DEF Transmit, Watchdog, run
  <2> QED BY <2>1 DEF RangeInv
<1> QED BY <1>1, <1>2, <1>3, <1>4, <1>5, <1>6, <1>7, <1>8 DEF Next, Script

--------------------------------------------------------------------------------
(***************************************************************************)
(* The image and the file.                                                 *)
(***************************************************************************)

\* What a step does to the image and the file, and to the verdict where it stores nothing.
LEMMA Storing ==
    ASSUME TypesInv, RangeInv, Next
    PROVE  \/ Start \/ Accept \/ Saved
           \/ UNCHANGED <<data, got, idx>> /\ pc = "save" /\ pc' = "saving" /\ file' = NoFile /\ result' = result
           \/ /\ UNCHANGED <<data, file, got, idx>>
              /\ (pc' # "off" => pc # "off") /\ (pc' \in Reading => pc \in Reading)
              /\ \/ UNCHANGED <<result, pc, to>>
                 \/ pc' # "off" /\ pc # "off" /\ result' \in {"running", "failed"}
                 \/ pc' = "off" /\ result' \in {"running", "raised"}
                 \/ pc' = "off" /\ result' = "failed" /\ got = {}
<1>0. from \in Nat /\ to \in Nat /\ idx \in Nat
  BY DEF TypesInv
<1>1. CASE Probe \/ NoAnswer \/ Upload \/ Read
  BY <1>1 DEF Probe, NoAnswer, Upload, Read, run, RangeInv, Reading
<1>2. CASE HandshakeFails
  <2>1. CASE synced /\ AttemptFails
    BY <1>2, <2>1 DEF HandshakeFails, AttemptFails, RangeInv, Reading
  <2>2. CASE ~synced /\ Ends("failed") /\ UNCHANGED <<file, got, data>>
    <3>1. got = {}
      BY <1>0, <1>2, <2>2 DEF RangeInv, HandshakeFails
    <3> QED BY <1>2, <2>2, <3>1 DEF HandshakeFails, Ends, Reading
  <2> QED BY <1>2, <2>1, <2>2 DEF HandshakeFails
<1>3. CASE TooShort
  BY <1>3 DEF TooShort, AttemptFails, RangeInv, Reading
<1>4. CASE Answered
  <2>1. UNCHANGED <<data, file, got, idx>> /\ pc = "await" /\ result = "running" /\ idx < to
    BY <1>4 DEF Answered, RangeInv, Reading
  <2>2. (pc' \in {"probe", "upload"} /\ result' = result) \/ (pc' = "off" /\ result' = "raised")
    <3>1. Continue(idx) => (pc' = "off" /\ result' = "raised") \/ (pc' = "probe" /\ result' = result)
      BY <1>0, <2>1, Continuing
    <3> QED BY <1>4, <3>1 DEF Answered
  <2> QED BY <2>1, <2>2 DEF Reading
<1>5. CASE Save
  BY <1>5 DEF Save
<1>6. CASE Stop
  BY <1>6 DEF Stop, Ends, Reading
<1>7. CASE Transmit \/ Watchdog
  BY <1>7 DEF Transmit, Watchdog, run
<1> QED BY <1>1, <1>2, <1>3, <1>4, <1>5, <1>6, <1>7 DEF Next, Script

\* The chunk that was read is put into the image, and nothing of it is taken out.
LEMMA Accepting ==
    ASSUME TypesInv, RangeInv, Accept
    PROVE  /\ ChunkToFlashAddr(idx) \in Flash /\ data'[ChunkToFlashAddr(idx)] = buf /\ buf # Erased
           /\ \A a : a # ChunkToFlashAddr(idx) => data'[a] = data[a]
           /\ Len(buf) = ChunkSize /\ buf \in Seq(Bytes)
           /\ file' = file /\ got' = got \union {idx} /\ idx' = idx + 1 /\ pc = "read"
           /\ idx \in 0..(Chunks - 1) /\ idx < to /\ got = from..(idx - 1)
<1>1. /\ Len(buf) = ChunkSize /\ pc = "read" /\ data' = [data EXCEPT ![ChunkToFlashAddr(idx)] = buf]
      /\ file' = file /\ got' = got \union {idx} /\ idx' = idx + 1
  BY DEF Accept
<1>2. idx \in 0..(Chunks - 1) /\ idx < to /\ got = from..(idx - 1)
  BY <1>1, Constants DEF RangeInv, Reading, TypesInv
<1>3. ChunkToFlashAddr(idx) \in Flash /\ ChunkToFlashAddr(idx) \in Addresses
  BY <1>2, ChunkInFlash
<1>4. buf # Erased
  BY <1>1, Constants DEF Erased
<1>5. data \in Image /\ buf \in Seq(Bytes)
  BY DEF TypesInv
<1>6. DOMAIN data = Addresses
  BY <1>5 DEF Image
<1>7. data'[ChunkToFlashAddr(idx)] = buf
  BY <1>1, <1>3, <1>6
<1>8. \A a : a # ChunkToFlashAddr(idx) => data'[a] = data[a]
  BY <1>1
<1> QED BY <1>1, <1>2, <1>3, <1>4, <1>5, <1>7, <1>8

\* The image holds what was read, and what the file holds.
LEMMA ImageStep ==
    ASSUME TypesInv, RangeInv, ImageInv, Next
    PROVE  ImageInv'
<1>1. CASE Start
  <2>1. got' = {} /\ data' = Loaded /\ file' = file
    BY <1>1 DEF Start
  <2>2. \A a \in Addresses : file.image[a] # Erased => data'[a] # Erased
    BY <2>1, Constants DEF ImageInv, Loaded
  <2> QED BY <2>1, <2>2 DEF ImageInv, SavedKept
<1>2. CASE Accept
  <2>1. \A a : data[a] # Erased => data'[a] # Erased
    BY <1>2, Accepting
  <2>2. \A c \in got' : InImage(c)'
    BY <1>2, <2>1, Accepting DEF ImageInv, InImage
  <2>3. SavedKept'
    BY <1>2, <2>1, Accepting DEF ImageInv, SavedKept
  <2> QED BY <1>2, <2>2, <2>3, Accepting DEF ImageInv
<1>3. CASE Saved
  <2>1. file'.whole /\ file'.image = data /\ UNCHANGED <<data, got>>
    BY <1>3 DEF Saved, Written
  <2> QED BY <2>1 DEF ImageInv, InImage, SavedKept
<1>4. CASE UNCHANGED <<data, got, idx>> /\ file' = NoFile
  BY <1>4, Constants DEF NoFile, ImageInv, InImage, SavedKept
<1>5. CASE UNCHANGED <<data, file, got, idx>> /\ (pc' # "off" => pc # "off")
  BY <1>5 DEF ImageInv, InImage, SavedKept
<1> QED BY <1>1, <1>2, <1>3, <1>4, <1>5, Storing

\* No save was due since the last chunk that the file has not got.
LEMMA SavedStep ==
    ASSUME TypesInv, RangeInv, ImageInv, SavedInv, Next
    PROVE  SavedInv'
<1>0. idx \in Nat /\ to \in Nat
  BY DEF TypesInv
<1>1. CASE Start
  <2>1. got' = {} /\ result' = "running"
    BY <1>1 DEF Start
  <2> QED BY <2>1 DEF SavedInv
<1>2. CASE Accept
  <2>1. /\ got' = got \union {idx} /\ idx' = idx + 1 /\ file' = file /\ pc = "read"
        /\ \A c : InFile(c)' <=> InFile(c)
        /\ \A c \in got : c \in Nat
    BY <1>2, Accepting DEF InFile, TypesInv
  <2>2. \/ pc' = "save" /\ result' = result
        \/ ~SaveDue(idx + 1) /\ Continue(idx + 1)
    BY <1>2 DEF Accept
  <2>3. ASSUME file.whole, NEW c \in got', ~InFile(c), NEW i \in (c + 1)..idx PROVE i % SaveEvery # 0
    <3>1. CASE c \in got
      <4>1. i \in (c + 1)..(idx - 1) \/ i = idx
        BY <1>0, <2>1, <3>1
      <4>2. idx % SaveEvery # 0
        BY <2>1, <2>3, <3>1 DEF SavedInv, Reading
      <4> QED BY <2>1, <2>3, <3>1, <4>1, <4>2 DEF SavedInv
    <3>2. CASE c = idx
      BY <1>0, <2>3, <3>2
    <3> QED BY <2>1, <2>3, <3>1, <3>2
  <2>4. pc' \in Reading => idx' % SaveEvery # 0
    BY <2>1, <2>2 DEF SaveDue, Reading
  <2>5. result' \notin {"ok", "failed"} \/ pc' # "off"
    <3>1. result = "running"
      BY <2>1 DEF RangeInv, Reading
    <3> QED BY <2>2, <3>1, Continuing DEF SaveDue
  <2>6. result' # "ok"
    <3>1. result = "running"
      BY <2>1 DEF RangeInv, Reading
    <3> QED BY <2>2, <3>1, Continuing DEF SaveDue
  <2>7. idx' - 1 = idx
    BY <1>0, <2>1
  <2> QED BY <2>1, <2>3, <2>4, <2>5, <2>6, <2>7 DEF SavedInv
<1>3. CASE Saved
  <2>1. file'.whole /\ file'.image = data /\ UNCHANGED <<data, got, idx, to>>
    BY <1>3 DEF Saved, Written
  <2>2. \A c \in got' : InFile(c)'
    BY <2>1 DEF ImageInv, InImage, InFile
  <2>3. result' = "ok" => pc' = "off" /\ idx' = to'
    <3>1. result \in {"running", "failed"}
      BY <1>3 DEF Saved, RangeInv
    <3> QED BY <1>3, <2>1, <3>1, Continuing DEF Saved, Ends
  <2> QED BY <2>1, <2>2, <2>3 DEF SavedInv
<1>4. CASE UNCHANGED <<data, got, idx>> /\ file' = NoFile /\ pc = "save" /\ pc' = "saving" /\ result' = result
  <2>1. ~file'.whole /\ result' # "ok"
    BY <1>4 DEF NoFile, SavedInv
  <2> QED BY <1>4, <2>1 DEF SavedInv
<1>5. CASE /\ UNCHANGED <<data, file, got, idx>>
           /\ (pc' # "off" => pc # "off") /\ (pc' \in Reading => pc \in Reading)
           /\ \/ UNCHANGED <<result, pc, to>>
              \/ pc' # "off" /\ pc # "off" /\ result' \in {"running", "failed"}
              \/ pc' = "off" /\ result' \in {"running", "raised"}
              \/ pc' = "off" /\ result' = "failed" /\ got = {}
  BY <1>5 DEF SavedInv, InFile
<1> QED BY <1>1, <1>2, <1>3, <1>4, <1>5, Storing

--------------------------------------------------------------------------------
(***************************************************************************)
(* What is under way.                                                      *)
(***************************************************************************)

\* The lengths of what is under way.
LEMMA Lengths ==
    ASSUME TypesInv
    PROVE  Len(line) \in Nat /\ Len(out) \in Nat /\ Len(buf) \in Nat /\ Coming = Len(line) + Len(out)
           /\ (line # <<>> => Len(line) > 0) /\ (out # <<>> => Len(out) > 0)
           /\ Len(<<>>) = 0
  BY DEF TypesInv, Coming

\* The controller runs a program as long as it has a byte of the chunk to send.
LEMMA LineStep ==
    ASSUME TypesInv, RangeInv, LineInv, Next
    PROVE  LineInv'
<1>0. Len(out) \in Nat /\ out \in Seq(Bytes) /\ ChunkSize \in Nat
  BY Lengths, Constants DEF TypesInv
<1>1. CASE Upload
  <2>1. idx \in 0..(Chunks - 1) /\ synced /\ synced' = synced
    BY <1>1, Constants DEF Upload, RangeInv, Reading, TypesInv
  <2>2. \/ ecu' = "runs" /\ out' = Contents[ChunkToFlashAddr(idx)]
        \/ ecu = "boot" /\ ecu' = "silent" /\ out' = out
        \/ ecu' = ecu /\ out' = out
    BY <1>1 DEF Upload
  <2>3. Len(Contents[ChunkToFlashAddr(idx)]) = ChunkSize /\ Contents[ChunkToFlashAddr(idx)] # <<>>
    BY <2>1, ChunkInFlash, ContentsFacts DEF Erased
  <2> QED BY <1>0, <2>1, <2>2, <2>3 DEF LineInv
<1>2. CASE Transmit
  <2>1. ecu = "runs" /\ out' = Tail(out) /\ ecu' = (IF Len(out) = 1 THEN "silent" ELSE "runs") /\ UNCHANGED <<pc, synced>>
    BY <1>2 DEF Transmit
  <2>2. out # <<>> /\ Len(out) <= ChunkSize
    BY <2>1 DEF LineInv
  <2>3. Len(out') = Len(out) - 1 /\ out' \in Seq(Bytes)
    BY <1>0, <2>1, <2>2, TailFacts
  <2>4. Len(out) = 1 <=> out' = <<>>
    <3>1. out' = <<>> <=> Len(out') = 0
      BY <2>3
    <3> QED BY <1>0, <2>3, <3>1
  <2>5. Len(out') <= ChunkSize
    BY <1>0, <2>2, <2>3
  <2> QED BY <2>1, <2>4, <2>5 DEF LineInv
<1>3. CASE Watchdog
  BY <1>3, Constants DEF Watchdog, LineInv
<1>4. CASE Probe
  BY <1>4 DEF Probe, LineInv, run
<1>5. CASE Start \/ Stop
  BY <1>5 DEF Start, Stop, Ends, LineInv
<1>6. CASE HandshakeFails \/ TooShort
  <2>1. UNCHANGED <<ecu, out>> /\ pc' # "read"
    <3>1. CASE HandshakeFails
      BY <3>1 DEF HandshakeFails, AttemptFails, Ends
    <3>2. CASE TooShort
      BY <3>2 DEF TooShort, AttemptFails
    <3> QED BY <1>6, <3>1, <3>2
  <2> QED BY <2>1 DEF LineInv
<1>7. CASE Answered \/ Accept \/ Saved
  <2>1. UNCHANGED <<ecu, out>>
    BY <1>7 DEF Answered, Accept, Saved
  <2>2. pc' # "read"
    <3>1. CASE Answered
      BY <3>1, Continuing DEF Answered
    <3>2. CASE Accept
      BY <3>2, Continuing DEF Accept
    <3>3. CASE Saved
      BY <3>3, Continuing DEF Saved, Ends
    <3> QED BY <1>7, <3>1, <3>2, <3>3
  <2> QED BY <2>1, <2>2 DEF LineInv
<1>8. CASE NoAnswer \/ Read \/ Save
  BY <1>8 DEF NoAnswer, Read, Save, LineInv, run
<1> QED BY <1>1, <1>2, <1>3, <1>4, <1>5, <1>6, <1>7, <1>8 DEF Next, Script

\* Where one byte was late at most, what is read is not longer than a chunk, and a
\* full read is the chunk itself, behind which nothing comes.
LEMMA FullRead ==
    ASSUME TypesInv, RangeInv, OneLateInv, pc = "read"
    PROVE  /\ Len(buf) + Coming <= ChunkSize
           /\ Len(buf) = ChunkSize => buf = Contents[ChunkToFlashAddr(idx)] /\ line = <<>> /\ out = <<>>
<1>1. /\ buf \in Seq(Bytes) /\ line \in Seq(Bytes) /\ out \in Seq(Bytes)
      /\ Len(buf) \in Nat /\ Len(line) \in Nat /\ Len(out) \in Nat /\ Coming = Len(line) + Len(out)
      /\ ChunkSize \in Nat
  BY Lengths, Constants DEF TypesInv
<1>2. idx \in 0..(Chunks - 1)
  BY Constants DEF RangeInv, Reading, TypesInv
<1>3. CASE Len(buf) + Coming < ChunkSize
  BY <1>1, <1>3
<1>4. CASE buf \o line \o out = Contents[ChunkToFlashAddr(idx)]
  <2>1. Len(Contents[ChunkToFlashAddr(idx)]) = ChunkSize
    BY <1>2, ChunkInFlash, ContentsFacts
  <2>2. buf \o line \in Seq(Bytes) /\ Len(buf \o line) = Len(buf) + Len(line)
    BY <1>1, ConcatFacts
  <2>3. Len(buf \o line \o out) = Len(buf \o line) + Len(out)
    BY <1>1, <2>2, ConcatFacts
  <2>4. Len(buf) + Coming = ChunkSize
    BY <1>1, <1>4, <2>1, <2>2, <2>3
  <2>5. ASSUME Len(buf) = ChunkSize PROVE buf = Contents[ChunkToFlashAddr(idx)] /\ line = <<>> /\ out = <<>>
    <3>1. line = <<>> /\ out = <<>>
      BY <1>1, <2>4, <2>5
    <3>2. buf \o line = buf /\ buf \o line \o out = buf \o line
      BY <1>1, <2>2, <3>1, ConcatFacts
    <3> QED BY <1>4, <3>1, <3>2
  <2> QED BY <1>1, <2>4, <2>5
<1> QED BY <1>3, <1>4 DEF OneLateInv

\* A byte on its way is neither lost nor overtaken.
LEMMA BytesMove ==
    ASSUME TypesInv, RangeInv, OneLateInv, LineInv, pc = "read", Read \/ Transmit
    PROVE  /\ Len(buf)' + Coming' = Len(buf) + Coming
           /\ buf' \o line' \o out' = buf \o line \o out
<1>1. /\ buf \in Seq(Bytes) /\ line \in Seq(Bytes) /\ out \in Seq(Bytes)
      /\ Len(buf) \in Nat /\ Len(line) \in Nat /\ Len(out) \in Nat
  BY Lengths DEF TypesInv
<1>2. CASE Read
  <2>1. line # <<>> /\ buf' = Append(buf, Head(line)) /\ line' = Tail(line) /\ out' = out
    BY <1>2 DEF Read
  <2>2. buf' \o line' = buf \o line
    BY <1>1, <2>1, HeadMoves
  <2>3. Len(line') = Len(line) - 1 /\ Head(line) \in Bytes
    BY <1>1, <2>1, TailFacts
  <2>4. Len(buf') = Len(buf) + 1
    BY <1>1, <2>1, <2>3, AppendFacts
  <2> QED BY <1>1, <2>1, <2>2, <2>3, <2>4 DEF Coming
<1>3. CASE Transmit
  <2>1. out # <<>> /\ buf' = buf /\ line' = Append(line, Head(out)) /\ out' = Tail(out)
    BY <1>3 DEF Transmit, LineInv
  <2>2. Len(out') = Len(out) - 1 /\ Head(out) \in Bytes
    BY <1>1, <2>1, TailFacts
  <2>3. Len(line') = Len(line) + 1
    BY <1>1, <2>1, <2>2, AppendFacts
  <2>4. buf' \o line' \o out' = buf \o line \o out
    <3>1. buf \o line \in Seq(Bytes)
      BY <1>1, ConcatFacts
    <3>2. Append(buf \o line, Head(out)) \o Tail(out) = buf \o line \o out
      BY <1>1, <2>1, <3>1, HeadMoves
    <3>3. buf \o Append(line, Head(out)) = Append(buf \o line, Head(out))
      BY <1>1, <2>2, AppendMoves
    <3>4. buf' \o line' = Append(buf \o line, Head(out))
      BY <2>1, <3>3, Zenon
    <3> QED BY <2>1, <3>2, <3>4, Zenon
  <2>5. Len(buf)' + Coming' = Len(buf) + Coming
    BY <1>1, <2>1, <2>2, <2>3 DEF Coming
  <2> QED BY <2>4, <2>5
<1> QED BY <1>2, <1>3

\* One late byte does not mix what programs of several chunks have sent.
LEMMA OneLateStep ==
    ASSUME TypesInv, RangeInv, LineInv, OneLateInv, late = 0 => NoneLateInv, Next, late' <= 1
    PROVE  OneLateInv'
<1>0. /\ Len(line) \in Nat /\ Len(out) \in Nat /\ Len(buf) \in Nat /\ Coming = Len(line) + Len(out)
      /\ (line # <<>> => Len(line) > 0) /\ (out # <<>> => Len(out) > 0) /\ Len(<<>>) = 0
      /\ Len(out) <= ChunkSize /\ (ecu = "runs" <=> out # <<>>)
      /\ ChunkSize \in Nat /\ ChunkSize >= 2 /\ late \in Nat
  BY Lengths, Constants DEF LineInv, TypesInv
<1>1. ASSUME pc' \in Steady, ecu' = "runs" => Coming' <= ChunkSize PROVE OneLateInv'
  BY <1>1 DEF OneLateInv, Steady
<1>2. ASSUME pc' = "off" PROVE OneLateInv'
  BY <1>2 DEF OneLateInv, Steady
<1>3. ASSUME pc' = "read", \/ Len(buf') + Coming' < ChunkSize
                            \/ buf' \o line' \o out' = Contents[ChunkToFlashAddr(idx')]
       PROVE  OneLateInv'
  BY <1>3 DEF OneLateInv, Steady
<1>4. CASE Start
  <2>1. pc' = "probe" /\ line' = <<>> /\ out' = out
    BY <1>4 DEF Start
  <2>2. Coming' <= ChunkSize
    BY <1>0, <2>1 DEF Coming
  <2> QED BY <1>1, <2>1, <2>2 DEF Steady
<1>5. CASE Probe
  <2>1. PICK kept \in {SubSeq(line, n, Len(line)) : n \in 1..(Len(line) + 1)} :
          Flushed(kept) /\ line' = IF ecu = "boot" THEN Append(kept, Ack) ELSE kept
    BY <1>5 DEF Probe
  <2>2. Len(kept) \in Nat /\ Len(kept) <= Len(line)
    BY <2>1, Flushing
  <2>3. pc = "probe" /\ pc' = "await" /\ out' = out /\ (ecu' = "runs" => ecu = "runs")
    BY <1>5 DEF Probe
  <2>4. ecu = "runs" => Coming <= ChunkSize
    BY <2>3 DEF OneLateInv, Steady
  <2>5. ecu' = "runs" => Coming' <= ChunkSize
    BY <1>0, <2>1, <2>2, <2>3, <2>4 DEF Coming
  <2> QED BY <1>1, <2>3, <2>5 DEF Steady
<1>6. CASE Answered
  <2>1. pc = "await" /\ line # <<>> /\ line' = Tail(line) /\ UNCHANGED <<out, ecu>>
    BY <1>6 DEF Answered
  <2>2. Len(line') = Len(line) - 1
    BY <2>1, TailFacts DEF TypesInv
  <2>3. ecu = "runs" => Coming <= ChunkSize
    BY <2>1 DEF OneLateInv, Steady
  <2>4. ecu' = "runs" => Coming' < ChunkSize /\ Coming' <= ChunkSize
    BY <1>0, <2>1, <2>2, <2>3 DEF Coming
  <2>5. pc' \in {"probe", "upload", "off"}
    BY <1>6, Continuing DEF Answered
  <2> QED BY <1>1, <1>2, <2>4, <2>5 DEF OneLateInv, Steady
<1>7. CASE Upload
  <2>1. PICK kept \in {SubSeq(line, n, Len(line)) : n \in 1..(Len(line) + 1)} :
          /\ Flushed(kept)
          /\ \/ /\ ecu = "loads" /\ ecu' = "runs" /\ out' = Contents[ChunkToFlashAddr(idx)] /\ line' = kept
             \/ ecu = "boot" /\ line' = Append(kept, Ack) /\ out' = out
             \/ ecu # "loads" /\ line' = kept /\ out' = out
    BY <1>7 DEF Upload
  <2>2. /\ kept \in Seq(Bytes) /\ Len(kept) \in Nat /\ Len(kept) <= Len(line)
        /\ (kept = <<>> /\ late' = late) \/ (kept # <<>> /\ late' = late + 1)
    BY <2>1, Flushing
  <2>3. pc = "upload" /\ pc' = "read" /\ buf' = <<>> /\ idx' = idx /\ idx \in 0..(Chunks - 1)
    BY <1>7, Constants DEF Upload, RangeInv, Reading, TypesInv
  <2>4. kept # <<>> => IF ecu = "loads" THEN line = <<>> ELSE Coming <= ChunkSize - 2
    <3>1. kept # <<>> => late = 0
      BY <1>0, <2>2
    <3> QED BY <2>3, <3>1 DEF NoneLateInv
  <2>5. CASE ecu = "loads" /\ out' = Contents[ChunkToFlashAddr(idx)] /\ line' = kept
    <3>1. kept = <<>>
      BY <1>0, <2>2, <2>4, <2>5
    <3>2. Contents[ChunkToFlashAddr(idx)] \in Seq(Bytes)
      BY <2>3, ChunkInFlash, ContentsFacts
    <3>3. <<>> \o <<>> \o Contents[ChunkToFlashAddr(idx)] = Contents[ChunkToFlashAddr(idx)]
      BY <3>2
    <3>4. buf' \o line' \o out' = Contents[ChunkToFlashAddr(idx')]
      BY <2>3, <2>5, <3>1, <3>3
    <3> QED BY <1>3, <2>3, <3>4
  <2>6. CASE ecu # "loads" /\ out' = out
    <3>1. ecu # "runs" => Len(out) = 0
      BY <1>0
    <3>2. ecu = "runs" => Coming < ChunkSize /\ line' = kept
      BY <2>1, <2>3 DEF OneLateInv
    <3>3. Len(line') = Len(kept) \/ (Len(line') = Len(kept) + 1 /\ ecu = "boot")
      BY <2>1, <2>2, AppendFacts, Constants
    <3>4. Len(line') + Len(out) < ChunkSize
      <4>1. CASE kept = <<>>
        <5>1. Len(kept) = 0
          BY <4>1
        <5>2. CASE ecu = "runs"
          <6>1. Len(line') = 0
            BY <3>2, <4>1, <5>2
          <6> QED BY <1>0, <3>2, <5>2, <6>1
        <5>3. CASE ecu # "runs"
          <6>1. Len(line') = 0 \/ Len(line') = 1
            BY <3>3, <5>1
          <6>2. Len(out) = 0
            BY <3>1, <5>3
          <6>3. ChunkSize \in Nat /\ ChunkSize >= 2
            BY <1>0
          <6> DEFINE m == Len(line')
                     n == Len(out)
          <6>4. (m = 0 \/ m = 1) /\ n = 0
            BY <6>1, <6>2
          <6> HIDE DEF m, n
          <6>5. m + n < ChunkSize
            BY <6>3, <6>4
          <6> QED BY <6>5 DEF m, n
        <5> QED BY <5>2, <5>3
      <4>2. CASE kept # <<>>
        BY <1>0, <2>2, <2>4, <2>6, <3>3, <4>2
      <4> QED BY <4>1, <4>2
    <3>5. Len(buf') + Coming' < ChunkSize
      <4>1. Coming' = Len(line') + Len(out)
        BY <2>6 DEF Coming
      <4>2. Len(line') \in Nat
        BY <2>2, <3>3
      <4> QED BY <1>0, <2>3, <3>4, <4>1, <4>2
    <3> QED BY <1>3, <2>3, <3>5
  <2> QED BY <2>1, <2>5, <2>6
<1>8. CASE Accept
  <2>1. Len(buf) = ChunkSize /\ pc = "read" /\ UNCHANGED <<line, out>>
    BY <1>8 DEF Accept
  <2>2. line' = <<>> /\ out' = <<>>
    BY <2>1, FullRead
  <2>3. Coming' <= ChunkSize
    BY <1>0, <2>2 DEF Coming
  <2>4. pc' \in {"save", "probe", "off"}
    BY <1>8, Continuing DEF Accept
  <2> QED BY <1>1, <1>2, <2>3, <2>4 DEF Steady
<1>9. CASE TooShort
  <2>1. pc = "read" /\ UNCHANGED <<line, out, ecu>> /\ pc' \in {"save", "probe"}
    BY <1>9 DEF TooShort, AttemptFails
  <2>2. Coming <= ChunkSize
    BY <1>0, <2>1, FullRead
  <2> QED BY <1>1, <2>1, <2>2 DEF Coming, Steady
<1>10. CASE Read \/ Transmit
  <2>1. pc' = pc /\ idx' = idx /\ (ecu' = "runs" => ecu = "runs")
    BY <1>10 DEF Read, Transmit
  <2>2. CASE pc = "read"
    <3>1. /\ Len(buf') + Coming' = Len(buf) + Coming
          /\ buf' \o line' \o out' = buf \o line \o out
      BY <1>10, <2>2, BytesMove
    <3>2. \/ Len(buf') + Coming' < ChunkSize
          \/ buf' \o line' \o out' = Contents[ChunkToFlashAddr(idx')]
      BY <2>1, <2>2, <3>1 DEF OneLateInv
    <3> QED BY <1>3, <2>1, <2>2, <3>2
  <2>3. CASE pc # "read"
    <3>1. Transmit /\ out # <<>> /\ line' = Append(line, Head(out)) /\ out' = Tail(out)
      BY <1>0, <1>10, <2>3 DEF Read, Transmit
    <3>2. Len(out') = Len(out) - 1 /\ Head(out) \in Bytes
      BY <3>1, TailFacts DEF TypesInv
    <3>3. Len(line') = Len(line) + 1
      BY <3>1, <3>2, AppendFacts DEF TypesInv
    <3>4. Coming' = Coming
      BY <1>0, <3>2, <3>3 DEF Coming
    <3> QED BY <2>1, <2>3, <3>4 DEF OneLateInv
  <2> QED BY <2>2, <2>3
<1>11. CASE Watchdog
  <2>1. UNCHANGED <<pc, idx, line, buf>> /\ ecu' = "boot" /\ out' = <<>>
    BY <1>11 DEF Watchdog, run
  <2>2. CASE pc = "read"
    <3>1. CASE out = <<>>
      <4>1. out' = out /\ Coming' = Coming
        BY <2>1, <3>1 DEF Coming
      <4> QED BY <2>1, <2>2, <4>1 DEF OneLateInv, Steady
    <3>2. CASE out # <<>>
      <4>1. Len(buf) + Coming <= ChunkSize
        BY <2>2, FullRead
      <4>2. Len(buf') + Coming' < ChunkSize
        BY <1>0, <2>1, <3>2, <4>1 DEF Coming
      <4> QED BY <2>1, <2>2, <4>2 DEF OneLateInv, Steady
    <3> QED BY <3>1, <3>2
  <2>3. CASE pc # "read"
    BY <2>1, <2>3 DEF OneLateInv
  <2> QED BY <2>2, <2>3
<1>12. CASE HandshakeFails \/ NoAnswer \/ Save \/ Saved
  <2>1. UNCHANGED <<line, out, ecu>> /\ pc \in Steady
    <3>1. CASE HandshakeFails
      BY <3>1 DEF HandshakeFails, Steady
    <3>2. CASE NoAnswer \/ Save \/ Saved
      BY <3>2 DEF NoAnswer, Save, Saved, Steady
    <3> QED BY <1>12, <3>1, <3>2
  <2>2. pc' \in Steady \/ pc' = "off"
    <3>1. CASE HandshakeFails
      BY <3>1 DEF HandshakeFails, AttemptFails, Ends, Steady
    <3>2. CASE Saved
      BY <3>2, Continuing DEF Saved, Ends, Steady
    <3>3. CASE NoAnswer \/ Save
      BY <3>3 DEF NoAnswer, Save, Steady
    <3> QED BY <1>12, <3>1, <3>2, <3>3
  <2>3. ecu' = "runs" => Coming' <= ChunkSize
    BY <2>1 DEF Coming, OneLateInv
  <2> QED BY <1>1, <1>2, <2>2, <2>3
<1>13. CASE Stop
  BY <1>2, <1>13 DEF Stop, Ends
<1> QED BY <1>4, <1>5, <1>6, <1>7, <1>8, <1>9, <1>10, <1>11, <1>12, <1>13 DEF Next, Script

\* As long as no byte was late, a handshake uses up more than it leaves behind.
LEMMA NoneLateStep ==
    ASSUME TypesInv, RangeInv, LineInv, OneLateInv, NoneLateInv, Next, late = 0, late' = 0
    PROVE  NoneLateInv'
<1>0. /\ Len(line) \in Nat /\ Len(out) \in Nat /\ Coming = Len(line) + Len(out)
      /\ (line # <<>> => Len(line) > 0) /\ (out # <<>> => Len(out) > 0) /\ Len(<<>>) = 0
      /\ Len(out) <= ChunkSize /\ (ecu = "runs" <=> out # <<>>)
      /\ ChunkSize \in Nat /\ ChunkSize >= 2
  BY Lengths, Constants DEF LineInv, TypesInv
<1>1. ASSUME pc' \notin Steady, pc' # "upload" PROVE NoneLateInv'
  BY <1>1 DEF NoneLateInv
<1>2. ASSUME pc' \in Steady,
             IF ecu' = "loads" THEN Len(line') <= 1
                               ELSE Coming' <= (IF synced' THEN ChunkSize - 1 ELSE ChunkSize)
      PROVE  NoneLateInv'
  BY <1>2 DEF NoneLateInv, Steady
<1>3. pc \in Steady =>
          /\ ecu = "loads" => Len(line) <= 1
          /\ ecu # "loads" => Coming <= ChunkSize /\ (synced => Coming <= ChunkSize - 1)
  BY <1>0 DEF NoneLateInv
<1>4. CASE Start
  <2>1. pc' = "probe" /\ line' = <<>> /\ out' = out /\ synced' = FALSE
    BY <1>4 DEF Start
  <2>2. Len(line') <= 1 /\ Coming' <= ChunkSize
    BY <1>0, <2>1 DEF Coming
  <2> QED BY <1>2, <2>1, <2>2 DEF Steady
<1>5. CASE Probe
  <2>1. PICK kept \in {SubSeq(line, n, Len(line)) : n \in 1..(Len(line) + 1)} :
          Flushed(kept) /\ line' = IF ecu = "boot" THEN Append(kept, Ack) ELSE kept
    BY <1>5 DEF Probe
  <2>2. kept = <<>>
    BY <2>1, Flushing
  <2>3. pc = "probe" /\ pc' = "await" /\ UNCHANGED <<out, synced>>
        /\ (ecu' = "loads" <=> ecu = "boot")
    BY <1>5 DEF Probe
  <2>4. CASE ecu = "boot"
    <3>1. Len(line') <= 1
      BY <2>1, <2>2, <2>4
    <3> QED BY <1>2, <2>3, <2>4, <3>1 DEF Steady
  <2>5. CASE ecu # "boot"
    <3>1. Coming' = Len(out)
      <4>1. Len(line') = 0
        BY <2>1, <2>2, <2>5
      <4> QED BY <1>0, <2>3, <4>1 DEF Coming
    <3>2. Len(out) <= ChunkSize /\ (synced => Len(out) <= ChunkSize - 1)
      <4>1. CASE ecu = "runs"
        BY <1>0, <1>3, <2>3, <4>1 DEF Steady
      <4>2. CASE ecu # "runs"
        BY <1>0, <4>2
      <4> QED BY <4>1, <4>2
    <3> QED BY <1>2, <2>3, <2>5, <3>1, <3>2 DEF Steady
  <2> QED BY <2>4, <2>5
<1>6. CASE Answered
  <2>1. pc = "await" /\ line # <<>> /\ line' = Tail(line) /\ UNCHANGED <<out, ecu>>
    BY <1>6 DEF Answered
  <2>2. Len(line') = Len(line) - 1 /\ line' \in Seq(Bytes)
    BY <2>1, TailFacts DEF TypesInv
  <2>3. Coming' = Coming - 1
    BY <1>0, <2>1, <2>2 DEF Coming
  <2>4. /\ ecu = "loads" => Len(line') = 0 /\ line' = <<>>
        /\ ecu # "loads" => /\ Coming' <= ChunkSize - 1 /\ Coming' <= ChunkSize
                            /\ synced => Coming' <= ChunkSize - 2
    <3>1. ecu = "loads" => Len(line') = 0
      BY <1>0, <1>3, <2>1, <2>2 DEF Steady
    <3>2. Len(line') = 0 => line' = <<>>
      BY <2>2
    <3>3. ecu # "loads" => Coming <= ChunkSize /\ (synced => Coming <= ChunkSize - 1)
      BY <1>3, <2>1 DEF Steady
    <3>4. Coming \in Nat
      BY <1>0
    <3>5. ecu # "loads" => /\ Coming' <= ChunkSize - 1 /\ Coming' <= ChunkSize
                           /\ synced => Coming' <= ChunkSize - 2
      BY <1>0, <2>3, <3>3, <3>4
    <3> QED BY <3>1, <3>2, <3>5
  <2>5. \/ pc' = "upload" /\ synced
        \/ pc' = "probe"
        \/ pc' = "off"
    BY <1>6, Continuing DEF Answered
  <2>6. CASE pc' = "upload" /\ synced
    BY <2>1, <2>4, <2>6 DEF NoneLateInv, Steady
  <2>7. CASE pc' = "probe"
    <3>1. ecu' = "loads" => Len(line') <= 1
      BY <2>1, <2>4
    <3> QED BY <1>2, <2>1, <2>4, <2>7, <3>1 DEF Steady
  <2> QED BY <1>1, <2>5, <2>6, <2>7 DEF Steady
<1>7. CASE Accept
  <2>1. Len(buf) = ChunkSize /\ pc = "read" /\ UNCHANGED <<line, out>>
    BY <1>7 DEF Accept
  <2>2. line' = <<>> /\ out' = <<>>
    BY <2>1, FullRead
  <2>3. Len(line') <= 1 /\ Coming' <= ChunkSize /\ Coming' <= ChunkSize - 1
    BY <1>0, <2>2 DEF Coming
  <2>4. pc' \in {"save", "probe", "off"}
    BY <1>7, Continuing DEF Accept
  <2> QED BY <1>1, <1>2, <2>3, <2>4 DEF Steady
<1>8. CASE TooShort
  <2>1. line = <<>> /\ ecu # "runs" /\ UNCHANGED <<line, out, ecu>> /\ pc' \in {"save", "probe"}
    BY <1>8 DEF TooShort, AttemptFails, Late
  <2>2. Len(line') <= 1 /\ Coming' <= ChunkSize /\ Coming' <= ChunkSize - 1
    BY <1>0, <2>1 DEF Coming
  <2> QED BY <1>2, <2>1, <2>2 DEF Steady
<1>9. CASE Transmit
  <2>1. out # <<>> /\ line' = Append(line, Head(out)) /\ out' = Tail(out) /\ UNCHANGED <<pc, synced>>
        /\ ecu = "runs" /\ ecu' # "loads"
    BY <1>0, <1>9 DEF Transmit
  <2>2. Len(out') = Len(out) - 1 /\ Head(out) \in Bytes
    BY <2>1, TailFacts DEF TypesInv
  <2>3. Len(line') = Len(line) + 1
    BY <2>1, <2>2, AppendFacts DEF TypesInv
  <2>4. Coming' = Coming
    BY <1>0, <2>2, <2>3 DEF Coming
  <2> QED BY <2>1, <2>4 DEF NoneLateInv
<1>10. CASE Watchdog
  <2>1. UNCHANGED <<pc, synced, line>> /\ ecu' = "boot" /\ out' = <<>>
    BY <1>10 DEF Watchdog
  <2>2. Coming' = Len(line) /\ Coming' <= Coming
    BY <1>0, <2>1 DEF Coming
  <2>3. CASE ecu = "loads"
    <3>1. pc \in Steady => Coming' <= 1 /\ Coming' <= ChunkSize - 1 /\ Coming' <= ChunkSize
      BY <1>0, <1>3, <2>2, <2>3
    <3>2. pc = "upload" => Coming' <= ChunkSize - 2
      <4>1. pc = "upload" => line = <<>>
        BY <2>3 DEF NoneLateInv
      <4> QED BY <1>0, <2>2, <4>1
    <3> QED BY <2>1, <3>1, <3>2 DEF NoneLateInv
  <2>4. CASE ecu # "loads"
    <3>1. /\ pc \in Steady => Coming' <= (IF synced THEN ChunkSize - 1 ELSE ChunkSize)
          /\ pc = "upload" => Coming' <= ChunkSize - 2
      <4>1. /\ pc \in Steady => Coming <= (IF synced THEN ChunkSize - 1 ELSE ChunkSize)
            /\ pc = "upload" => Coming <= ChunkSize - 2
        BY <2>4 DEF NoneLateInv
      <4>2. Coming' \in Nat /\ Coming \in Nat
        BY <1>0, <2>2
      <4> QED BY <1>0, <2>2, <4>1, <4>2
    <3> QED BY <2>1, <3>1 DEF NoneLateInv
  <2> QED BY <2>3, <2>4
<1>11. CASE HandshakeFails \/ NoAnswer \/ Save \/ Saved
  <2>1. UNCHANGED <<line, out, ecu, synced>> /\ pc \in Steady
    <3>1. CASE HandshakeFails
      BY <3>1 DEF HandshakeFails, Steady
    <3>2. CASE NoAnswer \/ Save \/ Saved
      BY <3>2 DEF NoAnswer, Save, Saved, Steady
    <3> QED BY <1>11, <3>1, <3>2
  <2>2. pc' \in Steady \/ pc' = "off"
    <3>1. CASE HandshakeFails
      BY <3>1 DEF HandshakeFails, AttemptFails, Ends, Steady
    <3>2. CASE Saved
      BY <3>2, Continuing DEF Saved, Ends, Steady
    <3>3. CASE NoAnswer \/ Save
      BY <3>3 DEF NoAnswer, Save, Steady
    <3> QED BY <1>11, <3>1, <3>2, <3>3
  <2> QED BY <2>1, <2>2 DEF Coming, NoneLateInv, Steady
<1>12. CASE Upload \/ Read \/ Stop
  <2>1. pc' \in {"read", "off"}
    BY <1>12 DEF Upload, Read, Stop, Ends
  <2> QED BY <1>1, <2>1 DEF Steady
<1> QED BY <1>4, <1>5, <1>6, <1>7, <1>8, <1>9, <1>10, <1>11, <1>12 DEF Next, Script

--------------------------------------------------------------------------------
(***************************************************************************)
(* The invariant, and what it shows.                                       *)
(***************************************************************************)

\* What is put into the image are the bytes of its address.
LEMMA FaithfulStep ==
    ASSUME IInv, Next
    PROVE  FaithfulInv'
<1>0. /\ TypesInv /\ RangeInv /\ LineInv /\ FaithfulInv
      /\ late = 0 => NoneLateInv
  BY DEF IInv
<1>1. SUFFICES ASSUME late' <= 1 PROVE OneLateInv' /\ Faithful(data)' /\ Faithful(file.image)'
  BY DEF FaithfulInv
<1>2. late <= 1
  BY <1>0, <1>1, LateCounts DEF TypesInv
<1>3. OneLateInv /\ Faithful(data) /\ Faithful(file.image)
  BY <1>0, <1>2 DEF FaithfulInv
<1>4. OneLateInv'
  BY <1>0, <1>1, <1>3, OneLateStep
<1>5. Faithful(Blank)
  BY Constants DEF Faithful
<1>6. Faithful(data)' /\ Faithful(file.image)'
  <2>1. CASE Start
    BY <1>3, <1>5, <2>1 DEF Start, Loaded, Faithful
  <2>2. CASE Accept
    <3>1. buf = Contents[ChunkToFlashAddr(idx)]
      BY <1>0, <1>3, <2>2, Accepting, FullRead
    <3>2. Faithful(data)'
      BY <1>0, <1>3, <2>2, <3>1, Accepting DEF Faithful
    <3> QED BY <1>0, <1>3, <2>2, <3>2, Accepting DEF Faithful
  <2>3. CASE Saved
    <3>1. file'.image = data /\ data' = data
      BY <2>3 DEF Saved, Written
    <3> QED BY <1>3, <3>1 DEF Faithful
  <2>4. CASE data' = data /\ file' = NoFile
    BY <1>3, <1>5, <2>4 DEF NoFile, Faithful
  <2>5. CASE UNCHANGED <<data, file>>
    BY <1>3, <2>5 DEF Faithful
  <2> QED BY <1>0, <2>1, <2>2, <2>3, <2>4, <2>5, Storing
<1> QED BY <1>4, <1>6

LEMMA InitIInv ==
    ASSUME Init
    PROVE  IInv
<1>0. /\ pc = "off" /\ synced = FALSE /\ from = 0 /\ to = 0 /\ idx = 0
      /\ buf = <<>> /\ data = Blank /\ file = NoFile /\ result = "none" /\ got = {}
      /\ ecu = "boot" /\ out = <<>> /\ line = <<>> /\ late = 0
  BY DEF Init
<1>1. file.whole = FALSE /\ file.image = Blank /\ file \in [whole : BOOLEAN, image : Image]
  <2>1. file = [whole |-> FALSE, image |-> Blank]
    BY <1>0 DEF NoFile
  <2>2. Blank \in Image
    BY Constants
  <2> QED BY <2>1, <2>2
<1>2. TypesInv
  BY <1>0, <1>1, Constants DEF TypesInv, Stages, Results, Erased
<1>3. RangeInv
  BY <1>0 DEF RangeInv, Reading
<1>4. ImageInv /\ SavedInv
  BY <1>0, <1>1 DEF ImageInv, SavedInv, SavedKept
<1>5. LineInv
  BY <1>0, Constants DEF LineInv
<1>6. FaithfulInv
  BY <1>0, <1>1, Constants DEF FaithfulInv, OneLateInv, Faithful, Steady
<1>7. NoneLateInv
  BY <1>0 DEF NoneLateInv, Steady
<1> QED BY <1>2, <1>3, <1>4, <1>5, <1>6, <1>7 DEF IInv

LEMMA NextIInv ==
    ASSUME IInv, [Next]_vars
    PROVE  IInv'
<1>0. /\ TypesInv /\ RangeInv /\ ImageInv /\ SavedInv /\ LineInv /\ FaithfulInv
      /\ late = 0 => NoneLateInv
  BY DEF IInv
<1>1. CASE Next
  <2>1. TypesInv' /\ RangeInv' /\ ImageInv' /\ SavedInv' /\ LineInv' /\ FaithfulInv'
    BY <1>0, <1>1, TypesStep, RangeStep, ImageStep, SavedStep, LineStep, FaithfulStep
  <2>2. late' = 0 => NoneLateInv'
    <3>1. ASSUME late' = 0 PROVE late = 0 /\ late <= 1
      BY <1>0, <3>1, LateCounts DEF TypesInv
    <3>2. late <= 1 => OneLateInv
      BY <1>0 DEF FaithfulInv
    <3> QED BY <1>0, <1>1, <3>1, <3>2, NoneLateStep
  <2> QED BY <2>1, <2>2 DEF IInv
<1>2. CASE UNCHANGED vars
  <2>1. /\ UNCHANGED <<pc, synced, from, to, idx, buf, data, file, result, got, ecu, out, line, late>>
    BY <1>2 DEF vars, run
  <2> QED BY <1>0, <2>1 DEF IInv, TypesInv, RangeInv, ImageInv, SavedInv, LineInv, FaithfulInv, NoneLateInv,
        InImage, InFile, SavedKept, Coming, OneLateInv, Faithful
<1> QED BY <1>1, <1>2

\* Every state of a run satisfies the invariant: how far the file is behind the image
\* (138-142, 176-197), and what may be under way (73-118).
THEOREM Inductive == Spec => []IInv
<1>1. Init => IInv
  BY InitIInv
<1>2. IInv /\ [Next]_vars => IInv'
  BY NextIInv
<1> QED BY <1>1, <1>2, PTL DEF Spec

\* While one byte is late at most, the file holds at each address of the flash the
\* bytes of that address (73-91, 101-118), and elsewhere it stays erased.
THEOREM DumpFaithfulHolds == Spec => []DumpFaithful
<1>1. IInv => DumpFaithful
  BY DEF IInv, FaithfulInv, Faithful, DumpFaithful
<1> QED BY <1>1, Inductive, PTL

\* Success means that the file holds every chunk of the range, and for the whole range
\* all of the flash (195-202).
THEOREM SuccessMeansDumpedHolds == Spec => []SuccessMeansDumped
<1>1. ASSUME IInv, result = "ok"
      PROVE  /\ file.whole
             /\ \A c \in from..(to - 1) : c \in got /\ InFile(c)
             /\ from = 0 /\ to = Chunks => \A a \in Flash : file.image[a] # Erased
  <2>1. pc = "off" /\ file.whole /\ idx = to /\ got = from..(to - 1) /\ \A c \in got : InFile(c)
    BY <1>1 DEF IInv, RangeInv, SavedInv
  <2>2. ASSUME from = 0, to = Chunks, NEW a \in Flash PROVE file.image[a] # Erased
    BY <2>1, <2>2, FlashInChunks DEF InFile
  <2> QED BY <2>1, <2>2
<1>2. IInv => SuccessMeansDumped
  BY <1>1 DEF SuccessMeansDumped, InFile
<1> QED BY <1>2, Inductive, PTL

\* What a run that ends has read and not saved is no more than lies between two saves
\* (176-181), and nothing where it reports (195-202).
THEOREM LossBoundedHolds == Spec => []LossBounded
<1>1. ASSUME IInv, pc = "off", result \in {"ok", "failed"} PROVE Missing = {}
  BY <1>1 DEF IInv, SavedInv, Missing, InFile
<1>2. ASSUME IInv, pc = "off", file.whole PROVE Cardinality(Missing) <= SaveEvery
  <2>0. idx \in Nat /\ from \in Nat /\ SaveEvery \in Nat \ {0} /\ got = from..(idx - 1)
    BY <1>2, Constants DEF IInv, TypesInv, RangeInv
  <2>1. Missing \subseteq (idx - SaveEvery)..(idx - 1)
    <3>1. SUFFICES ASSUME NEW c \in got, ~InFile(c), c < idx - SaveEvery PROVE FALSE
      BY <2>0 DEF Missing, InFile
    <3>2. c \in Nat
      BY <2>0
    <3>3. PICK i \in (c + 1)..(c + SaveEvery) : i % SaveEvery = 0
      BY <2>0, <3>2, MultipleAmong
    <3>4. i \in (c + 1)..(idx - 1)
      BY <2>0, <3>1, <3>2, <3>3
    <3>5. i % SaveEvery # 0
      BY <1>2, <3>1, <3>4 DEF IInv, SavedInv
    <3> QED BY <3>3, <3>5
  <2>2. /\ IsFiniteSet((idx - SaveEvery)..(idx - 1))
        /\ Cardinality((idx - SaveEvery)..(idx - 1)) = SaveEvery
    <3>1. idx - SaveEvery \in Int /\ idx - 1 \in Int /\ ~(idx - SaveEvery > idx - 1)
          /\ (idx - 1) - (idx - SaveEvery) + 1 = SaveEvery
      BY <2>0
    <3> QED BY <3>1, FS_Interval
  <2> QED BY <2>1, <2>2, FS_Subset
<1>3. IInv => LossBounded
  BY <1>1, <1>2 DEF LossBounded
<1> QED BY <1>3, Inductive, PTL

\* Whenever a run may write the file anew, it has at hand every chunk the file holds
\* (136-142, 176-181).
THEOREM SavedKeptHolds == Spec => []SavedKept
<1>1. IInv => SavedKept
  BY DEF IInv, ImageInv
<1> QED BY <1>1, Inductive, PTL
================================================================================
