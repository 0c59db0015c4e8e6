------------------------------- MODULE BslDumper -------------------------------
(***************************************************************************)
(* run_dumper of src/BSLScripts/st10_chunked_dumper.py, its serial line and *)
(* the bootstrap loader at the other end (external).  A run reads a range  *)
(* of chunks into an image of the flash and saves the image now and then;  *)
(* it may be stopped anywhere, and be followed by another that resumes     *)
(* from the file.                                                          *)
(*                                                                         *)
(* Addresses count chunks: byte i of the chunk at address a is <<a, i>>,    *)
(* and chunk numbers leave out what is no flash.  A payload is lost        *)
(* unless the loader has just acknowledged a zero byte: with another byte  *)
(* in front it is no program, and the controller is silent until its       *)
(* watchdog, which never rests, takes it back to the loader.               *)
(***************************************************************************)
EXTENDS Integers, Sequences, FiniteSets, Functions

CONSTANTS
    Sectors,      \* FLASH_SECTORS: <<address, chunks>> of each
    Chunks,       \* TOTAL_CHUNKS
    FlashSize,    \* FLASH_SIZE
    ChunkSize,    \* CHUNK_SIZE
    SaveEvery,    \* chunks between two saves: 64
    MaxProbes,    \* zero bytes sent in one handshake, for its deadline
    MaxRetries,   \* max_retries of dump_chunk
    LooksLikeAck, \* the bytes of the flash that are 0xD5
    MaxLate       \* bound on bytes that arrive behind a wait or a flush

Addresses == 0..(FlashSize - 1)
Flash == UNION {s[1]..(s[1] + s[2] - 1) : s \in Range(Sectors)}

\* What the controller reads at an address.
Contents == [a \in Addresses |-> [i \in 1..ChunkSize |-> <<a, i>>]]

\* The chunks in front of each sector.
FirstChunk[s \in DOMAIN Sectors] ==
    IF s = 1 THEN 0 ELSE FirstChunk[s - 1] + Sectors[s - 1][2]

\* Mutant: the gap between the sectors is counted.
MutChunkToFlashAddr(c) == c
\* The address of a chunk, which is also its offset in the file.
ChunkToFlashAddr(c) ==
    LET s == CHOOSE s \in DOMAIN Sectors :
                 FirstChunk[s] <= c /\ c < FirstChunk[s] + Sectors[s][2]
    IN  Sectors[s][1] + c - FirstChunk[s]

ASSUME DumperAssumption ==
    /\ {Chunks, SaveEvery, MaxProbes, MaxRetries} \subseteq Nat \ {0}
    /\ ChunkSize \in Nat \ {0, 1} /\ FlashSize \in Nat
    /\ Chunks % SaveEvery = 0 /\ MaxLate \in Nat
    /\ Flash \subseteq Addresses /\ Cardinality(Flash) = Chunks
    /\ LooksLikeAck \subseteq Addresses \X (1..ChunkSize)

\* The sectors share out the chunks: each chunk is in one of them.
ASSUME SectorsAssumption ==
    /\ Sectors \in Seq(Nat \X (Nat \ {0}))
    /\ FirstChunk \in [DOMAIN Sectors -> Nat]
    /\ \A s \in DOMAIN Sectors : FirstChunk[s] + Sectors[s][2] <= Chunks
    /\ \A c \in 0..(Chunks - 1) : \E s \in DOMAIN Sectors :
         FirstChunk[s] <= c /\ c < FirstChunk[s] + Sectors[s][2]
    /\ \A s, t \in DOMAIN Sectors : s < t => FirstChunk[s] + Sectors[s][2] <= FirstChunk[t]

VARIABLES
    pc,        \* what the script does next
    synced,    \* the initial handshake is over
    from, to,  \* start_chunk, end_chunk
    idx,       \* the chunk at hand
    probes, retries,
    buf,       \* buf of dump_chunk
    data,      \* flash_data
    file,      \* the output file: whole, when its size is FLASH_SIZE, and its image
    result,    \* what the run returned, or "running", or "raised"
    got,       \* chunks this run has read
    ecu, out,  \* the controller, and what its program has still to send
    line,      \* bytes under way to the script
    late

run == <<from, to, file, result, got, data>>
vars == <<pc, synced, idx, probes, retries, buf, run, ecu, out, line, late>>

Ack == <<>>           \* 0xD5
Erased == <<>>        \* a chunk of 0xFF
Blank == [a \in Addresses |-> Erased]
NoFile == [whole |-> FALSE, image |-> Blank]

Init ==
    /\ pc = "off" /\ synced = FALSE /\ from = 0 /\ to = 0 /\ idx = 0
    /\ probes = 0 /\ retries = 0 /\ buf = <<>> /\ data = Blank
    /\ file = NoFile /\ result = "none" /\ got = {}
    /\ ecu = "boot" /\ out = <<>> /\ line = <<>> /\ late = 0

OnTime == UNCHANGED late
Late == late < MaxLate /\ late' = late + 1

--------------------------------------------------------------------------------
\* Mutant: the file is not looked at.
MutLoaded == Blank
\* A file of the full size is resumed from; any other is as good as none.
Loaded == IF file.whole THEN file.image ELSE Blank

Start == \E a \in 0..(Chunks - 1), b \in 1..(Chunks + 1) :
    /\ pc = "off" /\ a < b
    /\ pc' = "probe" /\ synced' = FALSE /\ from' = a /\ to' = b /\ idx' = a
    /\ probes' = MaxProbes /\ retries' = MaxRetries /\ buf' = <<>>
    /\ data' = Loaded /\ result' = "running" /\ got' = {}
    /\ line' = <<>> /\ OnTime /\ UNCHANGED <<file, ecu, out>>

\* The run ends, or goes on with chunk i; there is none behind the last.
Ends(verdict) == pc' = "off" /\ result' = verdict /\ probes' = 0 /\ retries' = 0
Continue(i) ==
    \/ i = to /\ Ends("ok")
    \/ i < to /\ i = Chunks /\ Ends("raised")
    \/ /\ i < to /\ i < Chunks /\ UNCHANGED result
       /\ pc' = "probe" /\ probes' = MaxProbes /\ retries' = MaxRetries

\* Mutant: nothing is thrown away.
MutFlushed(kept) == kept = line /\ OnTime
\* reset_input_buffer: what has arrived is gone, what is under way is not.
Flushed(kept) ==
    \/ kept = <<>> /\ OnTime
    \/ kept # <<>> /\ (\E n \in 0..(Len(line) - 1) : kept = SubSeq(line, n + 1, Len(line))) /\ Late

\* A zero byte: the loader acknowledges it, or takes it for a program's first.
Probe ==
    /\ pc = "probe" /\ probes > 0
    /\ \E kept \in {SubSeq(line, n, Len(line)) : n \in 1..(Len(line) + 1)} :
        /\ Flushed(kept)
        /\ line' = IF ecu = "boot" THEN Append(kept, Ack) ELSE kept
    /\ ecu' = CASE ecu = "boot" -> "loads" [] ecu = "loads" -> "silent" [] OTHER -> ecu
    /\ pc' = "await" /\ probes' = probes - 1
    /\ UNCHANGED <<synced, idx, retries, buf, run, out>>

\* Mutant: an attempt that failed is not counted.
MutAttempts == retries
Attempts == retries - 1

Exhausted == Attempts = 0

\* An attempt on a chunk is over; behind the last one the image is saved, and the
\* run fails.
AttemptFails ==
    /\ retries' = Attempts /\ probes' = MaxProbes
    /\ IF Exhausted THEN pc' = "save" /\ result' = "failed"
                    ELSE pc' = "probe" /\ UNCHANGED result
    /\ UNCHANGED <<from, to, file, got, data>>

\* The deadline of a handshake.
HandshakeFails ==
    /\ pc = "probe" /\ probes = 0
    /\ \/ synced /\ AttemptFails
       \/ ~synced /\ Ends("failed") /\ UNCHANGED <<from, to, file, got, data>>
    /\ OnTime /\ UNCHANGED <<synced, idx, buf, ecu, out, line>>

IsAck(byte) == byte = Ack \/ byte \in LooksLikeAck

Answered ==
    /\ pc = "await" /\ line # <<>> /\ line' = Tail(line)
    /\ IF ~IsAck(Head(line))
         THEN pc' = "probe" /\ UNCHANGED <<synced, probes, retries, result>>
       ELSE IF synced
         THEN pc' = "upload" /\ UNCHANGED <<synced, probes, retries, result>>
       ELSE synced' = TRUE /\ Continue(idx)
    /\ OnTime /\ UNCHANGED <<idx, buf, from, to, file, got, data, ecu, out>>

NoAnswer ==
    /\ pc = "await" /\ pc' = "probe"
    /\ IF line = <<>> THEN OnTime ELSE Late
    /\ UNCHANGED <<synced, idx, probes, retries, buf, run, ecu, out, line>>

\* What is left is drained, and the payload follows.  It has zero bytes in it, which
\* the loader may take for another handshake.
Upload ==
    /\ pc = "upload"
    /\ \E kept \in {SubSeq(line, n, Len(line)) : n \in 1..(Len(line) + 1)} :
        /\ Flushed(kept)
        /\ \/ /\ ecu = "loads" /\ ecu' = "runs" /\ out' = Contents[ChunkToFlashAddr(idx)]
              /\ line' = kept
           \/ /\ ecu = "boot" /\ ecu' = "silent" /\ line' = Append(kept, Ack)
              /\ UNCHANGED out
           \/ /\ ecu # "loads" /\ line' = kept /\ UNCHANGED <<ecu, out>>
    /\ pc' = "read" /\ buf' = <<>>
    /\ UNCHANGED <<synced, idx, probes, retries, run>>

Read ==
    /\ pc = "read" /\ Len(buf) < ChunkSize /\ line # <<>>
    /\ buf' = Append(buf, Head(line)) /\ line' = Tail(line)
    /\ OnTime /\ UNCHANGED <<pc, synced, idx, probes, retries, run, ecu, out>>

\* Mutant: the end of a range that is not a multiple is not saved.
MutSaveDue(i) == i % SaveEvery = 0
SaveDue(i) == i % SaveEvery = 0 \/ i = to

Accept ==
    /\ pc = "read" /\ Len(buf) = ChunkSize
    /\ data' = [data EXCEPT ![ChunkToFlashAddr(idx)] = buf] /\ got' = got \union {idx}
    /\ idx' = idx + 1 /\ buf' = <<>>
    /\ IF SaveDue(idx + 1) THEN pc' = "save" /\ UNCHANGED <<probes, retries, result>>
                           ELSE Continue(idx + 1)
    /\ OnTime /\ UNCHANGED <<synced, from, to, file, ecu, out, line>>

\* The controller has no more to send, or is too late.
TooShort ==
    /\ pc = "read" /\ Len(buf) < ChunkSize
    /\ IF line = <<>> /\ ecu # "runs" THEN OnTime ELSE Late
    /\ AttemptFails /\ buf' = <<>>
    /\ UNCHANGED <<synced, idx, ecu, out, line>>

\* The file is truncated, and then written.
Save ==
    /\ pc = "save" /\ pc' = "saving"
    /\ file' = NoFile
    /\ OnTime
    /\ UNCHANGED <<synced, idx, probes, retries, buf, from, to, result, got, data, ecu, out, line>>

\* Mutant: what a failed run has read is not written.
MutWritten == IF result = "failed" THEN file ELSE [whole |-> TRUE, image |-> data]
Written == [whole |-> TRUE, image |-> data]

Saved ==
    /\ pc = "saving" /\ file' = Written
    /\ IF result = "failed" THEN Ends("failed") ELSE Continue(idx)
    /\ OnTime /\ UNCHANGED <<synced, idx, buf, from, to, got, data, ecu, out, line>>

\* The serial port or the file raises, the user interrupts, the computer stops.
Stop ==
    /\ pc # "off" /\ Ends("raised") /\ buf' = <<>> /\ OnTime
    /\ UNCHANGED <<synced, idx, from, to, file, got, data, ecu, out, line>>

Script ==
    \/ Probe \/ HandshakeFails \/ Answered \/ NoAnswer \/ Upload
    \/ Read \/ Accept \/ TooShort \/ Save \/ Saved

--------------------------------------------------------------------------------
\* The controller (external).
Transmit ==
    /\ ecu = "runs" /\ line' = Append(line, Head(out)) /\ out' = Tail(out)
    /\ ecu' = IF Len(out) = 1 THEN "silent" ELSE "runs"
    /\ OnTime /\ UNCHANGED <<pc, synced, idx, probes, retries, buf, run>>

Watchdog ==
    /\ ecu # "boot" /\ ecu' = "boot" /\ out' = <<>>
    /\ OnTime /\ UNCHANGED <<pc, synced, idx, probes, retries, buf, run, line>>

Next == Start \/ Script \/ Stop \/ Transmit \/ Watchdog

Spec == Init /\ [][Next]_vars
\* The script runs, and a program that was loaded goes on to its end or to the
\* watchdog's reset.
FairSpec == Spec /\ WF_vars(Script) /\ WF_vars(Transmit \/ Watchdog)

--------------------------------------------------------------------------------
(***************************************************************************)
(* Properties.                                                             *)
(***************************************************************************)

\* The file holds at each address of the flash the bytes of that address, and no
\* acknowledgement, shifted bytes or another chunk's, though an answer may come behind
\* its wait or behind a flush (73-91, 101-118); elsewhere it stays erased.  A second
\* late byte may shift a chunk whose own bytes pass for acknowledgements: the script
\* compares nothing.
DumpFaithful ==
    late <= 1 => \A a \in Addresses :
        file.image[a] # Erased => a \in Flash /\ file.image[a] = Contents[a]

\* A run that reports success has every chunk it was asked for in the file, and a run
\* of all chunks all of the flash: no two chunks share an address (195-202).
SuccessMeansDumped ==
    result = "ok" =>
        /\ file.whole
        /\ \A c \in from..(to - 1) :
             c \in got /\ file.image[ChunkToFlashAddr(c)] # Erased
        /\ from = 0 /\ to = Chunks => \A a \in Flash : file.image[a] # Erased

\* A run that ends loses no more than it read since the last save, and nothing when
\* it is given up for a chunk that cannot be read (176-181, 195-197); a file that
\* was cut off by the end itself is lost with all that is in it.
Missing == {c \in got : file.image[ChunkToFlashAddr(c)] = Erased}
LossBounded ==
    pc = "off" =>
        /\ file.whole => Cardinality(Missing) <= SaveEvery
        /\ result \in {"ok", "failed"} => Missing = {}

\* What one run has saved the next ones keep, whichever range they read and however
\* they end (136-142, 176-181): whenever a run may write the file anew, it has at
\* hand every chunk the file holds.  Only a file that a stop has left cut off is
\* not resumed from.
SavedKept ==
    pc # "off" => \A a \in Addresses : file.image[a] # Erased => data[a] # Erased

\* The run ends: handshakes have deadlines, and attempts are counted.
RunEnds == pc # "off" ~> pc = "off"
================================================================================
