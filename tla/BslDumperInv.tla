----------------------------- MODULE BslDumperInv -----------------------------
(***************************************************************************)
(* The inductive invariant behind the safety properties of BslDumper: how  *)
(* far the file is behind the image, and how many bytes that are not of     *)
(* the chunk at hand may be under way.  BslDumperProofs proves it.         *)
(***************************************************************************)
EXTENDS BslDumper

Bytes == {Ack} \union (Addresses \X (1..ChunkSize))
Image == [Addresses -> Seq(Bytes)]
Stages == {"off", "probe", "await", "upload", "read", "save", "saving"}
Results == {"none", "running", "ok", "failed", "raised"}

TypesInv ==
    /\ pc \in Stages /\ synced \in BOOLEAN /\ result \in Results
    /\ from \in Nat /\ to \in Nat /\ idx \in Nat /\ got \subseteq 0..(Chunks - 1)
    /\ buf \in Seq(Bytes) /\ line \in Seq(Bytes) /\ out \in Seq(Bytes)
    /\ data \in Image /\ file \in [whole : BOOLEAN, image : Image]
    /\ ecu \in {"boot", "loads", "runs", "silent"} /\ late \in Nat

\* The chunk at hand is one of the range and of the flash; the chunks before it have been
\* read.
Reading == {"probe", "await", "upload", "read"}
RangeInv ==
    /\ pc # "off" => from <= idx /\ idx <= to /\ result \in {"running", "failed"}
    /\ pc \in Reading => idx < to /\ idx < Chunks /\ result = "running"
    /\ pc # "off" /\ ~synced => idx = from /\ pc \in {"probe", "await"}
    /\ from <= idx /\ got = from..(idx - 1)

\* The image has what was read, and what the file holds.
InImage(c) == data[ChunkToFlashAddr(c)] # Erased
InFile(c) == file.image[ChunkToFlashAddr(c)] # Erased
ImageInv ==
    /\ ~file.whole => file.image = Blank
    /\ \A c \in got : InImage(c)
    /\ SavedKept

\* Behind a chunk that is not in a whole file no save was due.
SavedInv ==
    /\ file.whole => \A c \in got : ~InFile(c) =>
         \A i \in (c + 1)..(idx - 1) : i % SaveEvery # 0
    /\ file.whole /\ pc \in Reading => \A c \in got : ~InFile(c) => idx % SaveEvery # 0
    /\ result \in {"ok", "failed"} /\ pc = "off" => \A c \in got : InFile(c)
    /\ result = "ok" => pc = "off" /\ file.whole /\ idx = to

\* What is under way and still to come, beside what was read of the chunk.
Coming == Len(line) + Len(out)
LineInv ==
    /\ Len(out) <= ChunkSize
    /\ ecu = "runs" <=> out # <<>>
    /\ pc = "read" => synced

\* With one late byte at most, what a program has sent is not mixed with the
\* acknowledgements of later handshakes; with none, a handshake has used up more of
\* what was left than it adds.
Steady == {"probe", "await", "save", "saving"}
OneLateInv ==
    /\ pc = "read" => \/ Len(buf) + Coming < ChunkSize
                      \/ buf \o line \o out = Contents[ChunkToFlashAddr(idx)]
    /\ pc = "upload" /\ ecu = "runs" => Coming < ChunkSize
    /\ pc \in Steady /\ ecu = "runs" => Coming <= ChunkSize
NoneLateInv ==
    /\ pc \in Steady =>
         IF ecu = "loads" THEN Len(line) <= 1
                          ELSE Coming <= (IF synced THEN ChunkSize - 1 ELSE ChunkSize)
    /\ pc = "upload" => IF ecu = "loads" THEN line = <<>> ELSE Coming <= ChunkSize - 2

\* The image holds nothing but the bytes of its addresses.
Faithful(img) == \A a \in Addresses : img[a] # Erased => a \in Flash /\ img[a] = Contents[a]
FaithfulInv == late <= 1 => OneLateInv /\ Faithful(data) /\ Faithful(file.image)

IInv ==
    /\ TypesInv /\ RangeInv /\ ImageInv /\ SavedInv /\ LineInv /\ FaithfulInv
    /\ late = 0 => NoneLateInv
================================================================================
