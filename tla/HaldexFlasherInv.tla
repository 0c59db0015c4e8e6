-------------------------- MODULE HaldexFlasherInv --------------------------
(***************************************************************************)
(* The inductive invariant behind the safety properties: what is in the    *)
(* queues, what the flash holds, and what a response already promises, at  *)
(* each statement of flash_binary.  HaldexFlasherProofs proves it.         *)
(***************************************************************************)
EXTENDS HaldexFlasher

BeforeErase == {"connect", "session89", "appSeed", "appKey", "session85",
                "reconnLoader", "loaderSeed", "loaderKey", "download"}
Erasing == {"eraseResult", "reconnErase"}
AfterTransfer == {"exit", "checksum", "checksumResult", "reconnChecksum",
                  "stop20", "stop82", "verify", "ident", "status"}

\* The services whose requests may still be with the controller.
Outstanding ==
    CASE pc = "stop82" -> Committing
      [] pc \in Exchanges \ {"stop82"} -> {pc}
      [] pc = "reconnLoader" -> {"session85"}
      [] pc = "reconnErase" -> {"eraseResult"}
      [] pc = "reconnChecksum" -> {"checksumResult"}
      [] pc = "verify" -> Committing
      [] pc = "connect" -> {}
      [] pc = "idle" -> Services

\* The controller answered the request positively, and the answer is under way.
Positive(sid) == \E i \in DOMAIN rsp : rsp[i].to = sid /\ rsp[i].kind = "pos"
Answered == Positive(pc)

\* Only a request is waited for, and a poll that is under way was within the bound.
PollsInv == awaiting => pc \in Exchanges /\ (pc \in Polling => polls > 0)

QueueInv ==
    /\ open \/ req # <<>> => mode # "reset"
    /\ \A i \in DOMAIN req : req[i].sid \in Outstanding
    /\ \A i, j \in DOMAIN req : req[i].sid \in Committing => req[j].sid \in Committing
    /\ pc \in Exchanges =>
         /\ req # <<>> => open
         /\ \A i \in DOMAIN rsp : rsp[i] = A8 \/ rsp[i].to \in Outstanding
         /\ pc # "stop82" =>
              /\ awaiting \/ (req = <<>> /\ \A i \in DOMAIN rsp : rsp[i] = A8)
              /\ Len(req) <= 1
              /\ req # <<>> => \A i \in DOMAIN rsp : rsp[i] = A8
              /\ \A i, j \in DOMAIN rsp : rsp[i] # A8 /\ rsp[j] # A8 => i = j
         /\ pc = "stop82" /\ ~awaiting =>
              /\ \A i \in DOMAIN req : req[i].sid = "stop20"
              /\ \A i \in DOMAIN rsp : rsp[i] = A8 \/ rsp[i].to = "stop20"
    /\ PollsInv

Untouched == flash = before /\ \A i \in DOMAIN req : req[i].sid \notin {"erase", "transfer"}

MarkInv ==
    /\ pc \in BeforeErase \/ (pc = "erase" /\ ~awaiting) => Untouched
    /\ pc \in Connecting \cup Exchanges /\ ~recovery =>
         pc \in BeforeErase \/ (pc = "erase" /\ ~awaiting)
    /\ pc = "idle" /\ last.status = "error" => Untouched

\* flash holds the blocks below k, and is blank from k on.
Written(k) == flash = [i \in Blocks |-> IF i < k THEN i ELSE Blank]

AtBlock(k) == open => ram.routine = "erase" /\ ram.phase = "done" /\ ram.wp = k

ProgressInv ==
    /\ pc = "erase" /\ Answered => flash = BlankFlash /\ (ram.routine = "erase" => ram.wp = 1)
    /\ pc \in Erasing =>
         /\ flash = BlankFlash
         /\ ram.routine = "erase" => ram.wp = 1
         /\ pc = "eraseResult" /\ Answered /\ open =>
              ram.routine = "erase" /\ ram.phase = "done"
    /\ pc = "transfer" =>
         /\ \A i \in DOMAIN req : req[i].blk = off
         /\ \/ Written(off) /\ AtBlock(off) /\ ~Answered
            \/ Written(off + 1) /\ AtBlock(off + 1) /\ awaiting /\ req = <<>>
    /\ pc \in AfterTransfer => flash = Image

\* A block travels alone, and the loader is ready for it.
TransferInv ==
    InStep /\ ((\E i \in DOMAIN req : req[i].sid = "transfer") => Len(req) <= 1)

SumDone == ram.routine = "sum" /\ ram.phase = "done"

CheckInv ==
    /\ ChecksumBeforeCommit
    /\ pc = "checksumResult" /\ Answered /\ open => SumDone
    /\ pc \in Committing /\ open => SumDone

Programmed == committed /\ flash = Image /\ mode # "loader" /\ ~ram.stay

CommitInv ==
    /\ pc = "stop20" => last.acked = {}
    /\ pc = "stop82" => last.acked \subseteq {"stop20"}
    /\ pc \in BeforeErase \cup Erasing \cup {"erase", "transfer", "exit", "checksum",
                 "checksumResult", "reconnChecksum"} => last.acked = {}
    /\ pc = "stop20" /\ Answered /\ open => ram.stopped
    /\ pc = "stop82" /\ "stop20" \in last.acked =>
         /\ open => ram.stopped
         /\ Answered => Programmed
    /\ pc \in Verifying /\ Acknowledged => Programmed
    /\ pc = "idle" /\ last.status = "ok" => Programmed /\ req = <<>>

\* What FlashContract needs beside: the blocks in front of one under way are written,
\* and a run that goes on has no verdict yet.
HeldInv ==
    /\ flash = OldImage \/ \E k \in 0..NumBlocks : Holds(k)
    /\ \A i \in DOMAIN req : req[i].sid = "transfer" => Holds(req[i].blk - 1)
    /\ last.status = "running" <=> pc # "idle"

IInv == TypeOK /\ QueueInv /\ MarkInv /\ ProgressInv /\ TransferInv /\ CheckInv /\ CommitInv
================================================================================
