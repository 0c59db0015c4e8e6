--------------------------- MODULE HaldexController ---------------------------
(***************************************************************************)
(* The Haldex Gen4 controller and the diagnostic channel to it, as         *)
(* HaldexFlasher in src/haldex_flasher.py uses them.  The firmware is not  *)
(* in the repository: every definition is external, and says of the        *)
(* controller only what the flasher relies on, or has to survive.          *)
(*                                                                         *)
(* The channel is a pair of queues.  Requests on a closed channel reach    *)
(* nobody; a request that was delivered before the channel closed may      *)
(* still be acted upon, and its answer is then lost.                       *)
(***************************************************************************)
EXTENDS Integers, Sequences

CONSTANTS
    NumBlocks,   \* blocks of one TransferData each in the selected sectors
    MaxUpsets    \* adverse events the environment may still cause; -1: no bound

ASSUME ControllerAssumption ==
    /\ NumBlocks \in Nat \ {0}
    /\ MaxUpsets \in Nat \cup {-1}

VARIABLES
    mode,       \* the firmware that runs: "app", "loader", or "reset" (none)
    ram,        \* the loader's volatile session state
    flash,      \* the contents of every block
    committed,  \* the EEPROM says that the application is complete
    open,       \* the controller holds a dynamic TP2 channel
    req,        \* requests delivered and not yet acted upon
    rsp,        \* responses and A8 close frames on their way to the tester
    upsets      \* adverse events left

ecu == <<mode, ram, flash, committed>>
controllerVars == <<mode, ram, flash, committed, open, req, rsp, upsets>>

Blocks == 1..NumBlocks
Old == -1
Blank == 0
OldImage == [i \in Blocks |-> Old]
BlankFlash == [i \in Blocks |-> Blank]
Image == [i \in Blocks |-> i]        \* block i of the region being flashed is i

Services == {"session89", "appSeed", "appKey", "session85", "loaderSeed",
             "loaderKey", "download", "erase", "eraseResult", "transfer",
             "exit", "checksum", "checksumResult", "stop20", "stop82",
             "ident", "status"}
Request == [sid : Services, blk : 0..NumBlocks]
Kinds == {"pos", "neg", "busy", "bad", "A8"}
Response == [to : Services \cup {"A8"}, kind : Kinds]
A8 == [to |-> "A8", kind |-> "A8"]

\* "erase" and "sum" are the routines C4 and C5; phase is the outcome so far.
Ram == [unlocked : BOOLEAN, armed : BOOLEAN, stopped : BOOLEAN, stay : BOOLEAN,
        routine : {"none", "erase", "sum"},
        phase : {"none", "running", "done", "failed"},
        wp : 1..(NumBlocks + 1)]
Ram0 == [unlocked |-> FALSE, armed |-> FALSE, stopped |-> FALSE, stay |-> FALSE,
         routine |-> "none", phase |-> "none", wp |-> 1]

\* A controller with its old application, or one that an interrupted earlier
\* flash left in the loader.
ControllerInit ==
    /\ \/ mode = "app" /\ flash = OldImage /\ committed = TRUE
       \/ mode = "loader" /\ flash = BlankFlash /\ committed = FALSE
    /\ ram = Ram0
    /\ open = FALSE /\ req = <<>> /\ rsp = <<>>
    /\ upsets = MaxUpsets

\* One adverse event: a lost frame, a late answer, a power cycle, ...
Upset == upsets # 0 /\ upsets' = IF upsets > 0 THEN upsets - 1 ELSE upsets
Calm == UNCHANGED upsets

--------------------------------------------------------------------------------
(***************************************************************************)
(* Services.  Each acts on the oldest request and answers it.              *)
(***************************************************************************)

Asked(sids) == req # <<>> /\ Head(req).sid \in sids

Reply(kind) ==
    /\ req' = Tail(req)
    /\ rsp' = IF open THEN Append(rsp, [to |-> Head(req).sid, kind |-> kind])
                      ELSE rsp
    /\ UNCHANGED open

AppServices == {"session89", "appSeed", "appKey"}
Readable == {"ident", "status"}

Acceptable(r) ==
    \/ r.sid \in Readable
    \/ mode = "app" /\ r.sid \in AppServices \cup {"session85"}
    \/ /\ mode = "loader"
       /\ \/ r.sid \in {"loaderSeed", "loaderKey", "stop20", "stop82"}
          \/ r.sid = "download" /\ ram.unlocked
          \/ r.sid \in {"erase", "exit", "checksum"} /\ ram.armed
          \/ r.sid = "eraseResult" /\ ram.routine = "erase"
          \/ r.sid = "checksumResult" /\ ram.routine = "sum"
          \/ /\ r.sid = "transfer" /\ ram.armed
             /\ ram.routine = "erase" /\ ram.phase = "done"
             /\ ram.wp <= NumBlocks

Accepted(sids) == mode # "reset" /\ Asked(sids) /\ Acceptable(Head(req))

\* A negative response, to what the controller cannot do or will not do now.
Refuse ==
    /\ mode # "reset" /\ req # <<>>
    /\ IF Acceptable(Head(req)) THEN Upset ELSE Calm
    /\ Reply("neg") /\ UNCHANGED ecu

ServeRead ==
    /\ Accepted(AppServices \cup {"loaderSeed", "exit"} \cup Readable)
    /\ Reply("pos") /\ Calm /\ UNCHANGED ecu

\* An answer of the right service whose content the tester must not accept:
\* a foreign seed, an empty version, a flash status other than 0 and 1.
ServeStrange ==
    /\ Accepted({"loaderSeed"} \cup Readable)
    /\ Reply("bad") /\ Upset /\ UNCHANGED ecu

\* The application leaves for the loader: with a response, an A8, or nothing.
ServeEnterLoader ==
    /\ Accepted({"session85"})
    /\ mode' = "reset" /\ ram' = [Ram0 EXCEPT !.stay = TRUE]
    /\ open' = FALSE /\ req' = <<>>
    /\ \/ rsp' = rsp
       \/ open /\ rsp' = Append(rsp, [to |-> "session85", kind |-> "pos"])
       \/ open /\ rsp' = Append(rsp, A8)
    /\ Calm /\ UNCHANGED <<flash, committed>>

ServeSession ==
    /\ \/ Accepted({"loaderKey"}) /\ ram' = [ram EXCEPT !.unlocked = TRUE]
       \/ Accepted({"download"})  /\ ram' = [ram EXCEPT !.armed = TRUE]
       \/ Accepted({"stop20"})    /\ ram' = [ram EXCEPT !.stopped = TRUE]
       \/ Accepted({"checksum"})  /\ ram' = [ram EXCEPT !.routine = "sum", !.phase = "running"]
    /\ Reply("pos") /\ Calm /\ UNCHANGED <<mode, flash, committed>>

ServeErase ==
    /\ Accepted({"erase"})
    /\ flash' = BlankFlash /\ committed' = FALSE
    /\ ram' = [ram EXCEPT !.routine = "erase", !.phase = "running", !.wp = 1]
    /\ Reply("pos") /\ Calm /\ UNCHANGED mode

\* The loader writes where its own pointer stands: the request has no address.
ServeTransfer ==
    /\ Accepted({"transfer"})
    /\ flash' = [flash EXCEPT ![ram.wp] = Head(req).blk]
    /\ ram' = [ram EXCEPT !.wp = @ + 1]
    /\ Reply("pos") /\ Calm /\ UNCHANGED <<mode, committed>>

\* 73 rid 23 (or NRC 23) while the routine runs, which takes more than one
\* poll only when something is slow; then 73 rid 00, or another status.
ServeResult ==
    /\ Accepted({"eraseResult", "checksumResult"})
    /\ \/ ram.phase = "running" /\ Reply("busy") /\ Upset
       \/ ram.phase = "done"    /\ Reply("pos")  /\ Calm
       \/ ram.phase = "failed"  /\ Reply("bad")  /\ Calm
    /\ UNCHANGED ecu

\* Commit and reset.  Without an accepted 20 the outcome is not known.  The
\* channel may be closed with an A8 behind the response, rarely instead of it.
ServeCommit ==
    /\ Accepted({"stop82"})
    /\ committed' \in (IF ram.stopped THEN {TRUE} ELSE BOOLEAN)
    /\ mode' = "reset" /\ ram' = Ram0
    /\ open' = FALSE /\ req' = <<>>
    /\ LET ok == [to |-> "stop82", kind |-> "pos"]
       IN  \/ rsp' \in (IF open THEN {Append(rsp, ok), rsp \o <<ok, A8>>} ELSE {rsp}) /\ Calm
           \/ open /\ rsp' = Append(rsp, A8) /\ Upset
    /\ UNCHANGED flash

Serve == \/ Refuse \/ ServeRead \/ ServeStrange \/ ServeEnterLoader \/ ServeSession
         \/ ServeErase \/ ServeTransfer \/ ServeResult \/ ServeCommit

--------------------------------------------------------------------------------
(***************************************************************************)
(* What the controller and the link do of their own.                       *)
(***************************************************************************)

\* C5 adds the bytes up: it cannot tell an image from a rearranged one.
SumMatches == {flash[i] : i \in Blocks} = Blocks

RoutineEnds ==
    /\ mode = "loader" /\ ram.phase = "running"
    /\ \/ /\ ram.routine = "erase" \/ SumMatches
          /\ ram' = [ram EXCEPT !.phase = "done"] /\ Calm
       \/ /\ ram.routine = "sum" /\ ~SumMatches
          /\ ram' = [ram EXCEPT !.phase = "failed"] /\ Calm
       \/ ram' = [ram EXCEPT !.phase = "failed"] /\ Upset
    /\ UNCHANGED <<mode, flash, committed, open, req, rsp>>

\* A complete application runs when it is committed, and may run when it is not.
Reboot ==
    LET bootable == ~ram.stay /\ flash \in {OldImage, Image}
    IN  /\ mode = "reset"
        /\ \/ mode' = "app" /\ bootable
           \/ mode' = "loader" /\ ~(bootable /\ committed)
        /\ ram' = Ram0
        /\ Calm /\ UNCHANGED <<flash, committed, open, req, rsp>>

\* The loader closes the channel while erase is running, and may at any time.
CloseChannel ==
    /\ open /\ Upset
    /\ open' = FALSE /\ req' = <<>> /\ rsp' = Append(rsp, A8)
    /\ UNCHANGED ecu

LoseRequest ==
    /\ req # <<>> /\ req' = Tail(req)
    /\ IF open THEN Upset ELSE Calm
    /\ UNCHANGED <<mode, ram, flash, committed, open, rsp>>

LoseResponse ==
    /\ rsp # <<>> /\ rsp' = Tail(rsp) /\ Upset
    /\ UNCHANGED <<mode, ram, flash, committed, open, req>>

PowerCycle ==
    /\ mode # "reset" /\ Upset
    /\ mode' = "reset" /\ ram' = Ram0 /\ open' = FALSE /\ req' = <<>>
    /\ UNCHANGED <<flash, committed, rsp>>

ControllerSteps == Serve \/ RoutineEnds \/ Reboot
LinkSteps == CloseChannel \/ LoseRequest \/ LoseResponse \/ PowerCycle
ControllerNext == ControllerSteps \/ LinkSteps

ControllerTypeOK ==
    /\ mode \in {"app", "loader", "reset"}
    /\ ram \in Ram
    /\ flash \in [Blocks -> {Old, Blank} \cup Blocks]
    /\ committed \in BOOLEAN
    /\ open \in BOOLEAN
    /\ req \in Seq(Request)
    /\ rsp \in Seq(Response)
    /\ upsets \in Int
================================================================================
