---------------------------- MODULE FlashContract ----------------------------
(***************************************************************************)
(* What flash_binary of src/haldex_flasher.py promises its caller, without *)
(* the requests, channels and retries by which it keeps the promise: what  *)
(* the controller holds changes only once the run has counted itself as    *)
(* destructive, it is the old image or the first blocks of the new one,    *)
(* and the verdict of the run tells which.                                 *)
(***************************************************************************)
EXTENDS Integers

CONSTANT NumBlocks   \* blocks of the image, at least one

VARIABLES
    held,        \* what the controller holds: Old, or that many blocks of the image
    committed,   \* the controller takes what it holds for complete
    verdict,     \* last_result["status"], "running" during a run
    exposed      \* a destructive request was, or is about to be, sent

contractVars == <<held, committed, verdict, exposed>>

Old == -1

Init ==
    /\ \/ held = Old /\ committed = TRUE
       \/ held = 0 /\ committed = FALSE
    /\ verdict = "none" /\ exposed = FALSE

Begin ==
    /\ verdict # "running" /\ verdict' = "running" /\ exposed' = FALSE
    /\ UNCHANGED <<held, committed>>

\* An image that is refused, or a dry run.
Refuse ==
    /\ verdict # "running" /\ verdict' \in {"none", "validated"}
    /\ exposed' => exposed
    /\ UNCHANGED <<held, committed>>

Mark ==
    /\ verdict = "running" /\ exposed' = TRUE
    /\ UNCHANGED <<held, committed, verdict>>

\* What the controller does may come late, behind the verdict of a failed run; a run
\* that counted itself as destructive stays so.
Erase == held' = 0 /\ committed' = FALSE
Program == held \in 0..(NumBlocks - 1) /\ held' = held + 1 /\ UNCHANGED committed
Commit == held = NumBlocks /\ committed' \in BOOLEAN /\ UNCHANGED held

Change ==
    /\ exposed /\ UNCHANGED verdict
    /\ Erase \/ Program \/ Commit \/ UNCHANGED <<held, committed>>
    /\ exposed' \in BOOLEAN /\ (verdict = "running" => exposed')

Succeed ==
    /\ held = NumBlocks /\ committed
    /\ verdict' = "ok" /\ exposed' = FALSE
Fail ==
    /\ verdict' = IF exposed THEN "recovery_required" ELSE "error"
    /\ UNCHANGED exposed
Finish ==
    /\ verdict = "running"
    /\ Succeed \/ Fail
    /\ UNCHANGED <<held, committed>>

Next == Begin \/ Refuse \/ Mark \/ Change \/ Finish

Spec == Init /\ [][Next]_contractVars
================================================================================
