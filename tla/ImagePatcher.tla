---------------------------- MODULE ImagePatcher ----------------------------
(***************************************************************************)
(* The image tools: src/haldex_patcher.py, src/artifacts.py, and what they  *)
(* put into the controller.  The user edits the image file, patches it or   *)
(* corrects a checksum in place, and flashes selections of it in any order. *)
(*                                                                         *)
(* An image is a sequence of words; addresses are its positions, and what   *)
(* is two, four or six bytes in the firmware, or more, is a word here.     *)
(* The sector with the vectors holds the panic hook, the reset routine and  *)
(* the traps.                                                              *)
(***************************************************************************)
EXTENDS Integers, Sequences, FiniteSetsExt, SequencesExt

CONSTANTS
    Size,        \* words: 2^16
    Sectors,     \* APP_BLOCKS: first and last address of each sector
    HookAt, RoutineAt, Traps,   \* addresses in one of the sectors
    SimulatorAt, \* addresses of the simulator patches
    StockHook, Hook, Blank, Routine, SelfLoop, Escape, Original, Bypass,  \* words
    Stock,       \* the image of the vehicle, with valid checksums
    Edits,       \* words an edit may write
    MaxEdits     \* bound on the edits

VARIABLES
    image,      \* the image file
    flash,      \* the application memory of the controller
    edits

vars == <<image, flash, edits>>

Addresses == DOMAIN Stock
Words == 0..(Size - 1)

ASSUME PatcherAssumption ==
    /\ Size \in Nat \ {0} /\ Stock \in Seq(Words)
    /\ \A s \in Sectors : s[1] \in Addresses /\ s[2] \in Addresses /\ s[1] < s[2]
    /\ \A s, t \in Sectors : s # t => s[2] < t[1] \/ t[2] < s[1]
    /\ Edits \subseteq Words /\ MaxEdits \in Nat

\* The code that is put in lies in one of the sectors and in front of its checksum, and
\* no piece of it over another.
ASSUME CodeAssumption ==
    /\ \E s \in Sectors : {HookAt, RoutineAt} \union Traps \subseteq s[1]..(s[2] - 1)
    /\ HookAt # RoutineAt /\ Traps \intersect {HookAt, RoutineAt} = {}
    /\ SelfLoop # Escape /\ {Hook, Routine, Escape, Bypass} \subseteq Words

\* validate_image: nothing but a whole image has the length of Stock.
Images == [Addresses -> Words]

--------------------------------------------------------------------------------
(***************************************************************************)
(* Selections and sums.                                                    *)
(***************************************************************************)

\* selected_blocks: whole sectors only, and none but those in between.
Selectable(from, to) ==
    from <= to /\ (\E s \in Sectors : s[1] = from) /\ (\E s \in Sectors : s[2] = to)
Selected(from, to) == {s \in Sectors : from <= s[1] /\ s[2] <= to}

\* Mutant: two words are left out.
MutBody(words) == Front(Front(words))
\* What the checksum covers of a sector, whose last word stores it.
Body(words) == Front(words)

Total(words) ==
    LET sum[i \in 0..Len(words)] == IF i = 0 THEN 0 ELSE sum[i - 1] + words[i]
    IN  sum[Len(words)]

\* Mutant: the negative of the sum, not cut to the width.
MutChecksum(words) == Size - (Total(Body(words)) % Size)
\* calculate_app_checksum: the complement of the sum, in the width of a word.
Checksum(words) == Size - 1 - (Total(Body(words)) % Size)

Sector(img, s) == SubSeq(img, s[1], s[2])
Valid(words) == Last(words) = Checksum(words)

\* Mutant: the last address is taken for the one behind.
MutCaptured(data, from, s) == SubSeq(data, s[1] - from + 1, s[2] - from)
Captured(data, from, s) == SubSeq(data, s[1] - from + 1, s[2] - from + 1)

\* application_checksums: a verdict for each sector the captured data has whole,
\* "unknown" for one it has part of.
Rows(data, from) ==
    LET to == from + Len(data) - 1
    IN  {[sector |-> s,
          valid  |-> IF from <= s[1] /\ s[2] <= to
                       THEN (IF Valid(Captured(data, from, s)) THEN "yes" ELSE "no")
                       ELSE "unknown"] :
         s \in {t \in Sectors : from <= t[2] /\ t[1] <= to}}

--------------------------------------------------------------------------------
(***************************************************************************)
(* patch_firmware.                                                         *)
(***************************************************************************)

\* Mutant: the hook and the routine go in whatever was selected.
MutAntiBrick(from, to) == TRUE
AntiBrick(from, to) == \E s \in Selected(from, to) : HookAt \in s[1]..s[2]

\* What must be there before anything is changed.
Preimage(img, from, to, simulator) ==
    /\ AntiBrick(from, to) => img[RoutineAt] \in {Blank, Routine} /\ img[HookAt] \in {StockHook, Hook}
    /\ simulator => \A a \in SimulatorAt \intersect from..to : img[a] \in {Original, Bypass}

\* Mutant: the last vector is left out.
MutWithCode(img, from, to, simulator) ==
    [a \in DOMAIN img |->
        IF AntiBrick(from, to) /\ a = RoutineAt THEN Routine
        ELSE IF AntiBrick(from, to) /\ a = HookAt THEN Hook
        ELSE IF AntiBrick(from, to) /\ a \in Traps \ {Max(Traps)} /\ img[a] = SelfLoop THEN Escape
        ELSE IF simulator /\ a \in SimulatorAt \intersect from..to THEN Bypass
        ELSE img[a]]
\* The code that is put in.
WithCode(img, from, to, simulator) ==
    [a \in DOMAIN img |->
        IF AntiBrick(from, to) /\ a = RoutineAt THEN Routine
        ELSE IF AntiBrick(from, to) /\ a = HookAt THEN Hook
        ELSE IF AntiBrick(from, to) /\ a \in Traps /\ img[a] = SelfLoop THEN Escape
        ELSE IF simulator /\ a \in SimulatorAt \intersect from..to THEN Bypass
        ELSE img[a]]

\* Mutant: the checksums of the image before the code was put in.
MutRepaired(img, code, s) == Checksum(Sector(img, s))
Repaired(img, code, s) == Checksum(Sector(code, s))

Patched(img, from, to, simulator) ==
    LET code == WithCode(img, from, to, simulator)
    IN  [a \in DOMAIN img |->
            IF \E s \in Selected(from, to) : s[2] = a
              THEN Repaired(img, code, CHOOSE s \in Sectors : s[2] = a) ELSE code[a]]

\* prepare_image patches without the simulator's changes.
Prepared(img, from, to) == Patched(img, from, to, FALSE)

Init == image = Stock /\ flash = Stock /\ edits = 0

\* The user changes a word of the file.
Edit == \E a \in Addresses, w \in Edits :
    /\ edits < MaxEdits /\ w # image[a]
    /\ image' = [image EXCEPT ![a] = w] /\ edits' = edits + 1
    /\ UNCHANGED flash

\* haldex_patcher without an option but the simulator's: the whole application.
PatchFile == \E simulator \in BOOLEAN :
    LET from == Min({s[1] : s \in Sectors})
        to == Max({s[2] : s \in Sectors})
    IN  /\ Preimage(image, from, to, simulator)
        /\ image' = Patched(image, from, to, simulator)
        /\ UNCHANGED <<flash, edits>>

\* haldex_patcher --fix: the checksum of one sector.
Fix == \E s \in Sectors :
    /\ image' = [image EXCEPT ![s[2]] = Checksum(Sector(image, s))]
    /\ UNCHANGED <<flash, edits>>

\* prepare_image, whose result is transferred, sector by sector, as far as it was
\* selected.  The file stays as it is.
Flash == \E from, to \in Addresses :
    /\ Selectable(from, to) /\ Preimage(image, from, to, FALSE)
    /\ LET after == Prepared(image, from, to)
       IN  /\ \A s \in Selected(from, to) : Valid(Sector(after, s))
           /\ flash' = [a \in DOMAIN flash |-> IF a \in from..to THEN after[a] ELSE flash[a]]
    /\ UNCHANGED <<image, edits>>

Next == Edit \/ PatchFile \/ Fix \/ Flash

Spec == Init /\ [][Next]_vars

--------------------------------------------------------------------------------
(***************************************************************************)
(* Properties.                                                             *)
(***************************************************************************)

TypeOK ==
    /\ image \in Images /\ flash \in Images /\ edits \in 0..MaxEdits

\* Whatever the user edits, patches, corrects and flashes, in whatever order and
\* selection, each sector of the controller has a valid checksum, and the panic hook
\* is never there without the routine it calls, nor a trap that loops beside it.
FlashBoots ==
    /\ \A s \in Sectors : Valid(Sector(flash, s))
    /\ flash[HookAt] = Hook =>
         flash[RoutineAt] = Routine /\ \A t \in Traps : flash[t] # SelfLoop

\* src/README.md:77, "It changes no bytes outside the selected range": whatever is
\* selected of the file as it is, the prepared image is the file but for the
\* selection, passes the checks of prepare_image, and prepared again stays the same.
PreparedInSelection ==
    \A from, to \in Addresses :
        Selectable(from, to) /\ Preimage(image, from, to, FALSE) =>
            LET after == Prepared(image, from, to)
            IN  /\ \A a \in Addresses \ (from..to) : after[a] = image[a]
                /\ \A s \in Selected(from, to) : Valid(Sector(after, s))
                /\ Preimage(after, from, to, FALSE) /\ Prepared(after, from, to) = after

\* A capture of any part of the memory is judged sector by sector as the whole memory
\* would be, and never for a sector it has only part of.
RowsAgree ==
    \A from, to \in Addresses : from <= to =>
        \A row \in Rows(SubSeq(image, from, to), from) :
            row.valid # "unknown" =>
                /\ row.sector[1] \in from..to /\ row.sector[2] \in from..to
                /\ (row.valid = "yes" <=> Valid(Sector(image, row.sector)))

\* An edit of one word in a sector with a valid checksum never leaves it valid.
EditsShow ==
    [][edits' # edits =>
         \A s \in Sectors :
            Valid(Sector(image, s)) /\ Sector(image, s) # Sector(image', s)
              => ~Valid(Sector(image', s))]_vars
================================================================================
