------------------------------ MODULE CanAdapter ------------------------------
(***************************************************************************)
(* The adapters of open_adapter (src/runner.py) as their owner sees them:   *)
(* the calls of the driver that set one up, and what close gives back.  The *)
(* driver (external) may fail in any call.                                 *)
(***************************************************************************)
EXTENDS Naturals, Sequences

\* open, connect_can; the Panda, whose close is of PandaAdapter; can.Bus.
SetUp ==
    [j2534     |-> <<"PassThruOpen", "PassThruConnect", "PassThruStartMsgFilter">>,
     panda     |-> <<"Panda", "set_can_speed_kbps", "can_clear", "set_safety_mode">>,
     socketcan |-> <<"Bus">>]
Kinds == DOMAIN SetUp

\* The calls behind which frames go out to the car.
Enabling == {"PassThruConnect", "set_safety_mode", "Bus"}

\* done: calls of the setup that returned; held: the driver has given its handle;
\* able: frames go out; refused: what close did not give back, since the driver failed
\* or Ctrl-C ended its call.
Adapter == [kind : Kinds, done : 0..4, held : BOOLEAN, able : BOOLEAN,
            refused : SUBSET {"mode", "handle"}]
Shut(kind) == [kind |-> kind, done |-> 0, held |-> FALSE, able |-> FALSE, refused |-> {}]

\* open_adapter has returned the adapter to its owner.
Owned(d) == d.done = Len(SetUp[d.kind])

Advanced(d) ==
    [d EXCEPT !.done = @ + 1, !.held = TRUE,
              !.able = @ \/ SetUp[d.kind][d.done + 1] \in Enabling]

\* What close meets: only the Panda has a mode to reset before its handle.
Refusals(d) == IF d.kind = "panda" THEN SUBSET {"mode", "handle"} ELSE SUBSET {"handle"}

\* Mutant: without its finally, close stops at the mode that was not reset.
MutClosed(d, refused) ==
    [d EXCEPT !.done = 0, !.refused = refused,
              !.held = @ /\ refused # {},
              !.able = @ /\ refused # {}]
\* close: the handle is given back also when the mode was not reset.
Closed(d, refused) ==
    [d EXCEPT !.done = 0, !.refused = refused,
              !.held = @ /\ "handle" \in refused,
              !.able = @ /\ (IF d.kind = "panda" THEN "mode" ELSE "handle") \in refused]

\* PassThruClose tells its failure by a status, which J2534Device.close does not read.
CloseRaises(d, refused) == refused # {} /\ d.kind # "j2534"

\* Mutant: the exception leaves open_adapter as it is.
MutAbandoned(d, refused) == [d EXCEPT !.done = 0]
\* A call of the setup raises: what was opened before is closed; where nothing was,
\* there is nothing to close.
Abandoned(d, refused) == IF d.held THEN Closed(d, refused) ELSE d
================================================================================
