----------------------------- MODULE MCPresence -----------------------------
(* Small instances of Presence for TLC. *)
EXTENDS Presence

\* Hard to turn on and easy to turn off at night, as the README suggests; a
\* threshold of 0 stands for 1.
DayHyst == [occupied |-> 2, vacant |-> 3]
NightHyst == [occupied |-> 4, vacant |-> 0]
=============================================================================
