------------------------- MODULE MCPresenceDisplay -------------------------
(* Small instances of PresenceDisplay and Slideshow for TLC. *)
EXTENDS Slideshow

\* By day two reports turn presence on and one turns it off; in the silent
\* minute two turn it off.
TwoThenOne == [occupied |-> 2, vacant |-> 1]
OneThenTwo == [occupied |-> 1, vacant |-> 2]
=============================================================================
