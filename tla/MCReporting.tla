---------------------------- MODULE MCReporting ----------------------------
(* Instances of Reporting for TLC. *)
EXTENDS Reporting

Of(least, most) == [min |-> least, max |-> most]

\* The battery as user_init configures it, in units of 300 s, and, in units of
\* 100 s, with half an hour as its maximum.
Battery     == [e \in {"battery"} |-> Of(1, 12)]
FineBattery == [e \in {"battery"} |-> Of(3, 18)]

\* What a client configures instead, in units of 100 s: no minimum, those of a
\* meter, a minimum below the period of the clock, both equal, reversed, without
\* a maximum, and switched off.
AnyKind == {Of(0, 1), Of(0, 3), Of(2, 5), Of(2, 2), Of(3, 1), Of(2, 0), Of(0, Disabled)}
=============================================================================
