----------------------------- MODULE MCIpCheck ------------------------------
(* Bounded instances of IpCheck; the constants are set in the cfgs.        *)
EXTENDS IpCheck, TLC

CONSTANTS p1, b1

OneProxy == {p1}
OneBinder == {b1}

\* Behaviours are followed up to the first overlap, past which the properties
\* of the run say nothing.
NotRaced == ~raced

\* How often greetings were dropped decides no step: states that differ in it
\* only are one to properties that do not speak of it.
NoEvidence == <<session, control, counters, shown, loop, gate, env, verdict,
                raced>>
=============================================================================
