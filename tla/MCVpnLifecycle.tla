--------------------------- MODULE MCVpnLifecycle ---------------------------
(* Bounded instances of VpnLifecycle; the constants are set in the cfgs.   *)
EXTENDS VpnLifecycle

\* A client's binder thread, on which stopMe runs beside the main thread.
OneBinder == {"binder"}
NoBinder == {}

\* Where the properties of a run claim nothing it does not explore further: an
\* overlap stays on record for ever, and a destroyed instance starts nothing.
NotRaced == ~raced
CounterInUse == ~seqBack /\ ~destroyed
=============================================================================
