----------------------------- MODULE MCDnsCache -----------------------------
(* Model-checking instance of DnsCache.  Names and threads are symmetric;  *)
(* nothing in the module orders them.                                      *)
EXTENDS DnsCache, TLC

Symmetric == Permutations(Names) \cup Permutations(Threads)

(* Bound: with entries in the file, one query at a time runs until the     *)
(* exit writes the next file.                                              *)
OneLongRun ==
    up /\ save # "writing" /\ disk # Nothing =>
        Cardinality({t \in Threads : q[t].pc # "idle"}) <= 1
=============================================================================
