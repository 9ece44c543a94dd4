--------------------------- MODULE MCNativeMaster ---------------------------
(* Small instances of NativeMaster for TLC. *)
EXTENDS NativeMaster

Config(lang, retries, counters, ints, malformed, dribbling, healthy) ==
  [lang |-> lang, maxRetries |-> retries, strategy |-> "RoundRobin",
   backoff |-> TRUE, counterMod |-> counters, intMod |-> ints,
   malformed |-> malformed, dribbling |-> dribbling, healthy |-> healthy]

\* Go with two rounds and no master to rely on, replies without end included; Java
\* with no retries, a counter that overflows, one good master, and none that
\* dribbles: an assumption on the masters, since nothing in the client ends that.
MCSweeps ==
  {Config("go", 2, 8, 8, FALSE, TRUE, {}),
   Config("java", 0, 4, 4, FALSE, FALSE, {1})}

\* Go where an int is narrower than the counter.
MCNarrowInt == {Config("go", 1, 8, 4, FALSE, TRUE, {})}

\* Java with masters whose lookup replies may hold a malformed location.
MCMalformed == {Config("java", 1, 8, 8, TRUE, TRUE, {})}
=============================================================================
