-------------------------- MODULE MCStreamPipeline --------------------------
(* Small instances of StreamPipeline for TLC.                               *)
EXTENDS StreamPipeline, TLC

CONSTANTS s1, r1, r2

MCSessions == {s1}
MCReaders  == {r1, r2}
MCReader   == {r1}
MCSymmetry == Permutations(MCReaders)

Budget(s, g, c, n) == [sups |-> s, gens |-> g, subs |-> c, reads |-> n]

\* Two supervisors and two generations, with handlers that race to open one; two
\* supervisors and a subscriber; one that subscribes twice; frames that are read.
MCBudgets == {Budget(2, 2, 0, 0), Budget(2, 1, 1, 0), Budget(1, 1, 2, 0), Budget(1, 1, 0, 3)}

\* For liveness: two generations, two supervisors, a subscriber, or two frames, of which
\* the second finds the channel full.
MCLiveBudgets == {Budget(1, 2, 0, 0), Budget(2, 1, 0, 0), Budget(1, 1, 1, 0), Budget(1, 1, 0, 2)}

\* Nothing is promised of a streamer that is started again after its context has ended,
\* and again never becomes FALSE: what comes after is not looked at.
NotAgain == ~again
=============================================================================
