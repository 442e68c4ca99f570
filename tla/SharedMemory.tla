---------------------------- MODULE SharedMemory ----------------------------
(***************************************************************************)
(* The shared memory programs of LAB_16 checked together: either the       *)
(* increment programs (module IncrProg) or one of the reader/writer and    *)
(* client/server pairs (module SharedSegment) is what a session runs.      *)
(***************************************************************************)
EXTENDS IncrProg, SharedSegment

VARIABLE session    \* "increment" or "segment"

allVars == <<session, vars, segVars>>

\* The part that is not run stays as it is before any process is started.
SessionInit ==
  /\ Init /\ SegmentInit
  /\ \/ session = "increment" /\ pair = "posix_1"
     \/ session = "segment" /\ api = "posix"

SessionNext ==
  \/ session = "increment" /\ Next /\ UNCHANGED <<session, segVars>>
  \/ session = "segment" /\ SegmentNext /\ UNCHANGED <<session, vars>>

SessionSpec ==
  SessionInit /\ [][SessionNext]_allVars /\ Fairness /\ SegmentFairness
=============================================================================
