------------------------------ MODULE Samples -------------------------------
(* What the dashboard's queries share: the window and the bucket of a request  *)
(* and the clock, which passes of the collectors move on.                      *)
EXTENDS Integers, FiniteSets, FiniteSetsExt, Functions

CONSTANTS Window, BucketSize,  \* of the request, in seconds
          Steps      \* seconds between two passes

ASSUME SamplesAssumption ==
  /\ Window \in Nat \ {0} /\ BucketSize \in Nat \ {0}
  /\ Steps \subseteq Nat \ {0}

VARIABLES now,    \* seconds
          passes  \* passes of the collectors so far

\* bucketExpr.
Bucket(t) == t \div BucketSize

\* WHERE ts > now() - window.
Recent(rows) == {r \in rows : r.ts > now - Window}
=============================================================================
