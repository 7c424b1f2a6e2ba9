------------------------ MODULE MCSchoolChangeQueue ------------------------
(***************************************************************************)
(* Small instances of the queue.                                           *)
(***************************************************************************)
EXTENDS SchoolChangeQueue, FiniteSetsExt, TLC

\* Sources, pins and publications are interchangeable.
AllSymmetry == Permutations(Sources) \cup Permutations(Pins) \cup Permutations(Publications)

\* A row is made with revision 1, and every claim, acknowledgement and failure
\* adds 1.  Whatever is called on whichever request, the revisions together
\* stay within MaxEffort; a single request may take all of it.
CONSTANT MaxEffort
Effort(rows) == LET Add(r, n) == n + rows[r].revision IN FoldSet(Add, 0, Requests)
AnyRevision == [r \in Requests |-> MaxEffort]
BoundedSpec == QueueInit /\ [][QueueNext /\ Effort(row') <= MaxEffort]_queueVars
=============================================================================
