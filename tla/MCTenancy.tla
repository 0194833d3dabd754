------------------------------ MODULE MCTenancy ------------------------------
(* Model-checking instances of Tenancy.  Nothing tells people, organizations  *)
(* or requests apart and only invariants are checked, so the instances are    *)
(* symmetric in them.                                                         *)
EXTENDS Tenancy, TLC

Symmetry == Permutations(People) \cup Permutations(Orgs) \cup Permutations(Requests)
              \cup Permutations(Messages) \cup Permutations(RunIds) \cup Permutations(Slugs)

\* A bound: there is a message or a run in a session, not both, for no action on
\* the one reads the other.
MessageOrRun ==
  \/ \A m \in Messages : messages[m] = None
  \/ \A x \in RunIds : runs[x] = None

==============================================================================
