----------------------------- MODULE MCAgentRuns -----------------------------
(* AgentRuns on small instances.                                            *)
EXTENDS AgentRuns, TLC

NoServices == {}
OutsideCalls == Services \ {"postgres"}
OutsideExceptRedis == OutsideCalls \ {"redis"}
CallsOutcome == {"postgres", "firestore", "anthropic"}

\* Workers are interchangeable: no constant but the set itself names one.
WorkerSymmetry == Permutations(Workers)

=============================================================================
