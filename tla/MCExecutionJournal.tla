-------------------------- MODULE MCExecutionJournal --------------------------
(* A small instance of ExecutionJournal for TLC.                            *)
EXTENDS ExecutionJournal, TLC

Symmetry == Permutations(Accounts) \cup Permutations(LogicalIds)
              \cup Permutations(Plans)
==============================================================================
