----------------------------- MODULE FailoverMC -----------------------------
(***************************************************************************)
(* Instances of Failover for TLC.                                          *)
(***************************************************************************)
EXTENDS Failover, TLC

CONSTANTS a, b

OneProvider == [chain |-> <<a>>, leaves |-> {}]
TwoProviders == [chain |-> <<a, b>>, leaves |-> {"cancelled", "stopped"}]
Both == {OneProvider, TwoProviders}
Cancelled == {[chain |-> <<a>>, leaves |-> {"cancelled"}]}
Symmetric == Permutations(Calls)

=============================================================================
