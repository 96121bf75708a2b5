---------------------------- MODULE DelegationMC ----------------------------
(***************************************************************************)
(* Instances of Delegation for TLC.                                        *)
(***************************************************************************)
EXTENDS Delegation, TLC

Symmetric == Permutations(Nodes) \cup Permutations(Pool)
AllPoints == Points
ButSignal == Points \ {"signal"}

\* What the hand-over is built for; everything it is exposed to; and single causes.
AsForeseen == [kinds |-> {"crash", "busy"}, points |-> ButSignal, staleFirst |-> TRUE]
Redelivered == [kinds |-> {"crash", "busy", "stall", "signal", "store"}, points |-> AllPoints,
                staleFirst |-> FALSE]
Everything == [kinds |-> {"crash", "busy", "stall", "slow", "store", "signal",
                          "orchestrator", "swallow"}, points |-> AllPoints, staleFirst |-> FALSE]
AllSetups == {AsForeseen, Redelivered, Everything}
OnlySignal == {[AsForeseen EXCEPT !.kinds = {"signal"}]}

=============================================================================
