----------------------------- MODULE QueueJobsMC -----------------------------
(***************************************************************************)
(* Instances of QueueJobs for TLC.                                         *)
(***************************************************************************)
EXTENDS QueueJobs, TLC

CONSTANTS l1, l2, p1, p2

Symmetric == Permutations(Jobs)

\* Setups in which the queue keeps its promise: one loop per process with any fault,
\* or the loops of one process (which share its identity) without stalls or lost replies.
OwnLoops == [procOf |-> (l1 :> p1) @@ (l2 :> p2), kinds |-> {"crash", "stall", "store", "reply"}]
SharedLoops == [procOf |-> (l1 :> p1) @@ (l2 :> p1), kinds |-> {"crash", "store"}]
OwnUnstalled == [OwnLoops EXCEPT !.kinds = @ \ {"stall"}]
Sound == {OwnLoops, OwnUnstalled, SharedLoops}

\* Several loops of a process: a lease that lapses under one of them, and a complete()
\* of one of them whose reply is lost.
StalledShared == {[procOf |-> (l1 :> p1) @@ (l2 :> p1), kinds |-> {"stall"}]}
RepliesShared == {[procOf |-> (l1 :> p1) @@ (l2 :> p1), kinds |-> {"reply"}]}

=============================================================================
