---------------------------- MODULE PageIndexMC -----------------------------
(***************************************************************************)
(* Instances of PageIndex for TLC.                                         *)
(***************************************************************************)
EXTENDS PageIndex, TLC

CONSTANTS w1, w2, i1, i2

\* One build, two workers: the build is delivered twice, fails, is repeated, and its
\* document is deleted afterwards.
Repeated == [workers |-> {w1, w2}, indexes |-> {i1},
             kinds |-> {"crash", "stall", "error", "fail", "timeout", "deleteIdle", "wait"}]

\* One build, two workers, and everything at once.
Anything == [workers |-> {w1, w2}, indexes |-> {i1},
             kinds |-> {"crash", "stall", "error", "restart", "late", "cancel", "delete",
                        "timeout"}]

\* One build whose child may end at any point, with what it has stored.
Orphans == [workers |-> {w1}, indexes |-> {i1},
            kinds |-> {"crash", "error", "fail", "orphan", "cancel", "deleteIdle"}]

\* Two builds of one document, one worker.
TwoBuilds == [workers |-> {w1}, indexes |-> {i1, i2},
              kinds |-> {"crash", "fail", "lost", "reconcile", "cancel", "deleteIdle"}]

\* One build whose document is deleted at any time, and a service that restarts.
Deleted == [workers |-> {w1, w2}, indexes |-> {i1},
            kinds |-> {"crash", "error", "fail", "restart", "delete", "wait"}]
All == {Repeated, Anything, Orphans, TwoBuilds, Deleted}

\* A deletion while the build is under way, and nothing else.
InFlight == {[workers |-> {w1, w2}, indexes |-> {i1}, kinds |-> {"delete"}]}

\* A child that may end after storing, alone.
Orphaning == {Orphans}

=============================================================================
