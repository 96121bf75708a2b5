----------------------------- MODULE SchedulesMC -----------------------------
(***************************************************************************)
(* Instances of Schedules for TLC.                                         *)
(***************************************************************************)
EXTENDS Schedules, TLC

Symmetric == Permutations(Replicas)

CatchesUp == [period |-> 2, catchUp |-> "all", overlap |-> "allow", prompt |-> FALSE,
              kinds |-> {"crash", "store", "plan", "switch"}]
Skips == [period |-> 3, catchUp |-> "skip", overlap |-> "allow", prompt |-> FALSE,
          kinds |-> {"crash", "switch", "deploy"}]
OneAtATime == [period |-> 2, catchUp |-> "one", overlap |-> "skip", prompt |-> TRUE,
               kinds |-> {"store", "switch", "deploy"}]
Schedule == {CatchesUp, Skips, OneAtATime}
Late == {[OneAtATime EXCEPT !.prompt = FALSE, !.kinds = {}]}
Deployed == {[OneAtATime EXCEPT !.kinds = {"deploy"}]}
Crashed == {[OneAtATime EXCEPT !.kinds = {"crash"}]}
Burst == {[OneAtATime EXCEPT !.catchUp = "all"]}
Jumping == {[CatchesUp EXCEPT !.kinds = {}]}

=============================================================================
