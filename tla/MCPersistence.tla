---------------------------- MODULE MCPersistence ----------------------------
(* Instances of Persistence for TLC.                                       *)
EXTENDS Persistence, TLC

CONSTANTS p1, p2

MCPids == {p1, p2}
OnePid == {p1}

(* Children are interchangeable: sound for the runs that check no liveness. *)
PidSymmetry == Permutations(MCPids)

(* What the next steps depend on when there are no save points: nothing of *)
(* a server that is down, and no temporary file that nobody has open, as   *)
(* such a file is only ever truncated.                                     *)
Down == status \in {"off", "crashed", "refused"}
Held == {saver[s].fd : s \in Savers} \ {"gone"}
Course == <<IF Down THEN <<status = "refused">> ELSE <<status, stop, db, bg_saving, draws>>,
            written, saver, runs, faults,
            [f \in Held \cup {"dump"} |-> <<disk[f], harm[f]>>]>>

NoSavePoints == {}
(* One change after more than 0 seconds; two changes after more than 1.    *)
SavePoints == {[seconds |-> 1, changes |-> 1], [seconds |-> 0, changes |-> 2]}
=============================================================================
