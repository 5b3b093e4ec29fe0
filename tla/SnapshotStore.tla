---------------------------- MODULE SnapshotStore ----------------------------
(***************************************************************************)
(* What cutis promises of its persistence, with no files, processes or     *)
(* clocks: a dataset in memory, one complete snapshot of it on disk, and   *)
(* savers that each carry a snapshot taken at one instant.  The disk goes  *)
(* from one complete snapshot to another in a single step, a saver that    *)
(* fails leaves no trace, and a server that starts again finds exactly the *)
(* snapshot that was on disk.  Where faults pass unnoticed a save may      *)
(* leave a damaged snapshot, of which anything may be read, until the next *)
(* save replaces it.                                                       *)
(***************************************************************************)
EXTENDS Naturals

CONSTANTS
  Savers, NotSaving,
  MayDamage,    \* whether faults pass unnoticed
  Damaged       \* what is then stored

VARIABLES
  mem,      \* the version in memory
  made,     \* the number of versions made so far, which is the newest one
  stored,   \* the version on disk
  taken     \* the snapshot each saver carries

Init ==
  /\ mem = 0 /\ made = 0
  /\ stored = 0
  /\ taken = [s \in Savers |-> NotSaving]

(* A command changes the dataset, to one that was never there before. *)
Change ==
  /\ made' = made + 1
  /\ mem' = made + 1
  /\ UNCHANGED <<stored, taken>>

(* A save begins: the saver holds the dataset as it is at this instant. *)
TakeSnapshot(s) ==
  /\ taken[s] = NotSaving
  /\ taken' = [taken EXCEPT ![s] = mem]
  /\ UNCHANGED <<mem, made, stored>>

(* A save succeeds. *)
Install(s) ==
  /\ taken[s] # NotSaving
  /\ stored' = taken[s]
  /\ taken' = [taken EXCEPT ![s] = NotSaving]
  /\ UNCHANGED <<mem, made>>

(* A save damages what is stored, and does not know. *)
Spoil(s) ==
  /\ MayDamage /\ taken[s] # NotSaving
  /\ stored' = Damaged
  /\ taken' = [taken EXCEPT ![s] = NotSaving]
  /\ UNCHANGED <<mem, made>>

(* A save fails, or its process dies. *)
Abandon(s) ==
  /\ taken[s] # NotSaving
  /\ taken' = [taken EXCEPT ![s] = NotSaving]
  /\ UNCHANGED <<mem, made, stored>>

(* The server starts again. *)
Recover ==
  /\ stored # Damaged
  /\ mem' = stored
  /\ UNCHANGED <<made, stored, taken>>

(* Out of a damaged snapshot come no dataset or a new one, never an older. *)
RecoverDamaged ==
  /\ MayDamage /\ stored = Damaged
  /\ \/ mem' = 0 /\ made' = made
     \/ mem' = made + 1 /\ made' = made + 1
  /\ UNCHANGED <<stored, taken>>

Next ==
  \/ Change \/ Recover \/ RecoverDamaged
  \/ \E s \in Savers : TakeSnapshot(s) \/ Install(s) \/ Spoil(s) \/ Abandon(s)

Spec == Init /\ [][Next]_<<mem, made, stored, taken>>
=============================================================================
