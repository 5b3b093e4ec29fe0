----------------------------- MODULE Persistence -----------------------------
(***************************************************************************)
(* How cutis keeps its dataset on disk: SaveDB, SaveDBBackground, LoadDB   *)
(* and ServerCron of src/src/server/server.c, the SAVE, BGSAVE and         *)
(* SHUTDOWN commands of src/src/commands/command.c, and the main of        *)
(* src/src/cutis.c that loads the dump when the server starts again.       *)
(*                                                                         *)
(* The actors are the server process and the children it forks to save.    *)
(* A child owns a copy of the dataset and survives the server that forked  *)
(* it; both run SaveDB, each of whose system calls is a step here, so the  *)
(* steps of the savers interleave with each other and with the commands.   *)
(*                                                                         *)
(* The dataset is abstracted to a version: every write command makes a     *)
(* version nobody has held before, larger than all the earlier ones, and   *)
(* version 0 is the empty dataset.  A file is a sequence of Blocks blocks, *)
(* each holding the part of some version that one flush of the stdio       *)
(* buffer writes; the last block is the one that fclose flushes.           *)
(***************************************************************************)
EXTENDS Integers, FiniteSets

CONSTANTS
  Pids,         \* identities of forked children (bounds how many run at once)
  Main,         \* the server process in its role of a saver
  Blocks,       \* flushes it takes to write a dump
  SaveParams,   \* the configured save points, a set of [seconds, changes]
  Commands,     \* the commands clients send: a subset of AllCommands
  Faults,       \* what the environment may do: a subset of AllFaults
  MaxWrites,    \* bound: versions ever made
  MaxDraws,     \* bound: foreground saves of one run of the server
  MaxRuns,      \* bound: runs of the server
  MaxFaults,    \* bound: saves that the environment makes fail
  MaxSince      \* clock saturation: no save point waits this long

AllCommands == {"save", "bgsave", "shutdown"}

AllFaults == {"write_fails",   \* fopen, or a flush inside fwrite, fails
              "flush_fails",   \* the flush inside fclose fails
              "rename_fails",  \* rename fails
              "fork_fails",    \* fork returns -1
              "child_killed",  \* a saving child is killed by a signal
              "server_killed", \* the server dies without CleanServer
              "interrupt",     \* SIGINT
              "quick_restart", \* the server starts while an old child saves
              "overlap",       \* a client sends SAVE or SHUTDOWN while a child saves
              "same_second"}   \* two savers open their file in one second

ASSUME SaverAssumption ==
  /\ Main \notin Pids
  /\ {"dump", "gone"} \cap (Pids \cup {Main}) = {}

ASSUME BlocksAssumption == Blocks \in Nat \ {0}

ASSUME SaveParamAssumption ==
  /\ MaxSince \in Nat
  /\ \A p \in SaveParams : p.seconds \in 0 .. MaxSince - 1 /\ p.changes \in Nat

ASSUME EnvironmentAssumption ==
  /\ Commands \subseteq AllCommands
  /\ Faults \subseteq AllFaults

ASSUME BoundAssumption ==
  /\ MaxWrites \in Nat
  /\ MaxDraws \in Nat
  /\ MaxRuns \in Nat \ {0}
  /\ MaxFaults \in Nat

VARIABLES
  status,     \* what the server process is doing
  stop,       \* AeStop was called: the pass under way is the last one
  db,         \* the version in memory
  written,    \* the largest version ever made
  dirty,      \* server->dirty
  since,      \* now - server->last_save, saturated at MaxSince
  bg_saving,  \* server->bg_saving
  draws,      \* calls of random() by this run of the server
  saver,      \* the state of SaveDB in each process that may run it
  disk,       \* the temporary files and the dump
  harm,       \* what is wrong with each of them
  runs,       \* runs of the server so far
  faults,     \* failed saves so far
  (* History, read by the properties only. *)
  forked,     \* the version in memory at the last SaveDBBackground
  reported,   \* the newest version whose save was reported a success, since
              \* a damaged dump was last loaded
  deceived,   \* that report rests on a save that never took place
  acked       \* the newest version a client was told of

server == <<status, stop, db, dirty, since, bg_saving, draws>>
history == <<forked, reported, deceived, acked>>
vars == <<server, written, saver, disk, harm, runs, faults, history>>

Savers == Pids \cup {Main}
Versions == 0 .. MaxWrites + MaxRuns
Hole == -1                  \* a block that no saver has flushed
NoFile == <<>>              \* what is found where there is no dump
Contents == [1 .. Blocks -> Versions \cup {Hole}]
NewFile == [b \in 1 .. Blocks |-> Hole]

(* A block counts as written also when part of it was lost, so that it is  *)
(* known which save each block of the dump is from; the loss is kept here. *)
Harms == {"none",
          "cut",     \* the end is missing
          "torn",    \* bytes before the end are missing
          "mixed"}   \* another saver has opened the file
Whole(v) == [b \in 1 .. Blocks |-> v]

Statuses == {"serving",     \* in AeMain
             "save",        \* blocked in SaveDB on behalf of SAVE
             "shutdown",    \* blocked in SaveDB on behalf of SHUTDOWN
             "off",         \* exited through CleanServer
             "crashed",     \* died without CleanServer
             "refused"}     \* exit(1) in LoadDB

Working == {"open", "write", "rename"}       \* inside SaveDB
Exited == {"succeeded", "failed", "killed"}  \* a zombie of the server

(***************************************************************************)
(* A saver's descriptor designates a temporary file by the key under which *)
(* disk holds it, or the dump once another saver has renamed the file, or  *)
(* "gone" when no name leads to the file any more.  The temporary name     *)
(* still exists exactly when fd is a key of a temporary file.              *)
(***************************************************************************)
Temps == Savers
Idle == [pc |-> "free", snap |-> 0, off |-> 0, fd |-> "gone",
         draw |-> 0, recent |-> FALSE, orphan |-> FALSE]

SaverStates == [pc : {"free"} \cup Working \cup Exited,
                snap : Versions,          \* the version being saved
                off : 0 .. Blocks,        \* blocks flushed
                fd : Temps \cup {"dump", "gone"},
                draw : 0 .. MaxDraws,     \* random() for the temporary name
                recent : BOOLEAN,         \* opened in the current second
                orphan : BOOLEAN]         \* the server that forked it is gone

TypeOK ==
  /\ status \in Statuses
  /\ stop \in BOOLEAN
  /\ db \in Versions
  /\ written \in Versions
  /\ dirty \in Nat
  /\ since \in 0 .. MaxSince
  /\ bg_saving \in BOOLEAN
  /\ draws \in 0 .. MaxDraws
  /\ saver \in [Savers -> SaverStates]
  /\ disk \in [Temps \cup {"dump"} -> Contents \cup {NoFile}]
  /\ \A t \in Temps : disk[t] \in Contents
  /\ harm \in [Temps \cup {"dump"} -> Harms]
  /\ runs \in 1 .. MaxRuns
  /\ faults \in 0 .. MaxFaults
  /\ forked \in Versions
  /\ reported \in Versions
  /\ deceived \in BOOLEAN
  /\ acked \in Versions

-----------------------------------------------------------------------------
(* InitServer, and a LoadDB that finds no dump. *)
Init ==
  /\ status = "serving" /\ stop = FALSE
  /\ db = 0 /\ written = 0 /\ dirty = 0 /\ since = 0
  /\ bg_saving = FALSE /\ draws = 0
  /\ saver = [s \in Savers |-> Idle]
  /\ disk = [f \in Temps \cup {"dump"} |-> IF f = "dump" THEN NoFile ELSE NewFile]
  /\ harm = [f \in Temps \cup {"dump"} |-> "none"]
  /\ runs = 1 /\ faults = 0
  /\ forked = 0 /\ reported = 0 /\ deceived = FALSE /\ acked = 0

(* The environment makes one more save fail. *)
Strikes(fault) ==
  /\ fault \in Faults
  /\ faults < MaxFaults
  /\ faults' = faults + 1

Newer(v, w) == IF v < w THEN w ELSE v

RecordSavedBySubtraction(v, done) ==  \* mutant
  /\ dirty' = dirty - v /\ since' = 0 /\ reported' = Newer(reported, v)
  /\ deceived' = (~ done \/ (deceived /\ v < reported))

(* What the server records when it takes version v for saved; done says    *)
(* whether some SaveDB has returned with success.                          *)
RecordSaved(v, done) ==
  /\ dirty' = 0
  /\ since' = 0
  /\ reported' = Newer(reported, v)
  /\ deceived' = (~ done \/ (deceived /\ v < reported))

-----------------------------------------------------------------------------
(* Commands that change the dataset; the reply of one executed in the last *)
(* pass of the event loop is never sent.                                   *)
Write ==
  /\ status = "serving" /\ written < MaxWrites
  /\ written' = written + 1
  /\ db' = written + 1
  /\ dirty' = dirty + 1
  /\ acked' = IF stop THEN acked ELSE written + 1
  /\ UNCHANGED <<status, stop, since, bg_saving, draws, saver, disk, harm, runs,
                 faults, forked, reported, deceived>>

Tick ==
  /\ since' = IF since < MaxSince THEN since + 1 ELSE since
  /\ saver' = [s \in Savers |-> [saver[s] EXCEPT !.recent = FALSE]]
  /\ UNCHANGED <<status, stop, db, dirty, bg_saving, draws, written, disk,
                 harm, runs, faults, history>>

-----------------------------------------------------------------------------
(* SaveDB, one action per system call.                                     *)

(* The temporary name is made of time() and of random().  The generator is *)
(* never seeded and a child inherits its state, so two savers with as many *)
(* draws behind them take the same name when they open in the same second. *)
SameName(s) == {t \in Savers \ {s} :
  /\ saver[t].pc \in {"write", "rename"}
  /\ saver[t].fd \in Temps
  /\ saver[t].recent
  /\ saver[t].draw = saver[s].draw}

Unused(f) == \A t \in Savers : saver[t].fd # f

FixedTemp(s) == {Main}  \* mutant

FreshTemp(s) == IF Unused(s) THEN {s} ELSE {f \in Temps : Unused(f)}

(* fopen(tmpfile, "w") creates the file, or truncates the other saver's.   *)
OpenTemp(s) ==
  /\ saver[s].pc = "open"
  /\ SameName(s) # {} => "same_second" \in Faults
  /\ \E f \in IF SameName(s) = {} THEN FreshTemp(s)
                                  ELSE {saver[t].fd : t \in SameName(s)} :
       /\ disk' = [disk EXCEPT ![f] = NewFile]
       /\ harm' = [harm EXCEPT ![f] = IF SameName(s) = {} THEN "none" ELSE "mixed"]
       /\ saver' = [saver EXCEPT ![s].pc = "write", ![s].fd = f,
                                 ![s].recent = TRUE]
  /\ UNCHANGED <<server, written, runs, faults, history>>

(* The next block of saver s reaches the file its descriptor designates.   *)
Flush(s) ==
  IF saver[s].fd = "gone"
  THEN disk
  ELSE [disk EXCEPT ![saver[s].fd][saver[s].off + 1] = saver[s].snap]

(* The flush of saver s fails, in part at least, and the save goes on.     *)
Harmed(s, how) ==
  IF saver[s].fd = "gone"
  THEN harm
  ELSE [harm EXCEPT ![saver[s].fd] = IF @ = "none" THEN how ELSE @]

(* An fwrite that fills the buffer and flushes it.  The fwrite of a key, a *)
(* value or an element is taken for good when it returns anything but 0;   *)
(* when its flush fails it returns the number of bytes that still went     *)
(* into the buffer, and what the buffer held is lost.                      *)
WriteBlock(s) ==
  /\ saver[s].pc = "write" /\ saver[s].off < Blocks - 1
  /\ disk' = Flush(s)
  /\ \/ UNCHANGED <<harm, faults>>
     \/ harm' = Harmed(s, "torn") /\ Strikes("write_fails")
  /\ saver' = [saver EXCEPT ![s].off = @ + 1]
  /\ UNCHANGED <<server, written, runs, history>>

(* fclose flushes the rest; SaveDB does not look at what it returns.       *)
CloseTemp(s) ==
  /\ saver[s].pc = "write" /\ saver[s].off = Blocks - 1
  /\ disk' = Flush(s)
  /\ \/ UNCHANGED <<harm, faults>>
     \/ harm' = Harmed(s, "cut") /\ Strikes("flush_fails")
  /\ saver' = [saver EXCEPT ![s].pc = "rename", ![s].off = Blocks]
  /\ UNCHANGED <<server, written, runs, history>>

(* SaveDB returns: the child exits with 0 or 1, the server runs the rest   *)
(* of SaveDB and of SaveCommand or ShutDownCommand.                        *)
AfterReturn(s, ok) ==
  IF s = Main
  THEN Idle
  ELSE IF saver[s].orphan
  THEN Idle
  ELSE [Idle EXCEPT !.pc = IF ok THEN "succeeded" ELSE "failed"]

ServerReturnsRegardless(s, ok) ==  \* mutant
  IF s = Main
  THEN /\ status' = "serving"
       /\ stop' = (stop \/ status = "shutdown")
       /\ IF ok THEN RecordSaved(saver[s].snap, TRUE)
                ELSE UNCHANGED <<dirty, since, reported, deceived>>
  ELSE UNCHANGED <<status, stop, dirty, since, reported, deceived>>

ServerReturns(s, ok) ==
  IF s = Main
  THEN /\ status' = "serving"
       /\ IF ok
          THEN /\ RecordSaved(saver[s].snap, TRUE)
               /\ stop' = (stop \/ status = "shutdown")
          ELSE UNCHANGED <<dirty, since, reported, deceived, stop>>
  ELSE UNCHANGED <<status, stop, dirty, since, reported, deceived>>

(* The savers once name f has been taken away: those that had the file     *)
(* under that name open now hold it under the name `now`.                  *)
Rebound(s, ok, f, now) ==
  [t \in Savers |->
     IF t = s THEN AfterReturn(s, ok)
     ELSE IF saver[t].fd = f THEN [saver[t] EXCEPT !.fd = now]
     ELSE IF now = "dump" /\ saver[t].fd = "dump"
          THEN [saver[t] EXCEPT !.fd = "gone"]
     ELSE saver[t]]

(* rename(tmpfile, filename): the dump becomes the file now under that     *)
(* name, or there is no such file any more.                                *)
RenameTemp(s) ==
  LET f == saver[s].fd IN
  /\ saver[s].pc = "rename"
  /\ IF f \in Temps
     THEN /\ disk' = [disk EXCEPT !["dump"] = disk[f]]
          /\ harm' = [harm EXCEPT !["dump"] = harm[f]]
          /\ saver' = Rebound(s, TRUE, f, "dump")
          /\ ServerReturns(s, TRUE)
     ELSE /\ UNCHANGED <<disk, harm>>
          /\ saver' = [saver EXCEPT ![s] = AfterReturn(s, FALSE)]
          /\ ServerReturns(s, FALSE)
  /\ UNCHANGED <<db, bg_saving, draws, written, runs, faults, forked, acked>>

FailSaveRenamed(s) ==  \* mutant
  /\ saver[s].pc \in Working
  /\ saver[s].pc = "write" => saver[s].off < Blocks - 1
  /\ Strikes(IF saver[s].pc = "rename" THEN "rename_fails" ELSE "write_fails")
  /\ IF saver[s].fd \in Temps
     THEN /\ disk' = [disk EXCEPT !["dump"] = disk[saver[s].fd]]
          /\ harm' = [harm EXCEPT !["dump"] = harm[saver[s].fd]]
          /\ saver' = Rebound(s, FALSE, saver[s].fd, "dump")
     ELSE UNCHANGED <<disk, harm>> /\ saver' = [saver EXCEPT ![s] = AfterReturn(s, FALSE)]
  /\ ServerReturns(s, FALSE)
  /\ UNCHANGED <<db, bg_saving, draws, written, runs, forked, acked>>

(* A call fails and SaveDB notices (an fwrite when it returns 0): unlink   *)
(* the temporary file, return.                                             *)
(* What the last fwrite calls put in the buffer, only fclose flushes.      *)
FailSave(s) ==
  /\ saver[s].pc \in Working
  /\ saver[s].pc = "write" => saver[s].off < Blocks - 1
  /\ Strikes(IF saver[s].pc = "rename" THEN "rename_fails" ELSE "write_fails")
  /\ saver' = IF saver[s].fd \in Temps
              THEN Rebound(s, FALSE, saver[s].fd, "gone")
              ELSE [saver EXCEPT ![s] = AfterReturn(s, FALSE)]
  /\ ServerReturns(s, FALSE)
  /\ UNCHANGED <<db, bg_saving, draws, written, disk, harm, runs, forked, acked>>

SaveStep(s) == OpenTemp(s) \/ WriteBlock(s) \/ CloseTemp(s) \/ RenameTemp(s)

-----------------------------------------------------------------------------
(* SaveDBBackground: the parent branch is also the one a failed fork takes. *)
Fork ==
  \/ /\ \E p \in Pids :
          /\ saver[p].pc = "free"
          /\ saver' = [saver EXCEPT ![p] = [Idle EXCEPT !.pc = "open",
                                            !.snap = db, !.draw = draws]]
     /\ UNCHANGED faults
  \/ saver' = saver /\ Strikes("fork_fails")

SaveDBBackgroundUnmarked ==  \* mutant
  IF bg_saving
  THEN UNCHANGED <<bg_saving, forked, saver, faults>>
  ELSE Fork /\ UNCHANGED bg_saving /\ forked' = db

SaveDBBackground ==
  IF bg_saving
  THEN UNCHANGED <<bg_saving, forked, saver, faults>>
  ELSE /\ Fork
       /\ bg_saving' = TRUE
       /\ forked' = db

BgsaveCommand ==
  /\ status = "serving" /\ "bgsave" \in Commands
  /\ IF bg_saving
     THEN UNCHANGED <<bg_saving, forked, saver, faults>>
     ELSE SaveDBBackground
  /\ UNCHANGED <<status, stop, db, dirty, since, draws, written, disk, harm,
                 runs, reported, deceived, acked>>

(* SaveCommand and ShutDownCommand call SaveDB in the server process, which *)
(* does nothing else until it returns.                                      *)
EnterSaveDB(command) ==
  /\ status = "serving" /\ command \in Commands /\ draws < MaxDraws
  /\ "overlap" \notin Faults => \A p \in Pids : saver[p].pc \notin Working
  /\ status' = command
  /\ draws' = draws + 1
  /\ saver' = [saver EXCEPT ![Main] = [Idle EXCEPT !.pc = "open",
                                       !.snap = db, !.draw = draws]]
  /\ UNCHANGED <<stop, db, dirty, since, bg_saving, written, disk, harm, runs,
                 faults, history>>

SaveCommand == EnterSaveDB("save")
ShutDownCommand == EnterSaveDB("shutdown")

-----------------------------------------------------------------------------
(* ServerCron *)
Children == {p \in Pids : saver[p].pc # "free" /\ ~ saver[p].orphan}
Zombies == {p \in Children : saver[p].pc \in Exited}

ReapedAlwaysSaved(success, done) ==  \* mutant
  bg_saving' = FALSE /\ RecordSaved(forked, TRUE)

ReapedUncleared(success, done) ==  \* mutant
  /\ UNCHANGED bg_saving
  /\ IF success
     THEN RecordSaved(forked, done)
     ELSE UNCHANGED <<dirty, since, reported, deceived>>

Reaped(success, done) ==
  /\ bg_saving' = FALSE
  /\ IF success
     THEN RecordSaved(forked, done)
     ELSE UNCHANGED <<dirty, since, reported, deceived>>

(* wait4(-1, &status, WNOHANG): 0 while the child runs; a child, whose     *)
(* WEXITSTATUS is 0 also when a signal ended it; or -1 when there is no    *)
(* child, and then status was never assigned.                              *)
ReapChild ==
  \/ /\ Children # {} /\ Zombies = {}
     /\ UNCHANGED <<saver, bg_saving, dirty, since, reported, deceived>>
  \/ \E p \in Zombies :
       /\ saver' = [saver EXCEPT ![p] = Idle]
       /\ Reaped(saver[p].pc # "failed", saver[p].pc = "succeeded")
  \/ /\ Children = {}
     /\ saver' = saver
     /\ \E success \in BOOLEAN : Reaped(success, FALSE)

SaveDueStrict ==  \* mutant
  \E p \in SaveParams : dirty > p.changes /\ since > p.seconds

SaveDue == \E p \in SaveParams : dirty >= p.changes /\ since > p.seconds

ServerCron ==
  /\ status = "serving"
  /\ IF bg_saving
     THEN ReapChild /\ UNCHANGED <<forked, faults>>
     ELSE /\ UNCHANGED <<dirty, since, reported, deceived>>
          /\ IF SaveDue
             THEN SaveDBBackground
             ELSE UNCHANGED <<bg_saving, forked, saver, faults>>
  /\ UNCHANGED <<status, stop, db, draws, written, disk, harm, runs, acked>>

-----------------------------------------------------------------------------
(* The ends of the processes.                                              *)

(* A child killed by a signal leaves its temporary file behind.            *)
ChildKilled(p) ==
  /\ saver[p].pc \in Working
  /\ Strikes("child_killed")
  /\ saver' = [saver EXCEPT ![p] = IF saver[p].orphan
                                   THEN Idle ELSE [Idle EXCEPT !.pc = "killed"]]
  /\ UNCHANGED <<server, written, disk, harm, runs, history>>

(* Without their parent, zombies disappear and saving children carry on.   *)
LeaveOrphans ==
  saver' = [s \in Savers |-> IF s \in Pids /\ saver[s].pc \in Working
                             THEN [saver[s] EXCEPT !.orphan = TRUE]
                             ELSE Idle]

InterruptHandler ==
  /\ status = "serving" /\ "interrupt" \in Faults
  /\ stop' = TRUE
  /\ UNCHANGED <<status, db, dirty, since, bg_saving, draws, written, saver,
                 disk, harm, runs, faults, history>>

(* AeMain returns and main calls CleanServer.                              *)
Exit ==
  /\ status = "serving" /\ stop
  /\ status' = "off"
  /\ LeaveOrphans
  /\ UNCHANGED <<stop, db, dirty, since, bg_saving, draws, written, disk,
                 harm, runs, faults, history>>

ServerKilled ==
  /\ status \in {"serving", "save", "shutdown"} /\ "server_killed" \in Faults
  /\ status' = "crashed"
  /\ LeaveOrphans
  /\ UNCHANGED <<stop, db, dirty, since, bg_saving, draws, written, disk,
                 harm, runs, faults, history>>

-----------------------------------------------------------------------------
(* LoadDB                                                                  *)
Dump == disk["dump"]
Missing(c) == c = NoFile
Complete(c) == \E v \in Versions : c = Whole(v)
Intact == Complete(Dump) /\ harm["dump"] = "none"

LoadNothing ==  \* mutant
  status' = "serving" /\ db' = 0 /\ written' = written

(* A damaged dump is taken for none when its signature is hit, ends the    *)
(* server when it is read to a premature end, and is taken for a dataset   *)
(* nobody ever wrote, which gets a version of its own, when the bytes that *)
(* are left make one: a dump that is only cut at the end never does, and   *)
(* has lost its signature only if it had no more than one block.           *)
LoadDB ==
  \/ /\ Missing(Dump)
     /\ status' = "serving" /\ db' = 0 /\ written' = written
  \/ /\ Intact
     /\ status' = "serving" /\ db' = Dump[1] /\ written' = written
  \/ /\ ~ Missing(Dump) /\ ~ Intact
     /\ \/ status' = "refused" /\ db' = 0 /\ written' = written
        \/ /\ harm["dump"] = "cut" => Blocks = 1
           /\ status' = "serving" /\ db' = 0 /\ written' = written
        \/ /\ harm["dump"] # "cut"
           /\ status' = "serving" /\ db' = written + 1 /\ written' = written + 1

(* main again: InitServerConfig, InitServer, LoadDB, StartServer.          *)
Restart ==
  /\ status \in {"off", "crashed"} /\ runs < MaxRuns
  /\ "quick_restart" \notin Faults => \A p \in Pids : saver[p].pc = "free"
  /\ LoadDB
  /\ stop' = FALSE /\ dirty' = 0 /\ since' = 0
  /\ bg_saving' = FALSE /\ draws' = 0
  /\ saver' = [s \in Savers |-> [saver[s] EXCEPT !.recent = FALSE]]
  /\ runs' = runs + 1
  /\ forked' = 0 /\ acked' = db'
  /\ reported' = IF Missing(Dump) \/ Intact THEN reported ELSE 0
  /\ UNCHANGED <<disk, harm, faults, deceived>>

Next ==
  \/ Write \/ Tick \/ ServerCron
  \/ BgsaveCommand \/ SaveCommand \/ ShutDownCommand
  \/ \E s \in Savers : SaveStep(s) \/ FailSave(s)
  \/ \E p \in Pids : ChildKilled(p)
  \/ InterruptHandler \/ Exit \/ ServerKilled \/ Restart

Spec == Init /\ [][Next]_vars

(***************************************************************************)
(* Scheduling: the clock runs, a process that is not killed runs, and      *)
(* every pass of the event loop ends with the timers that are due, so      *)
(* commands cannot keep ServerCron from running for ever.                  *)
(***************************************************************************)
Fairness ==
  /\ WF_vars(Tick)
  /\ SF_vars(ServerCron)
  /\ \A s \in Savers : WF_vars(SaveStep(s))
  /\ WF_vars(Exit)

FairSpec == Spec /\ Fairness

-----------------------------------------------------------------------------
(* Properties *)

(* What is stored, as the abstract specification sees it.                  *)
Stored == IF Missing(Dump) THEN 0
          ELSE IF Intact THEN Dump[1] ELSE Hole

Taken == [s \in Savers |-> IF saver[s].pc \in Working
                           THEN saver[s].snap ELSE Hole]

(* The faults that SaveDB lets pass.                                       *)
Unnoticed == {"write_fails", "flush_fails", "same_second"}

Store == INSTANCE SnapshotStore
           WITH mem <- db, made <- written, stored <- Stored, taken <- Taken,
                NotSaving <- Hole, Damaged <- Hole,
                MayDamage <- Faults \cap Unnoticed # {}

(* The files, the forks and the restarts together behave as a store that   *)
(* goes from one snapshot to another: the dump changes only when a save    *)
(* succeeds (server.c:487-495), to the dataset that saver was given when   *)
(* it began, and LoadDB brings back the dump and nothing else.  A fault    *)
(* that SaveDB lets pass may make it damage the dump instead, and nothing  *)
(* else does.                                                              *)
ImplementsStore == Store!Spec

(* The version of the dump, damaged or not; 0, the empty dataset, when     *)
(* there is none.                                                          *)
DumpVersion == IF Dump = NoFile THEN 0 ELSE Dump[1]

(* Background saving (server.c:499-521, 733-744) never has two children    *)
(* of one server at work, and none that the server has forgotten: while a  *)
(* child exists, saving or waiting to be reaped, bg_saving is set.         *)
AtMostOneChild ==
  /\ Children # {} => bg_saving
  /\ \A p, q \in Children : p = q

(* server.c:485-487: the dump is replaced atomically and only by a file    *)
(* that SaveDB has come to the end of, so at every instant, whichever      *)
(* processes have died, it is missing or made by one save of one version;  *)
(* unless two savers have had one temporary file.  It may still lack bytes *)
(* that a failing flush has lost: see DumpIntact.                          *)
DumpWhole == Missing(Dump) \/ Complete(Dump) \/ harm["dump"] = "mixed"

(* server.c:485-486: "Use RENAME to make sure the DB file is changed       *)
(* atomically only if the generate DB file is OK."                         *)
DumpIntact == Missing(Dump) \/ Intact

(* Whatever the server reported as saved (the OK of SAVE, a new LASTSAVE,  *)
(* dirty set to 0; server.c:494-495 and 736-739) is what the dump was made *)
(* from, or older than that, from then on.  Left out are the reports that  *)
(* rest on a child killed by a signal or never forked; and whether a flush *)
(* damaged that dump is the matter of DumpIntact: the reports made before  *)
(* a damaged dump was loaded count no more.                                *)
LastSaveHonest == DumpVersion >= reported \/ deceived

(* ShutDownCommand (command.c:879-888) stops the server only after a save  *)
(* that took in every write that was acknowledged: once the server is off, *)
(* the dump was made from a dataset that has them all.  A flush that fails *)
(* unnoticed may damage this last dump, too: see DumpIntact.               *)
ShutdownLosesNothing == status = "off" => DumpVersion >= acked

(* server.c:485-492: a save, whether it ends well or fails at any call,    *)
(* never puts an older snapshot in the place of a newer one that can be    *)
(* read back; what the server makes of a damaged one may well be older.    *)
DumpNeverOlder == [][DumpIntact => DumpVersion' >= DumpVersion]_vars

(* ServerCron (server.c:731-744): a background save ends, whether its      *)
(* child succeeds, fails or is killed or was never forked, and the server  *)
(* notices: BGSAVE is possible again.                                      *)
BgsaveEnds == bg_saving ~> (~ bg_saving \/ status # "serving")

(* ServerCron (server.c:745-759): with enough changes for a save point and *)
(* no background save under way, a save of the dataset as it is now, or of *)
(* a later one, replaces the dump, even if some of the attempts fail and   *)
(* say so; unless the server takes a child that was killed or never forked *)
(* for a success.                                                          *)
AutoSave ==
  \A v \in Versions :
    (/\ db = v /\ ~ bg_saving /\ status = "serving"
     /\ \E p \in SaveParams : dirty >= p.changes)
      ~> (DumpVersion >= v \/ status # "serving" \/ deceived)
=============================================================================
